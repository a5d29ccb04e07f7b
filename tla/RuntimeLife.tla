------------------------------ MODULE RuntimeLife ------------------------------
(***************************************************************************)
(* How the secure execution environment comes up, goes down and comes back.*)
(* Core starts and stops the runtime and probes again while it is          *)
(* unavailable (fren-core/index.js); the adapter boots a host, tears it    *)
(* down and restarts it when it exits (runtime-nanoclaw/index.js); a       *)
(* supervisor spawns the process and keeps its pid in a file               *)
(* (supervisor.js); the host says hello over the bridge (bridge.js).       *)
(*                                                                         *)
(* A start takes minutes and awaits at every line, the next probe does not *)
(* wait for it, and the exit of a process is only an event that comes      *)
(* later.  A job is one start, one stop or one restart under way.          *)
(***************************************************************************)
EXTENDS Naturals, FiniteSets

CONSTANTS Jobs,       \* starts and supervisors, by number
          Hosts,      \* process ids
          Backoffs,   \* RESTART_BACKOFF_MS.length
          MaxCrashes  \* crashes of Core

ASSUME LifeBounds == /\ Jobs \subseteq Nat \ {0} /\ Hosts \subseteq Nat \ {0}
                     /\ Backoffs \in Nat /\ MaxCrashes \in Nat

VARIABLES
  starting,    \* Core: the start it would hand to who asks, 0 for none
  reprobe,     \* Core: the probing interval runs
  rstate,      \* the adapter's state
  stopping,
  restarts,
  timers,      \* restart timers that will fire, by the host whose exit set them
  restartTimer,\* the one that can be cleared, 0 for none
  jobs,        \* starts, stops and restarts under way
  supervisor,  \* the supervisor the adapter holds, 0 for none
  child,       \* supervisor -> the process it believes it has, 0 for none
  owner,       \* process -> its supervisor, 0 when of an earlier life of Core
  alive,       \* processes that run
  exits,       \* processes that ended, and whose exit event is still to come
  pidFile,     \* runtime-host.pid, 0 for none
  listening,   \* the bridge has its socket
  peer,        \* the host that said hello, 0 for none
  crashes

coreVars == <<starting, reprobe>>
hostVars == <<supervisor, child, owner, alive, exits, pidFile>>
linkVars == <<listening, peer>>
backVars == <<restarts, timers, restartTimer>>
lifeVars == <<coreVars, rstate, stopping, backVars, jobs, hostVars, linkVars, crashes>>

Kinds == {"start", "stop", "restart"}

LifeTypeOK ==
  /\ starting \in Jobs \union {0} /\ {reprobe, stopping, listening} \subseteq BOOLEAN
  /\ rstate \in {"stopped", "starting", "ready", "degraded", "unavailable"}
  /\ restarts \in 0..Backoffs /\ timers \subseteq Hosts /\ restartTimer \in Hosts \union {0}
  /\ jobs \subseteq [kind : Kinds, id : Jobs \union Hosts \union {0},
                     at : {"readying", "waiting", "wiring", "syncing", "tearing"},
                     met : BOOLEAN, kills : Hosts \union {0}]
  /\ supervisor \in Jobs \union {0} /\ child \in [Jobs -> Hosts \union {0}]
  /\ owner \in [Hosts -> Jobs \union {0}] /\ alive \subseteq Hosts /\ exits \subseteq Hosts
  /\ pidFile \in Hosts \union {0} /\ peer \in Hosts \union {0} /\ crashes \in Nat

LifeInit ==
  /\ starting = 0 /\ reprobe = FALSE
  /\ rstate = "stopped" /\ stopping = FALSE
  /\ restarts = 0 /\ timers = {} /\ restartTimer = 0 /\ jobs = {}
  /\ supervisor = 0 /\ child = [s \in Jobs |-> 0] /\ owner = [p \in Hosts |-> 0]
  /\ alive = {} /\ exits = {} /\ pidFile = 0
  /\ listening = FALSE /\ peer = 0 /\ crashes = 0

Job(kind, id, at, met, kills) == [kind |-> kind, id |-> id, at |-> at, met |-> met, kills |-> kills]

\* The least process id, and the least number, that nothing refers to any more.
Least(S) == CHOOSE n \in S : \A k \in S : n <= k
Fresh == Hosts \ (alive \union exits \union timers \union {pidFile, restartTimer, peer}
                  \union {child[s] : s \in Jobs} \union {j.kills : j \in jobs} \union {j.id : j \in jobs})
Spare == {i \in Jobs : /\ i # supervisor /\ child[i] = 0 /\ \A p \in alive \union exits : owner[p] # i
                       /\ \A j \in jobs : j.kind = "start" => j.id # i}

(***************************************************************************)
(* The supervisor.                                                         *)
(***************************************************************************)

\* A process that ends takes its link with it.
Unlinked(gone) == peer' = IF peer \in gone THEN 0 ELSE peer

\* start(): the host the pid file names is ended first, and its exit event, when
\* it is a child of this Core, comes after the new pid was written.
Spawn(s) ==
  LET orphan == {pidFile} \intersect alive
      p == Least(Fresh)
  IN
  /\ Fresh # {}
  /\ alive' = (alive \ orphan) \union {p}
  /\ exits' = exits \union {q \in orphan : owner[q] # 0}
  /\ owner' = [owner EXCEPT ![p] = s]
  /\ child' = [child EXCEPT ![s] = p]
  /\ pidFile' = p
  /\ Unlinked(orphan)

\* start() without its look at the child it has.
StartsAnother == Spawn(supervisor) /\ UNCHANGED supervisor

\* start() of the supervisor of the moment: it keeps the child it has.
StartsAgain ==
  IF child[supervisor] # 0 THEN UNCHANGED <<hostVars, peer>>
                           ELSE Spawn(supervisor) /\ UNCHANGED supervisor

Child == IF supervisor = 0 THEN 0 ELSE child[supervisor]

(***************************************************************************)
(* The adapter.                                                            *)
(***************************************************************************)

\* teardown(), up to its wait for the process: told to end, it stays the child
\* until its exit event.
Teardown(kind, id) ==
  /\ timers' = timers \ {restartTimer} /\ restartTimer' = 0
  /\ jobs' = {j \in jobs : ~(j.kind = kind /\ j.id = id)}
               \union {Job(kind, id, "tearing", FALSE, Child)}
  /\ UNCHANGED <<restarts, hostVars>>

\* rt.start(), from Core: nothing to do when it is ready, and the automations are
\* reconciled as after any start.
Begin(i) ==
  /\ starting' = i
  /\ IF rstate = "ready"
     THEN /\ reprobe' = FALSE /\ UNCHANGED <<rstate, stopping>>
          /\ jobs' = jobs \union {Job("start", i, "syncing", FALSE, 0)}
     ELSE /\ UNCHANGED reprobe /\ rstate' = "starting" /\ stopping' = FALSE
          /\ jobs' = jobs \union {Job("start", i, "readying", FALSE, 0)}

\* startRuntime(), asked for: one start is shared by all who ask.
StartRuntime ==
  /\ starting = 0 /\ Spare # {}
  /\ Begin(Least(Spare))
  /\ UNCHANGED <<backVars, hostVars, linkVars, crashes>>

\* The interval: it forgets the start under way and starts again.
Reprobe ==
  /\ reprobe /\ Spare # {} /\ Begin(Least(Spare))
  /\ UNCHANGED <<backVars, hostVars, linkVars, crashes>>

\* A tier was found (or set up), the bridge listens, the host is spawned.
Boot(j) ==
  /\ j \in jobs /\ j.at = "readying"
  /\ listening' = TRUE
  /\ supervisor' = j.id /\ Spawn(j.id)
  /\ jobs' = (jobs \ {j}) \union {[j EXCEPT !.at = "waiting", !.met = (peer' # 0)]}
  /\ UNCHANGED <<coreVars, rstate, stopping, backVars, crashes>>

\* The probe found nothing, the host did not come in time, or would not be wired.
Fails(j) ==
  /\ j \in jobs /\ j.kind = "start" /\ j.at \notin {"syncing", "tearing"}
  /\ Teardown("start", j.id)
  /\ UNCHANGED <<coreVars, rstate, stopping, linkVars, crashes>>

\* The host said hello and answers on its control socket.
Up(j) ==
  /\ j \in jobs /\ j.kind = "start" /\ j.at = "waiting" /\ j.met /\ alive # {}
  /\ jobs' = (jobs \ {j}) \union {[j EXCEPT !.at = "wiring"]}
  /\ UNCHANGED <<coreVars, rstate, stopping, backVars, hostVars, linkVars, crashes>>

\* The entities are there: ready, and Core stops probing. Its start goes on: the
\* automations are reconciled with the host, whatever becomes of it meanwhile ...
Ready(j) ==
  /\ j \in jobs /\ j.at = "wiring" /\ alive # {}
  /\ jobs' = (jobs \ {j}) \union {[j EXCEPT !.at = "syncing"]} /\ rstate' = "ready"
  /\ reprobe' = FALSE /\ UNCHANGED starting
  /\ UNCHANGED <<stopping, backVars, hostVars, linkVars, crashes>>

\* ... and only then is there no start to hand to who asks.
Reconciled(j) ==
  /\ j \in jobs /\ j.at = "syncing" /\ jobs' = jobs \ {j} /\ starting' = 0
  /\ UNCHANGED <<reprobe, rstate, stopping, backVars, hostVars, linkVars, crashes>>

\* The teardown of a failed start ended, without what its finally does.
TornDownKeepsMemo(j) ==
  /\ rstate' = "unavailable" /\ reprobe' = TRUE /\ UNCHANGED starting

\* The teardown of a failed start ended: Core will probe again.
TornDown(j) ==
  /\ rstate' = "unavailable" /\ reprobe' = TRUE /\ starting' = 0

\* The process is gone; the bridge closes behind it, whoever else was on it.
TearsDown(j) ==
  /\ j \in jobs /\ j.at = "tearing" /\ j.kills \notin alive \union exits
  /\ jobs' = jobs \ {j} /\ listening' = FALSE /\ peer' = 0
  /\ IF j.kind = "start"
     THEN TornDown(j)
     ELSE rstate' = "stopped" /\ UNCHANGED <<reprobe, starting>>
  /\ UNCHANGED <<stopping, backVars, hostVars, crashes>>

\* stopRuntime(): a start that is under way is not told.
StopRuntime ==
  /\ \A j \in jobs : j.kind # "stop"
  /\ reprobe' = FALSE /\ UNCHANGED starting
  /\ IF rstate = "stopped"
     THEN UNCHANGED <<stopping, backVars, jobs, hostVars>>
     ELSE stopping' = TRUE /\ Teardown("stop", 0)
  /\ UNCHANGED <<rstate, linkVars, crashes>>

(***************************************************************************)
(* The processes.                                                          *)
(***************************************************************************)

Dies(p) ==
  /\ p \in alive /\ alive' = alive \ {p}
  /\ exits' = IF owner[p] = 0 THEN exits ELSE exits \union {p}
  /\ Unlinked({p})
  /\ UNCHANGED <<coreVars, rstate, stopping, backVars, jobs, supervisor, child, owner,
                 pidFile, listening, crashes>>

\* SIGTERM, and SIGKILL ten seconds later.
Killed(p) == (\E j \in jobs : j.kills = p) /\ Dies(p)

\* onHostExit: five chances, each a little later.
Restarts(p) ==
  IF stopping
  THEN UNCHANGED <<rstate, backVars>>
  ELSE IF restarts >= Backoffs
  THEN rstate' = "unavailable" /\ UNCHANGED backVars
  ELSE /\ restarts' = restarts + 1 /\ rstate' = "degraded"
       /\ timers' = timers \union {p} /\ restartTimer' = p

\* The exit event of a child: the pid file goes, whatever pid it names.
Exited(p) ==
  /\ p \in exits /\ exits' = exits \ {p}
  /\ pidFile' = 0 /\ child' = [child EXCEPT ![owner[p]] = 0]
  /\ owner' = [owner EXCEPT ![p] = 0]
  /\ Restarts(p)
  /\ UNCHANGED <<coreVars, stopping, jobs, supervisor, alive, linkVars, crashes>>

\* The restart timer: the supervisor of the moment starts, unless it has a child.
Restart(t) ==
  /\ t \in timers /\ timers' = timers \ {t}
  /\ restartTimer' = IF restartTimer = t THEN 0 ELSE restartTimer
  /\ StartsAgain
  /\ jobs' = jobs \union {Job("restart", t, "waiting", peer' # 0, 0)}
  /\ UNCHANGED <<coreVars, rstate, stopping, restarts, listening, crashes>>

RestartEnds(j) ==
  /\ j \in jobs /\ j.kind = "restart" /\ jobs' = jobs \ {j}
  /\ \/ j.met /\ alive # {} /\ rstate' = "ready" /\ restarts' = 0
     \/ rstate' = "degraded" /\ UNCHANGED restarts
  /\ UNCHANGED <<coreVars, stopping, timers, restartTimer, hostVars, linkVars, crashes>>

\* A host of this life says hello (its token is this life's): the one before is
\* superseded, and whoever waits for a peer has one.
Hello(p) ==
  /\ listening /\ p \in alive /\ owner[p] # 0 /\ p # peer
  /\ peer' = p
  /\ jobs' = {IF j.at = "waiting" THEN [j EXCEPT !.met = TRUE] ELSE j : j \in jobs}
  /\ UNCHANGED <<coreVars, rstate, stopping, backVars, hostVars, listening, crashes>>

\* Core dies.  Its host goes on, and is of an earlier life now.
CoreCrash ==
  /\ crashes < MaxCrashes /\ crashes' = crashes + 1
  /\ starting' = 0 /\ reprobe' = FALSE
  /\ rstate' = "stopped" /\ stopping' = FALSE
  /\ restarts' = 0 /\ timers' = {} /\ restartTimer' = 0 /\ jobs' = {}
  /\ supervisor' = 0 /\ child' = [s \in Jobs |-> 0] /\ owner' = [p \in Hosts |-> 0]
  /\ exits' = {} /\ listening' = FALSE /\ peer' = 0
  /\ UNCHANGED <<alive, pidFile>>

LifeNext ==
  \/ StartRuntime \/ Reprobe
  \/ \E j \in jobs : Boot(j) \/ Fails(j) \/ Up(j) \/ Ready(j) \/ Reconciled(j) \/ TearsDown(j) \/ RestartEnds(j)
  \/ \E p \in Hosts : Dies(p) \/ Exited(p) \/ Restart(p) \/ Hello(p)
  \/ StopRuntime \/ CoreCrash

LifeSpec == LifeInit /\ [][LifeNext]_lifeVars

(***************************************************************************)
(* Properties                                                              *)
(***************************************************************************)

\* A supervisor never has two processes of its own: not even when one was told to
\* end, or was reaped as an orphan, and its exit event is still to come.
OneHostEach == \A p, q \in alive : owner[p] # 0 /\ owner[p] = owner[q] => p = q

\* Whoever asks is handed a start that is still under way, and will tell: `starting'
\* never names one that has ended.
MemoIsLive == starting # 0 => \E j \in jobs : j.kind = "start" /\ j.id = starting

\* Who asks for a start has one (does not hold: asked for after a stop, while the
\* start before that stop still reconciles the automations, it is handed that start,
\* and nothing is started).
AskedIsStarted ==
  starting # 0 /\ rstate = "stopped" =>
    \E j \in jobs : j.kind = "start" /\ j.id = starting /\ j.at # "syncing"

\* "An ambient companion must not leave agents working after the user quit it":
\* once the runtime says it has stopped, no host of this life runs.
QuitLeavesNothing == rstate = "stopped" => \A p \in alive : owner[p] = 0

\* "a host left running by an earlier Core life is stopped before a new one
\* starts".
EarlierLivesEnd == \A p, q \in alive : owner[p] # 0 => owner[q] # 0
=============================================================================
