-------------------------------- MODULE Runs --------------------------------
(***************************************************************************)
(* A run: one request to an agent, from accepted to finished.              *)
(*                                                                         *)
(* Four parties.  FREN Core keeps the row and a timer per run              *)
(* (packages/fren-core/runs.js).  The runtime adapter lives in the same    *)
(* process and keeps its own record, with one open run per conversation    *)
(* thread (packages/runtime-nanoclaw/index.js).  The runtime host is       *)
(* another process behind a socket: it delivers words to a thread and says *)
(* when a turn is over (vendor/nanoclaw, the fren overlay).  The desktop   *)
(* shows a thinking face for the runs it believes are being worked on      *)
(* (apps/desktop/main/index.js).                                           *)
(*                                                                         *)
(* Core and adapter share one event loop and await nothing but settled     *)
(* promises here, so one handler -- a request, a frame, a timer -- is one  *)
(* step.  Between steps anything may happen: the link drops, the host      *)
(* dies, the runtime is stopped, Core dies and comes back.                 *)
(***************************************************************************)
EXTENDS Integers, FiniteSets

CONSTANTS
  ChatRuns, AgentRuns,  (* run ids: all chat shares one thread, an agent run has its own *)
  Main, None,           (* the thread of the conversation; no run                        *)
  MaxWords,             (* bound: deliveries in all      *)
  MaxFaults,            (* bound: link drops, host exits and runtime stops in all *)
  MaxCrashes            (* bound: Core crashes           *)

Run == ChatRuns \cup AgentRuns
Thread(r) == IF r \in ChatRuns THEN Main ELSE r
Threads == {Main} \cup AgentRuns

ASSUME RunsAssumption ==
  /\ ChatRuns \cap AgentRuns = {}
  /\ Main \notin Run /\ None \notin Run
  /\ MaxWords \in Nat /\ MaxFaults \in Nat /\ MaxCrashes \in Nat

Open == {"queued", "running"}
Terminal == {"completed", "failed", "cancelled", "interrupted"}
Status == {"none"} \cup Open \cup Terminal

VARIABLES
  core,      (* "up" or "down"                                              *)
  row,       (* core.db: the status of each run                             *)
  timer,     (* runs with a timeout armed                                   *)
  endings,   (* history: terminal events published for each run             *)
  rt,        (* the adapter's state, as requireReady sees it                *)
  stopping,  (* the adapter's stopping flag                                 *)
  starting,  (* a start() is under way                                      *)
  tearing,   (* a stop() is tearing down                                    *)
  restarting,(* a host that exited is being restarted                       *)
  peer,      (* the host is connected to the bridge                         *)
  session,   (* the adapter knows the conversation's session                *)
  rtRun,     (* the adapter's record of each run                            *)
  openBy,    (* openByThread: the run a thread's words land on, or None     *)
  soon,      (* runs whose setImmediate has not run yet                     *)
  hostHas,   (* runs whose text reached the host: it may answer them        *)
  hostWatch, (* runs whose turn the host still watches                      *)
  said,      (* run_messages: how many each run has                         *)
  misplaced, (* history: open runs whose words landed elsewhere             *)
  thinking,  (* the desktop's workingRuns                                   *)
  words, faults, crashes   (* bound counters *)

coreVars == <<row, timer, endings>>
lifeVars == <<rt, stopping, starting, tearing, restarting, peer, session>>
adapterVars == <<rtRun, openBy, soon>>
hostVars == <<hostHas, hostWatch>>
bounds == <<words, faults, crashes>>
vars == <<core, coreVars, lifeVars, adapterVars, hostVars, said, misplaced, thinking, bounds>>

-----------------------------------------------------------------------------
(* Endings *)

OpenRows == {r \in Run : row[r] \in Open}
LiveRuns == {r \in Run : rtRun[r] \in Open}

(* Broken form of CoreFinish: finish() ends what has already ended. *)
CoreFinishAgain(S, status) ==
  LET F == {r \in S : row[r] # "none"}
  IN  /\ row' = [r \in Run |-> IF r \in F THEN status ELSE row[r]]
      /\ timer' = timer \ F
      /\ endings' = [r \in Run |-> IF r \in F THEN endings[r] + 1 ELSE endings[r]]
      /\ thinking' = thinking \ F

(* Broken form of CoreFinish: the desktop waits for a typing frame to say off. *)
CoreFinishKeepsFace(S, status) ==
  LET F == S \cap OpenRows
  IN  /\ row' = [r \in Run |-> IF r \in F THEN status ELSE row[r]]
      /\ timer' = timer \ F
      /\ endings' = [r \in Run |-> IF r \in F THEN endings[r] + 1 ELSE endings[r]]
      /\ UNCHANGED thinking

(* Core's finish() on every run of S that is still open: the row is final,   *)
(* its timer is gone, the ending is published once, the face lets go of it.  *)
CoreFinish(S, status) ==
  LET F == S \cap OpenRows
  IN  /\ row' = [r \in Run |-> IF r \in F THEN status ELSE row[r]]
      /\ timer' = timer \ F
      /\ endings' = [r \in Run |-> IF r \in F THEN endings[r] + 1 ELSE endings[r]]
      /\ thinking' = thinking \ F

(* Broken form of AdapterFinish: the thread keeps its finished run. *)
AdapterFinishKeepsThread(S, status) ==
  LET F == S \cap LiveRuns
  IN  /\ rtRun' = [r \in Run |-> IF r \in F THEN status ELSE rtRun[r]]
      /\ UNCHANGED openBy

(* The adapter's finishRun on every run of S it still has open: its record   *)
(* is final and its thread is free.                                          *)
AdapterFinish(S, status) ==
  LET F == S \cap LiveRuns
  IN  /\ rtRun' = [r \in Run |-> IF r \in F THEN status ELSE rtRun[r]]
      /\ openBy' = [t \in Threads |-> IF openBy[t] \in F THEN None ELSE openBy[t]]

(* An ending the runtime reports: the adapter's, and Core's as it hears of it. *)
RuntimeEnds(S, status) ==
  /\ AdapterFinish(S, status)
  /\ CoreFinish(S \cap LiveRuns, status)

-----------------------------------------------------------------------------
Init ==
  /\ core = "up"
  /\ row = [r \in Run |-> "none"]
  /\ timer = {} /\ endings = [r \in Run |-> 0]
  /\ rt = "starting" /\ starting = TRUE
  /\ stopping = FALSE /\ tearing = FALSE /\ restarting = FALSE
  /\ peer = FALSE /\ session = FALSE
  /\ rtRun = [r \in Run |-> "none"]
  /\ openBy = [t \in Threads |-> None]
  /\ soon = {}
  /\ hostHas = {} /\ hostWatch = {}
  /\ said = [r \in Run |-> 0]
  /\ misplaced = {} /\ thinking = {}
  /\ words = 0 /\ faults = 0 /\ crashes = 0

-----------------------------------------------------------------------------
(* Requests *)

(* Broken form of Accept: no timeout until the agent says something. *)
AcceptUntimed(r) ==
  /\ core = "up" /\ row[r] = "none"
  /\ rt = "ready" /\ peer
  /\ row' = [row EXCEPT ![r] = "queued"]
  /\ rtRun' = [rtRun EXCEPT ![r] = "queued"]
  /\ openBy' = [openBy EXCEPT ![Thread(r)] = r]
  /\ soon' = soon \cup {r}
  /\ session' = (session \/ r \in ChatRuns)
  /\ \/ hostHas' = hostHas \cup {r} /\ hostWatch' = hostWatch \cup {r}
     \/ UNCHANGED hostVars
  /\ UNCHANGED <<core, timer, endings, rt, stopping, starting, tearing, restarting, peer, said,
                 misplaced, thinking, bounds>>

(* start() and startAgent() when the runtime takes the run: the row, the     *)
(* adapter's record, the thread, the frame to the host, and the timer.  The  *)
(* frame may be written to a socket that is already dying.                   *)
Accept(r) ==
  /\ core = "up" /\ row[r] = "none"
  /\ rt = "ready" /\ peer
  /\ row' = [row EXCEPT ![r] = "queued"]
  /\ rtRun' = [rtRun EXCEPT ![r] = "queued"]
  /\ openBy' = [openBy EXCEPT ![Thread(r)] = r]
  /\ soon' = soon \cup {r}
  /\ timer' = timer \cup {r}
  /\ session' = (session \/ r \in ChatRuns)
  /\ \/ hostHas' = hostHas \cup {r} /\ hostWatch' = hostWatch \cup {r}
     \/ UNCHANGED hostVars
  /\ UNCHANGED <<core, endings, rt, stopping, starting, tearing, restarting, peer, said, misplaced,
                 thinking, bounds>>

(* Broken form of Refuse: the row stays as it was inserted. *)
RefuseLeavesRow(r) ==
  /\ core = "up" /\ row[r] = "none"
  /\ rt # "ready" \/ ~peer
  /\ r \in ChatRuns => session \/ rt = "ready"
  /\ row' = [row EXCEPT ![r] = "queued"]
  /\ session' = (session \/ (r \in ChatRuns /\ rt = "ready"))
  /\ openBy' = IF rt = "ready" THEN [openBy EXCEPT ![Thread(r)] = None] ELSE openBy
  /\ UNCHANGED <<core, timer, endings, rt, stopping, starting, tearing, restarting, peer, rtRun,
                 soon, hostVars, said, misplaced, thinking, bounds>>

(* The same when it does not: the row was inserted, and fails at once.  With *)
(* no connection the adapter forgets who had the thread as well.  A chat     *)
(* whose session cannot even be resolved leaves no row.                      *)
Refuse(r) ==
  /\ core = "up" /\ row[r] = "none"
  /\ rt # "ready" \/ ~peer
  /\ r \in ChatRuns => session \/ rt = "ready"
  /\ row' = [row EXCEPT ![r] = "failed"]
  /\ endings' = [endings EXCEPT ![r] = @ + 1]
  /\ session' = (session \/ (r \in ChatRuns /\ rt = "ready"))
  /\ openBy' = IF rt = "ready" THEN [openBy EXCEPT ![Thread(r)] = None] ELSE openBy
  /\ UNCHANGED <<core, timer, rt, stopping, starting, tearing, restarting, peer, rtRun, soon,
                 hostVars, said, misplaced, thinking, bounds>>

(* cancel(): the runtime is told, and its word ends the run. *)
Cancel(r) ==
  /\ core = "up" /\ row[r] \in Open
  /\ AdapterFinish({r}, "cancelled")
  /\ CoreFinish({r}, "cancelled")
  /\ UNCHANGED <<core, lifeVars, soon, hostVars, said, misplaced, bounds>>

(* armTimeout's timer: a silent run fails, and the runtime is told to let go. *)
TimeoutFires(r) ==
  /\ core = "up" /\ r \in timer
  /\ IF row[r] \in Open
     THEN CoreFinish({r}, "failed") /\ AdapterFinish({r}, "cancelled")
     ELSE timer' = timer \ {r} /\ UNCHANGED <<row, endings, thinking, rtRun, openBy>>
  /\ UNCHANGED <<core, lifeVars, soon, hostVars, said, misplaced, bounds>>

-----------------------------------------------------------------------------
(* What the runtime reports *)

(* startRun's setImmediate: the run has started. *)
Started(r) ==
  /\ core = "up" /\ r \in soon
  /\ soon' = soon \ {r}
  /\ IF rtRun[r] = "queued"
     THEN /\ rtRun' = [rtRun EXCEPT ![r] = "running"]
          /\ row' = IF row[r] = "queued" THEN [row EXCEPT ![r] = "running"] ELSE row
     ELSE UNCHANGED <<rtRun, row>>
  /\ UNCHANGED <<core, timer, endings, lifeVars, openBy, hostVars, said, misplaced, thinking, bounds>>

(* A deliver frame: the host answers run r, but names only r's thread.  The  *)
(* words land on the run that has the thread, which keeps that run alive; on *)
(* none, they are something fren volunteered.                                *)
Deliver(r) ==
  LET on == openBy[Thread(r)]
  IN  /\ core = "up" /\ peer /\ r \in hostHas
      /\ words < MaxWords /\ words' = words + 1
      /\ IF on = None
         THEN UNCHANGED <<rtRun, row, said, timer>>
         ELSE /\ rtRun' = [rtRun EXCEPT ![on] = IF @ = "queued" THEN "running" ELSE @]
              /\ row' = [row EXCEPT ![on] = IF @ = "queued" /\ rtRun[on] = "queued" THEN "running" ELSE @]
              /\ said' = [said EXCEPT ![on] = @ + 1]
              /\ timer' = timer \cup {on}
      /\ misplaced' = IF row[r] \in Open /\ on # r THEN misplaced \cup {r} ELSE misplaced
      /\ UNCHANGED <<core, endings, lifeVars, openBy, soon, hostVars, thinking, faults, crashes>>

(* Broken form of Typing: whoever has the thread, or nobody. *)
TypingForAnyone(t) ==
  /\ core = "up" /\ peer
  /\ thinking' = thinking \cup {openBy[t]}
  /\ UNCHANGED <<core, coreVars, lifeVars, adapterVars, hostVars, said, misplaced, bounds>>

(* A typing frame, on or off: the face begins to think, or stops, when it is *)
(* about a chat run that is open.                                            *)
Typing(t) ==
  /\ core = "up" /\ peer /\ openBy[t] # None
  /\ \/ thinking' = thinking \cup ({openBy[t]} \cap ChatRuns)
     \/ thinking' = thinking \ {openBy[t]}
  /\ UNCHANGED <<core, coreVars, lifeVars, adapterVars, hostVars, said, misplaced, bounds>>

(* A turn frame: the host stops watching the run and says how it ended.  If  *)
(* the link is gone the frame is, too.                                       *)
Turn(r) ==
  /\ r \in hostWatch
  /\ hostWatch' = hostWatch \ {r}
  /\ IF core = "up" /\ peer
     THEN \E status \in {"completed", "failed"} : RuntimeEnds({r}, status)
     ELSE UNCHANGED <<coreVars, rtRun, openBy, thinking>>
  /\ UNCHANGED <<core, lifeVars, soon, hostHas, said, misplaced, bounds>>

-----------------------------------------------------------------------------
(* The runtime's life, as far as runs can tell *)

runVars == <<coreVars, adapterVars, hostVars, said, misplaced, thinking>>

(* start(): at boot, on request, and whenever a probe finds it missing. *)
StartCalled ==
  /\ core = "up" /\ ~starting /\ rt # "ready"
  /\ rt' = "starting" /\ starting' = TRUE /\ stopping' = FALSE
  /\ UNCHANGED <<core, tearing, restarting, peer, session, runVars, bounds>>

(* boot() got through.  It waited for the link, which may be gone again; a   *)
(* stop meanwhile does not hold it up.                                       *)
StartSucceeds ==
  /\ core = "up" /\ starting
  /\ rt' = "ready" /\ starting' = FALSE
  /\ UNCHANGED <<core, stopping, tearing, restarting, peer, session, runVars, bounds>>

(* It did not: what there is of a runtime is torn down. *)
StartFails ==
  /\ core = "up" /\ starting
  /\ rt' = "unavailable" /\ starting' = FALSE
  /\ peer' = FALSE
  /\ openBy' = [t \in Threads |-> None]
  /\ hostWatch' = {}
  /\ UNCHANGED <<core, coreVars, stopping, tearing, restarting, session, rtRun, soon, hostHas, said,
                 misplaced, thinking, bounds>>

(* The 'connected' and 'disconnected' frames. *)
LinkUp ==
  /\ core = "up" /\ ~peer
  /\ starting \/ rt \in {"ready", "degraded"}
  /\ peer' = TRUE
  /\ rt' = IF rt = "degraded" THEN "ready" ELSE rt
  /\ UNCHANGED <<core, stopping, starting, tearing, restarting, session, runVars, bounds>>

LinkDown ==
  /\ core = "up" /\ peer
  /\ faults < MaxFaults /\ faults' = faults + 1
  /\ peer' = FALSE
  /\ rt' = IF rt = "ready" /\ ~stopping THEN "degraded" ELSE rt
  /\ UNCHANGED <<core, stopping, starting, tearing, restarting, session, runVars, words, crashes>>

(* onHostExit: every chat and agent run ends here.  The host is restarted,   *)
(* or has exited once too often.  What it watched is forgotten, what it was  *)
(* given is still in its mailbox.                                            *)
HostExit ==
  /\ core = "up" /\ ~stopping /\ rt \in {"starting", "ready", "degraded"}
  /\ faults < MaxFaults /\ faults' = faults + 1
  /\ RuntimeEnds(Run, "failed")
  /\ peer' = FALSE /\ hostWatch' = {}
  /\ \/ rt' = "degraded" /\ restarting' = TRUE
     \/ rt' = "unavailable" /\ UNCHANGED restarting
  /\ UNCHANGED <<core, stopping, starting, tearing, session, soon, hostHas, said, misplaced, words,
                 crashes>>

(* The restart timer's continuation: ready, whatever the link is doing now,  *)
(* or still without a host.                                                  *)
Restarted ==
  /\ core = "up" /\ restarting
  /\ restarting' = FALSE /\ rt' \in {"ready", "degraded"}
  /\ UNCHANGED <<core, stopping, starting, tearing, peer, session, runVars, bounds>>

(* stopRuntime() up to its first real wait: Core interrupts every open run,  *)
(* then the adapter's stop() does -- unless it is stopped already.  A        *)
(* restart is called off while its timer still runs, not later.              *)
StopBegins ==
  /\ core = "up"
  /\ faults < MaxFaults /\ faults' = faults + 1
  /\ CoreFinish(Run, "interrupted")
  /\ IF rt = "stopped"
     THEN UNCHANGED <<rtRun, openBy, stopping, tearing, restarting>>
     ELSE /\ AdapterFinish(Run, "interrupted")
          /\ stopping' = TRUE /\ tearing' = TRUE
          /\ restarting' \in {restarting, FALSE}
  /\ UNCHANGED <<core, rt, starting, peer, session, soon, hostVars, said, misplaced, words, crashes>>

(* teardown() is through, up to ten seconds later: the host is gone, the     *)
(* bridge closed, the threads forgotten.                                     *)
StopEnds ==
  /\ core = "up" /\ tearing
  /\ rt' = "stopped" /\ tearing' = FALSE /\ peer' = FALSE
  /\ openBy' = [t \in Threads |-> None]
  /\ hostWatch' = {}
  /\ UNCHANGED <<core, coreVars, stopping, starting, restarting, session, rtRun, soon, hostHas, said,
                 misplaced, thinking, bounds>>

(* The Core process dies: everything but core.db and the host's mailbox. *)
Crash ==
  /\ core = "up" /\ crashes < MaxCrashes /\ crashes' = crashes + 1
  /\ core' = "down"
  /\ timer' = {} /\ soon' = {}
  /\ rt' = "stopped" /\ stopping' = FALSE /\ starting' = FALSE
  /\ tearing' = FALSE /\ restarting' = FALSE
  /\ peer' = FALSE /\ session' = FALSE
  /\ rtRun' = [r \in Run |-> "none"]
  /\ openBy' = [t \in Threads |-> None]
  /\ hostWatch' = {}
  /\ UNCHANGED <<row, endings, hostHas, said, misplaced, thinking, words, faults>>

(* Broken form of Boot: recover() is not called. *)
BootWithoutRecover ==
  /\ core = "down"
  /\ core' = "up" /\ rt' = "starting" /\ starting' = TRUE
  /\ UNCHANGED <<row, timer, endings, stopping, tearing, restarting, peer, session, adapterVars,
                 hostVars, said, misplaced, thinking, bounds>>

(* start(): recover() closes what the previous life left open -- in the      *)
(* table; nothing is published -- and the runtime is started.                *)
Boot ==
  /\ core = "down"
  /\ core' = "up" /\ rt' = "starting" /\ starting' = TRUE
  /\ row' = [r \in Run |-> IF r \in OpenRows THEN "interrupted" ELSE row[r]]
  /\ UNCHANGED <<timer, endings, stopping, tearing, restarting, peer, session, adapterVars, hostVars,
                 said, misplaced, thinking, bounds>>

-----------------------------------------------------------------------------
Requests == \E r \in Run : Accept(r) \/ Refuse(r) \/ Cancel(r)
Reports == \/ \E r \in Run : Started(r) \/ Deliver(r) \/ Turn(r)
           \/ \E t \in Threads : Typing(t)
RuntimeLife == \/ StartCalled \/ StartSucceeds \/ StartFails \/ LinkUp \/ LinkDown
               \/ HostExit \/ Restarted \/ StopBegins \/ StopEnds
CoreLife == (\E r \in Run : TimeoutFires(r)) \/ Crash \/ Boot

Next == Requests \/ Reports \/ RuntimeLife \/ CoreLife

Spec == Init /\ [][Next]_vars

(* A timer that is armed goes off, and somebody starts Core again.  The      *)
(* runtime, its host and the person owe nothing.                             *)
Fairness == WF_vars(Boot) /\ \A r \in Run : WF_vars(TimeoutFires(r))

FairSpec == Spec /\ Fairness

-----------------------------------------------------------------------------
TypeOK ==
  /\ core \in {"up", "down"}
  /\ row \in [Run -> Status] /\ timer \subseteq Run /\ endings \in [Run -> Nat]
  /\ rt \in {"stopped", "starting", "ready", "degraded", "unavailable"}
  /\ stopping \in BOOLEAN /\ starting \in BOOLEAN /\ tearing \in BOOLEAN
  /\ restarting \in BOOLEAN /\ peer \in BOOLEAN /\ session \in BOOLEAN
  /\ rtRun \in [Run -> Status]
  /\ openBy \in [Threads -> Run \cup {None}]
  /\ soon \subseteq Run /\ hostHas \subseteq Run /\ hostWatch \subseteq Run
  /\ said \in [Run -> Nat] /\ misplaced \subseteq Run /\ thinking \subseteq ChatRuns
  /\ words \in Nat /\ faults \in Nat /\ crashes \in Nat

(* A run has one ending: it is published at most once, and only of a row     *)
(* that is final -- whichever of the turn, the timeout, a cancel, a stop or  *)
(* the host's death came first.                                              *)
OneEnding ==
  \A r \in Run : endings[r] <= 1 /\ (endings[r] = 1 => row[r] \in Terminal)

(* Core never waits for a run the runtime has given up. *)
NoOrphans ==
  core = "up" => OpenRows \subseteq LiveRuns

(* A thread never points at a run that is over, or at another thread's run.  *)
ThreadIsLive ==
  \A t \in Threads : openBy[t] # None =>
    openBy[t] \in LiveRuns /\ Thread(openBy[t]) = t

(* No open run can be forgotten: its timeout is armed. *)
OpenIsTimed ==
  core = "up" => OpenRows \subseteq timer

(* A run that was told over is not shown as being worked on. *)
FaceRests ==
  \A r \in thinking : endings[r] = 0

(* A status that is final stays, and nothing more is said on the run. *)
FinalIsFinal ==
  [][\A r \in Run : row[r] \in Terminal => row'[r] = row[r] /\ said'[r] = said[r]]_vars

(* Whatever the runtime does, an accepted run ends. *)
EveryRunEnds ==
  \A r \in Run : row[r] \in Open ~> row[r] \in Terminal

(* As long as Core lives, the thinking face lets go of every run, whatever   *)
(* typing frames were lost: the run's ending reaches it.                     *)
FaceLetsGo ==
  \A r \in ChatRuns : r \in thinking ~> r \notin thinking \/ crashes > 0

-----------------------------------------------------------------------------
(* Statements of the documentation that the code does not keep *)

(* apps/desktop/main/index.js, of the thinking face: "a lost 'off' cannot    *)
(* leave fren thinking forever".                                             *)
ThinkingEnds ==
  \A r \in ChatRuns : r \in thinking ~> r \notin thinking

(* docs/runtime-architecture.md 12: "a chat reply lands on its run if still  *)
(* open".                                                                    *)
RepliesLandOnTheirRun == misplaced = {}

(* docs/runtime-architecture.md 7: stop() "stops the runtime and any         *)
(* execution it started".                                                    *)
StoppedIsIdle ==
  core = "up" /\ rt = "stopped" => OpenRows = {}
=============================================================================
