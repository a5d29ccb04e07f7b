----------------------------- MODULE Automations -----------------------------
(***************************************************************************)
(* Automations and the schedules that stand for them.                      *)
(*                                                                         *)
(* An automation is a row of core.db; the clock that fires it is a task on *)
(* the runtime host.  FREN Core (packages/fren-core/automations.js) keeps  *)
(* the two in step: after every change, and for all of them whenever the   *)
(* runtime has started.  The adapter (packages/runtime-nanoclaw,           *)
(* schedules.js) turns Core's wishes into the host's task commands and     *)
(* remembers what it asked for.                                            *)
(*                                                                         *)
(* A request to the host is answered later, and everything else happens    *)
(* meanwhile: other requests about the same automation, the host giving up *)
(* on a failing task, the runtime stopping, Core dying.  A job is one such *)
(* chain of requests: what a person asked for, or the reconciliation.      *)
(*                                                                         *)
(* The automations here run an agent on a recurring schedule.              *)
(***************************************************************************)
EXTENDS Integers, FiniteSets

CONSTANTS
  Autos,          (* automation ids                                        *)
  Tasks,          (* the ids the host gives its tasks, in order            *)
  Persons,        (* how many of the person's jobs may be under way        *)
  None,
  MaxChanges,     (* bound: creates, updates and removals in all           *)
  MaxPauses,      (* bound: tasks the host gives up on                     *)
  MaxFailures,    (* bound: requests that fail while the host is up        *)
  MaxStops        (* bound: lost links, runtime stops and Core crashes     *)

Jobs == 0 .. Persons

Reconcile == 0     (* the job that follows a start of the runtime *)

ASSUME AutomationsAssumption ==
  /\ Tasks \subseteq Nat /\ Persons \in Nat
  /\ None \notin Autos \cup Int /\ None \notin {"create", "update", "remove"}
  /\ {MaxChanges, MaxPauses, MaxFailures, MaxStops} \subseteq Nat

VARIABLES
  core,     (* "up" or "down"                                            *)
  rt,       (* the adapter: "ready", "degraded" (no link) or "stopped"   *)
  ready,    (* the service counts on the runtime                         *)
  row,      (* core.db: each automation                                  *)
  task,     (* the host: each task                                       *)
  refs,     (* the adapter: what it believes of a task's text and of     *)
            (* being on, or None                                         *)
  job,      (* what each job is waiting for                              *)
  known,    (* the reconciliation's list of the host's tasks             *)
  mine,     (* ... and its list of the automations                       *)
  todo,     (* ... and those it has not come to yet                      *)
  found,    (* pauses the schedule watch has read and not reported yet   *)
  told,     (* pauses the schedule watch has read                        *)
  egress,   (* automations whose domains the sandbox proxy lets through  *)
  steady,   (* history: automations nobody else touched since a job read them *)
  doubt,    (* history: automations touched since they were last synced  *)
  changes, pauses, failures, stops   (* bound counters *)

life == <<core, rt, ready>>
lists == <<known, mine>>
watch == <<found, told>>
history == <<steady, doubt>>
bounds == <<changes, pauses, failures, stops>>
vars == <<life, row, task, refs, job, lists, todo, watch, egress, history, bounds>>

-----------------------------------------------------------------------------
NoRow == [is |-> "none", text |-> 0, on |-> FALSE, verdict |-> FALSE, ref |-> None]
NoneLeft == [NoRow EXCEPT !.is = "gone"]
NoTask == [is |-> "none", of |-> None, text |-> 0, gaveUp |-> FALSE]
NoTasks == [t \in Tasks |-> NoTask]
Idle == [at |-> "idle", do |-> None, a |-> None, as |-> NoRow, new |-> None]

Kept(a) == row[a].is = "kept"
There(t) == t # None /\ task[t].is \in {"live", "paused"}

(* The host's list, as the adapter translates it: a task's text is the       *)
(* adapter's own note of it, where it has one.                               *)
Listed ==
  [t \in Tasks |-> [task[t] EXCEPT !.text = IF refs[t] = None THEN @ ELSE refs[t].text]]

(* A task the adapter did not know is read whole, and noted. *)
Recovered ==
  [t \in Tasks |->
     IF There(t) /\ refs[t] = None THEN [text |-> task[t].text, on |-> task[t].is = "live"] ELSE refs[t]]

(* egressPolicy(): the domains of every automation that is on. *)
EgressPolicy(rows) == {a \in Autos : rows[a].is = "kept" /\ rows[a].on}

-----------------------------------------------------------------------------
Init ==
  /\ core = "up" /\ rt = "stopped" /\ ready = FALSE
  /\ row = [a \in Autos |-> NoRow]
  /\ task = NoTasks
  /\ refs = [t \in Tasks |-> None]
  /\ job = [j \in Jobs |-> Idle]
  /\ known = NoTasks
  /\ mine = [a \in Autos |-> NoRow] /\ todo = {}
  /\ found = {} /\ told = {} /\ egress = {}
  /\ steady = [j \in Jobs |-> {}] /\ doubt = {}
  /\ changes = 0 /\ pauses = 0 /\ failures = 0 /\ stops = 0

-----------------------------------------------------------------------------
(* The history of who touched what *)

(* What a job has a request out for. *)
UnderWay == {job[k].a : k \in Jobs} \ {None}

(* j, a job or None, changed a or its task; others' readings of it are old. *)
Touch(j, a) ==
  /\ steady' = [k \in Jobs |-> IF k = j THEN steady[k] ELSE steady[k] \ {a}]
  /\ doubt' = doubt \cup {a}

(* j is done with a, and leaves it and its task in step if nobody interfered. *)
Settle(j, a) ==
  /\ steady' = [k \in Jobs |-> steady[k] \ {a}]
  /\ doubt' = IF a \in steady[j] THEN doubt \ {a} ELSE doubt \cup {a}

-----------------------------------------------------------------------------
(* How a job goes on *)

(* Job j waits for the answer to a request about a, as it read it. *)
Waits(j, pc, a, as, new) ==
  /\ job' = [job EXCEPT ![j] = [at |-> pc, do |-> job[j].do, a |-> a, as |-> as, new |-> new]]
  /\ UNCHANGED egress

(* Broken form of Returns: only the reconciliation pushes. *)
ReturnsUnpushed(j) ==
  IF j = Reconcile /\ todo' # {}
  THEN Waits(j, "next", None, NoRow, None)
  ELSE /\ job' = [job EXCEPT ![j] = Idle]
       /\ egress' = IF j = Reconcile THEN EgressPolicy(row') ELSE egress

(* sync() has returned: the reconciliation goes on to the next automation.   *)
(* After its last, and when any other job ends, the egress policy is pushed. *)
Returns(j) ==
  IF j = Reconcile /\ todo' # {}
  THEN Waits(j, "next", None, NoRow, None)
  ELSE /\ job' = [job EXCEPT ![j] = Idle]
       /\ egress' = EgressPolicy(row')

(* Broken form of Drifted: whether the task is on is not compared. *)
DriftedInText(as, t) == t.text # as.text

(* The task of the list is not what the automation says. *)
Drifted(as, t) == t.text # as.text \/ (t.is = "live") # as.on

(* A task that is paused, with the host's note of giving up in its log: the  *)
(* note stays there when the task is resumed, and paused again.              *)
GaveUp(t) == t.is = "paused" /\ t.gaveUp

(* sync() of a, once the host's list is there, and the adapter's notes with  *)
(* it; as is the automation when the caller read it.  A host that gave up on *)
(* the task has its way -- unless it was the person who asked; a drifted     *)
(* task is updated, a missing one made.  The adapter refuses while it has no *)
(* link, and a schedule it has no note of.                                   *)
Sync(j, a, as, list, noted) ==
  LET t == as.ref
      there == t # None /\ list[t].is \in {"live", "paused"}
      quit == there /\ as.on /\ GaveUp(list[t]) /\ job[j].do # "update"
      drift == there /\ ~quit /\ Drifted(as, list[t])
      taken == rt = "ready" /\ (drift => noted[t] # None)
  IN  \/ /\ quit
         /\ row' = [row EXCEPT ![a] =
                      IF @.is = "kept" THEN [@ EXCEPT !.on = FALSE, !.verdict = TRUE] ELSE @]
         /\ refs' = noted
         /\ Settle(j, a) /\ Returns(j)
      \/ /\ there /\ ~quit /\ ~drift
         /\ refs' = noted
         /\ doubt' = IF noted[t] # None /\ noted[t].text = task[t].text THEN doubt \ (steady[j] \cap {a}) ELSE doubt
         /\ steady' = [steady EXCEPT ![j] = @ \ {a}]
         /\ UNCHANGED row /\ Returns(j)
      \/ /\ drift \/ ~there
         /\ taken
         /\ refs' = IF drift THEN [noted EXCEPT ![t].text = as.text] ELSE noted
         /\ Waits(j, IF drift THEN "update" ELSE "create", a, as, None)
         /\ Touch(j, a) /\ UNCHANGED row
      \/ /\ drift \/ ~there
         /\ ~taken
         /\ refs' = noted
         /\ steady' = [steady EXCEPT ![j] = @ \ {a}]
         /\ UNCHANGED <<row, doubt>> /\ Returns(j)

(* Job j begins to sync a, which it has just written. *)
BeginSync(j, a, do) ==
  /\ steady' = [k \in Jobs |-> IF k = j THEN {a} \ UnderWay ELSE steady[k] \ {a}]
  /\ doubt' = doubt \cup {a}
  /\ IF ready /\ rt = "ready"
     THEN /\ job' = [job EXCEPT ![j] = [at |-> "list", do |-> do, a |-> a, as |-> row'[a], new |-> None]]
          /\ UNCHANGED egress
     ELSE UNCHANGED job /\ egress' = EgressPolicy(row')
  /\ UNCHANGED todo

-----------------------------------------------------------------------------
(* What the person asks for *)

MayChange(j) ==
  /\ core = "up" /\ job[j] = Idle /\ \A k \in 1 .. j - 1 : job[k] # Idle
  /\ changes < MaxChanges /\ changes' = changes + 1
  /\ UNCHANGED <<life, lists, watch, pauses, failures, stops>>

Create(j, a) ==
  /\ MayChange(j) /\ row[a].is = "none"
  /\ \E on \in BOOLEAN : row' = [row EXCEPT ![a] = [NoRow EXCEPT !.is = "kept", !.on = on]]
  /\ BeginSync(j, a, "create")
  /\ UNCHANGED <<task, refs>>

(* Broken form of Update: switching it on does not clear the host's verdict. *)
UpdateKeepsVerdict(j, a) ==
  /\ MayChange(j) /\ Kept(a)
  /\ \/ row' = [row EXCEPT ![a].text = @ + 1]
     \/ \E on \in BOOLEAN : row' = [row EXCEPT ![a].on = on]
  /\ BeginSync(j, a, "update")
  /\ UNCHANGED <<task, refs>>

(* update(): the person edits the instruction, or switches it on or off. *)
Update(j, a) ==
  /\ MayChange(j) /\ Kept(a)
  /\ \/ row' = [row EXCEPT ![a].text = @ + 1]
     \/ row' = [row EXCEPT ![a].on = TRUE, ![a].verdict = FALSE]
     \/ row' = [row EXCEPT ![a].on = FALSE]
  /\ BeginSync(j, a, "update")
  /\ UNCHANGED <<task, refs>>

(* remove(): the task goes first.  A runtime that is not ready is not asked. *)
Remove(j, a) ==
  /\ MayChange(j) /\ Kept(a)
  /\ IF row[a].ref # None /\ rt = "ready"
     THEN /\ job' = [job EXCEPT ![j] = [at |-> "delete", do |-> "remove", a |-> a, as |-> row[a], new |-> None]]
          /\ UNCHANGED <<row, egress, history>>
     ELSE /\ row' = [row EXCEPT ![a] = NoneLeft]
          /\ egress' = EgressPolicy(row')
          /\ Touch(None, a)
          /\ UNCHANGED job
  /\ UNCHANGED <<task, refs, todo>>

-----------------------------------------------------------------------------
(* The host answers *)

Answers(j, pc) ==
  /\ core = "up" /\ rt # "stopped" /\ job[j].at = pc
  /\ UNCHANGED <<life, watch, bounds>>

(* tasks-list, for a create or an update. *)
AnswersList(j) ==
  /\ j # Reconcile /\ Answers(j, "list")
  /\ UNCHANGED <<task, lists, todo>>
  /\ Sync(j, job[j].a, job[j].as, Listed, Recovered)

(* tasks-update: an unknown task is an error. *)
AnswersUpdate(j) ==
  LET t == job[j].as.ref
  IN  /\ Answers(j, "update")
      /\ UNCHANGED <<row, lists, todo>>
      /\ IF There(t)
         THEN /\ task' = [task EXCEPT ![t].text = job[j].as.text]
              /\ refs' = IF refs[t] = None THEN refs ELSE [refs EXCEPT ![t].on = job[j].as.on]
              /\ Waits(j, "switch", job[j].a, job[j].as, None)
              /\ Touch(j, job[j].a)
         ELSE Returns(j) /\ UNCHANGED <<task, refs, history>>

(* tasks-pause or tasks-resume, the second half of an update. *)
AnswersSwitch(j) ==
  LET t == job[j].as.ref
  IN  /\ Answers(j, "switch")
      /\ UNCHANGED <<row, refs, lists, todo>>
      /\ IF There(t)
         THEN /\ task' = [task EXCEPT ![t].is = IF job[j].as.on THEN "live" ELSE "paused"]
              /\ Settle(j, job[j].a)
         ELSE UNCHANGED <<task, history>>
      /\ Returns(j)

(* The id of the next task. *)
Fresh == {t \in Tasks : task[t] = NoTask /\ \A u \in Tasks : u < t => task[u] # NoTask}

Made(j) == [is |-> "live", of |-> job[j].a, text |-> job[j].as.text, gaveUp |-> FALSE]

(* tasks-create. *)
AnswersCreate(j) ==
  /\ Answers(j, "create")
  /\ \E t \in Fresh :
       /\ task' = [task EXCEPT ![t] = Made(j)]
       /\ refs' = [refs EXCEPT ![t] = [text |-> job[j].as.text, on |-> job[j].as.on]]
       /\ Waits(j, "save", job[j].a, job[j].as, t)
  /\ Touch(j, job[j].a)
  /\ UNCHANGED <<row, lists, todo>>

Switched(j) ==
  [task EXCEPT ![job[j].new].is = IF job[j].as.on THEN @ ELSE "paused"]

(* The new task is paused, if it must be, and the automation told its id. An *)
(* update that finds its automation gone ends in an error, before it pushes. *)
AnswersSave(j) ==
  LET a == job[j].a
  IN  /\ Answers(j, "save")
      /\ UNCHANGED <<refs, lists, todo>>
      /\ task' = Switched(j)
      /\ row' = IF Kept(a) THEN [row EXCEPT ![a].ref = job[j].new] ELSE row
      /\ Settle(j, a)
      /\ IF job[j].do = "update" /\ ~Kept(a)
         THEN job' = [job EXCEPT ![j] = Idle] /\ UNCHANGED egress
         ELSE Returns(j)

(* tasks-delete: now, or when its container is done. *)
AnswersDelete(j) ==
  LET a == job[j].a t == job[j].as.ref
  IN  /\ Answers(j, "delete")
      /\ UNCHANGED <<lists, todo>>
      /\ task' = [task EXCEPT ![t].is = "gone"]
      /\ refs' = [refs EXCEPT ![t] = None]
      /\ row' = [row EXCEPT ![a] = NoneLeft]
      /\ Touch(None, a) /\ Returns(j)

(* The host's tasks once it has done what job j asks. *)
Done(j) ==
  LET old == job[j].as.ref
  IN  CASE job[j].at = "create" -> {[task EXCEPT ![t] = Made(j)] : t \in Fresh}
        [] job[j].at = "save" -> {Switched(j)}
        [] job[j].at = "update" /\ There(old) -> {[task EXCEPT ![old].text = job[j].as.text]}
        [] job[j].at = "switch" /\ There(old) -> {[task EXCEPT ![old].is = IF job[j].as.on THEN "live" ELSE "paused"]}
        [] job[j].at = "delete" -> {[task EXCEPT ![old].is = "gone"]}
        [] OTHER -> {}

(* A request fails, or its answer is lost: the host may have done it or not. *)
(* It is logged, and that is all.  Without its list the reconciliation is    *)
(* over; a removal goes on as if it had been told.                           *)
Fails(j) ==
  /\ core = "up" /\ job[j].at \in {"list", "update", "switch", "create", "save", "delete"}
  /\ UNCHANGED <<life, refs, lists, todo, watch, changes, pauses, stops>>
  /\ \/ rt = "stopped" /\ UNCHANGED failures
     \/ failures < MaxFailures /\ failures' = failures + 1
  /\ task' \in {task} \cup Done(j)
  /\ row' = IF job[j].at = "delete" THEN [row EXCEPT ![job[j].a] = NoneLeft] ELSE row
  /\ IF job[j].a = None
     THEN job' = [job EXCEPT ![j] = Idle] /\ UNCHANGED <<egress, history>>
     ELSE Returns(j) /\ Touch(None, job[j].a)

-----------------------------------------------------------------------------
(* reconcile() *)

(* The host's list, from which every automation will be synced. *)
ReconcileLists ==
  /\ Answers(Reconcile, "list")
  /\ known' = Listed /\ refs' = Recovered
  /\ steady' = [steady EXCEPT ![Reconcile] = Autos \ UnderWay]
  /\ Waits(Reconcile, "mine", None, NoRow, None)
  /\ UNCHANGED <<row, task, mine, todo, doubt>>

(* ... and the automations there are by the time the list arrives.  A list   *)
(* that will not be read again is dropped.                                   *)
ReconcileReads ==
  /\ core = "up" /\ job[Reconcile].at = "mine"
  /\ mine' = row /\ todo' = {a \in Autos : Kept(a)}
  /\ known' = IF todo' = {} THEN NoTasks ELSE known
  /\ UNCHANGED row /\ Returns(Reconcile)
  /\ UNCHANGED <<life, task, refs, watch, history, bounds>>

(* sync() of the next one, if the runtime is still there. *)
ReconcileNext(a) ==
  /\ core = "up" /\ job[Reconcile].at = "next" /\ a \in todo
  /\ todo' = todo \ {a}
  /\ \/ ready /\ Sync(Reconcile, a, mine[a], known, refs)
     \/ ~ready /\ UNCHANGED <<row, refs, history>> /\ Returns(Reconcile)
  /\ mine' = [mine EXCEPT ![a] = NoRow]
  /\ known' = IF todo' = {} THEN NoTasks ELSE known
  /\ UNCHANGED <<life, task, watch, bounds>>

-----------------------------------------------------------------------------
(* The host gives up *)

(* A task that keeps failing is paused by the host. *)
GivesUp(t) ==
  /\ rt # "stopped" /\ task[t].is = "live"
  /\ pauses < MaxPauses /\ pauses' = pauses + 1
  /\ task' = [task EXCEPT ![t].is = "paused", ![t].gaveUp = TRUE]
  /\ told' = told \ {t}
  /\ Touch(None, task[t].of)
  /\ UNCHANGED <<life, row, refs, job, lists, todo, found, egress, changes, failures, stops>>

(* The schedule watch reads the list ... (it saw the task live before the    *)
(* host gave up on it: that takes eight failures) *)
WatchReads(t) ==
  /\ core = "up" /\ rt = "ready" /\ GaveUp(task[t]) /\ t \notin told
  /\ found' = found \cup {t} /\ told' = told \cup {t}
  /\ refs' = Recovered
  /\ UNCHANGED <<life, row, task, job, lists, todo, egress, history, bounds>>

(* ... and, when the answer is there, the automation goes off, unless it is  *)
(* what the adapter asked for. *)
PauseReported(t) ==
  LET a == task[t].of
  IN  /\ core = "up" /\ t \in found
      /\ found' = found \ {t}
      /\ IF refs[t] # None /\ refs[t].on /\ Kept(a) /\ row[a].on
         THEN row' = [row EXCEPT ![a].on = FALSE, ![a].verdict = TRUE] /\ Touch(None, a)
         ELSE UNCHANGED <<row, history>>
      /\ UNCHANGED <<life, task, refs, job, lists, todo, told, egress, bounds>>

-----------------------------------------------------------------------------
(* The runtime and Core *)

(* startRuntime(): the adapter begins with a new schedule store and a new    *)
(* watch, and the reconciliation follows.                                    *)
RuntimeStarts ==
  /\ core = "up" /\ rt = "stopped" /\ job[Reconcile] = Idle
  /\ rt' = "ready" /\ ready' = TRUE
  /\ refs' = [t \in Tasks |-> None] /\ found' = {} /\ told' = {}
  /\ Waits(Reconcile, "list", None, NoRow, None)
  /\ UNCHANGED <<core, row, task, lists, todo, history, bounds>>

LinkLost ==
  /\ rt = "ready" /\ stops < MaxStops /\ stops' = stops + 1
  /\ rt' = "degraded"
  /\ UNCHANGED <<core, ready, row, task, refs, job, lists, todo, watch, egress, history, changes,
                 pauses, failures>>

LinkBack ==
  /\ rt = "degraded" /\ rt' = "ready"
  /\ UNCHANGED <<core, ready, row, task, refs, job, lists, todo, watch, egress, history, bounds>>

(* stopRuntime() and, seconds later, the end of the adapter's teardown. *)
StopBegins ==
  /\ ready /\ stops < MaxStops /\ stops' = stops + 1
  /\ ready' = FALSE
  /\ UNCHANGED <<core, rt, row, task, refs, job, lists, todo, watch, egress, history, changes,
                 pauses, failures>>

StopEnds ==
  /\ ~ready /\ rt # "stopped" /\ rt' = "stopped"
  /\ UNCHANGED <<core, ready, row, task, refs, job, lists, todo, watch, egress, history, bounds>>

(* Core dies, and with it every job: what one asked for, the host may have   *)
(* done.                                                                     *)
Crash ==
  /\ core = "up" /\ stops < MaxStops /\ stops' = stops + 1
  /\ core' = "down" /\ rt' = "stopped" /\ ready' = FALSE
  /\ task' \in {task} \cup UNION {Done(j) : j \in Jobs}
  /\ refs' = [t \in Tasks |-> None] /\ found' = {} /\ told' = {}
  /\ job' = [j \in Jobs |-> Idle] /\ todo' = {} /\ egress' = {}
  /\ steady' = [j \in Jobs |-> {}]
  /\ doubt' = doubt \cup {a \in Autos : \E j \in Jobs : job[j].a = a}
  /\ known' = NoTasks /\ mine' = [a \in Autos |-> NoRow]
  /\ UNCHANGED <<row, changes, pauses, failures>>

(* The service is made again, and pushes the policy of the rows there are. *)
Boot ==
  /\ core = "down" /\ core' = "up"
  /\ egress' = EgressPolicy(row)
  /\ UNCHANGED <<rt, ready, row, task, refs, job, lists, todo, watch, history, bounds>>

-----------------------------------------------------------------------------
Person(j) == \E a \in Autos : Create(j, a) \/ Update(j, a) \/ Remove(j, a)

Goes(j) ==
  \/ AnswersList(j) \/ AnswersUpdate(j) \/ AnswersSwitch(j)
  \/ AnswersCreate(j) \/ AnswersSave(j) \/ AnswersDelete(j)
  \/ Fails(j)

Reconciles == ReconcileLists \/ ReconcileReads \/ (\E a \in Autos : ReconcileNext(a))

Host == \E t \in Tasks : GivesUp(t) \/ WatchReads(t) \/ PauseReported(t)

Life == RuntimeStarts \/ LinkLost \/ LinkBack \/ StopBegins \/ StopEnds \/ Crash \/ Boot

Next ==
  \/ \E j \in 1 .. Persons : Person(j)
  \/ \E j \in Jobs : Goes(j)
  \/ Reconciles \/ Host \/ Life

Spec == Init /\ [][Next]_vars

-----------------------------------------------------------------------------
Rows ==
  {r \in [is : {"none", "kept", "gone"}, text : Nat, on : BOOLEAN, verdict : BOOLEAN, ref : Tasks \cup {None}] :
     r.verdict => ~r.on}
HostTasks == [is : {"none", "live", "paused", "gone"}, of : Autos \cup {None}, text : Nat, gaveUp : BOOLEAN]
Notes == [text : Nat, on : BOOLEAN]
Pcs == {"idle", "list", "update", "switch", "create", "save", "delete", "mine", "next"}

(* Every variable has the shape the code gives it; an automation the runtime *)
(* stopped is off.                                                           *)
TypeOK ==
  /\ core \in {"up", "down"} /\ rt \in {"ready", "degraded", "stopped"} /\ ready \in BOOLEAN
  /\ row \in [Autos -> Rows] /\ task \in [Tasks -> HostTasks] /\ refs \in [Tasks -> Notes \cup {None}]
  /\ job \in [Jobs -> [at : Pcs, do : {"create", "update", "remove", None}, a : Autos \cup {None},
                       as : Rows, new : Tasks \cup {None}]]
  /\ known \in [Tasks -> HostTasks] /\ mine \in [Autos -> Rows]
  /\ todo \subseteq Autos /\ found \subseteq Tasks /\ told \subseteq Tasks
  /\ egress \subseteq Autos /\ steady \in [Jobs -> SUBSET Autos] /\ doubt \subseteq Autos
  /\ changes \in Nat /\ pauses \in Nat /\ failures \in Nat /\ stops \in Nat

InStep(a) ==
  LET r == row[a] IN
  /\ There(r.ref) /\ task[r.ref].of = a
  /\ (task[r.ref].is = "live") = r.on
  /\ r.verdict \/ task[r.ref].text = r.text

(* "Make the runtime agree with this automation": once an automation was     *)
(* synced without anyone touching it or its task meanwhile, the two agree,   *)
(* whatever other jobs, failures, stops and crashes came before.  (What the  *)
(* host gave up on keeps its text until it is resumed; and a sync that found *)
(* nothing to do counts if the text the adapter noted is the task's: after   *)
(* a request that failed or was overtaken it may not be.)                    *)
SyncAgrees ==
  \A a \in Autos : Kept(a) /\ a \notin doubt => InStep(a)

(* With the runtime there and nothing under way, an automation that is on    *)
(* may reach the domains it declares.                                        *)
OnIsAllowed ==
  core = "up" /\ ready /\ (\A j \in Jobs : job[j] = Idle)
    => EgressPolicy(row) \subseteq egress

-----------------------------------------------------------------------------
(* A statement of the documentation that the code does not keep *)

(* docs/runtime-architecture.md, of a Core restart: the adapter "reads the   *)
(* whole task to recover the automation id, instead of creating a second     *)
(* task".  The reconciliation, with nobody else at it, asks for no task for  *)
(* an automation of which its list has one.                                  *)
RecoversItsTask ==
  [][\A a \in steady[Reconcile] :
       job[Reconcile].at = "next" /\ job'[Reconcile].at = "create" /\ job'[Reconcile].a = a
         => ~ \E t \in Tasks : known[t].of = a /\ known[t].is \in {"live", "paused"}]_vars
=============================================================================
