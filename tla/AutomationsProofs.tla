-------------------------- MODULE AutomationsProofs --------------------------
(***************************************************************************)
(* What Automations guarantees for any number of automations, tasks and    *)
(* jobs, however their requests, the host's own pauses, failures, stops    *)
(* and crashes interleave: the shape of its state, that a sync nobody      *)
(* interfered with leaves row and task in step, and that what is on may    *)
(* reach its domains.                                                      *)
(***************************************************************************)
EXTENDS Automations, TLAPS

JobType == [at : Pcs, do : {"create", "update", "remove", None}, a : Autos \cup {None},
            as : Rows, new : Tasks \cup {None}]

(* r, of a row, a reading of one or a job, is a's own task, if it is any. *)
Names(r, a) == r # None => r \in Tasks /\ a \in Autos /\ task[r].of = a

(* Whose a task is: it keeps its automation once it has one, and a row, a    *)
(* reading of a row and a job name tasks of their own automation alone.      *)
Owned ==
  /\ \A t \in Tasks : task[t].is # "none" => task[t].of \in Autos
  /\ \A t \in found : task[t].of \in Autos
  /\ \A a \in Autos : Names(row[a].ref, a) /\ Names(mine[a].ref, a)
  /\ \A j \in Jobs : Names(job[j].as.ref, job[j].a)
  /\ \A j \in Jobs : job[j].at = "save" => job[j].new # None /\ Names(job[j].new, job[j].a)

(* What a job's place in its chain of requests says of it: only the          *)
(* reconciliation has lists, and it has them to the end of its loop; nobody  *)
(* asked it to.                                                              *)
Placed ==
  /\ job[Reconcile].do = None
  /\ \A j \in Jobs : /\ job[j].at \in {"update", "switch", "create", "save", "delete"} => job[j].a \in Autos
                     /\ job[j].at \in {"update", "switch", "delete"} => job[j].as.ref \in Tasks
                     /\ j # Reconcile => job[j].at \notin {"mine", "next"}
                     /\ j # Reconcile /\ job[j].at = "list" => job[j].a \in Autos
  /\ job[Reconcile].at \in {"idle", "list", "mine", "next"} => job[Reconcile].a = None
  /\ job[Reconcile].at \in {"idle", "list", "mine"} => todo = {}
  /\ job[Reconcile].a \notin todo

Shape == TypeOK /\ Owned /\ Placed

(* A job's reading of its automation is the row as it is, while nobody else  *)
(* touched either; after its first request about the task, the task has the  *)
(* text it asked for, and what it made is as it made it.                     *)
AsRead(j) ==
  job[j].at \in {"list", "update", "switch", "create", "save"} /\ job[j].a \in steady[j] =>
    /\ row[job[j].a] = job[j].as
    /\ job[j].at = "switch" => task[job[j].as.ref].text = job[j].as.text
    /\ job[j].at = "save" => task[job[j].new].is = "live" /\ task[job[j].new].text = job[j].as.text

(* The reconciliation's lists are still true of an automation it has not     *)
(* come to and nobody touched.                                               *)
ListTrue(a) ==
  a \in steady[Reconcile] /\ (job[Reconcile].at = "mine" \/ a \in todo) =>
    /\ a \in todo => mine[a] = row[a]
    /\ \A t \in Tasks : task[t].of = a => known[t] = Listed[t]

Readings == (\A j \in Jobs : AsRead(j)) /\ (\A a \in Autos : ListTrue(a))

(* What is on and not let through is what a person's job is about: it will   *)
(* push the policy when it ends.                                             *)
Owed ==
  core = "up" =>
    \A a \in EgressPolicy(row) : a \in egress \/ \E j \in 1 .. Persons : job[j].a = a

-----------------------------------------------------------------------------
(* The shape of the state *)

LEMMA Parameters ==
  ASSUME AutomationsAssumption
  PROVE  /\ None \notin Autos /\ None \notin Tasks /\ None \notin Jobs
         /\ Reconcile \in Jobs /\ 1 .. Persons \subseteq Jobs /\ Reconcile \notin 1 .. Persons
<1>1. None \notin Int
  BY DEF AutomationsAssumption
<1>2. None \notin Tasks /\ None \notin Jobs
  <2>1. Tasks \subseteq Int
    BY DEF AutomationsAssumption
  <2>2. Jobs \subseteq Int
    BY DEF AutomationsAssumption, Jobs
  <2>3. QED
    BY <1>1, <2>1, <2>2
<1>3. Reconcile \in Jobs /\ 1 .. Persons \subseteq Jobs /\ Reconcile \notin 1 .. Persons
  BY DEF AutomationsAssumption, Jobs, Reconcile
<1>4. QED
  BY <1>2, <1>3 DEF AutomationsAssumption

(* The constants of the module and the forms it builds have their types. *)
LEMMA Forms ==
  /\ NoRow \in Rows /\ NoneLeft \in Rows /\ NoTask \in HostTasks
  /\ Idle \in JobType /\ Idle.at = "idle" /\ Idle.do = None /\ Idle.a = None /\ Idle.as.ref = None
  /\ NoRow.ref = None /\ NoneLeft.ref = None
<1>1. NoRow \in Rows /\ NoneLeft \in Rows /\ NoRow.ref = None /\ NoneLeft.ref = None
  BY DEF NoRow, NoneLeft, Rows
<1>2. NoTask \in HostTasks
  BY DEF NoTask, HostTasks
<1>3. QED
  BY <1>1, <1>2 DEF Idle, JobType, Pcs

(* The host's list, and the adapter's notes when it has read it, are typed. *)
LEMMA ListTyped ==
  ASSUME TypeOK
  PROVE  Listed \in [Tasks -> HostTasks] /\ Recovered \in [Tasks -> Notes \cup {None}]
<1>1. \A t \in Tasks : Listed[t] \in HostTasks
  BY DEF TypeOK, Listed, HostTasks, Notes
<1>2. \A t \in Tasks : Recovered[t] \in Notes \cup {None}
  BY DEF TypeOK, Recovered, HostTasks, Notes, There
<1>3. QED
  BY <1>1, <1>2 DEF Listed, Recovered

(* What the end of a sync, or of a job, leaves. *)
Ended(j) ==
  /\ job' \in [Jobs -> JobType] /\ egress' \subseteq Autos
  /\ \A k \in Jobs \ {j} : job'[k] = job[k]
  /\ job'[j].a = None /\ job'[j].as.ref = None /\ job'[j].do \in {job[j].do, None}
  /\ \/ job'[j].at = "idle" /\ egress' = EgressPolicy(row') /\ (j = Reconcile => todo' = {})
     \/ job'[j].at = "next" /\ egress' = egress /\ j = Reconcile
     \/ /\ job'[j].at = "idle" /\ egress' = egress /\ (j = Reconcile => todo' = {})
        /\ job[j].a \notin EgressPolicy(row)

LEMMA ReturnsEnds ==
  ASSUME TypeOK, NEW j \in Jobs, Returns(j)
  PROVE  Ended(j)
<1>1. CASE j = Reconcile /\ todo' # {}
  BY <1>1, Forms DEF Returns, Waits, Ended, TypeOK, JobType, Pcs
<1>2. CASE ~(j = Reconcile /\ todo' # {})
  BY <1>2, Forms DEF Returns, Ended, TypeOK, JobType, EgressPolicy
<1>3. QED
  BY <1>1, <1>2

(* What a wait leaves. *)
Waiting(j, pc, a, as, new) ==
  /\ job' \in [Jobs -> JobType] /\ egress' = egress
  /\ \A k \in Jobs \ {j} : job'[k] = job[k]
  /\ job'[j].at = pc /\ job'[j].do = job[j].do /\ job'[j].a = a /\ job'[j].as = as /\ job'[j].new = new

LEMMA WaitsWaits ==
  ASSUME TypeOK, NEW j \in Jobs, NEW pc \in Pcs, NEW a \in Autos \cup {None}, NEW as \in Rows,
         NEW new \in Tasks \cup {None}, Waits(j, pc, a, as, new)
  PROVE  Waiting(j, pc, a, as, new)
BY DEF Waits, Waiting, TypeOK, JobType

(* The histories keep their types. *)
HistoryTyped == steady' \in [Jobs -> SUBSET Autos] /\ doubt' \subseteq Autos

LEMMA TouchTyped ==
  ASSUME TypeOK, NEW j, NEW a \in Autos, Touch(j, a)
  PROVE  HistoryTyped
BY DEF Touch, TypeOK, HistoryTyped

LEMMA SettleTyped ==
  ASSUME TypeOK, NEW j \in Jobs, NEW a \in Autos, Settle(j, a)
  PROVE  HistoryTyped
BY DEF Settle, TypeOK, HistoryTyped

(* A task keeps its owner. *)
Owners ==
  /\ task' \in [Tasks -> HostTasks]
  /\ \A t \in Tasks : /\ task'[t].of = task[t].of \/ task[t].of = None
                      /\ task'[t].is # "none" => task'[t].of \in Autos

LEMMA NamesStay ==
  ASSUME AutomationsAssumption, Owners, NEW r, NEW a, Names(r, a)
  PROVE  r # None => r \in Tasks /\ a \in Autos /\ task'[r].of = a
BY Parameters DEF Owners, Names

(* Only tasks of a's own, or a new one, are other than they were. *)
OnlyOf(a) ==
  \A t \in Tasks : task'[t] = task[t] \/ (task'[t].of = a /\ task[t].of \in {a, None})

LEMMA OneTaskChanges ==
  ASSUME TypeOK, Owned, NEW u \in Tasks, NEW a \in Autos, NEW v \in HostTasks, v.of = a,
         task[u].of \in {a, None}, task' = [task EXCEPT ![u] = v]
  PROVE  Owners /\ OnlyOf(a)
<1>1. /\ task' \in [Tasks -> HostTasks] /\ task'[u] = v
      /\ \A t \in Tasks \ {u} : task'[t] = task[t]
  BY DEF TypeOK
<1>2. Owners
  BY <1>1 DEF Owners, Owned
<1>3. QED
  BY <1>1, <1>2 DEF OnlyOf

LEMMA SameTasks ==
  ASSUME TypeOK, Owned, task' = task
  PROVE  Owners /\ \A a \in Autos : OnlyOf(a)
BY DEF TypeOK, Owned, Owners, OnlyOf

(* What the host does at a job's request is done to a task of the job's      *)
(* automation.                                                               *)
LEMMA DoneOwners ==
  ASSUME AutomationsAssumption, TypeOK, Owned, Placed, NEW j \in Jobs, task' \in Done(j)
  PROVE  Owners /\ job[j].a \in Autos /\ OnlyOf(job[j].a)
<1> job[j] \in JobType
  BY DEF TypeOK, JobType
<1> DEFINE old == job[j].as.ref
           new == job[j].new
<1>0. job[j].at \in {"create", "save", "update", "switch", "delete"}
  BY DEF Done
<1>a. job[j].a \in Autos /\ (job[j].at \in {"update", "switch", "delete"} => old \in Tasks)
  BY <1>0 DEF Placed
<1>b. /\ old \in Tasks => task[old].of = job[j].a /\ task[old] \in HostTasks
      /\ job[j].at = "save" => new \in Tasks /\ task[new].of = job[j].a /\ task[new] \in HostTasks
  BY Parameters DEF Owned, Names, TypeOK
<1>1. CASE job[j].at = "create"
  <2>1. PICK t \in Fresh : task' = [task EXCEPT ![t] = Made(j)]
    BY <1>1 DEF Done
  <2>2. Made(j) \in HostTasks /\ Made(j).of = job[j].a
    BY <1>a DEF Made, HostTasks, JobType, Rows
  <2>3. t \in Tasks /\ task[t].of = None
    BY DEF Fresh, NoTask
  <2>4. QED
    BY <1>a, <2>1, <2>2, <2>3, OneTaskChanges
<1>2. CASE job[j].at = "save"
  <2> DEFINE v == [task[new] EXCEPT !.is = IF job[j].as.on THEN @ ELSE "paused"]
  <2>1. task' = [task EXCEPT ![new] = v]
    BY <1>2 DEF Done, Switched
  <2>2. v \in HostTasks /\ v.of = job[j].a
    BY <1>2, <1>b DEF HostTasks
  <2>3. QED
    BY <1>2, <1>a, <1>b, <2>1, <2>2, OneTaskChanges
<1>3. CASE job[j].at = "update"
  <2> DEFINE v == [task[old] EXCEPT !.text = job[j].as.text]
  <2>1. task' = [task EXCEPT ![old] = v]
    BY <1>3 DEF Done
  <2>2. job[j].as.text \in Nat
    BY DEF JobType, Rows
  <2>3. v \in HostTasks /\ v.of = job[j].a
    BY <1>3, <1>a, <1>b, <2>2 DEF HostTasks
  <2>4. QED
    BY <1>3, <1>a, <1>b, <2>1, <2>3, OneTaskChanges
<1>4. CASE job[j].at = "switch"
  <2> DEFINE v == [task[old] EXCEPT !.is = IF job[j].as.on THEN "live" ELSE "paused"]
  <2>1. task' = [task EXCEPT ![old] = v]
    BY <1>4 DEF Done
  <2>2. v \in HostTasks /\ v.of = job[j].a
    BY <1>4, <1>a, <1>b DEF HostTasks
  <2>3. QED
    BY <1>4, <1>a, <1>b, <2>1, <2>2, OneTaskChanges
<1>5. CASE job[j].at = "delete"
  <2> DEFINE v == [task[old] EXCEPT !.is = "gone"]
  <2>1. task' = [task EXCEPT ![old] = v]
    BY <1>5 DEF Done
  <2>2. v \in HostTasks /\ v.of = job[j].a
    BY <1>5, <1>a, <1>b DEF HostTasks
  <2>3. QED
    BY <1>5, <1>a, <1>b, <2>1, <2>2, OneTaskChanges
<1>6. QED
  BY <1>0, <1>1, <1>2, <1>3, <1>4, <1>5

(* The two ways a sync goes: it returns, or it has asked the host for        *)
(* something.                                                                *)
LEMMA SyncShape ==
  ASSUME AutomationsAssumption, TypeOK, NEW j \in Jobs, NEW a \in Autos, NEW as \in Rows, Names(as.ref, a),
         NEW list \in [Tasks -> HostTasks], NEW noted \in [Tasks -> Notes \cup {None}],
         Sync(j, a, as, list, noted)
  PROVE  /\ row' \in [Autos -> Rows] /\ refs' \in [Tasks -> Notes \cup {None}] /\ HistoryTyped
         /\ \A b \in Autos : row'[b].ref = row[b].ref
         /\ \/ Ended(j)
            \/ Waiting(j, "update", a, as, None) /\ as.ref \in Tasks
            \/ Waiting(j, "create", a, as, None)
<1> DEFINE t == as.ref
           there == t # None /\ list[t].is \in {"live", "paused"}
           quit == there /\ as.on /\ GaveUp(list[t]) /\ job[j].do # "update"
           drift == there /\ ~quit /\ Drifted(as, list[t])
           taken == rt = "ready" /\ (drift => noted[t] # None)
<1>1. CASE /\ quit
           /\ row' = [row EXCEPT ![a] = IF @.is = "kept" THEN [@ EXCEPT !.on = FALSE, !.verdict = TRUE] ELSE @]
           /\ refs' = noted
           /\ Settle(j, a) /\ Returns(j)
  <2>1. [row[a] EXCEPT !.on = FALSE, !.verdict = TRUE] \in Rows
    BY DEF TypeOK, Rows
  <2>2. row' \in [Autos -> Rows] /\ \A b \in Autos : row'[b].ref = row[b].ref
    BY <1>1, <2>1 DEF TypeOK, Rows
  <2>3. QED
    BY <1>1, <2>2, ReturnsEnds, SettleTyped
<1>2. CASE /\ refs' = noted
           /\ doubt' = IF noted[t] # None /\ noted[t].text = task[t].text THEN doubt \ (steady[j] \cap {a}) ELSE doubt
           /\ steady' = [steady EXCEPT ![j] = @ \ {a}]
           /\ row' = row /\ Returns(j)
  <2>1. HistoryTyped
    BY <1>2 DEF HistoryTyped, TypeOK
  <2>2. QED
    BY <1>2, <2>1, ReturnsEnds DEF TypeOK
<1>3. CASE /\ drift \/ ~there
           /\ refs' = IF drift THEN [noted EXCEPT ![t].text = as.text] ELSE noted
           /\ Waits(j, IF drift THEN "update" ELSE "create", a, as, None)
           /\ Touch(j, a) /\ row' = row
           /\ taken
  <2>1. refs' \in [Tasks -> Notes \cup {None}]
    <3>1. CASE drift
      <4>1. t \in Tasks /\ noted[t] \in Notes
        BY <1>3, <3>1 DEF Names
      <4>2. as.text \in Nat
        BY DEF Rows
      <4>3. [noted[t] EXCEPT !.text = as.text] \in Notes
        BY <4>1, <4>2 DEF Notes
      <4>4. QED
        BY <1>3, <3>1, <4>1, <4>3
    <3>2. QED
      BY <1>3, <3>1
  <2>2. CASE drift
    BY <1>3, <2>1, <2>2, TouchTyped, WaitsWaits DEF TypeOK, Names, Pcs
  <2>3. CASE ~drift
    BY <1>3, <2>1, <2>3, TouchTyped, WaitsWaits DEF TypeOK, Names, Pcs
  <2>4. QED
    BY <2>2, <2>3
<1>4. CASE /\ refs' = noted
           /\ steady' = [steady EXCEPT ![j] = @ \ {a}]
           /\ row' = row /\ doubt' = doubt /\ Returns(j)
  <2>1. HistoryTyped
    BY <1>4 DEF HistoryTyped, TypeOK
  <2>2. QED
    BY <1>4, <2>1, ReturnsEnds DEF TypeOK
<1>5. QED
  BY <1>1, <1>2, <1>3, <1>4 DEF Sync

(* Owned goes on, as tasks keep their owners and nothing names another's.    *)
LEMMA OwnedStays ==
  ASSUME AutomationsAssumption, Owned, Owners,
         \A t \in found' : t \in found \/ (t \in Tasks /\ task[t].is # "none"),
         found \subseteq Tasks,
         \A a \in Autos : Names(row'[a].ref, a) /\ Names(mine'[a].ref, a),
         \A k \in Jobs : \/ job'[k] = job[k]
                         \/ /\ Names(job'[k].as.ref, job'[k].a)
                            /\ job'[k].at = "save" => /\ job'[k].new \in Tasks /\ job'[k].a \in Autos
                                                      /\ task'[job'[k].new].of = job'[k].a
  PROVE  Owned'
<1>1. \A t \in Tasks : task'[t].is # "none" => task'[t].of \in Autos
  BY DEF Owners
<1>2. \A t \in found' : task'[t].of \in Autos
  BY Parameters DEF Owners, Owned
<1>3. \A a \in Autos : Names(row[a].ref, a)' /\ Names(mine[a].ref, a)'
  BY NamesStay DEF Names
<1>4. \A k \in Jobs : Names(job[k].as.ref, job[k].a)'
  <2> TAKE k \in Jobs
  <2>1. Names(job'[k].as.ref, job'[k].a)
    BY DEF Owned
  <2>2. QED
    BY <2>1, NamesStay DEF Names
<1>5. \A k \in Jobs : job'[k].at = "save" => job'[k].new # None /\ Names(job[k].new, job[k].a)'
  <2> TAKE k \in Jobs
  <2>1. CASE job'[k] = job[k]
    <3>1. job[k].at = "save" => job[k].new # None /\ Names(job[k].new, job[k].a)
      BY DEF Owned
    <3>2. QED
      BY <2>1, <3>1, NamesStay DEF Names
  <2>2. CASE job'[k] # job[k]
    BY <2>2, Parameters DEF Names
  <2>3. QED
    BY <2>1, <2>2
<1>6. QED
  BY <1>1, <1>2, <1>3, <1>4, <1>5 DEF Owned

(* Placed goes on, as a job ends, waits for something, or does nothing.      *)
LEMMA EndedPlaced ==
  ASSUME AutomationsAssumption, TypeOK, Placed, NEW j \in Jobs, Ended(j), todo' \subseteq Autos,
         j # Reconcile => todo' = todo
  PROVE  Placed'
BY Parameters DEF Placed, Ended

LEMMA WaitingPlaced ==
  ASSUME AutomationsAssumption, TypeOK, Placed, NEW j \in Jobs, NEW pc \in {"update", "switch", "create", "save"},
         NEW a \in Autos, NEW as, NEW new, Waiting(j, pc, a, as, new),
         pc \in {"update", "switch"} => as.ref \in Tasks,
         j # Reconcile => todo' = todo, j = Reconcile => a \notin todo'
  PROVE  Placed'
BY Parameters DEF Placed, Waiting

(* A job a person starts. *)
LEMMA BeginShape ==
  ASSUME AutomationsAssumption, TypeOK, NEW j \in 1 .. Persons, NEW a \in Autos,
         NEW do \in {"create", "update"}, row' \in [Autos -> Rows], BeginSync(j, a, do)
  PROVE  /\ job' \in [Jobs -> JobType] /\ egress' \subseteq Autos /\ HistoryTyped /\ todo' = todo
         /\ \A k \in Jobs \ {j} : job'[k] = job[k]
         /\ \/ job' = job
            \/ job'[j].at = "list" /\ job'[j].a = a /\ job'[j].as = row'[a]
<1>1. HistoryTyped /\ todo' = todo
  BY DEF BeginSync, TypeOK, HistoryTyped
<1>2. j \in Jobs
  BY Parameters
<1>3. CASE ready /\ rt = "ready"
  <2> DEFINE new == [at |-> "list", do |-> do, a |-> a, as |-> row'[a], new |-> None]
  <2>1. new \in JobType
    BY DEF JobType, Pcs
  <2>2. job' = [job EXCEPT ![j] = new] /\ egress' = egress
    BY <1>3 DEF BeginSync
  <2>3. job \in [Jobs -> JobType] /\ egress \subseteq Autos
    BY DEF TypeOK, JobType
  <2>4. QED
    BY <1>1, <1>2, <2>1, <2>2, <2>3
<1>4. CASE ~(ready /\ rt = "ready")
  BY <1>1, <1>4 DEF BeginSync, TypeOK, JobType, EgressPolicy
<1>5. QED
  BY <1>3, <1>4

(* Each action keeps the shape: the person's.                                *)
LEMMA PersonShape ==
  ASSUME AutomationsAssumption, Shape, NEW j \in 1 .. Persons, Person(j)
  PROVE  Shape'
<1>0. PICK a \in Autos : Create(j, a) \/ Update(j, a) \/ Remove(j, a)
  BY DEF Person
<1> TypeOK /\ Owned /\ Placed /\ j \in Jobs /\ j # Reconcile
  BY Parameters DEF Shape
<1>a. /\ UNCHANGED <<life, lists, watch, pauses, failures, stops, task, refs>>
      /\ changes' = changes + 1 /\ job[j] = Idle
  BY <1>0 DEF Create, Update, Remove, MayChange
<1>b. Owners
  BY <1>a, SameTasks
<1>1. CASE Create(j, a) \/ Update(j, a)
  <2>1. row' \in [Autos -> Rows] /\ \A b \in Autos : row'[b].ref \in {row[b].ref, None}
    <3>0. row \in [Autos -> Rows]
      BY DEF TypeOK
    <3>1. CASE Create(j, a)
      <4>1. PICK on \in BOOLEAN : row' = [row EXCEPT ![a] = [NoRow EXCEPT !.is = "kept", !.on = on]]
        BY <3>1 DEF Create
      <4>2. [NoRow EXCEPT !.is = "kept", !.on = on] \in Rows
        BY DEF NoRow, Rows
      <4>3. [NoRow EXCEPT !.is = "kept", !.on = on].ref = None
        BY DEF NoRow
      <4>4. QED
        BY <3>0, <4>1, <4>2, <4>3
    <3>2. CASE Update(j, a)
      <4>1. \E v \in Rows : v.ref = row[a].ref /\ row' = [row EXCEPT ![a] = v]
        <5>1. CASE row' = [row EXCEPT ![a].text = @ + 1]
          <6>1. [row[a] EXCEPT !.text = @ + 1] \in Rows
            BY <3>0 DEF Rows
          <6>2. [row[a] EXCEPT !.text = @ + 1].ref = row[a].ref
            BY <3>0 DEF Rows
          <6>3. QED
            BY <5>1, <6>1, <6>2
        <5>2. CASE row' = [row EXCEPT ![a].on = TRUE, ![a].verdict = FALSE]
          <6>1. [row[a] EXCEPT !.on = TRUE, !.verdict = FALSE] \in Rows
            BY <3>0 DEF Rows
          <6>2. [row[a] EXCEPT !.on = TRUE, !.verdict = FALSE].ref = row[a].ref
            BY <3>0 DEF Rows
          <6>3. row' = [row EXCEPT ![a] = [row[a] EXCEPT !.on = TRUE, !.verdict = FALSE]]
            BY <3>0, <5>2
          <6>4. QED
            BY <6>1, <6>2, <6>3
        <5>3. CASE row' = [row EXCEPT ![a].on = FALSE]
          <6>1. [row[a] EXCEPT !.on = FALSE] \in Rows
            BY <3>0 DEF Rows
          <6>2. [row[a] EXCEPT !.on = FALSE].ref = row[a].ref
            BY <3>0 DEF Rows
          <6>3. QED
            BY <5>3, <6>1, <6>2
        <5>4. QED
          BY <3>2, <5>1, <5>2, <5>3 DEF Update
      <4>2. QED
        BY <3>0, <4>1
    <3>3. QED
      BY <1>1, <3>1, <3>2
  <2>2. BeginSync(j, a, "create") \/ BeginSync(j, a, "update")
    BY <1>1 DEF Create, Update
  <2>3. /\ job' \in [Jobs -> JobType] /\ egress' \subseteq Autos /\ HistoryTyped /\ todo' = todo
        /\ \A k \in Jobs \ {j} : job'[k] = job[k]
        /\ \/ job' = job
           \/ job'[j].at = "list" /\ job'[j].a = a /\ job'[j].as = row'[a]
    BY <2>1, <2>2, BeginShape
  <2>4. TypeOK'
    BY <1>a, <2>1, <2>3 DEF TypeOK, JobType, HistoryTyped, life, lists, watch
  <2>5. \A b \in Autos : Names(row'[b].ref, b) /\ Names(mine'[b].ref, b)
    BY <1>a, <2>1 DEF Owned, Names, lists
  <2>6. Owned'
    <3>1. \A k \in Jobs : job'[k] = job[k] \/ (Names(job'[k].as.ref, job'[k].a) /\ job'[k].at # "save")
      BY <2>3, <2>5
    <3>2. QED
      BY <1>a, <1>b, <2>5, <3>1, OwnedStays DEF watch, TypeOK
  <2>7. Placed'
    BY <2>3, Parameters DEF Placed
  <2>8. QED
    BY <2>4, <2>6, <2>7 DEF Shape
<1>2. CASE Remove(j, a)
  <2>1. CASE row[a].ref # None /\ rt = "ready"
    <3> DEFINE new == [at |-> "delete", do |-> "remove", a |-> a, as |-> row[a], new |-> None]
    <3>1. job' = [job EXCEPT ![j] = new] /\ UNCHANGED <<row, egress, history, todo>>
      BY <1>2, <2>1 DEF Remove
    <3>2. new \in JobType /\ row[a].ref \in Tasks
      BY <2>1 DEF JobType, Pcs, TypeOK, Rows
    <3>3. job' \in [Jobs -> JobType] /\ job'[j] = new /\ \A k \in Jobs \ {j} : job'[k] = job[k]
      BY <3>1, <3>2 DEF TypeOK, JobType
    <3>4. TypeOK'
      BY <1>a, <3>1, <3>3 DEF TypeOK, JobType, life, lists, watch, history
    <3>5. \A b \in Autos : Names(row'[b].ref, b) /\ Names(mine'[b].ref, b)
      BY <1>a, <3>1 DEF Owned, lists
    <3>6. Owned'
      <4>1. \A k \in Jobs : job'[k] = job[k] \/ (Names(job'[k].as.ref, job'[k].a) /\ job'[k].at # "save")
        BY <3>1, <3>3, <3>5
      <4>2. QED
        BY <1>a, <1>b, <3>5, <4>1, OwnedStays DEF watch, TypeOK
    <3>7. Placed'
      BY <3>1, <3>2, <3>3, Parameters DEF Placed
    <3>8. QED
      BY <3>4, <3>6, <3>7 DEF Shape
  <2>2. CASE ~(row[a].ref # None /\ rt = "ready")
    <3>1. /\ row' = [row EXCEPT ![a] = NoneLeft] /\ egress' = EgressPolicy(row')
          /\ Touch(None, a) /\ job' = job /\ todo' = todo
      BY <1>2, <2>2 DEF Remove
    <3>2. TypeOK'
      BY <1>a, <3>1, TouchTyped, Forms DEF TypeOK, EgressPolicy, HistoryTyped, life, lists, watch
    <3>3. \A b \in Autos : Names(row'[b].ref, b) /\ Names(mine'[b].ref, b)
      BY <1>a, <3>1, Forms DEF Owned, Names, lists, TypeOK
    <3>4. Owned'
      BY <1>a, <1>b, <3>1, <3>3, OwnedStays DEF watch, TypeOK
    <3>5. QED
      BY <3>1, <3>2, <3>4 DEF Shape, Placed
  <2>3. QED
    BY <2>1, <2>2
<1>3. QED
  BY <1>0, <1>1, <1>2

(* What an answer, or a failure, leaves alone. *)
LEMMA GoesFrame ==
  ASSUME NEW j \in Jobs, Goes(j)
  PROVE  /\ UNCHANGED <<life, known, mine, todo, found, told, changes, pauses, stops>>
         /\ core = "up" /\ job[j].at \in {"list", "update", "switch", "create", "save", "delete"}
BY DEF Goes, AnswersList, AnswersUpdate, AnswersSwitch, AnswersCreate, AnswersSave, AnswersDelete,
       Fails, Answers, life, lists, watch, bounds

(* The rows, tasks, notes and counters of a step of a job: what of the shape *)
(* does not depend on where the job goes.                                    *)
StepTyped ==
  /\ row' \in [Autos -> Rows] /\ refs' \in [Tasks -> Notes \cup {None}] /\ HistoryTyped /\ failures' \in Nat
  /\ Owners /\ \A b \in Autos : Names(row'[b].ref, b)

(* A job of the host's answers ends, or asks for something else about the    *)
(* same automation.                                                          *)
LEMMA GoesOn ==
  ASSUME AutomationsAssumption, Shape, NEW j \in Jobs, StepTyped,
         UNCHANGED <<life, known, mine, todo, found, told, changes, pauses, stops>>,
         \/ Ended(j)
         \/ \E pc \in {"update", "switch", "create"} :
              /\ Waiting(j, pc, job[j].a, job[j].as, None)
              /\ job[j].a \in Autos /\ (pc # "create" => job[j].as.ref \in Tasks)
              /\ j = Reconcile => job[j].a \notin todo
         \/ \E t \in Tasks :
              /\ Waiting(j, "save", job[j].a, job[j].as, t)
              /\ job[j].a \in Autos /\ task'[t].of = job[j].a
              /\ j = Reconcile => job[j].a \notin todo
  PROVE  Shape'
<1> TypeOK /\ Owned /\ Placed
  BY DEF Shape
<1>1. job' \in [Jobs -> JobType] /\ egress' \subseteq Autos
  BY DEF Ended, Waiting, TypeOK
<1>2. TypeOK'
  BY <1>1 DEF TypeOK, JobType, StepTyped, HistoryTyped, Owners, life
<1>3. Placed'
  <2>1. CASE Ended(j)
    BY <2>1, EndedPlaced DEF TypeOK
  <2>2. CASE \E pc \in {"update", "switch", "create"} :
              /\ Waiting(j, pc, job[j].a, job[j].as, None)
              /\ job[j].a \in Autos /\ (pc # "create" => job[j].as.ref \in Tasks)
              /\ j = Reconcile => job[j].a \notin todo
    BY <2>2, WaitingPlaced
  <2>3. CASE \E t \in Tasks :
              /\ Waiting(j, "save", job[j].a, job[j].as, t)
              /\ job[j].a \in Autos /\ task'[t].of = job[j].a
              /\ j = Reconcile => job[j].a \notin todo
    BY <2>3, WaitingPlaced
  <2>4. QED
    BY <2>1, <2>2, <2>3
<1>4. \A k \in Jobs : \/ job'[k] = job[k]
                      \/ /\ Names(job'[k].as.ref, job'[k].a)
                         /\ job'[k].at = "save" => /\ job'[k].new \in Tasks /\ job'[k].a \in Autos
                                                   /\ task'[job'[k].new].of = job'[k].a
  BY DEF Ended, Waiting, Owned, Names
<1>5. \A b \in Autos : Names(row'[b].ref, b) /\ Names(mine'[b].ref, b)
  BY DEF StepTyped, Owned
<1>6. Owned'
  BY <1>4, <1>5, OwnedStays DEF StepTyped, TypeOK
<1>7. QED
  BY <1>2, <1>3, <1>6 DEF Shape

(* What a job is waiting for is about an automation it is not to come to.    *)
LEMMA WhereJobsAre ==
  ASSUME Shape, NEW j \in Jobs
  PROVE  /\ job[j] \in JobType /\ job[j].as \in Rows /\ job[j].as.text \in Nat /\ job[j].as.on \in BOOLEAN
         /\ j = Reconcile => job[j].a \notin todo
         /\ Names(job[j].as.ref, job[j].a)
         /\ job[j].at \in {"update", "switch", "create", "save", "delete"} => job[j].a \in Autos
         /\ job[j].at \in {"update", "switch", "delete"} => job[j].as.ref \in Tasks
         /\ job[j].at = "save" => job[j].new \in Tasks /\ task[job[j].new].of = job[j].a
<1>1. job[j] \in JobType
  BY DEF Shape, TypeOK, JobType
<1>2. QED
  BY <1>1 DEF Shape, JobType, Rows, Owned, Placed, Names

LEMMA AnswersListShape ==
  ASSUME AutomationsAssumption, Shape, NEW j \in Jobs, AnswersList(j)
  PROVE  Shape'
<1> TypeOK /\ Owned /\ Placed
  BY DEF Shape
<1>1. j # Reconcile /\ Sync(j, job[j].a, job[j].as, Listed, Recovered) /\ task' = task
  BY DEF AnswersList
<1>2. job[j].a \in Autos /\ job[j].as \in Rows /\ Names(job[j].as.ref, job[j].a)
  BY <1>1, WhereJobsAre DEF Placed, AnswersList, Answers
<1>3. /\ row' \in [Autos -> Rows] /\ refs' \in [Tasks -> Notes \cup {None}] /\ HistoryTyped
      /\ \A b \in Autos : row'[b].ref = row[b].ref
      /\ \/ Ended(j)
         \/ Waiting(j, "update", job[j].a, job[j].as, None) /\ job[j].as.ref \in Tasks
         \/ Waiting(j, "create", job[j].a, job[j].as, None)
  BY <1>1, <1>2, ListTyped, SyncShape
<1>4. UNCHANGED <<life, known, mine, todo, found, told, changes, pauses, stops, failures>>
  BY DEF AnswersList, Answers, life, lists, watch, bounds
<1>5. StepTyped
  BY <1>1, <1>3, <1>4, SameTasks DEF StepTyped, TypeOK, Owned
<1>6. QED
  BY <1>1, <1>2, <1>3, <1>4, <1>5, GoesOn

LEMMA AnswersUpdateShape ==
  ASSUME AutomationsAssumption, Shape, NEW j \in Jobs, AnswersUpdate(j)
  PROVE  Shape'
<1> TypeOK /\ Owned /\ Placed
  BY DEF Shape
<1> DEFINE t == job[j].as.ref
<1>1. job[j].a \in Autos /\ job[j].as \in Rows /\ t \in Tasks /\ (j = Reconcile => job[j].a \notin todo)
      /\ job[j].as.text \in Nat /\ job[j].as.on \in BOOLEAN
  BY WhereJobsAre DEF AnswersUpdate, Answers
<1>2. /\ UNCHANGED <<life, known, mine, todo, found, told, changes, pauses, stops, failures>>
      /\ row' = row
  BY DEF AnswersUpdate, Answers, life, lists, watch, bounds
<1>a. \A b \in Autos : Names(row'[b].ref, b)
  BY <1>2 DEF Owned
<1>3. CASE There(t)
  <2>1. /\ task' = [task EXCEPT ![t].text = job[j].as.text]
        /\ refs' = IF refs[t] = None THEN refs ELSE [refs EXCEPT ![t].on = job[j].as.on]
        /\ Waits(j, "switch", job[j].a, job[j].as, None)
        /\ Touch(j, job[j].a)
    BY <1>3 DEF AnswersUpdate
  <2>2. task' \in Done(j)
    BY <1>3, <2>1 DEF Done, AnswersUpdate, Answers
  <2>3. refs' \in [Tasks -> Notes \cup {None}]
    <3>1. CASE refs[t] = None
      BY <2>1, <3>1 DEF TypeOK
    <3>2. CASE refs[t] # None
      <4>1. [refs[t] EXCEPT !.on = job[j].as.on] \in Notes
        BY <1>1, <3>2 DEF TypeOK, Notes
      <4>2. QED
        BY <2>1, <3>2, <4>1 DEF TypeOK
    <3>3. QED
      BY <3>1, <3>2
  <2>4. Waiting(j, "switch", job[j].a, job[j].as, None)
    BY <1>1, <2>1, WaitsWaits DEF Pcs
  <2>5. StepTyped
    BY <1>1, <1>2, <1>a, <2>1, <2>2, <2>3, TouchTyped, DoneOwners DEF StepTyped, TypeOK
  <2>6. QED
    BY <1>1, <1>2, <2>4, <2>5, GoesOn
<1>4. CASE ~There(t)
  <2>1. Returns(j) /\ UNCHANGED <<task, refs, history>>
    BY <1>4 DEF AnswersUpdate
  <2>2. StepTyped
    BY <1>2, <1>a, <2>1, SameTasks DEF StepTyped, TypeOK, HistoryTyped, history
  <2>3. QED
    BY <1>2, <2>1, <2>2, ReturnsEnds, GoesOn
<1>5. QED
  BY <1>3, <1>4

LEMMA AnswersSwitchShape ==
  ASSUME AutomationsAssumption, Shape, NEW j \in Jobs, AnswersSwitch(j)
  PROVE  Shape'
<1> TypeOK /\ Owned /\ Placed
  BY DEF Shape
<1> DEFINE t == job[j].as.ref
<1>1. job[j].a \in Autos
  BY WhereJobsAre DEF AnswersSwitch, Answers
<1>2. /\ UNCHANGED <<life, known, mine, todo, found, told, changes, pauses, stops, failures>>
      /\ row' = row /\ refs' = refs /\ Returns(j)
  BY DEF AnswersSwitch, Answers, life, lists, watch, bounds
<1>3. Owners /\ HistoryTyped
  <2>1. CASE There(t)
    <3>1. task' \in Done(j)
      BY <2>1 DEF Done, AnswersSwitch, Answers
    <3>2. Settle(j, job[j].a)
      BY <2>1 DEF AnswersSwitch
    <3>3. QED
      BY <1>1, <3>1, <3>2, DoneOwners, SettleTyped
  <2>2. CASE ~There(t)
    BY <2>2, SameTasks DEF AnswersSwitch, HistoryTyped, TypeOK, history
  <2>3. QED
    BY <2>1, <2>2
<1>4. StepTyped
  BY <1>2, <1>3 DEF StepTyped, TypeOK, Owned
<1>5. QED
  BY <1>2, <1>4, ReturnsEnds, GoesOn

LEMMA AnswersCreateShape ==
  ASSUME AutomationsAssumption, Shape, NEW j \in Jobs, AnswersCreate(j)
  PROVE  Shape'
<1> TypeOK /\ Owned /\ Placed
  BY DEF Shape
<1>1. /\ job[j].a \in Autos /\ job[j].as \in Rows /\ (j = Reconcile => job[j].a \notin todo)
      /\ job[j].as.text \in Nat /\ job[j].as.on \in BOOLEAN
  BY WhereJobsAre DEF AnswersCreate, Answers
<1>2. /\ UNCHANGED <<life, known, mine, todo, found, told, changes, pauses, stops, failures>>
      /\ row' = row /\ Touch(j, job[j].a)
  BY DEF AnswersCreate, Answers, life, lists, watch, bounds
<1>3. PICK t \in Fresh :
       /\ task' = [task EXCEPT ![t] = Made(j)]
       /\ refs' = [refs EXCEPT ![t] = [text |-> job[j].as.text, on |-> job[j].as.on]]
       /\ Waits(j, "save", job[j].a, job[j].as, t)
  BY DEF AnswersCreate
<1>4. t \in Tasks /\ task'[t].of = job[j].a
  BY <1>3 DEF Fresh, Made, TypeOK
<1>5. Waiting(j, "save", job[j].a, job[j].as, t)
  BY <1>1, <1>3, <1>4, WaitsWaits DEF Pcs
<1>6. refs' \in [Tasks -> Notes \cup {None}]
  BY <1>1, <1>3 DEF TypeOK, Notes
<1>7. task' \in Done(j)
  BY <1>3 DEF Done, AnswersCreate, Answers
<1>8. StepTyped
  BY <1>1, <1>2, <1>6, <1>7, DoneOwners, TouchTyped DEF StepTyped, TypeOK, Owned
<1>9. QED
  BY <1>1, <1>2, <1>4, <1>5, <1>8, GoesOn

LEMMA AnswersSaveShape ==
  ASSUME AutomationsAssumption, Shape, NEW j \in Jobs, AnswersSave(j)
  PROVE  Shape'
<1> TypeOK /\ Owned /\ Placed
  BY DEF Shape
<1> DEFINE a == job[j].a
           t == job[j].new
<1>1. a \in Autos /\ t \in Tasks /\ task[t].of = a
  BY WhereJobsAre DEF AnswersSave, Answers
<1>2. /\ UNCHANGED <<life, known, mine, todo, found, told, changes, pauses, stops, failures>>
      /\ refs' = refs /\ Settle(j, a) /\ task' \in Done(j)
      /\ row' = IF Kept(a) THEN [row EXCEPT ![a].ref = t] ELSE row
  BY DEF AnswersSave, Answers, Done, life, lists, watch, bounds
<1>3. row' \in [Autos -> Rows] /\ \A b \in Autos : Names(row'[b].ref, b)
  <2> DEFINE v == [row[a] EXCEPT !.ref = t]
  <2>1. row[a] \in Rows
    BY <1>1 DEF TypeOK
  <2>2. v \in [is : {"none", "kept", "gone"}, text : Nat, on : BOOLEAN, verdict : BOOLEAN, ref : Tasks \cup {None}]
    BY <1>1, <2>1 DEF Rows
  <2>3. v.ref = t /\ v.verdict = row[a].verdict /\ v.on = row[a].on
    BY <2>1 DEF Rows
  <2>4. v \in Rows
    BY <2>1, <2>2, <2>3 DEF Rows
  <2>5. QED
    BY <1>1, <1>2, <2>3, <2>4 DEF TypeOK, Owned, Names
<1>4. StepTyped
  BY <1>1, <1>2, <1>3, DoneOwners, SettleTyped DEF StepTyped, TypeOK
<1>5. Ended(j)
  <2>1. CASE job[j].do = "update" /\ ~Kept(a)
    <3>1. job' = [job EXCEPT ![j] = Idle] /\ egress' = egress
      BY <2>1 DEF AnswersSave
    <3>2. j # Reconcile /\ a \notin EgressPolicy(row)
      BY <2>1 DEF Placed, EgressPolicy, Kept, AutomationsAssumption
    <3>3. job' \in [Jobs -> JobType] /\ job'[j] = Idle /\ \A k \in Jobs \ {j} : job'[k] = job[k]
      BY <3>1, Forms DEF TypeOK, JobType
    <3>4. QED
      BY <3>1, <3>2, <3>3, Forms DEF Ended, TypeOK
  <2>2. CASE ~(job[j].do = "update" /\ ~Kept(a))
    BY <2>2, ReturnsEnds DEF AnswersSave
  <2>3. QED
    BY <2>1, <2>2
<1>6. QED
  BY <1>2, <1>4, <1>5, GoesOn

LEMMA AnswersDeleteShape ==
  ASSUME AutomationsAssumption, Shape, NEW j \in Jobs, AnswersDelete(j)
  PROVE  Shape'
<1> TypeOK /\ Owned /\ Placed
  BY DEF Shape
<1>1. job[j].a \in Autos
  BY WhereJobsAre DEF AnswersDelete, Answers
<1>2. /\ UNCHANGED <<life, known, mine, todo, found, told, changes, pauses, stops, failures>>
      /\ task' \in Done(j) /\ refs' = [refs EXCEPT ![job[j].as.ref] = None]
      /\ row' = [row EXCEPT ![job[j].a] = NoneLeft] /\ Touch(None, job[j].a) /\ Returns(j)
  BY DEF AnswersDelete, Answers, Done, life, lists, watch, bounds
<1>3. StepTyped
  BY <1>1, <1>2, DoneOwners, TouchTyped, Forms DEF StepTyped, TypeOK, Owned, Names
<1>4. QED
  BY <1>2, <1>3, ReturnsEnds, GoesOn

LEMMA FailsShape ==
  ASSUME AutomationsAssumption, Shape, NEW j \in Jobs, Fails(j)
  PROVE  Shape'
<1> TypeOK /\ Owned /\ Placed
  BY DEF Shape
<1>1. /\ UNCHANGED <<life, known, mine, todo, found, told, changes, pauses, stops>>
      /\ failures' \in Nat /\ refs' = refs /\ task' \in {task} \cup Done(j)
      /\ row' = IF job[j].at = "delete" THEN [row EXCEPT ![job[j].a] = NoneLeft] ELSE row
  BY DEF Fails, life, lists, watch, TypeOK
<1>2. Owners
  BY <1>1, DoneOwners, SameTasks
<1>3. row' \in [Autos -> Rows] /\ \A b \in Autos : Names(row'[b].ref, b)
  BY <1>1, Forms DEF TypeOK, Owned, Names
<1>4. CASE job[j].a = None
  <2>1. job' = [job EXCEPT ![j] = Idle] /\ UNCHANGED <<egress, history>>
    BY <1>4 DEF Fails
  <2>2. job[j].at = "list" /\ j = Reconcile /\ todo' = {}
    BY <1>1, <1>4, Parameters DEF Fails, Placed
  <2>3. job' \in [Jobs -> JobType] /\ job'[j] = Idle /\ \A k \in Jobs \ {j} : job'[k] = job[k]
    BY <2>1, Forms DEF TypeOK, JobType
  <2>4. None \notin EgressPolicy(row)
    BY Parameters DEF EgressPolicy
  <2>5. Ended(j)
    BY <1>4, <2>1, <2>2, <2>3, <2>4, Forms DEF Ended, TypeOK
  <2>6. StepTyped
    BY <1>1, <1>2, <1>3, <2>1 DEF StepTyped, HistoryTyped, TypeOK, history
  <2>7. QED
    BY <1>1, <2>5, <2>6, GoesOn
<1>5. CASE job[j].a # None
  <2>1. Returns(j) /\ Touch(None, job[j].a) /\ job[j].a \in Autos
    BY <1>5, WhereJobsAre DEF Fails, JobType
  <2>2. StepTyped
    BY <1>1, <1>2, <1>3, <2>1, TouchTyped DEF StepTyped, TypeOK
  <2>3. QED
    BY <1>1, <2>1, <2>2, ReturnsEnds, GoesOn
<1>6. QED
  BY <1>4, <1>5

LEMMA GoesShape ==
  ASSUME AutomationsAssumption, Shape, NEW j \in Jobs, Goes(j)
  PROVE  Shape'
BY AnswersListShape, AnswersUpdateShape, AnswersSwitchShape, AnswersCreateShape, AnswersSaveShape,
   AnswersDeleteShape, FailsShape DEF Goes

(* ... the reconciliation's.                                                 *)
LEMMA ReconcilesShape ==
  ASSUME AutomationsAssumption, Shape, Reconciles
  PROVE  Shape'
<1> TypeOK /\ Owned /\ Placed /\ Reconcile \in Jobs
  BY Parameters DEF Shape
<1>1. CASE ReconcileLists
  <2>1. /\ known' = Listed /\ refs' = Recovered /\ UNCHANGED <<life, watch, bounds, row, task, mine, todo, doubt>>
        /\ steady' = [steady EXCEPT ![Reconcile] = Autos \ UnderWay]
        /\ Waits(Reconcile, "mine", None, NoRow, None) /\ job[Reconcile].at = "list"
    BY <1>1 DEF ReconcileLists, Answers
  <2>2. Waiting(Reconcile, "mine", None, NoRow, None)
    BY <2>1, WaitsWaits, Forms DEF Pcs
  <2>3. steady' \in [Jobs -> SUBSET Autos]
    BY <2>1 DEF TypeOK
  <2>4. TypeOK'
    BY <2>1, <2>2, <2>3, ListTyped DEF TypeOK, Waiting, JobType, life, watch, bounds
  <2>5. Owned'
    <3>1. \A k \in Jobs : job'[k] = job[k] \/ (Names(job'[k].as.ref, job'[k].a) /\ job'[k].at # "save")
      BY <2>2, Forms DEF Waiting, Names
    <3>2. QED
      BY <2>1, <3>1, OwnedStays, SameTasks DEF Owned, TypeOK, watch
  <2>6. Placed'
    BY <2>1, <2>2, Parameters DEF Placed, Waiting
  <2>7. QED
    BY <2>4, <2>5, <2>6 DEF Shape
<1>2. CASE ReconcileReads
  <2>1. /\ UNCHANGED <<life, task, refs, watch, history, bounds, row>>
        /\ mine' = row /\ todo' = {a \in Autos : Kept(a)} /\ known' \in {NoTasks, known}
        /\ Returns(Reconcile)
    BY <1>2 DEF ReconcileReads
  <2>2. Ended(Reconcile)
    BY <2>1, ReturnsEnds
  <2>3. NoTasks \in [Tasks -> HostTasks]
    BY Forms DEF NoTasks
  <2>4. TypeOK'
    BY <2>1, <2>2, <2>3 DEF TypeOK, Ended, JobType, life, watch, history, bounds
  <2>5. Owned'
    <3>1. \A k \in Jobs : job'[k] = job[k] \/ (Names(job'[k].as.ref, job'[k].a) /\ job'[k].at # "save")
      BY <2>2 DEF Ended, Names
    <3>2. QED
      BY <2>1, <3>1, OwnedStays, SameTasks DEF Owned, TypeOK, watch
  <2>6. Placed'
    BY <2>1, <2>2, EndedPlaced
  <2>7. QED
    BY <2>4, <2>5, <2>6 DEF Shape
<1>3. ASSUME NEW a \in Autos, ReconcileNext(a) PROVE Shape'
  <2>1. /\ UNCHANGED <<life, task, watch, bounds>> /\ todo' = todo \ {a}
        /\ mine' = [mine EXCEPT ![a] = NoRow] /\ known' \in {NoTasks, known}
    BY <1>3 DEF ReconcileNext
  <2>2. mine[a] \in Rows /\ Names(mine[a].ref, a)
    BY DEF TypeOK, Owned
  <2>3. /\ row' \in [Autos -> Rows] /\ refs' \in [Tasks -> Notes \cup {None}] /\ HistoryTyped
        /\ \A b \in Autos : row'[b].ref = row[b].ref
        /\ \/ Ended(Reconcile)
           \/ Waiting(Reconcile, "update", a, mine[a], None) /\ mine[a].ref \in Tasks
           \/ Waiting(Reconcile, "create", a, mine[a], None)
    <3>1. CASE Sync(Reconcile, a, mine[a], known, refs)
      BY <2>2, <3>1, SyncShape DEF TypeOK
    <3>2. CASE UNCHANGED <<row, refs, history>> /\ Returns(Reconcile)
      BY <3>2, ReturnsEnds DEF TypeOK, HistoryTyped, history
    <3>3. QED
      BY <1>3, <3>1, <3>2 DEF ReconcileNext
  <2>4. NoTasks \in [Tasks -> HostTasks] /\ mine' \in [Autos -> Rows]
    BY <2>1, Forms DEF NoTasks, TypeOK
  <2>5. job' \in [Jobs -> JobType] /\ egress' \subseteq Autos
    BY <2>3 DEF Ended, Waiting, TypeOK
  <2>6. TypeOK'
    BY <2>1, <2>3, <2>4, <2>5 DEF TypeOK, HistoryTyped, JobType, life, watch, bounds
  <2>7. Owned'
    <3>1. \A k \in Jobs : job'[k] = job[k] \/ (Names(job'[k].as.ref, job'[k].a) /\ job'[k].at # "save")
      BY <2>2, <2>3 DEF Ended, Waiting, Names
    <3>2. \A b \in Autos : Names(row'[b].ref, b) /\ Names(mine'[b].ref, b)
      BY <2>1, <2>3, Forms DEF Owned, TypeOK, Names
    <3>3. QED
      BY <2>1, <3>1, <3>2, OwnedStays, SameTasks DEF TypeOK, watch
  <2>8. Placed'
    <3>1. todo' \subseteq Autos /\ a \notin todo'
      BY <2>1 DEF TypeOK
    <3>2. CASE Ended(Reconcile)
      BY <3>1, <3>2, EndedPlaced
    <3>3. CASE Waiting(Reconcile, "update", a, mine[a], None) /\ mine[a].ref \in Tasks
      BY <3>1, <3>3, WaitingPlaced
    <3>4. CASE Waiting(Reconcile, "create", a, mine[a], None)
      BY <3>1, <3>4, WaitingPlaced
    <3>5. QED
      BY <2>3, <3>2, <3>3, <3>4
  <2>9. QED
    BY <2>6, <2>7, <2>8 DEF Shape
<1>4. QED
  BY <1>1, <1>2, <1>3 DEF Reconciles

(* ... and the host's, the watch's, the runtime's and Core's own.            *)
LEMMA HostShape ==
  ASSUME AutomationsAssumption, Shape, Host
  PROVE  Shape'
<1> TypeOK /\ Owned /\ Placed
  BY DEF Shape
<1>1. ASSUME NEW t \in Tasks, GivesUp(t) PROVE Shape'
  <2> DEFINE v == [task[t] EXCEPT !.is = "paused", !.gaveUp = TRUE]
  <2>1. /\ UNCHANGED <<life, lists, row, refs, job, todo, found, egress, changes, failures, stops>>
        /\ pauses' \in Nat /\ told' \subseteq Tasks /\ Touch(None, task[t].of)
        /\ task' = [task EXCEPT ![t].is = "paused", ![t].gaveUp = TRUE] /\ task[t].is = "live"
    BY <1>1 DEF GivesUp, TypeOK
  <2>2. task' = [task EXCEPT ![t] = v] /\ v \in HostTasks /\ v.of = task[t].of
    BY <2>1 DEF TypeOK, HostTasks
  <2>3. task[t].of \in Autos
    BY <2>1 DEF Owned
  <2>4. Owners
    BY <2>2, <2>3, OneTaskChanges
  <2>5. TypeOK'
    BY <2>1, <2>3, <2>4, TouchTyped DEF TypeOK, HistoryTyped, Owners, life, lists
  <2>6. Owned'
    BY <2>1, <2>4, OwnedStays DEF Owned, TypeOK, lists
  <2>7. Placed'
    BY <2>1 DEF Placed
  <2>8. QED
    BY <2>5, <2>6, <2>7 DEF Shape
<1>2. ASSUME NEW t \in Tasks, WatchReads(t) PROVE Shape'
  <2>1. /\ UNCHANGED <<life, lists, row, task, job, todo, egress, history, bounds>>
        /\ refs' = Recovered /\ found' = found \cup {t} /\ told' = told \cup {t} /\ task[t].is # "none"
    BY <1>2 DEF WatchReads, GaveUp
  <2>2. TypeOK'
    BY <2>1, ListTyped DEF TypeOK, life, lists, history, bounds
  <2>3. Owned'
    BY <2>1, OwnedStays, SameTasks DEF Owned, TypeOK, lists
  <2>4. QED
    BY <2>1, <2>2, <2>3 DEF Shape, Placed
<1>3. ASSUME NEW t \in Tasks, PauseReported(t) PROVE Shape'
  <2> DEFINE a == task[t].of
             v == [row[a] EXCEPT !.on = FALSE, !.verdict = TRUE]
  <2>1. /\ UNCHANGED <<life, lists, task, refs, job, todo, told, egress, bounds>>
        /\ found' = found \ {t} /\ a \in Autos
        /\ \/ row' = [row EXCEPT ![a].on = FALSE, ![a].verdict = TRUE] /\ Touch(None, a)
           \/ UNCHANGED <<row, history>>
    BY <1>3 DEF PauseReported, Owned
  <2>2. v \in Rows /\ v.ref = row[a].ref
    <3>1. row[a] \in Rows
      BY <2>1 DEF TypeOK
    <3>2. QED
      BY <3>1 DEF Rows
  <2>3. row' = [row EXCEPT ![a] = v] \/ row' = row
    BY <2>1 DEF TypeOK
  <2>4. /\ row' \in [Autos -> Rows] /\ HistoryTyped
        /\ \A b \in Autos : row'[b].ref = row[b].ref
    <3>1. HistoryTyped
      BY <2>1, TouchTyped DEF TypeOK, HistoryTyped, history
    <3>2. QED
      BY <2>2, <2>3, <3>1 DEF TypeOK
  <2>5. TypeOK'
    BY <2>1, <2>4 DEF TypeOK, HistoryTyped, life, lists, bounds
  <2>6. Owned'
    BY <2>1, <2>4, OwnedStays, SameTasks DEF Owned, TypeOK, lists
  <2>7. QED
    BY <2>1, <2>5, <2>6 DEF Shape, Placed
<1>4. QED
  BY <1>1, <1>2, <1>3 DEF Host

(* Core dies: the host may have done what one job asked.                     *)
LEMMA CrashOwners ==
  ASSUME AutomationsAssumption, Shape, Crash
  PROVE  Owners /\ (task' = task \/ \E j \in Jobs : job[j].a \in Autos /\ OnlyOf(job[j].a))
<1> TypeOK /\ Owned /\ Placed
  BY DEF Shape
<1>1. CASE task' = task
  BY <1>1, SameTasks
<1>2. CASE \E j \in Jobs : task' \in Done(j)
  BY <1>2, DoneOwners
<1>3. QED
  BY <1>1, <1>2 DEF Crash

LEMMA LifeShape ==
  ASSUME AutomationsAssumption, Shape, Life
  PROVE  Shape'
<1> TypeOK /\ Owned /\ Placed /\ Reconcile \in Jobs
  BY Parameters DEF Shape
<1>1. CASE RuntimeStarts
  <2>1. /\ UNCHANGED <<core, row, task, lists, todo, history, bounds>> /\ rt' = "ready" /\ ready' = TRUE
        /\ refs' = [t \in Tasks |-> None] /\ found' = {} /\ told' = {}
        /\ Waits(Reconcile, "list", None, NoRow, None) /\ job[Reconcile] = Idle
    BY <1>1 DEF RuntimeStarts
  <2>2. Waiting(Reconcile, "list", None, NoRow, None)
    BY <2>1, WaitsWaits, Forms DEF Pcs
  <2>3. TypeOK'
    BY <2>1, <2>2 DEF TypeOK, Waiting, JobType, lists, history, bounds
  <2>4. \A k \in Jobs : job'[k] = job[k] \/ (Names(job'[k].as.ref, job'[k].a) /\ job'[k].at # "save")
    BY <2>2, Forms DEF Waiting, Names
  <2>5. Owned'
    BY <2>1, <2>4, OwnedStays, SameTasks DEF Owned, TypeOK, lists
  <2>6. Placed'
    BY <2>1, <2>2, Forms, Parameters DEF Placed, Waiting
  <2>7. QED
    BY <2>3, <2>5, <2>6 DEF Shape
<1>2. CASE LinkLost \/ LinkBack \/ StopBegins \/ StopEnds \/ Boot
  <2>1. /\ UNCHANGED <<row, task, refs, job, lists, todo, watch, history, changes, pauses, failures>>
        /\ stops' \in Nat /\ core' \in {"up", "down"} /\ rt' \in {"ready", "degraded", "stopped"}
        /\ ready' \in BOOLEAN /\ egress' \subseteq Autos
    <3> stops \in Nat /\ core \in {"up", "down"} /\ ready \in BOOLEAN /\ egress \subseteq Autos
        /\ rt \in {"ready", "degraded", "stopped"}
      BY DEF TypeOK
    <3>1. CASE LinkLost
      BY <3>1 DEF LinkLost
    <3>2. CASE LinkBack
      BY <3>2 DEF LinkBack, bounds
    <3>3. CASE StopBegins
      <4>1. ready' \in BOOLEAN
        BY <3>3, Zenon DEF StopBegins
      <4>2. stops' \in Nat
        BY <3>3 DEF StopBegins
      <4>3. QED
        BY <3>3, <4>1, <4>2, Zenon DEF StopBegins
    <3>4. CASE StopEnds
      BY <3>4 DEF StopEnds, bounds
    <3>5. CASE Boot
      BY <3>5 DEF Boot, bounds, EgressPolicy
    <3>6. QED
      BY <1>2, <3>1, <3>2, <3>3, <3>4, <3>5
  <2>2. TypeOK'
    BY <2>1 DEF TypeOK, lists, watch, history
  <2>3. Owned' /\ Placed'
    BY <2>1 DEF Owned, Placed, Names, lists, watch
  <2>4. QED
    BY <2>2, <2>3 DEF Shape
<1>3. CASE Crash
  <2>1. /\ UNCHANGED <<row, changes, pauses, failures>> /\ stops' \in Nat
        /\ core' = "down" /\ rt' = "stopped" /\ ready' = FALSE
        /\ refs' = [t \in Tasks |-> None] /\ found' = {} /\ told' = {}
        /\ job' = [j \in Jobs |-> Idle] /\ todo' = {} /\ egress' = {}
        /\ steady' = [j \in Jobs |-> {}] /\ doubt' \subseteq Autos
        /\ known' = NoTasks /\ mine' = [a \in Autos |-> NoRow]
    BY <1>3 DEF Crash, TypeOK
  <2>2. Owners
    BY <1>3, CrashOwners
  <2>3. NoTasks \in [Tasks -> HostTasks]
    BY Forms DEF NoTasks
  <2>4. TypeOK'
    BY <2>1, <2>2, <2>3, Forms DEF TypeOK, Owners, JobType
  <2>5. Owned'
    <3>1. \A k \in Jobs : Names(job'[k].as.ref, job'[k].a) /\ job'[k].at # "save"
      BY <2>1, Forms DEF Names
    <3>2. \A b \in Autos : Names(row'[b].ref, b) /\ Names(mine'[b].ref, b)
      BY <2>1, Forms DEF Owned, Names
    <3>3. QED
      BY <2>1, <2>2, <3>1, <3>2, OwnedStays DEF TypeOK
  <2>6. Placed'
    BY <2>1, Forms, Parameters DEF Placed
  <2>7. QED
    BY <2>4, <2>5, <2>6 DEF Shape
<1>4. QED
  BY <1>1, <1>2, <1>3 DEF Life

LEMMA ShapeInit ==
  ASSUME AutomationsAssumption, Init
  PROVE  Shape
<1>1. NoTasks \in [Tasks -> HostTasks] /\ \A t \in Tasks : NoTasks[t].is = "none"
  BY Forms DEF NoTasks, NoTask
<1>2. TypeOK
  BY <1>1, Forms DEF Init, TypeOK, JobType
<1>3. Owned
  BY <1>1, Forms DEF Init, Owned, Names
<1>4. Placed
  BY Forms, Parameters DEF Init, Placed
<1>5. QED
  BY <1>2, <1>3, <1>4 DEF Shape

LEMMA ShapeStep ==
  ASSUME AutomationsAssumption, Shape, [Next]_vars
  PROVE  Shape'
<1>1. CASE Next
  BY <1>1, PersonShape, GoesShape, ReconcilesShape, HostShape, LifeShape DEF Next
<1>2. CASE UNCHANGED vars
  BY <1>2 DEF Shape, TypeOK, Owned, Placed, Names, vars, life, lists, watch, history, bounds
<1>3. QED
  BY <1>1, <1>2

(* Every variable keeps its type, and an automation the runtime stopped is   *)
(* off, whatever the jobs, the host and the crashes do.                      *)
THEOREM AutomationsTyped == AutomationsAssumption => (Spec => []TypeOK)
<1> SUFFICES ASSUME AutomationsAssumption PROVE Spec => []TypeOK
  OBVIOUS
<1>1. Init => Shape
  BY ShapeInit
<1>2. Shape /\ [Next]_vars => Shape'
  BY ShapeStep
<1>3. Shape => TypeOK
  BY DEF Shape
<1>4. QED
  BY <1>1, <1>2, <1>3, PTL DEF Spec

-----------------------------------------------------------------------------
(* Row and task agree *)

(* A step leaves b's row and tasks, and what the host's list says of them.   *)
Untouched(b) ==
  row'[b] = row[b] /\ \A t \in Tasks : (task[t].of = b \/ task'[t].of = b) => task'[t] = task[t]

SameList(b) == \A t \in Tasks : task'[t].of = b => Listed'[t] = Listed[t]

(* What a step of job j about automation a leaves of everything else: no     *)
(* other automation is touched, and of a job other than j nothing changes    *)
(* but what it may still rely on.                                            *)
Aside(j, a) ==
  /\ \A b \in Autos \ {a} : Untouched(b) /\ SameList(b)
  /\ \A k \in Jobs : steady'[k] \ {a} \subseteq steady[k]
  /\ \A k \in Jobs \ {j} : /\ job'[k] = job[k] /\ steady'[k] \subseteq steady[k]
                           /\ a \in steady'[k] => Untouched(a) /\ SameList(a)
  /\ doubt \ {a} \subseteq doubt'
  /\ \A b \in todo' : b \in todo /\ known' = known /\ (b # a => mine'[b] = mine[b])
  /\ j # Reconcile => mine' = mine
  /\ job'[Reconcile].at = "mine" => j # Reconcile /\ known' = known
  /\ j = Reconcile => a \notin todo'

Agrees(a) == Kept(a) /\ a \notin doubt => InStep(a)

(* The step leaves the readings of the others, the lists, and the agreement  *)
(* of every other automation as true as they were.                           *)
LEMMA AsideKeeps ==
  ASSUME AutomationsAssumption, Shape, Readings, SyncAgrees, NEW j, NEW a \in Autos, Aside(j, a)
  PROVE  /\ \A k \in Jobs \ {j} : AsRead(k)'
         /\ \A b \in Autos : ListTrue(b)'
         /\ \A b \in Autos \ {a} : Agrees(b)'
<1>1. ASSUME NEW k \in Jobs \ {j} PROVE AsRead(k)'
  <2> DEFINE b == job[k].a
  <2>1. AsRead(k) /\ job'[k] = job[k]
    BY DEF Readings, Aside
  <2>2. SUFFICES ASSUME job[k].at \in {"list", "update", "switch", "create", "save"}, b \in steady'[k]
                 PROVE  /\ row'[b] = job[k].as
                        /\ job[k].at = "switch" => task'[job[k].as.ref].text = job[k].as.text
                        /\ job[k].at = "save" => /\ task'[job[k].new].is = "live"
                                                 /\ task'[job[k].new].text = job[k].as.text
    BY <2>1 DEF AsRead
  <2>3. b \in steady[k]
    BY <2>2 DEF Aside
  <2>4. b \in Autos
    BY <2>3 DEF Shape, TypeOK
  <2>5. Untouched(b)
    BY <2>2, <2>4 DEF Aside
  <2>6. /\ job[k].at = "switch" => job[k].as.ref \in Tasks /\ task[job[k].as.ref].of = b
        /\ job[k].at = "save" => job[k].new \in Tasks /\ task[job[k].new].of = b
    BY WhereJobsAre, Parameters DEF Names
  <2>7. /\ row[b] = job[k].as
        /\ job[k].at = "switch" => task[job[k].as.ref].text = job[k].as.text
        /\ job[k].at = "save" => /\ task[job[k].new].is = "live"
                                 /\ task[job[k].new].text = job[k].as.text
    BY <2>1, <2>2, <2>3 DEF AsRead
  <2>8. QED
    BY <2>5, <2>6, <2>7 DEF Untouched
<1>2. ASSUME NEW b \in Autos PROVE ListTrue(b)'
  <2> Reconcile \in Jobs
    BY Parameters
  <2>1. SUFFICES ASSUME b \in steady'[Reconcile], job'[Reconcile].at = "mine" \/ b \in todo'
                 PROVE  /\ b \in todo' => mine'[b] = row'[b]
                        /\ \A t \in Tasks : task'[t].of = b => known'[t] = Listed'[t]
    BY DEF ListTrue
  <2>2. known' = known /\ (b \in todo' => b \in todo)
    BY <2>1 DEF Aside
  <2>3. (j = Reconcile => b # a) /\ b \in steady[Reconcile] /\ Untouched(b) /\ SameList(b)
    BY <2>1 DEF Aside
  <2>4. b \in todo' => mine'[b] = mine[b]
    BY <2>3 DEF Aside
  <2>5. job'[Reconcile].at = "mine" => job[Reconcile].at = "mine"
    BY DEF Aside
  <2>6. /\ b \in todo => mine[b] = row[b]
        /\ \A t \in Tasks : task[t].of = b => known[t] = Listed[t]
    BY <2>1, <2>2, <2>3, <2>5 DEF Readings, ListTrue
  <2>7. QED
    BY <2>2, <2>3, <2>4, <2>6 DEF Untouched, SameList
<1>3. ASSUME NEW b \in Autos \ {a} PROVE Agrees(b)'
  <2>1. SUFFICES ASSUME Kept(b)', b \notin doubt' PROVE InStep(b)'
    BY DEF Agrees
  <2>2. Untouched(b) /\ b \notin doubt
    BY <2>1 DEF Aside
  <2>3. InStep(b)
    BY <2>1, <2>2 DEF SyncAgrees, Kept, Untouched
  <2>4. row[b].ref \in Tasks /\ task[row[b].ref].of = b
    BY <2>3 DEF InStep, There, Shape, TypeOK, Rows
  <2>5. QED
    BY <2>2, <2>3, <2>4 DEF InStep, There, Untouched
<1>4. QED
  BY <1>1, <1>2, <1>3

LEMMA AllAgree ==
  (\A a \in Autos : Agrees(a)) <=> SyncAgrees
BY DEF Agrees, SyncAgrees

(* The adapter's reading of a task it had no note of says of it what the     *)
(* list said.                                                                *)
LEMMA RecoveredLists ==
  ASSUME Shape, NEW t \in Tasks, task'[t] = task[t], refs'[t] \in {refs[t], Recovered[t]}
  PROVE  Listed'[t] = Listed[t]
<1>1. task[t] \in HostTasks
  BY DEF Shape, TypeOK
<1>2. CASE refs'[t] = refs[t]
  BY <1>2 DEF Listed
<1>3. CASE refs'[t] = Recovered[t] /\ refs'[t] # refs[t]
  <2>1. refs[t] = None /\ refs'[t] = [text |-> task[t].text, on |-> task[t].is = "live"]
    BY <1>3 DEF Recovered
  <2>2. Listed[t] = [task[t] EXCEPT !.text = task[t].text]
    BY <2>1 DEF Listed
  <2>3. Listed'[t] = [task[t] EXCEPT !.text = task[t].text]
    BY <2>1 DEF Listed
  <2>4. QED
    BY <2>2, <2>3
<1>4. QED
  BY <1>2, <1>3

(* A sync of a from a true reading: it disturbs nobody else's, its own stays *)
(* true as it goes on, and where it ends, row and task agree.                *)
LEMMA SyncAgree ==
  ASSUME AutomationsAssumption, Shape, NEW j \in Jobs, NEW a \in Autos, NEW as \in Rows, Names(as.ref, a),
         NEW list \in [Tasks -> HostTasks], NEW noted \in [Tasks -> Notes \cup {None}],
         noted \in {refs, Recovered}, task' = task,
         a \in steady[j] => row[a] = as /\ \A t \in Tasks : task[t].of = a => list[t] = Listed[t],
         Sync(j, a, as, list, noted)
  PROVE  /\ \A b \in Autos \ {a} : Untouched(b) /\ SameList(b)
         /\ \A k \in Jobs : steady'[k] \subseteq steady[k]
         /\ \A k \in Jobs \ {j} : a \in steady'[k] => Untouched(a) /\ SameList(a)
         /\ doubt \ {a} \subseteq doubt'
         /\ Agrees(a) => Agrees(a)'
         /\ AsRead(j)'
<1> TypeOK /\ Owned /\ Placed
  BY DEF Shape
<1> DEFINE r == as.ref
           there == r # None /\ list[r].is \in {"live", "paused"}
           quit == there /\ as.on /\ GaveUp(list[r]) /\ job[j].do # "update"
           drift == there /\ ~quit /\ Drifted(as, list[r])
           taken == rt = "ready" /\ (drift => noted[r] # None)
<1>a. \A t \in Tasks : refs'[t] = noted[t] => Listed'[t] = Listed[t]
  BY RecoveredLists
<1>b. r # None => r \in Tasks /\ task[r].of = a
  BY DEF Names
<1>c. Ended(j) => AsRead(j)'
  BY DEF Ended, AsRead
<1>d. a \in steady[j] => row[a] = as /\ (r # None => list[r] = Listed[r])
  BY <1>b
<1>e. \A t \in Tasks : Listed[t].is = task[t].is /\ Listed[t].gaveUp = task[t].gaveUp
  BY DEF Listed, TypeOK, HostTasks
<1>1. CASE /\ quit
           /\ row' = [row EXCEPT ![a] = IF @.is = "kept" THEN [@ EXCEPT !.on = FALSE, !.verdict = TRUE] ELSE @]
           /\ refs' = noted
           /\ Settle(j, a) /\ Returns(j)
  <2>1. \A b \in Autos \ {a} : Untouched(b) /\ SameList(b)
    BY <1>1, <1>a DEF Untouched, SameList, TypeOK
  <2>2. /\ \A k \in Jobs : steady'[k] \subseteq steady[k] /\ a \notin steady'[k]
        /\ doubt \ {a} \subseteq doubt'
    BY <1>1 DEF Settle, TypeOK
  <2>3. Agrees(a)'
    <3>1. SUFFICES ASSUME Kept(a)', a \notin doubt' PROVE InStep(a)'
      BY DEF Agrees
    <3>2. a \in steady[j]
      BY <1>1, <3>1 DEF Settle
    <3>3. row[a].is = "kept" /\ row' = [row EXCEPT ![a] = [row[a] EXCEPT !.on = FALSE, !.verdict = TRUE]]
      BY <1>1, <3>1 DEF Kept, TypeOK
    <3>4. row[a] \in Rows
      BY DEF TypeOK
    <3>5. row'[a].ref = row[a].ref /\ row'[a].on = FALSE /\ row'[a].verdict = TRUE
      BY <3>3, <3>4 DEF TypeOK, Rows
    <3>6. row[a].ref = r /\ r \in Tasks /\ task[r].of = a /\ task[r].is = "paused"
      BY <1>1, <1>b, <1>d, <1>e, <3>2 DEF GaveUp
    <3>7. QED
      BY <3>5, <3>6, <1>1 DEF InStep, There
  <2>4. QED
    BY <1>1, <1>c, <2>1, <2>2, <2>3, ReturnsEnds
<1>2. CASE /\ there /\ ~quit /\ ~drift
           /\ refs' = noted
           /\ doubt' = IF noted[r] # None /\ noted[r].text = task[r].text THEN doubt \ (steady[j] \cap {a}) ELSE doubt
           /\ steady' = [steady EXCEPT ![j] = @ \ {a}]
           /\ row' = row /\ Returns(j)
  <2>1. \A b \in Autos : Untouched(b) /\ SameList(b)
    BY <1>2, <1>a DEF Untouched, SameList, TypeOK
  <2>2. (\A k \in Jobs : steady'[k] \subseteq steady[k]) /\ doubt \ {a} \subseteq doubt'
    BY <1>2 DEF TypeOK
  <2>3. Agrees(a) => Agrees(a)'
    <3>1. SUFFICES ASSUME Agrees(a), Kept(a)', a \notin doubt' PROVE InStep(a)'
      BY DEF Agrees
    <3>2. Kept(a)
      BY <1>2, <3>1 DEF Kept
    <3>3. CASE a \notin doubt
      BY <1>2, <3>1, <3>2, <3>3 DEF Agrees, InStep, There
    <3>4. CASE a \in doubt
      <4>1. a \in steady[j] /\ noted[r] # None /\ noted[r].text = task[r].text
        BY <1>2, <3>1, <3>4
      <4>2. r \in Tasks /\ task[r].of = a /\ row[a] = as /\ list[r] = Listed[r]
        BY <1>2, <1>b, <1>d, <4>1
      <4>3. task[r].is \in {"live", "paused"} /\ (task[r].is = "live") = as.on /\ Listed[r].text = as.text
        BY <1>2, <1>e, <4>2 DEF Drifted
      <4>4. task[r].text = as.text
        <5>1. task[r] \in HostTasks
          BY <4>2 DEF TypeOK
        <5>2. CASE refs[r] = None
          BY <4>2, <4>3, <5>1, <5>2 DEF Listed, HostTasks
        <5>3. CASE refs[r] # None
          <6>1. noted[r] = refs[r]
            BY <4>2, <5>3 DEF Recovered
          <6>2. QED
            BY <4>1, <4>2, <4>3, <5>1, <5>3, <6>1 DEF Listed, HostTasks
        <5>4. QED
          BY <5>2, <5>3
      <4>5. QED
        BY <1>2, <4>2, <4>3, <4>4 DEF InStep, There
    <3>5. QED
      BY <3>3, <3>4
  <2>4. QED
    BY <1>2, <1>c, <2>1, <2>2, <2>3, ReturnsEnds
<1>3. CASE /\ drift \/ ~there
           /\ refs' = IF drift THEN [noted EXCEPT ![r].text = as.text] ELSE noted
           /\ Waits(j, IF drift THEN "update" ELSE "create", a, as, None)
           /\ Touch(j, a) /\ row' = row
  <2>1. \A t \in Tasks : task[t].of # a => refs'[t] = noted[t]
    BY <1>3, <1>b
  <2>2. \A b \in Autos \ {a} : Untouched(b) /\ SameList(b)
    BY <1>3, <1>a, <2>1 DEF Untouched, SameList, TypeOK
  <2>3. /\ \A k \in Jobs : steady'[k] \subseteq steady[k] /\ (k # j => a \notin steady'[k])
        /\ doubt \ {a} \subseteq doubt' /\ a \in doubt'
    BY <1>3 DEF Touch, TypeOK
  <2>4. Agrees(a)'
    BY <2>3 DEF Agrees
  <2>5. AsRead(j)'
    <3>1. \E pc \in {"update", "create"} : Waiting(j, pc, a, as, None)
      <4>1. CASE drift
        BY <1>3, <4>1, WaitsWaits DEF Pcs
      <4>2. CASE ~drift
        BY <1>3, <4>2, WaitsWaits DEF Pcs
      <4>3. QED
        BY <4>1, <4>2
    <3>2. a \in steady'[j] => row'[a] = as
      BY <1>3, <1>d, <2>3
    <3>3. QED
      BY <3>1, <3>2 DEF Waiting, AsRead
  <2>6. QED
    BY <2>2, <2>3, <2>4, <2>5
<1>4. CASE /\ refs' = noted
           /\ steady' = [steady EXCEPT ![j] = @ \ {a}]
           /\ row' = row /\ doubt' = doubt /\ Returns(j)
  <2>1. \A b \in Autos : Untouched(b) /\ SameList(b)
    BY <1>4, <1>a DEF Untouched, SameList, TypeOK
  <2>2. \A k \in Jobs : steady'[k] \subseteq steady[k]
    BY <1>4 DEF TypeOK
  <2>3. Agrees(a) => Agrees(a)'
    BY <1>4 DEF Agrees, Kept, InStep, There
  <2>4. QED
    BY <1>4, <1>c, <2>1, <2>2, <2>3, ReturnsEnds
<1>5. QED
  BY <1>1, <1>2, <1>3, <1>4 DEF Sync

LEMMA AsideAgrees ==
  ASSUME AutomationsAssumption, Shape, Readings, SyncAgrees, NEW j \in Jobs \cup {None}, NEW a \in Autos,
         Aside(j, a), j \in Jobs => AsRead(j)', Agrees(a)'
  PROVE  Readings' /\ SyncAgrees'
<1>1. \A k \in Jobs : AsRead(k)'
  BY AsideKeeps
<1>2. \A b \in Autos : ListTrue(b)' /\ Agrees(b)'
  BY AsideKeeps
<1>3. Readings'
  BY <1>1, <1>2 DEF Readings
<1>4. SyncAgrees'
  BY <1>2 DEF SyncAgrees, Agrees
<1>5. QED
  BY <1>3, <1>4

(* A step that changes only tasks of a's, what the adapter noted of them,    *)
(* and a's row touches nobody else.                                          *)
LEMMA OnlyOfAside ==
  ASSUME AutomationsAssumption, NEW a, OnlyOf(a), \A t \in Tasks : task'[t].of # a => refs'[t] = refs[t],
         \A b \in Autos \ {a} : row'[b] = row[b]
  PROVE  \A b \in Autos \ {a} : Untouched(b) /\ SameList(b)
<1>1. ASSUME NEW b \in Autos \ {a}, NEW t \in Tasks, task[t].of = b \/ task'[t].of = b
      PROVE  task'[t] = task[t] /\ refs'[t] = refs[t]
  <2>0. a # b
    OBVIOUS
  <2>1. task'[t] = task[t] \/ (task'[t].of = a /\ task[t].of \in {a, None})
    BY DEF OnlyOf
  <2>2. b # None
    BY Parameters
  <2>3. QED
    BY <1>1, <2>0, <2>1, <2>2
<1>2. QED
  BY <1>1 DEF Untouched, SameList, Listed

LEMMA PersonAgrees ==
  ASSUME AutomationsAssumption, Shape, Readings, SyncAgrees, NEW j \in 1 .. Persons, Person(j)
  PROVE  Readings' /\ SyncAgrees'
<1>0. PICK a \in Autos : Create(j, a) \/ Update(j, a) \/ Remove(j, a)
  BY DEF Person
<1> TypeOK /\ j \in Jobs /\ j # Reconcile /\ Reconcile \in Jobs
  BY Parameters DEF Shape
<1>a. /\ UNCHANGED <<lists, todo, task, refs>> /\ job[j] = Idle
      /\ \A b \in Autos \ {a} : row'[b] = row[b]
  BY <1>0 DEF Create, Update, Remove, MayChange, BeginSync, TypeOK
<1>b. \A b \in Autos \ {a} : Untouched(b) /\ SameList(b)
  BY <1>a DEF Untouched, SameList, Listed
<1>1. CASE Create(j, a) \/ Update(j, a)
  <2>1. PICK do \in {"create", "update"} : BeginSync(j, a, do)
    BY <1>1 DEF Create, Update
  <2>2. steady' = [k \in Jobs |-> IF k = j THEN {a} \ UnderWay ELSE steady[k] \ {a}] /\ doubt' = doubt \cup {a}
    BY <2>1 DEF BeginSync
  <2>3. /\ \A k \in Jobs \ {j} : job'[k] = job[k]
        /\ \/ job'[j] = Idle
           \/ job'[j].at = "list" /\ job'[j].a = a /\ job'[j].as = row'[a]
    BY <1>a, <2>1 DEF BeginSync, TypeOK
  <2>4. Aside(j, a)
    <3>1. job'[Reconcile].at = "mine" => known' = known
      BY <1>a DEF lists
    <3>2. QED
      BY <1>a, <1>b, <2>2, <2>3, <3>1 DEF Aside, lists
  <2>5. AsRead(j)'
    BY <2>3, Forms DEF AsRead
  <2>6. Agrees(a)'
    BY <2>2 DEF Agrees
  <2>7. QED
    BY <2>4, <2>5, <2>6, AsideAgrees
<1>2. CASE Remove(j, a)
  <2>1. CASE row[a].ref # None /\ rt = "ready"
    <3> DEFINE new == [at |-> "delete", do |-> "remove", a |-> a, as |-> row[a], new |-> None]
    <3>1. job' = [job EXCEPT ![j] = new] /\ UNCHANGED <<row, history>>
      BY <1>2, <2>1 DEF Remove
    <3>2. job'[j] = new /\ \A k \in Jobs \ {j} : job'[k] = job[k]
      BY <3>1 DEF TypeOK
    <3>3. Untouched(a) /\ SameList(a)
      BY <1>a, <3>1 DEF Untouched, SameList, Listed
    <3>4. Aside(j, a)
      BY <1>a, <1>b, <3>1, <3>2, <3>3 DEF Aside, lists, history
    <3>5. AsRead(j)'
      BY <3>2 DEF AsRead
    <3>6. Agrees(a)'
      BY <1>a, <3>1 DEF Agrees, SyncAgrees, Kept, InStep, There, history
    <3>7. QED
      BY <3>4, <3>5, <3>6, AsideAgrees
  <2>2. CASE ~(row[a].ref # None /\ rt = "ready")
    <3>1. Touch(None, a) /\ job' = job
      BY <1>2, <2>2 DEF Remove
    <3>2. /\ \A k \in Jobs : steady'[k] \subseteq steady[k] /\ a \notin steady'[k]
          /\ doubt' = doubt \cup {a}
      BY <3>1, Parameters DEF Touch
    <3>3. Aside(None, a)
      BY <1>a, <1>b, <3>1, <3>2, Parameters DEF Aside, lists
    <3>4. Agrees(a)'
      BY <3>2 DEF Agrees
    <3>5. QED
      BY <3>3, <3>4, Parameters, AsideAgrees
  <2>3. QED
    BY <2>1, <2>2
<1>3. QED
  BY <1>0, <1>1, <1>2

(* The same for each answer the host gives.                                  *)
LEMMA AnswersListAgrees ==
  ASSUME AutomationsAssumption, Shape, Readings, SyncAgrees, NEW j \in Jobs, AnswersList(j)
  PROVE  Readings' /\ SyncAgrees'
<1>1. /\ j # Reconcile /\ Sync(j, job[j].a, job[j].as, Listed, Recovered) /\ job[j].at = "list"
      /\ UNCHANGED <<task, known, mine, todo>>
  BY DEF AnswersList, Answers, lists
<1>2. PICK a \in Autos : a = job[j].a /\ job[j].as \in Rows /\ Names(job[j].as.ref, a)
  BY <1>1, WhereJobsAre DEF Placed, Shape
<1>3. a \in steady[j] => row[a] = job[j].as
  BY <1>1, <1>2 DEF Readings, AsRead
<1>4. Listed \in [Tasks -> HostTasks] /\ Recovered \in [Tasks -> Notes \cup {None}]
  BY ListTyped DEF Shape
<1>5. /\ \A b \in Autos \ {a} : Untouched(b) /\ SameList(b)
      /\ \A k \in Jobs : steady'[k] \subseteq steady[k]
      /\ \A k \in Jobs \ {j} : a \in steady'[k] => Untouched(a) /\ SameList(a)
      /\ doubt \ {a} \subseteq doubt'
      /\ Agrees(a) => Agrees(a)'
      /\ AsRead(j)'
  BY <1>1, <1>2, <1>3, <1>4, SyncAgree
<1>6. \A k \in Jobs \ {j} : job'[k] = job[k]
  BY <1>1, <1>2, <1>4, SyncShape DEF Shape, Ended, Waiting
<1>7. Aside(j, a)
  BY <1>1, <1>5, <1>6 DEF Aside
<1>8. Agrees(a)
  BY <1>2, AllAgree
<1>9. QED
  BY <1>2, <1>5, <1>7, <1>8, AsideAgrees

LEMMA AnswersUpdateAgrees ==
  ASSUME AutomationsAssumption, Shape, Readings, SyncAgrees, NEW j \in Jobs, AnswersUpdate(j)
  PROVE  Readings' /\ SyncAgrees'
<1> TypeOK /\ Owned /\ Placed
  BY DEF Shape
<1>1. PICK a \in Autos, t \in Tasks :
        /\ a = job[j].a /\ t = job[j].as.ref /\ task[t].of = a
        /\ job[j].as \in Rows /\ (j = Reconcile => a \notin todo)
  BY WhereJobsAre, Parameters DEF AnswersUpdate, Answers, Names
<1>2. UNCHANGED <<row, known, mine, todo>> /\ job[j].at = "update"
  BY DEF AnswersUpdate, Answers, lists
<1>3. CASE There(t)
  <2>1. /\ task' = [task EXCEPT ![t].text = job[j].as.text]
        /\ refs' = IF refs[t] = None THEN refs ELSE [refs EXCEPT ![t].on = job[j].as.on]
        /\ Waits(j, "switch", a, job[j].as, None)
        /\ Touch(j, a)
    BY <1>1, <1>3 DEF AnswersUpdate
  <2>2. OnlyOf(a)
    BY <1>1, <1>2, <1>3, <2>1, DoneOwners DEF Done
  <2>3. /\ Waiting(j, "switch", a, job[j].as, None)
        /\ task'[t].text = job[j].as.text /\ task'[t].of = a
    BY <1>1, <2>1, WaitsWaits DEF Pcs, TypeOK, HostTasks
  <2>4. \A b \in Autos \ {a} : Untouched(b) /\ SameList(b)
    BY <1>2, <2>1, <2>2, <2>3, OnlyOfAside DEF TypeOK
  <2>5. /\ \A k \in Jobs : steady'[k] \subseteq steady[k] /\ (k # j => a \notin steady'[k])
        /\ doubt' = doubt \cup {a}
    BY <2>1 DEF Touch
  <2>6. Aside(j, a)
    BY <1>1, <1>2, <2>3, <2>4, <2>5, Parameters DEF Aside, Waiting
  <2>7. AsRead(j)'
    <3>1. a \in steady'[j] => row'[a] = job[j].as
      BY <1>1, <1>2, <2>5 DEF Readings, AsRead
    <3>2. QED
      BY <1>1, <2>3, <3>1 DEF Waiting, AsRead
  <2>8. Agrees(a)'
    BY <2>5 DEF Agrees
  <2>9. QED
    BY <1>1, <2>6, <2>7, <2>8, AsideAgrees
<1>4. CASE ~There(t)
  <2>1. Returns(j) /\ UNCHANGED <<task, refs, history>>
    BY <1>1, <1>4 DEF AnswersUpdate
  <2>2. Ended(j)
    BY <2>1, ReturnsEnds
  <2>3. \A b \in Autos : Untouched(b) /\ SameList(b)
    BY <1>2, <2>1 DEF Untouched, SameList, Listed
  <2>4. Aside(j, a)
    BY <1>1, <1>2, <2>1, <2>2, <2>3, Parameters DEF Aside, Ended, history
  <2>5. AsRead(j)'
    BY <2>2 DEF Ended, AsRead
  <2>6. Agrees(a)'
    BY <1>1, <1>2, <2>1 DEF Agrees, SyncAgrees, Kept, InStep, There, history
  <2>7. QED
    BY <1>1, <2>4, <2>5, <2>6, AsideAgrees
<1>5. QED
  BY <1>3, <1>4

LEMMA AnswersSwitchAgrees ==
  ASSUME AutomationsAssumption, Shape, Readings, SyncAgrees, NEW j \in Jobs, AnswersSwitch(j)
  PROVE  Readings' /\ SyncAgrees'
<1> TypeOK /\ Owned /\ Placed
  BY DEF Shape
<1>1. PICK a \in Autos, t \in Tasks :
        /\ a = job[j].a /\ t = job[j].as.ref /\ task[t].of = a
        /\ job[j].as.on \in BOOLEAN /\ (j = Reconcile => a \notin todo)
  BY WhereJobsAre, Parameters DEF AnswersSwitch, Answers, Names
<1>2. UNCHANGED <<row, refs, known, mine, todo>> /\ job[j].at = "switch" /\ Returns(j)
  BY DEF AnswersSwitch, Answers, lists
<1>a. Ended(j)
  BY <1>2, ReturnsEnds
<1>b. AsRead(j)'
  BY <1>a DEF Ended, AsRead
<1>3. CASE There(t)
  <2>1. /\ task' = [task EXCEPT ![t].is = IF job[j].as.on THEN "live" ELSE "paused"]
        /\ Settle(j, a)
    BY <1>1, <1>3 DEF AnswersSwitch
  <2>2. OnlyOf(a)
    BY <1>1, <1>2, <1>3, <2>1, DoneOwners DEF Done
  <2>3. \A b \in Autos \ {a} : Untouched(b) /\ SameList(b)
    BY <1>2, <2>2, OnlyOfAside
  <2>4. /\ \A k \in Jobs : steady'[k] \subseteq steady[k] /\ a \notin steady'[k]
        /\ doubt \ {a} \subseteq doubt' /\ (a \notin doubt' => a \in steady[j])
    BY <2>1 DEF Settle, TypeOK
  <2>5. Aside(j, a)
    BY <1>1, <1>2, <1>a, <2>3, <2>4, Parameters DEF Aside, Ended
  <2>6. Agrees(a)'
    <3>1. SUFFICES ASSUME Kept(a)', a \notin doubt' PROVE InStep(a)'
      BY DEF Agrees
    <3>2. row[a] = job[j].as /\ task[t].text = job[j].as.text
      BY <1>1, <1>2, <2>4, <3>1 DEF Readings, AsRead
    <3>3. /\ task'[t].is = (IF job[j].as.on THEN "live" ELSE "paused")
          /\ task'[t].of = a /\ task'[t].text = task[t].text
      BY <1>1, <2>1 DEF TypeOK, HostTasks
    <3>4. row'[a].ref = t /\ row'[a].on = job[j].as.on /\ row'[a].text = job[j].as.text
      BY <1>1, <1>2, <3>2
    <3>5. There(t)'
      BY <1>3, <3>3 DEF There
    <3>6. QED
      BY <1>1, <3>2, <3>3, <3>4, <3>5 DEF InStep
  <2>7. QED
    BY <1>1, <1>b, <2>5, <2>6, AsideAgrees
<1>4. CASE ~There(t)
  <2>1. UNCHANGED <<task, history>>
    BY <1>1, <1>4 DEF AnswersSwitch
  <2>2. \A b \in Autos : Untouched(b) /\ SameList(b)
    BY <1>2, <2>1 DEF Untouched, SameList, Listed
  <2>3. Aside(j, a)
    BY <1>1, <1>2, <1>a, <2>1, <2>2, Parameters DEF Aside, Ended, history
  <2>4. Agrees(a)'
    BY <1>1, <1>2, <2>1 DEF Agrees, SyncAgrees, Kept, InStep, There, history
  <2>5. QED
    BY <1>1, <1>b, <2>3, <2>4, AsideAgrees
<1>5. QED
  BY <1>3, <1>4

LEMMA AnswersCreateAgrees ==
  ASSUME AutomationsAssumption, Shape, Readings, SyncAgrees, NEW j \in Jobs, AnswersCreate(j)
  PROVE  Readings' /\ SyncAgrees'
<1> TypeOK /\ Owned /\ Placed
  BY DEF Shape
<1>1. PICK a \in Autos : a = job[j].a /\ job[j].as \in Rows /\ (j = Reconcile => a \notin todo)
  BY WhereJobsAre DEF AnswersCreate, Answers
<1>2. UNCHANGED <<row, known, mine, todo>> /\ job[j].at = "create" /\ Touch(j, a)
  BY <1>1 DEF AnswersCreate, Answers, lists
<1>3. PICK t \in Fresh :
       /\ task' = [task EXCEPT ![t] = Made(j)]
       /\ refs' = [refs EXCEPT ![t] = [text |-> job[j].as.text, on |-> job[j].as.on]]
       /\ Waits(j, "save", a, job[j].as, t)
  BY <1>1 DEF AnswersCreate
<1>4. t \in Tasks /\ task'[t] = Made(j) /\ task'[t].of = a
  BY <1>1, <1>3 DEF Fresh, Made, TypeOK
<1>5. Waiting(j, "save", a, job[j].as, t)
  BY <1>1, <1>3, <1>4, WaitsWaits DEF Pcs
<1>6. OnlyOf(a)
  BY <1>1, <1>2, <1>3, DoneOwners DEF Done
<1>7. \A b \in Autos \ {a} : Untouched(b) /\ SameList(b)
  BY <1>2, <1>3, <1>4, <1>6, OnlyOfAside
<1>8. /\ \A k \in Jobs : steady'[k] \subseteq steady[k] /\ (k # j => a \notin steady'[k])
      /\ doubt' = doubt \cup {a}
  BY <1>2 DEF Touch
<1>9. Aside(j, a)
  BY <1>1, <1>2, <1>5, <1>7, <1>8, Parameters DEF Aside, Waiting
<1>10. AsRead(j)'
  <2>1. a \in steady'[j] => row'[a] = job[j].as
    BY <1>1, <1>2, <1>8 DEF Readings, AsRead
  <2>2. task'[t].is = "live" /\ task'[t].text = job[j].as.text
    BY <1>4 DEF Made
  <2>3. QED
    BY <1>1, <1>5, <2>1, <2>2 DEF Waiting, AsRead
<1>11. Agrees(a)'
  BY <1>8 DEF Agrees
<1>12. QED
  BY <1>9, <1>10, <1>11, AsideAgrees

LEMMA AnswersSaveAgrees ==
  ASSUME AutomationsAssumption, Shape, Readings, SyncAgrees, NEW j \in Jobs, AnswersSave(j)
  PROVE  Readings' /\ SyncAgrees'
<1> TypeOK /\ Owned /\ Placed
  BY DEF Shape
<1>1. PICK a \in Autos, t \in Tasks :
        /\ a = job[j].a /\ t = job[j].new /\ task[t].of = a
        /\ job[j].as.on \in BOOLEAN /\ (j = Reconcile => a \notin todo)
  BY WhereJobsAre DEF AnswersSave, Answers
<1>2. /\ UNCHANGED <<refs, known, mine, todo>> /\ job[j].at = "save" /\ Settle(j, a)
      /\ task' = [task EXCEPT ![t].is = IF job[j].as.on THEN @ ELSE "paused"]
      /\ row' = IF Kept(a) THEN [row EXCEPT ![a].ref = t] ELSE row
  BY <1>1 DEF AnswersSave, Answers, Switched, lists
<1>3. /\ \A k \in Jobs \ {j} : job'[k] = job[k]
      /\ job'[j].at \in {"idle", "next"}
  <2>1. CASE job[j].do = "update" /\ ~Kept(a)
    BY <1>1, <2>1, Forms DEF AnswersSave, TypeOK
  <2>2. CASE ~(job[j].do = "update" /\ ~Kept(a))
    BY <1>1, <2>2, ReturnsEnds DEF AnswersSave, Ended
  <2>3. QED
    BY <2>1, <2>2
<1>4. OnlyOf(a)
  BY <1>1, <1>2, DoneOwners DEF Done, Switched
<1>5. \A b \in Autos \ {a} : Untouched(b) /\ SameList(b)
  BY <1>2, <1>4, OnlyOfAside DEF TypeOK
<1>6. /\ \A k \in Jobs : steady'[k] \subseteq steady[k] /\ a \notin steady'[k]
      /\ doubt \ {a} \subseteq doubt' /\ (a \notin doubt' => a \in steady[j])
  BY <1>2 DEF Settle, TypeOK
<1>7. Aside(j, a)
  BY <1>1, <1>2, <1>3, <1>5, <1>6, Parameters DEF Aside
<1>8. AsRead(j)'
  BY <1>3 DEF AsRead
<1>9. Agrees(a)'
  <2>1. SUFFICES ASSUME Kept(a)', a \notin doubt' PROVE InStep(a)'
    BY DEF Agrees
  <2>2. row[a] = job[j].as /\ task[t].is = "live" /\ task[t].text = job[j].as.text
    BY <1>1, <1>2, <1>6, <2>1 DEF Readings, AsRead
  <2>3. /\ task'[t].is = (IF job[j].as.on THEN "live" ELSE "paused")
        /\ task'[t].of = a /\ task'[t].text = job[j].as.text
    BY <1>1, <1>2, <2>2 DEF TypeOK, HostTasks
  <2>4. row'[a].ref = t /\ row'[a].on = job[j].as.on /\ row'[a].text = job[j].as.text
    BY <1>2, <2>1, <2>2 DEF Kept, TypeOK, Rows
  <2>5. There(t)'
    BY <1>1, <2>3, Parameters DEF There
  <2>6. QED
    BY <1>1, <2>3, <2>4, <2>5 DEF InStep
<1>10. QED
  BY <1>7, <1>8, <1>9, AsideAgrees

LEMMA AnswersDeleteAgrees ==
  ASSUME AutomationsAssumption, Shape, Readings, SyncAgrees, NEW j \in Jobs, AnswersDelete(j)
  PROVE  Readings' /\ SyncAgrees'
<1> TypeOK /\ Owned /\ Placed
  BY DEF Shape
<1>1. PICK a \in Autos, t \in Tasks :
        /\ a = job[j].a /\ t = job[j].as.ref /\ task[t].of = a
        /\ (j = Reconcile => a \notin todo)
  BY WhereJobsAre, Parameters DEF AnswersDelete, Answers, Names
<1>2. /\ UNCHANGED <<known, mine, todo>> /\ job[j].at = "delete" /\ Touch(None, a) /\ Returns(j)
      /\ task' = [task EXCEPT ![t].is = "gone"] /\ refs' = [refs EXCEPT ![t] = None]
      /\ row' = [row EXCEPT ![a] = NoneLeft]
  BY <1>1 DEF AnswersDelete, Answers, lists
<1>3. Ended(j)
  BY <1>2, ReturnsEnds
<1>4. OnlyOf(a) /\ task'[t].of = a
  <2>1. OnlyOf(a)
    BY <1>1, <1>2, DoneOwners DEF Done
  <2>2. task'[t].of = a
    BY <1>1, <1>2 DEF TypeOK, HostTasks
  <2>3. QED
    BY <2>1, <2>2
<1>5. \A b \in Autos \ {a} : Untouched(b) /\ SameList(b)
  BY <1>2, <1>4, OnlyOfAside DEF TypeOK
<1>6. /\ \A k \in Jobs : steady'[k] \subseteq steady[k] /\ a \notin steady'[k]
      /\ doubt' = doubt \cup {a}
  BY <1>2, Parameters DEF Touch
<1>7. Aside(j, a)
  BY <1>1, <1>2, <1>3, <1>5, <1>6, Parameters DEF Aside, Ended
<1>8. AsRead(j)' /\ Agrees(a)'
  BY <1>3, <1>6 DEF Ended, AsRead, Agrees
<1>9. QED
  BY <1>7, <1>8, AsideAgrees

LEMMA FailsAgrees ==
  ASSUME AutomationsAssumption, Shape, Readings, SyncAgrees, NEW j \in Jobs, Fails(j)
  PROVE  Readings' /\ SyncAgrees'
<1> TypeOK /\ Owned /\ Placed
  BY DEF Shape
<1>1. /\ UNCHANGED <<refs, known, mine, todo>> /\ task' \in {task} \cup Done(j)
      /\ row' = IF job[j].at = "delete" THEN [row EXCEPT ![job[j].a] = NoneLeft] ELSE row
  BY DEF Fails, lists
<1>2. CASE job[j].a = None
  <2>1. job' = [job EXCEPT ![j] = Idle] /\ UNCHANGED history
    BY <1>2 DEF Fails
  <2>2. job[j].at = "list" /\ j = Reconcile /\ todo' = {}
    BY <1>1, <1>2, Parameters DEF Fails, Placed
  <2>3. task' = task /\ row' = row
    BY <1>1, <2>2 DEF Done
  <2>4. /\ job'[j] = Idle
        /\ \A k \in Jobs \ {j} : job'[k] = job[k]
    BY <2>1 DEF TypeOK
  <2>5. \A k \in Jobs : AsRead(k)'
    BY <2>1, <2>3, <2>4, Forms DEF Readings, AsRead, history
  <2>6. \A b \in Autos : ListTrue(b)'
    BY <2>2, <2>4, Forms DEF ListTrue
  <2>7. SyncAgrees'
    BY <2>1, <2>3 DEF SyncAgrees, Kept, InStep, There, history
  <2>8. QED
    BY <2>5, <2>6, <2>7 DEF Readings
<1>3. CASE job[j].a # None
  <2>1. PICK a \in Autos : a = job[j].a /\ (j = Reconcile => a \notin todo)
    BY <1>3, WhereJobsAre DEF JobType
  <2>2. Returns(j) /\ Touch(None, a)
    BY <1>3, <2>1 DEF Fails
  <2>3. Ended(j)
    BY <2>2, ReturnsEnds
  <2>4. OnlyOf(a)
    BY <1>1, <2>1, DoneOwners, SameTasks
  <2>5. \A b \in Autos \ {a} : Untouched(b) /\ SameList(b)
    BY <1>1, <2>1, <2>4, OnlyOfAside DEF TypeOK
  <2>6. /\ \A k \in Jobs : steady'[k] \subseteq steady[k] /\ a \notin steady'[k]
        /\ doubt' = doubt \cup {a}
    BY <2>2, Parameters DEF Touch
  <2>7. Aside(j, a)
    BY <1>1, <2>1, <2>3, <2>5, <2>6, Parameters DEF Aside, Ended
  <2>8. AsRead(j)' /\ Agrees(a)'
    BY <2>3, <2>6 DEF Ended, AsRead, Agrees
  <2>9. QED
    BY <2>7, <2>8, AsideAgrees
<1>4. QED
  BY <1>2, <1>3

LEMMA GoesAgrees ==
  ASSUME AutomationsAssumption, Shape, Readings, SyncAgrees, NEW j \in Jobs, Goes(j)
  PROVE  Readings' /\ SyncAgrees'
BY AnswersListAgrees, AnswersUpdateAgrees, AnswersSwitchAgrees, AnswersCreateAgrees, AnswersSaveAgrees,
   AnswersDeleteAgrees, FailsAgrees DEF Goes

(* The reconciliation: its lists are true when they are read.                *)
LEMMA ReconcilesAgrees ==
  ASSUME AutomationsAssumption, Shape, Readings, SyncAgrees, Reconciles
  PROVE  Readings' /\ SyncAgrees'
<1> TypeOK /\ Owned /\ Placed /\ Reconcile \in Jobs
  BY Parameters DEF Shape
<1>1. CASE ReconcileLists
  <2>1. /\ known' = Listed /\ refs' = Recovered /\ UNCHANGED <<row, task, mine, todo, doubt>>
        /\ steady' = [steady EXCEPT ![Reconcile] = Autos \ UnderWay]
        /\ Waits(Reconcile, "mine", None, NoRow, None) /\ job[Reconcile].at = "list"
    BY <1>1 DEF ReconcileLists, Answers
  <2>2. Waiting(Reconcile, "mine", None, NoRow, None)
    BY <2>1, WaitsWaits, Forms DEF Pcs
  <2>3. \A k \in Jobs : AsRead(k)'
    <3>1. AsRead(Reconcile)'
      BY <2>2 DEF Waiting, AsRead
    <3>2. ASSUME NEW k \in Jobs \ {Reconcile} PROVE AsRead(k)'
      BY <2>1, <2>2 DEF Waiting, AsRead, Readings, TypeOK
    <3>3. QED
      BY <3>1, <3>2
  <2>4. \A b \in Autos : ListTrue(b)'
    <3>1. todo' = {}
      BY <2>1 DEF Placed
    <3>2. \A t \in Tasks : known'[t] = Listed'[t]
      BY <2>1, RecoveredLists
    <3>3. QED
      BY <3>1, <3>2 DEF ListTrue
  <2>5. SyncAgrees'
    BY <2>1 DEF SyncAgrees, Kept, InStep, There
  <2>6. QED
    BY <2>3, <2>4, <2>5 DEF Readings
<1>2. CASE ReconcileReads
  <2>1. /\ UNCHANGED <<task, refs, history, row>> /\ job[Reconcile].at = "mine"
        /\ mine' = row /\ known' = (IF todo' = {} THEN NoTasks ELSE known)
        /\ Returns(Reconcile)
    BY <1>2 DEF ReconcileReads
  <2>2. Ended(Reconcile)
    BY <2>1, ReturnsEnds
  <2>3. \A k \in Jobs : AsRead(k)'
    BY <2>1, <2>2 DEF Ended, AsRead, Readings, history
  <2>4. \A b \in Autos : ListTrue(b)'
    <3> TAKE b \in Autos
    <3>1. SUFFICES ASSUME b \in steady'[Reconcile], b \in todo'
                   PROVE  /\ mine'[b] = row'[b]
                          /\ \A t \in Tasks : task'[t].of = b => known'[t] = Listed'[t]
      BY <2>2 DEF ListTrue, Ended
    <3>2. known' = known /\ b \in steady[Reconcile]
      BY <2>1, <3>1 DEF history
    <3>3. \A t \in Tasks : task[t].of = b => known[t] = Listed[t]
      BY <2>1, <3>2 DEF Readings, ListTrue
    <3>4. QED
      BY <2>1, <3>2, <3>3 DEF Listed
  <2>5. SyncAgrees'
    BY <2>1 DEF SyncAgrees, Kept, InStep, There, history
  <2>6. QED
    BY <2>3, <2>4, <2>5 DEF Readings
<1>3. ASSUME NEW a \in Autos, ReconcileNext(a) PROVE Readings' /\ SyncAgrees'
  <2>1. /\ task' = task /\ todo' = todo \ {a} /\ a \in todo
        /\ mine' = [mine EXCEPT ![a] = NoRow] /\ known' = (IF todo' = {} THEN NoTasks ELSE known)
    BY <1>3 DEF ReconcileNext
  <2>2. mine[a] \in Rows /\ Names(mine[a].ref, a)
    BY DEF TypeOK, Owned
  <2>3. a \in steady[Reconcile] => row[a] = mine[a] /\ \A t \in Tasks : task[t].of = a => known[t] = Listed[t]
    BY <2>1 DEF Readings, ListTrue
  <2>4. /\ \A b \in Autos \ {a} : Untouched(b) /\ SameList(b)
        /\ \A k \in Jobs : steady'[k] \subseteq steady[k]
        /\ \A k \in Jobs \ {Reconcile} : a \in steady'[k] => Untouched(a) /\ SameList(a)
        /\ doubt \ {a} \subseteq doubt'
        /\ Agrees(a) => Agrees(a)'
        /\ AsRead(Reconcile)'
        /\ \A k \in Jobs \ {Reconcile} : job'[k] = job[k]
        /\ job'[Reconcile].at # "mine"
    <3>1. CASE Sync(Reconcile, a, mine[a], known, refs)
      <4>1. /\ \A k \in Jobs \ {Reconcile} : job'[k] = job[k]
            /\ job'[Reconcile].at # "mine"
        BY <2>2, <3>1, SyncShape DEF TypeOK, Ended, Waiting
      <4>2. known \in [Tasks -> HostTasks] /\ refs \in [Tasks -> Notes \cup {None}]
        BY DEF TypeOK
      <4>3. QED
        BY <2>1, <2>2, <2>3, <3>1, <4>1, <4>2, SyncAgree
    <3>2. CASE UNCHANGED <<row, refs, history>> /\ Returns(Reconcile)
      <4>1. Ended(Reconcile)
        BY <3>2, ReturnsEnds
      <4>2. \A b \in Autos : Untouched(b) /\ SameList(b)
        BY <2>1, <3>2 DEF Untouched, SameList, Listed
      <4>3. Agrees(a) => Agrees(a)'
        BY <2>1, <3>2 DEF Agrees, Kept, InStep, There, history
      <4>4. QED
        BY <3>2, <4>1, <4>2, <4>3 DEF Ended, AsRead, history
    <3>3. QED
      BY <1>3, <3>1, <3>2 DEF ReconcileNext
  <2>5. Aside(Reconcile, a)
    BY <2>1, <2>4 DEF Aside, TypeOK
  <2>6. Agrees(a)
    BY AllAgree
  <2>7. QED
    BY <2>4, <2>5, <2>6, AsideAgrees
<1>4. QED
  BY <1>1, <1>2, <1>3 DEF Reconciles

LEMMA HostAgrees ==
  ASSUME AutomationsAssumption, Shape, Readings, SyncAgrees, Host
  PROVE  Readings' /\ SyncAgrees'
<1> TypeOK /\ Owned /\ Placed /\ Reconcile \in Jobs
  BY Parameters DEF Shape
<1>1. ASSUME NEW t \in Tasks, GivesUp(t) PROVE Readings' /\ SyncAgrees'
  <2> DEFINE v == [task[t] EXCEPT !.is = "paused", !.gaveUp = TRUE]
  <2>1. PICK a \in Autos : a = task[t].of
    BY <1>1 DEF GivesUp, Owned
  <2>2. /\ UNCHANGED <<lists, row, refs, job, todo>> /\ Touch(None, a)
        /\ task' = [task EXCEPT ![t].is = "paused", ![t].gaveUp = TRUE]
    BY <1>1, <2>1 DEF GivesUp
  <2>3. task' = [task EXCEPT ![t] = v] /\ v \in HostTasks /\ v.of = a
    <3>1. task[t] \in HostTasks /\ task \in [Tasks -> HostTasks]
      BY DEF TypeOK
    <3>2. v \in HostTasks /\ v.of = a
      BY <2>1, <3>1 DEF HostTasks
    <3>3. task' = [task EXCEPT ![t] = v]
      BY <2>2, <3>1
    <3>4. QED
      BY <3>2, <3>3
  <2>4. OnlyOf(a)
    BY <2>1, <2>3, OneTaskChanges
  <2>5. \A b \in Autos \ {a} : Untouched(b) /\ SameList(b)
    BY <2>2, <2>4, OnlyOfAside
  <2>6. /\ \A k \in Jobs : steady'[k] \subseteq steady[k] /\ a \notin steady'[k]
        /\ doubt' = doubt \cup {a}
    BY <2>2, Parameters DEF Touch
  <2>7. Aside(None, a)
    BY <2>2, <2>5, <2>6, Parameters DEF Aside, lists
  <2>8. Agrees(a)'
    BY <2>6 DEF Agrees
  <2>9. QED
    BY <2>7, <2>8, Parameters, AsideAgrees
<1>2. ASSUME NEW t \in Tasks, WatchReads(t) PROVE Readings' /\ SyncAgrees'
  <2>1. UNCHANGED <<lists, row, task, job, todo, history>> /\ refs' = Recovered
    BY <1>2 DEF WatchReads
  <2>2. \A u \in Tasks : Listed'[u] = Listed[u]
    BY <2>1, RecoveredLists
  <2>3. (\A k \in Jobs : AsRead(k)') /\ SyncAgrees'
    BY <2>1 DEF Readings, AsRead, SyncAgrees, Kept, InStep, There, history
  <2>4. \A b \in Autos : ListTrue(b)'
    BY <2>1, <2>2 DEF Readings, ListTrue, history, lists
  <2>5. QED
    BY <2>3, <2>4 DEF Readings
<1>3. ASSUME NEW t \in Tasks, PauseReported(t) PROVE Readings' /\ SyncAgrees'
  <2>1. PICK a \in Autos : a = task[t].of
    BY <1>3 DEF PauseReported, Owned
  <2>2. /\ UNCHANGED <<lists, task, refs, job, todo>>
        /\ \/ row' = [row EXCEPT ![a].on = FALSE, ![a].verdict = TRUE] /\ Touch(None, a)
           \/ UNCHANGED <<row, history>>
    BY <1>3, <2>1 DEF PauseReported
  <2>3. CASE UNCHANGED <<row, history>>
    BY <2>2, <2>3 DEF Readings, AsRead, ListTrue, Listed, SyncAgrees, Kept, InStep, There, history, lists
  <2>4. CASE row' = [row EXCEPT ![a].on = FALSE, ![a].verdict = TRUE] /\ Touch(None, a)
    <3>1. \A b \in Autos \ {a} : row'[b] = row[b]
      BY <2>4 DEF TypeOK
    <3>2. \A b \in Autos \ {a} : Untouched(b) /\ SameList(b)
      BY <2>2, <3>1 DEF Untouched, SameList, Listed
    <3>3. /\ \A k \in Jobs : steady'[k] \subseteq steady[k] /\ a \notin steady'[k]
          /\ doubt' = doubt \cup {a}
      BY <2>4, Parameters DEF Touch
    <3>4. Aside(None, a)
      BY <2>2, <3>2, <3>3, Parameters DEF Aside, lists
    <3>5. Agrees(a)'
      BY <3>3 DEF Agrees
    <3>6. QED
      BY <3>4, <3>5, Parameters, AsideAgrees
  <2>5. QED
    BY <2>2, <2>3, <2>4
<1>4. QED
  BY <1>1, <1>2, <1>3 DEF Host

LEMMA LifeAgrees ==
  ASSUME AutomationsAssumption, Shape, Readings, SyncAgrees, Life
  PROVE  Readings' /\ SyncAgrees'
<1> TypeOK /\ Owned /\ Placed /\ Reconcile \in Jobs
  BY Parameters DEF Shape
<1>1. CASE RuntimeStarts
  <2>1. /\ UNCHANGED <<row, task, lists, todo, history>>
        /\ Waits(Reconcile, "list", None, NoRow, None) /\ job[Reconcile] = Idle
    BY <1>1 DEF RuntimeStarts
  <2>2. Waiting(Reconcile, "list", None, NoRow, None)
    BY <2>1, WaitsWaits, Forms DEF Pcs
  <2>3. todo' = {}
    BY <2>1, Forms DEF Placed
  <2>4. \A k \in Jobs : AsRead(k)'
    <3>1. AsRead(Reconcile)'
      <4>1. None \notin steady'[Reconcile]
        BY <2>1, Parameters DEF TypeOK, history
      <4>2. QED
        BY <2>2, <4>1 DEF Waiting, AsRead
    <3>2. ASSUME NEW k \in Jobs \ {Reconcile} PROVE AsRead(k)'
      BY <2>1, <2>2 DEF Waiting, AsRead, Readings, history
    <3>3. QED
      BY <3>1, <3>2
  <2>5. \A b \in Autos : ListTrue(b)'
    BY <2>2, <2>3 DEF Waiting, ListTrue
  <2>6. SyncAgrees'
    BY <2>1 DEF SyncAgrees, Kept, InStep, There, history
  <2>7. QED
    BY <2>4, <2>5, <2>6 DEF Readings
<1>2. CASE LinkLost \/ LinkBack \/ StopBegins \/ StopEnds \/ Boot
  <2>1. UNCHANGED <<row, task, refs, job, lists, todo, history>>
    BY <1>2 DEF LinkLost, LinkBack, StopBegins, StopEnds, Boot
  <2>2. QED
    BY <2>1 DEF Readings, AsRead, ListTrue, Listed, SyncAgrees, Kept, InStep, There, history, lists
<1>3. CASE Crash
  <2>1. /\ row' = row /\ steady' = [j \in Jobs |-> {}]
        /\ doubt' = doubt \cup {a \in Autos : \E j \in Jobs : job[j].a = a}
    BY <1>3 DEF Crash
  <2>2. Readings'
    BY <2>1 DEF Readings, AsRead, ListTrue
  <2>3. ASSUME NEW b \in Autos, Kept(b)', b \notin doubt' PROVE InStep(b)'
    <3>1. InStep(b) /\ \A j \in Jobs : job[j].a # b
      BY <2>1, <2>3 DEF SyncAgrees, Kept
    <3>2. row[b].ref \in Tasks /\ task[row[b].ref].of = b
      BY <3>1 DEF InStep, There, TypeOK, Rows
    <3>3. \A t \in Tasks : task[t].of = b => task'[t] = task[t]
      BY <1>3, <3>1, CrashOwners, Parameters DEF OnlyOf
    <3>4. QED
      BY <2>1, <3>1, <3>2, <3>3 DEF InStep, There
  <2>4. QED
    BY <2>2, <2>3 DEF SyncAgrees
<1>4. QED
  BY <1>1, <1>2, <1>3 DEF Life

LEMMA AgreeInit ==
  ASSUME AutomationsAssumption, Init
  PROVE  Readings /\ SyncAgrees
<1>1. Readings
  BY Forms, Parameters DEF Init, Readings, AsRead, ListTrue
<1>2. SyncAgrees
  BY DEF Init, SyncAgrees, Kept, NoRow
<1>3. QED
  BY <1>1, <1>2

LEMMA AgreeStep ==
  ASSUME AutomationsAssumption, Shape, Readings, SyncAgrees, [Next]_vars
  PROVE  Readings' /\ SyncAgrees'
<1>1. CASE Next
  BY <1>1, PersonAgrees, GoesAgrees, ReconcilesAgrees, HostAgrees, LifeAgrees DEF Next
<1>2. CASE UNCHANGED vars
  BY <1>2 DEF Readings, AsRead, ListTrue, Listed, SyncAgrees, Kept, InStep, There,
              vars, life, lists, watch, history, bounds
<1>3. QED
  BY <1>1, <1>2

(* Once an automation was synced without anyone touching it or its task      *)
(* meanwhile, its row and the host's task agree, for any number of           *)
(* automations, tasks and jobs, whatever other requests, failures, pauses,   *)
(* stops and crashes there were before.  What a job has read of the row, or  *)
(* of the host's list, is true until somebody touches it: that is Readings.  *)
THEOREM RowAndTaskAgree == AutomationsAssumption => (Spec => []SyncAgrees)
<1> SUFFICES ASSUME AutomationsAssumption PROVE Spec => []SyncAgrees
  OBVIOUS
<1> DEFINE IInv == Shape /\ Readings /\ SyncAgrees
<1>1. Init => IInv
  BY ShapeInit, AgreeInit
<1>2. IInv /\ [Next]_vars => IInv'
  BY ShapeStep, AgreeStep
<1>3. QED
  BY <1>1, <1>2, PTL DEF Spec

-----------------------------------------------------------------------------
(* What is on may reach its domains *)

(* A step that lets nothing new be on, takes nothing from the policy, and    *)
(* leaves every job of a person's with its automation.                       *)
LEMMA OwedStays ==
  ASSUME Owed, core' = core, EgressPolicy(row') \subseteq EgressPolicy(row), egress' = egress,
         \A k \in 1 .. Persons : job'[k].a = job[k].a
  PROVE  Owed'
BY DEF Owed, EgressPolicy

(* A push lets everything through that is on. *)
LEMMA PushedOwed ==
  ASSUME egress' = EgressPolicy(row')
  PROVE  Owed'
BY DEF Owed, EgressPolicy

(* A job asks for something else about the same automation. *)
LEMMA WaitingOwed ==
  ASSUME AutomationsAssumption, Owed, NEW j \in Jobs, core' = core,
         EgressPolicy(row') \subseteq EgressPolicy(row),
         NEW pc, NEW as, NEW new, Waiting(j, pc, job[j].a, as, new)
  PROVE  Owed'
<1>1. egress' = egress /\ \A k \in 1 .. Persons : job'[k].a = job[k].a
  BY Parameters DEF Waiting
<1>2. QED
  BY <1>1, OwedStays

(* A person's job that ends pushes; the reconciliation owes nothing.         *)
LEMMA ReturnsOwed ==
  ASSUME AutomationsAssumption, Shape, Owed, NEW j \in Jobs, core' = core,
         EgressPolicy(row') \subseteq EgressPolicy(row), Returns(j)
  PROVE  Owed'
<1>1. CASE egress' = EgressPolicy(row')
  BY <1>1, PushedOwed
<1>2. CASE egress' = egress /\ j = Reconcile
  <2>1. \A k \in Jobs \ {j} : job'[k] = job[k]
    BY ReturnsEnds DEF Ended, Shape
  <2>2. \A k \in 1 .. Persons : job'[k].a = job[k].a
    BY <1>2, <2>1, Parameters
  <2>3. QED
    BY <1>2, <2>2, OwedStays
<1>3. QED
  BY <1>1, <1>2 DEF Returns, Waits

(* What a sync does to a row turns no automation on. *)
LEMMA SyncOwed ==
  ASSUME Shape, NEW j \in Jobs, NEW a \in Autos, NEW as \in Rows,
         NEW list \in [Tasks -> HostTasks], NEW noted \in [Tasks -> Notes \cup {None}],
         Sync(j, a, as, list, noted)
  PROVE  EgressPolicy(row') \subseteq EgressPolicy(row)
<1>1. CASE row' = row
  BY <1>1
<1>2. CASE row' = [row EXCEPT ![a] = IF @.is = "kept" THEN [@ EXCEPT !.on = FALSE, !.verdict = TRUE] ELSE @]
  <2>1. row \in [Autos -> Rows] /\ row[a] \in Rows
    BY DEF Shape, TypeOK
  <2>2. \A b \in Autos \ {a} : row'[b] = row[b]
    BY <1>2, <2>1
  <2>3. row[a].is = "kept" => row'[a].on = FALSE
    BY <1>2, <2>1 DEF Rows
  <2>4. row[a].is # "kept" => row'[a] = row[a]
    BY <1>2, <2>1
  <2>5. QED
    BY <2>2, <2>3, <2>4 DEF EgressPolicy
<1>3. QED
  BY <1>1, <1>2 DEF Sync

LEMMA PersonOwed ==
  ASSUME AutomationsAssumption, Shape, Owed, NEW j \in 1 .. Persons, Person(j)
  PROVE  Owed'
<1>0. PICK a \in Autos : Create(j, a) \/ Update(j, a) \/ Remove(j, a)
  BY DEF Person
<1> TypeOK /\ j \in Jobs
  BY Parameters DEF Shape
<1>a. /\ core' = core /\ job[j] = Idle /\ \A b \in Autos \ {a} : row'[b] = row[b]
  BY <1>0 DEF Create, Update, Remove, MayChange, life, TypeOK
<1>1. CASE egress' = EgressPolicy(row')
  BY <1>1, PushedOwed
<1>2. CASE /\ egress' = egress /\ job'[j].a = a
           /\ \A k \in Jobs \ {j} : job'[k] = job[k]
  <2>1. SUFFICES ASSUME core = "up", NEW b \in EgressPolicy(row'), b \notin egress'
                 PROVE  \E k \in 1 .. Persons : job'[k].a = b
    BY <1>a DEF Owed
  <2>2. CASE b = a
    BY <1>2, <2>2
  <2>3. CASE b # a
    <3>1. b \in EgressPolicy(row) /\ b \notin egress /\ b \in Autos
      BY <1>a, <1>2, <2>1, <2>3 DEF EgressPolicy
    <3>2. PICK k \in 1 .. Persons : job[k].a = b
      BY <2>1, <3>1 DEF Owed
    <3>3. k \in Jobs /\ k # j
      BY <1>a, <3>1, <3>2, Forms, Parameters
    <3>4. QED
      BY <1>2, <3>2, <3>3
  <2>4. QED
    BY <2>2, <2>3
<1>3. CASE Create(j, a) \/ Update(j, a)
  <2>1. PICK do \in {"create", "update"} : BeginSync(j, a, do)
    BY <1>3 DEF Create, Update
  <2>2. QED
    BY <1>1, <1>2, <2>1 DEF BeginSync, TypeOK
<1>4. CASE Remove(j, a)
  BY <1>1, <1>2, <1>4 DEF Remove, TypeOK
<1>5. QED
  BY <1>0, <1>3, <1>4

LEMMA GoesOwed ==
  ASSUME AutomationsAssumption, Shape, Owed, NEW j \in Jobs, Goes(j)
  PROVE  Owed'
<1> TypeOK /\ Owned /\ Placed
  BY DEF Shape
<1>a. core' = core
  BY GoesFrame DEF life
<1>1. CASE AnswersList(j)
  <2>1. j # Reconcile /\ Sync(j, job[j].a, job[j].as, Listed, Recovered)
    BY <1>1 DEF AnswersList
  <2>2. job[j].a \in Autos /\ job[j].as \in Rows /\ Names(job[j].as.ref, job[j].a)
    BY <1>1, <2>1, WhereJobsAre DEF Placed, AnswersList, Answers
  <2>3. EgressPolicy(row') \subseteq EgressPolicy(row)
    <3>1. Listed \in [Tasks -> HostTasks] /\ Recovered \in [Tasks -> Notes \cup {None}]
      BY ListTyped
    <3>2. QED
      BY <2>1, <2>2, <3>1, SyncOwed
  <2>4. \/ Returns(j)
        \/ \E pc : Waiting(j, pc, job[j].a, job[j].as, None)
    <3>1. \/ Returns(j)
          \/ \E pc \in {"update", "create"} : Waits(j, pc, job[j].a, job[j].as, None)
      BY <2>1 DEF Sync
    <3>2. QED
      BY <2>2, <3>1, WaitsWaits DEF Pcs
  <2>5. QED
    BY <1>a, <2>3, <2>4, WaitingOwed, ReturnsOwed
<1>2. CASE AnswersUpdate(j)
  <2>1. row' = row /\ job[j].as \in Rows /\ job[j].a \in Autos
    BY <1>2, WhereJobsAre DEF AnswersUpdate, Answers
  <2>2. Returns(j) \/ Waiting(j, "switch", job[j].a, job[j].as, None)
    BY <1>2, <2>1, WaitsWaits DEF AnswersUpdate, Pcs
  <2>3. QED
    BY <1>a, <2>1, <2>2, WaitingOwed, ReturnsOwed
<1>3. CASE AnswersSwitch(j)
  BY <1>3, <1>a, ReturnsOwed DEF AnswersSwitch
<1>4. CASE AnswersCreate(j)
  <2>1. row' = row /\ job[j].as \in Rows /\ job[j].a \in Autos
    BY <1>4, WhereJobsAre DEF AnswersCreate, Answers
  <2>2. PICK t \in Tasks : Waits(j, "save", job[j].a, job[j].as, t)
    BY <1>4 DEF AnswersCreate, Fresh
  <2>3. Waiting(j, "save", job[j].a, job[j].as, t)
    BY <2>1, <2>2, WaitsWaits DEF Pcs
  <2>4. QED
    BY <1>a, <2>1, <2>3, WaitingOwed
<1>5. CASE AnswersSave(j)
  <2>1. job[j].a \in Autos /\ row' = IF Kept(job[j].a) THEN [row EXCEPT ![job[j].a].ref = job[j].new] ELSE row
    BY <1>5, WhereJobsAre DEF AnswersSave, Answers
  <2>2. EgressPolicy(row') \subseteq EgressPolicy(row)
    BY <2>1 DEF EgressPolicy, TypeOK, Rows
  <2>3. CASE job[j].do = "update" /\ ~Kept(job[j].a)
    <3>1. row' = row /\ egress' = egress /\ job' = [job EXCEPT ![j] = Idle]
      BY <1>5, <2>1, <2>3 DEF AnswersSave
    <3>2. job[j].a \notin EgressPolicy(row) /\ \A k \in Jobs \ {j} : job'[k] = job[k]
      BY <2>3, <3>1 DEF EgressPolicy, Kept, TypeOK
    <3>3. QED
      BY <1>a, <3>1, <3>2, Parameters DEF Owed, EgressPolicy
  <2>4. CASE Returns(j)
    BY <1>a, <2>2, <2>4, ReturnsOwed
  <2>5. QED
    BY <1>5, <2>3, <2>4 DEF AnswersSave
<1>6. CASE AnswersDelete(j)
  <2>1. job[j].a \in Autos /\ row' = [row EXCEPT ![job[j].a] = NoneLeft] /\ Returns(j)
    BY <1>6, WhereJobsAre DEF AnswersDelete, Answers
  <2>2. EgressPolicy(row') \subseteq EgressPolicy(row)
    BY <2>1 DEF EgressPolicy, NoneLeft, NoRow, TypeOK
  <2>3. QED
    BY <1>a, <2>1, <2>2, ReturnsOwed
<1>7. CASE Fails(j)
  <2>1. row' = IF job[j].at = "delete" THEN [row EXCEPT ![job[j].a] = NoneLeft] ELSE row
    BY <1>7 DEF Fails
  <2>2. job[j].at = "delete" => job[j].a \in Autos
    BY WhereJobsAre
  <2>3. CASE job[j].a = None
    <3>1. job' = [job EXCEPT ![j] = Idle] /\ egress' = egress /\ row' = row
      BY <1>7, <2>1, <2>2, <2>3, Parameters DEF Fails
    <3>2. j = Reconcile /\ \A k \in Jobs \ {j} : job'[k] = job[k]
      BY <1>7, <2>3, <3>1, Parameters DEF Fails, Placed, TypeOK
    <3>3. QED
      BY <1>a, <3>1, <3>2, Parameters, OwedStays
  <2>4. CASE job[j].a # None
    <3>1. Returns(j)
      BY <1>7, <2>4 DEF Fails
    <3>2. EgressPolicy(row') \subseteq EgressPolicy(row)
      BY <2>1, <2>2 DEF EgressPolicy, NoneLeft, NoRow, TypeOK
    <3>3. QED
      BY <1>a, <3>1, <3>2, ReturnsOwed
  <2>5. QED
    BY <2>3, <2>4
<1>8. QED
  BY <1>1, <1>2, <1>3, <1>4, <1>5, <1>6, <1>7 DEF Goes

LEMMA OwedStep ==
  ASSUME AutomationsAssumption, Shape, Owed, [Next]_vars
  PROVE  Owed'
<1> TypeOK /\ Reconcile \in Jobs /\ \A k \in 1 .. Persons : k \in Jobs /\ k # Reconcile
  BY Parameters DEF Shape
<1>1. CASE \E j \in 1 .. Persons : Person(j)
  BY <1>1, PersonOwed
<1>2. CASE \E j \in Jobs : Goes(j)
  BY <1>2, GoesOwed
<1>3. CASE ReconcileLists
  <2>1. Waiting(Reconcile, "mine", None, NoRow, None) /\ row' = row /\ core' = core
    BY <1>3, WaitsWaits, Forms DEF ReconcileLists, Answers, life, Pcs
  <2>2. QED
    BY <2>1, OwedStays DEF Waiting
<1>4. CASE ReconcileReads
  BY <1>4, ReturnsOwed DEF ReconcileReads, life
<1>5. ASSUME NEW a \in Autos, ReconcileNext(a) PROVE Owed'
  <2>1. mine[a] \in Rows /\ core' = core
    BY <1>5 DEF TypeOK, ReconcileNext, life
  <2>2. CASE Sync(Reconcile, a, mine[a], known, refs)
    <3>1. EgressPolicy(row') \subseteq EgressPolicy(row)
      BY <2>1, <2>2, SyncOwed DEF TypeOK
    <3>2. \/ Returns(Reconcile)
          \/ \E pc \in {"update", "create"} : Waits(Reconcile, pc, a, mine[a], None)
      BY <2>2 DEF Sync
    <3>3. CASE \E pc \in {"update", "create"} : Waits(Reconcile, pc, a, mine[a], None)
      <4>1. \E pc : Waiting(Reconcile, pc, a, mine[a], None)
        BY <2>1, <3>3, WaitsWaits DEF Pcs
      <4>2. QED
        BY <2>1, <3>1, <4>1, OwedStays DEF Waiting
    <3>4. QED
      BY <2>1, <3>1, <3>2, <3>3, ReturnsOwed
  <2>3. CASE UNCHANGED row /\ Returns(Reconcile)
    BY <2>1, <2>3, ReturnsOwed
  <2>4. QED
    BY <1>5, <2>2, <2>3 DEF ReconcileNext
<1>6. CASE Host
  <2>1. /\ core' = core /\ egress' = egress /\ job' = job
        /\ \/ row' = row
           \/ \E a \in Autos : row' = [row EXCEPT ![a].on = FALSE, ![a].verdict = TRUE]
    BY <1>6 DEF Host, GivesUp, WatchReads, PauseReported, Shape, Owned, life
  <2>2. EgressPolicy(row') \subseteq EgressPolicy(row)
    <3>1. CASE row' = row
      BY <3>1
    <3>2. ASSUME NEW a \in Autos, row' = [row EXCEPT ![a].on = FALSE, ![a].verdict = TRUE]
          PROVE  EgressPolicy(row') \subseteq EgressPolicy(row)
      <4>1. row \in [Autos -> Rows] /\ row[a] \in Rows
        BY DEF TypeOK
      <4>2. row'[a].on = FALSE /\ \A b \in Autos \ {a} : row'[b] = row[b]
        BY <3>2, <4>1 DEF Rows
      <4>3. QED
        BY <4>2 DEF EgressPolicy
    <3>3. QED
      BY <2>1, <3>1, <3>2
  <2>3. QED
    BY <2>1, <2>2, OwedStays
<1>7. CASE RuntimeStarts
  <2>1. Waiting(Reconcile, "list", None, NoRow, None) /\ row' = row /\ core' = core
    BY <1>7, WaitsWaits, Forms DEF RuntimeStarts, Pcs
  <2>2. QED
    BY <2>1, OwedStays DEF Waiting
<1>8. CASE LinkLost \/ LinkBack \/ StopBegins \/ StopEnds \/ UNCHANGED vars
  BY <1>8, OwedStays DEF LinkLost, LinkBack, StopBegins, StopEnds, vars, life
<1>9. CASE Crash
  BY <1>9 DEF Crash, Owed
<1>10. CASE Boot
  BY <1>10, PushedOwed DEF Boot
<1>11. QED
  BY <1>1, <1>2, <1>3, <1>4, <1>5, <1>6, <1>7, <1>8, <1>9, <1>10 DEF Next, Reconciles, Life

(* With Core up, the runtime ready and no job under way, every automation    *)
(* that is on may reach the domains it declares: whatever turned it on has   *)
(* pushed the policy by the time it was done, and what has not yet will      *)
(* (Owed).                                                                   *)
THEOREM OnMayReach == AutomationsAssumption => (Spec => []OnIsAllowed)
<1> SUFFICES ASSUME AutomationsAssumption PROVE Spec => []OnIsAllowed
  OBVIOUS
<1> DEFINE IInv == Shape /\ Owed
<1>1. Init => IInv
  <2>1. Init => Owed
    BY DEF Init, Owed, EgressPolicy, NoRow
  <2>2. QED
    BY <2>1, ShapeInit
<1>2. IInv /\ [Next]_vars => IInv'
  BY ShapeStep, OwedStep
<1>3. IInv => OnIsAllowed
  <2> SUFFICES ASSUME Shape, Owed, core = "up", \A j \in Jobs : job[j] = Idle, NEW a \in EgressPolicy(row)
               PROVE  a \in egress
    BY DEF OnIsAllowed
  <2>1. \A k \in 1 .. Persons : job[k].a = None
    BY Forms, Parameters
  <2>2. a # None
    BY Parameters DEF EgressPolicy
  <2>3. QED
    BY <2>1, <2>2 DEF Owed
<1>4. QED
  BY <1>1, <1>2, <1>3, PTL DEF Spec
=============================================================================
