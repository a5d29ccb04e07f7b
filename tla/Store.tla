------------------------------- MODULE Store -------------------------------
(***************************************************************************)
(* core.db (packages/fren-core/store.js): the schema and its migrations,   *)
(* each of them one transaction, and the calls that are several statements *)
(* without one.  A statement or a transaction is whole or not at all,      *)
(* whatever happens to the process (the database's promise).               *)
(***************************************************************************)
EXTENDS Naturals, FiniteSets, Sequences

CONSTANTS
  Rows,        \* runs, and the records of an automation's runs
  Tasks,       \* automations
  NoTask,
  MaxBreaks,   \* bound: crashes and statements that fail
  MaxOpens     \* bound: lives of Core

ASSUME StoreConstants ==
  /\ NoTask \notin Tasks /\ {"messages", "events"} \intersect Tasks = {}
  /\ MaxBreaks \in Nat /\ MaxOpens \in Nat

\* What each migration makes.
Migrations == <<
  {"sessions", "runs", "run_messages", "automations", "automation_runs", "permission_requests", "events"},
  {"automations.network"},
  {"settings"} >>

VARIABLES
  release,    \* the migrations this life of Core knows of
  db,         \* closed, migrating, open, or the opening failed
  schema,     \* the tables and columns there are
  ledger,     \* schema_version
  begun,      \* the transaction under way: its migration (0: none), and whether it is past up()
  runRows,    \* each run: none, old or new, and open or over
  told,       \* the runs that run_messages has messages of
  taskRows,   \* the automations
  taskRuns,   \* of each record, the automation it is of
  goneTasks,  \* the automations deleted in this life of Core: a caller that read one before
              \* may be waiting for its run yet
  late,       \* the records such callers wrote afterwards
  cutting,    \* the statements of prune and of deleteAutomation still to come
  leftover,   \* a prune was cut short since one was whole
  opens, breaks

schemaVars == <<release, db, schema, ledger, begun>>
rowVars == <<runRows, told, taskRows, taskRuns, goneTasks, late, cutting, leftover>>
tasksOf == <<taskRows, taskRuns, goneTasks, late>>
storeVars == <<schemaVars, rowVars, opens, breaks>>

NoEntry == [is |-> "none", old |-> FALSE]
StoreTypeOK ==
  /\ release \in 1..Len(Migrations) /\ db \in {"closed", "migrating", "open", "failed"}
  /\ schema \subseteq UNION {Migrations[i] : i \in 1..Len(Migrations)}
  /\ ledger \subseteq 1..Len(Migrations)
  /\ begun \in [at : 0..Len(Migrations), made : BOOLEAN]
  /\ runRows \in [Rows -> [is : {"none", "open", "over"}, old : BOOLEAN]]
  /\ told \subseteq Rows /\ taskRows \subseteq Tasks /\ taskRuns \in [Rows -> Tasks \union {NoTask}]
  /\ goneTasks \subseteq Tasks /\ late \subseteq Rows
  /\ \/ cutting \in {<<>>, <<"messages", "events">>, <<"events">>}
     \/ \E t \in Tasks : cutting = <<t>>
  /\ leftover \in BOOLEAN /\ opens \in 0..MaxOpens /\ breaks \in 0..MaxBreaks

Quiet == begun = [at |-> 0, made |-> FALSE]

StoreInit ==
  /\ release = 1 /\ db = "closed" /\ schema = {} /\ ledger = {} /\ begun = [at |-> 0, made |-> FALSE]
  /\ runRows = [r \in Rows |-> NoEntry] /\ told = {} /\ taskRows = {}
  /\ taskRuns = [r \in Rows |-> NoTask] /\ goneTasks = {} /\ late = {} /\ cutting = <<>> /\ leftover = FALSE
  /\ opens = 0 /\ breaks = 0

(***************************************************************************)
(* openCoreStore, migrate                                                  *)
(***************************************************************************)
\* By this release of Core or by a later one.
OpensStore(v) ==
  /\ db = "closed" /\ opens < MaxOpens /\ opens' = opens + 1
  /\ v >= release /\ release' = v /\ db' = "migrating"
  /\ UNCHANGED <<schema, ledger, begun, rowVars, breaks>>

\* A step no ledger entry is of: BEGIN.
BeginsStep(i) ==
  /\ db = "migrating" /\ Quiet /\ i \in (1..release) \ ledger /\ \A j \in 1..(i - 1) : j \in ledger
  /\ begun' = [at |-> i, made |-> FALSE]
  /\ UNCHANGED <<release, db, schema, ledger, rowVars, opens, breaks>>

\* Broken form of StepRuns: the migration is no transaction.
StepRunsPlainly ==
  /\ begun.at # 0 /\ ~begun.made
  /\ IF Migrations[begun.at] \intersect schema = {}
     THEN /\ begun' = [begun EXCEPT !.made = TRUE] /\ schema' = schema \union Migrations[begun.at] /\ UNCHANGED db
     ELSE begun' = [at |-> 0, made |-> FALSE] /\ db' = "failed" /\ UNCHANGED schema
  /\ UNCHANGED <<release, ledger, rowVars, opens, breaks>>

\* up(): what is there already cannot be made again; ROLLBACK, and the opening fails.
StepRuns ==
  /\ begun.at # 0 /\ ~begun.made
  /\ IF Migrations[begun.at] \intersect schema = {}
     THEN begun' = [begun EXCEPT !.made = TRUE] /\ UNCHANGED db
     ELSE begun' = [at |-> 0, made |-> FALSE] /\ db' = "failed"
  /\ UNCHANGED <<release, schema, ledger, rowVars, opens, breaks>>

\* The ledger's entry, and COMMIT.
StepCommits ==
  /\ begun.made /\ begun' = [at |-> 0, made |-> FALSE]
  /\ schema' = schema \union Migrations[begun.at] /\ ledger' = ledger \union {begun.at}
  /\ UNCHANGED <<release, db, rowVars, opens, breaks>>

Migrated ==
  /\ db = "migrating" /\ Quiet /\ 1..release \subseteq ledger /\ db' = "open"
  /\ UNCHANGED <<release, schema, ledger, begun, rowVars, opens, breaks>>

\* A statement fails (a full disk): the step is rolled back and Core does not start.
StepFails ==
  /\ begun.at # 0 /\ breaks < MaxBreaks /\ breaks' = breaks + 1
  /\ begun' = [at |-> 0, made |-> FALSE] /\ db' = "failed"
  /\ UNCHANGED <<release, schema, ledger, rowVars, opens>>

(***************************************************************************)
(* Rows                                                                    *)
(***************************************************************************)
AtRest == db = "open" /\ cutting = <<>>

\* insertRun
RunInserted(r) ==
  /\ AtRest /\ runRows[r].is = "none" /\ r \notin told
  /\ runRows' = [runRows EXCEPT ![r] = [is |-> "open", old |-> FALSE]]
  /\ UNCHANGED <<schemaVars, told, tasksOf, cutting, leftover, opens, breaks>>

\* updateRun: a status and an end; what the patch does not have is left alone.
RunUpdated(r) ==
  /\ AtRest /\ runRows[r].is = "open" /\ runRows' = [runRows EXCEPT ![r].is = "over"]
  /\ UNCHANGED <<schemaVars, told, tasksOf, cutting, leftover, opens, breaks>>

\* addRunMessage
MessageAdded(r) ==
  /\ AtRest /\ runRows[r].is = "open" /\ told' = told \union {r}
  /\ UNCHANGED <<schemaVars, runRows, tasksOf, cutting, leftover, opens, breaks>>

\* What there is becomes old enough to be pruned.
TimePasses ==
  /\ AtRest /\ runRows' = [r \in Rows |-> [runRows[r] EXCEPT !.old = runRows[r].is # "none"]]
  /\ UNCHANGED <<schemaVars, told, tasksOf, cutting, leftover, opens, breaks>>

\* insertAutomation, with an id no row has.
TaskInserted(t) ==
  /\ AtRest /\ t \notin taskRows \union goneTasks \union {taskRuns[r] : r \in Rows}
  /\ taskRows' = taskRows \union {t}
  /\ UNCHANGED <<schemaVars, runRows, told, taskRuns, goneTasks, late, cutting, leftover, opens, breaks>>

\* insertAutomationRun. The caller read the automation, and then waited for the runtime
\* to start it: the row says nothing of whether there still is one.
TaskRunInserted(r, t) ==
  /\ AtRest /\ t \in taskRows \union goneTasks /\ taskRuns[r] = NoTask /\ taskRuns' = [taskRuns EXCEPT ![r] = t]
  /\ late' = IF t \in taskRows THEN late ELSE late \union {r}
  /\ UNCHANGED <<schemaVars, runRows, told, taskRows, goneTasks, cutting, leftover, opens, breaks>>

\* Broken form of TaskRunsDeleted: the automation goes first.
TaskGoesFirst(t) ==
  /\ AtRest /\ t \in taskRows /\ cutting' = <<t>> /\ taskRows' = taskRows \ {t}
  /\ UNCHANGED <<schemaVars, runRows, told, taskRuns, goneTasks, late, leftover, opens, breaks>>

\* deleteAutomation: the records of its runs, then its own row.
TaskRunsDeleted(t) ==
  /\ AtRest /\ t \in taskRows /\ cutting' = <<t>>
  /\ taskRuns' = [r \in Rows |-> IF taskRuns[r] = t THEN NoTask ELSE taskRuns[r]]
  /\ UNCHANGED <<schemaVars, runRows, told, taskRows, goneTasks, late, leftover, opens, breaks>>
TaskDeleted(t) ==
  /\ cutting = <<t>> /\ cutting' = <<>> /\ taskRows' = taskRows \ {t} /\ goneTasks' = goneTasks \union {t}
  /\ UNCHANGED <<schemaVars, runRows, told, taskRuns, late, leftover, opens, breaks>>

\* prune: the old runs that are over, then the messages of no run, then the old events.
RunsPruned ==
  /\ AtRest /\ cutting' = <<"messages", "events">>
  /\ runRows' = [r \in Rows |-> IF runRows[r].old /\ runRows[r].is = "over" THEN NoEntry ELSE runRows[r]]
  /\ UNCHANGED <<schemaVars, told, tasksOf, leftover, opens, breaks>>
MessagesPruned ==
  /\ cutting # <<>> /\ Head(cutting) = "messages" /\ cutting' = Tail(cutting)
  /\ told' = {r \in told : runRows[r].is # "none"} /\ leftover' = FALSE
  /\ UNCHANGED <<schemaVars, runRows, tasksOf, opens, breaks>>
EventsPruned ==
  /\ cutting = <<"events">> /\ cutting' = <<>>
  /\ UNCHANGED <<schemaVars, runRows, told, tasksOf, leftover, opens, breaks>>

\* Core stops, or dies between two statements.
StoreCloses ==
  /\ db # "closed" /\ db' = "closed" /\ cutting' = <<>> /\ begun' = [at |-> 0, made |-> FALSE]
  /\ IF cutting = <<>> /\ Quiet THEN UNCHANGED breaks ELSE breaks < MaxBreaks /\ breaks' = breaks + 1
  /\ leftover' = (leftover \/ (cutting # <<>> /\ Head(cutting) = "messages"))
  /\ goneTasks' = {} /\ UNCHANGED <<release, schema, ledger, runRows, told, taskRows, taskRuns, late, opens>>

StoreNext ==
  \/ \E v \in 1..Len(Migrations) : OpensStore(v)
  \/ \E i \in 1..Len(Migrations) : BeginsStep(i)
  \/ StepRuns \/ StepCommits \/ Migrated \/ StepFails
  \/ \E r \in Rows : RunInserted(r) \/ RunUpdated(r) \/ MessageAdded(r)
  \/ \E r \in Rows, t \in Tasks : TaskRunInserted(r, t)
  \/ \E t \in Tasks : TaskInserted(t) \/ TaskRunsDeleted(t) \/ TaskDeleted(t)
  \/ TimePasses \/ RunsPruned \/ MessagesPruned \/ EventsPruned \/ StoreCloses

StoreSpec == StoreInit /\ [][StoreNext]_storeVars

-----------------------------------------------------------------------------
(* Whatever cut an opening short, the schema is what the ledger says, and  *)
(* a step is never tried on what it has already made: only a statement     *)
(* that fails keeps Core from its store (migrate).                         *)
SchemaIsWhole ==
  /\ schema = UNION {Migrations[i] : i \in ledger}
  /\ db = "open" => 1..release \subseteq ledger
  /\ db = "failed" => breaks > 0

(* Retention takes no run that is under way and no message of one that is  *)
(* kept; the messages of one that is gone outlive it only when a prune was *)
(* cut short, and until the next (prune).                                  *)
NothingIsLeftOver ==
  \A r \in told : runRows[r].is = "none" => leftover \/ cutting # <<>>

(* A deletion, whole or cut short, leaves no record of the automation's    *)
(* runs: one of an automation there is no longer was written after it, by  *)
(* a caller that had read the automation before (deleteAutomation).        *)
RecordsHaveATask ==
  \A r \in Rows : taskRuns[r] # NoTask => taskRuns[r] \in taskRows \/ r \in late

(* No record is of an automation there is no longer (does not hold: one    *)
(* run by hand, or sighted, while it is removed; such a record stays).     *)
NoRecordIsStray == \A r \in Rows : taskRuns[r] # NoTask => taskRuns[r] \in taskRows
=============================================================================
