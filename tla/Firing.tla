--------------------------------- MODULE Firing ---------------------------------
(***************************************************************************)
(* One automation and its runs (fren-core/automations.js, the second half; *)
(* the adapter's onFinding and landOnAutomation).  Whatever starts it, the *)
(* host's clock, the person's hand, a sighting on the desktop, or words    *)
(* that came without a run, there is a run in the runs table and a record  *)
(* in automation_runs, closed by whichever signal comes first.             *)
(***************************************************************************)
EXTENDS Naturals, FiniteSets, FiniteSetsExt

CONSTANTS
  MaxFires,   \* bound: runs of the automation
  MaxActs     \* bound: fires of the host, requests, sightings, switches, stops and crashes

ASSUME FiringBounds == MaxFires \in Nat \ {0} /\ MaxActs \in Nat

FireIds == 1..MaxFires
Outcomes == {"completed", "failed", "cancelled", "interrupted"}
NoRun == [adapter |-> "none", core |-> "none", kind |-> "none", rec |-> "none", words |-> FALSE, told |-> FALSE]

VARIABLES
  trigger,    \* schedule, at or event
  on, ref,    \* the automation: enabled, and the task its runtimeRef names (0: none)
  tasks,      \* the host: tasks that will fire (those made so far are 1..made)
  made,
  past,       \* of a one-off: its moment has come
  rows, byHand, \* the host: fires on its own, and by hand, FREN has no run for yet
  ready,      \* the runtime is ready, for the adapter and for Core
  cool,       \* lastRunAt is within the cooldown of a "whenever"
  foremost,   \* no other "whenever" that the same sightings start comes before it in the list
  looking,    \* onObservation, past reading the list, waits for the run of one that does
  taking,     \* onObservation waits for the runtime to take its run
  table,      \* the runs, in the adapter, in Core's table, and the record of each
  later,      \* closings Core does once the run service has recorded the end (setImmediate)
  lost,       \* runs of a life of Core that ended by a crash
  acts

auto == <<trigger, on, ref>>
sightings == <<foremost, looking, cool, taking>>
fireHost == <<tasks, made, past, rows, byHand>>
firingVars == <<auto, fireHost, ready, sightings, table, later, lost, acts>>

FiringTypeOK ==
  /\ trigger \in {"schedule", "at", "event"} /\ ref \in 0..MaxActs + 1 /\ made \in 0..MaxActs + 1
  /\ tasks \subseteq 1..made /\ {rows, byHand, looking, taking} \subseteq 0..MaxActs
  /\ {on, past, ready, cool, foremost} \subseteq BOOLEAN
  /\ table \in [FireIds -> [adapter : {"none", "open"} \union Outcomes, core : {"none", "running"} \union Outcomes,
                          kind : {"none", "schedule", "agent"}, rec : {"none", "started", "ok", "failed"},
                          words : BOOLEAN, told : BOOLEAN]]
  /\ later \subseteq FireIds /\ lost \subseteq FireIds /\ acts \in 0..MaxActs
  /\ trigger = "event" => made = 0

FiringInit ==
  /\ trigger \in {"schedule", "at", "event"} /\ on = TRUE /\ past = FALSE
  /\ made = (IF trigger = "event" THEN 0 ELSE 1) /\ tasks = 1..made /\ ref = made
  /\ rows = 0 /\ byHand = 0 /\ ready = TRUE /\ cool = FALSE /\ taking = 0
  /\ looking = 0 /\ foremost \in BOOLEAN /\ (trigger # "event" => foremost)
  /\ table = [r \in FireIds |-> NoRun] /\ later = {} /\ lost = {} /\ acts = 0

Act == acts < MaxActs /\ acts' = acts + 1
Unused == {r \in FireIds : table[r].kind = "none"}
NextRun == Min(Unused)
Running == {r \in FireIds : table[r].adapter = "open"}
OnSurface == {r \in Running : table[r].kind = "schedule"}    \* the runs that know their automation

(***************************************************************************)
(* Opening and closing                                                     *)
(***************************************************************************)

\* adopt and recordStart, of a run the adapter opened or started.
Opened(kind) == [NoRun EXCEPT !.adapter = "open", !.core = "running", !.kind = kind, !.rec = "started"]

\* Closes the record for a run, once, from whichever signal comes first.
CloseRecord(x, ok) ==
  IF x.rec = "started" THEN [x EXCEPT !.rec = IF ok THEN "ok" ELSE "failed", !.told = x.words] ELSE x

\* The adapter's finishRun: the run service hears of the end, and of a scheduled
\* run the schedule's end follows at once; any other is closed a moment later.
RunEnded(x, how) ==
  LET y == [x EXCEPT !.adapter = how, !.core = IF @ = "running" THEN how ELSE @]
  IN IF x.kind = "schedule" THEN CloseRecord(y, how = "completed") ELSE y

\* A moment comes once: after it the automation is done and off.
OneOffDone(done) ==
  IF trigger = "at" /\ on /\ done THEN on' = FALSE /\ ref' = 0 ELSE UNCHANGED <<on, ref>>

\* Runs E end, each in its way.
RunsEnd(E, how, t) ==
  /\ table' = [r \in FireIds |-> IF r \in E THEN RunEnded(t[r], how) ELSE t[r]]
  /\ later' = later \union {r \in E : t[r].kind = "agent"}
  /\ OneOffDone(\E r \in E : t[r].kind = "schedule" /\ t[r].rec = "started")
  /\ UNCHANGED trigger

\* The moment later: the record follows the run's row.
FollowsRow(r) == CloseRecord(table[r], table[r].core = "completed")
Later(r) ==
  /\ r \in later /\ later' = later \ {r} /\ table' = [table EXCEPT ![r] = FollowsRow(r)]
  /\ OneOffDone(table[r].rec = "started")
  /\ UNCHANGED <<trigger, fireHost, ready, sightings, lost, acts>>

(***************************************************************************)
(* What starts it                                                          *)
(***************************************************************************)
MomentPasses ==
  /\ trigger = "at" /\ ~past /\ past' = TRUE
  /\ UNCHANGED <<auto, tasks, made, rows, byHand, ready, sightings, table, later, lost, acts>>

HostFires(t) ==
  /\ Act /\ ready /\ t \in tasks /\ (trigger = "at" => past)
  /\ rows' = rows + 1 /\ tasks' = IF trigger = "at" THEN tasks \ {t} ELSE tasks
  /\ UNCHANGED <<auto, made, past, byHand, ready, sightings, table, later, lost>>

\* The watch's reading: the fire becomes a run, and Core adopts it.
WatchFinds ==
  /\ ready /\ rows > 0 /\ Unused # {} /\ rows' = rows - 1
  /\ table' = [table EXCEPT ![NextRun] = Opened("schedule")]
  /\ UNCHANGED <<auto, tasks, made, past, byHand, ready, sightings, later, lost, acts>>

\* runNow of an automation the runtime has: its clock is asked to fire.
RunNow ==
  /\ Act /\ ready /\ ref # 0 /\ byHand' = byHand + 1
  /\ UNCHANGED <<auto, tasks, made, past, rows, ready, sightings, table, later, lost>>

\* The request has returned: the run, adopted, and by hand in the record.
Triggered ==
  /\ ready /\ byHand > 0 /\ Unused # {} /\ byHand' = byHand - 1
  /\ table' = [table EXCEPT ![NextRun] = Opened("schedule")]
  /\ UNCHANGED <<auto, tasks, made, past, rows, ready, sightings, later, lost, acts>>

\* runNow of one it does not have: an agent run with the instruction.
RunNowHere ==
  /\ Act /\ ready /\ ref = 0 /\ Unused # {} /\ table' = [table EXCEPT ![NextRun] = Opened("agent")]
  /\ cool' = (trigger = "event")
  /\ UNCHANGED <<auto, fireHost, ready, foremost, looking, taking, later, lost>>

\* Broken form of Sighting: the time is noted when the run was taken.
SightingUnnoted ==
  /\ Act /\ trigger = "event" /\ on /\ ready /\ ~cool /\ taking < 2
  /\ taking' = taking + 1
  /\ UNCHANGED <<auto, fireHost, ready, foremost, looking, cool, table, later, lost>>

\* The automation is reached with no wait since the list was read, so what the list
\* says of it holds. The time of the last run is noted before the wait for the runtime.
Sighting ==
  /\ Act /\ trigger = "event" /\ on /\ ready /\ ~cool
  /\ taking' = taking + 1 /\ cool' = TRUE
  /\ UNCHANGED <<auto, fireHost, ready, foremost, looking, table, later, lost>>

\* The list is read, and the run of an automation before it is waited for ...
Looks ==
  /\ Act /\ ~foremost /\ trigger = "event" /\ on /\ ready /\ ~cool
  /\ looking' = looking + 1
  /\ UNCHANGED <<auto, fireHost, ready, foremost, cool, taking, table, later, lost>>

\* ... and then it is what the list said: on, and out of its cooldown. Only the
\* runtime is looked at again.
LooksOn ==
  /\ looking > 0 /\ looking' = looking - 1
  /\ IF ready THEN taking' = taking + 1 /\ cool' = TRUE ELSE UNCHANGED <<taking, cool>>
  /\ UNCHANGED <<auto, fireHost, ready, foremost, table, later, lost, acts>>

\* The runtime takes the run and it is recorded, or refuses it.
SightingStarts ==
  /\ taking > 0 /\ taking' = taking - 1
  /\ \/ ready /\ Unused # {} /\ table' = [table EXCEPT ![NextRun] = Opened("agent")] /\ cool' = TRUE
     \/ ~ready /\ UNCHANGED <<table, cool>>
  /\ UNCHANGED <<auto, fireHost, ready, foremost, looking, later, lost, acts>>

CooldownEnds ==
  /\ Act /\ cool /\ cool' = FALSE /\ taking = 0
  /\ UNCHANGED <<auto, fireHost, ready, foremost, looking, taking, table, later, lost>>

(***************************************************************************)
(* Words and ends                                                          *)
(***************************************************************************)
\* Words sent to the surface land on the first run open there.
Landed(t) == LET S == {r \in FireIds : t[r].adapter = "open" /\ t[r].kind = "schedule"}
             IN [t EXCEPT ![Min(S)].words = TRUE]
WordsCome ==
  /\ ready /\ OnSurface # {} /\ table' = Landed(table)
  /\ UNCHANGED <<auto, fireHost, ready, sightings, later, lost, acts>>

\* None is open and the host has fired: the list is read before giving up on one.
WordsFindRow ==
  /\ ready /\ OnSurface = {} /\ rows > 0 /\ Unused # {} /\ rows' = rows - 1
  /\ table' = Landed([table EXCEPT ![NextRun] = Opened("schedule")])
  /\ UNCHANGED <<auto, tasks, made, past, byHand, ready, sightings, later, lost, acts>>

\* None is open, and the list shows none (a run by hand, its request still under
\* way): a result without a run is made one, opened and closed in a breath.
WordsWithoutRun ==
  /\ ready /\ OnSurface = {} /\ rows = 0 /\ byHand > 0 /\ Unused # {}
  /\ table' = [table EXCEPT ![NextRun] =
                [NoRun EXCEPT !.core = "completed", !.kind = "schedule", !.rec = "ok", !.words = TRUE, !.told = TRUE]]
  /\ OneOffDone(TRUE)
  /\ UNCHANGED <<trigger, fireHost, ready, sightings, later, lost, acts>>

\* What an agent run says comes on its own thread.
AgentSpeaks(r) ==
  /\ ready /\ r \in Running /\ table[r].kind = "agent" /\ table' = [table EXCEPT ![r].words = TRUE]
  /\ UNCHANGED <<auto, fireHost, ready, sightings, later, lost, acts>>

ReplyComes(r, how) ==
  /\ ready /\ r \in Running /\ RunsEnd({r}, how, table)
  /\ UNCHANGED <<fireHost, ready, sightings, lost, acts>>

\* Core's timeout: the row fails first, then the runtime is told to let go.
RunTimesOut(r) ==
  /\ Act /\ r \in Running /\ table[r].core = "running"
  /\ RunsEnd({r}, "cancelled", [table EXCEPT ![r].core = "failed"])
  /\ UNCHANGED <<fireHost, ready, sightings, lost>>

CancelRun(r) ==
  /\ Act /\ r \in Running /\ RunsEnd({r}, "cancelled", table)
  /\ UNCHANGED <<fireHost, ready, sightings, lost>>

\* stopRuntime: the rows are interrupted, then the adapter ends what it has; a request
\* under way fails. What the host fired is still in its list when it is back.
StopFiring ==
  /\ Act /\ ready /\ ready' = FALSE /\ RunsEnd(Running, "interrupted", table)
  /\ byHand' = 0 /\ UNCHANGED <<tasks, made, past, rows, sightings, lost>>

(***************************************************************************)
(* The person's switch, and the runtime's return                           *)
(***************************************************************************)
\* sync: a one-off whose moment passed is done; a task the host does not have is made.
Synced(b) ==
  IF trigger = "event" \/ ~ready' THEN on' = b /\ UNCHANGED <<ref, tasks, made>>
  ELSE IF trigger = "at" /\ past THEN on' = FALSE /\ ref' = (IF b THEN 0 ELSE ref) /\ UNCHANGED <<tasks, made>>
  ELSE LET t == IF ref = 0 THEN made + 1 ELSE ref
       IN /\ on' = b /\ ref' = t /\ made' = (IF ref = 0 THEN t ELSE made)
          /\ tasks' = IF b THEN tasks \union {t} ELSE tasks \ {t}

Switch(b) ==
  /\ Act /\ b # on /\ UNCHANGED ready /\ Synced(b)
  /\ UNCHANGED <<trigger, past, rows, byHand, sightings, table, later, lost>>

\* The runtime is back, in this life of Core or in the next.
Returns ==
  /\ Act /\ ~ready /\ ready' = TRUE /\ Synced(on)
  /\ UNCHANGED <<trigger, past, rows, byHand, sightings, table, later, lost>>

\* Core dies and boots: recover closes the rows; nothing recovers the records.
CrashFiring ==
  /\ Act /\ ready' = FALSE /\ byHand' = 0 /\ looking' = 0 /\ taking' = 0 /\ later' = {}
  /\ lost' = {r \in FireIds : table[r].kind # "none"}
  /\ table' = [r \in FireIds |->
       [table[r] EXCEPT !.adapter = IF @ = "open" THEN "interrupted" ELSE @,
                        !.core = IF @ = "running" THEN "interrupted" ELSE @]]
  /\ UNCHANGED <<auto, tasks, made, past, rows, foremost, cool>>

FiringNext ==
  \/ MomentPasses \/ WatchFinds \/ RunNow \/ Triggered \/ RunNowHere \/ Sighting \/ Looks \/ LooksOn
  \/ SightingStarts \/ CooldownEnds \/ WordsCome \/ WordsFindRow \/ WordsWithoutRun \/ StopFiring \/ Returns \/ CrashFiring
  \/ \E t \in tasks : HostFires(t)
  \/ \E r \in FireIds : Later(r) \/ AgentSpeaks(r) \/ RunTimesOut(r) \/ CancelRun(r)
  \/ \E r \in FireIds, how \in {"completed", "failed"} : ReplyComes(r, how)
  \/ \E b \in BOOLEAN : Switch(b)

FiringSpec == FiringInit /\ [][FiringNext]_firingVars

(***************************************************************************)
(* Properties                                                              *)
(***************************************************************************)

\* The history tells what happened: a record says "ok" of a run that completed and
\* of no other, whichever of the two signals, a timeout, a cancel or a stop came
\* first (automations.js finishRun, run service finish).
RecordsAreTrue == \A r \in FireIds : /\ table[r].rec = "ok" => table[r].core = "completed"
                                   /\ table[r].rec = "failed" => table[r].core \in Outcomes \ {"completed"}

\* While Core lives no record is left open: its run is still open in the runtime,
\* or its closing is on its way.
OpenRecordsLive ==
  \A r \in FireIds \ lost : table[r].rec = "started" => (table[r].adapter = "open" \/ r \in later)

\* A run is not started while one is being taken or is within the cooldown, by an
\* automation that no other comes before; by any, what is being taken is noted
\* (onObservation).
OneSighting == taking > 0 => cool /\ (foremost => taking = 1)

\* An automation "runs once per sighting, with a cooldown so a window that stays in
\* front is one sighting and not one every tick" (automations.js:374-375). Violated:
\* the list one observation has read goes stale while it waits for the run of an
\* automation before this one, and the next observation starts this one meanwhile.
OncePerSighting == taking > 0 => taking = 1

\* What is off does not run (does not hold: a one-off started by hand is switched
\* off when that run ends, its task stays with the host and fires at its moment).
OffStaysQuiet == (trigger = "at" /\ ~on /\ tasks # {}) => \A t \in tasks : t = ref

\* However Core ended, every record is closed in the end (does not hold: nothing
\* recovers automation_runs).
NoRecordIsLost == \A r \in lost : table[r].rec # "started"
=================================================================================
