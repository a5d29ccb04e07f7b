----------------------------- MODULE Observing -----------------------------
(***************************************************************************)
(* What the desktop notices while its light is on, and what becomes of it: *)
(* the window observer (main/observer.js), the store its samples land in   *)
(* (packages/memory), the summarizer that turns them into memories and     *)
(* prunes them (main/summarizer.js).                                       *)
(*                                                                         *)
(* Everything happens on one thread, so what interleaves is what an await  *)
(* lets in: the light being switched while the operating system is asked   *)
(* for the front window, or while a model summarises.                      *)
(***************************************************************************)
EXTENDS Naturals, FiniteSets

CONSTANTS
  Rows,          \* row ids of the observations table
  MinBatch,      \* SUMMARIZE_MIN_OBSERVATIONS
  MaxLaunches    \* bound: how often fren is started again

ASSUME ObservingAssumption ==
  /\ IsFiniteSet(Rows) /\ Rows \subseteq Nat /\ MinBatch \in Nat \ {0} /\ MaxLaunches \in Nat

VARIABLES
  light,      \* state.observing; the observer's timer runs exactly then
  sample,     \* the tick in flight: "idle", "asked", "read"
  sawDark,    \* the window in hand was read while the light was off
  rows,       \* the observations: what each row of the table holds
  batch,      \* the rows of the summary under way; {} when not running
  covers,     \* history: how many memories a row went into
  launches    \* how often fren was started again

senses   == <<light, sample, sawDark>>
table    == <<rows, batch, covers>>
obsvVars == <<senses, table, launches>>

EmptyRow == [there |-> FALSE, dark |-> FALSE, done |-> FALSE, old |-> FALSE]

ObsvInit ==
  /\ light \in BOOLEAN
  /\ sample = "idle" /\ sawDark = FALSE
  /\ rows = [i \in Rows |-> EmptyRow] /\ batch = {} /\ covers = [i \in Rows |-> 0]
  /\ launches = 0

-----------------------------------------------------------------------------
(* The light: the chat window, the menu and fren's own business all end in *)
(* startObserving or stopObserving.                                        *)

Switch ==
  /\ light' = ~light
  /\ UNCHANGED <<sample, sawDark, table, launches>>

(* The observer's timer. `ticking` keeps ticks from overlapping; the read  *)
(* is a child process, so its answer tells of a later moment.              *)
Tick ==
  /\ light /\ sample = "idle"
  /\ sample' = "asked"
  /\ UNCHANGED <<light, sawDark, table, launches>>

FrontWindowRead ==
  /\ sample = "asked"
  /\ sample' = "read" /\ sawDark' = ~light
  /\ UNCHANGED <<light, table, launches>>

(* The id of a new row. SQLite gives the one after the last there is, so   *)
(* an id of the batch only once every row from it on was pruned while the  *)
(* summary is under way; that case is left out.                            *)
Free == {i \in Rows : ~rows[i].there /\ i \notin batch}
FirstOf(S) == CHOOSE i \in S : \A j \in S : i <= j

(* The tick ends: `if (!timer) return`, then fren's own windows are left   *)
(* out, then the row is written.                                           *)
MayRecord == light

Recorded ==
  /\ sample = "read" /\ sample' = "idle" /\ sawDark' = FALSE
  /\ \/ UNCHANGED <<rows, covers>>                        \* fren itself is in front
     \/ /\ MayRecord /\ Free # {}
        /\ rows' = [rows EXCEPT ![FirstOf(Free)] =
             [there |-> TRUE, dark |-> sawDark, done |-> FALSE, old |-> FALSE]]
        /\ covers' = [covers EXCEPT ![FirstOf(Free)] = 0]
  /\ UNCHANGED <<light, batch, launches>>

-----------------------------------------------------------------------------
(* The store and the summarizer.                                           *)

(* A row passes the retention cutoff.                                      *)
Ages(i) ==
  /\ rows[i].there /\ ~rows[i].old
  /\ rows' = [rows EXCEPT ![i].old = TRUE]
  /\ UNCHANGED <<senses, batch, covers, launches>>

(* runCleanup: memory.cleanup drops every row past the cutoff, summarised  *)
(* or not.                                                                 *)
Pruned    == [i \in Rows |-> IF rows[i].old THEN EmptyRow ELSE rows[i]]
Unsummed  == {i \in Rows : Pruned[i].there /\ ~Pruned[i].done}
(* Mutation of the next operator.                                          *)
RetentionByLight == rows' = IF light THEN Pruned ELSE rows

Retention == rows' = Pruned

(* The interval: retention always, a summary only with the light on.       *)
MaySummarize == light /\ batch = {} /\ Cardinality(Unsummed) >= MinBatch

Interval ==
  /\ Retention
  /\ batch' = IF MaySummarize THEN Unsummed ELSE batch
  /\ UNCHANGED <<senses, covers, launches>>

(* The model answered: addMemory, then markSummarized. The two statements  *)
(* follow each other without an await, but are two commits.                *)
Covered == [i \in Rows |-> IF i \in batch /\ covers[i] < 2 THEN covers[i] + 1 ELSE covers[i]]
(* Mutation of the next operator.                                          *)
MarksNothing == [i \in Rows |-> rows[i]]

Marked  == [i \in Rows |-> IF i \in batch /\ rows[i].there
                           THEN [rows[i] EXCEPT !.done = TRUE] ELSE rows[i]]

Summarised ==
  /\ batch # {}
  /\ covers' = Covered /\ rows' = Marked /\ batch' = {}
  /\ UNCHANGED <<senses, launches>>

SummaryFails ==
  /\ batch # {}
  /\ batch' = {}
  /\ UNCHANGED <<senses, rows, covers, launches>>

-----------------------------------------------------------------------------
(* fren is killed and started again: what is in memory goes, what SQLite   *)
(* committed stays, and summarizer.start cleans up at once. The kill may   *)
(* fall between the two commits of a summary.                              *)
Relaunch ==
  /\ launches < MaxLaunches /\ launches' = launches + 1
  /\ light' \in BOOLEAN /\ sample' = "idle" /\ sawDark' = FALSE
  /\ Retention /\ batch' = {}
  /\ covers' \in {covers, Covered}

ObsvNext ==
  \/ Switch \/ Tick \/ FrontWindowRead \/ Recorded
  \/ \E i \in Rows : Ages(i)
  \/ Interval \/ Summarised \/ SummaryFails
  \/ Relaunch

(* Timers of a running process fire, light or no light.                    *)
ObsvFair == WF_obsvVars(Interval)
ObsvSpec == ObsvInit /\ [][ObsvNext]_obsvVars /\ ObsvFair

-----------------------------------------------------------------------------
ObsvTypeOK ==
  /\ light \in BOOLEAN /\ sample \in {"idle", "asked", "read"} /\ sawDark \in BOOLEAN
  /\ rows \in [Rows -> [there : BOOLEAN, dark : BOOLEAN, done : BOOLEAN, old : BOOLEAN]]
  /\ batch \subseteq Rows /\ covers \in [Rows -> 0..2]
  /\ launches \in 0..MaxLaunches

(* Without a crash no observation is summarised twice, and none that was   *)
(* never sent to the model counts as summarised: what addMemory stored and *)
(* what markSummarized marked are the same rows (summarizer.js runOnce).   *)
SummedOnce ==
  \A i \in Rows : rows[i].there =>
    /\ rows[i].done => covers[i] >= 1
    /\ launches = 0 => covers[i] = IF rows[i].done THEN 1 ELSE 0

(* "Pausing observation or losing the gateway must never suspend the       *)
(* data-retention promise": whatever is past the cutoff goes, with the     *)
(* light on or off and whether or not a summary ever succeeds.             *)
OldGoes == \A i \in Rows : (rows[i].old ~> ~rows[i].old)

(* "stop() guarantees no further capture": no row holds a window that was  *)
(* read while the light was off.                                           *)
NothingFromTheDark == \A i \in Rows : ~rows[i].dark

=============================================================================
