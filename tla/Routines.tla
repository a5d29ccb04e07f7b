------------------------------ MODULE Routines ------------------------------
(***************************************************************************)
(* Routines: a question the person wants asked at a time of day, answered  *)
(* from what fren observed (main/routines.js, and the chat's handlers for  *)
(* them in main/index.js). A tick of the runner asks once whether the      *)
(* light is on, reads once which routines are due, and works the list off  *)
(* one answer at a time; everything else on the thread goes on meanwhile.  *)
(***************************************************************************)
EXTENDS Naturals, FiniteSets

CONSTANTS
  Routines,       \* the routines the person has set up
  MaxKills        \* bound: how often fren is killed and started again

ASSUME RoutinesAssumption == MaxKills \in Nat

VARIABLES
  lamp,       \* state.observing
  plan,       \* the routines: is it on, where in its day, already run
  queue,      \* what one tick of the runner found due, still to run
  doing,      \* the routine being answered: {} or one
  asked,      \* history: how often a routine ran since it last fell due
  inTheDark,  \* history: a routine was started while the light was off
  kills

rtnVars == <<lamp, plan, queue, doing, asked, inTheDark, kills>>

RtnInit ==
  /\ lamp \in BOOLEAN
  /\ plan = [r \in Routines |-> [on |-> TRUE, time |-> "early", ran |-> FALSE]]
  /\ queue = {} /\ doing = {} /\ asked = [r \in Routines |-> 0]
  /\ inTheDark = FALSE /\ kills = 0

LampSwitched ==
  /\ lamp' = ~lamp
  /\ UNCHANGED <<plan, queue, doing, asked, inTheDark, kills>>

Due(r) == plan[r].on /\ plan[r].time = "due" /\ ~plan[r].ran

(* isDue: not before its time, not after the grace window, not twice.  A   *)
(* tick's list is worked off in minutes, so the next day does not find it  *)
(* unfinished.                                                             *)
TimePasses(r) ==
  /\ plan[r].time = "late" => r \notin queue \cup doing
  /\ plan' = [plan EXCEPT ![r] =
       CASE @.time = "early" -> [@ EXCEPT !.time = "due"]
         [] @.time = "due"   -> [@ EXCEPT !.time = "late"]
         [] @.time = "late"  -> [@ EXCEPT !.time = "early", !.ran = FALSE]]
  /\ asked' = [asked EXCEPT ![r] = IF plan[r].time = "late" THEN 0 ELSE @]
  /\ UNCHANGED <<lamp, queue, doing, inTheDark, kills>>

(* Pause, resume or delete from the chat.                                  *)
RoutineSet(r) ==
  /\ plan' = [plan EXCEPT ![r].on = ~@]
  /\ UNCHANGED <<lamp, queue, doing, asked, inTheDark, kills>>

(* One tick of the runner: the light is asked once, and the list of what   *)
(* is due is read once.                                                    *)
RunnerTick ==
  /\ queue = {} /\ doing = {} /\ lamp
  /\ queue' = {r \in Routines : Due(r)}
  /\ UNCHANGED <<lamp, plan, doing, asked, inTheDark, kills>>

(* The next of the list. It is marked before it runs, so that one which    *)
(* fails is not tried again every thirty seconds.                          *)
(* Mutation of the next operator.                                          *)
StartsUnmarked(r) == plan' = plan

Starts(r) == plan' = [plan EXCEPT ![r].ran = TRUE]

RunsNext(r) ==
  /\ doing = {} /\ r \in queue
  /\ Starts(r)
  /\ doing' = {r} /\ queue' = queue \ {r}
  /\ asked' = [asked EXCEPT ![r] = IF @ < 2 THEN @ + 1 ELSE @]
  /\ inTheDark' = (inTheDark \/ ~lamp)
  /\ UNCHANGED <<lamp, kills>>

(* The answer arrived and is shown, or it failed: the loop goes on.        *)
RoutineEnds(r) ==
  /\ doing = {r}
  /\ doing' = {}
  /\ UNCHANGED <<lamp, plan, queue, asked, inTheDark, kills>>

(* fren is killed and started again: `busy` and the list go, lastRun stays. *)
Killed ==
  /\ kills < MaxKills /\ kills' = kills + 1
  /\ lamp' \in BOOLEAN /\ queue' = {} /\ doing' = {}
  /\ UNCHANGED <<plan, asked, inTheDark>>

RtnNext ==
  \/ LampSwitched \/ RunnerTick \/ Killed
  \/ \E r \in Routines : TimePasses(r) \/ RoutineSet(r) \/ RunsNext(r) \/ RoutineEnds(r)

RtnSpec == RtnInit /\ [][RtnNext]_rtnVars

-----------------------------------------------------------------------------
RtnTypeOK ==
  /\ lamp \in BOOLEAN
  /\ plan \in [Routines -> [on : BOOLEAN, time : {"early", "due", "late"}, ran : BOOLEAN]]
  /\ queue \subseteq Routines
  /\ doing \in {{}} \cup {{r} : r \in Routines}
  /\ asked \in [Routines -> 0..2] /\ inTheDark \in BOOLEAN /\ kills \in 0..MaxKills

(* A routine runs at most once each time it falls due, over failures,      *)
(* pauses and restarts (routines.js isDue and the mark before the run).    *)
OncePerDue == \A r \in Routines : asked[r] <= 1

(* Why: while a routine waits in the list it has not run for this day, and *)
(* once it has run it is marked.                                           *)
RunIsMarked ==
  \A r \in Routines : /\ asked[r] = 0 \/ plan[r].ran
                      /\ r \in queue => ~plan[r].ran
                      /\ r \in queue => r \notin doing

(* "Nothing runs while fren is paused": no routine is started with the     *)
(* light off.                                                              *)
RestsInTheDark == ~inTheDark

=============================================================================
