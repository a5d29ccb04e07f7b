---------------------------------- MODULE Mock ----------------------------------
(***************************************************************************)
(* The mock runtime (runtime-mock/index.js): a runtime that runs nothing,  *)
(* with everything else a runtime has: turns that take a moment, questions,*)
(* schedules that fire, fail, and are given up on.                         *)
(***************************************************************************)
EXTENDS Naturals, FiniteSets

CONSTANTS Ids, Schedules, NoSchedule, PauseAfter

ASSUME MockBounds == NoSchedule \notin Schedules /\ PauseAfter \in Nat \ {0}

VARIABLES
  mode,       \* "stopped", "ready"
  status,     \* of the runs
  delivered,       \* the runs that delivered their message
  asks,       \* pendingAsks, by run
  begins,     \* the runs whose setImmediate is still to come
  turns,      \* the runs whose timer is armed, and how their turn ends
  plan,       \* the schedules: enabled, due, fired and failed in a row
  firing      \* run -> the schedule whose listener waits for it

mockVars == <<mode, status, delivered, asks, begins, turns, plan, firing>>

Terminal == {"completed", "failed", "cancelled", "interrupted"}
Open == {"queued", "running"}
OpenRuns == {r \in Ids : status[r] \in Open}

MockTypeOK ==
  /\ mode \in {"stopped", "ready"} /\ status \in [Ids -> {"none"} \union Open \union Terminal]
  /\ delivered \subseteq Ids /\ asks \subseteq Ids /\ begins \subseteq Ids
  /\ turns \subseteq Ids \X {"completed", "failed"}
  /\ plan \in [Schedules -> [there : BOOLEAN, on : BOOLEAN, due : BOOLEAN, streak : 0..PauseAfter]]
  /\ firing \in [Ids -> Schedules \union {NoSchedule}]

MockInit ==
  /\ mode = "stopped" /\ status = [r \in Ids |-> "none"]
  /\ delivered = {} /\ asks = {} /\ begins = {} /\ turns = {}
  /\ plan = [k \in Schedules |-> [there |-> FALSE, on |-> FALSE, due |-> FALSE, streak |-> 0]]
  /\ firing = [r \in Ids |-> NoSchedule]

\* The listener of a fire counts, and never gives up.
CountsOnly(p, good) == [p EXCEPT !.streak = IF good THEN 0 ELSE IF @ = PauseAfter THEN @ ELSE @ + 1]

\* The listener of a fire: failures in a row, and giving up.
Counts(p, good) ==
  LET streak == IF good THEN 0 ELSE IF p.streak = PauseAfter THEN PauseAfter ELSE p.streak + 1
      gone   == p.on /\ streak = PauseAfter
  IN  [p EXCEPT !.streak = streak, !.on = @ /\ ~gone, !.due = @ /\ ~gone]

\* finish(), of runs that are open: their timers, their schedules.
Finish(R, how) ==
  /\ status' = [r \in Ids |-> IF r \in R THEN how ELSE status[r]]
  /\ turns' = {t \in turns : t[1] \notin R}
  /\ firing' = [r \in Ids |-> IF r \in R THEN NoSchedule ELSE firing[r]]
  /\ plan' = [k \in Schedules |-> IF plan[k].there /\ \E r \in R : firing[r] = k
                                  THEN Counts(plan[k], how = "completed") ELSE plan[k]]

StartMock ==
  /\ mode = "stopped" /\ mode' = "ready"
  /\ UNCHANGED <<status, delivered, asks, begins, turns, plan, firing>>

StopMock ==
  /\ mode = "ready" /\ mode' = "stopped"
  /\ Finish(OpenRuns, "interrupted") /\ asks' = {} /\ UNCHANGED <<delivered, begins>>

\* sendMessage, runAgent: accepted at once, begun a moment later.
SendMessage(r) ==
  /\ mode = "ready" /\ status[r] = "none"
  /\ status' = [status EXCEPT ![r] = "queued"] /\ begins' = begins \union {r}
  /\ UNCHANGED <<mode, delivered, asks, turns, plan, firing>>

\* fire(): a run for the schedule, and a listener for its end.
Fires(k, r) ==
  /\ status[r] = "none" /\ begins' = begins \union {r}
  /\ status' = [status EXCEPT ![r] = "queued"] /\ firing' = [firing EXCEPT ![r] = k]
Trigger(k, r) ==
  /\ mode = "ready" /\ plan[k].there /\ Fires(k, r)
  /\ UNCHANGED <<mode, delivered, asks, turns, plan>>
MockTick(k, r) ==
  /\ plan[k].there /\ plan[k].on /\ plan[k].due /\ Fires(k, r)
  /\ UNCHANGED <<mode, delivered, asks, turns, plan>>

\* begin(): whatever became of the run since it was accepted.
BeginTurn(r) ==
  /\ r \in begins /\ begins' = begins \ {r}
  /\ status' = [status EXCEPT ![r] = "running"]
  /\ \/ asks' = asks \union {r} /\ UNCHANGED turns
     \/ \E how \in {"completed", "failed"} : turns' = turns \union {<<r, how>>} /\ UNCHANGED asks
  /\ UNCHANGED <<mode, delivered, plan, firing>>

\* The timer: a turn that is over already does nothing.
TurnEnds(t) ==
  /\ t \in turns
  /\ Finish({t[1]} \intersect OpenRuns, t[2])
  /\ delivered' = IF t[1] \in OpenRuns /\ t[2] = "completed" THEN delivered \union {t[1]} ELSE delivered
  /\ UNCHANGED <<mode, asks, begins>>

\* cancelRun that leaves the question behind.
CancelsOnly(r) ==
  /\ status[r] \in Open /\ Finish({r}, "cancelled")
  /\ UNCHANGED <<mode, delivered, asks, begins>>

CancelMock(r) ==
  /\ status[r] \in Open /\ Finish({r}, "cancelled") /\ asks' = asks \ {r}
  /\ UNCHANGED <<mode, delivered, begins>>

\* Either answer ends in a message.
Resolve(r) ==
  /\ r \in asks /\ asks' = asks \ {r}
  /\ turns' = IF status[r] \in Open THEN turns \union {<<r, "completed">>} ELSE turns
  /\ UNCHANGED <<mode, status, delivered, begins, plan, firing>>

PlanChanges(k) ==
  /\ UNCHANGED <<mode, status, delivered, asks, begins, turns, firing>>
  /\ \/ /\ mode = "ready" /\ ~plan[k].there
        /\ plan' = [plan EXCEPT ![k] = [there |-> TRUE, on |-> TRUE, due |-> TRUE, streak |-> 0]]
     \/ /\ plan[k].there /\ plan' = [plan EXCEPT ![k].on = FALSE]
     \/ /\ plan[k].there /\ plan' = [plan EXCEPT ![k] = [@ EXCEPT !.on = TRUE, !.due = TRUE, !.streak = 0]]
     \/ /\ plan[k].there
        /\ plan' = [plan EXCEPT ![k] = [there |-> FALSE, on |-> FALSE, due |-> FALSE, streak |-> 0]]

MockNext ==
  \/ StartMock \/ StopMock
  \/ \E r \in Ids : SendMessage(r) \/ BeginTurn(r) \/ CancelMock(r) \/ Resolve(r)
  \/ \E t \in turns : TurnEnds(t)
  \/ \E k \in Schedules : PlanChanges(k) \/ \E r \in Ids : Trigger(k, r) \/ MockTick(k, r)

MockSpec == MockInit /\ [][MockNext]_mockVars

(***************************************************************************)
(* Properties                                                              *)
(***************************************************************************)

\* A question is open only while its run is: "not done while asking", and a late
\* answer finds nothing (contract.js:262-279).
AskedIsRunning == \A r \in asks : status[r] = "running" /\ \A t \in turns : t[1] # r

\* "enough failures in a row and the runtime gives up": however many runs of it are
\* under way, and whoever switched it on in between.
GivesUpOnTime == \A k \in Schedules : plan[k].on => plan[k].streak < PauseAfter
=================================================================================
