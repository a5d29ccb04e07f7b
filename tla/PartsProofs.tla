---------------------------- MODULE PartsProofs ----------------------------
(***************************************************************************)
(* What is proved of the parts of MCCore that CoreProofs does not treat:   *)
(* the agent's tools, the mock runtime, what a start of the runtime makes, *)
(* the records of an automation's runs, the life of the runtime and the    *)
(* gateway; and that every variable of all of them is of its kind.         *)
(***************************************************************************)
EXTENDS CoreProofs, WellFoundedInduction

(* A set of numbers that is not empty has a least.                         *)
LEMMA LeastOf ==
  ASSUME NEW S, S \subseteq Nat, S # {}
  PROVE  \E x \in S : \A y \in S : x <= y
<1>1. \E x \in S : \A y \in S : ~ (<<y, x>> \in OpToRel(<, Nat))
  BY NatLessThanWellFounded, WFMin
<1>2. PICK x \in S : \A y \in S : ~ (<<y, x>> \in OpToRel(<, Nat))
  BY <1>1
<1>3. ASSUME NEW y \in S, y < x PROVE FALSE
  <2>1. <<y, x>> \in OpToRel(<, Nat)
    BY <1>3, Zenon DEF OpToRel
  <2> QED
    BY <1>2, <2>1
<1>4. x \in Nat /\ \A y \in S : y \in Nat
  OBVIOUS
<1>5. \A y \in S : x <= y
  BY <1>3, <1>4
<1> QED
  BY <1>5

(***************************************************************************)
(* The agent's tools                                                       *)
(***************************************************************************)
(* What is on its way back is no private page.                             *)
ToolInv == ToolTypeOK /\ OneHonestAnswer /\ \A a \in posted : a.page \notin Hidden

LEMMA ToolStarts == ToolInit => ToolInv
<1> SUFFICES ASSUME ToolInit PROVE ToolInv
  OBVIOUS
<1> USE AgentToolsAssumption
<1>1. /\ page \in Pages \cup {Absent} /\ named \in Pages \cup {Absent}
      /\ callOf \in [Calls -> {"new", "asking", "waiting", "done"}]
      /\ question \in [Calls -> Pages \cup {Absent}] /\ result \in [Calls -> Pages \cup {Absent}]
      /\ requested \subseteq Calls /\ times \in [Calls -> 0..2] /\ posted = {}
  BY DEF ToolInit
<1>2. always \in BOOLEAN
  BY Zenon DEF ToolInit
<1>3. OneHonestAnswer
  BY DEF ToolInit, OneHonestAnswer
<1> QED
  BY <1>1, <1>2, <1>3 DEF ToolInv, ToolTypeOK

(* One answer, with a page the agent may see or none, ends a call once.    *)
LEMMA AnswerKeeps ==
  ASSUME ToolInv, NEW c \in Calls, NEW p \in (Pages \cup {Absent}) \ Hidden, callOf[c] # "done", CallEnds(c, p)
  PROVE  /\ callOf' \in [Calls -> {"new", "asking", "waiting", "done"}]
         /\ result' \in [Calls -> Pages \cup {Absent}] /\ times' \in [Calls -> 0..2]
         /\ OneHonestAnswer'
<1>1. times[c] = 0
  BY DEF ToolInv, OneHonestAnswer
<1>2. /\ callOf' = [callOf EXCEPT ![c] = "done"] /\ result' = [result EXCEPT ![c] = p]
      /\ times' = [times EXCEPT ![c] = 1]
  BY <1>1 DEF CallEnds
<1>3. /\ callOf' \in [Calls -> {"new", "asking", "waiting", "done"}]
      /\ result' \in [Calls -> Pages \cup {Absent}] /\ times' \in [Calls -> 0..2]
  BY <1>2 DEF ToolInv, ToolTypeOK
<1>4. \A d \in Calls : d # c => callOf'[d] = callOf[d] /\ result'[d] = result[d] /\ times'[d] = times[d]
  BY <1>2 DEF ToolInv, ToolTypeOK
<1>5. callOf'[c] = "done" /\ result'[c] = p /\ times'[c] = 1
  BY <1>2 DEF ToolInv, ToolTypeOK
<1>6. OneHonestAnswer'
  BY <1>4, <1>5 DEF ToolInv, OneHonestAnswer
<1> QED
  BY <1>3, <1>6

LEMMA ToolKeeps == ToolInv /\ ToolNext => ToolInv'
<1> SUFFICES ASSUME ToolInv, ToolNext PROVE ToolInv'
  OBVIOUS
<1> USE AgentToolsAssumption
<1>0. Absent \in (Pages \cup {Absent}) \ Hidden
  OBVIOUS
<1>1. CASE Browse \/ PageNoticed
  BY <1>1 DEF Browse, PageNoticed, ToolInv, ToolTypeOK, OneHonestAnswer
<1>2. ASSUME NEW c \in Calls, Call(c) \/ Approve(c) PROVE ToolInv'
  <2>1. /\ callOf' = [callOf EXCEPT ![c] = "waiting"] \/ callOf' = [callOf EXCEPT ![c] = "asking"]
        /\ callOf[c] # "done"
        /\ question' = question \/ question' = [question EXCEPT ![c] = named]
        /\ requested' \in {requested, requested \cup {c}}
        /\ UNCHANGED <<page, named, posted, result, times>>
    BY <1>2 DEF Call, Approve, Requests
  <2>2. always' \in BOOLEAN
    BY <1>2, Zenon DEF Call, Approve, ToolInv, ToolTypeOK
  <2>3. /\ callOf' \in [Calls -> {"new", "asking", "waiting", "done"}]
        /\ question' \in [Calls -> Pages \cup {Absent}] /\ requested' \subseteq Calls
    BY <2>1 DEF ToolInv, ToolTypeOK
  <2>4. \A d \in Calls : callOf'[d] = "done" <=> callOf[d] = "done"
    BY <2>1 DEF ToolInv, ToolTypeOK
  <2>5. OneHonestAnswer'
    BY <2>1, <2>4 DEF ToolInv, OneHonestAnswer
  <2> QED
    BY <2>1, <2>2, <2>3, <2>5 DEF ToolInv, ToolTypeOK
<1>3. ASSUME NEW c \in Calls, Refuse(c) \/ TimesOut(c) PROVE ToolInv'
  <2>1. /\ callOf[c] # "done" /\ CallEnds(c, Absent)
        /\ UNCHANGED <<page, named, always, question, requested, posted>>
    BY <1>3 DEF Refuse, TimesOut
  <2> QED
    BY <1>0, <2>1, AnswerKeeps DEF ToolInv, ToolTypeOK
<1>4. ASSUME NEW c \in Calls, Respond(c) PROVE ToolInv'
  <2>1. /\ posted' = posted \cup {[of |-> c, page |-> Shown]} /\ requested' \subseteq requested
        /\ UNCHANGED <<page, named, always, callOf, question, result, times>>
    BY <1>4 DEF Respond
  <2>2. Shown \in (Pages \cup {Absent}) \ Hidden
    BY DEF Shown, ToolInv, ToolTypeOK
  <2>3. \A a \in posted' : a.of \in Calls /\ a.page \in Pages \cup {Absent} /\ a.page \notin Hidden
    BY <2>1, <2>2 DEF ToolInv, ToolTypeOK
  <2> QED
    BY <2>1, <2>3 DEF ToolInv, ToolTypeOK, OneHonestAnswer
<1>5. ASSUME NEW a \in posted, Fulfil(a) PROVE ToolInv'
  <2>1. a.of \in Calls /\ a.page \in (Pages \cup {Absent}) \ Hidden
    BY DEF ToolInv, ToolTypeOK
  <2>2. posted' \subseteq posted /\ UNCHANGED <<page, named, always, question, requested>>
    BY <1>5 DEF Fulfil
  <2>3. CASE Waits(a.of)
    <3>1. callOf[a.of] # "done" /\ CallEnds(a.of, a.page)
      BY <1>5, <2>3 DEF Fulfil, Waits
    <3> QED
      BY <2>1, <2>2, <3>1, AnswerKeeps DEF ToolInv, ToolTypeOK
  <2>4. CASE ~Waits(a.of)
    BY <1>5, <2>2, <2>4 DEF Fulfil, ToolInv, ToolTypeOK, OneHonestAnswer
  <2> QED
    BY <2>3, <2>4
<1> QED
  BY <1>1, <1>2, <1>3, <1>4, <1>5 DEF ToolNext

LEMMA ToolStays == ToolInv /\ UNCHANGED toolVars => ToolInv'
  BY DEF ToolInv, ToolTypeOK, OneHonestAnswer, toolVars

(***************************************************************************)
(* The mock runtime                                                        *)
(***************************************************************************)
(* A run is in one place at a time: waiting to begin, asking, or with its  *)
(* timer armed.                                                            *)
InOnePlace ==
  /\ \A r \in begins : status[r] # "none" /\ r \notin asks /\ \A t \in turns : t[1] # r
  /\ \A t \in turns : status[t[1]] # "none"

MockInv == MockTypeOK /\ InOnePlace /\ AskedIsRunning /\ GivesUpOnTime

Fired == [there : BOOLEAN, on : BOOLEAN, due : BOOLEAN, streak : 0..PauseAfter]

LEMMA MockStarts == MockInit => MockInv
<1> SUFFICES ASSUME MockInit PROVE MockInv
  OBVIOUS
<1> USE MockBounds
<1>1. [there |-> FALSE, on |-> FALSE, due |-> FALSE, streak |-> 0] \in Fired
  <2>1. 0 \in 0..PauseAfter
    OBVIOUS
  <2> QED
    BY <2>1, Zenon DEF Fired
<1>2. plan \in [Schedules -> Fired]
  BY <1>1 DEF MockInit
<1>3. MockTypeOK
  BY <1>2 DEF MockInit, MockTypeOK, Fired, Open, Terminal
<1> QED
  BY <1>3 DEF MockInit, MockInv, InOnePlace, AskedIsRunning, GivesUpOnTime

LEMMA FiredIs ==
  ASSUME NEW a \in BOOLEAN, NEW b \in BOOLEAN, NEW c \in BOOLEAN, NEW n \in 0..PauseAfter
  PROVE  [there |-> a, on |-> b, due |-> c, streak |-> n] \in Fired
  BY Zenon DEF Fired

(* The listener of a fire gives up before the failures are too many.       *)
LEMMA CountsGivesUp ==
  ASSUME NEW p \in Fired, NEW good \in BOOLEAN
  PROVE  Counts(p, good) \in Fired /\ (Counts(p, good).on => Counts(p, good).streak < PauseAfter)
<1> USE MockBounds
<1> DEFINE streak == IF good THEN 0 ELSE IF p.streak = PauseAfter THEN PauseAfter ELSE p.streak + 1
           gone == p.on /\ streak = PauseAfter
<1>1. p.streak \in 0..PauseAfter
  BY DEF Fired
<1>2. p.there \in BOOLEAN /\ p.on \in BOOLEAN /\ p.due \in BOOLEAN
  BY Zenon DEF Fired
<1>3. p = [there |-> p.there, on |-> p.on, due |-> p.due, streak |-> p.streak]
  BY DEF Fired
<1>4. streak \in 0..PauseAfter
  BY <1>1
<1>5. Counts(p, good) = [p EXCEPT !.streak = streak, !.on = p.on /\ ~gone, !.due = p.due /\ ~gone]
  BY DEF Counts
<1> HIDE DEF streak
<1>6. Counts(p, good) = [there |-> p.there, on |-> p.on /\ ~gone, due |-> p.due /\ ~gone, streak |-> streak]
  BY <1>3, <1>5
<1>7. (p.on /\ ~gone) \in BOOLEAN /\ (p.due /\ ~gone) \in BOOLEAN
  BY <1>2
<1>8. Counts(p, good) \in Fired
  BY <1>2, <1>4, <1>6, <1>7, FiredIs
<1>9. ASSUME Counts(p, good).on PROVE Counts(p, good).streak < PauseAfter
  <2>1. Counts(p, good).on = (p.on /\ ~gone) /\ Counts(p, good).streak = streak
    BY <1>6
  <2>2. streak # PauseAfter
    BY <1>9, <2>1, Zenon
  <2> QED
    BY <1>4, <2>1, <2>2
<1> QED
  BY <1>8, <1>9

(* Runs that are open come to an end: their timers go, their schedules     *)
(* count it, and nothing that was over or not begun is touched.            *)
LEMMA FinishKeeps ==
  ASSUME MockInv, NEW R \in SUBSET OpenRuns, NEW how \in Terminal, Finish(R, how)
  PROVE  /\ status' \in [Ids -> {"none"} \union Open \union Terminal]
         /\ turns' \subseteq turns /\ (\A t \in turns' : t[1] \notin R)
         /\ plan' \in [Schedules -> Fired] /\ GivesUpOnTime'
         /\ firing' \in [Ids -> Schedules \union {NoSchedule}]
         /\ \A r \in Ids : /\ r \notin R => status'[r] = status[r]
                           /\ status[r] # "none" => status'[r] # "none"
<1>1. plan \in [Schedules -> Fired]
  BY DEF MockInv, MockTypeOK, Fired
<1>2. \A k \in Schedules : Counts(plan[k], how = "completed") \in Fired
        /\ (Counts(plan[k], how = "completed").on => Counts(plan[k], how = "completed").streak < PauseAfter)
  BY <1>1, CountsGivesUp
<1>3. plan' \in [Schedules -> Fired]
  BY <1>1, <1>2 DEF Finish
<1>4. GivesUpOnTime'
  BY <1>1, <1>2 DEF Finish, MockInv, GivesUpOnTime
<1>5. /\ status' \in [Ids -> {"none"} \union Open \union Terminal]
      /\ firing' \in [Ids -> Schedules \union {NoSchedule}]
  BY DEF Finish, MockInv, MockTypeOK
<1>6. \A r \in Ids : /\ r \notin R => status'[r] = status[r]
                     /\ status[r] # "none" => status'[r] # "none"
  BY DEF Finish, Terminal
<1>7. turns' \subseteq turns /\ \A t \in turns' : t[1] \notin R
  BY DEF Finish
<1> QED
  BY <1>3, <1>4, <1>5, <1>6, <1>7

LEMMA MockKeeps == MockInv /\ MockNext => MockInv'
<1> SUFFICES ASSUME MockInv, MockNext PROVE MockInv'
  OBVIOUS
<1> USE MockBounds DEF MockInv
<1>0. plan \in [Schedules -> Fired] /\ \A t \in turns : t[1] \in Ids
  BY DEF MockTypeOK, Fired
<1>1. CASE StartMock
  BY <1>1 DEF StartMock, MockTypeOK, InOnePlace, AskedIsRunning, GivesUpOnTime
<1>2. CASE StopMock
  <2>1. Finish(OpenRuns, "interrupted") /\ mode' = "stopped" /\ asks' = {} /\ UNCHANGED <<delivered, begins>>
    BY <1>2 DEF StopMock
  <2>2. "interrupted" \in Terminal /\ OpenRuns \in SUBSET OpenRuns
    BY DEF Terminal
  <2>3. MockTypeOK'
    BY <2>1, <2>2, FinishKeeps DEF MockTypeOK, Fired
  <2>4. InOnePlace' /\ AskedIsRunning'
    BY <1>0, <2>1, <2>2, FinishKeeps DEF InOnePlace, AskedIsRunning, MockTypeOK
  <2> QED
    BY <2>1, <2>2, <2>3, <2>4, FinishKeeps
<1>3. ASSUME NEW r \in Ids, SendMessage(r) \/ \E k \in Schedules : Trigger(k, r) \/ MockTick(k, r)
      PROVE  MockInv'
  <2>1. /\ status[r] = "none" /\ status' = [status EXCEPT ![r] = "queued"] /\ begins' = begins \union {r}
        /\ UNCHANGED <<mode, delivered, asks, turns, plan>>
        /\ firing' = firing \/ \E k \in Schedules : firing' = [firing EXCEPT ![r] = k]
    BY <1>3 DEF SendMessage, Trigger, MockTick, Fires
  <2>2. r \notin asks /\ \A t \in turns : t[1] # r
    BY <2>1 DEF AskedIsRunning, InOnePlace
  <2>3. MockTypeOK'
    BY <2>1 DEF MockTypeOK, Open
  <2>4. status'[r] = "queued" /\ \A q \in Ids : q # r => status'[q] = status[q]
    BY <2>1 DEF MockTypeOK
  <2>5. InOnePlace' /\ AskedIsRunning'
    BY <1>0, <2>1, <2>2, <2>4 DEF InOnePlace, AskedIsRunning, MockTypeOK
  <2> QED
    BY <2>1, <2>3, <2>5 DEF GivesUpOnTime
<1>4. ASSUME NEW r \in Ids, BeginTurn(r) PROVE MockInv'
  <2>1. /\ r \in begins /\ begins' = begins \ {r} /\ status' = [status EXCEPT ![r] = "running"]
        /\ UNCHANGED <<mode, delivered, plan, firing>>
    BY <1>4 DEF BeginTurn
  <2>2. status'[r] = "running" /\ \A q \in Ids : q # r => status'[q] = status[q]
    BY <2>1 DEF MockTypeOK
  <2>3. r \notin asks /\ \A t \in turns : t[1] # r
    BY <2>1 DEF InOnePlace
  <2>4. CASE asks' = asks \union {r} /\ turns' = turns
    <3>1. MockTypeOK'
      BY <2>1, <2>4 DEF MockTypeOK, Open
    <3>2. InOnePlace' /\ AskedIsRunning'
      BY <1>0, <2>1, <2>2, <2>3, <2>4 DEF InOnePlace, AskedIsRunning, MockTypeOK
    <3> QED
      BY <2>1, <3>1, <3>2 DEF GivesUpOnTime
  <2>5. ASSUME NEW how \in {"completed", "failed"}, turns' = turns \union {<<r, how>>}, asks' = asks
        PROVE  MockInv'
    <3>1. MockTypeOK'
      BY <2>1, <2>5 DEF MockTypeOK, Open
    <3>2. \A t \in turns' : t[1] = r \/ t \in turns
      BY <2>5
    <3>3. InOnePlace' /\ AskedIsRunning'
      BY <1>0, <2>1, <2>2, <2>3, <2>5, <3>2 DEF InOnePlace, AskedIsRunning, MockTypeOK
    <3> QED
      BY <2>1, <3>1, <3>3 DEF GivesUpOnTime
  <2> QED
    BY <1>4, <2>4, <2>5 DEF BeginTurn
<1>5. ASSUME NEW t \in turns, TurnEnds(t) PROVE MockInv'
  <2>1. /\ Finish({t[1]} \intersect OpenRuns, t[2]) /\ UNCHANGED <<mode, asks, begins>>
        /\ delivered' \subseteq delivered \union {t[1]}
    BY <1>5 DEF TurnEnds
  <2>2. t[1] \in Ids /\ t[2] \in Terminal /\ {t[1]} \intersect OpenRuns \in SUBSET OpenRuns
    BY DEF MockTypeOK, Terminal
  <2>3. t[1] \notin asks
    BY DEF AskedIsRunning
  <2>4. MockTypeOK'
    BY <2>1, <2>2, FinishKeeps DEF MockTypeOK, Fired
  <2>5. \A r \in asks : status'[r] = status[r]
    <3>1. \A r \in Ids : r \notin {t[1]} \intersect OpenRuns => status'[r] = status[r]
      BY <2>1, <2>2, FinishKeeps
    <3> QED
      BY <2>3, <3>1 DEF MockTypeOK
  <2>6. turns' \subseteq turns /\ \A r \in Ids : status[r] # "none" => status'[r] # "none"
    BY <2>1, <2>2, FinishKeeps
  <2>7. InOnePlace' /\ AskedIsRunning'
    BY <1>0, <2>1, <2>5, <2>6 DEF InOnePlace, AskedIsRunning, MockTypeOK
  <2> QED
    BY <2>1, <2>2, <2>4, <2>7, FinishKeeps
<1>6. ASSUME NEW r \in Ids, CancelMock(r) PROVE MockInv'
  <2>1. Finish({r}, "cancelled") /\ asks' = asks \ {r} /\ UNCHANGED <<mode, delivered, begins>>
    BY <1>6 DEF CancelMock
  <2>2. {r} \in SUBSET OpenRuns /\ "cancelled" \in Terminal
    BY <1>6 DEF CancelMock, OpenRuns, Terminal
  <2>3. MockTypeOK'
    BY <2>1, <2>2, FinishKeeps DEF MockTypeOK, Fired
  <2>4. /\ turns' \subseteq turns
        /\ \A q \in Ids : (q # r => status'[q] = status[q]) /\ (status[q] # "none" => status'[q] # "none")
    BY <2>1, <2>2, FinishKeeps
  <2>5. InOnePlace' /\ AskedIsRunning'
    BY <1>0, <2>1, <2>4 DEF InOnePlace, AskedIsRunning, MockTypeOK
  <2> QED
    BY <2>1, <2>2, <2>3, <2>5, FinishKeeps
<1>7. ASSUME NEW r \in Ids, Resolve(r) PROVE MockInv'
  <2>1. /\ r \in asks /\ asks' = asks \ {r} /\ turns' \subseteq turns \union {<<r, "completed">>}
        /\ UNCHANGED <<mode, status, delivered, begins, plan, firing>>
    BY <1>7 DEF Resolve
  <2>2. MockTypeOK'
    BY <2>1 DEF MockTypeOK
  <2>3. \A t \in turns' : t[1] = r \/ t \in turns
    BY <2>1
  <2>4. status[r] = "running" /\ r \notin begins
    BY <2>1 DEF AskedIsRunning, InOnePlace
  <2>5. InOnePlace' /\ AskedIsRunning'
    BY <2>1, <2>3, <2>4 DEF InOnePlace, AskedIsRunning
  <2> QED
    BY <2>1, <2>2, <2>5 DEF GivesUpOnTime
<1>8. ASSUME NEW k \in Schedules, PlanChanges(k) PROVE MockInv'
  <2>1. UNCHANGED <<mode, status, delivered, asks, begins, turns, firing>>
    BY <1>8 DEF PlanChanges
  <2>2. PICK p : /\ plan' = [plan EXCEPT ![k] = p]
                 /\ \/ p = [there |-> TRUE, on |-> TRUE, due |-> TRUE, streak |-> 0]
                    \/ p = [plan[k] EXCEPT !.on = FALSE]
                    \/ p = [plan[k] EXCEPT !.on = TRUE, !.due = TRUE, !.streak = 0]
                    \/ p = [there |-> FALSE, on |-> FALSE, due |-> FALSE, streak |-> 0]
    BY <1>8 DEF PlanChanges
  <2>3. plan[k] \in Fired /\ 0 \in 0..PauseAfter /\ 0 < PauseAfter
    BY <1>0
  <2>4. plan[k] = [there |-> plan[k].there, on |-> plan[k].on, due |-> plan[k].due, streak |-> plan[k].streak]
    BY <2>3 DEF Fired
  <2>5. \/ p = [there |-> TRUE, on |-> TRUE, due |-> TRUE, streak |-> 0]
        \/ p = [there |-> plan[k].there, on |-> FALSE, due |-> plan[k].due, streak |-> plan[k].streak]
        \/ p = [there |-> plan[k].there, on |-> TRUE, due |-> TRUE, streak |-> 0]
        \/ p = [there |-> FALSE, on |-> FALSE, due |-> FALSE, streak |-> 0]
    BY <2>2, <2>4
  <2>6. plan[k].there \in BOOLEAN /\ plan[k].due \in BOOLEAN /\ plan[k].streak \in 0..PauseAfter
    BY <2>3, Zenon DEF Fired
  <2>7. p \in Fired
    <3>1. TRUE \in BOOLEAN /\ FALSE \in BOOLEAN
      OBVIOUS
    <3> QED
      BY <2>3, <2>5, <2>6, <3>1, FiredIs
  <2>8. p.on => p.streak < PauseAfter
    BY <2>3, <2>5
  <2>9. plan' \in [Schedules -> Fired] /\ GivesUpOnTime'
    BY <1>0, <2>2, <2>7, <2>8 DEF GivesUpOnTime
  <2> QED
    BY <2>1, <2>9 DEF MockTypeOK, Fired, InOnePlace, AskedIsRunning
<1> QED
  BY <1>1, <1>2, <1>3, <1>4, <1>5, <1>6, <1>7, <1>8 DEF MockNext

LEMMA MockStays == MockInv /\ UNCHANGED mockVars => MockInv'
  BY DEF MockInv, MockTypeOK, InOnePlace, AskedIsRunning, GivesUpOnTime, mockVars

(***************************************************************************)
(* What a start makes                                                      *)
(***************************************************************************)
LEMMA AfterIs ==
  /\ DOMAIN After = {"bun", "deps", "claude", "group", "config", "user", "role", "surface", "wiring"}
  /\ After["bun"] = "deps" /\ After["deps"] = "claude" /\ After["claude"] = "choose"
  /\ After["group"] = "config" /\ After["config"] = "user" /\ After["user"] = "role"
  /\ After["role"] = "surface" /\ After["surface"] = "wiring" /\ After["wiring"] = "ready"
  BY DEF After

(* What the start has passed is there, and each agent's number is known.   *)
Made ==
  /\ at \in {"config", "user", "role", "surface", "wiring", "ready"} => "group" \in entities
  /\ at \in {"role", "surface", "wiring", "ready"} => "user" \in entities
  /\ at \in {"surface", "wiring", "ready"} => "role" \in entities
  /\ at \in {"wiring", "ready"} => "surface" \in entities
  /\ at = "ready" => "wiring" \in entities
TierStands ==
  at \in Required \union {"config", "ready"} => tier # "none" /\ (tier = "process" => Complete)
AgentsKnown == \A p \in Pids : runner[p] = "agent" => p \in recorded

ProvInv == ProvTypeOK /\ Made /\ TierStands /\ AgentsKnown /\ StopLeavesNoAgent

LEMMA ProvStarts == ProvInit => ProvInv
<1> SUFFICES ASSUME ProvInit PROVE ProvInv
  OBVIOUS
<1>1. pieces \in [Pieces -> {"none", "own", "fetched", "half", "stub"}]
  BY DEF ProvInit
<1>2. /\ want \in {"auto", "process", "container"} /\ docker \in {"absent", "stopped", "running"}
      /\ at = "down" /\ tier = "none" /\ entities = {} /\ recorded = {} /\ faults = 0 /\ killed = FALSE
      /\ runner \in [Pids -> {"nobody", "agent", "other"}]
      /\ \A p \in Pids : runner[p] = "nobody"
  BY DEF ProvInit
<1>3. mac \in BOOLEAN /\ killed \in BOOLEAN
  BY <1>2, Zenon DEF ProvInit
<1>4. 0 \in 0..MaxFaults
  BY ProvisionBounds
<1>5. ProvTypeOK
  BY <1>1, <1>2, <1>3, <1>4 DEF ProvTypeOK
<1> QED
  BY <1>2, <1>5 DEF ProvInv, Made, TierStands, AgentsKnown, StopLeavesNoAgent, Required

LEMMA ReadyFollows == ProvInv => ReadyIsWired
  BY DEF ProvInv, Made, TierStands, ReadyIsWired, Required

(* A stop of all stops the agents, of a life that knows their tier.        *)
LEMMA StopAllKeeps ==
  ASSUME ProvInv, StopAll
  PROVE  /\ runner' \in [Pids -> {"nobody", "agent", "other"}] /\ recorded' \subseteq Pids
         /\ killed' \in BOOLEAN /\ AgentsKnown'
         /\ tier = "process" => \A p \in Pids : runner'[p] # "agent"
<1>1. CASE tier = "process"
  <2>1. /\ runner' = [p \in Pids |-> IF p \in recorded THEN "nobody" ELSE runner[p]] /\ recorded' = {}
        /\ killed' = (killed \/ \E p \in recorded : runner[p] = "other")
    BY <1>1 DEF StopAll
  <2>2. killed' \in BOOLEAN
    BY <2>1, Zenon
  <2>3. runner' \in [Pids -> {"nobody", "agent", "other"}]
    BY <2>1 DEF ProvInv, ProvTypeOK
  <2>4. \A p \in Pids : runner'[p] # "agent"
    BY <2>1 DEF ProvInv, AgentsKnown
  <2> QED
    BY <2>1, <2>2, <2>3, <2>4 DEF AgentsKnown
<1>2. CASE tier # "process"
  BY <1>2 DEF StopAll, ProvInv, ProvTypeOK, AgentsKnown
<1> QED
  BY <1>1, <1>2

LEMMA ProvKeeps == ProvInv /\ ProvNext => ProvInv'
<1> SUFFICES ASSUME ProvInv, ProvNext PROVE ProvInv'
  OBVIOUS
<1> USE ProvisionBounds
<1>0. /\ "down" \notin Required /\ "choose" \notin Required /\ "stopped" \notin Required /\ "ready" \notin Required
      /\ "bun" \notin Required /\ "deps" \notin Required /\ "claude" \notin Required /\ "config" \notin Required
  BY DEF Required
<1>1. CASE StartsUp
  <2>1. at' \in {"bun", "choose"} /\ UNCHANGED <<machine, pieces, tier, entities, runner, recorded, killed, faults>>
    BY <1>1 DEF StartsUp
  <2>2. ProvTypeOK'
    BY <2>1, AfterIs DEF ProvInv, ProvTypeOK, machine
  <2> QED
    BY <1>0, <2>1, <2>2 DEF ProvInv, Made, TierStands, AgentsKnown, StopLeavesNoAgent, machine
<1>2. CASE EnsurePiece
  <2>1. /\ at \in {"bun", "deps", "claude"} /\ at' = After[at]
        /\ pieces' = pieces \/ pieces' = [pieces EXCEPT ![at] = "fetched"]
        /\ UNCHANGED <<machine, tier, entities, runner, recorded, killed, faults>>
    BY <1>2 DEF EnsurePiece, Pieces
  <2>2. at' \in {"deps", "claude", "choose"}
    BY <2>1, AfterIs
  <2>3. ProvTypeOK'
    BY <2>1, <2>2, AfterIs DEF ProvInv, ProvTypeOK, machine
  <2> QED
    BY <1>0, <2>1, <2>2, <2>3 DEF ProvInv, Made, TierStands, AgentsKnown, StopLeavesNoAgent, machine
<1>3. CASE SetupFails
  <2>1. /\ at' = "choose" /\ faults' \in 0..MaxFaults
        /\ UNCHANGED <<machine, pieces, tier, entities, runner, recorded, killed>>
    BY <1>3 DEF SetupFails, Fault, ProvInv, ProvTypeOK
  <2>2. ProvTypeOK'
    BY <2>1 DEF ProvInv, ProvTypeOK, machine
  <2> QED
    BY <1>0, <2>1, <2>2 DEF ProvInv, Made, TierStands, AgentsKnown, StopLeavesNoAgent, machine
<1>4. CASE ChooseTier
  <2>1. UNCHANGED <<machine, pieces, entities, faults>>
    BY <1>4 DEF ChooseTier
  <2>2. CASE at' = "group" /\ tier' = "process" /\ Complete /\ UNCHANGED <<runner, recorded, killed>>
    <3>1. ProvTypeOK'
      BY <2>1, <2>2, AfterIs DEF ProvInv, ProvTypeOK, machine
    <3>2. Complete'
      BY <2>1, <2>2 DEF Complete, Seen, machine
    <3> QED
      BY <2>1, <2>2, <3>1, <3>2 DEF ProvInv, Made, TierStands, AgentsKnown, StopLeavesNoAgent
  <2>3. CASE at' = "group" /\ tier' = "container" /\ UNCHANGED <<runner, recorded, killed>>
    <3>1. ProvTypeOK'
      BY <2>1, <2>3, AfterIs DEF ProvInv, ProvTypeOK, machine
    <3> QED
      BY <2>1, <2>3, <3>1 DEF ProvInv, Made, TierStands, AgentsKnown, StopLeavesNoAgent
  <2>4. CASE tier' = tier /\ at' = "down" /\ StopAll
    <3>1. ProvTypeOK' /\ AgentsKnown'
      BY <2>1, <2>4, StopAllKeeps DEF ProvInv, ProvTypeOK, machine
    <3> QED
      BY <1>0, <2>4, <3>1 DEF ProvInv, Made, TierStands, StopLeavesNoAgent
  <2> QED
    BY <1>4, <2>2, <2>3, <2>4 DEF ChooseTier, Unavailable
<1>5. ASSUME at \in Required \union {"config"}, entities \subseteq entities', at \in entities' \/ at = "config",
             entities' \subseteq entities \union {at}, at' = After[at], faults' \in 0..MaxFaults,
             UNCHANGED <<machine, pieces, tier, runner, recorded, killed>>
      PROVE  ProvInv'
  <2>1. at \in {"group", "config", "user", "role", "surface", "wiring"}
    BY <1>5 DEF Required
  <2>2. at' \in {"config", "user", "role", "surface", "wiring", "ready"}
    BY <1>5, <2>1, AfterIs
  <2>3. ProvTypeOK'
    <3>1. entities' \subseteq Required \union {"config"}
      BY <1>5 DEF ProvInv, ProvTypeOK
    <3> QED
      BY <1>5, <2>2, <3>1, AfterIs DEF ProvInv, ProvTypeOK, machine
  <2>4. Made'
    BY <1>5, <2>1, AfterIs DEF ProvInv, Made
  <2>5. TierStands'
    BY <1>5 DEF ProvInv, TierStands, Complete, Seen, machine
  <2> QED
    BY <1>5, <2>2, <2>3, <2>4, <2>5 DEF ProvInv, AgentsKnown, StopLeavesNoAgent
<1>6. CASE EnsureEntity
  BY <1>5, <1>6 DEF EnsureEntity, ProvInv, ProvTypeOK
<1>7. CASE EntityFails
  <2>1. /\ at \in Required \union {"config"} /\ entities \subseteq entities' /\ entities' \subseteq entities \union {at}
        /\ faults' \in 0..MaxFaults /\ UNCHANGED <<machine, pieces, tier>>
    BY <1>7 DEF EntityFails, Fault, ProvInv, ProvTypeOK
  <2>2. CASE at = "config"
    BY <1>5, <1>7, <2>1, <2>2 DEF EntityFails
  <2>3. CASE at # "config"
    <3>1. at' = "down" /\ StopAll
      BY <1>7, <2>3 DEF EntityFails, Unavailable
    <3>2. entities' \subseteq Required \union {"config"}
      BY <2>1 DEF ProvInv, ProvTypeOK
    <3>3. ProvTypeOK' /\ AgentsKnown'
      BY <2>1, <3>1, <3>2, StopAllKeeps DEF ProvInv, ProvTypeOK, machine
    <3> QED
      BY <1>0, <3>1, <3>3 DEF ProvInv, Made, TierStands, StopLeavesNoAgent
  <2> QED
    BY <2>2, <2>3
<1>8. CASE StopsEnvironment
  <2>1. /\ at' = "stopped" /\ StopAll /\ faults' \in 0..MaxFaults
        /\ UNCHANGED <<machine, pieces, tier, entities>>
    BY <1>8 DEF StopsEnvironment, Fault, ProvInv, ProvTypeOK
  <2>2. ProvTypeOK' /\ AgentsKnown'
    BY <2>1, StopAllKeeps DEF ProvInv, ProvTypeOK, machine
  <2>3. StopLeavesNoAgent'
    BY <2>1, StopAllKeeps DEF StopLeavesNoAgent
  <2> QED
    BY <1>0, <2>1, <2>2, <2>3 DEF ProvInv, Made, TierStands
<1>9. CASE StartsAfterStop
  <2>1. at' = "down" /\ UNCHANGED <<machine, pieces, tier, entities, runner, recorded, killed, faults>>
    BY <1>9 DEF StartsAfterStop
  <2>2. ProvTypeOK'
    BY <2>1 DEF ProvInv, ProvTypeOK, machine
  <2> QED
    BY <1>0, <2>1, <2>2 DEF ProvInv, Made, TierStands, AgentsKnown, StopLeavesNoAgent
<1>10. CASE CoreDies
  <2>1. /\ at' = "down" /\ tier' = "none" /\ faults' \in 0..MaxFaults
        /\ UNCHANGED <<machine, entities, runner, recorded, killed>>
    BY <1>10 DEF CoreDies, Fault, ProvInv, ProvTypeOK
  <2>2. pieces' \in [Pieces -> {"none", "own", "fetched", "half", "stub"}]
    <3>1. \/ pieces' = pieces
          \/ \E h \in {"none", "half", "stub"} : at \in Pieces /\ pieces' = [pieces EXCEPT ![at] = h]
      BY <1>10 DEF CoreDies
    <3> QED
      BY <3>1 DEF ProvInv, ProvTypeOK
  <2>3. ProvTypeOK'
    BY <2>1, <2>2 DEF ProvInv, ProvTypeOK, machine
  <2> QED
    BY <1>0, <2>1, <2>3 DEF ProvInv, Made, TierStands, AgentsKnown, StopLeavesNoAgent
<1>11. CASE DockerChanges
  <2>1. /\ docker' \in {"stopped", "running"} /\ faults' \in 0..MaxFaults
        /\ UNCHANGED <<mac, want, pieces, at, tier, entities, runner, recorded, killed>>
    BY <1>11 DEF DockerChanges, Fault, ProvInv, ProvTypeOK
  <2>2. ProvTypeOK'
    BY <2>1 DEF ProvInv, ProvTypeOK
  <2> QED
    BY <2>1, <2>2 DEF ProvInv, Made, TierStands, AgentsKnown, StopLeavesNoAgent, Complete, Seen
<1>12. ASSUME NEW p \in Pids, AgentSpawns(p) \/ AgentExits(p) \/ NumberReused(p) PROVE ProvInv'
  <2>1. faults' \in 0..MaxFaults /\ UNCHANGED <<machine, pieces, at, tier, entities, killed>>
    BY <1>12 DEF AgentSpawns, AgentExits, NumberReused, Fault, ProvInv, ProvTypeOK
  <2>2. \/ at = "ready" /\ runner' = [runner EXCEPT ![p] = "agent"] /\ recorded' = recorded \union {p}
        \/ /\ runner' = [runner EXCEPT ![p] = "nobody"] \/ runner' = [runner EXCEPT ![p] = "other"]
           /\ recorded' = recorded \/ recorded' = recorded \ {p}
    BY <1>12 DEF AgentSpawns, AgentExits, NumberReused
  <2>3. runner' \in [Pids -> {"nobody", "agent", "other"}] /\ recorded' \subseteq Pids
    BY <2>2 DEF ProvInv, ProvTypeOK
  <2>4. AgentsKnown' /\ StopLeavesNoAgent'
    BY <2>1, <2>2 DEF ProvInv, ProvTypeOK, AgentsKnown, StopLeavesNoAgent
  <2>5. ProvTypeOK'
    BY <2>1, <2>3 DEF ProvInv, ProvTypeOK, machine
  <2> QED
    BY <2>1, <2>4, <2>5 DEF ProvInv, Made, TierStands, Complete, Seen, machine
<1> QED
  BY <1>1, <1>2, <1>3, <1>4, <1>6, <1>7, <1>8, <1>9, <1>10, <1>11, <1>12 DEF ProvNext

LEMMA ProvStays == ProvInv /\ UNCHANGED provVars => ProvInv'
  BY DEF ProvInv, ProvTypeOK, Made, TierStands, Complete, Seen, AgentsKnown, StopLeavesNoAgent, provVars, machine

(***************************************************************************)
(* The runs of an automation                                               *)
(***************************************************************************)
RunKind == {"schedule", "agent"}
RunRecord ==
  [adapter : {"none", "open"} \union Outcomes, core : {"none", "running"} \union Outcomes,
   kind : {"none", "schedule", "agent"}, rec : {"none", "started", "ok", "failed"},
   words : BOOLEAN, told : BOOLEAN]

(* Of one run: its record says what became of it, and while the runtime    *)
(* has it open Core's row is running.                                      *)
RecordTrue(x) == /\ x.rec = "ok" => x.core = "completed"
                 /\ x.rec = "failed" => x.core \in Outcomes \ {"completed"}
Sound(x) ==
  /\ RecordTrue(x) /\ (x.kind = "none" => x = NoRun)
  /\ x.adapter = "open" => x.core = "running"

TableGood(t, la, lo) ==
  /\ t \in [FireIds -> RunRecord] /\ la \subseteq FireIds /\ lo \subseteq FireIds
  /\ \A r \in FireIds : Sound(t[r])
  /\ \A r \in la : t[r].kind # "none" /\ t[r].core \in Outcomes
  /\ \A r \in FireIds \ lo : t[r].rec = "started" => (t[r].adapter = "open" \/ r \in la)

FlagsOK == /\ on \in BOOLEAN /\ past \in BOOLEAN /\ ready \in BOOLEAN
           /\ cool \in BOOLEAN /\ foremost \in BOOLEAN
NumbersOK ==
  /\ trigger \in {"schedule", "at", "event"} /\ acts \in 0..MaxActs
  /\ rows \in 0..acts /\ byHand \in 0..acts
  /\ made \in 0..(acts + 1) /\ ref \in 0..made /\ tasks \subseteq 1..made
  /\ trigger = "event" => made = 0

(* What waits for a run was begun by a sighting, and behind the foremost   *)
(* automation nothing waits.                                               *)
SightingsOK ==
  /\ looking \in Nat /\ taking \in Nat /\ looking + taking <= acts
  /\ foremost => looking = 0
  /\ looking + taking > 0 => trigger = "event"
  /\ OneSighting

FiringInv == FlagsOK /\ NumbersOK /\ TableGood(table, later, lost) /\ SightingsOK

LEMMA FiringFollows == FiringInv => FiringTypeOK /\ RecordsAreTrue /\ OpenRecordsLive /\ OneSighting
<1> SUFFICES ASSUME FiringInv PROVE FiringTypeOK /\ RecordsAreTrue /\ OpenRecordsLive /\ OneSighting
  OBVIOUS
<1> USE FiringBounds
<1>1. {on, past, ready, cool, foremost} \subseteq BOOLEAN
  BY Zenon DEF FiringInv, FlagsOK
<1>2. /\ trigger \in {"schedule", "at", "event"} /\ ref \in 0..MaxActs + 1 /\ made \in 0..MaxActs + 1
      /\ tasks \subseteq 1..made /\ {rows, byHand, looking, taking} \subseteq 0..MaxActs
      /\ acts \in 0..MaxActs /\ (trigger = "event" => made = 0)
  BY DEF FiringInv, NumbersOK, SightingsOK
<1>3. FiringTypeOK
  BY <1>1, <1>2 DEF FiringInv, TableGood, FiringTypeOK, RunRecord
<1>4. RecordsAreTrue
  BY DEF FiringInv, TableGood, Sound, RecordTrue, RecordsAreTrue
<1>5. OpenRecordsLive
  BY DEF FiringInv, TableGood, OpenRecordsLive
<1> QED
  BY <1>3, <1>4, <1>5 DEF FiringInv, SightingsOK

LEMMA RecordsAre ==
  /\ NoRun \in RunRecord
  /\ \A k \in RunKind : /\ Opened(k) \in RunRecord /\ Opened(k).kind = k /\ Opened(k).adapter = "open"
                        /\ Opened(k).core = "running" /\ Opened(k).rec = "started"
<1>1. NoRun \in RunRecord
  BY DEF NoRun, RunRecord
<1>2. ASSUME NEW k \in RunKind
      PROVE  /\ Opened(k) \in RunRecord /\ Opened(k).kind = k /\ Opened(k).adapter = "open"
             /\ Opened(k).core = "running" /\ Opened(k).rec = "started"
  <2>1. Opened(k) = [NoRun EXCEPT !.adapter = "open", !.core = "running", !.kind = k, !.rec = "started"]
    BY DEF Opened
  <2>2. k \in {"none", "schedule", "agent"}
    BY DEF RunKind
  <2> QED
    BY <1>1, <2>1, <2>2 DEF RunRecord
<1> QED
  BY <1>1, <1>2

LEMMA FiringStarts == FiringInit => FiringInv
<1> SUFFICES ASSUME FiringInit PROVE FiringInv
  OBVIOUS
<1> USE FiringBounds
<1>1. FlagsOK
  BY Zenon DEF FiringInit, FlagsOK
<1>2. NumbersOK
  BY DEF FiringInit, NumbersOK
<1>3. \A r \in FireIds : table[r] = NoRun
  BY DEF FiringInit
<1>4. TableGood(table, later, lost)
  BY <1>3, RecordsAre DEF FiringInit, TableGood, Sound, RecordTrue, NoRun
<1> QED
  BY <1>1, <1>2, <1>4 DEF FiringInit, FiringInv, SightingsOK, OneSighting

(* The next run is one there is not yet.                                   *)
LEMMA NextRunIs ==
  ASSUME Unused # {}
  PROVE  NextRun \in FireIds /\ table[NextRun].kind = "none"
<1>1. Unused \subseteq Nat
  BY FiringBounds DEF Unused, FireIds
<1>2. \E x \in Unused : \A y \in Unused : x <= y
  BY <1>1, LeastOf
<1>3. NextRun \in Unused
  BY <1>2 DEF NextRun, Min
<1> QED
  BY <1>3 DEF Unused

LEMMA RecordOpensWell ==
  ASSUME NEW t, NEW la, NEW lo, TableGood(t, la, lo), NEW r \in FireIds, t[r].kind = "none", NEW k \in RunKind
  PROVE  TableGood([t EXCEPT ![r] = Opened(k)], la, lo)
<1> DEFINE u == [t EXCEPT ![r] = Opened(k)]
<1>1. u \in [FireIds -> RunRecord] /\ u[r] = Opened(k) /\ \A q \in FireIds : q # r => u[q] = t[q]
  BY RecordsAre DEF TableGood
<1> HIDE DEF u
<1>2. Sound(u[r])
  BY <1>1, RecordsAre DEF Sound, RecordTrue, RunKind
<1>3. \A q \in FireIds : Sound(u[q])
  BY <1>1, <1>2 DEF TableGood
<1>4. r \notin la
  BY DEF TableGood
<1>5. u[r].adapter = "open"
  BY <1>1, RecordsAre
<1>6. TableGood(u, la, lo)
  BY <1>1, <1>3, <1>4, <1>5 DEF TableGood
<1> QED
  BY <1>6 DEF u

(* Words change nothing else.                                              *)
LEMMA SpeaksWell ==
  ASSUME NEW t, NEW la, NEW lo, TableGood(t, la, lo), NEW r \in FireIds, t[r].kind # "none"
  PROVE  TableGood([t EXCEPT ![r].words = TRUE], la, lo)
<1> DEFINE u == [t EXCEPT ![r].words = TRUE]
           x == [t[r] EXCEPT !.words = TRUE]
<1>1. t[r] \in RunRecord
  BY DEF TableGood
<1>2. /\ x \in RunRecord /\ x.adapter = t[r].adapter /\ x.core = t[r].core /\ x.kind = t[r].kind
      /\ x.rec = t[r].rec
  BY <1>1 DEF RunRecord
<1>3. u[r] = x /\ (\A q \in FireIds : q # r => u[q] = t[q]) /\ u \in [FireIds -> RunRecord]
  BY <1>2 DEF TableGood
<1> HIDE DEF u, x
<1>4. \A q \in FireIds : /\ u[q].adapter = t[q].adapter /\ u[q].core = t[q].core /\ u[q].kind = t[q].kind
                         /\ u[q].rec = t[q].rec
  BY <1>2, <1>3
<1>5. \A q \in FireIds : Sound(u[q])
  BY <1>3, <1>4 DEF TableGood, Sound, RecordTrue
<1>6. TableGood(u, la, lo)
  BY <1>3, <1>4, <1>5 DEF TableGood
<1> QED
  BY <1>6 DEF u

LEMMA LandsWell ==
  ASSUME NEW t, NEW la, NEW lo, TableGood(t, la, lo),
         \E r \in FireIds : t[r].adapter = "open" /\ t[r].kind = "schedule"
  PROVE  TableGood(Landed(t), la, lo)
<1> DEFINE S == {r \in FireIds : t[r].adapter = "open" /\ t[r].kind = "schedule"}
<1>1. S \subseteq Nat /\ S # {}
  BY FiringBounds DEF FireIds
<1>2. \E x \in S : \A y \in S : x <= y
  BY <1>1, LeastOf
<1>3. Min(S) \in S
  BY <1>2 DEF Min
<1>4. Min(S) \in FireIds /\ t[Min(S)].kind # "none"
  BY <1>3
<1>5. PICK r \in FireIds : r = Min(S) /\ t[r].kind # "none"
  BY <1>4
<1>6. Landed(t) = [t EXCEPT ![r].words = TRUE]
  BY <1>5 DEF Landed
<1>7. TableGood([t EXCEPT ![r].words = TRUE], la, lo)
  BY <1>5, SpeaksWell
<1> QED
  BY <1>6, <1>7

(* A record is closed for what became of its run.                          *)
LEMMA ClosesWell ==
  ASSUME NEW x \in RunRecord, NEW ok \in BOOLEAN, RecordTrue(x),
         ok => x.core = "completed", ~ok => x.core \in Outcomes \ {"completed"}
  PROVE  /\ CloseRecord(x, ok) \in RunRecord /\ RecordTrue(CloseRecord(x, ok))
         /\ CloseRecord(x, ok).rec # "started"
         /\ CloseRecord(x, ok).kind = x.kind /\ CloseRecord(x, ok).core = x.core
         /\ CloseRecord(x, ok).adapter = x.adapter
<1>1. CASE x.rec = "started"
  <2> DEFINE y == [x EXCEPT !.rec = IF ok THEN "ok" ELSE "failed", !.told = x.words]
  <2>1. CloseRecord(x, ok) = y
    BY <1>1 DEF CloseRecord
  <2>4. x.words \in BOOLEAN
    BY Zenon DEF RunRecord
  <2>6. (IF ok THEN "ok" ELSE "failed") \in {"none", "started", "ok", "failed"}
    OBVIOUS
  <2>7. y \in RunRecord
    BY <2>4, <2>6 DEF RunRecord
  <2>8. y.rec = (IF ok THEN "ok" ELSE "failed") /\ y.kind = x.kind /\ y.core = x.core /\ y.adapter = x.adapter
    BY DEF RunRecord
  <2> HIDE DEF y
  <2> QED
    BY <2>1, <2>7, <2>8 DEF RecordTrue
<1>2. CASE x.rec # "started"
  BY <1>2 DEF CloseRecord
<1> QED
  BY <1>1, <1>2

LEMMA EndsOne ==
  ASSUME NEW x \in RunRecord, NEW how \in Outcomes, RecordTrue(x), x.kind # "none",
         x.core = "running" \/ (x.core \in Outcomes \ {"completed"} /\ how # "completed")
  PROVE  /\ RunEnded(x, how) \in RunRecord /\ RecordTrue(RunEnded(x, how))
         /\ RunEnded(x, how).kind = x.kind /\ RunEnded(x, how).core \in Outcomes
         /\ RunEnded(x, how).adapter = how
         /\ x.kind = "schedule" => RunEnded(x, how).rec # "started"
<1> DEFINE y == [x EXCEPT !.adapter = how, !.core = IF x.core = "running" THEN how ELSE x.core]
<1>1. /\ y \in RunRecord /\ y.adapter = how /\ y.core = (IF x.core = "running" THEN how ELSE x.core)
      /\ y.kind = x.kind /\ y.rec = x.rec
  BY DEF RunRecord
<1>2. RunEnded(x, how) = IF x.kind = "schedule" THEN CloseRecord(y, how = "completed") ELSE y
  BY DEF RunEnded
<1> HIDE DEF y
<1>3. RecordTrue(y) /\ y.core \in Outcomes
  BY <1>1 DEF RecordTrue, Outcomes
<1>4. /\ (how = "completed") \in BOOLEAN /\ (how = "completed") => y.core = "completed"
      /\ ~(how = "completed") => y.core \in Outcomes \ {"completed"}
  BY <1>1
<1>5. CASE x.kind = "schedule"
  <2>1. RunEnded(x, how) = CloseRecord(y, how = "completed")
    BY <1>2, <1>5
  <2> DEFINE ok == how = "completed"
  <2>2. ok \in BOOLEAN
    OBVIOUS
  <2>6. (ok => y.core = "completed") /\ (~ok => y.core \in Outcomes \ {"completed"})
    BY <1>4
  <2>7. y \in RunRecord
    BY <1>1
  <2>8. RecordTrue(y)
    BY <1>3
  <2>3. RunEnded(x, how) = CloseRecord(y, ok)
    BY <2>1
  <2> HIDE DEF ok
  <2>4. /\ CloseRecord(y, ok) \in RunRecord /\ RecordTrue(CloseRecord(y, ok))
        /\ CloseRecord(y, ok).rec # "started"
        /\ CloseRecord(y, ok).kind = y.kind /\ CloseRecord(y, ok).core = y.core
        /\ CloseRecord(y, ok).adapter = y.adapter
    BY <2>2, <2>6, <2>7, <2>8, ClosesWell, Zenon
  <2>5. /\ CloseRecord(y, ok).kind = x.kind /\ CloseRecord(y, ok).core \in Outcomes
        /\ CloseRecord(y, ok).adapter = how
    BY <1>1, <1>3, <2>4
  <2> QED
    BY <2>3, <2>4, <2>5, Zenon
<1>6. CASE x.kind # "schedule"
  BY <1>1, <1>2, <1>3, <1>6
<1> QED
  BY <1>5, <1>6

(* Runs that end: each record is closed, or its closing is on its way.     *)
LEMMA RecordEndsWell ==
  ASSUME FiringInv, NEW E \in SUBSET Running, NEW how \in Outcomes, NEW t \in [FireIds -> RunRecord],
         \A r \in FireIds \ E : t[r] = table[r],
         \A r \in E : /\ t[r].kind = table[r].kind /\ t[r].rec = table[r].rec
                      /\ RecordTrue(t[r])
                      /\ t[r].core = "running" \/ (t[r].core \in Outcomes \ {"completed"} /\ how # "completed"),
         RunsEnd(E, how, t), lost' = lost
  PROVE  TableGood(table', later', lost') /\ on' \in BOOLEAN /\ ref' \in {0, ref} /\ trigger' = trigger
<1>1. /\ table' = [r \in FireIds |-> IF r \in E THEN RunEnded(t[r], how) ELSE t[r]]
      /\ later' = later \union {r \in E : t[r].kind = "agent"} /\ trigger' = trigger
      /\ (on' = FALSE /\ ref' = 0) \/ UNCHANGED <<on, ref>>
  BY DEF RunsEnd, OneOffDone
<1>2. on' \in BOOLEAN
  BY <1>1, Zenon DEF FiringInv, FlagsOK
<1>3. E \subseteq FireIds /\ \A r \in E : table[r].adapter = "open" /\ table[r].core = "running" /\ table[r].kind # "none"
  <2>1. ASSUME NEW r \in E PROVE r \in FireIds /\ table[r].adapter = "open" /\ Sound(table[r])
    BY DEF Running, FiringInv, TableGood
  <2> QED
    BY <2>1 DEF Sound, NoRun
<1>4. ASSUME NEW r \in E
      PROVE  /\ table'[r] \in RunRecord /\ RecordTrue(table'[r]) /\ table'[r].kind = table[r].kind
             /\ table'[r].core \in Outcomes /\ table'[r].adapter = how
             /\ table[r].kind = "schedule" => table'[r].rec # "started"
  <2>1. t[r] \in RunRecord /\ t[r].kind = table[r].kind /\ table[r].kind # "none" /\ RecordTrue(t[r])
        /\ r \in FireIds
    BY <1>3
  <2>2. table'[r] = RunEnded(t[r], how)
    BY <1>1, <2>1
  <2> QED
    BY <2>1, <2>2, EndsOne
<1>5. \A r \in FireIds \ E : table'[r] = table[r]
  BY <1>1
<1>6. table' \in [FireIds -> RunRecord] /\ later' \subseteq FireIds /\ lost' \subseteq FireIds
  <2>1. \A r \in FireIds : (IF r \in E THEN RunEnded(t[r], how) ELSE t[r]) \in RunRecord
    BY <1>1, <1>4
  <2> QED
    BY <1>1, <1>3, <2>1 DEF FiringInv, TableGood
<1>7. \A r \in FireIds : Sound(table'[r])
  <2>1. \A r \in E : Sound(table'[r])
    BY <1>3, <1>4 DEF Sound, Outcomes
  <2> QED
    BY <1>5, <2>1 DEF FiringInv, TableGood
<1>8. \A r \in later' : table'[r].kind # "none" /\ table'[r].core \in Outcomes
  <2>1. \A r \in E : table'[r].kind # "none" /\ table'[r].core \in Outcomes
    BY <1>3, <1>4
  <2> QED
    BY <1>1, <1>5, <2>1 DEF FiringInv, TableGood
<1>9. \A r \in FireIds \ lost' : table'[r].rec = "started" => (table'[r].adapter = "open" \/ r \in later')
  <2>1. ASSUME NEW r \in E, table'[r].rec = "started" PROVE r \in later'
    <3>1. table[r].kind \in {"schedule", "agent"}
      BY <1>3 DEF FiringInv, TableGood, RunRecord
    <3> QED
      BY <1>1, <1>4, <2>1, <3>1
  <2> QED
    BY <1>1, <1>5, <2>1 DEF FiringInv, TableGood
<1> QED
  BY <1>1, <1>2, <1>6, <1>7, <1>8, <1>9 DEF TableGood

(* The moment later.                                                       *)
LEMMA FollowsWell ==
  ASSUME FiringInv, NEW r \in FireIds, Later(r)
  PROVE  TableGood(table', later', lost') /\ on' \in BOOLEAN /\ ref' \in {0, ref} /\ trigger' = trigger
<1>1. /\ r \in later /\ later' = later \ {r} /\ table' = [table EXCEPT ![r] = FollowsRow(r)]
      /\ trigger' = trigger /\ lost' = lost /\ ((on' = FALSE /\ ref' = 0) \/ UNCHANGED <<on, ref>>)
  BY DEF Later, OneOffDone
<1>2. on' \in BOOLEAN
  BY <1>1, Zenon DEF FiringInv, FlagsOK
<1>3. table[r] \in RunRecord /\ Sound(table[r]) /\ table[r].kind # "none" /\ table[r].core \in Outcomes
  BY <1>1 DEF FiringInv, TableGood
<1>4. /\ FollowsRow(r) \in RunRecord /\ RecordTrue(FollowsRow(r)) /\ FollowsRow(r).rec # "started"
      /\ FollowsRow(r).kind = table[r].kind /\ FollowsRow(r).core = table[r].core
      /\ FollowsRow(r).adapter = table[r].adapter
  <2>1. FollowsRow(r) = CloseRecord(table[r], table[r].core = "completed")
    BY DEF FollowsRow
  <2>2. RecordTrue(table[r]) /\ (table[r].core = "completed") \in BOOLEAN
    BY <1>3 DEF Sound
  <2> QED
    BY <1>3, <2>1, <2>2, ClosesWell
<1>5. Sound(FollowsRow(r))
  BY <1>3, <1>4 DEF Sound
<1>6. table' \in [FireIds -> RunRecord] /\ table'[r] = FollowsRow(r)
      /\ \A q \in FireIds : q # r => table'[q] = table[q]
  BY <1>1, <1>4 DEF FiringInv, TableGood
<1> QED
  BY <1>1, <1>2, <1>3, <1>4, <1>5, <1>6 DEF FiringInv, TableGood

(* A result without a run is made one.                                     *)
LEMMA WordsMakeOne ==
  ASSUME FiringInv, WordsWithoutRun
  PROVE  TableGood(table', later', lost') /\ on' \in BOOLEAN /\ ref' \in {0, ref} /\ trigger' = trigger
<1> DEFINE x == [NoRun EXCEPT !.core = "completed", !.kind = "schedule", !.rec = "ok", !.words = TRUE, !.told = TRUE]
<1>1. /\ Unused # {} /\ table' = [table EXCEPT ![NextRun] = x] /\ later' = later /\ lost' = lost
      /\ trigger' = trigger /\ ((on' = FALSE /\ ref' = 0) \/ UNCHANGED <<on, ref>>)
  BY DEF WordsWithoutRun, OneOffDone
<1>2. on' \in BOOLEAN
  BY <1>1, Zenon DEF FiringInv, FlagsOK
<1>3. PICK r \in FireIds : r = NextRun /\ table[r].kind = "none"
  BY <1>1, NextRunIs
<1>4. x \in RunRecord /\ x.core = "completed" /\ x.kind = "schedule" /\ x.rec = "ok" /\ x.adapter = "none"
  BY RecordsAre DEF RunRecord, NoRun, Outcomes
<1>5. Sound(x)
  BY <1>4 DEF Sound, RecordTrue
<1>6. r \notin later
  BY <1>3 DEF FiringInv, TableGood
<1> HIDE DEF x
<1>7. table' \in [FireIds -> RunRecord] /\ table'[r] = x /\ \A q \in FireIds : q # r => table'[q] = table[q]
  BY <1>1, <1>3, <1>4 DEF FiringInv, TableGood
<1> QED
  BY <1>1, <1>2, <1>4, <1>5, <1>6, <1>7 DEF FiringInv, TableGood

(* Core dies and boots.                                                    *)
LEMMA CrashesWell ==
  ASSUME FiringInv, CrashFiring
  PROVE  TableGood(table', later', lost')
<1> DEFINE Cut(x) == [x EXCEPT !.adapter = IF x.adapter = "open" THEN "interrupted" ELSE x.adapter,
                               !.core = IF x.core = "running" THEN "interrupted" ELSE x.core]
<1>1. /\ table' = [r \in FireIds |-> Cut(table[r])] /\ later' = {}
      /\ lost' = {r \in FireIds : table[r].kind # "none"}
  BY DEF CrashFiring
<1>2. ASSUME NEW x \in RunRecord, Sound(x)
      PROVE  /\ Cut(x) \in RunRecord /\ Sound(Cut(x)) /\ Cut(x).adapter # "open"
             /\ x.kind = "none" => Cut(x).rec = "none"
  <2>1. /\ Cut(x) \in RunRecord /\ Cut(x).kind = x.kind /\ Cut(x).rec = x.rec
        /\ Cut(x).adapter = (IF x.adapter = "open" THEN "interrupted" ELSE x.adapter)
        /\ Cut(x).core = (IF x.core = "running" THEN "interrupted" ELSE x.core)
    BY DEF RunRecord, Outcomes
  <2>2. CASE x.kind = "none"
    <3>1. x = NoRun
      BY <1>2, <2>2 DEF Sound
    <3>2. Cut(x) = NoRun
      BY <3>1 DEF NoRun
    <3> QED
      BY <1>2, <2>1, <3>1, <3>2 DEF NoRun
  <2>3. CASE x.kind # "none"
    <3> HIDE DEF Cut
    <3>1. RecordTrue(Cut(x))
      BY <1>2, <2>1 DEF Sound, RecordTrue, Outcomes
    <3> QED
      BY <2>1, <2>3, <3>1 DEF Sound
  <2> QED
    BY <2>2, <2>3
<1>3. \A r \in FireIds : table[r] \in RunRecord /\ Sound(table[r])
  BY DEF FiringInv, TableGood
<1> HIDE DEF Cut
<1>4. \A r \in FireIds : /\ table'[r] \in RunRecord /\ Sound(table'[r]) /\ table'[r].adapter # "open"
                         /\ table[r].kind = "none" => table'[r].rec = "none"
  BY <1>1, <1>2, <1>3
<1>5. table' \in [FireIds -> RunRecord]
  BY <1>1, <1>2, <1>3
<1> QED
  BY <1>1, <1>4, <1>5 DEF TableGood

LEMMA NumbersGo ==
  ASSUME NumbersOK, acts' \in {acts, acts + 1}, acts' \in 0..MaxActs, trigger' = trigger,
         made' = made, tasks' \subseteq tasks, ref' \in {0, ref},
         rows' \in 0..acts', byHand' \in 0..acts'
  PROVE  NumbersOK'
<1>1. acts \in Nat /\ made \in Nat /\ made <= acts + 1 /\ ref \in Nat /\ ref <= made /\ acts' \in Nat
  BY FiringBounds DEF NumbersOK
<1>2. made' \in 0..(acts' + 1)
  <2>1. CASE acts' = acts
    BY <1>1, <2>1
  <2>2. CASE acts' = acts + 1
    BY <1>1, <2>2
  <2> QED
    BY <2>1, <2>2
<1>3. ref' \in 0..made'
  <2>1. CASE ref' = 0
    BY <1>1, <2>1
  <2>2. CASE ref' = ref
    BY <1>1, <2>2
  <2> QED
    BY <2>1, <2>2
<1>4. tasks' \subseteq 1..made'
  BY DEF NumbersOK
<1> QED
  BY <1>2, <1>3, <1>4 DEF NumbersOK

LEMMA SightingsStay ==
  ASSUME SightingsOK, NumbersOK, UNCHANGED <<sightings, trigger>>, acts' \in {acts, acts + 1}
  PROVE  SightingsOK'
<1>1. acts \in Nat /\ acts' >= acts /\ acts' \in Nat
  BY FiringBounds DEF NumbersOK
<1>2. UNCHANGED <<trigger, foremost, looking, cool, taking>>
  BY DEF sightings
<1>3. OneSighting'
  BY <1>2, Zenon DEF SightingsOK, OneSighting
<1> QED
  BY <1>1, <1>2, <1>3 DEF SightingsOK

LEMMA FiringKeeps == FiringInv /\ FiringNext => FiringInv'
<1> SUFFICES ASSUME FiringInv, FiringNext PROVE FiringInv'
  OBVIOUS
<1> USE FiringBounds
<1>0. TableGood(table, later, lost) /\ FlagsOK /\ NumbersOK /\ SightingsOK
  BY DEF FiringInv
\* Steps that leave the runs alone.
<1>1. CASE MomentPasses \/ RunNow \/ (\E t \in tasks : HostFires(t))
  <2>1. UNCHANGED <<auto, ready, sightings, table, later, lost, made>> /\ past' \in {past, TRUE}
    BY <1>1 DEF MomentPasses, RunNow, HostFires
  <2>2. FlagsOK'
    BY <1>0, <2>1, Zenon DEF FlagsOK, auto, sightings
  <2>3. /\ acts' \in {acts, acts + 1} /\ acts' \in 0..MaxActs /\ tasks' \subseteq tasks
        /\ rows' \in 0..acts' /\ byHand' \in 0..acts'
    BY <1>0, <1>1 DEF MomentPasses, RunNow, HostFires, Act, NumbersOK
  <2>4. NumbersOK'
    <3>1. ref' \in {0, ref}
      BY <1>0, <2>1, <2>3 DEF NumbersOK, auto
    <3> QED
      BY <1>0, <2>1, <2>3, <3>1, NumbersGo DEF auto
  <2>5. SightingsOK'
    BY <1>0, <2>1, <2>3, SightingsStay DEF auto
  <2> QED
    BY <1>0, <2>1, <2>2, <2>4, <2>5 DEF FiringInv
\* Sightings.
<1>2. CASE Sighting \/ Looks \/ LooksOn \/ CooldownEnds
  <2>1. UNCHANGED <<auto, fireHost, ready, foremost, table, later, lost>> /\ cool' \in {cool, TRUE, FALSE}
    BY <1>2 DEF Sighting, Looks, LooksOn, CooldownEnds
  <2>2. FlagsOK'
    BY <1>0, <2>1, Zenon DEF FlagsOK, auto, fireHost
  <2>3. acts' \in {acts, acts + 1} /\ acts' \in 0..MaxActs
    BY <1>0, <1>2 DEF Sighting, Looks, LooksOn, CooldownEnds, Act, NumbersOK
  <2>4. NumbersOK'
    <3>1. rows' \in 0..acts' /\ byHand' \in 0..acts' /\ ref' \in {0, ref}
      BY <1>0, <2>1, <2>3 DEF NumbersOK, auto, fireHost
    <3> QED
      BY <1>0, <2>1, <2>3, <3>1, NumbersGo DEF auto, fireHost
  <2>5. SightingsOK'
    <3>0. acts \in Nat
      BY <1>0 DEF NumbersOK
    <3>1. CASE Sighting
      <4>1. taking = 0
        BY <1>0, <3>1 DEF Sighting, SightingsOK, OneSighting
      <4>2. /\ cool' /\ taking' = 1 /\ looking' = looking /\ foremost' = foremost /\ acts' = acts + 1
            /\ trigger = "event" /\ trigger' = trigger
        BY <2>1, <3>1, <4>1 DEF Sighting, Act, auto
      <4> QED
        BY <1>0, <3>0, <4>1, <4>2 DEF SightingsOK, OneSighting
    <3>2. CASE Looks
      <4>1. /\ ~foremost /\ ~foremost' /\ looking' = looking + 1 /\ taking' = taking
            /\ cool' = cool /\ acts' = acts + 1 /\ trigger = "event" /\ trigger' = trigger
        BY <2>1, <3>2 DEF Looks, Act, auto
      <4> QED
        BY <1>0, <3>0, <4>1 DEF SightingsOK, OneSighting
    <3>3. CASE LooksOn
      <4>1. /\ ~foremost /\ foremost' = foremost /\ acts' = acts /\ looking > 0 /\ looking' = looking - 1
            /\ trigger = "event" /\ trigger' = trigger
        BY <1>0, <2>1, <3>3 DEF LooksOn, SightingsOK, auto
      <4>2. (cool' /\ taking' = taking + 1) \/ (cool' = cool /\ taking' = taking)
        BY <3>3 DEF LooksOn
      <4> QED
        BY <1>0, <3>0, <4>1, <4>2 DEF SightingsOK, OneSighting
    <3>4. CASE CooldownEnds
      <4>1. /\ taking' = 0 /\ looking' = looking /\ foremost' = foremost /\ acts' = acts + 1 /\ taking = 0
            /\ trigger' = trigger
        BY <2>1, <3>4 DEF CooldownEnds, Act, auto
      <4> QED
        BY <1>0, <3>0, <4>1 DEF SightingsOK, OneSighting
    <3> QED
      BY <1>2, <3>1, <3>2, <3>3, <3>4
  <2> QED
    BY <1>0, <2>1, <2>2, <2>4, <2>5 DEF FiringInv
<1>3. CASE (\E b \in BOOLEAN : Switch(b)) \/ Returns
  <2>1. UNCHANGED <<trigger, past, rows, byHand, sightings, table, later, lost>> /\ ready' \in {ready, TRUE}
    BY <1>3 DEF Switch, Returns
  <2>2. PICK b \in BOOLEAN : Synced(b) /\ Act
    BY <1>0, <1>3 DEF Switch, Returns, FlagsOK
  <2>3. on' \in BOOLEAN
    BY <2>2, Zenon DEF Synced
  <2>4. FlagsOK'
    BY <1>0, <2>1, <2>3, Zenon DEF FlagsOK, sightings
  <2>5. acts' = acts + 1 /\ acts' \in 0..MaxActs
    BY <1>0, <2>2 DEF Act, NumbersOK
  <2>6. /\ made' \in 0..(acts' + 1) /\ ref' \in 0..made' /\ tasks' \subseteq 1..made'
        /\ trigger = "event" => made' = 0
    <3>0. /\ acts \in Nat /\ made \in Nat /\ made <= acts + 1 /\ ref \in Nat /\ ref <= made
          /\ tasks \subseteq 1..made /\ acts' = acts + 1
      BY <1>0, <2>5 DEF NumbersOK
    <3>1. CASE made' = made /\ tasks' = tasks /\ ref' \in {0, ref}
      BY <1>0, <3>0, <3>1 DEF NumbersOK
    <3>2. CASE /\ trigger # "event" /\ ref # 0 /\ ref' = ref /\ made' = made
               /\ tasks' \subseteq tasks \union {ref}
      <4>1. ref \in 1..made
        BY <3>0, <3>2
      <4>2. tasks' \subseteq 1..made'
        BY <3>0, <3>2, <4>1
      <4> QED
        BY <3>0, <3>2, <4>2
    <3>3. CASE /\ trigger # "event" /\ ref' = made + 1 /\ made' = made + 1
               /\ tasks' \subseteq tasks \union {made + 1}
      <4>1. made + 1 \in 1..made' /\ \A n \in 1..made : n \in 1..made'
        BY <3>0, <3>3
      <4>2. tasks' \subseteq 1..made'
        BY <3>0, <3>3, <4>1
      <4> QED
        BY <3>0, <3>3, <4>2
    <3> QED
      BY <2>2, <3>1, <3>2, <3>3 DEF Synced
  <2>7. NumbersOK'
    BY <1>0, <2>1, <2>5, <2>6 DEF NumbersOK
  <2>8. SightingsOK'
    BY <1>0, <2>1, <2>5, SightingsStay
  <2> QED
    BY <1>0, <2>1, <2>4, <2>7, <2>8 DEF FiringInv
\* Steps that open a run.
<1>4. CASE WatchFinds \/ Triggered \/ RunNowHere \/ SightingStarts \/ WordsFindRow
  <2>1. UNCHANGED <<auto, made, tasks, past, ready, later, lost>>
    BY <1>4 DEF WatchFinds, Triggered, RunNowHere, SightingStarts, WordsFindRow, fireHost
  <2>2. \/ table' = table
        \/ /\ Unused # {}
           /\ \E k \in RunKind : \/ table' = [table EXCEPT ![NextRun] = Opened(k)]
                                 \/ k = "schedule" /\ table' = Landed([table EXCEPT ![NextRun] = Opened(k)])
    BY <1>4 DEF WatchFinds, Triggered, RunNowHere, SightingStarts, WordsFindRow, RunKind
  <2>3. TableGood(table', later', lost')
    <3>1. CASE table' = table
      BY <1>0, <2>1, <3>1
    <3>2. ASSUME Unused # {}, NEW k \in RunKind,
                 \/ table' = [table EXCEPT ![NextRun] = Opened(k)]
                 \/ k = "schedule" /\ table' = Landed([table EXCEPT ![NextRun] = Opened(k)])
          PROVE  TableGood(table', later', lost')
      <4>1. PICK r \in FireIds : r = NextRun /\ table[r].kind = "none"
        BY <3>2, NextRunIs
      <4>2. TableGood([table EXCEPT ![r] = Opened(k)], later, lost)
        BY <1>0, <4>1, RecordOpensWell
      <4>3. CASE table' = [table EXCEPT ![r] = Opened(k)]
        BY <2>1, <4>2, <4>3
      <4>4. CASE k = "schedule" /\ table' = Landed([table EXCEPT ![r] = Opened(k)])
        <5>1. [table EXCEPT ![r] = Opened(k)][r] = Opened(k)
          BY <1>0 DEF TableGood
        <5>2. Opened(k).adapter = "open" /\ Opened(k).kind = "schedule"
          BY <4>4, RecordsAre
        <5>3. TableGood(Landed([table EXCEPT ![r] = Opened(k)]), later, lost)
          BY <4>2, <5>1, <5>2, LandsWell
        <5> QED
          BY <2>1, <4>4, <5>3
      <4> QED
        BY <3>2, <4>1, <4>3, <4>4
    <3> QED
      BY <2>2, <3>1, <3>2
  <2>4. cool' \in {cool, TRUE, (trigger = "event")} /\ foremost' = foremost
    BY <1>4 DEF WatchFinds, Triggered, RunNowHere, SightingStarts, WordsFindRow, sightings
  <2>5. FlagsOK'
    <3>1. cool' \in BOOLEAN
      BY <1>0, <2>4, Zenon DEF FlagsOK
    <3> QED
      BY <1>0, <2>1, <2>4, <3>1, Zenon DEF FlagsOK, auto
  <2>6. acts' \in {acts, acts + 1} /\ acts' \in 0..MaxActs /\ rows' \in 0..acts' /\ byHand' \in 0..acts'
    <3>1. CASE WatchFinds \/ WordsFindRow
      BY <1>0, <3>1 DEF WatchFinds, WordsFindRow, NumbersOK
    <3>2. CASE Triggered
      BY <1>0, <3>2 DEF Triggered, NumbersOK
    <3>3. CASE RunNowHere
      BY <1>0, <3>3 DEF RunNowHere, Act, fireHost, NumbersOK
    <3>4. CASE SightingStarts
      BY <1>0, <3>4 DEF SightingStarts, fireHost, NumbersOK
    <3> QED
      BY <1>4, <3>1, <3>2, <3>3, <3>4
  <2>7. NumbersOK'
    BY <1>0, <2>1, <2>6, NumbersGo DEF auto
  <2>8. SightingsOK'
    <3>0. acts \in Nat
      BY <1>0 DEF NumbersOK
    <3>1. CASE WatchFinds \/ WordsFindRow \/ Triggered
      BY <1>0, <2>1, <2>6, <3>1, SightingsStay DEF WatchFinds, WordsFindRow, Triggered, auto
    <3>2. CASE RunNowHere
      <4>1. /\ foremost' = foremost /\ looking' = looking /\ taking' = taking /\ acts' = acts + 1
            /\ cool' = (trigger = "event") /\ trigger' = trigger
        BY <2>1, <3>2 DEF RunNowHere, Act, auto
      <4>2. taking \in Nat /\ looking \in Nat /\ (taking > 0 => trigger = "event")
        BY <1>0 DEF SightingsOK
      <4>3. taking' > 0 => cool' /\ (foremost' => taking' = 1)
        BY <1>0, <4>1, <4>2 DEF SightingsOK, OneSighting
      <4> QED
        BY <1>0, <3>0, <4>1, <4>2, <4>3 DEF SightingsOK, OneSighting
    <3>3. CASE SightingStarts
      <4>1. /\ foremost' = foremost /\ looking' = looking /\ taking > 0 /\ taking' = taking - 1
            /\ acts' = acts /\ (cool' \/ cool' = cool) /\ trigger' = trigger
        BY <2>1, <3>3 DEF SightingStarts, auto
      <4>2. taking \in Nat /\ cool /\ (foremost => taking = 1)
        BY <1>0, <4>1 DEF SightingsOK, OneSighting
      <4>3. cool'
        BY <4>1, <4>2, Zenon
      <4>4. OneSighting'
        BY <4>1, <4>2, <4>3 DEF OneSighting
      <4>5. looking' \in Nat /\ taking' \in Nat /\ looking' + taking' <= acts'
        BY <1>0, <3>0, <4>1, <4>2 DEF SightingsOK
      <4> QED
        BY <1>0, <4>1, <4>4, <4>5 DEF SightingsOK
    <3> QED
      BY <1>4, <3>1, <3>2, <3>3
  <2> QED
    BY <2>3, <2>5, <2>6, <2>7, <2>8 DEF FiringInv
\* Words, and ends.
<1>5. CASE WordsCome \/ \E r \in FireIds : AgentSpeaks(r)
  <2>1. UNCHANGED <<auto, fireHost, ready, sightings, later, lost, acts>>
    BY <1>5 DEF WordsCome, AgentSpeaks
  <2>2. CASE WordsCome
    <3>1. OnSurface # {} /\ table' = Landed(table)
      BY <2>2 DEF WordsCome
    <3>2. \E r \in FireIds : table[r].adapter = "open" /\ table[r].kind = "schedule"
      BY <3>1 DEF OnSurface, Running
    <3>3. TableGood(table', later', lost')
      BY <1>0, <2>1, <3>1, <3>2, LandsWell
    <3> QED
      BY <1>0, <2>1, <3>3 DEF FiringInv, FlagsOK, NumbersOK, SightingsOK, OneSighting, sightings, auto, fireHost
  <2>3. ASSUME NEW r \in FireIds, AgentSpeaks(r) PROVE FiringInv'
    <3>1. table[r].kind # "none" /\ table' = [table EXCEPT ![r].words = TRUE]
      BY <2>3 DEF AgentSpeaks
    <3>2. TableGood(table', later', lost')
      BY <1>0, <2>1, <3>1, SpeaksWell
    <3> QED
      BY <1>0, <2>1, <3>2 DEF FiringInv, FlagsOK, NumbersOK, SightingsOK, OneSighting, sightings, auto, fireHost
  <2> QED
    BY <1>5, <2>2, <2>3
<1>6. CASE WordsWithoutRun \/ \E r \in FireIds : Later(r)
  <2>1. UNCHANGED <<fireHost, ready, sightings, lost, acts>>
    BY <1>6 DEF WordsWithoutRun, Later
  <2>2. TableGood(table', later', lost') /\ on' \in BOOLEAN /\ ref' \in {0, ref} /\ trigger' = trigger
    BY <1>6, FollowsWell, WordsMakeOne
  <2>3. NumbersOK'
    BY <1>0, <2>1, <2>2 DEF NumbersOK, fireHost
  <2>4. FlagsOK'
    BY <1>0, <2>1, <2>2, Zenon DEF FlagsOK, fireHost, sightings
  <2>5. SightingsOK'
    BY <1>0, <2>1, <2>2, SightingsStay
  <2> QED
    BY <1>0, <2>1, <2>2, <2>3, <2>4, <2>5 DEF FiringInv
<1>7. ASSUME NEW r \in FireIds, CancelRun(r) \/ RunTimesOut(r) \/ \E how \in {"completed", "failed"} : ReplyComes(r, how)
      PROVE  FiringInv'
  <2>1. UNCHANGED <<fireHost, ready, sightings, lost>> /\ {r} \in SUBSET Running
    BY <1>7 DEF CancelRun, RunTimesOut, ReplyComes
  <2>2. table[r] \in RunRecord /\ Sound(table[r]) /\ table[r].adapter = "open" /\ r \in FireIds
    BY <1>0, <2>1 DEF TableGood, Running
  <2>3. table[r].core = "running" /\ RecordTrue(table[r]) /\ table \in [FireIds -> RunRecord]
    BY <1>0, <2>2 DEF Sound, TableGood
  <2>4. acts' \in {acts, acts + 1} /\ acts' \in 0..MaxActs
    BY <1>0, <1>7 DEF CancelRun, RunTimesOut, ReplyComes, Act, NumbersOK
  <2>5. TableGood(table', later', lost') /\ on' \in BOOLEAN /\ ref' \in {0, ref} /\ trigger' = trigger
    <3>1. ASSUME NEW how \in {"completed", "failed", "cancelled"}, RunsEnd({r}, how, table)
          PROVE  TableGood(table', later', lost') /\ on' \in BOOLEAN /\ ref' \in {0, ref} /\ trigger' = trigger
      <4>1. how \in Outcomes /\ lost' = lost
        BY <2>1 DEF Outcomes
      <4> QED
        BY <2>1, <2>3, <3>1, <4>1, RecordEndsWell
    <3>2. CASE RunTimesOut(r)
      <4> DEFINE t == [table EXCEPT ![r].core = "failed"]
                 x == [table[r] EXCEPT !.core = "failed"]
      <4>1. RunsEnd({r}, "cancelled", t) /\ lost' = lost /\ "cancelled" \in Outcomes
        BY <2>1, <3>2 DEF RunTimesOut, Outcomes
      <4>2. x \in RunRecord /\ x.kind = table[r].kind /\ x.rec = table[r].rec /\ x.core = "failed"
        BY <2>2 DEF RunRecord, Outcomes
      <4>3. t \in [FireIds -> RunRecord] /\ t[r] = x /\ \A q \in FireIds \ {r} : t[q] = table[q]
        BY <2>3, <4>2
      <4>4. RecordTrue(t[r])
        BY <2>3, <4>2, <4>3 DEF RecordTrue, Outcomes
      <4> HIDE DEF t, x
      <4>5. t[r].core \in Outcomes \ {"completed"} /\ "cancelled" # "completed"
        BY <4>2, <4>3 DEF Outcomes
      <4> QED
        BY <2>1, <4>1, <4>2, <4>3, <4>4, <4>5, RecordEndsWell
    <3> QED
      BY <1>7, <3>1, <3>2 DEF CancelRun, ReplyComes
  <2>6. NumbersOK'
    <3>1. rows' \in 0..acts' /\ byHand' \in 0..acts'
      BY <1>0, <2>1, <2>4 DEF NumbersOK, fireHost
    <3> QED
      BY <1>0, <2>1, <2>4, <2>5, <3>1, NumbersGo DEF fireHost
  <2>7. FlagsOK'
    BY <1>0, <2>1, <2>5, Zenon DEF FlagsOK, fireHost, sightings
  <2>8. SightingsOK'
    BY <1>0, <2>1, <2>4, <2>5, SightingsStay
  <2> QED
    BY <1>0, <2>1, <2>5, <2>6, <2>7, <2>8 DEF FiringInv
<1>8. CASE StopFiring
  <2>1. /\ acts' = acts + 1 /\ acts' \in 0..MaxActs /\ ready' = FALSE /\ byHand' = 0
        /\ RunsEnd(Running, "interrupted", table)
        /\ UNCHANGED <<tasks, made, past, rows, sightings, lost>>
    BY <1>0, <1>8 DEF StopFiring, Act, NumbersOK
  <2>2. \A r \in Running : table[r].core = "running" /\ RecordTrue(table[r])
    BY <1>0 DEF TableGood, Sound, Running
  <2>3. TableGood(table', later', lost') /\ on' \in BOOLEAN /\ ref' \in {0, ref} /\ trigger' = trigger
    <3>1. "interrupted" \in Outcomes /\ table \in [FireIds -> RunRecord]
      BY <1>0 DEF Outcomes, TableGood
    <3> QED
      BY <2>1, <2>2, <3>1, RecordEndsWell
  <2>4. NumbersOK'
    BY <1>0, <2>1, <2>3 DEF NumbersOK
  <2>5. FlagsOK'
    BY <1>0, <2>1, <2>3, Zenon DEF FlagsOK, sightings
  <2>6. SightingsOK'
    BY <1>0, <2>1, <2>3, SightingsStay
  <2> QED
    BY <1>0, <2>1, <2>3, <2>4, <2>5, <2>6 DEF FiringInv
<1>9. CASE CrashFiring
  <2>1. /\ acts' = acts + 1 /\ acts' \in 0..MaxActs /\ ready' = FALSE /\ byHand' = 0
        /\ looking' = 0 /\ taking' = 0
        /\ UNCHANGED <<auto, tasks, made, past, rows, foremost, cool>>
    <3>1. acts \in 0..MaxActs /\ Act
      BY <1>0, <1>9 DEF CrashFiring, NumbersOK
    <3>2. acts' = acts + 1 /\ acts' \in 0..MaxActs
      BY <3>1 DEF Act
    <3> QED
      BY <1>9, <3>2 DEF CrashFiring
  <2>2. NumbersOK'
    <3>1. rows' \in 0..acts' /\ byHand' \in 0..acts'
      BY <1>0, <2>1 DEF NumbersOK
    <3> QED
      BY <1>0, <2>1, <3>1, NumbersGo DEF auto
  <2>3. FlagsOK'
    BY <1>0, <2>1, Zenon DEF FlagsOK, auto
  <2>4. SightingsOK'
    BY <1>0, <2>1 DEF SightingsOK, OneSighting
  <2> QED
    BY <1>9, <2>1, <2>2, <2>3, <2>4, CrashesWell DEF FiringInv
<1> QED
  BY <1>1, <1>2, <1>3, <1>4, <1>5, <1>6, <1>7, <1>8, <1>9 DEF FiringNext

LEMMA FiringStays == FiringInv /\ UNCHANGED firingVars => FiringInv'
  BY DEF FiringInv, FlagsOK, NumbersOK, TableGood, SightingsOK, OneSighting, firingVars, auto, fireHost, sightings

(***************************************************************************)
(* The life of the runtime                                                 *)
(***************************************************************************)
JobRecord ==
  [kind : Kinds, id : Jobs \union Hosts \union {0}, at : {"readying", "waiting", "wiring", "syncing", "tearing"},
   met : BOOLEAN, kills : Hosts \union {0}]

LEMMA JobIs ==
  ASSUME NEW kind \in Kinds, NEW id \in Jobs \union Hosts \union {0},
         NEW step \in {"readying", "waiting", "wiring", "syncing", "tearing"}, NEW met \in BOOLEAN,
         NEW kills \in Hosts \union {0}
  PROVE  /\ Job(kind, id, step, met, kills) \in JobRecord /\ Job(kind, id, step, met, kills).kind = kind
         /\ Job(kind, id, step, met, kills).id = id /\ Job(kind, id, step, met, kills).at = step
<1>1. Job(kind, id, step, met, kills) \in JobRecord
  BY Zenon DEF Job, JobRecord
<1> QED
  BY <1>1 DEF Job

LEMMA JobMoves ==
  ASSUME NEW j \in JobRecord, NEW step \in {"readying", "waiting", "wiring", "syncing", "tearing"}, NEW met \in BOOLEAN
  PROVE  /\ [j EXCEPT !.at = step, !.met = met] \in JobRecord /\ [j EXCEPT !.at = step] \in JobRecord
         /\ [j EXCEPT !.met = TRUE] \in JobRecord
         /\ [j EXCEPT !.at = step, !.met = met].kind = j.kind /\ [j EXCEPT !.at = step, !.met = met].id = j.id
         /\ [j EXCEPT !.at = step, !.met = met].at = step
         /\ [j EXCEPT !.at = step].kind = j.kind /\ [j EXCEPT !.at = step].id = j.id
         /\ [j EXCEPT !.at = step].at = step
         /\ [j EXCEPT !.met = TRUE].kind = j.kind /\ [j EXCEPT !.met = TRUE].id = j.id
         /\ [j EXCEPT !.met = TRUE].at = j.at
  BY DEF JobRecord

(* The jobs: each start has its own number, and only a start makes ready.  *)
JobsOK ==
  /\ jobs \subseteq JobRecord
  /\ \A j \in jobs : (j.kind = "start" => j.id \in Jobs) /\ (j.at = "readying" => j.kind = "start")
  /\ \A j, k \in jobs : j.kind = "start" /\ k.kind = "start" /\ j.id = k.id => j = k

(* The processes: the child of a supervisor is the one it spawned last,    *)
(* until its exit is heard; and there is a supervisor while any process or *)
(* any timer is of this life.                                              *)
HostsOK ==
  /\ supervisor \in Jobs \union {0} /\ child \in [Jobs -> Hosts \union {0}]
  /\ owner \in [Hosts -> Jobs \union {0}] /\ alive \subseteq Hosts /\ exits \subseteq Hosts
  /\ pidFile \in Hosts \union {0} /\ peer \in Hosts \union {0}
  /\ \A p \in alive \union exits : owner[p] # 0 => child[owner[p]] = p
  /\ \A p \in exits : owner[p] # 0
Led == ((\E p \in Hosts : owner[p] # 0) \/ timers # {}) => supervisor # 0
Untouched == \A j \in jobs : j.at = "readying" => j.id # supervisor /\ child[j.id] = 0

RestOK ==
  /\ starting \in Jobs \union {0} /\ rstate \in {"stopped", "starting", "ready", "degraded", "unavailable"}
  /\ restarts \in 0..Backoffs /\ timers \subseteq Hosts /\ restartTimer \in Hosts \union {0} /\ crashes \in Nat
SwitchesOK == reprobe \in BOOLEAN /\ stopping \in BOOLEAN /\ listening \in BOOLEAN

LifeInv == JobsOK /\ HostsOK /\ Led /\ Untouched /\ RestOK /\ SwitchesOK /\ MemoIsLive

LEMMA LifeFollows == LifeInv => LifeTypeOK /\ OneHostEach /\ MemoIsLive
<1> SUFFICES ASSUME LifeInv PROVE LifeTypeOK /\ OneHostEach /\ MemoIsLive
  OBVIOUS
<1>1. {reprobe, stopping, listening} \subseteq BOOLEAN
  BY Zenon DEF LifeInv, SwitchesOK
<1>2. LifeTypeOK
  BY <1>1 DEF LifeInv, RestOK, HostsOK, JobsOK, JobRecord, LifeTypeOK
<1>3. OneHostEach
  BY DEF LifeInv, HostsOK, OneHostEach
<1> QED
  BY <1>2, <1>3 DEF LifeInv

LEMMA LifeStarts == LifeInit => LifeInv
<1> SUFFICES ASSUME LifeInit PROVE LifeInv
  OBVIOUS
<1>1. SwitchesOK
  BY Zenon DEF LifeInit, SwitchesOK
<1>2. HostsOK /\ Led
  BY DEF LifeInit, HostsOK, Led
<1>3. JobsOK /\ Untouched /\ MemoIsLive
  BY DEF LifeInit, JobsOK, Untouched, MemoIsLive
<1>4. RestOK
  BY LifeBounds DEF LifeInit, RestOK
<1> QED
  BY <1>1, <1>2, <1>3, <1>4 DEF LifeInv

LEMMA LeastIs == ASSUME NEW S, S \subseteq Nat, S # {} PROVE Least(S) \in S
  BY LeastOf DEF Least

(* A supervisor without a child gets one, and no other's changes.          *)
LEMMA SpawnKeeps ==
  ASSUME HostsOK, NEW s \in Jobs, child[s] = 0, Spawn(s), supervisor' \in Jobs
  PROVE  /\ HostsOK' /\ \A i \in Jobs : i # s => child'[i] = child[i]
<1> DEFINE orphan == {pidFile} \intersect alive
<1>1. Fresh # {} /\ Fresh \subseteq Nat
  BY LifeBounds DEF Spawn, Fresh
<1>2. PICK p \in Fresh : p = Least(Fresh)
  BY <1>1, LeastIs
<1>3. p \in Hosts /\ p # 0 /\ p \notin alive \union exits
  BY <1>2, LifeBounds DEF Fresh
<1>4. /\ alive' = (alive \ orphan) \union {p}
      /\ exits' = exits \union {q \in orphan : owner[q] # 0}
      /\ owner' = [owner EXCEPT ![p] = s] /\ child' = [child EXCEPT ![s] = p] /\ pidFile' = p
      /\ peer' \in {peer, 0}
  BY <1>2 DEF Spawn, Unlinked
<1>5. owner'[p] = s /\ child'[s] = p /\ (\A q \in Hosts : q # p => owner'[q] = owner[q])
      /\ \A i \in Jobs : i # s => child'[i] = child[i]
  BY <1>3, <1>4 DEF HostsOK
<1>6. s # 0
  BY LifeBounds
<1>7. \A q \in alive \union exits : q # p /\ q # 0 /\ q \in Hosts /\ owner[q] # s
  <2>1. ASSUME NEW q \in alive \union exits PROVE q # p /\ q # 0 /\ q \in Hosts /\ owner[q] # s
    <3>1. q \in Hosts /\ q # p /\ q # 0
      BY <1>3, LifeBounds DEF HostsOK
    <3>2. owner[q] # s
      BY <1>6, <3>1 DEF HostsOK
    <3> QED
      BY <3>1, <3>2
  <2> QED
    BY <2>1
<1>8. \A q \in alive' \union exits' : q = p \/ q \in alive \union exits
  BY <1>4
<1>9. \A q \in alive' \union exits' : owner'[q] # 0 => child'[owner'[q]] = q
  <2>1. ASSUME NEW q \in alive \union exits, owner'[q] # 0 PROVE child'[owner'[q]] = q
    <3>1. owner'[q] = owner[q] /\ owner[q] # s /\ owner[q] \in Jobs
      BY <1>5, <1>7, <2>1 DEF HostsOK
    <3> QED
      BY <1>5, <2>1, <3>1 DEF HostsOK
  <2> QED
    BY <1>5, <1>8, <2>1
<1>10. \A q \in exits' : owner'[q] # 0
  <2>1. \A q \in exits' : q \in alive \union exits /\ owner[q] # 0
    BY <1>4 DEF HostsOK
  <2> QED
    BY <1>5, <1>7, <2>1
<1>11. /\ child' \in [Jobs -> Hosts \union {0}] /\ owner' \in [Hosts -> Jobs \union {0}]
       /\ alive' \subseteq Hosts /\ exits' \subseteq Hosts /\ pidFile' \in Hosts \union {0}
       /\ peer' \in Hosts \union {0}
  BY <1>3, <1>4 DEF HostsOK
<1> QED
  BY <1>5, <1>9, <1>10, <1>11 DEF HostsOK

(* A job that goes on, past its beginning, as itself.                      *)
LEMMA JobGoesOn ==
  ASSUME JobsOK, NEW j \in jobs, NEW k \in JobRecord, k.kind = j.kind, k.id = j.id, k.at # "readying",
         jobs' = (jobs \ {j}) \union {k}
  PROVE  /\ JobsOK' /\ (\A x \in jobs' : x.at = "readying" => x \in jobs)
         /\ \A x \in jobs : \E y \in jobs' : y.kind = x.kind /\ y.id = x.id
<1>1. \A x \in jobs' : x = k \/ (x \in jobs /\ x # j)
  OBVIOUS
<1>2. \A x, y \in jobs' : x.kind = "start" /\ y.kind = "start" /\ x.id = y.id => x = y
  BY <1>1 DEF JobsOK
<1>3. jobs' \subseteq JobRecord
  BY DEF JobsOK
<1>4. \A x \in jobs' : (x.kind = "start" => x.id \in Jobs) /\ (x.at = "readying" => x.kind = "start")
  BY <1>1 DEF JobsOK
<1>5. \A x \in jobs : \E y \in jobs' : y.kind = x.kind /\ y.id = x.id
  OBVIOUS
<1> QED
  BY <1>1, <1>2, <1>3, <1>4, <1>5 DEF JobsOK

LEMMA JobsFewer ==
  ASSUME JobsOK, jobs' \subseteq jobs PROVE JobsOK'
  BY DEF JobsOK

(* A teardown takes the place of its own start, and ends no other's.       *)
LEMMA TeardownKeeps ==
  ASSUME LifeInv, NEW kind \in {"start", "stop"}, NEW id \in Jobs \union {0}, kind = "start" => id \in Jobs,
         Teardown(kind, id)
  PROVE  /\ JobsOK' /\ (\A x \in jobs' : x.at = "readying" => x \in jobs)
         /\ timers' \subseteq timers /\ restartTimer' = 0 /\ UNCHANGED <<restarts, hostVars>>
         /\ \A x \in jobs : x.kind = "start" => \E y \in jobs' : y.kind = "start" /\ y.id = x.id
<1> DEFINE k == Job(kind, id, "tearing", FALSE, Child)
<1>1. /\ jobs' = {j \in jobs : ~(j.kind = kind /\ j.id = id)} \union {k}
      /\ timers' = timers \ {restartTimer} /\ restartTimer' = 0 /\ UNCHANGED <<restarts, hostVars>>
  BY DEF Teardown
<1>2. Child \in Hosts \union {0} /\ kind \in Kinds /\ id \in Jobs \union Hosts \union {0} /\ FALSE \in BOOLEAN
  BY DEF Child, LifeInv, HostsOK, Kinds
<1>3. k \in JobRecord /\ k.kind = kind /\ k.id = id /\ k.at = "tearing"
  <2>1. "tearing" \in {"readying", "waiting", "wiring", "syncing", "tearing"}
    OBVIOUS
  <2>2. k \in JobRecord
    BY <1>2, <2>1, Zenon DEF Job, JobRecord
  <2> QED
    BY <2>2 DEF Job
<1> HIDE DEF k
<1>4. JobsOK'
  <2>1. \A x \in jobs' : x = k \/ (x \in jobs /\ ~(x.kind = kind /\ x.id = id))
    BY <1>1
  <2>2. \A x, y \in jobs' : x.kind = "start" /\ y.kind = "start" /\ x.id = y.id => x = y
    BY <1>3, <2>1 DEF LifeInv, JobsOK
  <2>3. jobs' \subseteq JobRecord
    BY <1>1, <1>3 DEF LifeInv, JobsOK
  <2>4. \A x \in jobs' : (x.kind = "start" => x.id \in Jobs) /\ (x.at = "readying" => x.kind = "start")
    BY <1>3, <2>1 DEF LifeInv, JobsOK
  <2> QED
    BY <2>2, <2>3, <2>4 DEF JobsOK
<1>5. ASSUME NEW x \in jobs, x.kind = "start" PROVE \E y \in jobs' : y.kind = "start" /\ y.id = x.id
  <2>1. CASE x.kind = kind /\ x.id = id
    <3>1. k \in jobs' /\ k.kind = "start" /\ k.id = x.id
      BY <1>1, <1>3, <1>5, <2>1
    <3> QED
      BY <3>1
  <2>2. CASE ~(x.kind = kind /\ x.id = id)
    BY <1>1, <1>5, <2>2
  <2> QED
    BY <2>1, <2>2
<1> QED
  BY <1>1, <1>3, <1>4, <1>5

(* A start that begins has a number nothing refers to.                     *)
LEMMA BeginKeeps ==
  ASSUME LifeInv, Spare # {}, Begin(Least(Spare)), UNCHANGED <<backVars, hostVars, linkVars, crashes>>
  PROVE  LifeInv'
<1>1. Spare \subseteq Nat
  BY LifeBounds DEF Spare
<1>2. PICK i \in Spare : i = Least(Spare)
  BY <1>1, LeastIs
<1>3. /\ i \in Jobs /\ i # supervisor /\ child[i] = 0
      /\ \A j \in jobs : j.kind = "start" => j.id # i
  BY <1>2 DEF Spare
<1>4. HostsOK' /\ Led'
  BY DEF LifeInv, HostsOK, Led, hostVars, linkVars, backVars
<1>5. PICK step \in {"readying", "syncing"} :
        /\ starting' = i /\ reprobe' \in {reprobe, FALSE} /\ rstate' \in {rstate, "starting"}
        /\ stopping' \in {stopping, FALSE} /\ jobs' = jobs \union {Job("start", i, step, FALSE, 0)}
  BY <1>2 DEF Begin
<1> DEFINE k == Job("start", i, step, FALSE, 0)
<1>6. k \in JobRecord /\ k.kind = "start" /\ k.id = i /\ k.at = step
  <2>1. /\ "start" \in Kinds /\ i \in Jobs \union Hosts \union {0} /\ 0 \in Hosts \union {0} /\ FALSE \in BOOLEAN
        /\ step \in {"readying", "waiting", "wiring", "syncing", "tearing"}
    BY <1>3 DEF Kinds
  <2>2. k \in JobRecord
    BY <2>1, Zenon DEF Job, JobRecord
  <2> QED
    BY <2>2 DEF Job
<1>7. jobs' = jobs \union {k}
  BY <1>5
<1> HIDE DEF k
<1>8. SwitchesOK'
  BY <1>5, Zenon DEF LifeInv, SwitchesOK, linkVars
<1>9. RestOK'
  BY <1>3, <1>5 DEF LifeInv, RestOK, backVars
<1>10. JobsOK'
  BY <1>3, <1>6, <1>7 DEF LifeInv, JobsOK
<1>11. Untouched' /\ MemoIsLive'
  BY <1>3, <1>5, <1>6, <1>7 DEF LifeInv, Untouched, MemoIsLive, hostVars
<1> QED
  BY <1>4, <1>8, <1>9, <1>10, <1>11 DEF LifeInv

LEMMA LifeKeeps == LifeInv /\ LifeNext => LifeInv'
<1> SUFFICES ASSUME LifeInv, LifeNext PROVE LifeInv'
  OBVIOUS
<1> USE LifeBounds
<1>0. JobsOK /\ HostsOK /\ Led /\ Untouched /\ RestOK /\ SwitchesOK /\ MemoIsLive
  BY DEF LifeInv
<1>1. CASE StartRuntime \/ Reprobe
  BY <1>1, BeginKeeps DEF StartRuntime, Reprobe
<1>2. ASSUME NEW j \in jobs, Boot(j) PROVE LifeInv'
  <2> DEFINE k == [j EXCEPT !.at = "waiting", !.met = (peer' # 0)]
  <2>1. /\ j.at = "readying" /\ listening' = TRUE /\ supervisor' = j.id /\ Spawn(j.id)
        /\ jobs' = (jobs \ {j}) \union {k}
        /\ UNCHANGED <<coreVars, rstate, stopping, backVars, crashes>>
    BY <1>2 DEF Boot
  <2>2. j \in JobRecord /\ j.kind = "start" /\ j.id \in Jobs /\ child[j.id] = 0 /\ j.id # 0
    BY <1>0, <2>1 DEF JobsOK, Untouched
  <2>3. HostsOK' /\ \A i \in Jobs : i # j.id => child'[i] = child[i]
    BY <1>0, <2>1, <2>2, SpawnKeeps
  <2>4. k \in JobRecord /\ k.kind = j.kind /\ k.id = j.id /\ k.at = "waiting"
    BY <2>2 DEF JobRecord
  <2> HIDE DEF k
  <2>5. /\ JobsOK' /\ (\A x \in jobs' : x.at = "readying" => x \in jobs)
        /\ \A x \in jobs : \E y \in jobs' : y.kind = x.kind /\ y.id = x.id
    BY <1>0, <2>1, <2>4, JobGoesOn
  <2>6. Untouched'
    <3>1. ASSUME NEW x \in jobs', x.at = "readying" PROVE x.id # j.id /\ x.id \in Jobs /\ child[x.id] = 0
      <4>1. x \in jobs /\ x # j /\ x.kind = "start"
        BY <1>0, <2>1, <2>4, <2>5, <3>1 DEF JobsOK
      <4> QED
        BY <1>0, <2>2, <3>1, <4>1 DEF JobsOK, Untouched
    <3> QED
      BY <2>1, <2>3, <3>1 DEF Untouched
  <2>7. MemoIsLive'
    BY <1>0, <2>1, <2>5 DEF MemoIsLive, coreVars
  <2>8. RestOK' /\ Led'
    BY <1>0, <2>1, <2>2 DEF RestOK, Led, coreVars, backVars
  <2>9. SwitchesOK'
    BY <1>0, <2>1, Zenon DEF SwitchesOK, coreVars
  <2> QED
    BY <2>3, <2>5, <2>6, <2>7, <2>8, <2>9 DEF LifeInv
<1>3. ASSUME NEW j \in jobs, Fails(j) PROVE LifeInv'
  <2>1. /\ j.kind = "start" /\ Teardown("start", j.id)
        /\ UNCHANGED <<coreVars, rstate, stopping, linkVars, crashes>>
    BY <1>3 DEF Fails
  <2>2. j.id \in Jobs
    BY <1>0, <2>1 DEF JobsOK
  <2>3. /\ JobsOK' /\ (\A x \in jobs' : x.at = "readying" => x \in jobs)
        /\ timers' \subseteq timers /\ restartTimer' = 0 /\ UNCHANGED <<restarts, hostVars>>
        /\ \A x \in jobs : x.kind = "start" => \E y \in jobs' : y.kind = "start" /\ y.id = x.id
    BY <2>1, <2>2, TeardownKeeps
  <2>4. HostsOK' /\ Led' /\ Untouched' /\ MemoIsLive'
    BY <1>0, <2>1, <2>3 DEF HostsOK, Led, Untouched, MemoIsLive, hostVars, linkVars, coreVars
  <2>5. RestOK'
    BY <1>0, <2>1, <2>3 DEF RestOK, coreVars
  <2>6. SwitchesOK'
    BY <1>0, <2>1, Zenon DEF SwitchesOK, coreVars, linkVars
  <2> QED
    BY <2>3, <2>4, <2>5, <2>6 DEF LifeInv
<1>4. ASSUME NEW j \in jobs, Up(j) PROVE LifeInv'
  <2> DEFINE k == [j EXCEPT !.at = "wiring"]
  <2>1. /\ jobs' = (jobs \ {j}) \union {k}
        /\ UNCHANGED <<coreVars, rstate, stopping, backVars, hostVars, linkVars, crashes>>
    BY <1>4 DEF Up
  <2>2. k \in JobRecord /\ k.kind = j.kind /\ k.id = j.id /\ k.at = "wiring"
    <3>1. j \in JobRecord /\ TRUE \in BOOLEAN
      BY <1>0 DEF JobsOK
    <3> QED
      BY <3>1, JobMoves
  <2> HIDE DEF k
  <2>3. /\ JobsOK' /\ (\A x \in jobs' : x.at = "readying" => x \in jobs)
        /\ \A x \in jobs : \E y \in jobs' : y.kind = x.kind /\ y.id = x.id
    BY <1>0, <2>1, <2>2, JobGoesOn
  <2>4. HostsOK' /\ Led' /\ Untouched' /\ MemoIsLive' /\ RestOK'
    BY <1>0, <2>1, <2>3 DEF HostsOK, Led, Untouched, MemoIsLive, RestOK, hostVars, linkVars, coreVars, backVars
  <2>6. SwitchesOK'
    BY <1>0, <2>1, Zenon DEF SwitchesOK, coreVars, linkVars
  <2> QED
    BY <2>3, <2>4, <2>6 DEF LifeInv
<1>5. ASSUME NEW j \in jobs, Ready(j) PROVE LifeInv'
  <2> DEFINE k == [j EXCEPT !.at = "syncing"]
  <2>1. /\ jobs' = (jobs \ {j}) \union {k} /\ rstate' = "ready" /\ reprobe' = FALSE /\ starting' = starting
        /\ UNCHANGED <<stopping, backVars, hostVars, linkVars, crashes>>
    BY <1>5 DEF Ready
  <2>2. k \in JobRecord /\ k.kind = j.kind /\ k.id = j.id /\ k.at = "syncing"
    <3>1. j \in JobRecord /\ TRUE \in BOOLEAN
      BY <1>0 DEF JobsOK
    <3> QED
      BY <3>1, JobMoves
  <2> HIDE DEF k
  <2>3. /\ JobsOK' /\ (\A x \in jobs' : x.at = "readying" => x \in jobs)
        /\ \A x \in jobs : \E y \in jobs' : y.kind = x.kind /\ y.id = x.id
    BY <1>0, <2>1, <2>2, JobGoesOn
  <2>4. HostsOK' /\ Led' /\ Untouched' /\ MemoIsLive' /\ RestOK'
    BY <1>0, <2>1, <2>3 DEF HostsOK, Led, Untouched, MemoIsLive, RestOK, hostVars, linkVars, backVars
  <2>5. SwitchesOK'
    BY <1>0, <2>1, Zenon DEF SwitchesOK, linkVars
  <2> QED
    BY <2>3, <2>4, <2>5 DEF LifeInv
<1>14. ASSUME NEW j \in jobs, Reconciled(j) PROVE LifeInv'
  <2>1. /\ jobs' = jobs \ {j} /\ starting' = 0
        /\ UNCHANGED <<reprobe, rstate, stopping, backVars, hostVars, linkVars, crashes>>
    BY <1>14 DEF Reconciled
  <2>2. JobsOK'
    BY <1>0, <2>1, JobsFewer
  <2>3. HostsOK' /\ Led' /\ Untouched' /\ MemoIsLive' /\ RestOK'
    BY <1>0, <2>1 DEF HostsOK, Led, Untouched, MemoIsLive, RestOK, hostVars, linkVars, backVars
  <2>4. SwitchesOK'
    BY <1>0, <2>1, Zenon DEF SwitchesOK, linkVars
  <2> QED
    BY <2>2, <2>3, <2>4 DEF LifeInv
<1>6. ASSUME NEW j \in jobs, TearsDown(j) PROVE LifeInv'
  <2>1. /\ jobs' = jobs \ {j} /\ listening' = FALSE /\ peer' = 0
        /\ UNCHANGED <<stopping, backVars, hostVars, crashes>>
        /\ \/ j.kind = "start" /\ rstate' = "unavailable" /\ reprobe' = TRUE /\ starting' = 0
           \/ j.kind # "start" /\ rstate' = "stopped" /\ UNCHANGED <<reprobe, starting>>
    BY <1>6 DEF TearsDown, TornDown
  <2>2. JobsOK'
    BY <1>0, <2>1, JobsFewer
  <2>3. MemoIsLive'
    BY <1>0, <2>1 DEF MemoIsLive
  <2>4. HostsOK' /\ Led' /\ Untouched' /\ RestOK'
    BY <1>0, <2>1 DEF HostsOK, Led, Untouched, RestOK, hostVars, backVars
  <2>5. SwitchesOK'
    BY <1>0, <2>1, Zenon DEF SwitchesOK
  <2> QED
    BY <2>2, <2>3, <2>4, <2>5 DEF LifeInv
<1>7. ASSUME NEW j \in jobs, RestartEnds(j) PROVE LifeInv'
  <2>1. /\ j.kind = "restart" /\ jobs' = jobs \ {j} /\ rstate' \in {"ready", "degraded"} /\ restarts' \in {0, restarts}
        /\ UNCHANGED <<coreVars, stopping, timers, restartTimer, hostVars, linkVars, crashes>>
    BY <1>7 DEF RestartEnds
  <2>2. JobsOK'
    BY <1>0, <2>1, JobsFewer
  <2>3. MemoIsLive'
    BY <1>0, <2>1 DEF MemoIsLive, coreVars
  <2>4. HostsOK' /\ Led' /\ Untouched' /\ RestOK'
    BY <1>0, <2>1 DEF HostsOK, Led, Untouched, RestOK, hostVars, linkVars, coreVars
  <2>5. SwitchesOK'
    BY <1>0, <2>1, Zenon DEF SwitchesOK, coreVars, linkVars
  <2> QED
    BY <2>2, <2>3, <2>4, <2>5 DEF LifeInv
<1>8. ASSUME NEW p \in Hosts, Dies(p) PROVE LifeInv'
  <2>1. /\ p \in alive /\ alive' = alive \ {p} /\ peer' \in {peer, 0}
        /\ exits' = exits \/ (owner[p] # 0 /\ exits' = exits \union {p})
        /\ UNCHANGED <<coreVars, rstate, stopping, backVars, jobs, supervisor, child, owner,
                       pidFile, listening, crashes>>
    BY <1>8 DEF Dies, Unlinked
  <2>2. HostsOK'
    BY <1>0, <2>1 DEF HostsOK
  <2>3. JobsOK' /\ Led' /\ Untouched' /\ MemoIsLive' /\ RestOK'
    BY <1>0, <2>1 DEF JobsOK, Led, Untouched, MemoIsLive, RestOK, coreVars, backVars
  <2>4. SwitchesOK'
    BY <1>0, <2>1, Zenon DEF SwitchesOK, coreVars
  <2> QED
    BY <2>2, <2>3, <2>4 DEF LifeInv
<1>9. ASSUME NEW p \in Hosts, Exited(p) PROVE LifeInv'
  <2>1. /\ p \in exits /\ exits' = exits \ {p} /\ pidFile' = 0
        /\ child' = [child EXCEPT ![owner[p]] = 0] /\ owner' = [owner EXCEPT ![p] = 0]
        /\ UNCHANGED <<coreVars, stopping, jobs, supervisor, alive, linkVars, crashes>>
    BY <1>9 DEF Exited
  <2>2. owner[p] \in Jobs /\ owner[p] # 0 /\ child[owner[p]] = p /\ p # 0
    BY <1>0, <2>1 DEF HostsOK
  <2>3. /\ rstate' \in {rstate, "unavailable", "degraded"} /\ restarts' \in 0..Backoffs
        /\ timers' \subseteq timers \union {p} /\ restartTimer' \in Hosts \union {0}
    <3>1. CASE UNCHANGED <<rstate, backVars>> \/ (rstate' = "unavailable" /\ UNCHANGED backVars)
      BY <1>0, <3>1 DEF RestOK, backVars
    <3>2. CASE /\ ~(restarts >= Backoffs) /\ restarts' = restarts + 1 /\ rstate' = "degraded"
               /\ timers' = timers \union {p} /\ restartTimer' = p
      BY <1>0, <3>2 DEF RestOK
    <3> QED
      BY <1>9, <3>1, <3>2 DEF Exited, Restarts
  <2>4. RestOK'
    BY <1>0, <2>1, <2>3 DEF RestOK, coreVars
  <2>5. /\ child'[owner[p]] = 0 /\ (\A i \in Jobs : child'[i] = 0 \/ child'[i] = child[i])
        /\ (\A i \in Jobs : i # owner[p] => child'[i] = child[i])
        /\ owner'[p] = 0 /\ (\A q \in Hosts : q # p => owner'[q] = owner[q])
    BY <1>0, <2>1, <2>2 DEF HostsOK
  <2>6. ASSUME NEW q \in alive' \union exits', owner'[q] # 0 PROVE child'[owner'[q]] = q
    <3>1. q \in alive \union exits /\ q \in Hosts /\ q # p /\ owner'[q] = owner[q] /\ owner[q] \in Jobs
      BY <1>0, <2>1, <2>5, <2>6 DEF HostsOK
    <3>2. child[owner[q]] = q
      BY <1>0, <2>6, <3>1 DEF HostsOK
    <3>3. owner[q] # owner[p]
      BY <2>2, <3>1, <3>2
    <3> QED
      BY <2>5, <3>1, <3>2, <3>3
  <2>7. HostsOK'
    <3>1. /\ child' \in [Jobs -> Hosts \union {0}] /\ owner' \in [Hosts -> Jobs \union {0}]
          /\ alive' \subseteq Hosts /\ exits' \subseteq Hosts /\ pidFile' \in Hosts \union {0}
          /\ peer' \in Hosts \union {0} /\ supervisor' \in Jobs \union {0}
      BY <1>0, <2>1 DEF HostsOK, linkVars
    <3>2. \A q \in exits' : owner'[q] # 0
      BY <1>0, <2>1, <2>5 DEF HostsOK
    <3> QED
      BY <2>6, <3>1, <3>2 DEF HostsOK
  <2>8. Led' /\ Untouched'
    <3>1. supervisor # 0
      BY <1>0, <2>2 DEF Led
    <3>2. \A j \in jobs : j.at = "readying" => j.id \in Jobs
      BY <1>0 DEF JobsOK
    <3> QED
      BY <1>0, <2>1, <2>5, <3>1, <3>2 DEF Led, Untouched
  <2>9. JobsOK' /\ MemoIsLive'
    BY <1>0, <2>1 DEF JobsOK, MemoIsLive, coreVars
  <2>10. SwitchesOK'
    BY <1>0, <2>1, Zenon DEF SwitchesOK, coreVars, linkVars
  <2> QED
    BY <2>4, <2>7, <2>8, <2>9, <2>10 DEF LifeInv
<1>10. ASSUME NEW t \in Hosts, Restart(t) PROVE LifeInv'
  <2> DEFINE k == Job("restart", t, "waiting", peer' # 0, 0)
  <2>1. /\ t \in timers /\ timers' \subseteq timers /\ restartTimer' \in {0, restartTimer} /\ StartsAgain
        /\ jobs' = jobs \union {k}
        /\ UNCHANGED <<coreVars, rstate, stopping, restarts, listening, crashes>>
    BY <1>10 DEF Restart
  <2>2. supervisor # 0 /\ supervisor \in Jobs
    BY <1>0, <2>1 DEF Led, HostsOK
  <2>3. HostsOK' /\ supervisor' = supervisor /\ \A i \in Jobs : i # supervisor => child'[i] = child[i]
    <3>1. CASE UNCHANGED <<hostVars, peer>>
      BY <1>0, <3>1 DEF HostsOK, hostVars
    <3>2. CASE child[supervisor] = 0 /\ Spawn(supervisor) /\ supervisor' = supervisor
      BY <1>0, <2>2, <3>2, SpawnKeeps
    <3> QED
      BY <2>1, <3>1, <3>2 DEF StartsAgain
  <2>4. k \in JobRecord /\ k.kind = "restart" /\ k.at = "waiting"
    <3>1. /\ "restart" \in Kinds /\ t \in Jobs \union Hosts \union {0} /\ 0 \in Hosts \union {0}
          /\ (peer' # 0) \in BOOLEAN /\ "waiting" \in {"readying", "waiting", "wiring", "syncing", "tearing"}
      BY DEF Kinds
    <3>2. k \in JobRecord
      BY <3>1, Zenon DEF Job, JobRecord
    <3> QED
      BY <3>2 DEF Job
  <2> HIDE DEF k
  <2>5. JobsOK'
    BY <1>0, <2>1, <2>4 DEF JobsOK
  <2>6. Untouched'
    <3>1. \A j \in jobs : j.at = "readying" => j.id \in Jobs
      BY <1>0 DEF JobsOK
    <3> QED
      BY <1>0, <2>1, <2>3, <2>4, <3>1 DEF Untouched
  <2>7. MemoIsLive' /\ RestOK' /\ Led'
    BY <1>0, <2>1, <2>2, <2>3 DEF MemoIsLive, RestOK, Led, coreVars
  <2>8. SwitchesOK'
    BY <1>0, <2>1, Zenon DEF SwitchesOK, coreVars
  <2> QED
    BY <2>3, <2>5, <2>6, <2>7, <2>8 DEF LifeInv
<1>11. ASSUME NEW p \in Hosts, Hello(p) PROVE LifeInv'
  <2> DEFINE Met(j) == IF j.at = "waiting" THEN [j EXCEPT !.met = TRUE] ELSE j
  <2>1. /\ peer' = p /\ jobs' = {Met(j) : j \in jobs}
        /\ UNCHANGED <<coreVars, rstate, stopping, backVars, hostVars, listening, crashes>>
    BY <1>11 DEF Hello
  <2>2. \A j \in jobs : /\ Met(j) \in JobRecord /\ Met(j).kind = j.kind /\ Met(j).id = j.id /\ Met(j).at = j.at
    <3>1. ASSUME NEW j \in jobs PROVE Met(j) \in JobRecord /\ Met(j).kind = j.kind /\ Met(j).id = j.id /\ Met(j).at = j.at
      <4>1. j \in JobRecord /\ TRUE \in BOOLEAN /\ "waiting" \in {"readying", "waiting", "wiring", "syncing", "tearing"}
        BY <1>0 DEF JobsOK
      <4>2. CASE j.at = "waiting"
        BY <4>1, <4>2 DEF JobRecord
      <4>3. CASE j.at # "waiting"
        BY <4>1, <4>3
      <4> QED
        BY <4>2, <4>3
    <3> QED
      BY <3>1
  <2> HIDE DEF Met
  <2>3. JobsOK'
    <3>1. ASSUME NEW x \in jobs', NEW y \in jobs', x.kind = "start", y.kind = "start", x.id = y.id PROVE x = y
      <4>1. PICK i \in jobs, j \in jobs : x = Met(i) /\ y = Met(j)
        BY <2>1
      <4>2. i = j
        BY <1>0, <2>2, <3>1, <4>1 DEF JobsOK
      <4> QED
        BY <4>1, <4>2
    <3>2. /\ jobs' \subseteq JobRecord
          /\ \A x \in jobs' : (x.kind = "start" => x.id \in Jobs) /\ (x.at = "readying" => x.kind = "start")
      BY <1>0, <2>1, <2>2 DEF JobsOK
    <3> QED
      BY <3>1, <3>2 DEF JobsOK
  <2>4. Untouched' /\ MemoIsLive'
    BY <1>0, <2>1, <2>2 DEF Untouched, MemoIsLive, hostVars, coreVars
  <2>5. HostsOK' /\ Led' /\ RestOK'
    BY <1>0, <2>1 DEF HostsOK, Led, RestOK, hostVars, coreVars, backVars
  <2>6. SwitchesOK'
    BY <1>0, <2>1, Zenon DEF SwitchesOK, coreVars
  <2> QED
    BY <2>3, <2>4, <2>5, <2>6 DEF LifeInv
<1>12. CASE StopRuntime
  <2>1. reprobe' = FALSE /\ starting' = starting /\ UNCHANGED <<rstate, linkVars, crashes>>
    BY <1>12 DEF StopRuntime
  <2>2. CASE UNCHANGED <<stopping, backVars, jobs, hostVars>>
    <3>1. SwitchesOK'
      BY <1>0, <2>1, <2>2, Zenon DEF SwitchesOK, linkVars
    <3> QED
      BY <1>0, <2>1, <2>2, <3>1 DEF LifeInv, JobsOK, HostsOK, Led, Untouched, RestOK, MemoIsLive, hostVars, linkVars, backVars
  <2>3. CASE stopping' = TRUE /\ Teardown("stop", 0)
    <3>1. /\ JobsOK' /\ (\A x \in jobs' : x.at = "readying" => x \in jobs)
          /\ timers' \subseteq timers /\ restartTimer' = 0 /\ UNCHANGED <<restarts, hostVars>>
          /\ \A x \in jobs : x.kind = "start" => \E y \in jobs' : y.kind = "start" /\ y.id = x.id
      <4>1. "stop" \in {"start", "stop"} /\ 0 \in Jobs \union {0} /\ "stop" # "start"
        OBVIOUS
      <4> QED
        BY <2>3, <4>1, TeardownKeeps
    <3>2. HostsOK' /\ Led' /\ Untouched' /\ MemoIsLive' /\ RestOK'
      BY <1>0, <2>1, <3>1 DEF HostsOK, Led, Untouched, MemoIsLive, RestOK, hostVars, linkVars
    <3>3. SwitchesOK'
      BY <1>0, <2>1, <2>3, Zenon DEF SwitchesOK, linkVars
    <3> QED
      BY <3>1, <3>2, <3>3 DEF LifeInv
  <2> QED
    BY <1>12, <2>2, <2>3 DEF StopRuntime
<1>13. CASE CoreCrash
  <2>1. /\ crashes' = crashes + 1 /\ starting' = 0 /\ reprobe' = FALSE /\ rstate' = "stopped" /\ stopping' = FALSE
        /\ restarts' = 0 /\ timers' = {} /\ restartTimer' = 0 /\ jobs' = {}
        /\ supervisor' = 0 /\ child' = [s \in Jobs |-> 0] /\ owner' = [p \in Hosts |-> 0]
        /\ exits' = {} /\ listening' = FALSE /\ peer' = 0 /\ UNCHANGED <<alive, pidFile>>
    BY <1>13 DEF CoreCrash
  <2>2. SwitchesOK'
    BY <2>1, Zenon DEF SwitchesOK
  <2>3. HostsOK' /\ Led'
    BY <1>0, <2>1 DEF HostsOK, Led
  <2>4. JobsOK' /\ Untouched' /\ MemoIsLive' /\ RestOK'
    BY <1>0, <2>1 DEF JobsOK, Untouched, MemoIsLive, RestOK
  <2> QED
    BY <2>2, <2>3, <2>4 DEF LifeInv
<1> QED
  BY <1>1, <1>2, <1>3, <1>4, <1>5, <1>6, <1>7, <1>8, <1>9, <1>10, <1>11, <1>12, <1>13, <1>14 DEF LifeNext

LEMMA LifeStays == LifeInv /\ UNCHANGED lifeVars => LifeInv'
  BY DEF LifeInv, JobsOK, HostsOK, Led, Untouched, RestOK, SwitchesOK, MemoIsLive, lifeVars, coreVars, hostVars,
         linkVars, backVars

(***************************************************************************)
(* The gateway                                                             *)
(***************************************************************************)
Gates == [there : BOOLEAN, port : BOOLEAN, ends : BOOLEAN, of : 0..MaxLives, told : Models]
LaunchInv ==
  /\ life \in 0..MaxLives /\ gate \in [Slots -> Gates]
  /\ launched \in Slots \union {"none"} /\ reviving \in {"no", "asks", "waits"}
  /\ chosen \in Models /\ tells \subseteq Models /\ broken \in 0..MaxDeaths
  /\ \A g, h \in Slots : Ports(g) /\ Ports(h) => g = h
SwitchIs == up \in BOOLEAN /\ healthy \in BOOLEAN

LEMMA NoGate == MaxLives \in Nat /\ MaxChoices \in Nat /\ MaxDeaths \in Nat /\ None \in Gates /\ ~None.port /\ 0 \in Models
<1>1. MaxLives \in Nat /\ MaxChoices \in Nat /\ MaxDeaths \in Nat
  BY LaunchBounds
<1>2. 0 \in 0..MaxLives /\ 0 \in Models
  BY <1>1 DEF Models
<1>3. None \in Gates
  BY <1>2, Zenon DEF None, Gates
<1> QED
  BY <1>1, <1>2, <1>3 DEF None

LEMMA LaunchStarts == LaunchInit => LaunchInv /\ SwitchIs
<1> SUFFICES ASSUME LaunchInit PROVE LaunchInv /\ SwitchIs
  OBVIOUS
<1>1. SwitchIs
  BY Zenon DEF LaunchInit, SwitchIs
<1> QED
  BY <1>1, NoGate DEF LaunchInit, LaunchInv, Ports

LEMMA GatewayEndsWell ==
  ASSUME LaunchInv, NEW g \in Slots, GatewayEnds(g)
  PROVE  /\ gate' \in [Slots -> Gates] /\ launched' \in Slots \union {"none"}
         /\ \A a, b \in Slots : Ports(a)' /\ Ports(b)' => a = b
  BY NoGate DEF LaunchInv, GatewayEnds, Ports

LEMMA LaunchKeeps == LaunchInv /\ SwitchIs /\ LaunchNext => LaunchInv' /\ SwitchIs'
<1> SUFFICES ASSUME LaunchInv, SwitchIs, LaunchNext PROVE LaunchInv' /\ SwitchIs'
  OBVIOUS
<1> USE NoGate
<1>1. CASE OpenApp
  <2>1. SwitchIs'
    BY <1>1, Zenon DEF OpenApp, SwitchIs
  <2> QED
    BY <1>1, <2>1 DEF OpenApp, LaunchInv, Ports
<1>2. CASE QuitApp
  <2>1. SwitchIs'
    BY <1>2, Zenon DEF QuitApp, SwitchIs
  <2>3. \A g \in Slots : [gate[g] EXCEPT !.ends = TRUE] \in Gates /\ [gate[g] EXCEPT !.ends = TRUE].port = gate[g].port
    BY DEF LaunchInv, Gates
  <2>2. gate' \in [Slots -> Gates] /\ \A g \in Slots : gate'[g].port = gate[g].port
    BY <1>2, <2>3 DEF QuitApp, LaunchInv
  <2> QED
    BY <1>2, <2>1, <2>2 DEF QuitApp, LaunchInv, Ports
<1>3. CASE KillApp
  <2>1. SwitchIs'
    BY <1>3, Zenon DEF KillApp, SwitchIs
  <2> QED
    BY <1>3, <2>1 DEF KillApp, LaunchInv, Ports
<1>4. CASE Beat
  <2>1. healthy' = Answers /\ up' = up
    BY <1>4 DEF Beat
  <2>2. SwitchIs'
    BY <2>1, Zenon DEF Answers, SwitchIs
  <2> QED
    BY <1>4, <2>2 DEF Beat, LaunchInv, Ports
<1>5. CASE Ensure
  <2>1. SwitchIs'
    BY <1>5, Zenon DEF Ensure, SwitchIs
  <2>2. CASE UNCHANGED <<gate, launched>>
    BY <1>5, <2>1, <2>2 DEF Ensure, LaunchInv, Ports
  <2>3. ASSUME NEW g \in Slots, launched' = g, gate' = [gate EXCEPT ![g] = Born] PROVE LaunchInv'
    <3>1. Born \in Gates /\ ~Born.port
      BY DEF Born, LaunchInv, Gates, None
    <3> QED
      BY <1>5, <2>3, <3>1 DEF Ensure, LaunchInv, Ports
  <2> QED
    BY <1>5, <2>1, <2>2, <2>3 DEF Ensure
<1>6. CASE Poll
  <2>1. (Answers \/ healthy) \in BOOLEAN /\ UNCHANGED up
    BY <1>6 DEF Poll
  <2>2. SwitchIs'
    BY <1>6, <2>1, Zenon DEF Poll, SwitchIs
  <2> QED
    BY <1>6, <2>2 DEF Poll, LaunchInv, Ports
<1>7. ASSUME NEW m \in Models, Choose(m) PROVE LaunchInv' /\ SwitchIs'
  <2>1. SwitchIs'
    BY <1>7, Zenon DEF Choose, SwitchIs
  <2> QED
    BY <1>7, <2>1 DEF Choose, LaunchInv, Ports
<1>8. ASSUME NEW m \in Models, Hear(m) PROVE LaunchInv' /\ SwitchIs'
  <2>1. SwitchIs'
    BY <1>8, Zenon DEF Hear, SwitchIs
  <2>2. \A g \in Slots : [gate[g] EXCEPT !.told = m] \in Gates /\ [gate[g] EXCEPT !.told = m].port = gate[g].port
    BY DEF LaunchInv, Gates
  <2>3. gate' \in [Slots -> Gates] /\ \A g \in Slots : gate'[g].port = gate[g].port
    BY <1>8, <2>2 DEF Hear, LaunchInv
  <2> QED
    BY <1>8, <2>1, <2>3 DEF Hear, LaunchInv, Ports
<1>9. ASSUME NEW g \in Slots, Listen(g) PROVE LaunchInv' /\ SwitchIs'
  <2>1. SwitchIs'
    BY <1>9, Zenon DEF Listen, SwitchIs
  <2>2. CASE GatewayEnds(g)
    BY <1>9, <2>1, <2>2, GatewayEndsWell DEF Listen, LaunchInv
  <2>3. CASE ~Answers /\ gate' = [gate EXCEPT ![g].port = TRUE] /\ UNCHANGED launched
    <3>1. [gate[g] EXCEPT !.port = TRUE] \in Gates
      BY DEF LaunchInv, Gates
    <3>2. gate' \in [Slots -> Gates] /\ \A h \in Slots : h # g => gate'[h] = gate[h]
      BY <2>3, <3>1 DEF LaunchInv
    <3> QED
      BY <1>9, <2>1, <2>3, <3>2 DEF Listen, LaunchInv, Ports, Answers
  <2> QED
    BY <1>9, <2>2, <2>3 DEF Listen
<1>10. ASSUME NEW g \in Slots, Watch(g) PROVE LaunchInv' /\ SwitchIs'
  <2>1. SwitchIs'
    BY <1>10, Zenon DEF Watch, SwitchIs
  <2>3. [gate[g] EXCEPT !.ends = TRUE] \in Gates /\ [gate[g] EXCEPT !.ends = TRUE].port = gate[g].port
    BY DEF LaunchInv, Gates
  <2>2. gate' \in [Slots -> Gates] /\ \A h \in Slots : gate'[h].port = gate[h].port
    BY <1>10, <2>3 DEF Watch, LaunchInv
  <2> QED
    BY <1>10, <2>1, <2>2 DEF Watch, LaunchInv, Ports
<1>11. ASSUME NEW g \in Slots, Exit(g) \/ CrashGateway(g) PROVE LaunchInv' /\ SwitchIs'
  <2>1. SwitchIs'
    BY <1>11, Zenon DEF Exit, CrashGateway, SwitchIs
  <2>2. GatewayEnds(g) /\ broken' \in 0..MaxDeaths
    BY <1>11 DEF Exit, CrashGateway, LaunchInv
  <2> QED
    BY <1>11, <2>1, <2>2, GatewayEndsWell DEF Exit, CrashGateway, LaunchInv
<1> QED
  BY <1>1, <1>2, <1>3, <1>4, <1>5, <1>6, <1>7, <1>8, <1>9, <1>10, <1>11 DEF LaunchNext

LEMMA LaunchStays == LaunchInv /\ SwitchIs /\ UNCHANGED launchVars => LaunchInv' /\ SwitchIs'
<1> SUFFICES ASSUME LaunchInv, SwitchIs, UNCHANGED launchVars PROVE LaunchInv' /\ SwitchIs'
  OBVIOUS
<1>1. SwitchIs'
  BY Zenon DEF SwitchIs, launchVars
<1> QED
  BY <1>1 DEF LaunchInv, Ports, launchVars

(* One port, one gateway.                                                  *)
LEMMA LaunchFollows == LaunchInv /\ SwitchIs => LaunchTypeOK
<1> SUFFICES ASSUME LaunchInv, SwitchIs PROVE LaunchTypeOK
  OBVIOUS
<1>1. {up, healthy} \subseteq BOOLEAN
  BY Zenon DEF SwitchIs
<1>2. Cardinality({g \in Slots : Ports(g)}) <= 1
  <2>1. CASE {g \in Slots : Ports(g)} = {}
    BY <2>1, FS_EmptySet
  <2>2. CASE {g \in Slots : Ports(g)} # {}
    <3>1. PICK g \in Slots : Ports(g)
      BY <2>2
    <3>2. {h \in Slots : Ports(h)} = {g}
      BY <3>1 DEF LaunchInv
    <3>3. Cardinality({g}) = 1
      BY FS_Singleton
    <3> QED
      BY <3>2, <3>3
  <2> QED
    BY <2>1, <2>2
<1> QED
  BY <1>1, <1>2 DEF LaunchInv, Gates, LaunchTypeOK

(***************************************************************************)
(* What CoreProofs leaves out of the kinds of the policy and the store     *)
(***************************************************************************)
PolKinds ==
  /\ IsFiniteSet(openAsks) /\ Cardinality(openAsks) <= MaxCardsAsked
  /\ verdict \in [of : Actions \union {NoAction}, out : {"none", "ALLOW", "ASK_USER"}, had : SUBSET Known]
  /\ allowedFor \subseteq Talkers \X Known

LEMMA PolKindsStart == PolInit => PolKinds
<1> SUFFICES ASSUME PolInit PROVE PolKinds
  OBVIOUS
<1>1. IsFiniteSet(openAsks) /\ Cardinality(openAsks) = 0
  BY FS_EmptySet DEF PolInit
<1> QED
  BY <1>1, PolicyConstants DEF PolInit, PolKinds, NoVerdict

LEMMA PolKindsStay == PolInv /\ PolKinds /\ (PolNext \/ UNCHANGED polVars) => PolKinds'
<1> SUFFICES ASSUME PolInv, PolKinds, PolNext \/ UNCHANGED polVars PROVE PolKinds'
  OBVIOUS
<1>1. ASSUME NEW a \in Actions, AgentActs(a) PROVE PolKinds'
  <2>1. IsFiniteSet(openAsks')
    BY <1>1, FS_AddElement DEF AgentActs, PolKinds
  <2>2. GrantsOf(mayDo, a.chore) \subseteq Known
    BY DEF PolInv, GrantsOf
  <2>3. Decide(a) \in {"none", "ALLOW", "ASK_USER"}
    BY DEF Decide
  <2>4. verdict' \in [of : Actions \union {NoAction}, out : {"none", "ALLOW", "ASK_USER"}, had : SUBSET Known]
    BY <1>1, <2>2, <2>3 DEF AgentActs
  <2> QED
    BY <1>1, <2>1, <2>4 DEF AgentActs, PolKinds
<1>2. ASSUME NEW a \in openAsks, NEW yes \in BOOLEAN, NEW r \in {"once", "session"}, CardAnswered(a, yes, r)
      PROVE  PolKinds'
  <2>1. IsFiniteSet(openAsks') /\ Cardinality(openAsks') <= Cardinality(openAsks)
    BY <1>2, FS_Subset DEF CardAnswered, PolKinds
  <2>2. Cardinality(openAsks) \in Nat /\ Cardinality(openAsks') \in Nat
    BY <2>1, FS_CardinalityType DEF PolKinds
  <2>3. Cardinality(openAsks') <= MaxCardsAsked
    BY <2>1, <2>2, PolicyConstants DEF PolKinds
  <2>4. allowedFor' \subseteq Talkers \X Known
    <3>1. CASE UNCHANGED allowedFor
      BY <3>1 DEF PolKinds
    <3>2. CASE ~UNCHANGED allowedFor
      <4>1. /\ a.talk # NoOne /\ ScopeOf(a.name) # "unknown"
            /\ allowedFor' = allowedFor \union {<<a.talk, ScopeOf(a.name)>>}
        BY <1>2, <3>2 DEF CardAnswered
      <4>2. a \in Actions /\ a.talk \in Talkers /\ a.name \in SUBSET Known
        BY <4>1, PolicyConstants DEF PolInv, Actions
      <4>3. ScopeOf(a.name) \in Known
        BY <4>1, <4>2, ScopeIsFirst DEF ScopeOf
      <4> QED
        BY <4>1, <4>2, <4>3 DEF PolKinds
    <3> QED
      BY <3>1, <3>2
  <2> QED
    BY <1>2, <2>1, <2>3, <2>4 DEF CardAnswered, PolKinds
<1>3. ASSUME NEW c \in Chores, NEW S \in {{}, {"runtime.schedule"}}, ChoreChanges(c, S) PROVE PolKinds'
  BY <1>3 DEF ChoreChanges, PolKinds
<1>4. CASE GrantsLapse
  <2>1. IsFiniteSet(openAsks') /\ Cardinality(openAsks') = 0
    BY <1>4, FS_EmptySet DEF GrantsLapse
  <2> QED
    BY <1>4, <2>1, PolicyConstants DEF GrantsLapse, PolKinds, NoVerdict
<1>5. CASE UNCHANGED polVars
  BY <1>5 DEF polVars, PolKinds
<1> QED
  BY <1>1, <1>2, <1>3, <1>4, <1>5 DEF PolNext

LEMMA PolFollows == PolInv /\ PolKinds => PolTypeOK
  BY DEF PolInv, PolKinds, PolTypeOK

StoreKinds ==
  /\ db \in {"closed", "migrating", "open", "failed"} /\ taskRows \subseteq Tasks
  /\ goneTasks \subseteq Tasks /\ late \subseteq Rows
  /\ opens \in 0..MaxOpens /\ breaks \in 0..MaxBreaks

LEMMA StoreKindsStay == StoreKinds /\ (StoreNext \/ UNCHANGED storeVars) => StoreKinds'
<1> SUFFICES ASSUME StoreKinds, StoreNext \/ UNCHANGED storeVars PROVE StoreKinds'
  OBVIOUS
<1> USE StoreConstants
<1>1. ASSUME NEW v, OpensStore(v) \/ BeginsStep(v) PROVE StoreKinds'
  BY <1>1 DEF OpensStore, BeginsStep, StoreKinds, rowVars
<1>2. CASE StepRuns \/ StepCommits \/ Migrated \/ StepFails
  BY <1>2 DEF StepRuns, StepCommits, Migrated, StepFails, StoreKinds, rowVars
<1>3. ASSUME NEW r, RunInserted(r) \/ RunUpdated(r) \/ MessageAdded(r) PROVE StoreKinds'
  BY <1>3 DEF RunInserted, RunUpdated, MessageAdded, StoreKinds, schemaVars, tasksOf
<1>4. ASSUME NEW r \in Rows, NEW t, TaskRunInserted(r, t) PROVE StoreKinds'
  BY <1>4 DEF TaskRunInserted, StoreKinds, schemaVars
<1>5. ASSUME NEW t \in Tasks, TaskInserted(t) \/ TaskRunsDeleted(t) \/ TaskDeleted(t) PROVE StoreKinds'
  BY <1>5 DEF TaskInserted, TaskRunsDeleted, TaskDeleted, StoreKinds, schemaVars
<1>6. CASE TimePasses \/ RunsPruned \/ MessagesPruned \/ EventsPruned
  BY <1>6 DEF TimePasses, RunsPruned, MessagesPruned, EventsPruned, StoreKinds, schemaVars, tasksOf
<1>7. CASE StoreCloses
  BY <1>7 DEF StoreCloses, StoreKinds
<1>8. CASE UNCHANGED storeVars
  BY <1>8 DEF storeVars, schemaVars, rowVars, StoreKinds
<1> QED
  BY <1>1, <1>2, <1>3, <1>4, <1>5, <1>6, <1>7, <1>8 DEF StoreNext

(***************************************************************************)
(* All of them, whatever else is going on                                  *)
(***************************************************************************)
PartsInv == LifeInv /\ ToolInv /\ MockInv /\ ProvInv /\ FiringInv
KindsInv ==
  /\ PartsInv /\ GrantsInv /\ StoreInv /\ CronInv /\ FwInv
  /\ LaunchInv /\ SwitchIs /\ PolKinds /\ StoreKinds /\ leftover \in BOOLEAN

LEMMA PartsStart == CoreInit => PartsInv
  BY LifeStarts, ToolStarts, MockStarts, ProvStarts, FiringStarts DEF CoreInit, PartsInv

(* Every other part leaves them alone.                                     *)
LEMMA PartsStep ==
  ASSUME [CoreNext]_coreAll
  PROVE  /\ (LifeNext \/ UNCHANGED lifeVars) /\ (ToolNext \/ UNCHANGED toolVars)
         /\ (MockNext \/ UNCHANGED mockVars) /\ (ProvNext \/ UNCHANGED provVars)
         /\ (FiringNext \/ UNCHANGED firingVars)
<1>1. CASE OfLife \/ OfEgress
  BY <1>1 DEF OfLife, OfEgress
<1>2. CASE OfMock \/ OfLaunch
  BY <1>2 DEF OfMock, OfLaunch
<1>3. CASE OfTools \/ OfFires
  BY <1>3 DEF OfTools, OfFires
<1>4. CASE OfFiring \/ OfProvision
  BY <1>4 DEF OfFiring, OfProvision
<1>5. CASE OfPolicy \/ OfCron \/ OfStore
  BY <1>5 DEF OfPolicy, OfCron, OfStore, coreRest
<1>6. CASE UNCHANGED coreAll
  BY <1>6 DEF coreAll
<1> QED
  BY <1>1, <1>2, <1>3, <1>4, <1>5, <1>6 DEF CoreNext

LEMMA PartsStay == PartsInv /\ [CoreNext]_coreAll => PartsInv'
<1> SUFFICES ASSUME PartsInv, [CoreNext]_coreAll PROVE PartsInv'
  OBVIOUS
<1>1. LifeInv' /\ ToolInv'
  BY PartsStep, LifeKeeps, LifeStays, ToolKeeps, ToolStays DEF PartsInv
<1>2. MockInv' /\ ProvInv'
  BY PartsStep, MockKeeps, MockStays, ProvKeeps, ProvStays DEF PartsInv
<1>3. FiringInv'
  BY PartsStep, FiringKeeps, FiringStays DEF PartsInv
<1> QED
  BY <1>1, <1>2, <1>3 DEF PartsInv

LEMMA KindsStart == CoreInit => KindsInv
<1> SUFFICES ASSUME CoreInit PROVE KindsInv
  OBVIOUS
<1>1. PartsInv /\ GrantsInv /\ StoreInv /\ CronInv /\ FwInv /\ LaunchInv /\ SwitchIs
  BY PartsStart, GrantsStart, StoreStarts, CronStarts, FwStarts, LaunchStarts DEF CoreInit
<1>2. PolKinds /\ StoreKinds
  BY PolKindsStart, StoreConstants DEF CoreInit, StoreInit, StoreKinds
<1>3. leftover \in BOOLEAN
  BY Zenon DEF CoreInit, StoreInit
<1> QED
  BY <1>1, <1>2, <1>3 DEF KindsInv

LEMMA KindsStep ==
  ASSUME [CoreNext]_coreAll
  PROVE  /\ (LaunchNext \/ UNCHANGED launchVars) /\ (PolNext \/ UNCHANGED polVars)
         /\ (CronNext \/ UNCHANGED cronVars) /\ (StoreNext \/ UNCHANGED storeVars)
         /\ (FwNext \/ UNCHANGED fwVars)
<1>1. CASE OfLife \/ OfEgress
  BY <1>1 DEF OfLife, OfEgress
<1>2. CASE OfMock \/ OfLaunch
  BY <1>2 DEF OfMock, OfLaunch
<1>3. CASE OfTools \/ OfFires
  BY <1>3 DEF OfTools, OfFires
<1>4. CASE OfFiring \/ OfProvision
  BY <1>4 DEF OfFiring, OfProvision
<1>5. CASE OfPolicy \/ OfCron \/ OfStore
  BY <1>5 DEF OfPolicy, OfCron, OfStore, coreRest
<1>6. CASE UNCHANGED coreAll
  BY <1>6 DEF coreAll
<1> QED
  BY <1>1, <1>2, <1>3, <1>4, <1>5, <1>6 DEF CoreNext

(* What a prune that was cut short has left behind is known or it is not.  *)
LEMMA LeftoverIs == leftover \in BOOLEAN /\ (StoreNext \/ UNCHANGED storeVars) => leftover' \in BOOLEAN
<1> SUFFICES ASSUME leftover \in BOOLEAN, StoreNext \/ UNCHANGED storeVars PROVE leftover' \in BOOLEAN
  OBVIOUS
<1>1. CASE StoreCloses
  <2>1. leftover' = (leftover \/ (cutting # <<>> /\ Head(cutting) = "messages"))
    BY <1>1, Zenon DEF StoreCloses
  <2> QED
    BY <2>1
<1>2. CASE MessagesPruned
  BY <1>2, Zenon DEF MessagesPruned
<1>3. ASSUME ~StoreCloses, ~MessagesPruned PROVE leftover' = leftover
  <2>1. ASSUME NEW v, OpensStore(v) \/ BeginsStep(v) PROVE leftover' = leftover
    BY <2>1, Zenon DEF OpensStore, BeginsStep, rowVars
  <2>2. CASE StepRuns \/ StepCommits \/ Migrated \/ StepFails
    BY <2>2, Zenon DEF StepRuns, StepCommits, Migrated, StepFails, rowVars
  <2>3. ASSUME NEW r, RunInserted(r) \/ RunUpdated(r) \/ MessageAdded(r) PROVE leftover' = leftover
    BY <2>3, Zenon DEF RunInserted, RunUpdated, MessageAdded
  <2>4. ASSUME NEW r, NEW t, TaskRunInserted(r, t) PROVE leftover' = leftover
    BY <2>4, Zenon DEF TaskRunInserted
  <2>5. ASSUME NEW t, TaskInserted(t) \/ TaskRunsDeleted(t) \/ TaskDeleted(t) PROVE leftover' = leftover
    BY <2>5, Zenon DEF TaskInserted, TaskRunsDeleted, TaskDeleted
  <2>6. CASE TimePasses \/ RunsPruned \/ EventsPruned
    BY <2>6, Zenon DEF TimePasses, RunsPruned, EventsPruned
  <2>7. CASE UNCHANGED storeVars
    BY <2>7, Zenon DEF storeVars, rowVars
  <2> QED
    BY <1>3, <2>1, <2>2, <2>3, <2>4, <2>5, <2>6, <2>7, Zenon DEF StoreNext
<1> QED
  BY <1>1, <1>2, <1>3, Zenon

LEMMA KindsStay == KindsInv /\ [CoreNext]_coreAll => KindsInv'
<1> SUFFICES ASSUME KindsInv, [CoreNext]_coreAll PROVE KindsInv'
  OBVIOUS
<1>1. PartsInv' /\ GrantsInv'
  BY PartsStay, GrantsStay DEF KindsInv
<1>2. StoreInv' /\ CronInv' /\ FwInv'
  BY KindsStep, StoreStays, CronKeeps, CronStays, FwStays DEF KindsInv
<1>3. LaunchInv' /\ SwitchIs'
  BY KindsStep, LaunchKeeps, LaunchStays DEF KindsInv
<1>4. PolKinds' /\ StoreKinds'
  BY KindsStep, PolKindsStay, StoreKindsStay DEF KindsInv, GrantsInv
<1>5. leftover' \in BOOLEAN
  BY KindsStep, LeftoverIs DEF KindsInv
<1> QED
  BY <1>1, <1>2, <1>3, <1>4, <1>5 DEF KindsInv

LEMMA StoreFollows == StoreInv /\ StoreKinds /\ leftover \in BOOLEAN => StoreTypeOK
<1> SUFFICES ASSUME StoreInv, StoreKinds, leftover \in BOOLEAN PROVE StoreTypeOK
  OBVIOUS
<1>1. Len(Migrations) = 3
  BY DEF Migrations
<1>2. ledger \subseteq 1..3 /\ schema = UNION {Migrations[i] : i \in ledger}
  BY DEF StoreInv, SchemaIsWhole
<1>3. schema \subseteq UNION {Migrations[i] : i \in 1..3}
  BY <1>2, Zenon
<1>4. told \subseteq Rows
  BY DEF StoreInv
<1> QED
  BY <1>1, <1>3, <1>4 DEF StoreInv, StoreKinds, StoreTypeOK

(* Whatever they do and whatever is done to them, every variable of every  *)
(* part of Core holds a value of its kind: no count goes below nothing or  *)
(* past its bound, no reference is to what there is not, one gateway has   *)
(* the port (gateway/server.js, fren-core, permissions, store.js, cron.js, *)
(* schedule-watch.js, runtime-setup.js, automations.js).                   *)
THEOREM CoreTyped == CoreSpec => []CoreTypeOK
<1>1. KindsInv => LifeTypeOK /\ ToolTypeOK /\ MockTypeOK /\ ProvTypeOK /\ FiringTypeOK
  BY LifeFollows, FiringFollows DEF KindsInv, PartsInv, ToolInv, MockInv, ProvInv
<1>2. KindsInv => EgressTypeOK /\ PolTypeOK /\ StoreTypeOK
  BY PolFollows, StoreFollows DEF KindsInv, GrantsInv, EgressInv
<1>3. KindsInv => CronTypeOK
  BY DEF KindsInv, CronInv, FieldsOK, CronTypeOK
<1>4. KindsInv => FwTypeOK /\ LaunchTypeOK
  BY FwFollows, LaunchFollows DEF KindsInv
<1>5. KindsInv => CoreTypeOK
  BY <1>1, <1>2, <1>3, <1>4 DEF CoreTypeOK
<1> QED
  BY <1>5, KindsStart, KindsStay, PTL DEF CoreSpec

(* However starts, stops, restarts, exits and crashes of Core interleave:  *)
(* a supervisor has one process, the start a caller is handed still goes   *)
(* on, if only to reconcile the automations; and whatever of a start fails *)
(* or is cut short, a runtime that says ready has its entities and what    *)
(* its tier needs, and a stop leaves no agent (fren-core/index.js,         *)
(* supervisor.js, runtime-setup.js).                                       *)
THEOREM RuntimeIsWhole == CoreSpec => []RuntimeHolds
<1>1. PartsInv => RuntimeHolds
  BY LifeFollows, ReadyFollows DEF PartsInv, ProvInv, RuntimeHolds
<1> QED
  BY <1>1, PartsStart, PartsStay, PTL DEF CoreSpec

(* However late, often or wrongly the desktop answers, a call of an agent  *)
(* is answered once, with a page it may see or with none; a mock run that  *)
(* asks is running; and a schedule that fails PauseAfter times in a row is *)
(* off (fren-core/index.js handleToolCall, runtime-mock).                  *)
THEOREM AnswersAreOne == CoreSpec => []AnswersHold
<1>1. PartsInv => AnswersHold
  BY DEF PartsInv, ToolInv, MockInv, AnswersHold
<1> QED
  BY <1>1, PartsStart, PartsStay, PTL DEF CoreSpec

(* Whichever of the two signals of an end, a timeout, a cancel, a stop or  *)
(* a crash comes first: a record of an automation's run says what became   *)
(* of it, an open one is of a run that goes on or whose end is on its way, *)
(* and what a sighting starts is noted before it is waited for: one that   *)
(* no other automation comes before is started once, however many          *)
(* observations of the same window wait (automations.js).                  *)
THEOREM RecordsAreKept == CoreSpec => []RecordsHold
<1>1. PartsInv => RecordsHold
  BY FiringFollows DEF PartsInv, RecordsHold
<1> QED
  BY <1>1, PartsStart, PartsStay, PTL DEF CoreSpec

(* The parts around Core keep what they promise, all of it at any time:    *)
(* the runtime, the answers of agents, the records of automations, the     *)
(* store, the count of fires and the times of schedules, each up to what   *)
(* its property says it leaves out (fren-core, runtime-nanoclaw,           *)
(* runtime-mock, cron.js).                                                 *)
THEOREM PartsAreKept == CoreSpec => []PartsHold
<1>1. ASSUME RuntimeHolds, AnswersHold, RecordsHold,
             StoreHolds, FiresAreCounted, TimesAreFound
      PROVE  PartsHold
  BY <1>1 DEF PartsHold
<1> QED
  BY <1>1, RuntimeIsWhole, AnswersAreOne, RecordsAreKept,
     StoreIsWhole, FiresAreTold, TimesAreTheNext, PTL
=============================================================================
