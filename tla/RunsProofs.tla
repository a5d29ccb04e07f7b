----------------------------- MODULE RunsProofs -----------------------------
(* Proofs about runs, for any number of conversations, agents, words and     *)
(* faults.                                                                   *)
EXTENDS Runs, TLAPS

(* ThreadIsLive, strengthened: the run that has a thread is open on both     *)
(* sides, so words and typing on the thread reach a run that is not over.    *)
ThreadIsOpen ==
  \A t \in Threads : openBy[t] # None =>
    openBy[t] \in OpenRows \cap LiveRuns /\ Thread(openBy[t]) = t

(* A second stop ends Core's rows alone: by then no thread has a run. *)
StoppedIsThreadless ==
  /\ rt = "stopped" => \A t \in Threads : openBy[t] = None
  /\ core = "down" => rt = "stopped"

(* The face thinks only about runs that exist. *)
FaceIsOfARun ==
  \A r \in thinking : row[r] # "none"

Bookkeeping ==
  OneEnding /\ NoOrphans /\ ThreadIsOpen /\ OpenIsTimed /\ FaceRests /\ FaceIsOfARun

RunsInv == TypeOK /\ Bookkeeping /\ StoppedIsThreadless

(* The shape of what endings change. *)
EndingTypes ==
  /\ row \in [Run -> Status] /\ timer \subseteq Run /\ endings \in [Run -> Nat]
  /\ rtRun \in [Run -> Status] /\ openBy \in [Threads -> Run \cup {None}]
  /\ thinking \subseteq ChatRuns

-----------------------------------------------------------------------------
(* No run exists yet, so every part holds. *)
LEMMA RunsInit == Init => RunsInv
  <1> SUFFICES ASSUME Init PROVE RunsInv  OBVIOUS
  <1> USE DEF Init, OpenRows, Open
  <1>1. TypeOK  BY DEF TypeOK, Status
  <1>2. OneEnding  BY DEF OneEnding
  <1>3. NoOrphans /\ OpenIsTimed  BY DEF NoOrphans, OpenIsTimed
  <1>4. ThreadIsOpen  BY DEF ThreadIsOpen
  <1>5. FaceRests /\ FaceIsOfARun  BY DEF FaceRests, FaceIsOfARun
  <1>6. StoppedIsThreadless  BY DEF StoppedIsThreadless
  <1> QED  BY <1>1, <1>2, <1>3, <1>4, <1>5, <1>6 DEF RunsInv, Bookkeeping

(* Ending the runs of T in the adapter and of S in Core keeps the books, as  *)
(* long as neither side ends an open run the other keeps.                    *)
LEMMA EndingKeeps ==
  ASSUME RunsInv, NEW S \in SUBSET Run, NEW T \in SUBSET Run,
         NEW s \in Terminal, NEW u \in Terminal,
         CoreFinish(S, s), AdapterFinish(T, u),
         S \cap LiveRuns \subseteq T, T \cap OpenRows \subseteq S, core' = core
  PROVE  EndingTypes' /\ Bookkeeping'
  <1> USE DEF RunsInv, TypeOK, Bookkeeping, CoreFinish, AdapterFinish, OpenRows, LiveRuns
  <1>1. OpenRows' = OpenRows \ S
    BY DEF Open, Terminal
  <1>2. LiveRuns' = LiveRuns \ T
    BY DEF Open, Terminal
  <1>3. EndingTypes'
    <2>1. row' \in [Run -> Status] /\ rtRun' \in [Run -> Status]
      BY DEF Status
    <2>2. timer' \subseteq Run /\ thinking' \subseteq ChatRuns
      OBVIOUS
    <2>3. endings' \in [Run -> Nat]
      OBVIOUS
    <2>4. openBy' \in [Threads -> Run \cup {None}]
      OBVIOUS
    <2> QED  BY <2>1, <2>2, <2>3, <2>4 DEF EndingTypes
  <1>4. OneEnding'
    BY DEF OneEnding, Open, Terminal
  <1>5. NoOrphans'
    BY <1>1, <1>2 DEF NoOrphans
  <1>6. ThreadIsOpen'
    <2> SUFFICES ASSUME NEW t \in Threads, openBy'[t] # None
                 PROVE  openBy'[t] \in OpenRows' \cap LiveRuns' /\ Thread(openBy'[t]) = t
      BY DEF ThreadIsOpen
    <2>1. openBy'[t] = openBy[t] /\ openBy[t] \notin T \cap LiveRuns
      OBVIOUS
    <2>2. openBy[t] \in OpenRows \cap LiveRuns /\ Thread(openBy[t]) = t
      BY <2>1 DEF ThreadIsOpen
    <2> QED  BY <1>1, <1>2, <2>1, <2>2
  <1>7. OpenIsTimed'
    BY <1>1 DEF OpenIsTimed
  <1>8. FaceRests'
    BY DEF FaceRests, Run
  <1>9. FaceIsOfARun'
    BY DEF FaceIsOfARun, Run, Terminal
  <1> QED  BY <1>3, <1>4, <1>5, <1>6, <1>7, <1>8, <1>9

(* What the runtime's life does to runs when it ends none: a thread may lose *)
(* its run, nothing else.                                                    *)
LEMMA QuietKeeps ==
  ASSUME RunsInv, UNCHANGED <<core, row, timer, endings, rtRun, thinking>>,
         \A t \in Threads : openBy'[t] \in {openBy[t], None}
  PROVE  Bookkeeping'
  <1> USE DEF RunsInv, Bookkeeping
  <1>1. OpenRows' = OpenRows /\ LiveRuns' = LiveRuns
    BY DEF OpenRows, LiveRuns
  <1>2. OneEnding' /\ NoOrphans' /\ OpenIsTimed'
    BY <1>1 DEF OneEnding, NoOrphans, OpenIsTimed
  <1>3. ThreadIsOpen'
    BY <1>1 DEF ThreadIsOpen
  <1>4. FaceRests' /\ FaceIsOfARun'
    BY DEF FaceRests, FaceIsOfARun
  <1> QED  BY <1>2, <1>3, <1>4

-----------------------------------------------------------------------------
(* A new run takes its thread, open on both sides and timed. *)
LEMMA AcceptKeeps ==
  ASSUME RunsInv, NEW r \in Run, Accept(r)
  PROVE  RunsInv'
  <1> USE DEF RunsInv, Bookkeeping, Accept
  <1>1. Thread(r) \in Threads
    BY DEF Thread, Threads, Run
  <1>2. TypeOK'
    <2>1. row' \in [Run -> Status] /\ rtRun' \in [Run -> Status]
      BY DEF TypeOK, Status, Open
    <2>2. openBy' \in [Threads -> Run \cup {None}]
      BY DEF TypeOK
    <2>3. soon' \subseteq Run /\ timer' \subseteq Run
      BY DEF TypeOK
    <2>4. hostHas' \subseteq Run /\ hostWatch' \subseteq Run
      BY DEF TypeOK, hostVars
    <2>5. session' \in BOOLEAN
      BY Zenon DEF TypeOK
    <2> QED  BY <2>1, <2>2, <2>3, <2>4, <2>5 DEF TypeOK, bounds
  <1>3. OpenRows' = OpenRows \cup {r} /\ LiveRuns' = LiveRuns \cup {r}
    BY DEF TypeOK, OpenRows, LiveRuns, Open
  <1>4. OneEnding'
    BY DEF TypeOK, OneEnding, Terminal
  <1>5. NoOrphans' /\ OpenIsTimed'
    BY <1>3 DEF NoOrphans, OpenIsTimed
  <1>6. ThreadIsOpen'
    BY <1>1, <1>3 DEF TypeOK, ThreadIsOpen
  <1>7. FaceRests' /\ FaceIsOfARun'
    BY DEF FaceRests, FaceIsOfARun, TypeOK
  <1>8. StoppedIsThreadless'
    BY DEF StoppedIsThreadless
  <1> QED  BY <1>2, <1>4, <1>5, <1>6, <1>7, <1>8

(* A refused run is over as soon as it exists; the thread may lose the run   *)
(* it had, no other run is touched.                                          *)
LEMMA RefuseKeeps ==
  ASSUME RunsInv, NEW r \in Run, Refuse(r)
  PROVE  RunsInv'
  <1> USE DEF RunsInv, Bookkeeping, Refuse
  <1>1. TypeOK'
    <2>1. row' \in [Run -> Status]  BY DEF TypeOK, Status, Terminal
    <2>2. endings' \in [Run -> Nat]  BY DEF TypeOK
    <2>3. openBy' \in [Threads -> Run \cup {None}]  BY DEF TypeOK
    <2>4. session' \in BOOLEAN  BY Zenon DEF TypeOK
    <2> QED  BY <2>1, <2>2, <2>3, <2>4 DEF TypeOK, bounds, hostVars
  <1>2. OpenRows' = OpenRows /\ LiveRuns' = LiveRuns
    BY DEF TypeOK, OpenRows, LiveRuns, Open
  <1>3. OneEnding'
    BY DEF TypeOK, OneEnding, Terminal
  <1>4. NoOrphans' /\ OpenIsTimed'
    BY <1>2 DEF NoOrphans, OpenIsTimed
  <1>5. \A t \in Threads : openBy'[t] \in {openBy[t], None}
    BY DEF TypeOK
  <1>6. ThreadIsOpen'
    BY <1>2, <1>5 DEF ThreadIsOpen
  <1>7. r \notin thinking
    BY DEF FaceIsOfARun
  <1>8. FaceRests' /\ FaceIsOfARun'
    BY <1>7 DEF FaceRests, FaceIsOfARun, TypeOK
  <1>9. StoppedIsThreadless'
    BY <1>5 DEF StoppedIsThreadless
  <1> QED  BY <1>1, <1>3, <1>4, <1>6, <1>8, <1>9

(* Words land on the run that has the thread: open on both sides, and timed. *)
LEMMA DeliverKeeps ==
  ASSUME RunsInv, NEW r \in Run, Deliver(r)
  PROVE  RunsInv'
  <1> USE DEF RunsInv, Bookkeeping, Deliver
  <1>1. Thread(r) \in Threads
    BY DEF Thread, Threads, Run
  <1>2. PICK on \in Run \cup {None} : on = openBy[Thread(r)]
    BY <1>1 DEF TypeOK
  <1>3. misplaced' \subseteq Run /\ words' \in Nat
    BY DEF TypeOK
  <1>4. CASE on = None
    <2>1. TypeOK'
      BY <1>2, <1>3, <1>4 DEF TypeOK, lifeVars, hostVars
    <2>2. Bookkeeping'
      BY <1>2, <1>4, QuietKeeps
    <2>3. StoppedIsThreadless'
      BY DEF StoppedIsThreadless, lifeVars
    <2> QED  BY <2>1, <2>2, <2>3
  <1>5. CASE on # None
    <2>1. on \in Run /\ on \in OpenRows \cap LiveRuns
      BY <1>1, <1>2, <1>5 DEF ThreadIsOpen
    <2>2. /\ rtRun' = [rtRun EXCEPT ![on] = IF @ = "queued" THEN "running" ELSE @]
          /\ row' = [row EXCEPT ![on] = IF @ = "queued" /\ rtRun[on] = "queued" THEN "running" ELSE @]
          /\ said' = [said EXCEPT ![on] = @ + 1]
          /\ timer' = timer \cup {on}
      BY <1>2, <1>5
    <2>3. row' \in [Run -> Status] /\ rtRun' \in [Run -> Status]
      BY <2>1, <2>2 DEF TypeOK, Status, Open
    <2>4. said' \in [Run -> Nat] /\ timer' \subseteq Run
      BY <2>1, <2>2 DEF TypeOK
    <2>5. TypeOK'
      BY <1>3, <2>3, <2>4 DEF TypeOK, lifeVars, hostVars
    <2>6. OpenRows' = OpenRows /\ LiveRuns' = LiveRuns
      BY <2>1, <2>2 DEF TypeOK, OpenRows, LiveRuns, Open
    <2>7. OneEnding'
      BY <2>1, <2>2 DEF TypeOK, OneEnding, OpenRows, Open, Terminal
    <2>8. NoOrphans' /\ OpenIsTimed'
      BY <2>2, <2>6 DEF NoOrphans, OpenIsTimed
    <2>9. ThreadIsOpen'
      BY <2>6 DEF ThreadIsOpen
    <2>10. FaceRests' /\ FaceIsOfARun'
      BY <2>2 DEF FaceRests, FaceIsOfARun, TypeOK
    <2>11. StoppedIsThreadless'
      BY DEF StoppedIsThreadless, lifeVars
    <2> QED  BY <2>5, <2>7, <2>8, <2>9, <2>10, <2>11
  <1> QED  BY <1>4, <1>5

(* A run the adapter has queued starts, in both records. *)
LEMMA StartedKeeps ==
  ASSUME RunsInv, NEW r \in Run, Started(r)
  PROVE  RunsInv'
  <1> USE DEF RunsInv, Bookkeeping, Started
  <1>1. row' \in [Run -> Status] /\ rtRun' \in [Run -> Status]
    BY DEF TypeOK, Status, Open
  <1>2. TypeOK'
    BY <1>1 DEF TypeOK, lifeVars, hostVars, bounds
  <1>3. OpenRows' = OpenRows /\ LiveRuns' = LiveRuns
    BY DEF TypeOK, OpenRows, LiveRuns, Open
  <1>4. OneEnding'
    BY DEF TypeOK, OneEnding, Terminal
  <1>5. NoOrphans' /\ OpenIsTimed' /\ ThreadIsOpen'
    BY <1>3 DEF NoOrphans, OpenIsTimed, ThreadIsOpen
  <1>6. FaceRests' /\ FaceIsOfARun'
    BY DEF FaceRests, FaceIsOfARun, TypeOK, Run
  <1>7. StoppedIsThreadless'
    BY DEF StoppedIsThreadless, lifeVars
  <1> QED  BY <1>2, <1>4, <1>5, <1>6, <1>7

(* The face starts to think only about a run that has its thread. *)
LEMMA TypingKeeps ==
  ASSUME RunsInv, NEW t \in Threads, Typing(t)
  PROVE  RunsInv'
  <1> USE DEF RunsInv, Bookkeeping, Typing, coreVars, lifeVars, adapterVars, hostVars, bounds
  <1>1. openBy[t] \in OpenRows
    BY DEF ThreadIsOpen
  <1>2. TypeOK'
    BY DEF TypeOK
  <1>3. OpenRows' = OpenRows /\ LiveRuns' = LiveRuns
    BY DEF OpenRows, LiveRuns
  <1>4. OneEnding' /\ NoOrphans' /\ OpenIsTimed' /\ ThreadIsOpen'
    BY <1>3 DEF OneEnding, NoOrphans, OpenIsTimed, ThreadIsOpen
  <1>5. endings[openBy[t]] = 0 /\ row[openBy[t]] # "none"
    BY <1>1 DEF OpenRows, Open, Terminal, OneEnding, TypeOK
  <1>6. FaceRests' /\ FaceIsOfARun'
    BY <1>5 DEF FaceRests, FaceIsOfARun
  <1>7. StoppedIsThreadless'
    BY DEF StoppedIsThreadless
  <1> QED  BY <1>2, <1>4, <1>6, <1>7

-----------------------------------------------------------------------------
(* Every step keeps the invariant. *)
LEMMA RunsStep == RunsInv /\ [Next]_vars => RunsInv'
  <1> SUFFICES ASSUME RunsInv, [Next]_vars PROVE RunsInv'  OBVIOUS
  <1> USE DEF RunsInv
  <1>0. RunsInv /\ TypeOK /\ Bookkeeping /\ StoppedIsThreadless
    OBVIOUS
  <1>1. ASSUME NEW r \in Run, Cancel(r) PROVE RunsInv'
    <2>1. /\ CoreFinish({r}, "cancelled") /\ AdapterFinish({r}, "cancelled")
          /\ UNCHANGED <<core, lifeVars, soon, hostVars, said, misplaced, bounds>>
      BY <1>1 DEF Cancel
    <2>2. EndingTypes' /\ Bookkeeping'
      BY <2>1, EndingKeeps DEF Terminal
    <2>3. TypeOK'
      BY <2>1, <2>2 DEF TypeOK, EndingTypes, lifeVars, hostVars, bounds
    <2>4. StoppedIsThreadless'
      BY <2>1 DEF StoppedIsThreadless, AdapterFinish, lifeVars, TypeOK
    <2> QED  BY <2>2, <2>3, <2>4
  <1>2. ASSUME NEW r \in Run, TimeoutFires(r) PROVE RunsInv'
    <2>1. UNCHANGED <<core, lifeVars, soon, hostVars, said, misplaced, bounds>>
      BY <1>2 DEF TimeoutFires
    <2>2. CASE row[r] \in Open
      <3>1. CoreFinish({r}, "failed") /\ AdapterFinish({r}, "cancelled")
        BY <1>2, <2>2 DEF TimeoutFires
      <3>2. EndingTypes' /\ Bookkeeping'
        BY <2>1, <3>1, EndingKeeps DEF Terminal
      <3>3. TypeOK'
        BY <2>1, <3>2 DEF TypeOK, EndingTypes, lifeVars, hostVars, bounds
      <3>4. StoppedIsThreadless'
        BY <2>1, <3>1 DEF StoppedIsThreadless, AdapterFinish, lifeVars, TypeOK
      <3> QED  BY <3>2, <3>3, <3>4
    <2>3. CASE row[r] \notin Open
      <3>1. timer' = timer \ {r} /\ UNCHANGED <<row, endings, thinking, rtRun, openBy>>
        BY <1>2, <2>3 DEF TimeoutFires
      <3>2. TypeOK'
        BY <2>1, <3>1 DEF TypeOK, lifeVars, hostVars, bounds
      <3>3. OpenRows' = OpenRows /\ LiveRuns' = LiveRuns /\ r \notin OpenRows
        BY <2>3, <3>1 DEF OpenRows, LiveRuns
      <3>4. OneEnding' /\ NoOrphans' /\ OpenIsTimed' /\ ThreadIsOpen'
        BY <2>1, <3>1, <3>3 DEF Bookkeeping, OneEnding, NoOrphans, OpenIsTimed, ThreadIsOpen
      <3>5. FaceRests' /\ FaceIsOfARun'
        BY <3>1 DEF Bookkeeping, FaceRests, FaceIsOfARun
      <3>6. StoppedIsThreadless'
        BY <2>1, <3>1 DEF StoppedIsThreadless, lifeVars
      <3> QED  BY <3>2, <3>4, <3>5, <3>6 DEF Bookkeeping
    <2> QED  BY <2>2, <2>3
  <1>3. ASSUME NEW r \in Run, Turn(r) PROVE RunsInv'
    <2>1. UNCHANGED <<core, lifeVars, soon, hostHas, said, misplaced, bounds>> /\ hostWatch' \subseteq Run
      BY <1>3 DEF Turn, TypeOK
    <2>2. CASE core = "up" /\ peer
      <3>1. PICK s \in {"completed", "failed"} : RuntimeEnds({r}, s)
        BY <1>3, <2>2 DEF Turn
      <3>2. AdapterFinish({r}, s) /\ CoreFinish({r} \cap LiveRuns, s)
        BY <3>1 DEF RuntimeEnds
      <3>3. {r} \cap OpenRows \subseteq {r} \cap LiveRuns
        BY <2>2 DEF Bookkeeping, NoOrphans
      <3>4. EndingTypes' /\ Bookkeeping'
        BY <2>1, <3>2, <3>3, EndingKeeps DEF Terminal, LiveRuns
      <3>5. TypeOK'
        BY <2>1, <3>4 DEF TypeOK, EndingTypes, lifeVars, bounds
      <3>6. StoppedIsThreadless'
        BY <2>1, <3>2 DEF StoppedIsThreadless, AdapterFinish, lifeVars, TypeOK
      <3> QED  BY <3>4, <3>5, <3>6
    <2>3. CASE ~(core = "up" /\ peer)
      <3>1. UNCHANGED <<row, timer, endings, rtRun, openBy, thinking>>
        BY <1>3, <2>3 DEF Turn, coreVars
      <3>2. Bookkeeping'
        BY <2>1, <3>1, QuietKeeps
      <3>3. TypeOK'
        BY <2>1, <3>1 DEF TypeOK, lifeVars, bounds
      <3>4. StoppedIsThreadless'
        BY <2>1, <3>1 DEF StoppedIsThreadless, lifeVars
      <3> QED  BY <3>2, <3>3, <3>4
    <2> QED  BY <2>2, <2>3
  <1>4. CASE HostExit
    <2>1. AdapterFinish(Run, "failed") /\ CoreFinish(Run \cap LiveRuns, "failed") /\ core' = core
      BY <1>4 DEF HostExit, RuntimeEnds
    <2>2. Run \cap OpenRows \subseteq Run \cap LiveRuns
      BY <1>4 DEF HostExit, Bookkeeping, NoOrphans
    <2>3. EndingTypes' /\ Bookkeeping'
      BY <2>1, <2>2, EndingKeeps DEF Terminal, LiveRuns, OpenRows
    <2>4. restarting' \in BOOLEAN
      BY <1>4, Zenon DEF HostExit, TypeOK
    <2>5. faults' \in Nat /\ rt' \in {"degraded", "unavailable"}
      BY <1>4 DEF HostExit, TypeOK
    <2>6. TypeOK'
      BY <1>4, <2>3, <2>4, <2>5 DEF HostExit, TypeOK, EndingTypes
    <2>7. StoppedIsThreadless'
      BY <1>4, <2>5 DEF HostExit, StoppedIsThreadless
    <2> QED  BY <2>3, <2>6, <2>7
  <1>5. CASE StopBegins
    <2>1. /\ CoreFinish(Run, "interrupted") /\ core = "up"
          /\ UNCHANGED <<core, rt, starting, peer, session, soon, hostVars, said, misplaced, words, crashes>>
      BY <1>5 DEF StopBegins
    <2>2. faults' \in Nat
      BY <1>5 DEF StopBegins, TypeOK
    <2>3. CASE rt = "stopped"
      <3>1. UNCHANGED <<rtRun, openBy, stopping, tearing, restarting>>
        BY <1>5, <2>3 DEF StopBegins
      <3>2. \A t \in Threads : openBy[t] = None
        BY <2>3 DEF StoppedIsThreadless
      <3>3. OpenRows' = {}
        BY <2>1 DEF CoreFinish, OpenRows, Open, TypeOK
      <3>4. row' \in [Run -> Status] /\ endings' \in [Run -> Nat]
        BY <2>1 DEF CoreFinish, TypeOK, Status, Terminal
      <3>5. timer' \subseteq Run /\ thinking' \subseteq ChatRuns
        BY <2>1 DEF CoreFinish, TypeOK
      <3>6. TypeOK'
        BY <2>1, <2>2, <3>1, <3>4, <3>5 DEF TypeOK, hostVars
      <3>7. OneEnding'
        BY <2>1 DEF CoreFinish, Bookkeeping, OneEnding, OpenRows, Open, Terminal, TypeOK
      <3>8. NoOrphans' /\ OpenIsTimed'
        BY <3>3 DEF NoOrphans, OpenIsTimed
      <3>9. ThreadIsOpen'
        BY <3>1, <3>2 DEF ThreadIsOpen
      <3>10. FaceRests'
        BY <2>1 DEF CoreFinish, Bookkeeping, FaceRests, TypeOK, Run
      <3>11. FaceIsOfARun'
        BY <2>1 DEF CoreFinish, Bookkeeping, FaceIsOfARun, TypeOK, Run
      <3>12. StoppedIsThreadless'
        BY <2>1, <3>1 DEF StoppedIsThreadless
      <3> QED  BY <3>6, <3>7, <3>8, <3>9, <3>10, <3>11, <3>12 DEF Bookkeeping
    <2>4. CASE rt # "stopped"
      <3>1. AdapterFinish(Run, "interrupted") /\ stopping' = TRUE /\ tearing' = TRUE
        BY <1>5, <2>4 DEF StopBegins
      <3>2. EndingTypes' /\ Bookkeeping'
        BY <2>1, <3>1, EndingKeeps DEF Terminal, LiveRuns, OpenRows
      <3>3. restarting' \in BOOLEAN
        BY <1>5, <2>4, Zenon DEF StopBegins, TypeOK
      <3>4. TypeOK'
        BY <2>1, <2>2, <3>1, <3>2, <3>3 DEF TypeOK, EndingTypes, hostVars
      <3>5. StoppedIsThreadless'
        BY <2>1, <2>4 DEF StoppedIsThreadless
      <3> QED  BY <3>2, <3>4, <3>5
    <2> QED  BY <2>3, <2>4
  <1>6. ASSUME StartCalled \/ StartSucceeds \/ StartFails \/ LinkUp \/ LinkDown \/ Restarted \/ StopEnds
        PROVE  RunsInv'
    <2>1. /\ UNCHANGED <<core, row, timer, endings, rtRun, thinking>> /\ core = "up"
          /\ UNCHANGED <<soon, hostHas, said, misplaced, session, words, crashes>>
          /\ openBy' = openBy \/ openBy' = [t \in Threads |-> None]
          /\ hostWatch' = hostWatch \/ hostWatch' = {}
          /\ faults' = faults \/ faults' = faults + 1
      BY <1>6 DEF StartCalled, StartSucceeds, StartFails, LinkUp, LinkDown, Restarted, StopEnds,
                  runVars, coreVars, adapterVars, hostVars, bounds
    <2>2. /\ rt' \in {"stopped", "starting", "ready", "degraded", "unavailable"}
          /\ rt' = "stopped" => openBy' = [t \in Threads |-> None] \/ (rt = "stopped" /\ openBy' = openBy)
      BY <1>6 DEF StartCalled, StartSucceeds, StartFails, LinkUp, LinkDown, Restarted, StopEnds,
                  runVars, adapterVars, TypeOK
    <2>3. \A t \in Threads : openBy'[t] \in {openBy[t], None}
      BY <2>1
    <2>4. Bookkeeping'
      BY <2>1, <2>3, QuietKeeps
    <2>5. /\ stopping' \in BOOLEAN /\ starting' \in BOOLEAN /\ tearing' \in BOOLEAN
          /\ restarting' \in BOOLEAN /\ peer' \in BOOLEAN
      BY <1>6, Zenon DEF StartCalled, StartSucceeds, StartFails, LinkUp, LinkDown, Restarted, StopEnds,
                         TypeOK
    <2>6. openBy' \in [Threads -> Run \cup {None}] /\ faults' \in Nat
      BY <2>1 DEF TypeOK
    <2>7. TypeOK'
      BY <2>1, <2>2, <2>5, <2>6 DEF TypeOK
    <2>8. StoppedIsThreadless'
      BY <2>1, <2>2 DEF StoppedIsThreadless
    <2> QED  BY <2>4, <2>7, <2>8
  <1>7. CASE Crash
    <2>1. TypeOK'
      <3>1. crashes' \in Nat  BY <1>7 DEF Crash, TypeOK
      <3>2. /\ rtRun' \in [Run -> Status] /\ openBy' \in [Threads -> Run \cup {None}]
        BY <1>7 DEF Crash, Status
      <3> QED  BY <1>7, <3>1, <3>2 DEF Crash, TypeOK
    <2>2. OneEnding' /\ NoOrphans' /\ OpenIsTimed'
      BY <1>7 DEF Crash, Bookkeeping, OneEnding, NoOrphans, OpenIsTimed
    <2>3. ThreadIsOpen' /\ StoppedIsThreadless'
      BY <1>7 DEF Crash, ThreadIsOpen, StoppedIsThreadless
    <2>4. FaceRests' /\ FaceIsOfARun'
      BY <1>7 DEF Crash, Bookkeeping, FaceRests, FaceIsOfARun
    <2> QED  BY <2>1, <2>2, <2>3, <2>4 DEF Bookkeeping
  <1>8. CASE Boot
    <2>1. /\ row' = [r \in Run |-> IF r \in OpenRows THEN "interrupted" ELSE row[r]]
          /\ core' = "up" /\ rt' = "starting" /\ core = "down"
          /\ UNCHANGED <<timer, endings, openBy, rtRun, thinking>>
      BY <1>8 DEF Boot, adapterVars
    <2>2. row' \in [Run -> Status]
      BY <2>1 DEF TypeOK, Status, Terminal
    <2>3. TypeOK'
      BY <1>8, <2>1, <2>2 DEF Boot, TypeOK, adapterVars, hostVars, bounds
    <2>4. OpenRows' = {}
      BY <2>1 DEF OpenRows, Open
    <2>5. OneEnding' /\ NoOrphans' /\ OpenIsTimed'
      BY <2>1, <2>4 DEF Bookkeeping, OneEnding, NoOrphans, OpenIsTimed, OpenRows, Open, Terminal
    <2>6. ThreadIsOpen' /\ StoppedIsThreadless'
      BY <2>1 DEF ThreadIsOpen, StoppedIsThreadless
    <2>7. FaceRests' /\ FaceIsOfARun'
      BY <2>1 DEF Bookkeeping, FaceRests, FaceIsOfARun, TypeOK, Run
    <2> QED  BY <2>3, <2>5, <2>6, <2>7 DEF Bookkeeping
  <1>9. CASE UNCHANGED vars
    <2>1. TypeOK'
      BY <1>9 DEF vars, coreVars, lifeVars, adapterVars, hostVars, bounds, TypeOK
    <2>2. Bookkeeping'
      BY <1>9, QuietKeeps DEF vars, coreVars, adapterVars
    <2>3. StoppedIsThreadless'
      BY <1>9 DEF vars, lifeVars, adapterVars, StoppedIsThreadless
    <2> QED  BY <2>1, <2>2, <2>3
  <1>10. ASSUME Requests PROVE RunsInv'
    BY <1>0, <1>1, <1>10, AcceptKeeps, RefuseKeeps DEF Requests
  <1>11. ASSUME Reports PROVE RunsInv'
    BY <1>0, <1>3, <1>11, StartedKeeps, DeliverKeeps, TypingKeeps DEF Reports
  <1> QED
    BY <1>2, <1>4, <1>5, <1>6, <1>7, <1>8, <1>9, <1>10, <1>11 DEF Next, RuntimeLife, CoreLife

(* What FinalIsFinal says of one step. *)
KeepsFinal ==
  \A r \in Run : row[r] \in Terminal => row'[r] = row[r] /\ said'[r] = said[r]

(* Nothing reopens a final run, and nothing is said on it: endings touch     *)
(* open rows alone, and words land only on a run that has its thread.        *)
LEMMA FinalStep == RunsInv /\ [Next]_vars => KeepsFinal
  <1> SUFFICES ASSUME RunsInv, [Next]_vars, NEW q \in Run, row[q] \in Terminal
               PROVE  row'[q] = row[q] /\ said'[q] = said[q]
    BY DEF KeepsFinal
  <1>1. row \in [Run -> Status] /\ said \in [Run -> Nat] /\ q \notin OpenRows
    BY DEF RunsInv, TypeOK, OpenRows, Open, Terminal
  <1>2. ASSUME NEW S, NEW s, CoreFinish(S, s) PROVE row'[q] = row[q]
    BY <1>1, <1>2 DEF CoreFinish
  <1>3. ASSUME NEW r \in Run, Accept(r) \/ Refuse(r) \/ Started(r)
        PROVE  row'[q] = row[q] /\ said'[q] = said[q]
    BY <1>1, <1>3 DEF Accept, Refuse, Started, Terminal
  <1>4. ASSUME NEW r \in Run, Cancel(r) \/ TimeoutFires(r) \/ Turn(r)
        PROVE  row'[q] = row[q] /\ said'[q] = said[q]
    BY <1>2, <1>4 DEF Cancel, TimeoutFires, Turn, RuntimeEnds, coreVars
  <1>5. ASSUME NEW r \in Run, Deliver(r)
        PROVE  row'[q] = row[q] /\ said'[q] = said[q]
    <2>1. Thread(r) \in Threads
      BY DEF Thread, Threads, Run
    <2>2. openBy[Thread(r)] # None => openBy[Thread(r)] \in OpenRows
      BY <2>1 DEF RunsInv, Bookkeeping, ThreadIsOpen
    <2> QED  BY <1>1, <1>5, <2>2 DEF Deliver
  <1>6. ASSUME NEW t \in Threads, Typing(t)
        PROVE  row'[q] = row[q] /\ said'[q] = said[q]
    BY <1>6 DEF Typing, coreVars
  <1>7. CASE HostExit \/ StopBegins
    BY <1>2, <1>7 DEF HostExit, StopBegins, RuntimeEnds
  <1>8. CASE \/ StartCalled \/ StartSucceeds \/ StartFails \/ LinkUp \/ LinkDown \/ Restarted
             \/ StopEnds \/ Crash
    BY <1>8 DEF StartCalled, StartSucceeds, StartFails, LinkUp, LinkDown, Restarted, StopEnds,
                Crash, runVars, coreVars
  <1>9. CASE Boot
    BY <1>1, <1>9 DEF Boot
  <1>10. CASE UNCHANGED vars
    BY <1>10 DEF vars, coreVars
  <1> QED
    BY <1>3, <1>4, <1>5, <1>6, <1>7, <1>8, <1>9, <1>10 DEF Next, Requests, Reports, RuntimeLife, CoreLife

-----------------------------------------------------------------------------
(* The invariant holds in every state: RunsInit and RunsStep. *)
LEMMA RunsHold == Spec => []RunsInv
  BY RunsInit, RunsStep, PTL DEF Spec

(* TypeOK, for any number of runs and faults. *)
THEOREM RunsTyped == Spec => []TypeOK
  <1>1. RunsInv => TypeOK  BY DEF RunsInv
  <1> QED  BY <1>1, RunsHold, PTL

(* A run ends once, whichever of the turn, the timeout, a cancel, a stop, a  *)
(* host's death or a crash comes first (runs.js finish, the adapter's        *)
(* finishRun).                                                               *)
THEOREM RunsAreKept == Spec => []OneEnding
  <1>1. RunsInv => OneEnding  BY DEF RunsInv, Bookkeeping
  <1> QED  BY <1>1, RunsHold, PTL

(* What Core holds open the runtime still has: there is no run that nothing  *)
(* but its timeout could end (runs.js start, the adapter's newRun).          *)
THEOREM NobodyIsOrphaned == Spec => []NoOrphans
  <1>1. RunsInv => NoOrphans  BY DEF RunsInv, Bookkeeping
  <1> QED  BY <1>1, RunsHold, PTL

(* Whatever is open is timed, so that it ends if all else is silent (runs.js *)
(* armTimeout).                                                              *)
THEOREM OpenRunsAreTimed == Spec => []OpenIsTimed
  <1>1. RunsInv => OpenIsTimed  BY DEF RunsInv, Bookkeeping
  <1> QED  BY <1>1, RunsHold, PTL

(* A thread's words and typing reach only a run of that thread that is not   *)
(* over (the adapter's openByThread).                                        *)
THEOREM ThreadsAreLive == Spec => []ThreadIsLive
  <1>1. RunsInv => ThreadIsLive
    BY DEF RunsInv, Bookkeeping, ThreadIsOpen, ThreadIsLive
  <1> QED  BY <1>1, RunsHold, PTL

(* The face never thinks of a run it was told is over (main's run events).   *)
THEOREM FacesRest == Spec => []FaceRests
  <1>1. RunsInv => FaceRests  BY DEF RunsInv, Bookkeeping
  <1> QED  BY <1>1, RunsHold, PTL

(* FinalIsFinal: after its ending a run's status and its words are fixed,    *)
(* through stops, restarts and crashes of Core.                              *)
THEOREM FinalStays == Spec => FinalIsFinal
  <1>1. RunsInv /\ [Next]_vars => [KeepsFinal]_vars  BY FinalStep
  <1>2. Spec => [][KeepsFinal]_vars  BY <1>1, RunsHold, PTL DEF Spec
  <1> QED  BY <1>2 DEF FinalIsFinal, KeepsFinal
=============================================================================
