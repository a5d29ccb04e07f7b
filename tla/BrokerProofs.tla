---------------------------- MODULE BrokerProofs ----------------------------
(* Proofs about the permission broker, for every set of asks and holds.      *)
EXTENDS PermissionBroker, TLAPS

(* What the strengthening needs: while Core has not crashed, an open hold    *)
(* still has its caller.                                                     *)
HoldsWait ==
  crashes = 0 => OpenCards \cap Holds \subseteq waiting

(* A card's time runs only once it is raised. *)
DueIsRaised ==
  \A c \in due : row[c] # "none"

BrokerInv == DueIsRaised /\ TypeOK /\ ActsMatchCards /\ WaitersHaveCards /\ HoldsWait /\ CallersHear

(* The parts that are about cards, whatever else a step does. *)
CardInv == DueIsRaised /\ ActsMatchCards /\ WaitersHaveCards /\ HoldsWait /\ CallersHear

-----------------------------------------------------------------------------
(* The broker starts with no card, so every part holds. *)
LEMMA BrokerInit == Init => BrokerInv
  <1> SUFFICES ASSUME Init PROVE BrokerInv  OBVIOUS
  <1> USE DEF Init, Cards
  <1>1. TypeOK  BY DEF TypeOK
  <1>2. ActsMatchCards  BY DEF ActsMatchCards
  <1>3. WaitersHaveCards  BY DEF WaitersHaveCards
  <1>4. HoldsWait  BY DEF HoldsWait, OpenCards
  <1>5. CallersHear  BY DEF CallersHear, Closed
  <1>6. DueIsRaised  BY DEF DueIsRaised
  <1> QED  BY <1>1, <1>2, <1>3, <1>4, <1>5, <1>6 DEF BrokerInv

(* Expiring open cards keeps what was said and what the cards say together,  *)
(* however many expire at once: the sweep, a late answer, a stop, a boot.    *)
LEMMA ExpireKeeps ==
  ASSUME BrokerInv, NEW S, S \subseteq OpenCards, Expire(S), UNCHANGED <<due, crashes>>
  PROVE  /\ row' \in [Cards -> {"none", "open"} \cup Closed]
         /\ waiting' \subseteq Holds /\ pending' \subseteq Asks
         /\ heard' \in [Holds -> {"none", "approve", "deny"}]
         /\ host' \in [Asks -> {"none", "held", "withdrawn", "approve", "reject"}]
         /\ CardInv'
  <1> USE BrokerAssumption DEF BrokerAssumption, BrokerInv, TypeOK, Expire, AnswerRuntime, AnswerCallers,
                               OpenCards, Cards, Closed
  <1>1. row' \in [Cards -> {"none", "open"} \cup Closed]
    OBVIOUS
  <1>2. waiting' \subseteq Holds /\ pending' \subseteq Asks
    OBVIOUS
  <1>3. heard' \in [Holds -> {"none", "approve", "deny"}]
    OBVIOUS
  <1>4. host' \in [Asks -> {"none", "held", "withdrawn", "approve", "reject"}]
    OBVIOUS
  <1>5. ActsMatchCards'
    BY DEF ActsMatchCards
  <1>6. WaitersHaveCards'
    BY DEF WaitersHaveCards
  <1>7. HoldsWait'
    BY DEF HoldsWait
  <1>8. CallersHear'
    BY DEF CallersHear, HoldsWait
  <1>9. DueIsRaised'
    BY DEF DueIsRaised
  <1> QED  BY <1>1, <1>2, <1>3, <1>4, <1>5, <1>6, <1>7, <1>8, <1>9 DEF CardInv

(* Answering one open card, yes or no, keeps them together too. *)
LEMMA AnswerKeeps ==
  ASSUME BrokerInv, NEW c \in OpenCards, NEW status \in {"approved", "denied"},
         row' = [row EXCEPT ![c] = status],
         AnswerRuntime({c}, IF status = "approved" THEN "approve" ELSE "reject"),
         AnswerCallers({c}, IF status = "approved" THEN "approve" ELSE "deny"),
         UNCHANGED <<due, crashes>>
  PROVE  /\ row' \in [Cards -> {"none", "open"} \cup Closed]
         /\ waiting' \subseteq Holds /\ pending' \subseteq Asks
         /\ heard' \in [Holds -> {"none", "approve", "deny"}]
         /\ host' \in [Asks -> {"none", "held", "withdrawn", "approve", "reject"}]
         /\ CardInv'
  <1> USE BrokerAssumption DEF BrokerAssumption, BrokerInv, TypeOK, AnswerRuntime, AnswerCallers,
                               OpenCards, Cards, Closed
  <1>1. row' \in [Cards -> {"none", "open"} \cup Closed]
    OBVIOUS
  <1>2. waiting' \subseteq Holds /\ pending' \subseteq Asks
    OBVIOUS
  <1>3. heard' \in [Holds -> {"none", "approve", "deny"}]
    OBVIOUS
  <1>4. host' \in [Asks -> {"none", "held", "withdrawn", "approve", "reject"}]
    OBVIOUS
  <1>5. ActsMatchCards'
    BY DEF ActsMatchCards
  <1>6. WaitersHaveCards'
    BY DEF WaitersHaveCards
  <1>7. HoldsWait'
    BY DEF HoldsWait
  <1>8. CallersHear'
    BY DEF CallersHear, HoldsWait
  <1>9. DueIsRaised'
    BY DEF DueIsRaised
  <1> QED  BY <1>1, <1>2, <1>3, <1>4, <1>5, <1>6, <1>7, <1>8, <1>9 DEF CardInv

-----------------------------------------------------------------------------
(* A new ask is recorded, and answered or left open, without a caller or     *)
(* another card being touched.                                               *)
LEMMA AskedKeeps ==
  ASSUME BrokerInv, NEW a \in Asks, Asked(a)
  PROVE  BrokerInv'
  <1> DEFINE auto == KeyOf[a] \in Standing \cup grants
  <1> USE BrokerAssumption DEF BrokerAssumption, Asked, OpenCards, Cards, Closed
  <1>1. row' = [row EXCEPT ![a] = IF auto THEN "approved" ELSE "open"]
    BY DEF BrokerInv
  <1>2. pending' = IF auto THEN pending ELSE pending \cup {a}
    OBVIOUS
  <1>3. /\ host' \in [Asks -> {"none", "held", "withdrawn", "approve", "reject"}]
        /\ \A b \in Asks \ {a} : host'[b] = host[b]
        /\ host'[a] # "reject" /\ (host'[a] = "approve" => auto)
    BY DEF BrokerInv, TypeOK
  <1>4. faults' \in Nat /\ link' \in BOOLEAN
    <2>0. faults' = faults \/ faults' = faults + 1  OBVIOUS
    <2>1. faults' \in Nat  BY <2>0 DEF BrokerInv, TypeOK
    <2>2. CASE UNCHANGED <<link, faults>>  BY <2>1, <2>2 DEF BrokerInv, TypeOK
    <2>3. CASE link' = FALSE
      <3>1. link' \in BOOLEAN  BY <2>3, Zenon
      <3> QED  BY <2>1, <3>1
    <2> QED  BY <2>2, <2>3
  <1> HIDE DEF auto
  <1>5. TypeOK'
    BY <1>1, <1>2, <1>3, <1>4 DEF BrokerInv, TypeOK
  <1>6. ActsMatchCards'
    BY <1>1, <1>3 DEF BrokerInv, TypeOK, ActsMatchCards
  <1>7. WaitersHaveCards'
    BY <1>1, <1>2 DEF BrokerInv, TypeOK, WaitersHaveCards
  <1>8. HoldsWait' /\ CallersHear'
    BY <1>1 DEF BrokerInv, TypeOK, HoldsWait, CallersHear
  <1>9. DueIsRaised'
    BY <1>1 DEF BrokerInv, TypeOK, DueIsRaised
  <1> QED  BY <1>5, <1>6, <1>7, <1>8, <1>9 DEF BrokerInv

(* Every step of the broker keeps the invariant, action by action. *)
LEMMA BrokerStep == BrokerInv /\ [Next]_vars => BrokerInv'
  <1> SUFFICES ASSUME BrokerInv, [Next]_vars PROVE BrokerInv'
    OBVIOUS
  <1> USE BrokerAssumption DEF BrokerAssumption
  <1>1. CASE \E a \in Asks : Asked(a)
    BY <1>1, AskedKeeps
  <1>2. CASE \E h \in Holds : Held(h)
    BY <1>2 DEF Held, hostVars, BrokerInv, TypeOK, ActsMatchCards, WaitersHaveCards, HoldsWait,
                CallersHear, DueIsRaised, OpenCards, Cards, Closed
  <1>3. ASSUME NEW c \in Cards, Approve(c) PROVE BrokerInv'
    <2>1. c \in OpenCards
      BY <1>3 DEF Approve, OpenCards
    <2>2. /\ row' = [row EXCEPT ![c] = "approved"] /\ UNCHANGED <<due, crashes>>
          /\ AnswerRuntime({c}, "approve") /\ AnswerCallers({c}, "approve")
      BY <1>3 DEF Approve
    <2>3. grants' \subseteq Keys
      BY <1>3 DEF Approve, BrokerInv, TypeOK
    <2> QED  BY <1>3, <2>1, <2>2, <2>3, AnswerKeeps DEF Approve, BrokerInv, CardInv, TypeOK
  <1>4. ASSUME NEW c \in Cards, Deny(c) PROVE BrokerInv'
    <2>1. c \in OpenCards
      BY <1>4 DEF Deny, OpenCards
    <2>2. /\ row' = [row EXCEPT ![c] = "denied"] /\ UNCHANGED <<due, crashes>>
          /\ AnswerRuntime({c}, "reject") /\ AnswerCallers({c}, "deny")
      BY <1>4 DEF Deny
    <2> QED  BY <1>4, <2>1, <2>2, AnswerKeeps DEF Deny, BrokerInv, CardInv, TypeOK
  <1>5. ASSUME NEW c \in Cards, AnswerTooLate(c) PROVE BrokerInv'
    <2>1. {c} \subseteq OpenCards /\ Expire({c}) /\ UNCHANGED <<due, crashes>>
      BY <1>5 DEF AnswerTooLate, OpenCards
    <2> QED  BY <1>5, <2>1, ExpireKeeps DEF AnswerTooLate, BrokerInv, CardInv, TypeOK
  <1>6. CASE \E c \in Cards : Lapse(c)
    BY <1>6 DEF Lapse, hostVars, BrokerInv, TypeOK, ActsMatchCards, WaitersHaveCards, HoldsWait,
                CallersHear, DueIsRaised, OpenCards, Cards, Closed
  <1>7. CASE Sweep
    <2>1. Expire(OpenCards \cap due) /\ UNCHANGED <<due, crashes>>
      BY <1>7 DEF Sweep
    <2> QED  BY <1>7, <2>1, ExpireKeeps DEF Sweep, BrokerInv, CardInv, TypeOK
  <1>8. CASE StopBegins
    <2>1. Expire(OpenCards) /\ UNCHANGED <<due, crashes>>
      BY <1>8 DEF StopBegins
    <2> QED  BY <1>8, <2>1, ExpireKeeps DEF StopBegins, BrokerInv, CardInv, TypeOK
  <1>9. CASE Boot
    <2>1. Expire(OpenCards \cap due) /\ UNCHANGED <<due, crashes>>
      BY <1>9 DEF Boot
    <2> QED  BY <1>9, <2>1, ExpireKeeps DEF Boot, BrokerInv, CardInv, TypeOK
  <1>10. CASE StopEnds
    BY <1>10 DEF StopEnds, coreVars, BrokerInv, TypeOK, ActsMatchCards, WaitersHaveCards,
                 HoldsWait, CallersHear, DueIsRaised, OpenCards
  <1>11. CASE Crash
    <2> USE <1>11 DEF Crash, BrokerInv, Cards, Closed
    <2>0. link' \in BOOLEAN  BY Zenon
    <2>1. TypeOK'  BY <2>0 DEF TypeOK
    <2>2. ActsMatchCards'  BY DEF ActsMatchCards
    <2>3. WaitersHaveCards'  BY DEF WaitersHaveCards
    <2>4. HoldsWait' /\ CallersHear'  BY DEF TypeOK, HoldsWait, CallersHear
    <2>5. DueIsRaised'  BY DEF DueIsRaised
    <2> QED  BY <2>1, <2>2, <2>3, <2>4, <2>5
  <1>12. CASE LinkUp \/ LinkDown \/ Start \/ UNCHANGED vars
    <2> USE <1>12 DEF LinkUp, LinkDown, Start, vars, coreVars, hostVars, BrokerInv, Cards, Closed
    <2>0. link' \in BOOLEAN  BY Zenon DEF TypeOK
    <2>1. TypeOK'  BY <2>0 DEF TypeOK
    <2>2. CardInv'
      BY DEF CardInv, ActsMatchCards, WaitersHaveCards, HoldsWait, CallersHear,
             DueIsRaised, OpenCards
    <2> QED  BY <2>1, <2>2 DEF CardInv
  <1> QED
    BY <1>1, <1>2, <1>3, <1>4, <1>5, <1>6, <1>7, <1>8, <1>9, <1>10, <1>11, <1>12
    DEF Next, Requests, Person, Time, Life

-----------------------------------------------------------------------------
(* The next state of a typed broker says yes only where a yes was given. *)
LEMMA YesStep ==
  ASSUME TypeOK, DueIsRaised, [Next]_vars
  PROVE  /\ \A c \in Cards :
              /\ row[c] \in Closed => row'[c] = row[c]
              /\ row[c] # "approved" /\ row'[c] = "approved" =>
                   /\ c \notin due
                   /\ row[c] = "none" => c \in Asks /\ KeyOf[c] \in Standing \cup grants
         /\ \A k \in grants' \ grants :
              \E a \in Asks : KeyOf[a] = k /\ row[a] = "open" /\ row'[a] = "approved"
  <1> DEFINE Cs == \A c \in Cards :
                     /\ row[c] \in Closed => row'[c] = row[c]
                     /\ row[c] # "approved" /\ row'[c] = "approved" =>
                          /\ c \notin due
                          /\ row[c] = "none" => c \in Asks /\ KeyOf[c] \in Standing \cup grants
             Ks == \A k \in grants' \ grants :
                     \E a \in Asks : KeyOf[a] = k /\ row[a] = "open" /\ row'[a] = "approved"
  <1> USE DEF TypeOK, Cards, Closed, OpenCards
  <1>1. CASE UNCHANGED row /\ grants' \subseteq grants
    BY <1>1
  <1>2. ASSUME NEW S \in SUBSET OpenCards, Expire(S), grants' \subseteq grants
        PROVE  Cs /\ Ks
    BY <1>2 DEF Expire
  <1>3. CASE \E a \in Asks : Asked(a)
    <2>1. PICK a \in Asks : Asked(a)  BY <1>3
    <2>2. /\ row[a] = "none" /\ grants' = grants
          /\ row' = [row EXCEPT ![a] = IF KeyOf[a] \in Standing \cup grants
                                       THEN "approved" ELSE "open"]
      BY <2>1 DEF Asked
    <2>3. a \notin due
      BY <2>2 DEF DueIsRaised
    <2> QED  BY <2>2, <2>3
  <1>4. CASE \E h \in Holds : Held(h)
    BY <1>4, BrokerAssumption DEF BrokerAssumption, Held
  <1>5. CASE \E c \in Cards : Approve(c)
    <2>1. PICK c \in Cards : Approve(c)  BY <1>5
    <2>2. Cs  BY <2>1 DEF Approve
    <2>3. Ks  BY <2>1 DEF Approve
    <2> QED  BY <2>2, <2>3
  <1>6. CASE \E c \in Cards : Deny(c)
    BY <1>6 DEF Deny
  <1>7. CASE (\E c \in Cards : AnswerTooLate(c)) \/ Sweep \/ StopBegins \/ Boot
    BY <1>7, <1>2 DEF AnswerTooLate, Sweep, StopBegins, Boot
  <1>8. CASE (\E c \in Cards : Lapse(c)) \/ LinkUp \/ LinkDown \/ StopEnds \/ Start \/ Crash
             \/ UNCHANGED vars
    BY <1>8, <1>1 DEF Lapse, LinkUp, LinkDown, StopEnds, Start, Crash, vars, coreVars
  <1> QED
    BY <1>3, <1>4, <1>5, <1>6, <1>7, <1>8 DEF Next, Requests, Person, Time, Life

-----------------------------------------------------------------------------
(* Type correctness: every reachable state has the shape TypeOK gives it.    *)
THEOREM BrokerTyped == Spec => []TypeOK
  <1>1. BrokerInv => TypeOK  BY DEF BrokerInv
  <1> QED  BY <1>1, BrokerInit, BrokerStep, PTL DEF Spec

(* What the host does and what a caller hears is what the card says, for     *)
(* every number of requests, drops, stops and crashes.                       *)
THEOREM ActsAreRecorded == Spec => []ActsMatchCards
  <1>1. BrokerInv => ActsMatchCards  BY DEF BrokerInv
  <1> QED  BY <1>1, BrokerInit, BrokerStep, PTL DEF Spec

(* Nobody waits on a card the person can no longer answer.                   *)
THEOREM NobodyIsLeftWaiting == Spec => []WaitersHaveCards
  <1>1. BrokerInv => WaitersHaveCards  BY DEF BrokerInv
  <1> QED  BY <1>1, BrokerInit, BrokerStep, PTL DEF Spec

(* While Core lives, a card that closed has told its caller.                 *)
THEOREM CallersAreTold == Spec => []CallersHear
  <1>1. BrokerInv => CallersHear  BY DEF BrokerInv
  <1> QED  BY <1>1, BrokerInit, BrokerStep, PTL DEF Spec

(* Nothing is ever approved by silence: no step approves a card that lapsed, *)
(* or one nobody and no grant said yes to, and none reopens what is closed.  *)
THEOREM NothingBySilence == Spec => YesIsGiven
  <1>1. BrokerInv /\ [Next]_vars =>
          [/\ \A c \in Cards :
                /\ row[c] \in Closed => row'[c] = row[c]
                /\ row[c] # "approved" /\ row'[c] = "approved" =>
                     /\ c \notin due
                     /\ row[c] = "none" => c \in Asks /\ KeyOf[c] \in Standing \cup grants
           /\ \A k \in grants' \ grants :
                \E a \in Asks : KeyOf[a] = k /\ row[a] = "open" /\ row'[a] = "approved"]_vars
    BY YesStep DEF BrokerInv
  <1> QED  BY <1>1, BrokerInit, BrokerStep, PTL DEF Spec, YesIsGiven
=============================================================================
