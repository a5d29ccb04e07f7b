-------------------------- MODULE EventStreamProofs --------------------------
(***************************************************************************)
(* What EventStream guarantees for every replay limit, every number of     *)
(* events and every number of drops: the shape of its state, and that the  *)
(* desktop is told of each event at most once, in order.                   *)
(***************************************************************************)
EXTENDS EventStream, TLAPS

(* What a replay reads: ids after since, in order, none the log has not got. *)
LEMMA ReplayIsNews ==
  ASSUME StreamAssumption, TypeOK, NEW since \in Nat
  PROVE  /\ EventsSince(since) \in Seq(Nat)
         /\ \A i \in 1..Len(EventsSince(since)) :
              EventsSince(since)[i] \in 1..top /\ since < EventsSince(since)[i]
         /\ \A i, j \in 1..Len(EventsSince(since)) :
              i < j => EventsSince(since)[i] < EventsSince(since)[j]
<1> DEFINE from == IF since > floor THEN since ELSE floor
           left == IF top > from THEN top - from ELSE 0
           n == IF left > ReplayLimit THEN ReplayLimit ELSE left
<1>1. from \in Nat /\ since <= from BY DEF TypeOK
<1>2. left \in Nat /\ (left > 0 => from + left <= top) BY <1>1 DEF TypeOK
<1>3. n \in Nat /\ n <= left BY <1>2 DEF StreamAssumption
<1>4. EventsSince(since) = [i \in 1..n |-> from + i] BY DEF EventsSince
<1> HIDE DEF from, left, n
<1>5. EventsSince(since) \in Seq(Nat) /\ Len(EventsSince(since)) = n
  BY <1>1, <1>3, <1>4
<1>6. \A i \in 1..n : EventsSince(since)[i] = from + i BY <1>4
<1>7. \A i \in 1..n : from + i \in 1..top /\ since < from + i
  BY <1>1, <1>2, <1>3 DEF TypeOK
<1>8. ASSUME NEW i \in 1..Len(EventsSince(since))
      PROVE  EventsSince(since)[i] \in 1..top /\ since < EventsSince(since)[i]
  BY <1>5, <1>6, <1>7
<1>9. ASSUME NEW i \in 1..Len(EventsSince(since)), NEW j \in 1..Len(EventsSince(since)), i < j
      PROVE  EventsSince(since)[i] < EventsSince(since)[j]
  BY <1>1, <1>3, <1>5, <1>6, <1>9
<1> QED BY <1>5, <1>8, <1>9

-----------------------------------------------------------------------------
(* Type correctness: every reachable state has the shape TypeOK gives it. *)
THEOREM TypeCorrect == StreamAssumption => (Spec => []TypeOK)
<1> SUFFICES ASSUME StreamAssumption PROVE Spec => []TypeOK OBVIOUS
<1>1. Init => TypeOK BY DEF Init, TypeOK, StreamAssumption
<1>2. TypeOK /\ [Next]_vars => TypeOK'
  <2> SUFFICES ASSUME TypeOK, [Next]_vars PROVE TypeOK' OBVIOUS
  <2>1. CASE Emit BY <2>1 DEF TypeOK, Emit
  <2>2. CASE Ask BY <2>2 DEF TypeOK, Ask
  <2>3. CASE Attach
    <3>1. ResolveSince(lastId) \in Nat
      BY DEF TypeOK, ResolveSince, LastEventId
    <3>2. EventsSince(ResolveSince(lastId)) \in Seq(Nat)
      BY <3>1, ReplayIsNews
    <3> QED BY <2>3, <3>2 DEF TypeOK, Attach
  <2>4. CASE Read
    <3>1. Head(wire) \in Nat /\ Tail(wire) \in Seq(Nat) BY <2>4 DEF TypeOK, Read
    <3> QED BY <2>4, <3>1 DEF TypeOK, Read
  <2>5. CASE Drop BY <2>5 DEF TypeOK, Drop, StreamAssumption
  <2>6. CASE Reopen BY <2>6 DEF TypeOK, Reopen, StreamAssumption
  <2>7. CASE Crash BY <2>7 DEF TypeOK, Crash, StreamAssumption
  <2>8. CASE Boot BY <2>8 DEF TypeOK, Boot
  <2>9. CASE UNCHANGED vars BY <2>9 DEF TypeOK, vars
  <2> QED BY <2>1, <2>2, <2>3, <2>4, <2>5, <2>6, <2>7, <2>8, <2>9 DEF Next
<1> QED BY <1>1, <1>2, PTL DEF Spec

-----------------------------------------------------------------------------
(* The inductive invariant: what the client remembers is the last id it      *)
(* handed on, everything it handed on happened, and everything in flight is  *)
(* later than that.                                                          *)
Remembers ==
  /\ seen # << >> => lastId = seen[Len(seen)]
  /\ lastId = Latest => seen = << >>
  /\ \A k \in 1..Len(seen) : seen[k] \in 1..top

Ordered == NothingTwice /\ WireIsNews /\ Remembers

LEMMA OrderedInit == StreamAssumption /\ Init => Ordered
BY DEF Init, Ordered, NothingTwice, WireIsNews, Remembers

(* Attach: the replay starts after the last id handed on, or nothing was. *)
LEMMA OrderedAttach ==
  ASSUME StreamAssumption, TypeOK, Ordered, Attach
  PROVE  WireIsNews'
<1> DEFINE s == ResolveSince(lastId)
<1>1. s \in Nat BY DEF TypeOK, ResolveSince, LastEventId
<1>2. wire' = EventsSince(s) /\ seen' = seen /\ top' = top BY DEF Attach
<1>3. ASSUME NEW k \in 1..Len(seen) PROVE seen[k] <= s
  <2>1. seen # << >> /\ seen \in Seq(Nat) BY <1>3 DEF TypeOK
  <2>2. s = seen[Len(seen)] BY <2>1 DEF Ordered, Remembers, ResolveSince
  <2>3. CASE k = Len(seen) BY <2>1, <2>2, <2>3
  <2>4. CASE k # Len(seen)
    <3>1. Len(seen) \in 1..Len(seen) /\ k < Len(seen) BY <2>1, <2>4
    <3>2. seen[k] < seen[Len(seen)] BY <3>1 DEF Ordered, NothingTwice
    <3> QED BY <2>1, <2>2, <3>1, <3>2
  <2> QED BY <2>3, <2>4
<1> HIDE DEF s
<1>4. /\ \A i \in 1..Len(EventsSince(s)) : EventsSince(s)[i] \in 1..top /\ s < EventsSince(s)[i]
      /\ \A i, j \in 1..Len(EventsSince(s)) : i < j => EventsSince(s)[i] < EventsSince(s)[j]
  BY <1>1, ReplayIsNews
<1>5. ASSUME NEW i \in 1..Len(EventsSince(s)), NEW k \in 1..Len(seen)
      PROVE  seen[k] < EventsSince(s)[i]
  BY <1>1, <1>3, <1>4 DEF TypeOK
<1> QED BY <1>2, <1>4, <1>5 DEF WireIsNews

(* Read: the head of what is in flight becomes the last id handed on. *)
LEMMA OrderedRead ==
  ASSUME StreamAssumption, TypeOK, Ordered, Read
  PROVE  Ordered'
<1>1. /\ wire \in Seq(Nat) /\ wire # << >> /\ seen \in Seq(Nat) /\ top \in Nat
      /\ seen' = Append(seen, wire[1]) /\ wire' = Tail(wire)
      /\ lastId' = wire[1] /\ top' = top
  BY DEF TypeOK, Read
<1>2. /\ Len(wire) \in Nat /\ 1 \in 1..Len(wire) /\ Len(seen) \in Nat
      /\ Len(seen') = Len(seen) + 1 /\ seen'[Len(seen) + 1] = wire[1]
      /\ \A k \in 1..Len(seen) : seen'[k] = seen[k]
  BY <1>1
<1>3. /\ Len(wire') = Len(wire) - 1
      /\ \A i \in 1..Len(wire') : wire'[i] = wire[i + 1] /\ i + 1 \in 1..Len(wire)
  BY <1>1
<1>4. NothingTwice'
  <2> SUFFICES ASSUME NEW i \in 1..Len(seen'), NEW j \in 1..Len(seen'), i < j
               PROVE  seen'[i] < seen'[j]
    BY DEF NothingTwice
  <2>1. CASE j \in 1..Len(seen)
    BY <1>2, <2>1 DEF Ordered, NothingTwice
  <2>2. CASE j = Len(seen) + 1
    <3>1. i \in 1..Len(seen) BY <1>2, <2>2
    <3> QED BY <1>2, <2>2, <3>1 DEF Ordered, WireIsNews
  <2> QED BY <1>2, <2>1, <2>2
<1>5. WireIsNews'
  <2>1. ASSUME NEW i \in 1..Len(wire') PROVE wire'[i] \in 1..top' /\ wire[1] < wire'[i]
    <3>1. 1 < i + 1 /\ i + 1 \in 1..Len(wire) BY <1>2, <1>3
    <3> QED BY <1>1, <1>2, <1>3, <3>1 DEF Ordered, WireIsNews
  <2>2. ASSUME NEW i \in 1..Len(wire'), NEW j \in 1..Len(wire'), i < j
        PROVE  wire'[i] < wire'[j]
    <3>1. i + 1 < j + 1 BY <1>2, <1>3, <2>2
    <3> QED BY <1>3, <3>1 DEF Ordered, WireIsNews
  <2>3. ASSUME NEW i \in 1..Len(wire'), NEW k \in 1..Len(seen') PROVE seen'[k] < wire'[i]
    <3>1. CASE k \in 1..Len(seen) BY <1>2, <1>3, <3>1 DEF Ordered, WireIsNews
    <3>2. CASE k = Len(seen) + 1 BY <1>2, <2>1, <3>2
    <3> QED BY <1>2, <3>1, <3>2
  <2> QED BY <2>1, <2>2, <2>3 DEF WireIsNews
<1>6. Remembers'
  <2>1. wire[1] \in 1..top BY <1>2 DEF Ordered, WireIsNews
  <2>2. lastId' # Latest BY <1>1, <2>1 DEF StreamAssumption
  <2>3. seen' # << >> /\ lastId' = seen'[Len(seen')] BY <1>1, <1>2
  <2>4. \A k \in 1..Len(seen') : seen'[k] \in 1..top'
    BY <1>1, <1>2, <2>1 DEF Ordered, Remembers
  <2> QED BY <2>2, <2>3, <2>4 DEF Remembers
<1> QED BY <1>4, <1>5, <1>6 DEF Ordered

LEMMA OrderedStep ==
  ASSUME StreamAssumption, TypeOK, Ordered, [Next]_vars
  PROVE  Ordered'
<1>1. CASE Emit
  <2>1. NothingTwice' BY <1>1 DEF Emit, Ordered, NothingTwice
  <2>2. Remembers' BY <1>1 DEF Emit, Ordered, Remembers, TypeOK
  <2>3. WireIsNews'
    <3>1. CASE link = "open"
      <4>1. /\ wire' = Append(wire, top + 1) /\ top' = top + 1 /\ seen' = seen
            /\ wire \in Seq(Nat) /\ top \in Nat /\ Len(wire) \in Nat
        BY <1>1, <3>1 DEF Emit, TypeOK
      <4>2. /\ Len(wire') = Len(wire) + 1 /\ wire'[Len(wire) + 1] = top + 1
            /\ \A i \in 1..Len(wire) : wire'[i] = wire[i]
        BY <4>1
      <4>3. \A i \in 1..Len(wire') : i \in 1..Len(wire) \/ i = Len(wire) + 1 BY <4>1, <4>2
      <4>4. \A k \in 1..Len(seen) : seen[k] \in 1..top BY DEF Ordered, Remembers
      <4>5. \A i \in 1..Len(wire) : wire[i] \in 1..top BY DEF Ordered, WireIsNews
      <4>6. \A i \in 1..Len(wire') : wire'[i] \in 1..top' BY <4>1, <4>2, <4>3, <4>5
      <4>7. ASSUME NEW i \in 1..Len(wire'), NEW j \in 1..Len(wire'), i < j
            PROVE  wire'[i] < wire'[j]
        <5>1. CASE j = Len(wire) + 1
          <6>1. i \in 1..Len(wire) BY <4>1, <4>3, <4>7, <5>1
          <6> QED BY <4>1, <4>2, <4>5, <5>1, <6>1
        <5>2. CASE j \in 1..Len(wire)
          <6>1. i \in 1..Len(wire) BY <4>1, <4>3, <4>7, <5>2
          <6> QED BY <4>2, <4>7, <5>2, <6>1 DEF Ordered, WireIsNews
        <5> QED BY <4>3, <5>1, <5>2
      <4>8. \A i \in 1..Len(wire'), k \in 1..Len(seen') : seen'[k] < wire'[i]
        BY <4>1, <4>2, <4>3, <4>4 DEF Ordered, WireIsNews
      <4> QED BY <4>6, <4>7, <4>8 DEF WireIsNews
    <3>2. CASE link # "open"
      BY <1>1, <3>2 DEF Emit, Ordered, WireIsNews, TypeOK
    <3> QED BY <3>1, <3>2
  <2> QED BY <2>1, <2>2, <2>3 DEF Ordered
<1>2. CASE Ask BY <1>2 DEF Ask, Ordered, NothingTwice, WireIsNews, Remembers
<1>3. CASE Attach
  <2>1. WireIsNews' BY <1>3, OrderedAttach
  <2>2. NothingTwice' /\ Remembers' BY <1>3 DEF Attach, Ordered, NothingTwice, Remembers
  <2> QED BY <2>1, <2>2 DEF Ordered
<1>4. CASE Read BY <1>4, OrderedRead
<1>5. CASE Drop BY <1>5 DEF Drop, Ordered, NothingTwice, WireIsNews, Remembers
<1>6. CASE Reopen BY <1>6 DEF Reopen, Ordered, NothingTwice, WireIsNews, Remembers
<1>7. CASE Crash BY <1>7 DEF Crash, Ordered, NothingTwice, WireIsNews, Remembers
<1>8. CASE Boot BY <1>8 DEF Boot, Ordered, NothingTwice, WireIsNews, Remembers
<1>9. CASE UNCHANGED vars BY <1>9 DEF vars, Ordered, NothingTwice, WireIsNews, Remembers
<1> QED BY <1>1, <1>2, <1>3, <1>4, <1>5, <1>6, <1>7, <1>8, <1>9 DEF Next

(* "Nothing twice", for every replay limit, drop, crash and restart. *)
THEOREM ToldOnce == StreamAssumption => (Spec => [](NothingTwice /\ WireIsNews))
<1> SUFFICES ASSUME StreamAssumption PROVE Spec => [](NothingTwice /\ WireIsNews) OBVIOUS
<1>1. Init => Ordered BY OrderedInit
<1>2. TypeOK /\ Ordered /\ [Next]_vars => Ordered' BY OrderedStep
<1>3. Ordered => NothingTwice /\ WireIsNews BY DEF Ordered
<1>4. Spec => []TypeOK BY TypeCorrect
<1> QED BY <1>1, <1>2, <1>3, <1>4, PTL DEF Spec

-----------------------------------------------------------------------------
(* What a reconnect needs: the client knows an id to ask from, and the gap   *)
(* is no longer than one replay.                                             *)
From == IF ResolveSince(lastId) > floor THEN ResolveSince(lastId) ELSE floor
InReach == joined # -1 => lastId # Latest /\ top - From <= ReplayLimit
KeepsUp == [][Attach => InReach]_vars

(* Where every event since the first attach is: up to the last id noted it   *)
(* was seen, and beyond it is in flight, unless retention took it.           *)
Whereabouts ==
  /\ seen = << >> => lastId = FirstSince
  /\ joined = -1 => seen = << >> /\ link # "open"
  /\ joined <= top
  /\ joined # -1 /\ lastId # Latest =>
       \A n \in (joined + 1)..top : n > floor /\ n <= lastId => n \in Seen
  /\ link = "open" =>
       \A n \in (joined + 1)..top : n > floor /\ (lastId = Latest \/ n > lastId) => n \in OnWire

(* A replay that is not cut has every event of the log after since.          *)
LEMMA ReplayIsWhole ==
  ASSUME StreamAssumption, TypeOK, NEW since \in Nat, NEW n \in (since + 1)..top, n > floor,
         top - (IF since > floor THEN since ELSE floor) <= ReplayLimit
  PROVE  \E i \in 1..Len(EventsSince(since)) : EventsSince(since)[i] = n
<1> DEFINE from == IF since > floor THEN since ELSE floor
<1>1. from \in Nat /\ from < n /\ n <= top BY DEF TypeOK
<1>2. EventsSince(since) = [i \in 1..(top - from) |-> from + i]
  BY <1>1 DEF EventsSince, TypeOK, StreamAssumption
<1> HIDE DEF from
<1>3. Len(EventsSince(since)) = top - from /\ n - from \in 1..(top - from)
  BY <1>1, <1>2 DEF TypeOK
<1>4. EventsSince(since)[n - from] = n BY <1>1, <1>2, <1>3 DEF TypeOK
<1> QED BY <1>3, <1>4

LEMMA WhereaboutsInit == StreamAssumption /\ Init => Whereabouts
BY DEF Init, Whereabouts, StreamAssumption

(* No id is remembered that was not handed out. *)
LEMMA LastIsHandedOut ==
  ASSUME StreamAssumption, TypeOK, Ordered, Whereabouts, lastId # Latest
  PROVE  lastId \in 0..top
<1>1. CASE seen = << >>
  BY <1>1 DEF Whereabouts, StreamAssumption, TypeOK
<1>2. CASE seen # << >>
  <2>1. Len(seen) \in 1..Len(seen) BY <1>2 DEF TypeOK
  <2>2. seen[Len(seen)] \in 1..top BY <2>1 DEF Ordered, Remembers
  <2> QED BY <1>2, <2>2 DEF Ordered, Remembers
<1> QED BY <1>1, <1>2

LEMMA WhereaboutsStep ==
  ASSUME StreamAssumption, TypeOK, Ordered, Whereabouts, [Next]_vars, [Attach => InReach]_vars
  PROVE  Whereabouts'
<1>1. CASE Emit
  <2>1. /\ top' = top + 1 /\ Seen' = Seen
        /\ UNCHANGED <<floor, link, lastId, seen, joined>>
    BY <1>1 DEF Emit, Seen
  <2>2. \A n \in (joined' + 1)..top' : n \in (joined + 1)..top \/ n = top + 1
    BY <2>1 DEF TypeOK
  <2>3. lastId # Latest => lastId <= top
    BY LastIsHandedOut
  <2>4. link = "open" => OnWire' = OnWire \cup {top + 1}
    <3> SUFFICES ASSUME link = "open" PROVE OnWire' = OnWire \cup {top + 1}
      OBVIOUS
    <3>1. wire \in Seq(Nat) /\ wire' = Append(wire, top + 1) /\ top \in Nat
      BY <1>1 DEF Emit, TypeOK
    <3>2. Len(wire') = Len(wire) + 1 /\ Len(wire) \in Nat /\ wire'[Len(wire) + 1] = top + 1
          /\ \A i \in 1..Len(wire) : wire'[i] = wire[i]
      BY <3>1
    <3>3. \A i : i \in 1..Len(wire') <=> i \in 1..Len(wire) \/ i = Len(wire) + 1
      BY <3>2
    <3>4. OnWire' = {wire'[i] : i \in 1..Len(wire')}
      BY DEF OnWire
    <3> QED BY <3>2, <3>3, <3>4 DEF OnWire
  <2>5. joined' <= top' /\ (seen' = << >> => lastId' = FirstSince)
        /\ (joined' = -1 => seen' = << >> /\ link' # "open")
    BY <2>1 DEF Whereabouts, TypeOK
  <2>6. joined' # -1 /\ lastId' # Latest =>
          \A n \in (joined' + 1)..top' : n > floor' /\ n <= lastId' => n \in Seen'
    BY <2>1, <2>2, <2>3 DEF Whereabouts, TypeOK
  <2>7. link' = "open" =>
          \A n \in (joined' + 1)..top' : n > floor' /\ (lastId' = Latest \/ n > lastId') => n \in OnWire'
    BY <2>1, <2>2, <2>4 DEF Whereabouts, TypeOK
  <2> QED BY <2>5, <2>6, <2>7 DEF Whereabouts
<1>2. CASE Ask \/ Drop \/ Crash
  BY <1>2 DEF Ask, Drop, Crash, Whereabouts, Seen
<1>3. CASE Attach
  <2>1. InReach
    BY <1>3 DEF Attach, TypeOK, vars
  <2>2. /\ wire' = EventsSince(ResolveSince(lastId)) /\ UNCHANGED <<top, floor, lastId, seen>>
        /\ link' = "open" /\ joined' = IF joined = -1 THEN top ELSE joined
    BY <1>3 DEF Attach
  <2>3. Seen' = Seen
    BY <2>2 DEF Seen
  <2>4. CASE joined = -1
    BY <2>2, <2>3, <2>4 DEF Whereabouts, TypeOK
  <2>5. CASE joined # -1
    <3>1. ResolveSince(lastId) = lastId /\ lastId \in Nat /\ top - From <= ReplayLimit
      BY <2>1, <2>5 DEF InReach, ResolveSince, TypeOK
    <3>2. ASSUME NEW n \in (joined + 1)..top, n > floor, n > lastId PROVE n \in OnWire'
      <4>1. n \in (lastId + 1)..top /\ top - (IF lastId > floor THEN lastId ELSE floor) <= ReplayLimit
        BY <3>1, <3>2 DEF From, TypeOK
      <4>2. \E i \in 1..Len(EventsSince(lastId)) : EventsSince(lastId)[i] = n
        BY <3>1, <3>2, <4>1, ReplayIsWhole
      <4> QED BY <2>2, <3>1, <4>2 DEF OnWire
    <3> QED BY <2>2, <2>3, <2>5, <3>1, <3>2, LastIsHandedOut DEF Whereabouts, StreamAssumption
  <2> QED BY <2>4, <2>5
<1>4. CASE Read
  <2>1. /\ wire \in Seq(Nat) /\ wire # << >> /\ seen \in Seq(Nat) /\ top \in Nat
        /\ seen' = Append(seen, wire[1]) /\ wire' = Tail(wire) /\ lastId' = wire[1]
        /\ UNCHANGED <<top, floor, link, joined>> /\ link = "open"
    BY <1>4 DEF TypeOK, Read
  <2>2. 1 \in 1..Len(wire) /\ wire[1] \in 1..top
    BY <2>1 DEF Ordered, WireIsNews
  <2>3. Seen \cup {wire[1]} \subseteq Seen'
    <3>1. Len(seen') = Len(seen) + 1 /\ seen'[Len(seen) + 1] = wire[1] /\ Len(seen) \in Nat
          /\ \A k \in 1..Len(seen) : seen'[k] = seen[k]
      BY <2>1
    <3> QED BY <3>1 DEF Seen
  <2>4. ASSUME NEW n \in OnWire, n # wire[1] PROVE wire[1] < n /\ n \in OnWire'
    <3>1. PICK i \in 1..Len(wire) : wire[i] = n
      BY DEF OnWire
    <3>2. 1 < i /\ i - 1 \in 1..Len(wire') /\ wire'[i - 1] = n
      BY <2>1, <2>4, <3>1
    <3>3. wire[1] < wire[i]
      BY <2>2, <3>1, <3>2 DEF Ordered, WireIsNews
    <3> QED BY <3>1, <3>2, <3>3 DEF OnWire
  <2>5. ASSUME NEW n \in (joined + 1)..top, n > floor, n <= wire[1] PROVE n \in Seen'
    <3>1. CASE lastId # Latest /\ n <= lastId
      BY <2>1, <2>3, <2>5, <3>1 DEF Whereabouts, TypeOK
    <3>2. CASE lastId = Latest \/ n > lastId
      <4>1. n \in OnWire
        BY <2>1, <2>5, <3>2 DEF Whereabouts
      <4>2. n = wire[1]
        BY <2>1, <2>2, <2>4, <2>5, <4>1
      <4> QED BY <2>3, <4>2
    <3> QED BY <3>1, <3>2 DEF TypeOK
  <2>6. ASSUME NEW n \in (joined + 1)..top, n > floor, n > wire[1] PROVE n \in OnWire'
    <3>1. lastId # Latest => lastId < n
      <4>1. ASSUME lastId # Latest PROVE lastId < wire[1]
        <5>1. CASE seen = << >>
          BY <2>2, <4>1, <5>1 DEF Whereabouts, StreamAssumption
        <5>2. CASE seen # << >>
          <6>1. Len(seen) \in 1..Len(seen) BY <2>1, <5>2
          <6> QED BY <2>2, <5>2, <6>1 DEF Ordered, Remembers, WireIsNews
        <5> QED BY <5>1, <5>2
      <4> QED BY <2>2, <2>6, <4>1 DEF TypeOK
    <3>2. n \in OnWire
      BY <2>1, <2>6, <3>1 DEF Whereabouts
    <3> QED BY <2>2, <2>4, <2>6, <3>2
  <2>7. seen' # << >> /\ joined # -1
    BY <2>1 DEF Whereabouts
  <2>8. lastId' # Latest
    BY <2>1, <2>2 DEF StreamAssumption
  <2> QED BY <2>1, <2>5, <2>6, <2>7, <2>8 DEF Whereabouts
<1>5. CASE Reopen
  BY <1>5 DEF Reopen, Whereabouts, TypeOK
<1>6. CASE Boot
  <2>1. PICK f \in floor..top : floor' = f
    BY <1>6 DEF Boot
  <2>2. UNCHANGED <<top, link, wire, lastId, seen, joined>> /\ f >= floor
    BY <1>6, <2>1 DEF Boot, TypeOK
  <2>3. Seen' = Seen /\ OnWire' = OnWire
    BY <2>2 DEF Seen, OnWire
  <2> QED BY <2>1, <2>2, <2>3 DEF Whereabouts, TypeOK
<1>7. CASE UNCHANGED vars
  BY <1>7 DEF vars, Whereabouts, Seen, OnWire
<1> QED BY <1>1, <1>2, <1>3, <1>4, <1>5, <1>6, <1>7 DEF Next

(* "Exactly what it missed": the desktop misses nothing, whatever drops,     *)
(* crashes and retention do, unless it reconnects before it knows an id or   *)
(* with a gap that a replay cuts -- the two ways there are.                  *)
THEOREM NothingIsMissed == StreamAssumption => (Spec /\ KeepsUp => []NothingMissed)
<1> SUFFICES ASSUME StreamAssumption PROVE Spec /\ KeepsUp => []NothingMissed OBVIOUS
<1>1. Init => Ordered BY OrderedInit
<1>2. TypeOK /\ Ordered /\ [Next]_vars => Ordered' BY OrderedStep
<1>3. Init => Whereabouts BY WhereaboutsInit
<1>4. TypeOK /\ Ordered /\ Whereabouts /\ [Next]_vars /\ [Attach => InReach]_vars => Whereabouts'
  BY WhereaboutsStep
<1>5. TypeOK /\ Whereabouts => NothingMissed
  BY DEF Whereabouts, NothingMissed, TypeOK
<1>6. Spec => []TypeOK BY TypeCorrect
<1> QED BY <1>1, <1>2, <1>3, <1>4, <1>5, <1>6, PTL DEF Spec, KeepsUp

-----------------------------------------------------------------------------
(* The stream implements its promise: every step tells the desktop of one    *)
(* later event, forgets with it, lets an event happen, or is invisible.      *)
THEOREM StreamKeepsPromise == StreamAssumption => (Spec => TellsInOrder)
<1> SUFFICES ASSUME StreamAssumption PROVE Spec => TellsInOrder OBVIOUS
<1>1. Init => Promise!Init BY DEF Init, Promise!Init
<1>2. TypeOK /\ Ordered /\ [Next]_vars
        => [Promise!Happen \/ Promise!Tell \/ Promise!Forget]_<<top, seen>>
  <2> SUFFICES ASSUME TypeOK, Ordered, [Next]_vars
               PROVE  [Promise!Happen \/ Promise!Tell \/ Promise!Forget]_<<top, seen>>
    OBVIOUS
  <2>1. CASE Emit BY <2>1 DEF Emit, Promise!Happen
  <2>2. CASE Ask BY <2>2 DEF Ask
  <2>3. CASE Attach BY <2>3 DEF Attach
  <2>4. CASE Read
    <3>1. /\ wire[1] \in 1..top /\ seen' = Append(seen, wire[1]) /\ top' = top
          /\ seen \in Seq(Nat) /\ wire \in Seq(Nat) /\ 1 \in 1..Len(wire)
      <4>1. wire \in Seq(Nat) /\ wire # << >> BY <2>4 DEF TypeOK, Read
      <4>2. 1 \in 1..Len(wire) BY <4>1
      <4> QED BY <2>4, <4>1, <4>2 DEF TypeOK, Read, Ordered, WireIsNews
    <3>2. Promise!LastTold < wire[1] /\ Promise!LastTold \in Nat
      <4>1. CASE seen = << >> BY <3>1, <4>1 DEF Promise!LastTold
      <4>2. CASE seen # << >>
        <5>1. Len(seen) \in 1..Len(seen) BY <3>1, <4>2
        <5> QED BY <3>1, <4>2, <5>1 DEF Promise!LastTold, Ordered, WireIsNews
      <4> QED BY <4>1, <4>2
    <3>3. top \in Nat /\ wire[1] \in (Promise!LastTold + 1)..top BY <3>1, <3>2 DEF TypeOK
    <3> QED BY <3>1, <3>3 DEF Promise!Tell
  <2>5. CASE Drop BY <2>5 DEF Drop
  <2>6. CASE Reopen BY <2>6 DEF Reopen, Promise!Forget
  <2>7. CASE Crash BY <2>7 DEF Crash
  <2>8. CASE Boot BY <2>8 DEF Boot
  <2>9. CASE UNCHANGED vars BY <2>9 DEF vars
  <2> QED BY <2>1, <2>2, <2>3, <2>4, <2>5, <2>6, <2>7, <2>8, <2>9 DEF Next
<1>3. Init => Ordered BY OrderedInit
<1>4. TypeOK /\ Ordered /\ [Next]_vars => Ordered' BY OrderedStep
<1>5. Spec => []TypeOK BY TypeCorrect
<1> QED BY <1>1, <1>2, <1>3, <1>4, <1>5, PTL DEF Spec, TellsInOrder, Promise!Spec
=============================================================================
