----------------------------- MODULE EventStream -----------------------------
(***************************************************************************)
(* FREN Core's event log and the desktop's server-sent-events client.      *)
(*                                                                         *)
(* Core (packages/fren-core/events.js, the events table of store.js) gives *)
(* every event the next id, appends it to core.db and then writes it to    *)
(* the attached response.  The desktop (apps/desktop/main/coreEvents.js)   *)
(* remembers the last id it saw and asks for what came after it whenever   *)
(* it reconnects.  Between the two there is one HTTP response: frames are  *)
(* delivered in order, and those in flight are lost when it drops.         *)
(*                                                                         *)
(* An event is its id.  The log is the ids floor+1 .. top: retention       *)
(* removes the oldest ones when Core boots.                                *)
(***************************************************************************)
EXTENDS Integers, Sequences

CONSTANTS
  Latest,        (* the client's 'latest': no history, only what happens next *)
  FirstSince,    (* what the client asks for the first time: Latest or an id  *)
  ReplayLimit,   (* most rows one replay reads (store.eventsSince: 500)       *)
  MaxEvents,     (* bound: ids Core hands out                                 *)
  MaxDrops       (* bound: connections lost, Core crashes included            *)

ASSUME StreamAssumption ==
  /\ ReplayLimit \in Nat \ {0}
  /\ MaxEvents \in Nat
  /\ MaxDrops \in Nat
  /\ Latest \notin Int
  /\ FirstSince \in {Latest, 0}

VARIABLES
  core,     (* "up" or "down": the Core process                            *)
  top,      (* the last id in the log (AUTOINCREMENT: never handed out again) *)
  floor,    (* ids up to this one were removed by retention                *)
  link,     (* "none", "asked" (request on its way) or "open"              *)
  wire,     (* frames written to the open response and not yet read        *)
  lastId,   (* the client's lastId: Latest or an id                        *)
  seen,     (* history: ids handed to onEvent, in order                    *)
  joined,   (* history: top when the client was first attached, or -1      *)
  drops     (* bound counter                                               *)

vars == <<core, top, floor, link, wire, lastId, seen, joined, drops>>

-----------------------------------------------------------------------------
(* The log *)

(* lastEventId: MAX(id) over the rows that are left, 0 over none. *)
LastEventId == IF top > floor THEN top ELSE 0

(* Broken form: id >= ? where the code has id > ?. *)
EventsSinceInclusive(since) ==
  LET from == IF since > floor THEN since - 1 ELSE floor
      n    == IF top > from THEN top - from ELSE 0
  IN  [i \in 1..n |-> from + i]

(* eventsSince(since): the oldest ReplayLimit rows after since, in order. *)
EventsSince(since) ==
  LET from == IF since > floor THEN since ELSE floor
      left == IF top > from THEN top - from ELSE 0
      n    == IF left > ReplayLimit THEN ReplayLimit ELSE left
  IN  [i \in 1..n |-> from + i]

(* What the client's since means to Core at the moment it attaches. *)
ResolveSince(since) == IF since = Latest THEN LastEventId ELSE since

-----------------------------------------------------------------------------
Init ==
  /\ core = "up"
  /\ top = 0 /\ floor = 0
  /\ link = "none" /\ wire = << >>
  /\ lastId = FirstSince
  /\ seen = << >> /\ joined = -1
  /\ drops = 0

(* emit(): append to the log, then push to the listener.  One step: nothing *)
(* else runs in the process between the two.                                *)
Emit ==
  /\ core = "up" /\ top < MaxEvents
  /\ top' = top + 1
  /\ wire' = IF link = "open" THEN Append(wire, top + 1) ELSE wire
  /\ UNCHANGED <<core, floor, link, lastId, seen, joined, drops>>

(* once(): the request leaves; nothing about Core is known yet. *)
Ask ==
  /\ link = "none"
  /\ link' = "asked"
  /\ UNCHANGED <<core, top, floor, wire, lastId, seen, joined, drops>>

(* Broken form: subscribe without replaying. *)
AttachWithoutReplay ==
  /\ core = "up" /\ link = "asked"
  /\ link' = "open" /\ wire' = << >>
  /\ joined' = IF joined = -1 THEN top ELSE joined
  /\ UNCHANGED <<core, top, floor, lastId, seen, drops>>

(* attach(): replay what the log has after since, then subscribe. *)
Attach ==
  /\ core = "up" /\ link = "asked"
  /\ link' = "open"
  /\ wire' = EventsSince(ResolveSince(lastId))
  /\ joined' = IF joined = -1 THEN top ELSE joined
  /\ UNCHANGED <<core, top, floor, lastId, seen, drops>>

(* Broken form: the event is handed on and its id is not noted. *)
ReadWithoutNoting ==
  /\ link = "open" /\ wire # << >>
  /\ seen' = Append(seen, Head(wire))
  /\ wire' = Tail(wire)
  /\ UNCHANGED <<core, top, floor, link, lastId, joined, drops>>

(* The client reads one frame: it notes the id, then hands the event on. *)
Read ==
  /\ link = "open" /\ wire # << >>
  /\ lastId' = Head(wire)
  /\ seen' = Append(seen, Head(wire))
  /\ wire' = Tail(wire)
  /\ UNCHANGED <<core, top, floor, link, joined, drops>>

(* The request fails or the response ends: unread frames are gone, and the *)
(* client sleeps before it asks again.                                     *)
Drop ==
  /\ link # "none" /\ drops < MaxDrops
  /\ link' = "none" /\ wire' = << >>
  /\ drops' = drops + 1
  /\ UNCHANGED <<core, top, floor, lastId, seen, joined>>

(* The Core process dies.  core.db keeps the log. *)
Crash ==
  /\ core = "up" /\ drops < MaxDrops
  /\ core' = "down"
  /\ link' = "none" /\ wire' = << >>
  /\ drops' = drops + 1
  /\ UNCHANGED <<top, floor, lastId, seen, joined>>

(* The desktop is quit and opened again: a new client, with nothing to say  *)
(* about what the old one saw.                                              *)
Reopen ==
  /\ drops < MaxDrops
  /\ link' = "none" /\ wire' = << >>
  /\ lastId' = FirstSince /\ seen' = << >> /\ joined' = -1
  /\ drops' = drops + 1
  /\ UNCHANGED <<core, top, floor>>

(* Broken form: ids without AUTOINCREMENT, which an emptied table hands out *)
(* again from 1.                                                            *)
BootReusesIds ==
  /\ core = "down"
  /\ core' = "up"
  /\ \E f \in floor..top : floor' = f /\ top' = IF f = top THEN 0 ELSE top
  /\ UNCHANGED <<link, wire, lastId, seen, joined, drops>>

(* start(): retention removes the events that are too old -- a prefix. *)
Boot ==
  /\ core = "down"
  /\ core' = "up"
  /\ \E f \in floor..top : floor' = f
  /\ UNCHANGED <<top, link, wire, lastId, seen, joined, drops>>

Next == Emit \/ Ask \/ Attach \/ Read \/ Drop \/ Reopen \/ Crash \/ Boot

Spec == Init /\ [][Next]_vars

(* The client never gives up, a frame that was written is read while the    *)
(* connection lasts, and somebody starts Core again.  Nobody owes an event. *)
Fairness == WF_vars(Ask) /\ WF_vars(Attach) /\ WF_vars(Read) /\ WF_vars(Boot)

FairSpec == Spec /\ Fairness

-----------------------------------------------------------------------------
Seen == {seen[i] : i \in 1..Len(seen)}
OnWire == {wire[i] : i \in 1..Len(wire)}

(* Every variable has the shape the code gives it. *)
TypeOK ==
  /\ core \in {"up", "down"}
  /\ top \in Nat /\ floor \in 0..top
  /\ link \in {"none", "asked", "open"}
  /\ wire \in Seq(Nat)
  /\ lastId \in Nat \cup {Latest}
  /\ seen \in Seq(Nat)
  /\ joined \in Nat \cup {-1}
  /\ drops \in 0..MaxDrops

(* "Nothing twice": whatever drops, crashes and replays happen, the ids the  *)
(* desktop hands on only grow (events.js and coreEvents.js, together).       *)
NothingTwice ==
  \A i, j \in 1..Len(seen) : i < j => seen[i] < seen[j]

(* A frame in flight is always news: later than all the desktop has seen, in *)
(* order, and an id the log really handed out.                               *)
WireIsNews ==
  /\ \A i \in 1..Len(wire) : wire[i] \in 1..top
  /\ \A i, j \in 1..Len(wire) : i < j => wire[i] < wire[j]
  /\ \A i \in 1..Len(wire), k \in 1..Len(seen) : seen[k] < wire[i]

(* "Exactly what it missed": while the client is attached, every event since *)
(* it first attached has been seen or is in flight, except what retention    *)
(* removed.  This is what a reconnect with the last id is for.               *)
NothingMissed ==
  link = "open" =>
    \A n \in (joined + 1)..top : n > floor => n \in Seen \cup OnWire

(* The client catches up: an event emitted after it first attached is in the *)
(* end seen, unless retention took it or the desktop was quit.               *)
CatchesUp ==
  \A n \in 1..MaxEvents :
    (joined # -1 /\ joined < n /\ n <= top) ~> (n \in Seen \/ n <= floor \/ joined = -1)

Promise == INSTANCE EventDelivery WITH happened <- top, told <- seen

(* The stream implements the promise: the desktop is told in order, at most  *)
(* once in its life, and only of what happened.                              *)
TellsInOrder == Promise!Spec
=============================================================================
