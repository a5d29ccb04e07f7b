------------------------------ MODULE FireWatch ------------------------------
(***************************************************************************)
(* Fires FREN did not start (runtime-nanoclaw/schedule-watch.js and the    *)
(* part of index.js that acts on what it finds). The host fires a series   *)
(* on its own clock and keeps one live row and two counters; FREN reads    *)
(* them every so often, opens a run for what fired, ends it by the turn    *)
(* frame or by the counters, and must not count any end twice. One series. *)
(***************************************************************************)
EXTENDS Naturals, FiniteSets, FiniteSetsExt

CONSTANTS
  MaxRows,     \* bound: occurrences whose time comes
  MaxOdd       \* bound: new times given, runs by hand, cancels and new lives

ASSUME FireWatchAssumption == MaxRows \in Nat \ {0} /\ MaxOdd \in Nat

ByHand == 0                  \* the row of the one run started by hand
RowIds == ByHand .. MaxRows + 1
NoRow == MaxRows + 2
Ends == {"completed", "failed"}

VARIABLES
  row, slot, phase,  \* host: the live row, times it gave anew, the row waiting, due or acked
  hand, call,        \* host: the run by hand; FREN: its request, not made, sent or answered
  endOf,             \* host: how each row ended, or no
  counts,            \* host: its counters
  watches,           \* rows the host watches for FREN, their turn frames not yet come
  listing,           \* the list FREN has asked for, as read
  last,              \* FREN: the last reading
  runOf,             \* FREN: the run of each row: none, open, counted or ended
  records, fires, lets, lives, base, odd  \* history: runs recorded; attempts the host made; cancels,
                   \* runs lost with a life and ends forgotten; lives; ends before the first reading; MaxOdd

host == <<row, slot, phase, hand, endOf, counts>>
tally == <<fires, lets, lives, odd>>
fwVars == <<host, call, watches, listing, last, runOf, records, tally, base>>

Ended(c) == c["completed"] + c["failed"]

NoList == [seen |-> FALSE]
Zero == [e \in Ends |-> 0]
NoReading == [partial |-> TRUE, row |-> NoRow, slot |-> 0, counts |-> Zero, open |-> NoRow,
          settled |-> NoRow, pending |-> Zero]

FwInit ==
  /\ row = 1 /\ slot = 0 /\ phase = "waiting" /\ hand = "none" /\ call = "none"
  /\ endOf = [r \in RowIds |-> "no"] /\ counts = Zero /\ watches = {}
  /\ listing = NoList /\ last = NoReading /\ runOf = [r \in RowIds |-> "none"]
  /\ records = 0 /\ fires = 0 /\ lets = 0 /\ lives = 1 /\ base = 0 /\ odd = 0

-----------------------------------------------------------------------------
(* The host: a row's time comes, it is given a new one (a retry), its end  *)
(* is acknowledged, and a sweep later the counters move and the series has *)
(* its next row.                                                           *)
Odd == odd < MaxOdd /\ odd' = odd + 1

HostDue ==
  /\ row <= MaxRows /\ phase = "waiting" /\ phase' = "due" /\ fires' = fires + 1
  /\ UNCHANGED <<row, slot, hand, endOf, counts, call, watches, listing, last, runOf, records, lets, lives, base, odd>>
HostRetries ==
  /\ Odd /\ phase = "due" /\ slot' = slot + 1 /\ phase' = "waiting"
  /\ UNCHANGED <<row, hand, endOf, counts, call, watches, listing, last, runOf, records, fires, lets, lives, base>>
HostAcks(e) ==
  /\ phase = "due" /\ phase' = "acked" /\ endOf' = [endOf EXCEPT ![row] = e]
  /\ UNCHANGED <<row, slot, hand, counts, call, watches, listing, last, runOf, records, tally, base>>
HostSweeps ==
  /\ phase = "acked" /\ counts' = [counts EXCEPT ![endOf[row]] = @ + 1]
  /\ row' = row + 1 /\ phase' = "waiting"
  /\ UNCHANGED <<slot, hand, endOf, call, watches, listing, last, runOf, records, tally, base>>
HandAcks(e) ==
  /\ hand = "running" /\ hand' = "acked" /\ endOf' = [endOf EXCEPT ![ByHand] = e]
  /\ UNCHANGED <<row, slot, phase, counts, call, watches, listing, last, runOf, records, tally, base>>
HandSwept ==
  /\ hand = "acked" /\ hand' = "over" /\ counts' = [counts EXCEPT ![endOf[ByHand]] = @ + 1]
  /\ UNCHANGED <<row, slot, phase, endOf, call, watches, listing, last, runOf, records, tally, base>>

-----------------------------------------------------------------------------
(* A run by hand: the host starts it, and FREN has a run for it once the   *)
(* call has returned (triggerSchedule).                                    *)
RunByHand ==
  /\ Odd /\ call = "none" /\ call' = "sent" /\ hand' = "running" /\ fires' = fires + 1
  /\ UNCHANGED <<row, slot, phase, endOf, counts, watches, listing, last, runOf, records, lets, lives, base>>
Registers ==
  /\ call = "sent" /\ call' = "answered" /\ runOf' = [runOf EXCEPT ![ByHand] = "open"]
  /\ records' = records + 1 /\ watches' = watches \cup {ByHand}
  /\ UNCHANGED <<host, listing, last, tally, base>>

(* Comparing the list with the last reading (observe). Ends FREN saw       *)
(* explain as many counter moves as they can: like for like, then any.     *)
(* Mutation: a difference that may be less than nothing.                   *)
Moves(l) == [e \in Ends |-> IF last.partial THEN 0 ELSE l.counts[e] - last.counts[e]]
Least2(a, b) == IF a < b THEN a ELSE b
AbsorbedPlainly(m, p) == [left |-> [e \in Ends |-> m[e] - p[e]], kept |-> [e \in Ends |-> p[e] - m[e]]]
Absorbed(m, p) ==
  LET exact == [e \in Ends |-> Least2(m[e], p[e])]
      m1 == [e \in Ends |-> m[e] - exact[e]]
      p1 == [e \in Ends |-> p[e] - exact[e]]
      other(e) == IF e = "completed" THEN "failed" ELSE "completed"
      cross == [e \in Ends |-> Least2(m1[e], p1[other(e)])]
  IN [left |-> [e \in Ends |-> m1[e] - cross[e]], kept |-> [e \in Ends |-> p1[e] - cross[other(e)]]]

(* The moves an open run's end does not explain. Mutation: it explains all. *)
MissedNone(moved, ends) == IF ends THEN 0 ELSE moved
Missed(moved, ends) == IF ends THEN moved - 1 ELSE moved

(* What a list and a reading yield: the row whose open run has ended, how  *)
(* many fires came and went unseen, the row that fired, the next reading.  *)
Observed(l) ==
  LET a == Absorbed(Moves(l), last.pending)
      moved == a.left["completed"] + a.left["failed"]
      ends == moved > 0 /\ last.open # NoRow
      settled1 == IF ends THEN last.open ELSE last.settled
      open1 == IF ends THEN NoRow ELSE last.open
      again == ~last.partial /\ last.row = l.row /\ last.slot # l.slot /\ settled1 = l.row
      settled2 == IF again THEN NoRow ELSE settled1
      timeHasCome == <<l.row, l.slot>> # <<row, slot>> \/ phase # "waiting"
      fired == timeHasCome /\ open1 # l.row /\ settled2 # l.row
  IN [settledRow |-> IF ends THEN last.open ELSE NoRow, missed |-> Missed(moved, ends),
      firedRow |-> IF fired THEN l.row ELSE NoRow,
      next |-> [partial |-> FALSE, row |-> l.row, slot |-> l.slot, counts |-> l.counts,
                open |-> IF fired THEN l.row ELSE open1, settled |-> settled2, pending |-> a.kept]]

ListAsked ==
  /\ listing = NoList
  /\ listing' = [seen |-> TRUE, there |-> phase \in {"waiting", "due"}, row |-> row, slot |-> slot, counts |-> counts]
  /\ UNCHANGED <<host, call, watches, last, runOf, records, tally, base>>

(* ... and acting on it (onFinding): the run of the settled row is ended   *)
(* in a moment; what was missed is an open run's end, else a record of its *)
(* own; and a fired row has a run opened, and is watched.                  *)
ListRead ==
  /\ listing # NoList /\ listing' = NoList
  /\ IF ~listing.there THEN UNCHANGED <<last, runOf, records, watches, base>>
     ELSE LET o == Observed(listing)
              run1 == [r \in RowIds |-> IF r = o.settledRow /\ runOf[r] = "open" THEN "counted" ELSE runOf[r]]
              going == {r \in RowIds : run1[r] = "open"}
              n == Least2(o.missed, Cardinality(going))
              opens == o.firedRow # NoRow /\ run1[o.firedRow] \notin {"open", "counted"}
          IN /\ last' = o.next /\ base' = IF last.partial THEN Ended(listing.counts) ELSE base
             /\ \E explained \in kSubset(n, going) :
                  runOf' = [r \in RowIds |-> IF r \in explained THEN "counted"
                                             ELSE IF opens /\ r = o.firedRow THEN "open" ELSE run1[r]]
             /\ records' = records + (o.missed - n) + (IF opens THEN 1 ELSE 0)
             /\ watches' = IF opens THEN watches \cup {o.firedRow} ELSE watches
  /\ UNCHANGED <<host, call, tally>>

(* An end the host confirmed is remembered, for the counter move to come,  *)
(* unless the counters told it first; one FREN decided is let go of.       *)
(* Mutation: it is not remembered.                                         *)
LetsGo(r) == last' = [last EXCEPT !.open = IF @ = r THEN NoRow ELSE @, !.settled = r]
Remembers(r) ==
  IF last.settled = r THEN UNCHANGED last
  ELSE last' = [last EXCEPT !.open = IF @ = r THEN NoRow ELSE @, !.settled = r, !.pending[endOf[r]] = @ + 1]

(* ABSORB_MS: what a remembered end explains has not come for ten minutes  *)
(* (the machine slept, the host's sweep was late), and it is left out of   *)
(* every later comparison; nothing but a comparison reads it.              *)
Forgets(e) ==
  /\ last.pending[e] > 0 /\ last' = [last EXCEPT !.pending[e] = @ - 1] /\ lets' = lets + 1
  /\ UNCHANGED <<host, call, watches, listing, runOf, records, fires, lives, base, odd>>

TurnComes(r) ==
  /\ r \in watches /\ endOf[r] # "no" /\ watches' = watches \ {r}
  /\ IF runOf[r] \in {"open", "counted"}
     THEN /\ runOf' = [runOf EXCEPT ![r] = "ended"]
          /\ IF runOf[r] = "open" THEN Remembers(r) ELSE UNCHANGED last
     ELSE UNCHANGED <<runOf, last>>
  /\ UNCHANGED <<host, call, listing, records, tally, base>>
GraceEnds(r) ==
  /\ runOf[r] = "counted" /\ runOf' = [runOf EXCEPT ![r] = "ended"]
  /\ UNCHANGED <<host, call, watches, listing, last, records, tally, base>>
Cancelled(r) ==
  /\ runOf[r] \in {"open", "counted"} /\ Odd /\ lets' = lets + 1
  /\ runOf' = [runOf EXCEPT ![r] = "ended"]
  /\ IF runOf[r] = "open"
     THEN last' = [last EXCEPT !.open = IF @ = r THEN NoRow ELSE @, !.settled = r]
     ELSE UNCHANGED last
  /\ UNCHANGED <<host, call, watches, listing, records, fires, lives, base>>

(* A new life of FREN: nothing it knew of runs and readings is left.       *)
NewLife ==
  /\ Odd /\ lives < 2 /\ lives' = lives + 1
  /\ lets' = lets + 1 + Cardinality({r \in RowIds : runOf[r] # "none"})
  /\ last' = NoReading /\ runOf' = [r \in RowIds |-> "none"] /\ watches' = {} /\ listing' = NoList
  /\ call' = IF call = "sent" THEN "answered" ELSE call
  /\ UNCHANGED <<host, records, fires, base>>

FwNext ==
  \/ HostDue \/ HostRetries \/ HostSweeps \/ HandSwept \/ RunByHand \/ Registers
  \/ \E e \in Ends : HostAcks(e) \/ HandAcks(e) \/ Forgets(e)
  \/ \E r \in RowIds : TurnComes(r) \/ GraceEnds(r) \/ Cancelled(r)
  \/ ListAsked \/ ListRead \/ NewLife

FwSpec == FwInit /\ [][FwNext]_fwVars

-----------------------------------------------------------------------------
(* Every variable holds a value of its kind.                               *)
FwTypeOK ==
  /\ row \in 1 .. MaxRows + 1 /\ slot \in 0 .. MaxOdd /\ phase \in {"waiting", "due", "acked"}
  /\ hand \in {"none", "running", "acked", "over"} /\ call \in {"none", "sent", "answered"}
  /\ endOf \in [RowIds -> Ends \cup {"no"}] /\ counts \in [Ends -> Nat]
  /\ watches \subseteq RowIds /\ last.pending \in [Ends -> Nat]
  /\ runOf \in [RowIds -> {"none", "open", "counted", "ended"}]
  /\ {records, fires, lets, lives, base, odd} \subseteq Nat

(* "One fire is never two records" (schedule-watch.js:26): of a series     *)
(* nobody runs by hand and the host gives no new time, FREN records no     *)
(* more runs than there were fires, whatever the order of readings, turn   *)
(* frames, ends read off the counters and sweeps, but for those it         *)
(* cancelled, lost with a life, or whose end it forgot because the sweep   *)
(* came more than ten minutes after it.                                    *)
NeverTwice == (call = "none" /\ slot = 0) => records <= fires + lets

(* And of every series. Violated: the call that runs one by hand returns   *)
(* after the count of its end was read as a fire that was missed, and then *)
(* the run is recorded; or a list asked for before an occurrence given a   *)
(* new time ended, and read after, takes its settled row for fired again.  *)
OneFireOneRecord == records <= fires + lets

(* And none is lost: of every end the counters showed since the first      *)
(* reading there is a record, of a series nobody runs by hand.             *)
NoneMissed ==
  (call = "none" /\ lives = 1 /\ ~last.partial) => records >= Ended(last.counts) - base
=============================================================================
