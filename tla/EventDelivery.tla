---------------------------- MODULE EventDelivery ----------------------------
(***************************************************************************)
(* What FREN Core's event stream promises the desktop, and nothing of how: *)
(* events happen in an order, and the desktop is told of them in that      *)
(* order, each at most once.  packages/fren-core/events.js states it, and  *)
(* EventStream.tla is the mechanism.                                       *)
(***************************************************************************)
EXTENDS Integers, Sequences

VARIABLES
  happened,  (* how many events there have been; the n-th has id n *)
  told       (* the ids the desktop was told of, in order          *)

LastTold == IF told = << >> THEN 0 ELSE told[Len(told)]

Init == happened = 0 /\ told = << >>

Happen ==
  /\ happened' = happened + 1
  /\ UNCHANGED told

Tell ==
  /\ \E n \in (LastTold + 1)..happened : told' = Append(told, n)
  /\ UNCHANGED happened

(* The desktop is quit: whoever listens next has been told nothing. *)
Forget ==
  /\ told' = << >>
  /\ UNCHANGED happened

Spec == Init /\ [][Happen \/ Tell \/ Forget]_<<happened, told>>
=============================================================================
