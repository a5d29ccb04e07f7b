--------------------------- MODULE MCPermissions ---------------------------
(* The permission broker on small instances. *)
EXTENDS PermissionBroker

CONSTANTS a1, a2, a3, k1

(* Two asks about the same thing, and one of an action no rule knows. *)
SomeKeys ==
  [a \in Asks |-> IF a = a3 THEN NoKey ELSE k1]
=============================================================================
