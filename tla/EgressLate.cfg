\* Two sessions, one connection, and a Core that is started again under an open card.
SPECIFICATION EgressSpec
CONSTANTS
  Sessions = {s1, s2}
  Zones = {z1}
  Conns = {c1}
  MaxCores = 1
INVARIANT YesIsKept
CHECK_DEADLOCK FALSE
