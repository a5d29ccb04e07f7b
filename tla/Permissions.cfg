\* Two asks about the same thing, one of an action no rule knows, and a hold.
SPECIFICATION FairSpec
CONSTANTS
  a1 = a1
  a2 = a2
  a3 = a3
  k1 = k1
  Asks = {a1, a2, a3}
  Holds = {h1}
  Keys = {k1}
  NoKey = NoKey
  KeyOf <- SomeKeys
  Standing = {}
  MaxFaults = 1
  MaxCrashes = 1
INVARIANTS TypeOK ActsMatchCards WaitersHaveCards CallersHear
PROPERTIES YesIsGiven EveryCardCloses
CHECK_DEADLOCK FALSE
