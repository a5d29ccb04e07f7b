\* A client that starts from the beginning and is never further behind than
\* one replay reads.
SPECIFICATION FairSpec
CONSTANTS
  Latest = Latest
  FirstSince = 0
  ReplayLimit = 5
  MaxEvents = 5
  MaxDrops = 3
INVARIANTS TypeOK NothingTwice NothingMissed
PROPERTIES CatchesUp TellsInOrder
CHECK_DEADLOCK FALSE
