\* Two questions of one conversation, one fault and one crash.
SPECIFICATION FairSpec
CONSTANTS
  ChatRuns = {c1, c2}
  AgentRuns = {}
  Main = Main
  None = None
  MaxWords = 1
  MaxFaults = 1
  MaxCrashes = 1
INVARIANTS TypeOK OneEnding NoOrphans ThreadIsLive OpenIsTimed FaceRests
PROPERTIES FinalIsFinal EveryRunEnds FaceLetsGo
CHECK_DEADLOCK FALSE
