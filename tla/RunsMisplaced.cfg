SPECIFICATION Spec
CONSTANTS
  ChatRuns = {c1, c2}
  AgentRuns = {}
  Main = Main
  None = None
  MaxWords = 1
  MaxFaults = 0
  MaxCrashes = 0
SYMMETRY ChatsAlike
INVARIANT RepliesLandOnTheirRun
CHECK_DEADLOCK FALSE
