\* One mood; the light, a reply and main's broadcasts.
SPECIFICATION FaceSpec
CONSTANTS
  Moods = {"happy"}
  MaxSayings = 1
INVARIANT NeverWatchesDark
CHECK_DEADLOCK FALSE
