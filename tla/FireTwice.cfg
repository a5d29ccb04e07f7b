\* One occurrence of a series, and one odd reading of the host's counters.
SPECIFICATION FwSpec
CONSTANTS
  MaxRows = 1
  MaxOdd = 1
INVARIANT OneFireOneRecord
CHECK_DEADLOCK FALSE
