\* One run of one automation, and two sightings of what starts it.
SPECIFICATION FiringSpec
CONSTANTS
  MaxFires = 2
  MaxActs = 2
INVARIANT OncePerSighting
CHECK_DEADLOCK FALSE
