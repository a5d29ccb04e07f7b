\* Two jobs of the person and the reconciliation over one automation, while
\* the host gives up, a request fails, and the link is lost, the runtime stops
\* or Core dies.
SPECIFICATION Spec
CONSTANTS
  Autos = {x}
  Tasks = {1, 2, 3, 4, 5}
  Persons = 2
  None = None
  MaxChanges = 2
  MaxPauses = 1
  MaxFailures = 1
  MaxStops = 1
INVARIANTS TypeOK SyncAgrees OnIsAllowed
CHECK_DEADLOCK FALSE
