SPECIFICATION Spec
CONSTANTS
  Reasons = {r1}
  None = None
  MaxClock = 3
  MaxRows = 1
  MaxRevisions = 2
  MaxFaults = 0
INVARIANT RevisionIsNewer
