SPECIFICATION Spec
CONSTANTS
  Files = {1, 2}
  Requests = {q1, q2}
  None = None
  MaxUsage = 2
  MaxWritten = 3
  SizeLimit = 2
SYMMETRY Symmetry
INVARIANTS TypeOK QuotaIsBracketed SessionIsBracketed
PROPERTY QuotaNeverShrinks
CHECK_DEADLOCK FALSE
