SPECIFICATION FairSpec
CONSTANTS
  RecomputeHours = 1
  Retention = 1
  Absent = Absent
  MaxHour = 3
  MaxReceipts = 1
  MaxRotations = 1
  MaxFaults = 2
INVARIANTS TypeOK PairsAgree
PROPERTIES  LateReceiptsLand
