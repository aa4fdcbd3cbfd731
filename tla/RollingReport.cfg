SPECIFICATION Spec
CONSTANTS
  Tasks = {t1, t2}
  Sources = {1, 2}
  Records = {r1, r2}
  Evidence = {e0, e1}
  NoEvidence = e0
  Producers = {p}
  Absent = Absent
  NoReport = NoReport
  NoPrint = NoPrint
  InitialRows <- MCInitialRows
  MaxTime = 2
  MaxRevision = 2
  MaxEdits = 2
  MaxFaults = 1
  HotDeploy = TRUE
  LoadMayFail = FALSE
SYMMETRY Symmetry
INVARIANTS TypeOK IncrementalIsFull RelabelRefreshes
PROPERTIES DecisionsAreRetained ContractFollowsReport ImplementsLedger
