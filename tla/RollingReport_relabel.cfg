SPECIFICATION Spec
CONSTANTS
  Tasks = {t1, t2}
  Sources = {1, 2}
  Records = {r1}
  Evidence = {e0}
  NoEvidence = e0
  Producers = {p}
  Absent = Absent
  NoReport = NoReport
  NoPrint = NoPrint
  InitialRows <- MCInitialRows
  MaxTime = 2
  MaxRevision = 2
  MaxEdits = 3
  MaxFaults = 1
  HotDeploy = FALSE
  LoadMayFail = FALSE
SYMMETRY Symmetry
INVARIANT SourcePresentRefreshed
