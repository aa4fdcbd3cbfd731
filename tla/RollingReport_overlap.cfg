SPECIFICATION FairSpec
CONSTANTS
  Tasks = {t1, t2}
  Sources = {1}
  Records = {r1, r2}
  Evidence = {e0, e1}
  NoEvidence = e0
  Producers = {p, q}
  Absent = Absent
  NoReport = NoReport
  NoPrint = NoPrint
  InitialRows <- MCSettledRows
  MaxTime = 2
  MaxRevision = 1
  MaxEdits = 1
  MaxFaults = 1
  HotDeploy = TRUE
  LoadMayFail = TRUE
PROPERTY ParityIsRestored
