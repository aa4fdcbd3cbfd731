SPECIFICATION FairSpec
CONSTANTS
  Reasons = {r1}
  None = None
  MaxClock = 2
  MaxRows = 2
  MaxRevisions = 2
  MaxFaults = 1
INVARIANTS TypeOK OutcomeIsRecorded TerminalCallStands
PROPERTY LateResultsPrevail
