SPECIFICATION Spec
CONSTANTS
    None = None
    s1 = s1
    s2 = s2
    f1 = f1
    p = p
    q = q
    m = m
    MaxHops = 2
    MaxTold = 1
    MaxLate = 1
    MinArtifacts = 1
    MinMeasured = 1
    MinRuntimes = 1
    MinApplicable = 1
    MinCoverage = 80
    MaxTierShare = 90
    Shapes <- MCShapes
    Results <- MCResults
    Telemetry <- MCTelemetry
    Records <- MCRecords
    Declarations <- MCDeclarations
    Books <- MCBooks
INVARIANT TypeOK
INVARIANT ApprovalIsIndependent
INVARIANT BudgetIsEarned
INVARIANT SafetyHolds
INVARIANT LineageIsJudgedAsOne
INVARIANT NumbersAgree
INVARIANT DeclarationIsHonoured
CHECK_DEADLOCK FALSE
