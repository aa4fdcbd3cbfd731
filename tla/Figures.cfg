SPECIFICATION Spec
CONSTANTS
    None = None
    c1 = c1
    c2 = c2
    p1 = p1
    p2 = p2
    s1 = s1
    s2 = s2
    b1 = b1
    b2 = b2
    x1 = x1
    x2 = x2
    Reach = 2
    Twin = 1
    Maturity = 6
    SizeLimit = 2
    Near = 1
    Tasks <- MCTasks
    Packs <- MCPacks
    Hours <- MCHours
    Blank <- MCBlank
    BlankPack <- MCBlankPack
INVARIANT CascadeIsOrderFree
INVARIANT JoinsKeepIdentity
INVARIANT SilenceChangesNothing
INVARIANT EveryRecordIsCountedOnce
INVARIANT NoEvidenceNoNumber
INVARIANT GenerationsAreNotMixed
CHECK_DEADLOCK FALSE
