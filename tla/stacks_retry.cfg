\* A retry of one of two stacked records.
SPECIFICATION Spec
CONSTANTS
    a = a
    b = b
    j1 = j1
    j2 = j2
    r1 = r1
    r2 = r2
    Absent = Absent
    Pending = Pending
    Cards <- MCCards
    Exts <- MCExts
    Paths <- MCPaths
    Media <- MCMedia
    Kind <- MCKind
    Rules <- MCRules
    MaxScans = 4
    Worlds <- MCRetried
INVARIANTS
    OneResult
CHECK_DEADLOCK FALSE
