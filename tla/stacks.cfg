\* One pair of files through passes, rechecks and everybody else.
SPECIFICATION FairSpec
CONSTANTS
    a = a
    b = b
    j1 = j1
    j2 = j2
    r1 = r1
    r2 = r2
    Absent = Absent
    Pending = Pending
    Cards <- MCCards
    Exts <- MCExts
    Paths <- MCPaths
    Media <- MCMedia
    Kind <- MCKind
    Rules <- MCRules
    MaxScans = 4
    Worlds <- MCAll
INVARIANTS
    RecordIsTrue
    NoPairForgotten
    ListingAgrees
    NothingDisappears
PROPERTIES
    ForeignStackKept
    PassEnds
\* The bounds end every behaviour.
CHECK_DEADLOCK FALSE
