\* Two paths whose collision names meet, crashes and errors: the refinement.
SPECIFICATION Spec
CONSTANTS
    a = a
    b = b
    c1 = c1
    c2 = c2
    s1 = s1
    s2 = s2
    s3 = s3
    Nothing = Nothing
    Partial = Partial
    Entries <- MCTwoEntries
    Slots <- MCTwoSlots
    Contents <- MCContents
    Stamps = {1, 2}
    Base <- MCBase
    KnownFolders <- MCFolders
    MaxTries = 3
    MaxCrashes = 1
    MaxFaults = 1
    MaxSwaps = 0
    MaxIntrusions = 0
SYMMETRY Symmetric
INVARIANTS NothingAfterCancel
PROPERTIES ImplementsPublication
CHECK_DEADLOCK FALSE
