\* One path whose file is replaced, crashes, power losses, and others who
\* place and remove library files meanwhile.
SPECIFICATION Spec
CONSTANTS
    a = a
    b = b
    c1 = c1
    c2 = c2
    s1 = s1
    s2 = s2
    s3 = s3
    Nothing = Nothing
    Partial = Partial
    Entries <- MCOneEntry
    Slots <- MCTwoSlots
    Contents <- MCContents
    Stamps = {1, 2}
    Base <- MCBase
    KnownFolders <- MCFolders
    MaxTries = 3
    MaxCrashes = 1
    MaxFaults = 0
    MaxSwaps = 1
    MaxIntrusions = 1
SYMMETRY Symmetric
INVARIANTS StagedIsSafe CatalogueIsOnDisk ImportedEntriesAreCatalogued NothingIsLost SameFileSameName
PROPERTIES NeverReplaced
CHECK_DEADLOCK FALSE
