\* Two libraries, an edit, a library swapped behind its url, and other people
\* who replace what is ours.
SPECIFICATION Spec
CONSTANTS
    m1 = m1
    m2 = m2
    lib1 = lib1
    lib2 = lib2
    url1 = url1
    url2 = url2
    NoMedia = NoMedia
    Media <- MCOneMedia
    Libraries <- MCLibraries
    Urls <- MCUrls
    MaxRecords = 2
    MaxRevisions = 2
    MaxAssets = 2
    MaxAttempts = 2
    FixesDate = TRUE
    Wired = TRUE
    Budgets <- MCTargets
INVARIANTS
    RightLibrary
    KeyInUseIsKept
PROPERTIES
    NoUnapprovedRewrite
SYMMETRY MCSymmetry
\* Nobody has to ask for another job.
CHECK_DEADLOCK FALSE
