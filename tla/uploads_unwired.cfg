\* The reconciler as api/app.py builds it.
SPECIFICATION Spec
CONSTANTS
    m1 = m1
    m2 = m2
    lib1 = lib1
    lib2 = lib2
    url1 = url1
    url2 = url2
    NoMedia = NoMedia
    Media <- MCOneMedia
    Libraries <- MCOneLibrary
    Urls <- MCOneUrl
    MaxRecords = 1
    MaxRevisions = 1
    MaxAssets = 1
    MaxAttempts = 2
    FixesDate = TRUE
    Wired = FALSE
    Budgets <- MCUnwired
INVARIANTS
    NothingLeftBehind
\* Nobody has to ask for another job.
CHECK_DEADLOCK FALSE
