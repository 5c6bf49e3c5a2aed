\* Requests, expiry, restarts, zone changes and other people race one sender
\* or approval.
SPECIFICATION Spec
CONSTANTS
    m1 = m1
    m2 = m2
    lib1 = lib1
    lib2 = lib2
    url1 = url1
    url2 = url2
    NoMedia = NoMedia
    Media <- MCOneMedia
    Libraries <- MCOneLibrary
    Urls <- MCUrls
    MaxRecords = 2
    MaxRevisions = 2
    MaxAssets = 2
    MaxAttempts = 2
    FixesDate = TRUE
    Wired = TRUE
    Budgets <- MCRaces
INVARIANTS
    OneRecordPerPair
    NothingLeftBehind
    SendsOnlyEligible
    OwnRowStays
    DateFollowsCapture
\* Nobody has to ask for another job.
CHECK_DEADLOCK FALSE
