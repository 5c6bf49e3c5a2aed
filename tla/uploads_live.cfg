\* Two media in one job that never writes dates.
SPECIFICATION FairSpec
CONSTANTS
    m1 = m1
    m2 = m2
    lib1 = lib1
    lib2 = lib2
    url1 = url1
    url2 = url2
    NoMedia = NoMedia
    Media <- MCTwoMedia
    Libraries <- MCOneLibrary
    Urls <- MCOneUrl
    MaxRecords = 2
    MaxRevisions = 1
    MaxAssets = 4
    MaxAttempts = 2
    FixesDate = FALSE
    Wired = TRUE
    Budgets <- MCLive
PROPERTIES
    EveryUploadJobEnds
\* Nobody has to ask for another job.
CHECK_DEADLOCK FALSE
