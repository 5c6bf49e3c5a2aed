SPECIFICATION FairSpec
CONSTANTS
    Clients = {"api", "watcher"}
    n1 = n1
    n2 = n2
    Nodes = {n1, n2}
    c1 = c1
    c2 = c2
    c3 = c3
    Cards = {c1, c2, c3}
    NoCard = NoCard
    Ids = {"a", "b"}
    Id <- MCId
    Allowed = {"a", "b"}
    Kind <- MCKind
    MaxRevision = 2
    Roots <- MCRoots
    Starts <- MCStarts
    Remembered <- MCRemembered
INVARIANTS
    OpenedIsSelected
    NothingLeaks
PROPERTIES
    TwinsWait
    CardIsCounted
    TrustedIsImported
CHECK_DEADLOCK FALSE
