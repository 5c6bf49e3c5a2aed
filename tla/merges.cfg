\* Detection, editing, merging, recovery.
SPECIFICATION Spec
CONSTANTS
    Parts = 3
    Joined <- MCJoined
    Lists <- MCLists
    MaxGroups = 3
    MaxVideos = 2
    MaxRows = 2
    MaxRevisions = 2
    MaxNames = 2
    Takes = 2
    Budgets <- MCBudgets
INVARIANTS
    MergedIsComplete
    NothingStuck
    OfferedFitsItsParts
    EveryVideoHasAnOwner
PROPERTIES
    OutputIsStable
CHECK_DEADLOCK FALSE
