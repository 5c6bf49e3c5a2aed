\* Zones, recomputations, joined videos and what was sent of them.
SPECIFICATION Spec
CONSTANTS
    Home = Home
    Away = Away
    NoZone = NoZone
    Zones = {Home, Away}
    Offset <- MCOffset
    Defs <- MCDefs
    Parts = 2
    Clock = 10
    BatchSize = 1
    MaxGroups = 2
    Budgets <- MCBudgets
INVARIANTS
    DateIsResolved
    SentIsTold
    VideosFollow
CHECK_DEADLOCK FALSE
