\* Two jobs, one of an unknown type, two processes on one data root; whatever is
\* lost on the way to a settlement, every accepted job ends.
SPECIFICATION FairSpec
CONSTANTS
    j1 = j1
    j2 = j2
    p1 = p1
    p2 = p2
    NoJob = NoJob
    NoProc = NoProc
    Jobs <- MCJobs
    Unregistered <- MCUnregisteredOne
    Procs <- MCProcs
    LeaseTicks = 2
    MaxEffects = 1
    MaxRestarts = 2
    MaxSettleFaults = 1
    MaxLoopFaults = 1
INVARIANTS OwnedRowIsLive NoSignalBeforeSettlement
PROPERTIES ImplementsLifecycle EveryJobEnds
CHECK_DEADLOCK FALSE
