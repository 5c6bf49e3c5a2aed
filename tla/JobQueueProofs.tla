--------------------------- MODULE JobQueueProofs ---------------------------
(***************************************************************************)
(* JobQueue for any jobs, processes, lease length and bounds: its type     *)
(* invariant, the safety properties TLC checks on small instances, and     *)
(* that it implements JobLifecycle.                                        *)
(***************************************************************************)
EXTENDS JobQueue, TLAPS

USE DEF vars, table, worker, stopper, history, bounds

-----------------------------------------------------------------------------
\* Closing rows keeps the types of the columns it writes.
LEMMA CloseType ==
  ASSUME TypeOK, NEW STATE S, NEW STATE final,
         final \in [Jobs -> Statuses], Close(S, final)
  PROVE  /\ status' \in [Jobs -> Statuses]
         /\ token' \in [Jobs -> Nat]
         /\ ttl' \in [Jobs -> -1..LeaseTicks]
         /\ rank' \in [Jobs -> Nat]
         /\ nextToken' \in Nat \ {0}
<1>1. status' \in [Jobs -> Statuses]
  BY DEF Close, TypeOK
<1>2. ttl' \in [Jobs -> -1..LeaseTicks]
  BY JobQueueAssumption DEF Close, TypeOK
<1>3. QED
  BY <1>1, <1>2 DEF Close, TypeOK

\* The initial states are well typed.
LEMMA TypeInit == Init => TypeOK
  BY JobQueueAssumption DEF Init, TypeOK, Statuses, PCs

\* Every step keeps the type of every variable.
LEMMA TypeNext == IInv /\ [Next]_vars => TypeOK'
<1> SUFFICES ASSUME TypeOK, OwnedRowIsLive, FailureIsWritten, [Next]_vars
             PROVE  TypeOK'
  BY DEF IInv
<1> USE JobQueueAssumption DEF TypeOK, Statuses, Live, Settled, PCs
<1>1. ASSUME NEW j \in Jobs, Enqueue(j) PROVE TypeOK'
  BY <1>1 DEF Enqueue
<1>2. ASSUME NEW j \in Jobs, UserCancel(j) PROVE TypeOK'
  BY <1>2 DEF UserCancel, RequestCancel
<1>3. CASE Reset
  BY <1>3 DEF Reset
<1>4. CASE Tick
  BY <1>4 DEF Tick
<1>5. ASSUME NEW p \in Procs, Start(p) \/ Stop(p) \/ Crash(p) \/ Leave(p)
      PROVE  TypeOK'
  <2>1. CASE Start(p)
    BY <2>1 DEF Start
  <2>2. CASE Stop(p)
    BY <2>2 DEF Stop
  <2>3. ASSUME Vanish(p)
        PROVE  /\ pc' \in [Procs -> PCs]
               /\ ctxJob' \in [Procs -> Jobs \cup {NoJob}]
               /\ ctxToken' \in [Procs -> Nat]
               /\ current' \in [Procs -> Jobs \cup {NoJob}]
               /\ failure' \in [Procs -> BOOLEAN]
               /\ stopping' \in [Procs -> BOOLEAN]
               /\ stopTarget' \in [Procs -> Jobs \cup {NoJob}]
               /\ lock' \in Procs \cup {NoProc}
    BY <2>3 DEF Vanish
  <2>4. CASE Crash(p)
    BY <2>3, <2>4 DEF Crash
  <2>5. CASE Leave(p)
    BY <2>3, <2>5 DEF Leave
  <2>6. QED
    BY <1>5, <2>1, <2>2, <2>4, <2>5
<1>6. ASSUME NEW p \in Procs, Sweep(p) PROVE TypeOK'
  <2>1. [j \in Jobs |-> "interrupted"] \in [Jobs -> Statuses]
    OBVIOUS
  <2>2. QED
    BY <1>6, <2>1, CloseType DEF Sweep
<1>7. ASSUME NEW p \in Procs, StopCancel(p) \/ MarkCancel(p) PROVE TypeOK'
  BY <1>7 DEF StopCancel, MarkCancel, RequestCancel, To
<1>8. ASSUME NEW p \in Procs, ClaimNext(p) PROVE TypeOK'
  BY <1>8 DEF ClaimNext, To
<1>9. ASSUME NEW p \in Procs, Reap(p) PROVE TypeOK'
  <2>1. [j \in Jobs |-> "interrupted"] \in [Jobs -> Statuses]
    OBVIOUS
  <2>2. QED
    BY <1>9, <2>1, CloseType DEF Reap, To
<1>10. ASSUME NEW p \in Procs,
              \/ ExitLoop(p) \/ ClaimNothing(p) \/ SkipReap(p) \/ ReapFault(p)
              \/ Wake(p) \/ Resume(p) \/ CallHandler(p) \/ LoopFault(p)
       PROVE  TypeOK'
  <2>1. CASE ExitLoop(p) \/ ClaimNothing(p) \/ SkipReap(p) \/ Wake(p)
    BY <2>1 DEF ExitLoop, ClaimNothing, SkipReap, Wake, To
  <2>2. CASE ReapFault(p) \/ LoopFault(p)
    BY <2>2 DEF ReapFault, LoopFault, To
  <2>3. CASE Resume(p)
    BY <2>3 DEF Resume, To
  <2>4. CASE CallHandler(p)
    <3>1. ctxJob[p] \in Jobs
      BY <2>4 DEF CallHandler, OwnedRowIsLive, Holding, Owns
    <3>2. QED
      BY <2>4, <3>1 DEF CallHandler, To
  <2>5. QED
    BY <1>10, <2>1, <2>2, <2>3, <2>4
<1>11. ASSUME NEW p \in Procs, Heartbeat(p) \/ FencedEffect(p) \/ HandlerEnds(p)
       PROVE  TypeOK'
  BY <1>11 DEF Heartbeat, FencedEffect, HandlerEnds, Owns, LeaseHolds, To
<1>12. ASSUME NEW p \in Procs, SettleGood(p) \/ SettleFailed(p) PROVE TypeOK'
  <2>1. CASE SettleGood(p)
    <3>1. [j \in Jobs |-> GoodEnding(j)] \in [Jobs -> Statuses]
      BY DEF GoodEnding
    <3>2. QED
      BY <2>1, <3>1, CloseType DEF SettleGood, Forget, To
  <2>2. CASE SettleFailed(p)
    <3>1. [j \in Jobs |-> "failed"] \in [Jobs -> Statuses]
      OBVIOUS
    <3>2. QED
      BY <2>2, <3>1, CloseType DEF SettleFailed, To
  <2>3. QED
    BY <1>12, <2>1, <2>2
<1>13. ASSUME NEW p \in Procs, Signal(p) \/ SettleFault(p)
       PROVE  TypeOK'
  <2>1. CASE Signal(p)
    <3>1. ctxJob[p] \in Jobs
      BY <2>1 DEF Signal, FailureIsWritten
    <3>2. QED
      BY <2>1, <3>1 DEF Signal, Forget, To
  <2>2. CASE SettleFault(p)
    BY <2>2 DEF SettleFault, Forget, To
  <2>3. QED
    BY <1>13, <2>1, <2>2
<1>14. CASE UNCHANGED vars
  BY <1>14
<1>15. QED
  BY <1>1, <1>2, <1>3, <1>4, <1>5, <1>6, <1>7, <1>8, <1>9, <1>10, <1>11,
     <1>12, <1>13, <1>14 DEF Next, ProcStep, LoopStep
-----------------------------------------------------------------------------
\* What the inductive invariant says beyond the types.
Safe == /\ OnlyTheHolderIsUp
        /\ TableIsFenced
        /\ OwnedRowIsLive
        /\ FailureIsWritten
        /\ NoSignalBeforeSettlement
        /\ HandedOnce

LEMMA SafeInit == Init => Safe
  BY JobQueueAssumption
  DEF Init, Safe, OnlyTheHolderIsUp, TableIsFenced, OwnedRowIsLive, Holding,
      FailureIsWritten, NoSignalBeforeSettlement, HandedOnce, Live

\* The requests leave the workers alone.
LEMMA SafeRequests ==
  ASSUME TypeOK, Safe,
         \/ \E j \in Jobs : Enqueue(j) \/ UserCancel(j)
         \/ Reset
         \/ Tick
  PROVE  Safe'
<1> USE JobQueueAssumption
    DEF TypeOK, Safe, OnlyTheHolderIsUp, TableIsFenced, OwnedRowIsLive, Holding,
        Owns, FailureIsWritten, NoSignalBeforeSettlement, HandedOnce,
        Live, Settled, Statuses, PCs
<1>1. ASSUME NEW j \in Jobs, Enqueue(j) PROVE Safe'
  BY <1>1 DEF Enqueue
<1>2. ASSUME NEW j \in Jobs, UserCancel(j) PROVE Safe'
  BY <1>2 DEF UserCancel, RequestCancel
<1>3. CASE Reset
  BY <1>3 DEF Reset, Unfinished
<1>4. CASE Tick
  BY <1>4 DEF Tick
<1>5. QED
  BY <1>1, <1>2, <1>3, <1>4

\* Processes come and go: the flock keeps every other one down, so the sweep
\* of a starting process finds no worker that holds a job.
LEMMA SafeProcesses ==
  ASSUME TypeOK, Safe, NEW p \in Procs,
         \/ Start(p) \/ Sweep(p) \/ Crash(p)
         \/ Stop(p) \/ StopCancel(p) \/ Leave(p)
  PROVE  Safe'
<1> USE JobQueueAssumption
    DEF TypeOK, Safe, OnlyTheHolderIsUp, TableIsFenced, OwnedRowIsLive, Holding,
        Owns, FailureIsWritten, NoSignalBeforeSettlement, HandedOnce,
        Live, Settled, Statuses, PCs
<1>1. CASE Start(p)
  BY <1>1 DEF Start
<1>2. CASE Sweep(p)
  BY <1>2 DEF Sweep, Close, Unfinished
<1>3. CASE Crash(p)
  BY <1>3 DEF Crash, Vanish
<1>4. CASE Stop(p)
  BY <1>4 DEF Stop, Serving
<1>5. CASE StopCancel(p)
  BY <1>5 DEF StopCancel, RequestCancel
<1>6. CASE Leave(p)
  BY <1>6 DEF Leave, Vanish
<1>7. QED
  BY <1>1, <1>2, <1>3, <1>4, <1>5, <1>6

\* The loop, the handler and the settlement.
LEMMA SafeWorker ==
  ASSUME TypeOK, Safe, NEW p \in Procs,
         \/ LoopStep(p) \/ ReapFault(p) \/ SettleFault(p) \/ LoopFault(p)
         \/ Heartbeat(p) \/ FencedEffect(p)
  PROVE  Safe'
<1> USE JobQueueAssumption
    DEF TypeOK, Safe, OnlyTheHolderIsUp, TableIsFenced, OwnedRowIsLive, Holding,
        Owns, FailureIsWritten, NoSignalBeforeSettlement, HandedOnce,
        Live, Settled, Statuses, PCs, To, Forget
<1>1. CASE ClaimNext(p)
  BY <1>1 DEF ClaimNext, Oldest
<1>2. CASE Reap(p)
  BY <1>2 DEF Reap, Close, Expired
<1>3. CASE \/ ExitLoop(p) \/ ClaimNothing(p) \/ SkipReap(p) \/ ReapFault(p)
           \/ Wake(p) \/ LoopFault(p)
  BY <1>3 DEF ExitLoop, ClaimNothing, SkipReap, ReapFault, Wake, LoopFault
<1>4. CASE Resume(p)
  BY <1>4 DEF Resume
<1>5. CASE MarkCancel(p)
  BY <1>5 DEF MarkCancel, RequestCancel
<1>6. CASE CallHandler(p)
  BY <1>6 DEF CallHandler
<1>7. CASE Heartbeat(p) \/ FencedEffect(p) \/ HandlerEnds(p)
  BY <1>7 DEF Heartbeat, FencedEffect, HandlerEnds
<1>8. CASE SettleGood(p)
  BY <1>8 DEF SettleGood, Close, GoodEnding
<1>9. CASE SettleFailed(p)
  BY <1>9 DEF SettleFailed, Close
<1>10. CASE Signal(p) \/ SettleFault(p)
  <2>1. CASE Signal(p)
    BY <2>1 DEF Signal
  <2>2. CASE SettleFault(p)
    BY <2>2 DEF SettleFault
  <2>3. QED
    BY <1>10, <2>1, <2>2
<1>11. QED
  BY <1>1, <1>2, <1>3, <1>4, <1>5, <1>6, <1>7, <1>8, <1>9, <1>10 DEF LoopStep

\* IInv is inductive.
LEMMA InductiveNext == IInv /\ [Next]_vars => IInv'
<1> SUFFICES ASSUME TypeOK, Safe, [Next]_vars PROVE Safe'
  BY TypeNext DEF IInv, Safe
<1>1. CASE UNCHANGED vars
  BY <1>1 DEF Safe, OnlyTheHolderIsUp, TableIsFenced, OwnedRowIsLive, Holding,
              Owns, FailureIsWritten, NoSignalBeforeSettlement, HandedOnce
<1>2. CASE Next
  BY <1>2, SafeRequests, SafeProcesses, SafeWorker DEF Next, ProcStep
<1>3. QED
  BY <1>1, <1>2

-----------------------------------------------------------------------------
\* The inductive invariant holds in every reachable state.
THEOREM Inductive == Spec => []IInv
<1>1. Init => IInv
  BY TypeInit, SafeInit DEF IInv, Safe
<1>2. QED
  BY <1>1, InductiveNext, PTL DEF Spec

\* Every variable keeps its type.
THEOREM TypeCorrect == Spec => []TypeOK
<1>1. IInv => TypeOK
  BY DEF IInv
<1>2. QED
  BY <1>1, Inductive, PTL

\* No sweep, reaper, reset or second process ends a job that a worker holds.
THEOREM OwnershipSafe == Spec => []OwnedRowIsLive
<1>1. IInv => OwnedRowIsLive
  BY DEF IInv
<1>2. QED
  BY <1>1, Inductive, PTL

\* A token is issued for one row and stays there exactly as long as it lives.
THEOREM FencingSafe == Spec => []TableIsFenced
<1>1. IInv => TableIsFenced
  BY DEF IInv
<1>2. QED
  BY <1>1, Inductive, PTL

\* The closing event of a failed job is never ahead of its status.
THEOREM SignalSafe == Spec => []NoSignalBeforeSettlement
<1>1. IInv => NoSignalBeforeSettlement
  BY DEF IInv
<1>2. QED
  BY <1>1, Inductive, PTL

-----------------------------------------------------------------------------
(* JobQueue implements JobLifecycle.                                       *)

\* Executing is the job of the one worker whose handler runs.
ExecutingFacts ==
  /\ \A p \in Procs : pc[p] = "running" => /\ Executing = ctxJob[p]
                                           /\ Executing \in Jobs
  /\ (\A p \in Procs : pc[p] # "running") => Executing = NoJob

\* The flock makes the running handler unique.
LEMMA ExecutingIs == IInv => ExecutingFacts
<1> USE DEF ExecutingFacts
<1> SUFFICES ASSUME IInv, NEW p \in Procs, pc[p] = "running"
             PROVE  Executing = ctxJob[p] /\ Executing \in Jobs
  BY DEF Executing
<1>1. \A q \in Procs : pc[q] = "running" => q = p
  BY DEF IInv, OnlyTheHolderIsUp
<1>2. (CHOOSE q \in Procs : pc[q] = "running") = p
  BY <1>1
<1>3. ctxJob[p] \in Jobs
  BY DEF IInv, OwnedRowIsLive, Holding, Owns
<1>4. QED
  BY <1>2, <1>3 DEF Executing

LEMMA ExecutingIsNext == IInv' => ExecutingFacts'
  BY ExecutingIs, PTL

\* A step that moves no worker into, out of or under a handler.
LEMMA ExecutingStays ==
  ASSUME IInv, IInv',
         \A q \in Procs : pc[q] = "running" <=> pc'[q] = "running",
         \A q \in Procs : pc[q] = "running" => ctxJob'[q] = ctxJob[q]
  PROVE  Executing' = Executing
<1>1. CASE \E q \in Procs : pc[q] = "running"
  BY <1>1, ExecutingIs, ExecutingIsNext DEF ExecutingFacts
<1>2. CASE \A q \in Procs : pc[q] # "running"
  BY <1>2, ExecutingIs, ExecutingIsNext DEF ExecutingFacts
<1>3. QED
  BY <1>1, <1>2

\* A set of live jobs that no running handler works on is closed at once.
LEMMA ClosingIsEnd ==
  ASSUME IInv, NEW STATE S, S \in SUBSET Jobs, NEW STATE final,
         final \in [Jobs -> Lifecycle!Final],
         \A j \in S : /\ status[j] \in Live
                      /\ final[j] \in Lifecycle!Outcomes(status[j]),
         Executing \notin S,
         Close(S, final),
         Executing' = Executing, UNCHANGED history
  PROVE  [Lifecycle!Next]_(Lifecycle!vars)
<1>1. CASE S = {}
  <2>1. status' = status
    BY <1>1 DEF Close, IInv, TypeOK
  <2>2. QED
    BY <2>1 DEF Lifecycle!vars
<1>2. CASE S # {}
  <2>1. DEFINE o == [j \in S |-> final[j]]
  <2>2. /\ o \in [S -> Lifecycle!Final]
        /\ \A j \in S : o[j] \in Lifecycle!Outcomes(status[j])
        /\ status' = [j \in Jobs |-> IF j \in S THEN o[j] ELSE status[j]]
    BY DEF Close
  <2>3. Lifecycle!End(S)
    BY <1>2, <2>2 DEF Lifecycle!End, Lifecycle!Live, Live
  <2>4. QED
    BY <2>3 DEF Lifecycle!Next
<1>3. QED
  BY <1>1, <1>2

\* Requests and time.
LEMMA RequestsRefine ==
  ASSUME IInv, IInv',
         \/ \E j \in Jobs : Enqueue(j) \/ UserCancel(j)
         \/ Reset
         \/ Tick
  PROVE  [Lifecycle!Next]_(Lifecycle!vars)
<1>1. Executing' = Executing
  BY ExecutingStays DEF Enqueue, UserCancel, Reset, Tick
<1> USE DEF Lifecycle!Next, Lifecycle!vars, IInv, TypeOK
<1>2. ASSUME NEW j \in Jobs, Enqueue(j) PROVE Lifecycle!Submit(j)
  BY <1>1, <1>2 DEF Enqueue, Lifecycle!Submit
<1>3. ASSUME NEW j \in Jobs, UserCancel(j) PROVE Lifecycle!AskCancel(j)
  BY <1>1, <1>3 DEF UserCancel, RequestCancel, Lifecycle!AskCancel
<1>4. CASE Reset
  BY <1>1, <1>4 DEF Reset, Unfinished, Live, Lifecycle!Erase, Lifecycle!Live
<1>5. CASE Tick
  BY <1>1, <1>5 DEF Tick
<1>6. QED
  BY <1>2, <1>3, <1>4, <1>5

\* Asking a job that a process works on to cancel.
LEMMA CancelRefines ==
  ASSUME IInv, NEW j \in Jobs, RequestCancel(j),
         Executing' = Executing, UNCHANGED history
  PROVE  [Lifecycle!Next]_(Lifecycle!vars)
  BY DEF RequestCancel, Lifecycle!AskCancel, Lifecycle!Next, Lifecycle!vars

\* Processes come and go.
LEMMA ProcessesRefine ==
  ASSUME IInv, IInv', NEW p \in Procs,
         \/ Start(p) \/ Sweep(p) \/ Crash(p)
         \/ Stop(p) \/ StopCancel(p) \/ Leave(p)
  PROVE  [Lifecycle!Next]_(Lifecycle!vars)
<1> USE DEF Lifecycle!vars
<1>1. CASE Start(p) \/ Stop(p)
  <2>1. Executing' = Executing
    BY <1>1, ExecutingStays DEF Start, Stop, IInv, TypeOK
  <2>2. QED
    BY <1>1, <2>1 DEF Start, Stop
<1>2. CASE Sweep(p)
  <2>1. \A q \in Procs : pc[q] # "running" /\ pc'[q] # "running"
    BY <1>2 DEF Sweep, IInv, TypeOK, OnlyTheHolderIsUp
  <2>2. Executing = NoJob /\ Executing' = NoJob
    BY <2>1, ExecutingIs, ExecutingIsNext DEF ExecutingFacts
  <2>3. QED
    BY <1>2, <2>2, ClosingIsEnd, JobQueueAssumption
    DEF Sweep, Unfinished, Live, Lifecycle!Final, Lifecycle!Outcomes
<1>3. CASE Crash(p) \/ Leave(p)
  <2>1. \A q \in Procs : pc'[q] # "running"
    BY <1>3 DEF Crash, Leave, Vanish, IInv, TypeOK, OnlyTheHolderIsUp
  <2>2. Executing' = NoJob
    BY <2>1, ExecutingIsNext DEF ExecutingFacts
  <2>3. QED
    BY <1>3, <2>2 DEF Crash, Leave, Lifecycle!Leave, Lifecycle!Next
<1>4. CASE StopCancel(p)
  <2>1. Executing' = Executing
    BY <1>4, ExecutingStays DEF StopCancel
  <2>2. stopTarget[p] \in Jobs
    BY <1>4 DEF StopCancel, IInv, TypeOK
  <2>3. QED
    BY <1>4, <2>1, <2>2, CancelRefines DEF StopCancel
<1>5. QED
  BY <1>1, <1>2, <1>3, <1>4

\* The loop, the handler and the settlement.
LEMMA WorkerRefines ==
  ASSUME IInv, IInv', NEW p \in Procs,
         \/ LoopStep(p) \/ ReapFault(p) \/ SettleFault(p) \/ LoopFault(p)
         \/ Heartbeat(p) \/ FencedEffect(p)
  PROVE  [Lifecycle!Next]_(Lifecycle!vars)
<1> USE DEF Lifecycle!vars, To, Forget
<1>1. CASE ClaimNext(p)
  <2>1. Executing' = Executing
    BY <1>1, ExecutingStays DEF ClaimNext, IInv, TypeOK
  <2>2. \E j \in Jobs : Lifecycle!Claim(j)
    BY <1>1, <2>1 DEF ClaimNext, Oldest, Lifecycle!Claim
  <2>3. QED
    BY <2>2 DEF Lifecycle!Next
<1>2. CASE Reap(p)
  <2>1. \A q \in Procs : pc[q] # "running" /\ pc'[q] # "running"
    BY <1>2 DEF Reap, IInv, TypeOK, OnlyTheHolderIsUp
  <2>2. Executing = NoJob /\ Executing' = NoJob
    BY <2>1, ExecutingIs, ExecutingIsNext DEF ExecutingFacts
  <2>3. QED
    BY <1>2, <2>2, ClosingIsEnd, JobQueueAssumption
    DEF Reap, Expired, Live, Lifecycle!Final, Lifecycle!Outcomes
<1>3. CASE \/ ExitLoop(p) \/ ClaimNothing(p) \/ SkipReap(p) \/ ReapFault(p)
           \/ Wake(p) \/ LoopFault(p) \/ Resume(p)
  <2>1. Executing' = Executing
    BY <1>3, ExecutingStays DEF ExitLoop, ClaimNothing, SkipReap, ReapFault,
                               Wake, LoopFault, Resume, IInv, TypeOK
  <2>2. QED
    BY <1>3, <2>1 DEF ExitLoop, ClaimNothing, SkipReap, ReapFault, Wake,
                      LoopFault, Resume
<1>4. CASE MarkCancel(p)
  <2>1. Executing' = Executing
    BY <1>4, ExecutingStays DEF MarkCancel, IInv, TypeOK
  <2>2. ctxJob[p] \in Jobs
    BY <1>4 DEF MarkCancel, IInv, OwnedRowIsLive, Holding, Owns
  <2>3. QED
    BY <1>4, <2>1, <2>2, CancelRefines DEF MarkCancel
<1>5. CASE CallHandler(p)
  <2>1. \A q \in Procs : pc[q] # "running"
    BY <1>5 DEF CallHandler, IInv, OnlyTheHolderIsUp
  <2>2. pc'[p] = "running" /\ ctxJob'[p] = ctxJob[p]
    BY <1>5 DEF CallHandler, IInv, TypeOK
  <2>3. Executing = NoJob /\ Executing' = ctxJob[p]
    BY <2>1, <2>2, ExecutingIs, ExecutingIsNext DEF ExecutingFacts
  <2>4. /\ ctxJob[p] \in Jobs
        /\ status[ctxJob[p]] \in Live
        /\ ctxJob[p] \notin handed
    BY <1>5 DEF CallHandler, IInv, OwnedRowIsLive, Holding, Owns, HandedOnce
  <2>5. Lifecycle!Execute(ctxJob[p])
    BY <1>5, <2>3, <2>4 DEF CallHandler, Lifecycle!Execute, Lifecycle!Live, Live
  <2>6. QED
    BY <2>4, <2>5 DEF Lifecycle!Next
<1>6. CASE Heartbeat(p)
  <2>1. Executing' = Executing
    BY <1>6, ExecutingStays DEF Heartbeat
  <2>2. QED
    BY <1>6, <2>1 DEF Heartbeat
<1>7. CASE FencedEffect(p)
  <2>1. Executing' = Executing
    BY <1>7, ExecutingStays DEF FencedEffect
  <2>2. Executing = ctxJob[p]
    BY <1>7, ExecutingIs DEF FencedEffect, ExecutingFacts
  <2>3. Lifecycle!Effect(ctxJob[p])
    BY <1>7, <2>1, <2>2 DEF FencedEffect, LeaseHolds, Lifecycle!Effect
  <2>4. QED
    BY <1>7, <2>3 DEF FencedEffect, LeaseHolds, Lifecycle!Next
<1>8. CASE HandlerEnds(p)
  <2>1. \A q \in Procs : pc'[q] # "running"
    BY <1>8 DEF HandlerEnds, IInv, TypeOK, OnlyTheHolderIsUp
  <2>2. Executing # NoJob /\ Executing' = NoJob
    BY <1>8, <2>1, ExecutingIs, ExecutingIsNext, JobQueueAssumption
    DEF ExecutingFacts, HandlerEnds
  <2>3. QED
    BY <1>8, <2>2 DEF HandlerEnds, Lifecycle!Leave, Lifecycle!Next
<1>9. CASE SettleGood(p) \/ SettleFailed(p)
  <2>1. \A q \in Procs : pc[q] # "running" /\ pc'[q] # "running"
    BY <1>9 DEF SettleGood, SettleFailed, IInv, TypeOK, OnlyTheHolderIsUp
  <2>2. Executing = NoJob /\ Executing' = NoJob
    BY <2>1, ExecutingIs, ExecutingIsNext DEF ExecutingFacts
  <2>3. ctxJob[p] \in Jobs /\ status[ctxJob[p]] \in Live
    BY <1>9 DEF SettleGood, SettleFailed, Owns
  <2>4. CASE SettleGood(p)
    <3>1. DEFINE final == [j \in Jobs |-> GoodEnding(j)]
    <3>2. /\ final \in [Jobs -> Lifecycle!Final]
          /\ final[ctxJob[p]] \in Lifecycle!Outcomes(status[ctxJob[p]])
      BY <2>3 DEF GoodEnding, Live, Lifecycle!Final, Lifecycle!Outcomes
    <3>3. Close({ctxJob[p]}, final) /\ UNCHANGED history
      BY <2>4 DEF SettleGood
    <3>4. QED
      BY <2>2, <2>3, <3>2, <3>3, ClosingIsEnd, JobQueueAssumption
  <2>5. CASE SettleFailed(p)
    <3>1. DEFINE final == [j \in Jobs |-> "failed"]
    <3>2. /\ final \in [Jobs -> Lifecycle!Final]
          /\ final[ctxJob[p]] \in Lifecycle!Outcomes(status[ctxJob[p]])
      BY <2>3 DEF Lifecycle!Final, Lifecycle!Outcomes
    <3>3. Close({ctxJob[p]}, final) /\ UNCHANGED history
      BY <2>5 DEF SettleFailed
    <3>4. QED
      BY <2>2, <2>3, <3>2, <3>3, ClosingIsEnd, JobQueueAssumption
  <2>6. QED
    BY <1>9, <2>4, <2>5
<1>10. CASE Signal(p) \/ SettleFault(p)
  <2>1. Executing' = Executing
    BY <1>10, ExecutingStays DEF Signal, SettleFault, IInv, TypeOK
  <2>2. QED
    BY <1>10, <2>1 DEF Signal, SettleFault
<1>11. QED
  BY <1>1, <1>2, <1>3, <1>4, <1>5, <1>6, <1>7, <1>8, <1>9, <1>10 DEF LoopStep

\* The queue keeps the promise of JobLifecycle: at most one handler at a time
\* and per job, one ending, and no fenced effect after an acknowledged cancel.
THEOREM Refinement == Spec => ImplementsLifecycle
<1>1. Init => Lifecycle!Init
  BY DEF Init, Lifecycle!Init, Executing
<1>2. IInv /\ IInv' /\ [Next]_vars => [Lifecycle!Next]_(Lifecycle!vars)
  <2> SUFFICES ASSUME IInv, IInv', [Next]_vars
               PROVE  [Lifecycle!Next]_(Lifecycle!vars)
    OBVIOUS
  <2>1. CASE UNCHANGED vars
    BY <2>1, ExecutingStays DEF Lifecycle!vars
  <2>2. CASE Next
    BY <2>2, RequestsRefine, ProcessesRefine, WorkerRefines DEF Next, ProcStep
  <2>3. QED
    BY <2>1, <2>2
<1>3. QED
  BY <1>1, <1>2, Inductive, PTL DEF Spec, ImplementsLifecycle, Lifecycle!Spec
=============================================================================
