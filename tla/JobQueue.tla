------------------------------ MODULE JobQueue ------------------------------
(***************************************************************************)
(* The job table (db/jobs.py) and the worker that drains it                *)
(* (jobs/runner.py), with the processes that may try to own one data root  *)
(* (single_instance.py, __main__.py), the sweep at startup                 *)
(* (jobs/reconcile.py) and the reset that erases the table (db/reset.py).  *)
(*                                                                         *)
(* Every access to the table is one SQLite statement or one BEGIN          *)
(* IMMEDIATE transaction, so it is one action here.  The event loop of a   *)
(* process runs without interruption between two awaits; every await of    *)
(* run_forever, _run_one and stop is a point where other actions           *)
(* interleave.                                                             *)
(*                                                                         *)
(* Time is kept as the time left on each lease, counted down by Tick to    *)
(* -1: a positive value is "lease_expires_at > now", a negative one is     *)
(* "lease_expires_at < now", zero is neither.  What a handler does is left *)
(* open: it may extend its lease, do side effects fenced by assert_lease,  *)
(* look at cancelled(), return or raise at any time.                       *)
(***************************************************************************)
EXTENDS Naturals, Integers, FiniteSets

CONSTANTS Jobs,             \* the job ids (new_id) of a behaviour
          Unregistered,     \* those whose type no handler is registered for
          Procs,            \* processes started on the same data root
          NoJob, NoProc,
          LeaseTicks,       \* LEASE_SECONDS, in ticks
          MaxEffects,       \* bound: fenced side effects per job
          MaxRestarts,      \* bound: crashes and orderly stops
          MaxSettleFaults,  \* bound: database errors while settling or reaping
          MaxLoopFaults     \* bound: database errors elsewhere in the loop

ASSUME JobQueueAssumption ==
    /\ Unregistered \subseteq Jobs
    /\ NoJob \notin Jobs
    /\ NoProc \notin Procs
    /\ LeaseTicks \in Nat \ {0}
    /\ MaxEffects \in Nat
    /\ MaxRestarts \in Nat
    /\ MaxSettleFaults \in Nat
    /\ MaxLoopFaults \in Nat

VARIABLES
    \* The job table.  rank orders created_at; equal ranks are equal stamps.
    status, token, ttl, rank,
    signalled,      \* jobs with the closing event written by _fail
    nextToken,      \* new_id: the next unused lease token
    \* The processes.
    lock,           \* who holds the flock on var/mediaferry.lock
    pc,             \* where run_forever of each process is
    ctxJob, ctxToken, \* its JobContext
    current,        \* JobRunner._current, what stop() looks at
    stopping,       \* JobRunner._stopping
    stopTarget,     \* the job stop() is about to cancel on its own connection
    failure,        \* the handler raised
    \* What the handlers did, and the bounds.
    handed, effects, restarts, settleFaults, loopFaults

table   == <<status, token, ttl, rank, signalled, nextToken>>
worker  == <<pc, ctxJob, ctxToken, current, failure>>
stopper == <<stopping, stopTarget>>
history == <<handed, effects>>
bounds  == <<restarts, settleFaults, loopFaults>>
vars    == <<table, lock, worker, stopper, history, bounds>>

-----------------------------------------------------------------------------
Live     == {"running", "cancelling"}               \* ACTIVE of db/jobs.py
Settled  == {"succeeded", "failed", "cancelled", "interrupted"}
Statuses == {"absent", "queued", "deleted"} \cup Live \cup Settled

PCs == {"down",      \* no process
        "booting",   \* the flock is held, reconciliation has not run
        "polling",   \* at the head of the loop
        "empty",     \* claim_next returned None
        "waiting",   \* sleeping for the poll interval
        "claimed",   \* the claim thread has committed, the loop not resumed
        "marking",   \* requesting the cancel of a job claimed during stop()
        "opening",   \* opening the handler's connection
        "running",   \* the handler's thread runs
        "settling",  \* the handler is gone and its connection closed
        "signalling",\* the failure is written, its event is not
        "exited",    \* run_forever returned
        "dead"}      \* run_forever raised; HTTP goes on, jobs do not

TypeOK ==
    /\ status \in [Jobs -> Statuses]
    /\ token \in [Jobs -> Nat]
    /\ ttl \in [Jobs -> -1..LeaseTicks]
    /\ rank \in [Jobs -> Nat]
    /\ signalled \in SUBSET Jobs
    /\ nextToken \in Nat \ {0}
    /\ lock \in Procs \cup {NoProc}
    /\ pc \in [Procs -> PCs]
    /\ ctxJob \in [Procs -> Jobs \cup {NoJob}]
    /\ ctxToken \in [Procs -> Nat]
    /\ current \in [Procs -> Jobs \cup {NoJob}]
    /\ stopping \in [Procs -> BOOLEAN]
    /\ stopTarget \in [Procs -> Jobs \cup {NoJob}]
    /\ failure \in [Procs -> BOOLEAN]
    /\ handed \in SUBSET Jobs
    /\ effects \in [Jobs -> Nat]
    /\ restarts \in Nat
    /\ settleFaults \in Nat
    /\ loopFaults \in Nat

Init ==
    /\ status = [j \in Jobs |-> "absent"]
    /\ token = [j \in Jobs |-> 0]
    /\ ttl = [j \in Jobs |-> 0]
    /\ rank = [j \in Jobs |-> 0]
    /\ signalled = {}
    /\ nextToken = 1
    /\ lock = NoProc
    /\ pc = [p \in Procs |-> "down"]
    /\ ctxJob = [p \in Procs |-> NoJob]
    /\ ctxToken = [p \in Procs |-> 0]
    /\ current = [p \in Procs |-> NoJob]
    /\ stopping = [p \in Procs |-> FALSE]
    /\ stopTarget = [p \in Procs |-> NoJob]
    /\ failure = [p \in Procs |-> FALSE]
    /\ handed = {}
    /\ effects = [j \in Jobs |-> 0]
    /\ restarts = 0
    /\ settleFaults = 0
    /\ loopFaults = 0

-----------------------------------------------------------------------------
(* The table's operations.  Each is the effect of one method of JobStore.  *)

\* Jobs leave the live states with token and lease cleared together.
Close(S, final) ==
    /\ status' = [j \in Jobs |-> IF j \in S THEN final[j] ELSE status[j]]
    /\ token' = [j \in Jobs |-> IF j \in S THEN 0 ELSE token[j]]
    /\ ttl' = [j \in Jobs |-> IF j \in S THEN 0 ELSE ttl[j]]
    /\ UNCHANGED <<rank, nextToken>>

\* The WHERE clause of finish, finish_claimed and extend_lease (less expiry).
Owns(p) == /\ ctxJob[p] \in Jobs
           /\ token[ctxJob[p]] = ctxToken[p]
           /\ status[ctxJob[p]] \in Live

\* assert_lease: only "running" passes, and only before the lease expires.
LeaseHolds(p) == /\ ctxJob[p] \in Jobs
                 /\ token[ctxJob[p]] = ctxToken[p]
                 /\ status[ctxJob[p]] = "running"
                 /\ ttl[ctxJob[p]] > 0

\* SELECT ... WHERE status = 'queued' ORDER BY created_at LIMIT 1
Oldest(j) == /\ status[j] = "queued"
             /\ \A k \in Jobs : status[k] = "queued" => rank[j] <= rank[k]

\* Fault: a queued job is asked to cancel like a running one.
RequestCancelAll(j) ==
    /\ status' = IF status[j] \in {"queued", "running"}
                 THEN [status EXCEPT ![j] = "cancelling"]
                 ELSE status
    /\ UNCHANGED <<token, ttl, rank, signalled, nextToken>>

\* A queued job ends at once, a running one is asked, the others are refused.
RequestCancel(j) ==
    /\ status' = IF status[j] = "queued"
                 THEN [status EXCEPT ![j] = "cancelled"]
                 ELSE IF status[j] = "running"
                      THEN [status EXCEPT ![j] = "cancelling"]
                      ELSE status
    /\ UNCHANGED <<token, ttl, rank, signalled, nextToken>>

\* Fault: the status is read before the cancel and written after it.
GoodEndingStale(j) == "succeeded"

\* finish_claimed decides between the two good endings in the UPDATE itself.
GoodEnding(j) == IF status[j] = "cancelling" THEN "cancelled" ELSE "succeeded"

\* reap_expired_leases
Expired == {j \in Jobs : status[j] \in Live /\ ttl[j] < 0}

\* sweep_interrupted
Unfinished == {j \in Jobs : status[j] \in Live}

-----------------------------------------------------------------------------
(* Requests: the API and the watcher enqueue, users cancel and reset.      *)
(* uvicorn finishes the open requests, and the watcher has stopped, before *)
(* runner.stop() is called.                                                *)

Serving(p) == pc[p] \notin {"down", "booting"} /\ ~stopping[p]

Enqueue(j) ==
    /\ \E p \in Procs : Serving(p)
    /\ status[j] = "absent"
    /\ status' = [status EXCEPT ![j] = "queued"]
    /\ \E k \in Jobs :
          /\ \A i \in Jobs : rank[i] <= rank[k]
          /\ \E r \in {rank[k], rank[k] + 1} : rank' = [rank EXCEPT ![j] = r]
    /\ UNCHANGED <<token, ttl, signalled, nextToken,
                   lock, worker, stopper, history, bounds>>

UserCancel(j) ==
    /\ \E p \in Procs : Serving(p)
    /\ status[j] \in {"queued", "running"}
    /\ RequestCancel(j)
    /\ UNCHANGED <<lock, worker, stopper, history, bounds>>

Reset ==
    /\ \E p \in Procs : Serving(p)
    /\ Unfinished = {}
    /\ status' = [j \in Jobs |->
                    IF status[j] = "absent" THEN "absent" ELSE "deleted"]
    /\ signalled' = {}
    /\ UNCHANGED <<token, ttl, rank, nextToken,
                   lock, worker, stopper, history, bounds>>

\* Wall-clock time passes for every lease at once.
Tick ==
    /\ \E j \in Jobs : token[j] # 0 /\ ttl[j] >= 0
    /\ ttl' = [j \in Jobs |-> IF token[j] # 0 /\ ttl[j] >= 0
                              THEN ttl[j] - 1 ELSE ttl[j]]
    /\ UNCHANGED <<status, token, rank, signalled, nextToken,
                   lock, worker, stopper, history, bounds>>

-----------------------------------------------------------------------------
(* A process takes the data root, sweeps, and goes away again.             *)

\* Fault: a process that does not look at the flock.
StartUnlocked(p) ==
    /\ pc[p] = "down"
    /\ lock' = p
    /\ pc' = [pc EXCEPT ![p] = "booting"]
    /\ UNCHANGED <<table, ctxJob, ctxToken, current, failure,
                   stopper, history, bounds>>

\* hold_data_root refuses at once when another process holds the flock.
Start(p) ==
    /\ pc[p] = "down"
    /\ lock = NoProc
    /\ lock' = p
    /\ pc' = [pc EXCEPT ![p] = "booting"]
    /\ UNCHANGED <<table, ctxJob, ctxToken, current, failure,
                   stopper, history, bounds>>

\* Reconciler.run sweeps before the worker task is created.
Sweep(p) ==
    /\ pc[p] = "booting"
    /\ Close(Unfinished, [j \in Jobs |-> "interrupted"])
    /\ pc' = [pc EXCEPT ![p] = "polling"]
    /\ UNCHANGED <<signalled, lock, ctxJob, ctxToken, current, failure,
                   stopper, history, bounds>>

\* The process is gone: its memory is lost and the kernel drops the flock.
Vanish(p) ==
    /\ pc' = [pc EXCEPT ![p] = "down"]
    /\ ctxJob' = [ctxJob EXCEPT ![p] = NoJob]
    /\ ctxToken' = [ctxToken EXCEPT ![p] = 0]
    /\ current' = [current EXCEPT ![p] = NoJob]
    /\ failure' = [failure EXCEPT ![p] = FALSE]
    /\ stopping' = [stopping EXCEPT ![p] = FALSE]
    /\ stopTarget' = [stopTarget EXCEPT ![p] = NoJob]
    /\ lock' = IF lock = p THEN NoProc ELSE lock

Crash(p) ==
    /\ pc[p] # "down"
    /\ restarts < MaxRestarts
    /\ restarts' = restarts + 1
    /\ Vanish(p)
    /\ UNCHANGED <<table, history, settleFaults, loopFaults>>

\* stop(): sets _stopping and reads _current in one go on the event loop ...
Stop(p) ==
    /\ Serving(p)
    /\ restarts < MaxRestarts
    /\ restarts' = restarts + 1
    /\ stopping' = [stopping EXCEPT ![p] = TRUE]
    /\ stopTarget' = [stopTarget EXCEPT ![p] = current[p]]
    /\ UNCHANGED <<table, lock, worker, history, settleFaults, loopFaults>>

\* ... and writes the cancel from a thread, on a connection of its own.
StopCancel(p) ==
    /\ stopTarget[p] # NoJob
    /\ RequestCancel(stopTarget[p])
    /\ stopTarget' = [stopTarget EXCEPT ![p] = NoJob]
    /\ UNCHANGED <<lock, worker, stopping, history, bounds>>

\* The lifespan awaits stop() and then the worker, and main() returns.
Leave(p) ==
    /\ pc[p] \in {"exited", "dead"}
    /\ stopping[p]
    /\ stopTarget[p] = NoJob
    /\ Vanish(p)
    /\ UNCHANGED <<table, history, bounds>>

-----------------------------------------------------------------------------
(* run_forever                                                             *)

To(p, where) == pc' = [pc EXCEPT ![p] = where]

ExitLoop(p) ==
    /\ pc[p] = "polling"
    /\ stopping[p]
    /\ To(p, "exited")
    /\ UNCHANGED <<table, lock, ctxJob, ctxToken, current, failure,
                   stopper, history, bounds>>

\* claim_next runs in a thread; the loop looked at _stopping before it.
\* A stop that comes in between is the stop that comes at "claimed".
ClaimNext(p) ==
    /\ pc[p] = "polling"
    /\ ~stopping[p]
    /\ \E j \in Jobs :
          /\ Oldest(j)
          /\ status' = [status EXCEPT ![j] = "running"]
          /\ token' = [token EXCEPT ![j] = nextToken]
          /\ ttl' = [ttl EXCEPT ![j] = LeaseTicks]
          /\ ctxJob' = [ctxJob EXCEPT ![p] = j]
          /\ ctxToken' = [ctxToken EXCEPT ![p] = nextToken]
    /\ nextToken' = nextToken + 1
    /\ To(p, "claimed")
    /\ UNCHANGED <<rank, signalled, lock, current, failure,
                   stopper, history, bounds>>

ClaimNothing(p) ==
    /\ pc[p] = "polling"
    /\ ~stopping[p]
    /\ \A j \in Jobs : status[j] # "queued"
    /\ To(p, "empty")
    /\ UNCHANGED <<table, lock, ctxJob, ctxToken, current, failure,
                   stopper, history, bounds>>

\* Once per reap interval, and only when this worker owns nothing.
Reap(p) ==
    /\ pc[p] = "empty"
    /\ Close(Expired, [j \in Jobs |-> "interrupted"])
    /\ To(p, "waiting")
    /\ UNCHANGED <<signalled, lock, ctxJob, ctxToken, current, failure,
                   stopper, history, bounds>>

\* The interval has not passed yet.
SkipReap(p) ==
    /\ pc[p] = "empty"
    /\ To(p, "waiting")
    /\ UNCHANGED <<table, lock, ctxJob, ctxToken, current, failure,
                   stopper, history, bounds>>

\* _reap swallows the database's error.
ReapFault(p) ==
    /\ pc[p] = "empty"
    /\ settleFaults < MaxSettleFaults
    /\ settleFaults' = settleFaults + 1
    /\ To(p, "waiting")
    /\ UNCHANGED <<table, lock, ctxJob, ctxToken, current, failure,
                   stopper, history, restarts, loopFaults>>

Wake(p) ==
    /\ pc[p] = "waiting"
    /\ To(p, "polling")
    /\ UNCHANGED <<table, lock, ctxJob, ctxToken, current, failure,
                   stopper, history, bounds>>

\* The loop resumes with a job.  _run_one settles an unknown type at once.
Resume(p) ==
    /\ pc[p] = "claimed"
    /\ IF stopping[p] THEN To(p, "marking") /\ UNCHANGED failure
       ELSE IF ctxJob[p] \in Unregistered
            THEN /\ To(p, "settling")
                 /\ failure' = [failure EXCEPT ![p] = TRUE]
            ELSE To(p, "opening") /\ UNCHANGED failure
    /\ UNCHANGED <<table, lock, ctxJob, ctxToken, current,
                   stopper, history, bounds>>

\* A job claimed while stop() came in is asked to cancel before it runs.
MarkCancel(p) ==
    /\ pc[p] = "marking"
    /\ RequestCancel(ctxJob[p])
    /\ IF ctxJob[p] \in Unregistered
       THEN /\ To(p, "settling")
            /\ failure' = [failure EXCEPT ![p] = TRUE]
       ELSE To(p, "opening") /\ UNCHANGED failure
    /\ UNCHANGED <<lock, ctxJob, ctxToken, current, stopper, history, bounds>>

\* The connection is open; _current is set and the handler's thread starts.
CallHandler(p) ==
    /\ pc[p] = "opening"
    /\ current' = [current EXCEPT ![p] = ctxJob[p]]
    /\ handed' = handed \cup {ctxJob[p]}
    /\ To(p, "running")
    /\ UNCHANGED <<table, lock, ctxJob, ctxToken, failure,
                   stopper, effects, bounds>>

\* claim_next, request_cancel and connect are outside every try: an error
\* of the database there ends the worker's task.
LoopFault(p) ==
    /\ pc[p] \in {"polling", "marking", "opening"}
    /\ pc[p] = "polling" => ~stopping[p]
    /\ loopFaults < MaxLoopFaults
    /\ loopFaults' = loopFaults + 1
    /\ To(p, "dead")
    /\ UNCHANGED <<table, lock, ctxJob, ctxToken, current, failure,
                   stopper, history, restarts, settleFaults>>

-----------------------------------------------------------------------------
(* The handler, through its JobContext.                                    *)

\* ctx.heartbeat: an expired lease is not revived.
Heartbeat(p) ==
    /\ pc[p] = "running"
    /\ Owns(p)
    /\ ttl[ctxJob[p]] > 0
    /\ ttl' = [ttl EXCEPT ![ctxJob[p]] = LeaseTicks]
    /\ UNCHANGED <<status, token, rank, signalled, nextToken,
                   lock, worker, stopper, history, bounds>>

\* A side effect in the transaction that asserted the lease.
FencedEffect(p) ==
    /\ pc[p] = "running"
    /\ LeaseHolds(p)
    /\ effects[ctxJob[p]] < MaxEffects
    /\ effects' = [effects EXCEPT ![ctxJob[p]] = @ + 1]
    /\ UNCHANGED <<table, lock, worker, stopper, handed, bounds>>

\* The thread ends; the connection is rolled back and closed, _current reset.
HandlerEnds(p) ==
    /\ pc[p] = "running"
    /\ \E raised \in BOOLEAN : failure' = [failure EXCEPT ![p] = raised]
    /\ current' = [current EXCEPT ![p] = NoJob]
    /\ To(p, "settling")
    /\ UNCHANGED <<table, lock, ctxJob, ctxToken, stopper, history, bounds>>

-----------------------------------------------------------------------------
(* _settle and _fail                                                       *)

\* The context is dropped at the head of the next iteration.
Forget(p) == /\ ctxJob' = [ctxJob EXCEPT ![p] = NoJob]
             /\ ctxToken' = [ctxToken EXCEPT ![p] = 0]
             /\ failure' = [failure EXCEPT ![p] = FALSE]
             /\ To(p, "polling")

SettleGood(p) ==
    /\ pc[p] = "settling"
    /\ ~failure[p]
    /\ Owns(p)
    /\ Close({ctxJob[p]}, [j \in Jobs |-> GoodEnding(j)])
    /\ Forget(p)
    /\ UNCHANGED <<signalled, lock, current, stopper, history, bounds>>

\* Fault: the event goes out before the status is written.
SettleFailedLate(p) ==
    /\ pc[p] = "settling"
    /\ failure[p]
    /\ Owns(p)
    /\ signalled' = signalled \cup {ctxJob[p]}
    /\ To(p, "signalling")
    /\ UNCHANGED <<status, token, ttl, rank, nextToken, lock, ctxJob, ctxToken,
                   current, failure, stopper, history, bounds>>

\* finish(..., 'failed') takes cancelling jobs too, and expired leases.
SettleFailed(p) ==
    /\ pc[p] = "settling"
    /\ failure[p]
    /\ Owns(p)
    /\ Close({ctxJob[p]}, [j \in Jobs |-> "failed"])
    /\ To(p, "signalling")
    /\ UNCHANGED <<signalled, lock, ctxJob, ctxToken, current, failure,
                   stopper, history, bounds>>

\* The event is written after the status; the job may have been erased.
Signal(p) ==
    /\ pc[p] = "signalling"
    /\ signalled' = IF status[ctxJob[p]] = "deleted" THEN signalled
                    ELSE signalled \cup {ctxJob[p]}
    /\ Forget(p)
    /\ UNCHANGED <<status, token, ttl, rank, nextToken,
                   lock, current, stopper, history, bounds>>

\* finish and finish_claimed raise LeaseLost on rowcount # 1, which _settle
\* swallows like any error.  No action: OwnedRowIsLive says it cannot happen.
SettleFault(p) ==
    /\ pc[p] \in {"settling", "signalling"}
    /\ settleFaults < MaxSettleFaults
    /\ settleFaults' = settleFaults + 1
    /\ Forget(p)
    /\ UNCHANGED <<table, lock, current, stopper, history,
                   restarts, loopFaults>>

-----------------------------------------------------------------------------
LoopStep(p) == \/ ExitLoop(p) \/ ClaimNext(p) \/ ClaimNothing(p)
               \/ Reap(p) \/ SkipReap(p) \/ Wake(p)
               \/ Resume(p) \/ MarkCancel(p) \/ CallHandler(p)
               \/ HandlerEnds(p)
               \/ SettleGood(p) \/ SettleFailed(p) \/ Signal(p)

ProcStep(p) == \/ Start(p) \/ Sweep(p) \/ Crash(p)
               \/ Stop(p) \/ StopCancel(p) \/ Leave(p)
               \/ LoopStep(p)
               \/ ReapFault(p) \/ SettleFault(p) \/ LoopFault(p)
               \/ Heartbeat(p) \/ FencedEffect(p)

Next == \/ \E j \in Jobs : Enqueue(j) \/ UserCancel(j)
        \/ Reset
        \/ Tick
        \/ \E p \in Procs : ProcStep(p)

Spec == Init /\ [][Next]_vars

\* compose.yaml restarts the container; threads end; time passes; a reap
\* comes round once per interval; some process gets the flock.
Fairness == /\ WF_vars(Tick)
            /\ WF_vars(\E p \in Procs : Start(p))
            /\ \A p \in Procs : /\ WF_vars(Sweep(p))
                                /\ WF_vars(StopCancel(p))
                                /\ WF_vars(Leave(p))
                                /\ WF_vars(LoopStep(p))
                                /\ SF_vars(Reap(p))

FairSpec == Spec /\ Fairness

-----------------------------------------------------------------------------
(* Properties                                                              *)

\* The worker is between claiming a job and having settled it.
Holding(p) == pc[p] \in {"claimed", "marking", "opening", "running", "settling"}

\* Nobody ends a job, or takes its token, while a worker still holds it: not
\* the sweep of a second process, not the reaper, not a reset, not a cancel
\* (single_instance.py, run_forever's "reap only when nothing was claimed").
OwnedRowIsLive == \A p \in Procs : Holding(p) => Owns(p)

\* The lease columns and the status agree, and no two rows share a token,
\* so that a WHERE on the token can only reach the row it was issued for.
TableIsFenced ==
    \A j \in Jobs :
        /\ status[j] \in Live <=> token[j] # 0
        /\ token[j] < nextToken
        /\ \A k \in Jobs : token[j] = token[k] /\ token[j] # 0 => j = k

\* Whoever is woken by the closing event of a failed job reads a job list in
\* which that job is over (the order "settle, then signal" of _fail).
NoSignalBeforeSettlement == \A j \in signalled : status[j] = "failed"

\* The flock: whatever process is up, it is the one that holds the data root.
OnlyTheHolderIsUp == \A p \in Procs : pc[p] # "down" => lock = p

\* A job is handed over at most once: what was handed over was claimed, and
\* what a worker is about to hand over was not handed over before.
HandedOnce ==
    /\ \A j \in handed : status[j] \notin {"absent", "queued"}
    /\ \A p \in Procs : pc[p] \in {"claimed", "marking", "opening"}
                            => ctxJob[p] \notin handed

\* A worker that still has to write the closing event has a job, and its
\* failure is on record unless a reset erased it since.
FailureIsWritten ==
    \A p \in Procs : pc[p] = "signalling" =>
        /\ ctxJob[p] \in Jobs
        /\ status[ctxJob[p]] \in {"failed", "deleted"}

\* The inductive invariant behind the properties above and the refinement.
IInv == /\ TypeOK
        /\ OnlyTheHolderIsUp
        /\ TableIsFenced
        /\ OwnedRowIsLive
        /\ FailureIsWritten
        /\ NoSignalBeforeSettlement
        /\ HandedOnce

\* The job whose handler runs somewhere in the installation.
Executing == IF \E p \in Procs : pc[p] = "running"
             THEN ctxJob[CHOOSE p \in Procs : pc[p] = "running"]
             ELSE NoJob

\* The queue implements the lifecycle it promises: one handler at a time and
\* at most one per job, no end under a running handler, no fenced effect after
\* an acknowledged cancel, no success of a cancelled job.
Lifecycle == INSTANCE JobLifecycle WITH phase <- status, executing <- Executing
ImplementsLifecycle == Lifecycle!Spec

\* Every accepted job ends, also when its cancel, its settlement or the
\* process was lost on the way: otherwise a reset is refused for ever
\* (job_in_flight).  Unless a database error outside _settle and _reap ended
\* the thread of a worker.
EveryJobEnds ==
    \A j \in Jobs : (status[j] \in {"queued"} \cup Live)
                        ~> \/ status[j] \in Settled \cup {"deleted"}
                           \/ loopFaults > 0

\* runner.py says of stop(): the running job is asked to cancel, otherwise
\* its handler would run to the end with cancelled() false.
StopReachesTheHandler ==
    \A p \in Procs : (/\ stopping[p]
                      /\ stopTarget[p] = NoJob
                      /\ pc[p] = "running") => status[ctxJob[p]] # "running"
=============================================================================
