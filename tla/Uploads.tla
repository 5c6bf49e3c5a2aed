------------------------------ MODULE Uploads ------------------------------
(***************************************************************************)
(* One destination: its upload records (db/uploads.py), the jobs that move *)
(* them (jobs/uploader.py, jobs/approvals.py, jobs/recheck.py with         *)
(* jobs/preflight.py), its revisions, epochs and keys                      *)
(* (db/destinations.py), the requests of the API that touch them, the      *)
(* capture dates (db/capture_zone.py) and the remote libraries.            *)
(*                                                                         *)
(* The worker runs one job at a time (JobQueue).  Requests, crashes and    *)
(* the outside world come between any two of its steps; a step is one      *)
(* transaction, or one request to the server.  A lease or a claim may run  *)
(* out at any moment; neither ever comes back.                             *)
(***************************************************************************)
EXTENDS Naturals, FiniteSets

CONSTANTS Media, NoMedia,
          Libraries,      \* the remote accounts, known by remote_user_id
          Urls,           \* hosts a destination may be pointed at
          MaxRecords, MaxRevisions, MaxAssets, \* bounds
          MaxAttempts,    \* upload_max_attempts
          FixesDate,      \* fix_datetime_after_upload of the profile
          Wired,          \* Reconciler is given the uploads and destinations
          Budgets         \* bounds: how often each Expense may happen

Expenses == {"job", "fault", "expiry", "toggle", "edit", "move", "group",
             "outside", "swap", "restart"}

ASSUME UploadsAssumption ==
    /\ NoMedia \notin Media
    /\ MaxRecords \in Nat
    /\ MaxRevisions \in Nat \ {0}
    /\ MaxAssets \in Nat
    /\ MaxAttempts \in Nat \ {0}
    /\ FixesDate \in BOOLEAN
    /\ Wired \in BOOLEAN
    /\ Budgets \subseteq [Expenses -> Nat]

VARIABLES
    records,    \* upload_record
    revisions,  \* destination_revision; a number is an id
    current,    \* upload_destination.current_revision_id
    keys,       \* revisions whose credential is not purged
    purging,    \* an edit has committed, its purge has not run
    enabled,    \* upload_destination.enabled, and not archived
    basis,      \* media whose selection rule holds now, and not missing
    captured,   \* media_file.captured_at
    rejecting,  \* records a reject request has read but not settled
    job,        \* the job the worker runs
    serial,     \* jobs so far; a job's number is its lease token
    behind,     \* the library behind a url
    remote,     \* what each library holds
    assets,     \* asset ids given out so far
    mistaken,   \* history: where what somebody else stored may pass for ours
    budget

destination == <<revisions, current, keys, purging, enabled>>
catalog     == <<basis, captured>>
server      == <<behind, remote, assets, mistaken>>
vars        == <<records, destination, catalog, rejecting, job, serial,
                 server, budget>>

-----------------------------------------------------------------------------
Ids    == 1..MaxRecords
Active == {"checking", "uploading", "asset_known", "tagging", "fixing_datetime"}
Claimable == {"pending", "needs_recheck"}
Waiting   == "awaiting_datetime_approval"
InFlight  == Active \cup {Waiting}      \* _IN_FLIGHT of db/destinations.py
States    == {"absent", "complete", "failed"} \cup Claimable \cup InFlight

\* A date is an instant and the zone it is told in.
Dates   == [at : 0..2, tz : 0..1]
Foreign == [at |-> 2, tz |-> 0]         \* what the server makes of the file

Record == [media : Media \cup {NoMedia}, epoch : Nat, state : States,
           valid : BOOLEAN,             \* invalidated_at IS NULL
           token : Nat, live : BOOLEAN, \* claim_token, claim_expires_at > now
           rev : Nat,                   \* destination_revision_id
           first : {"none", "accept", "reject"},
           origin : {"unknown", "pre_existing", "created_by_us"},
           asset : Nat, attempts : Nat,
           ending : {"none", "plain", "same", "written", "rejected"}]

Absent == [media |-> NoMedia, epoch |-> 0, state |-> "absent", valid |-> FALSE,
           token |-> 0, live |-> FALSE, rev |-> 0, first |-> "none",
           origin |-> "unknown", asset |-> 0, attempts |-> 0, ending |-> "none"]

Revision == [url : Urls, user : Libraries, epoch : Nat]
Asset    == [id : Nat, ours : BOOLEAN, date : Dates]
NoAsset  == [id |-> 0, ours |-> FALSE, date |-> Foreign]

PCs == {"idle",
        "head", "claiming", "claimed", "refusing",      \* Uploader.run
        "asked", "approving", "reading",                \* ApprovalService.approve
        "starting", "comparing", "stamping",            \* Rechecker.run
        "prepare", "preflight", "reassure",             \* _guard
        "request", "commit", "known", "planning",       \* _steps
        "retrying", "failing", "leaving"}

Goals == {"none", "check", "adopt", "send", "find", "create", "tag",
          "observe", "fix", "approve", "recheck"}

Job == [kind : {"none", "send", "approve", "recheck"}, pc : PCs,
        lease : BOOLEAN, cancelled : BOOLEAN,
        mine : 0..MaxRecords,           \* the record it is at
        expect : States,                \* the state it left that record in
        goal : Goals,                   \* what the guard it is in is for
        rev : Nat, touched : BOOLEAN, date : Dates,
        verified : SUBSET (1..MaxRevisions), \* PreflightCache
        reply : {"none", "accept", "reject", "created", "duplicate", "same"},
        asset : Nat,                    \* the asset id of that reply
        seen : SUBSET [row : Ids, had : Nat, has : Nat], \* recheck
        swapped : BOOLEAN, \* history: a url was re-pointed since the last preflight
        late : BOOLEAN, \* history: eligibility broke after the guard
        exit : {"none", "done", "cancel", "lease", "claim", "target",
                "server", "key", "file"}]

NoJob == [kind |-> "none", pc |-> "idle", lease |-> FALSE, cancelled |-> FALSE,
          mine |-> 0, expect |-> "absent", goal |-> "none", rev |-> 0,
          touched |-> FALSE, date |-> Foreign, verified |-> {},
          reply |-> "none", asset |-> 0, seen |-> {}, swapped |-> FALSE,
          late |-> FALSE, exit |-> "none"]

TypeOK ==
    /\ records \in [Ids -> Record]
    /\ revisions \in [1..MaxRevisions -> Revision]
    /\ current \in 1..MaxRevisions
    /\ keys \in SUBSET (1..MaxRevisions)
    /\ purging \in BOOLEAN
    /\ enabled \in BOOLEAN
    /\ basis \in SUBSET Media
    /\ captured \in [Media -> [at : 0..1, tz : 0..1]]
    /\ rejecting \in SUBSET Ids
    /\ job \in Job
    /\ serial \in Nat
    /\ behind \in [Urls -> Libraries]
    /\ remote \in [Libraries -> [Media -> Asset]]
    /\ assets \in 0..MaxAssets
    /\ mistaken \in SUBSET (Libraries \X Media)
    /\ budget \in [Expenses -> Nat]

\* A verified destination; every revision not yet written repeats the first.
Init ==
    /\ records = [r \in Ids |-> Absent]
    /\ behind \in [Urls -> Libraries]
    /\ \E u \in Urls : revisions = [v \in 1..MaxRevisions |->
                            [url |-> u, user |-> behind[u], epoch |-> 1]]
    /\ current = 1
    /\ keys = {1}
    /\ purging = FALSE
    /\ enabled = TRUE
    /\ basis = Media
    /\ captured = [m \in Media |-> [at |-> 0, tz |-> 0]]
    /\ rejecting = {}
    /\ job = NoJob
    /\ serial = 0
    /\ remote = [l \in Libraries |-> [m \in Media |-> NoAsset]]
    /\ assets = 0
    /\ mistaken = {}
    /\ budget \in Budgets

Spend(e) == /\ budget[e] > 0
            /\ budget' = [budget EXCEPT ![e] = @ - 1]

-----------------------------------------------------------------------------
(* Rows                                                                    *)

Epoch == revisions[current].epoch

Free(r, s) == [records[r] EXCEPT !.state = s, !.token = 0, !.live = FALSE]

\* Fault: a record that was sent is not found again.
ExistingUnsent(m) == {r \in Ids : /\ records[r].media = m
                                  /\ records[r].epoch = Epoch
                                  /\ records[r].valid
                                  /\ records[r].state # "complete"}

\* _load_destinations, _choose and _pair: the valid row of the current epoch
\* is reused, an invalidated one is never looked at.
Existing(m) == {r \in Ids : /\ records[r].media = m
                            /\ records[r].epoch = Epoch
                            /\ records[r].valid}

NewRecord(m) == [Absent EXCEPT !.media = m, !.epoch = Epoch,
                               !.state = "pending", !.valid = TRUE]

\* INSERT takes the next row.
Next1(r) == /\ records[r].state = "absent"
            /\ \A k \in Ids : k < r => records[k].state # "absent"

\* The conditions of claim_next, oldest first.
CanClaim(r) == /\ records[r].state \in Claimable
               /\ records[r].valid
               /\ records[r].epoch = Epoch

\* check_eligibility: safety conditions and selection rule as they are now.
Eligible(r) == records[r].media \in basis /\ enabled

\* assert_lease
Leased == job.lease /\ ~job.cancelled

\* The strict form of _locked_cas, with the state the caller expects.
Owned == LET r == records[job.mine] IN
         /\ r.token = serial
         /\ r.live
         /\ r.valid
         /\ r.state = job.expect

\* requeue_sent
Requeue(m) == [r \in Ids |->
    IF /\ FixesDate
       /\ records[r].media = m
       /\ records[r].state = "complete"
       /\ records[r].valid
    THEN [records[r] EXCEPT !.state = "needs_recheck"] ELSE records[r]]

\* Fault: only what is being sent needs its key.
WantedBySenders(v, recs) ==
    \/ v = current
    \/ \E r \in Ids : recs[r].rev = v /\ recs[r].state \in Active

\* A revision whose key is still wanted (purge_superseded_credentials).
Wanted(v, recs) == \/ v = current
                   \/ \E r \in Ids : recs[r].rev = v /\ recs[r].state \in InFlight

Spoil == IF job.pc = "request" THEN [job EXCEPT !.late = TRUE] ELSE job

-----------------------------------------------------------------------------
(* Requests of the API                                                     *)

\* create_pairs for one media; the other results change nothing.
CreatePair(m) ==
    /\ enabled
    /\ \/ /\ Existing(m) = {}
          /\ m \in basis
          /\ \E r \in Ids : /\ Next1(r)
                            /\ records' = [records EXCEPT ![r] = NewRecord(m)]
       \/ \E r \in Existing(m) :
             /\ records[r].state = "failed"
             /\ records' = [records EXCEPT ![r] = Free(r, "pending")]
    /\ UNCHANGED <<destination, catalog, rejecting, job, serial, server, budget>>

\* POST /uploads/{id}/retry
Retry(r) ==
    /\ records[r].state = "failed"
    /\ records[r].valid
    /\ records' = [records EXCEPT ![r] = Free(r, "pending")]
    /\ UNCHANGED <<destination, catalog, rejecting, job, serial, server, budget>>

\* reject: _waiting reads the row ...
RejectReads(r) ==
    /\ records[r].state = Waiting
    /\ records[r].valid
    /\ rejecting' = rejecting \cup {r}
    /\ UNCHANGED <<records, destination, catalog, job, serial, server, budget>>

\* Fault: the state that was read is taken for the state that is.
RejectSettlesBlindly(r) ==
    /\ r \in rejecting
    /\ rejecting' = rejecting \ {r}
    /\ records' = [records EXCEPT ![r].state = "complete",
                                  ![r].ending = "rejected"]
    /\ UNCHANGED <<destination, catalog, job, serial, server, budget>>

\* ... and _settle moves it, if it still waits.
RejectSettles(r) ==
    /\ r \in rejecting
    /\ rejecting' = rejecting \ {r}
    /\ records' = IF records[r].state = Waiting
                  THEN [records EXCEPT ![r].state = "complete",
                                       ![r].ending = "rejected"]
                  ELSE records
    /\ UNCHANGED <<destination, catalog, job, serial, server, budget>>

\* _next_epoch
NextEpoch(user, u, sameLibrary) ==
    IF user # revisions[current].user THEN Epoch + 1
    ELSE IF u = revisions[current].url \/ sameLibrary THEN Epoch
    ELSE Epoch + 1

\* PATCH with connection fields: verified, then add_revision in one
\* transaction, which invalidates what an older epoch left unfinished.
EditDestination(u, sameLibrary) ==
    LET user == behind[u]
        new  == current + 1
        next == NextEpoch(user, u, sameLibrary)
    IN  /\ Spend("edit")
        /\ new \in 1..MaxRevisions
        /\ revisions' = [revisions EXCEPT ![new] =
                           [url |-> u, user |-> user, epoch |-> next]]
        /\ current' = new
        /\ keys' = keys \cup {new}
        /\ purging' = TRUE
        /\ records' = [r \in Ids |->
             IF /\ next # Epoch
                /\ records[r].epoch < next
                /\ records[r].state # "complete"
             THEN [records[r] EXCEPT !.valid = FALSE] ELSE records[r]]
        /\ job' = Spoil
        /\ UNCHANGED <<enabled, catalog, rejecting, serial, server>>

\* The same request purges the superseded keys afterwards.
Purge ==
    /\ purging
    /\ purging' = FALSE
    /\ keys' = {v \in keys : Wanted(v, records)}
    /\ UNCHANGED <<records, revisions, current, enabled, catalog, rejecting,
                   job, serial, server, budget>>

\* rename_or_toggle, archive
Toggle ==
    /\ Spend("toggle")
    /\ enabled' = ~enabled
    /\ job' = Spoil
    /\ UNCHANGED <<records, revisions, current, keys, purging, catalog,
                   rejecting, serial, server>>

\* Fault: only what is still being sent is in the way.
ZoneOverrideHasty(m) ==
    /\ Spend("move")
    /\ ~\E r \in Ids : /\ records[r].media = m
                       /\ records[r].valid
                       /\ records[r].state \in Active \ {"fixing_datetime"}
    /\ captured' = [captured EXCEPT ![m].tz = 1 - @]
    /\ records' = Requeue(m)
    /\ UNCHANGED <<destination, basis, rejecting, job, serial, server>>

\* apply_zone_override on one original: the instant stays, the zone moves.
ZoneOverride(m) ==
    /\ Spend("move")
    /\ ~\E r \in Ids : /\ records[r].media = m
                       /\ records[r].valid
                       /\ records[r].state \in Active
    /\ captured' = [captured EXCEPT ![m].tz = 1 - @]
    /\ records' = Requeue(m)
    /\ UNCHANGED <<destination, basis, rejecting, job, serial, server>>

\* create_manual: a sendable original becomes a member of a new group.
CreateGroup(m) ==
    /\ Spend("group")
    /\ m \in basis
    /\ basis' = basis \ {m}
    /\ job' = Spoil
    /\ UNCHANGED <<records, destination, captured, rejecting, serial, server>>

\* discard and supersede: refused while a record of a member is being sent
\* or about to be; otherwise what waits is invalidated with the edit.
EditGroup(m) ==
    LET mine(S) == {r \in Ids : /\ records[r].media = m
                                /\ records[r].valid
                                /\ records[r].state \in S}
    IN  /\ Spend("group")
        /\ m \notin basis
        /\ mine(Active) = {}
        /\ job.kind # "none" /\ ~job.cancelled
               => mine(Claimable) = {}
        /\ basis' \in {basis, basis \cup {m}}
        /\ records' = [r \in Ids |-> IF r \in mine(Claimable)
                         THEN [records[r] EXCEPT !.valid = FALSE]
                         ELSE records[r]]
        /\ UNCHANGED <<destination, captured, rejecting, job, serial, server>>

\* DELETE /jobs/{id}, or the runner's stop().
Cancel ==
    /\ job.kind # "none"
    /\ ~job.cancelled
    /\ job' = [job EXCEPT !.cancelled = TRUE]
    /\ UNCHANGED <<records, destination, catalog, rejecting, serial, server,
                   budget>>

-----------------------------------------------------------------------------
(* The outside world                                                       *)

\* Someone else stores the same file, with any date, or deletes it.
OtherUploads(l, m) ==
    /\ Spend("outside")
    /\ remote[l][m] = NoAsset
    /\ assets < MaxAssets
    /\ assets' = assets + 1
    /\ \E d \in {Foreign, [at |-> 0, tz |-> 0]} :
          remote' = [remote EXCEPT ![l][m] =
                       [id |-> assets + 1, ours |-> FALSE, date |-> d]]
    /\ UNCHANGED <<records, destination, catalog, rejecting, job, serial,
                   behind, mistaken>>

OtherDeletes(l, m) ==
    /\ Spend("outside")
    /\ remote[l][m] # NoAsset
    /\ remote' = [remote EXCEPT ![l][m] = NoAsset]
    /\ mistaken' = IF remote[l][m].ours THEN mistaken \cup {<<l, m>>} ELSE mistaken
    /\ UNCHANGED <<records, destination, catalog, rejecting, job, serial,
                   behind, assets>>

\* DNS, a proxy or a restore puts another library behind the same url.
Swap(u) ==
    /\ Spend("swap")
    /\ \E l \in Libraries \ {behind[u]} : behind' = [behind EXCEPT ![u] = l]
    /\ job' = IF job.kind = "none" THEN job ELSE [job EXCEPT !.swapped = TRUE]
    /\ UNCHANGED <<records, destination, catalog, rejecting, serial, remote,
                   assets, mistaken>>

\* The worker is suspended, or its beats fail, for longer than the lease.
LeaseExpires ==
    /\ job.lease
    /\ Spend("expiry")
    /\ job' = [job EXCEPT !.lease = FALSE]
    /\ UNCHANGED <<records, destination, catalog, rejecting, serial, server>>

ClaimExpires(r) ==
    /\ records[r].live
    /\ Spend("expiry")
    /\ records' = [records EXCEPT ![r].live = FALSE]
    /\ UNCHANGED <<destination, catalog, rejecting, job, serial, server>>

\* recompute_timestamps, a job of its own: one batch is one transaction.
Recompute(m) ==
    /\ job.kind = "none"
    /\ Spend("move")
    /\ captured' = [captured EXCEPT ![m].at = 1 - @]
    /\ records' = Requeue(m)
    /\ UNCHANGED <<destination, basis, rejecting, job, serial, server>>

\* Fault: an approval is not released.
SettledSenders(r, stale) ==
    LET row == records[r] IN
    [(IF row.state \in Active \ {"fixing_datetime"}
      THEN Free(r, "needs_recheck") ELSE row)
        EXCEPT !.valid = /\ row.valid
                         /\ row.state # "complete" =>
                              /\ row.epoch = Epoch
                              /\ ~(row.media \notin basis /\ r \in stale)]

\* release_interrupted, invalidate_stale on the rows of groups that no longer
\* stand, invalidate_old_epoch: what _settle_uploads makes of a row.
Settled(r, stale) ==
    LET row == records[r] IN
    [(IF row.state \in Active THEN Free(r, "needs_recheck") ELSE row)
        EXCEPT !.valid = /\ row.valid
                         /\ row.state # "complete" =>
                              /\ row.epoch = Epoch
                              /\ ~(row.media \notin basis /\ r \in stale)]

\* The process dies, and comes up again: Reconciler.run.
Restart ==
    /\ Spend("restart")
    /\ job' = NoJob
    /\ rejecting' = {}
    /\ purging' = FALSE
    /\ IF Wired
       THEN /\ \E stale \in SUBSET Ids :
                   records' = [r \in Ids |-> Settled(r, stale)]
            /\ keys' = {v \in keys : Wanted(v, records')}
       ELSE UNCHANGED <<records, keys>>
    /\ UNCHANGED <<revisions, current, enabled, catalog, serial, server>>

-----------------------------------------------------------------------------
(* The worker                                                              *)

Worker(row) == UNCHANGED <<destination, catalog, rejecting, row>>

\* PreflightCache, client and progress are built anew for every job.
Begin(kind, pc, r) ==
    /\ job.kind = "none"
    /\ Spend("job")
    /\ serial' = serial + 1
    /\ job' = [NoJob EXCEPT !.kind = kind, !.pc = pc, !.lease = TRUE, !.mine = r]
    /\ Worker(<<records, server>>)

Done(why) == job' = [NoJob EXCEPT !.exit = why]
\* A recheck holds no row to give back.
Leave(why) == IF job.kind = "recheck" THEN Done(why)
              ELSE job' = [job EXCEPT !.pc = "leaving", !.exit = why]
Goto(pc) == job' = [job EXCEPT !.pc = pc]
\* On to the next record: only what belongs to the job is kept.
Again == job' = [NoJob EXCEPT !.kind = job.kind, !.pc = "head",
                              !.lease = job.lease, !.cancelled = job.cancelled,
                              !.verified = job.verified, !.swapped = job.swapped]

NoLease == IF job.cancelled THEN "cancel" ELSE "lease"
Still == Worker(<<records, serial, server, budget>>)
Mine == records[job.mine]

StartSend == Begin("send", "head", 0)
StartApprove(r) == records[r].state # "absent" /\ Begin("approve", "asked", r)
StartRecheck == Begin("recheck", "starting", 0)

\* The head of the loop of run: the cancel, then the heartbeat.
Head ==
    /\ job.pc = "head"
    /\ IF job.cancelled THEN Done("cancel")
       ELSE IF ~job.lease THEN Done("lease") ELSE Goto("claiming")
    /\ Still

\* claim_next: the revision is resolved in the transaction that claims.
Claim(r) ==
    /\ job.pc = "claiming"
    /\ enabled
    /\ CanClaim(r)
    /\ \A k \in Ids : CanClaim(k) => r <= k
    /\ records' = [records EXCEPT ![r].state = "checking", ![r].token = serial,
                                  ![r].live = TRUE, ![r].rev = current]
    /\ job' = [job EXCEPT !.pc = "claimed", !.mine = r, !.expect = "checking",
                          !.rev = current, !.touched = FALSE]
    /\ Worker(<<serial, server, budget>>)

ClaimNothing ==
    /\ job.pc = "claiming"
    /\ ~enabled \/ ~\E r \in Ids : CanClaim(r)
    /\ Done("done")
    /\ Still

\* check_eligibility; then the media is read and the client opened.
CheckClaimed ==
    /\ job.pc = "claimed"
    /\ IF ~Eligible(job.mine) THEN Goto("refusing")
       ELSE IF job.rev \notin keys THEN Leave("key")
       ELSE job' = [job EXCEPT !.pc = "prepare", !.goal = "check",
                               !.date = captured[Mine.media]]
    /\ Still

\* Fault: what is refused is still valid.
RefuseForNow ==
    /\ job.pc = "refusing"
    /\ records' = [records EXCEPT ![job.mine] = Free(job.mine, "pending")]
    /\ Again
    /\ Worker(<<serial, server, budget>>)

\* refuse
Refuse ==
    /\ job.pc = "refusing"
    /\ records' = [records EXCEPT ![job.mine] =
                     [Free(job.mine, "pending") EXCEPT !.valid = FALSE]]
    /\ Again
    /\ Worker(<<serial, server, budget>>)

-----------------------------------------------------------------------------
(* _guard: prepare_side_effect, preflight, prepare_side_effect             *)

\* Fault: the rules are looked at for what is there already only.
VerifyAdoption == job.goal = "adopt"

Verify == job.goal \in {"adopt", "send"}

Passes == /\ Leased
          /\ Verify => Eligible(job.mine) /\ Mine.valid
          /\ Owned

\* A guard that fails: which of its conditions is looked at first.
Stopped ==
    IF ~Leased THEN Leave(NoLease)
    ELSE IF Verify /\ ~(Eligible(job.mine) /\ Mine.valid) THEN Goto("refusing")
    ELSE Leave("claim")

Prepare ==
    /\ job.pc = "prepare"
    /\ IF Passes THEN Goto("preflight") ELSE Stopped
    /\ Still

\* Fault: a server that answers is the right one.
PreflightReachable ==
    /\ job.pc = "preflight"
    /\ \/ /\ job.rev \in job.verified
          /\ Goto("reassure")
       \/ /\ job.rev \in keys
          /\ job' = [job EXCEPT !.pc = "reassure", !.swapped = FALSE,
                                !.verified = @ \cup {job.rev}]
       \/ /\ job.rev \notin keys
          /\ Leave("target")
    /\ Still

\* assert_target: cached for a while, else users/me is asked with the key.
Preflight ==
    /\ job.pc = "preflight"
    /\ \/ /\ job.rev \in job.verified
          /\ Goto("reassure")
       \/ /\ job.rev \in keys
          /\ behind[revisions[job.rev].url] = revisions[job.rev].user
          /\ job' = [job EXCEPT !.pc = "reassure", !.swapped = FALSE,
                                !.verified = @ \cup {job.rev}]
       \/ /\ \/ job.rev \notin keys
             \/ behind[revisions[job.rev].url] # revisions[job.rev].user
          /\ Leave("target")
    /\ Still

PreflightFails ==
    /\ job.pc = "preflight"
    /\ Spend("fault")
    /\ Leave("target")
    /\ Worker(<<records, serial, server>>)

Reassure ==
    /\ job.pc = "reassure"
    /\ job.goal # "recheck"
    /\ IF ~Passes THEN Stopped
       ELSE IF job.goal = "approve" /\ job.rev \notin keys THEN Leave("key")
       ELSE job' = [job EXCEPT !.pc = IF job.goal = "adopt" THEN "commit"
                                                            ELSE "request",
                               !.touched = TRUE, !.late = FALSE]
    /\ Still

-----------------------------------------------------------------------------
(* The requests, as the server sees them                                   *)

Server == behind[revisions[job.rev].url]
There  == remote[Server][Mine.media]
Known  == There # NoAsset /\ There.id = Mine.asset

\* A url that changed hands after the preflight: the record and the asset l
\* holds no longer belong together.
Strays(l) == mistaken' = IF Server = revisions[job.rev].user THEN mistaken
                         ELSE mistaken \cup {<<l, Mine.media>>}

At(goal) == job.pc = "request" /\ job.goal \in goal
Reply(r, id) == job' = [job EXCEPT !.pc = "commit", !.reply = r, !.asset = id]

\* No answer; an answer that refuses; one that says the target is wrong.
Raises == IF job.goal = "approve" THEN Leave("server")
          ELSE IF job.goal = "observe" THEN Reply("none", 0)
          ELSE Goto("retrying") \/ Goto("failing") \/ Leave("server")

\* The answer of a request is lost, whether or not it took effect.
AnswerLost == /\ job.pc = "request"
              /\ Spend("fault")
              /\ Raises

Lost == AnswerLost /\ Worker(<<records, serial, server>>)

\* bulk_upload_check.  What is there already and is not provably ours takes
\* another guard before the first change to it.
AskCheck ==
    /\ At({"check"})
    /\ \/ /\ There = NoAsset
          /\ Reply("accept", 0)
          /\ UNCHANGED mistaken
       \/ /\ There # NoAsset
          /\ Mine.origin = "created_by_us"
          /\ Reply("reject", There.id)
          /\ Strays(Server)
       \/ /\ There # NoAsset
          /\ Mine.origin # "created_by_us"
          /\ job' = [job EXCEPT !.pc = "prepare", !.goal = "adopt",
                                !.reply = "reject", !.asset = There.id]
          /\ UNCHANGED mistaken
    /\ Worker(<<records, serial, behind, remote, assets, budget>>)

\* POST /api/assets
SendBytes ==
    /\ At({"send"})
    /\ \/ /\ There # NoAsset
          /\ \/ /\ job' = [job EXCEPT !.pc = "prepare", !.goal = "adopt",
                                      !.reply = "duplicate", !.asset = There.id]
                /\ UNCHANGED budget
             \/ AnswerLost
          /\ UNCHANGED <<remote, assets, mistaken>>
       \/ /\ There = NoAsset
          /\ assets < MaxAssets
          /\ assets' = assets + 1
          /\ remote' = [remote EXCEPT ![Server][Mine.media] =
                          [id |-> assets + 1, ours |-> TRUE, date |-> Foreign]]
          /\ \/ /\ Reply("created", assets + 1)
                /\ Strays(revisions[job.rev].user)
                /\ UNCHANGED budget
             \/ AnswerLost /\ UNCHANGED mistaken
    /\ Worker(<<records, serial, behind>>)

\* The library file cannot be opened or read: no error of the client's, so
\* nothing counts the attempt and the whole job ends.
FileUnreadable ==
    /\ At({"send"})
    /\ Spend("fault")
    /\ Leave("file")
    /\ Worker(<<records, serial, server>>)

\* A tag takes a request to find it, one to create it if there is none, and one
\* to put it on the asset, each behind a guard.  One tag stands for all: another
\* goes the same way once more.
Guarded(goal) == job' = [job EXCEPT !.pc = "prepare", !.goal = goal]

FindTag ==
    /\ At({"find"})
    /\ Guarded("create") \/ Guarded("tag")
    /\ Still

CreateTag ==
    /\ At({"create"})
    /\ Guarded("tag")
    /\ Still

\* tag_assets; a vanished asset is refused.
TagAssets ==
    /\ At({"tag"})
    /\ IF Known THEN Goto("planning") ELSE Goto("failing")
    /\ Still

\* The current date, None if it cannot be read.
Observe ==
    /\ At({"observe"})
    /\ IF Known /\ There.date.at = job.date.at
       THEN Reply("same", Mine.asset) ELSE Reply("none", 0)
    /\ Still

\* set_date_time_original
PutDate ==
    /\ At({"fix", "approve"})
    /\ \/ /\ Known
          /\ remote' = [remote EXCEPT ![Server][Mine.media].date = job.date]
          /\ (Reply("none", 0) /\ UNCHANGED budget) \/ AnswerLost
       \/ /\ ~Known
          /\ IF job.goal = "approve" THEN Leave("server") ELSE Goto("failing")
          /\ UNCHANGED <<remote, budget>>
    /\ Worker(<<records, serial, behind, assets, mistaken>>)

-----------------------------------------------------------------------------
(* Commits: advance_owned and finish_owned ask for the lease and for the   *)
(* row as it was left.                                                     *)

Goes(row, pc, goal, expect) ==
    /\ records' = [records EXCEPT ![job.mine] = row]
    /\ job' = [job EXCEPT !.pc = pc, !.goal = goal, !.expect = expect]

\* A final state gives the claim up; an approval is over, a sender goes on.
Ends(state, ending) ==
    /\ records' = [records EXCEPT ![job.mine] =
                     [Free(job.mine, state) EXCEPT !.ending = ending]]
    /\ IF job.kind = "approve" THEN Done("done") ELSE Again

First == IF Mine.first = "none" THEN job.reply ELSE Mine.first

\* Fault: what our own upload ran into is ours as well.
OriginHopeful ==
    IF \/ job.reply \in {"created", "duplicate"}
       \/ job.reply = "reject" /\ Mine.origin = "created_by_us"
    THEN "created_by_us"
    ELSE IF First = "reject" THEN "pre_existing" ELSE "unknown"

\* What is ours stays ours; origin_after_upload otherwise.
OriginNow == IF \/ job.reply = "created"
                \/ job.reply = "reject" /\ Mine.origin = "created_by_us"
             THEN "created_by_us"
             ELSE IF First = "reject" THEN "pre_existing" ELSE "unknown"

\* datetime_plan: no date to write, one of ours, or one to be approved.
Automatic == Mine.origin = "created_by_us"

Commits(pc) == job.pc = pc /\ Leased /\ Owned
Steps == Worker(<<serial, server, budget>>)

\* The check said accept: upload, after a guard that looks at the rules too.
BeginUploading ==
    /\ Commits("commit")
    /\ job.reply = "accept"
    /\ Goes([Mine EXCEPT !.state = "uploading", !.first = First],
            "prepare", "send", "uploading")
    /\ Steps

\* Now the asset is known to exist.
AssetKnown ==
    /\ Commits("commit")
    /\ job.reply \in {"created", "duplicate", "reject"}
    /\ Goes([Mine EXCEPT !.state = "asset_known", !.first = First,
                         !.asset = job.asset, !.origin = OriginNow],
            "known", "none", "asset_known")
    /\ Steps

\* tags_to_apply may name some tags or none.
BeginTagging ==
    /\ Commits("known")
    /\ \/ Goes([Mine EXCEPT !.state = "tagging"], "prepare", "find", "tagging")
       \/ Goes([Mine EXCEPT !.state = "tagging"], "planning", "tag", "tagging")
    /\ Steps

FinishPlain ==
    /\ Commits("planning")
    /\ ~FixesDate
    /\ Ends("complete", "plain")
    /\ Steps

BeginFixing ==
    /\ Commits("planning")
    /\ FixesDate
    /\ Automatic
    /\ Goes([Mine EXCEPT !.state = "fixing_datetime"],
            "prepare", "fix", "fixing_datetime")
    /\ Steps

\* The current date is read once, behind a guard; nothing is committed yet.
AskDate ==
    /\ job.pc = "planning"
    /\ FixesDate
    /\ ~Automatic
    /\ Guarded("observe")
    /\ Still

\* The same instant needs no approval, an unreadable one does.
FinishObserved ==
    /\ Commits("commit")
    /\ job.goal = "observe"
    /\ IF job.reply = "same" THEN Ends("complete", "same")
                             ELSE Ends(Waiting, "none")
    /\ Steps

FinishWritten ==
    /\ Commits("commit")
    /\ job.goal \in {"fix", "approve"}
    /\ Ends("complete", "written")
    /\ Steps

CommitFails ==
    /\ job.pc \in {"commit", "known", "planning"}
    /\ job.pc = "planning" => ~FixesDate \/ Automatic
    /\ ~(Leased /\ Owned)
    /\ Leave(IF ~Leased THEN NoLease ELSE "claim")
    /\ Still

-----------------------------------------------------------------------------
(* The ways down                                                           *)

Counted(row) == [row EXCEPT !.attempts = @ + 1]

\* finish(..., "failed") asks for the row, not for the lease.
Fails ==
    /\ \/ job.pc = "failing"
       \/ job.pc = "retrying" /\ Mine.attempts + 1 >= MaxAttempts
    /\ IF Owned
       THEN /\ records' = [records EXCEPT ![job.mine] =
                             Counted(Free(job.mine, "failed"))]
            /\ Again
       ELSE Leave("claim") /\ UNCHANGED records
    /\ Steps

\* _retry_or_fail
Retries ==
    /\ job.pc = "retrying"
    /\ Mine.attempts + 1 < MaxAttempts
    /\ records' = [records EXCEPT ![job.mine] =
                     Counted(Free(job.mine, "pending"))]
    /\ Again
    /\ Steps

\* The finally clauses: release_to, or release_from_approval.
Release ==
    /\ job.pc = "leaving"
    /\ records' = [records EXCEPT ![job.mine] =
                     Free(job.mine, IF job.kind = "approve" THEN Waiting
                                    ELSE IF job.touched THEN "needs_recheck"
                                    ELSE "pending")]
    /\ Done(job.exit)
    /\ Steps

-----------------------------------------------------------------------------
(* ApprovalService.approve                                                 *)

\* _waiting, and the revision the record was sent with.
ApproveReads ==
    /\ job.pc = "asked"
    /\ IF Mine.state = Waiting /\ Mine.valid /\ Mine.asset # 0
       THEN job' = [job EXCEPT !.pc = "approving", !.rev = Mine.rev]
       ELSE Done("done")
    /\ Still

\* claim_for_approval; the loser of a race with a reject goes away.
ApproveClaims ==
    /\ job.pc = "approving"
    /\ IF Mine.state = Waiting /\ Mine.valid /\ Mine.token = 0
       THEN Goes([Mine EXCEPT !.state = "fixing_datetime", !.token = serial,
                              !.live = TRUE],
                 "reading", "none", "fixing_datetime")
       ELSE Done("done") /\ UNCHANGED records
    /\ Steps

\* The date is read once the row is held.
ApproveReadsDate ==
    /\ job.pc = "reading"
    /\ job' = [job EXCEPT !.pc = "prepare", !.goal = "approve",
                          !.date = captured[Mine.media]]
    /\ Still

-----------------------------------------------------------------------------
(* Rechecker.run                                                           *)

RecheckStarts ==
    /\ job.pc = "starting"
    /\ IF ~Leased THEN Done(NoLease)
       ELSE job' = [job EXCEPT !.pc = "preflight", !.goal = "recheck",
                               !.rev = current]
    /\ Still

\* records_for_recheck
RecheckLists ==
    /\ job.pc = "reassure"
    /\ job.goal = "recheck"
    /\ LET rows == {r \in Ids : /\ records[r].epoch = revisions[job.rev].epoch
                                /\ records[r].state = "complete"
                                /\ records[r].valid}
       IN  IF rows = {} \/ job.rev \notin keys THEN Done("done")
           ELSE job' = [job EXCEPT !.pc = "comparing",
                          !.seen = {[row |-> r, had |-> records[r].asset,
                                     has |-> 0] : r \in rows}]
    /\ Still

\* One batch of bulk_upload_check; errors end the job.
RecheckCompares ==
    /\ job.pc = "comparing"
    /\ IF ~Leased THEN Done(NoLease)
       ELSE \/ job' = [job EXCEPT !.pc = "stamping",
                 !.seen = {[s EXCEPT !.has =
                              remote[Server][records[s.row].media].id] : s \in @}]
            \/ Done("server")
    /\ Still

\* stamp_many: rows that are still what was asked about.  The vanished ones
\* are invalidated with the observation; the asset that took the place of
\* another is nobody's that we have written a date to.
RecheckStamps ==
    /\ job.pc = "stamping"
    /\ records' = [r \in Ids |->
         IF Leased /\ \E s \in job.seen : /\ s.row = r
                                          /\ records[r].state = "complete"
                                          /\ records[r].asset = s.had
         THEN LET s == CHOOSE s \in job.seen : s.row = r IN
              [records[r] EXCEPT !.asset = s.has,
                                 !.valid = @ /\ s.has # 0,
                                 !.ending = IF s.has = s.had THEN @ ELSE "none"]
         ELSE records[r]]
    /\ Done(IF Leased THEN "done" ELSE NoLease)
    /\ Steps

-----------------------------------------------------------------------------
Requests ==
    \/ \E m \in Media : \/ CreatePair(m) \/ ZoneOverride(m)
                        \/ CreateGroup(m) \/ EditGroup(m)
    \/ \E r \in Ids : Retry(r) \/ RejectReads(r) \/ RejectSettles(r)
    \/ \E u \in Urls, same \in BOOLEAN : EditDestination(u, same)
    \/ Purge \/ Toggle \/ Cancel

World ==
    \/ \E l \in Libraries, m \in Media : OtherUploads(l, m) \/ OtherDeletes(l, m)
    \/ \E u \in Urls : Swap(u)
    \/ LeaseExpires
    \/ \E r \in Ids : ClaimExpires(r)
    \/ Restart

Starts ==
    \/ StartSend \/ StartRecheck
    \/ \E r \in Ids : StartApprove(r)
    \/ \E m \in Media : Recompute(m)

Sends ==
    \/ Head \/ ClaimNothing \/ CheckClaimed \/ Refuse
    \/ \E r \in Ids : Claim(r)
    \/ AskCheck \/ SendBytes \/ FileUnreadable
    \/ FindTag \/ CreateTag \/ TagAssets \/ Observe
    \/ BeginUploading \/ AssetKnown \/ BeginTagging \/ FinishPlain
    \/ BeginFixing \/ AskDate \/ FinishObserved \/ Fails \/ Retries

Approves == ApproveReads \/ ApproveClaims \/ ApproveReadsDate

Rechecks == RecheckStarts \/ RecheckLists \/ RecheckCompares \/ RecheckStamps

Shared == Prepare \/ Preflight \/ PreflightFails \/ Reassure \/ Lost \/ PutDate
          \/ FinishWritten \/ CommitFails \/ Release

Working == Sends \/ Approves \/ Rechecks \/ Shared

Next == Requests \/ World \/ Starts \/ Working

Spec == Init /\ [][Next]_vars

\* The worker's thread runs on; nobody has to press or break anything.
FairSpec == Spec /\ WF_vars(Working)

-----------------------------------------------------------------------------
(* Properties                                                              *)

\* Two create requests, a retry and an edit never leave two valid rows for
\* one media in one epoch (the index upload_record_one_valid never fires).
OneRecordPerPair ==
    \A r, k \in Ids : (/\ records[r].valid
                       /\ records[k].valid
                       /\ records[r].media = records[k].media
                       /\ records[r].epoch = records[k].epoch) => r = k

Holding == job.mine # 0 /\ job.pc \notin {"idle", "head", "claiming", "asked",
                                          "approving"}

\* No request, edit or zone change moves a row out of the hands of the worker:
\* it finds state and token as it left them, whatever it waited for.  Only
\* the claim's expiry and an invalidation can stop it.
OwnRowStays ==
    Holding => Mine.state = job.expect /\ Mine.token = serial

\* Whatever way a job ends, it leaves no row behind that nobody can claim.
NothingLeftBehind ==
    \A r \in Ids : records[r].state \in Active => Holding /\ r = job.mine

\* A valid row that waits to be sent is of the current epoch: nothing is
\* shown as waiting that claim_next will never pick up.
NothingStranded ==
    \A r \in Ids : /\ records[r].valid
                   /\ records[r].state \notin {"absent", "complete"}
                   => records[r].epoch = Epoch

\* A request about a row goes to the library of the row's epoch, unless the
\* library behind the url was swapped since this job's last preflight.
RightLibrary ==
    job.pc = "request" =>
        LET rev == revisions[job.rev] IN
        /\ rev.epoch = Mine.epoch
        /\ behind[rev.url] # rev.user => job.swapped

\* The key of a revision that a row in flight or waiting for approval was
\* sent with is not purged.
KeyInUseIsKept ==
    \A r \in Ids : records[r].state \in InFlight => records[r].rev \in keys

\* The first byte goes out only under a selection rule that held after the
\* answer of the preflight, unless it broke after that last look.
SendsOnlyEligible ==
    At({"send"}) /\ ~(Eligible(job.mine) /\ Mine.valid) => job.late

\* A row that says complete after its date was written tells the truth: the
\* asset carries the capture date of now, also after zone changes that raced
\* the upload, the approval or the recomputation.
DateFollowsCapture ==
    \A r \in Ids, l \in Libraries :
        LET row == records[r]
            a   == remote[l][row.media]
        IN  (/\ row.state = "complete"
             /\ row.valid
             /\ row.ending = "written"
             /\ a.id = row.asset
             /\ a.id # 0) => a.date = captured[row.media]

\* The date of an asset that somebody else stored is about to change.
Rewritten(l, m) == /\ remote[l][m] # NoAsset
                   /\ ~remote[l][m].ours
                   /\ remote'[l][m].id = remote[l][m].id
                   /\ remote'[l][m].date # remote[l][m].date

\* The date of an asset somebody else created changes by an approval only, or
\* where it took the place of one of ours: that one was deleted there, or a
\* url changed hands between a preflight and an answer about the record.
NoUnapprovedRewrite ==
    [][\A l \in Libraries, m \in Media :
          Rewritten(l, m) => job.kind = "approve" \/ <<l, m>> \in mistaken]_vars

\* design.md has no such exception: what cannot be proved to be ours counts as
\* unknown and waits for an approval.  No run: the README has the two ways in
\* which the code falls short of it.
ForeignDatesKept ==
    [][\A l \in Libraries, m \in Media :
          Rewritten(l, m) => job.kind = "approve"]_vars

\* design.md: what is claimed when the destination is edited runs to its end
\* on the revision it was claimed with.
ClaimedRunsOn ==
    [][\A r \in Ids : records[r].valid /\ records[r].state \in Active
            => records'[r].valid \/ records'[r].state \notin Active]_vars

\* uploads.py: pairs succeed and fail independently of one another.  A file
\* that cannot be read leaves at most its own record unsent.
PairsAreIndependent ==
    job.pc = "idle" /\ job.exit = "file" =>
        Cardinality({r \in Ids : CanClaim(r)}) <= 1

\* design.md: the safety conditions, an enabled destination among them, hold
\* at every claim, whatever its layer.
EveryClaimIsEnabled ==
    [][\A r \in Ids : records[r].token = 0 /\ records'[r].token # 0
            => enabled]_vars

\* A job comes to an end: what it refuses, fails or gives back for another try
\* is not claimed by it over and over.
EveryUploadJobEnds == job.kind # "none" ~> job.kind = "none"

-----------------------------------------------------------------------------
(* What the properties above rest on                                       *)

SendPCs == {"head", "claiming", "claimed", "refusing", "prepare", "preflight",
            "reassure", "request", "commit", "known", "planning", "retrying",
            "failing", "leaving"}
ApprovePCs == {"asked", "approving", "reading", "prepare", "preflight",
               "reassure", "request", "commit", "leaving"}
RecheckPCs == {"starting", "preflight", "reassure", "comparing", "stamping"}
GuardPCs == {"prepare", "preflight", "reassure", "request", "commit"}
HandPCs  == (SendPCs \ {"head", "claiming"}) \cup {"reading"}

PcFits ==
    /\ job.kind = "none" => job.pc = "idle"
    /\ job.kind = "send" => job.pc \in SendPCs
    /\ job.kind = "approve" => job.pc \in ApprovePCs
    /\ job.kind = "recheck" =>
          /\ job.pc \in RecheckPCs
          /\ job.pc # "starting" => job.rev \in 1..MaxRevisions
    /\ job.pc \in GuardPCs => /\ job.goal = "recheck" <=> job.kind = "recheck"
                              /\ job.goal = "approve" <=> job.kind = "approve"

\* A row once written stays written, and belongs to a media.
RowsFilled ==
    /\ \A r \in Ids : records[r].state # "absent" => records[r].media \in Media
    /\ \A s \in job.seen : records[s.row].state # "absent"

\* The row a job has in hand is as the job left it, with its revision.
InHand ==
    /\ job.mine # 0 => job.kind \in {"send", "approve"} /\ job.pc \in ApprovePCs \cup HandPCs
    /\ job.kind = "approve" => job.mine # 0 /\ Mine.state # "absent"
    /\ job.pc = "approving" => Mine.rev = job.rev
    /\ job.kind # "recheck" /\ job.pc \in HandPCs =>
          /\ job.mine # 0
          /\ job.expect \in Active
          /\ Mine.state = job.expect
          /\ Mine.token = serial
          /\ Mine.rev = job.rev

\* The first answer of the server is on record before another one can come.
FirstAnswer ==
    /\ (job.pc \in {"head", "claiming"} \/ job.kind = "approve") => job.reply = "none"
    /\ (/\ job.kind = "send"
        /\ job.pc \in HandPCs
        /\ \/ job.reply \in {"created", "duplicate"}
           \/ job.pc \in GuardPCs /\ job.goal = "send") => Mine.first # "none"

KeysKept == current \in keys /\ KeyInUseIsKept

\* The inductive invariant.
IInv == /\ TypeOK
        /\ PcFits
        /\ RowsFilled
        /\ InHand
        /\ FirstAnswer
        /\ KeysKept
        /\ OneRecordPerPair
        /\ Wired => NothingLeftBehind
=============================================================================
