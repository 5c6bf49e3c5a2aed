------------------------- MODULE UploadSendsProofs -------------------------
(***************************************************************************)
(* Proofs about what the uploader sends: to the library of the row, under  *)
(* a rule that holds, with the date the catalogue has, and, as long as     *)
(* nobody deletes what we created and no url changes hands, over nobody's  *)
(* date but our own; and that a job runs down.  They build on the          *)
(* invariant of UploadsProofs, which holds in every state, and add parts   *)
(* that are inductive given that one.                                      *)
(***************************************************************************)
EXTENDS UploadsProofs

USE DEF vars, destination, catalog, server

-----------------------------------------------------------------------------
(* The right library *)

\* A row carries a revision of its own epoch, and none that is to come.
RevisionsFit ==
    \A r \in Ids : records[r].rev # 0 =>
        /\ records[r].rev <= current
        /\ revisions[records[r].rev].epoch = records[r].epoch

Right(v) == behind[revisions[v].url] = revisions[v].user

\* The revision the job is at, or the one its next claim will take.
AtRevision == IF job.rev # 0 THEN job.rev ELSE current

\* What the preflight cache holds is no newer than what the job is at, and if it
\* holds that one, only a swap since then has made it wrong.
VerifiedFits ==
    /\ job.rev <= current
    /\ job.verified \subseteq 1..AtRevision
    /\ AtRevision \in job.verified /\ ~job.swapped => Right(AtRevision)
    /\ job.kind = "none" \/ job.pc = "asked" => job.verified = {}
    /\ job.pc \in {"reassure", "request"} => job.rev \in job.verified

TargetsFit == RevisionsFit /\ VerifiedFits

-----------------------------------------------------------------------------
(* The right date *)

\* A recheck looks at a row once.
SeenFits == \A s, t \in job.seen : s.row = t.row => s = t

\* An asset id is given out once.
AssetsFit ==
    /\ \A l, k \in Libraries, m, n \in Media :
           remote[l][m].id # 0 /\ remote[l][m].id = remote[k][n].id => l = k /\ m = n
    /\ \A l \in Libraries, m \in Media : remote[l][m].id <= assets
    /\ \A r \in Ids : records[r].asset <= assets
    /\ job.asset <= assets
    /\ \A s \in job.seen : s.has <= assets

\* A profile that writes no dates has nobody wait for one.
DatesAreWanted ==
    FixesDate \/ /\ \A r \in Ids : /\ records[r].state # Waiting
                                   /\ records[r].ending # "written"
                 /\ job.goal \notin {"observe", "fix"}
                 /\ job.kind = "approve" => job.pc \notin HandPCs

DateIsRead ==
    \/ job.kind = "send" /\ job.pc \in GuardPCs \cup {"known", "planning"}
    \/ job.kind = "approve" /\ job.pc \in GuardPCs

IsWritten(r) == /\ records[r].state = "complete"
              /\ records[r].valid
              /\ records[r].ending = "written"

\* The date the job has read is the date of now, or its row is out of force and
\* whatever was written before has gone back to be sent.
DateInHand ==
    DateIsRead => \/ job.date = captured[Mine.media]
                  \/ /\ ~Mine.valid
                     /\ \A r \in Ids : IsWritten(r) => records[r].media # Mine.media

\* Until the row is settled, its asset has the date that was written.
DateArrived ==
    job.pc = "commit" /\ job.goal \in {"fix", "approve"} =>
        \A l \in Libraries : LET a == remote[l][Mine.media] IN
            a.id # 0 /\ a.id = Mine.asset => a.date = job.date

DatesFit == /\ SeenFits
            /\ AssetsFit
            /\ DatesAreWanted
            /\ DateInHand
            /\ DateArrived
            /\ DateFollowsCapture

-----------------------------------------------------------------------------
(* How the worker moves                                                    *)

\* What a step within a job keeps.
Carries == /\ job'.kind = job.kind /\ job'.rev = job.rev
           /\ job'.verified = job.verified /\ job'.swapped = job.swapped
           /\ job'.pc \notin {"asked", "starting", "reassure", "request"}

Over == \E why \in Exits : Done(why)

\* Goto, Leave and a reply are steps within the job.
LEMMA MovesCarry ==
  ASSUME TypeOK
  PROVE  /\ \A pc \in PCs \ {"asked", "starting", "reassure", "request"} :
               Goto(pc) => Carries
         /\ \A why \in Exits : Leave(why) => Carries \/ Over
         /\ \A r, id : Reply(r, id) => Carries
<1>1. job \in Job
  BY DEF TypeOK
<1>2. \A pc \in PCs \ {"asked", "starting", "reassure", "request"} : Goto(pc) => Carries
  BY <1>1 DEF Goto, Carries, Job
<1>3. \A why \in Exits : Leave(why) => Carries \/ Over
  BY <1>1 DEF Leave, Carries, Over, Job
<1>4. \A r, id : Reply(r, id) => Carries
  BY <1>1 DEF Reply, Carries, Job
<1>5. QED
  BY <1>2, <1>3, <1>4

\* A guard that fails, or an answer that does.
LEMMA BadNewsCarries ==
  ASSUME TypeOK, Stopped \/ Raises
  PROVE  Carries \/ Over
<1>1. {"refusing", "retrying", "failing"} \subseteq
         PCs \ {"asked", "starting", "reassure", "request"}
  BY DEF PCs
<1>2. NoLease \in Exits /\ {"claim", "server"} \subseteq Exits
  BY DEF NoLease, Exits
<1>3. QED
  BY <1>1, <1>2, MovesCarry DEF Stopped, Raises

\* The worker never touches the destination, the catalogue or a reject.
LEMMA WorkerKeeps ==
  ASSUME Working
  PROVE  UNCHANGED <<revisions, current, keys, purging, enabled, basis, captured, rejecting>>
<1>1. CASE Still
  BY <1>1 DEF Still, Worker
<1>2. CASE Steps
  BY <1>2 DEF Steps, Worker
<1>3. CASE \E row : Worker(row)
  BY <1>3 DEF Worker
<1>4. CASE Sends
  <2>1. CASE (\E r \in Ids : Claim(r)) \/ Refuse \/ AskCheck \/ SendBytes \/ FileUnreadable
    BY <1>3, <2>1 DEF Claim, Refuse, AskCheck, SendBytes, FileUnreadable
  <2>2. CASE ~((\E r \in Ids : Claim(r)) \/ Refuse \/ AskCheck \/ SendBytes \/ FileUnreadable)
    BY <1>1, <1>2, <1>4, <2>2, Zenon
       DEF Sends, Head, ClaimNothing, CheckClaimed, FindTag, CreateTag, TagAssets, Observe,
           BeginUploading, AssetKnown, BeginTagging, FinishPlain, BeginFixing, AskDate,
           FinishObserved, Fails, Retries
  <2>3. QED
    BY <2>1, <2>2
<1>5. CASE Approves \/ Rechecks
  BY <1>1, <1>2, <1>5, Zenon
     DEF Approves, Rechecks, ApproveReads, ApproveClaims, ApproveReadsDate, RecheckStarts,
         RecheckLists, RecheckCompares, RecheckStamps
<1>6. CASE Shared
  <2>1. CASE PreflightFails \/ Lost \/ PutDate
    BY <1>3, <2>1 DEF PreflightFails, Lost, PutDate
  <2>2. CASE ~(PreflightFails \/ Lost \/ PutDate)
    BY <1>1, <1>2, <1>6, <2>2, Zenon
       DEF Shared, Prepare, Preflight, Reassure, FinishWritten, CommitFails, Release
  <2>3. QED
    BY <2>1, <2>2
<1>7. QED
  BY <1>4, <1>5, <1>6 DEF Working

\* Only these steps give a job a revision, or have it ask the server.
LEMMA WorkerMoves ==
  ASSUME IInv, Working
  PROVE  \/ \E r \in Ids : Claim(r)
         \/ ApproveReads \/ RecheckStarts \/ Preflight \/ Reassure
         \/ Carries \/ Again \/ Over
<1> USE DEF IInv
<1>1. job \in Job
  BY DEF TypeOK
<1>2. CASE Head \/ ClaimNothing \/ CheckClaimed
  <2>1. {"claiming", "refusing"} \subseteq
          PCs \ {"asked", "starting", "reassure", "request"}
    BY DEF PCs
  <2>2. {"cancel", "lease", "done", "key"} \subseteq Exits
    BY DEF Exits
  <2>3. CASE Head \/ ClaimNothing
    BY <2>1, <2>2, <2>3, MovesCarry DEF Head, ClaimNothing, Over
  <2>4. CASE CheckClaimed
    BY <1>1, <2>1, <2>2, <2>4, MovesCarry DEF CheckClaimed, Carries, Job
  <2>5. QED
    BY <1>2, <2>3, <2>4
<1>3. CASE \/ AskCheck \/ SendBytes \/ FileUnreadable \/ FindTag \/ CreateTag \/ TagAssets
           \/ Observe \/ Lost \/ PutDate
  <2>1. {"planning", "failing"} \subseteq
          PCs \ {"asked", "starting", "reassure", "request"}
    BY DEF PCs
  <2>2. {"server", "file"} \subseteq Exits
    BY DEF Exits
  <2>3. CASE AskCheck \/ SendBytes
    BY <1>1, <2>3, MovesCarry, BadNewsCarries DEF AskCheck, SendBytes, AnswerLost, Carries, Job
  <2>4. CASE FindTag \/ CreateTag
    BY <1>1, <2>4 DEF FindTag, CreateTag, Guarded, Carries, Job
  <2>5. CASE FileUnreadable \/ TagAssets \/ Observe \/ Lost \/ PutDate
    BY <2>1, <2>2, <2>5, MovesCarry, BadNewsCarries
       DEF FileUnreadable, TagAssets, Observe, Lost, PutDate, AnswerLost
  <2>6. QED
    BY <1>3, <2>3, <2>4, <2>5
<1>4. CASE BeginUploading \/ AssetKnown \/ BeginTagging \/ BeginFixing \/ AskDate
  BY <1>1, <1>4 DEF BeginUploading, AssetKnown, BeginTagging, BeginFixing, AskDate,
                    Guarded, Goes, Carries, Job
<1>5. CASE FinishPlain \/ FinishObserved \/ FinishWritten \/ Refuse \/ Fails \/ Retries
           \/ Release
  <2>1. job.exit \in Exits /\ {"done", "claim"} \subseteq Exits
    BY JobType DEF Exits
  <2>2. CASE FinishPlain \/ FinishObserved \/ FinishWritten
    BY <2>1, <2>2 DEF FinishPlain, FinishObserved, FinishWritten, Ends, Over
  <2>3. CASE Refuse \/ Fails \/ Retries \/ Release
    BY <2>1, <2>3, MovesCarry DEF Refuse, Fails, Retries, Release, Over
  <2>4. QED
    BY <1>5, <2>2, <2>3
<1>6. CASE CommitFails \/ Prepare \/ PreflightFails
  <2>1. NoLease \in Exits /\ {"claim", "target"} \subseteq Exits
        /\ "preflight" \in PCs \ {"asked", "starting", "reassure", "request"}
    BY DEF NoLease, Exits, PCs
  <2>2. QED
    BY <1>6, <2>1, MovesCarry, BadNewsCarries DEF CommitFails, Prepare, PreflightFails
<1>7. CASE ApproveClaims \/ ApproveReadsDate
  BY <1>1, <1>7 DEF ApproveClaims, ApproveReadsDate, Goes, Over, Exits, Carries, Job
<1>8. CASE RecheckLists \/ RecheckCompares \/ RecheckStamps
  BY <1>1, <1>8 DEF RecheckLists, RecheckCompares, RecheckStamps, NoLease, Over, Exits,
                    Carries, Job
<1>9. QED
  <2>1. CASE Sends
    BY <1>2, <1>3, <1>4, <1>5, <2>1 DEF Sends
  <2>2. CASE Approves \/ Rechecks
    BY <1>7, <1>8, <2>2 DEF Approves, Rechecks
  <2>3. CASE Shared
    BY <1>3, <1>5, <1>6, <2>3 DEF Shared
  <2>4. QED
    BY <2>1, <2>2, <2>3 DEF Working

-----------------------------------------------------------------------------
(* What a step makes of a row                                              *)

\* A row that is only moved: its media, revision, asset and origin stay, it is not made
\* valid, and neither does it come to wait nor to say that a date was written.
RowKept(r) ==
    /\ records'[r].media = records[r].media
    /\ records'[r].epoch = records[r].epoch
    /\ records'[r].rev = records[r].rev
    /\ records'[r].asset = records[r].asset
    /\ records'[r].origin = records[r].origin
    /\ records'[r].valid => records[r].valid
    /\ records'[r].state = Waiting => records[r].state = Waiting
    /\ records'[r].ending = "written" => records[r].ending = "written"
    /\ records'[r].state = "complete" =>
          records[r].state = "complete" \/ records'[r].ending = "rejected"

RowNew(r) ==
    /\ records[r].state = "absent"
    /\ records'[r].rev = 0 /\ records'[r].asset = 0 /\ records'[r].origin = "unknown"
    /\ records'[r].state = "pending" /\ records'[r].ending = "none"

\* The ways a row is moved.
LEMMA RowMoved ==
  ASSUME TypeOK, NEW r \in Ids,
         \/ records'[r] = records[r]
         \/ \E s \in {"pending", "needs_recheck", "failed"} :
               records'[r] \in {Free(r, s), Counted(Free(r, s)),
                                [Free(r, s) EXCEPT !.valid = FALSE]}
         \/ records'[r] \in {[records[r] EXCEPT !.valid = FALSE],
                             [records[r] EXCEPT !.live = FALSE],
                             [records[r] EXCEPT !.state = "needs_recheck"],
                             [records[r] EXCEPT !.state = "complete",
                                                !.ending = "rejected"]}
         \/ \E s \in Active : records'[r] = [records[r] EXCEPT !.state = s]
         \/ \E s \in Active, f \in {"none", "accept", "reject"} :
               records'[r] = [records[r] EXCEPT !.state = s, !.first = f]
         \/ records'[r] = [records[r] EXCEPT !.state = "fixing_datetime",
                                             !.token = serial, !.live = TRUE]
  PROVE  RowKept(r)
<1>1. records[r] \in Record
  BY DEF TypeOK
<1>2. "complete" \notin Active /\ Waiting \notin Active \cup {"pending", "needs_recheck",
        "failed", "complete"}
  BY DEF Active, Waiting
<1>3. CASE \E s \in {"pending", "needs_recheck", "failed"} :
             records'[r] \in {Free(r, s), Counted(Free(r, s)),
                              [Free(r, s) EXCEPT !.valid = FALSE]}
  <2>1. PICK s \in {"pending", "needs_recheck", "failed"} :
             records'[r] \in {Free(r, s), Counted(Free(r, s)),
                              [Free(r, s) EXCEPT !.valid = FALSE]}
    BY <1>3
  <2>2. /\ Free(r, s) \in Record /\ Free(r, s).state = s
        /\ Free(r, s).media = records[r].media /\ Free(r, s).epoch = records[r].epoch
        /\ Free(r, s).rev = records[r].rev /\ Free(r, s).asset = records[r].asset
        /\ Free(r, s).valid = records[r].valid /\ Free(r, s).ending = records[r].ending
        /\ Free(r, s).origin = records[r].origin
    BY <1>1, StateNames DEF Free, Record
  <2> DEFINE row == Free(r, s)
  <2>3. row \in Record /\ row.state = s /\ row.media = records[r].media
        /\ row.epoch = records[r].epoch /\ row.rev = records[r].rev
        /\ row.asset = records[r].asset /\ row.valid = records[r].valid
        /\ row.ending = records[r].ending /\ row.origin = records[r].origin
        /\ records'[r] \in {row, Counted(row), [row EXCEPT !.valid = FALSE]}
    BY <2>1, <2>2
  <2> HIDE DEF row
  <2>4. s # "complete" /\ s # Waiting
    BY <1>2
  <2>5. CASE records'[r] = row
    BY <2>3, <2>4, <2>5 DEF RowKept
  <2>6. CASE records'[r] = Counted(row)
    BY <2>3, <2>4, <2>6 DEF RowKept, Counted, Record
  <2>7. CASE records'[r] = [row EXCEPT !.valid = FALSE]
    BY <2>3, <2>4, <2>7 DEF RowKept, Record
  <2>8. QED
    BY <2>3, <2>5, <2>6, <2>7
<1>4. CASE records'[r] \in {[records[r] EXCEPT !.valid = FALSE],
                            [records[r] EXCEPT !.live = FALSE],
                            [records[r] EXCEPT !.state = "needs_recheck"],
                            [records[r] EXCEPT !.state = "complete",
                                               !.ending = "rejected"]}
  <2>1. Waiting # "needs_recheck" /\ Waiting # "complete"
    BY <1>2
  <2>2. CASE \/ records'[r] = [records[r] EXCEPT !.valid = FALSE]
             \/ records'[r] = [records[r] EXCEPT !.live = FALSE]
    BY <1>1, <2>2 DEF RowKept, Record
  <2>3. CASE records'[r] = [records[r] EXCEPT !.state = "needs_recheck"]
    BY <1>1, <2>1, <2>3 DEF RowKept, Record
  <2>4. CASE records'[r] = [records[r] EXCEPT !.state = "complete", !.ending = "rejected"]
    BY <1>1, <2>1, <2>4 DEF RowKept, Record
  <2>5. QED
    BY <1>4, <2>2, <2>3, <2>4
<1>5. CASE \E s \in Active : records'[r] = [records[r] EXCEPT !.state = s]
  <2>1. PICK s \in Active : records'[r] = [records[r] EXCEPT !.state = s]
    BY <1>5
  <2>2. s # "complete" /\ s # Waiting
    BY <1>2
  <2>3. QED
    BY <1>1, <2>1, <2>2 DEF RowKept, Record
<1>6. CASE \E s \in Active, f \in {"none", "accept", "reject"} :
               records'[r] = [records[r] EXCEPT !.state = s, !.first = f]
  <2>1. PICK s \in Active, f \in {"none", "accept", "reject"} :
               records'[r] = [records[r] EXCEPT !.state = s, !.first = f]
    BY <1>6
  <2>2. s # "complete" /\ s # Waiting
    BY <1>2
  <2>3. QED
    BY <1>1, <2>1, <2>2 DEF RowKept, Record
<1>7. CASE records'[r] = [records[r] EXCEPT !.state = "fixing_datetime",
                                            !.token = serial, !.live = TRUE]
  <2>1. Waiting # "fixing_datetime"
    BY DEF Waiting
  <2>2. QED
    BY <1>1, <1>7, <2>1 DEF RowKept, Record
<1>8. CASE records'[r] = records[r]
  BY <1>8 DEF RowKept
<1>9. QED
  BY <1>3, <1>4, <1>5, <1>6, <1>7, <1>8

\* The commonest ways.
LEMMA RowSame == ASSUME NEW r \in Ids, records'[r] = records[r] PROVE RowKept(r)
  BY DEF RowKept

\* The claim is given up.
LEMMA RowFreed ==
  ASSUME TypeOK, NEW r \in Ids, NEW s \in {"pending", "needs_recheck", "failed"},
         \/ records'[r] = Free(r, s)
         \/ records'[r] = Counted(Free(r, s))
         \/ records'[r] = [Free(r, s) EXCEPT !.valid = FALSE]
  PROVE  RowKept(r)
<1>1. \E q \in {"pending", "needs_recheck", "failed"} :
          records'[r] \in {Free(r, q), Counted(Free(r, q)),
                           [Free(r, q) EXCEPT !.valid = FALSE]}
  BY Zenon
<1>2. QED
  BY <1>1, RowMoved

\* A write to one row changes that row only.
LEMMA OneRowWritten ==
  ASSUME TypeOK, NEW k \in Ids, NEW row, records' = [records EXCEPT ![k] = row],
         NEW r \in Ids
  PROVE  records'[r] = IF r = k THEN row ELSE records[r]
  BY DEF TypeOK

\* What the reconciler makes of a row.
LEMMA SettledKept ==
  ASSUME TypeOK, NEW r \in Ids, NEW stale \in SUBSET Ids, records'[r] = Settled(r, stale)
  PROVE  RowKept(r)
<1> DEFINE row == IF records[r].state \in Active THEN Free(r, "needs_recheck")
                  ELSE records[r]
           ok  == /\ records[r].valid
                  /\ records[r].state # "complete" =>
                       /\ records[r].epoch = Epoch
                       /\ ~(records[r].media \notin basis /\ r \in stale)
<1>1. records[r] \in Record
  BY DEF TypeOK
<1>2. /\ row \in Record /\ row.media = records[r].media /\ row.epoch = records[r].epoch
      /\ row.rev = records[r].rev /\ row.asset = records[r].asset
      /\ row.ending = records[r].ending /\ row.origin = records[r].origin
      /\ row.state # records[r].state => row.state = "needs_recheck"
  <2>1. CASE records[r].state \in Active
    BY <1>1, <2>1, StateNames DEF Free, Record
  <2>2. CASE records[r].state \notin Active
    BY <1>1, <2>2
  <2>3. QED
    BY <2>1, <2>2
<1>3. ok \in BOOLEAN /\ (ok => records[r].valid)
  OBVIOUS
<1>4. records'[r] = [row EXCEPT !.valid = ok]
  BY DEF Settled
<1> HIDE DEF row, ok
<1>5. /\ records'[r].media = row.media /\ records'[r].epoch = row.epoch
      /\ records'[r].rev = row.rev /\ records'[r].asset = row.asset
      /\ records'[r].ending = row.ending /\ records'[r].state = row.state
      /\ records'[r].valid = ok /\ records'[r].origin = row.origin
  BY <1>2, <1>3, <1>4 DEF Record
<1>6. Waiting # "needs_recheck"
  BY DEF Waiting
<1>7. QED
  BY <1>2, <1>3, <1>5, <1>6 DEF RowKept

\* Requests, the outside world and a restart never touch more of a row.
LEMMA OuterRows ==
  ASSUME IInv, NEW r \in Ids,
         Requests \/ World \/ \E m \in Media : Recompute(m)
  PROVE  RowKept(r) \/ RowNew(r)
<1> USE DEF IInv
<1>1. ASSUME NEW m \in Media, CreatePair(m)
      PROVE  RowKept(r) \/ RowNew(r)
  <2>1. ASSUME NEW k \in Ids, Next1(k), records' = [records EXCEPT ![k] = NewRecord(m)]
        PROVE  RowKept(r) \/ RowNew(r)
    <3>1. CASE r = k
      <4>1. records'[r] = NewRecord(m)
        BY <2>1, <3>1 DEF TypeOK
      <4>2. /\ NewRecord(m).rev = 0 /\ NewRecord(m).asset = 0
            /\ NewRecord(m).state = "pending" /\ NewRecord(m).ending = "none"
            /\ NewRecord(m).origin = "unknown"
        BY DEF NewRecord, Absent
      <4>3. QED
        BY <2>1, <3>1, <4>1, <4>2 DEF RowNew, Next1
    <3>2. CASE r # k
      BY <2>1, <3>2, OneRowWritten, RowSame
    <3>3. QED
      BY <3>1, <3>2
  <2>2. ASSUME NEW k \in Existing(m), records' = [records EXCEPT ![k] = Free(k, "pending")]
        PROVE  RowKept(r)
    <3>1. k \in Ids
      BY <2>2 DEF Existing
    <3>2. records'[r] = IF r = k THEN Free(k, "pending") ELSE records[r]
      BY <2>2, <3>1, OneRowWritten
    <3>3. QED
      BY <3>2, RowSame, RowFreed
  <2>3. QED
    BY <1>1, <2>1, <2>2 DEF CreatePair
<1>2. ASSUME NEW m \in Media, ZoneOverride(m) \/ Recompute(m)
      PROVE  RowKept(r)
  <2>1. \/ records'[r] = records[r]
        \/ records'[r] = [records[r] EXCEPT !.state = "needs_recheck"]
    BY <1>2 DEF ZoneOverride, Recompute, Requeue
  <2>2. QED
    BY <2>1, RowMoved
<1>3. ASSUME NEW m \in Media, CreateGroup(m)
      PROVE  RowKept(r)
  BY <1>3, RowSame DEF CreateGroup
<1>4. ASSUME NEW m \in Media, EditGroup(m)
      PROVE  RowKept(r)
  <2>1. \/ records'[r] = records[r]
        \/ records'[r] = [records[r] EXCEPT !.valid = FALSE]
    BY <1>4 DEF EditGroup
  <2>2. QED
    BY <2>1, RowMoved
<1>5. ASSUME NEW k \in Ids, Retry(k) \/ RejectReads(k) \/ RejectSettles(k) \/ ClaimExpires(k)
      PROVE  RowKept(r)
  <2>1. CASE RejectReads(k)
    BY <2>1, RowSame DEF RejectReads
  <2>2. CASE Retry(k)
    <3>1. records'[r] = IF r = k THEN Free(k, "pending") ELSE records[r]
      BY <2>2, OneRowWritten DEF Retry
    <3>2. QED
      BY <3>1, RowSame, RowFreed
  <2>3. CASE RejectSettles(k)
    <3>1. \/ records' = records
          \/ records' = [records EXCEPT ![k] = [records[k] EXCEPT !.state = "complete",
                                                                  !.ending = "rejected"]]
      BY <2>3 DEF RejectSettles, TypeOK
    <3>2. \/ records'[r] = records[r]
          \/ records'[r] = [records[r] EXCEPT !.state = "complete", !.ending = "rejected"]
      <4>1. \/ records' = records
            \/ records'[r] = IF r = k THEN [records[k] EXCEPT !.state = "complete",
                                                             !.ending = "rejected"]
                             ELSE records[r]
        BY <3>1, OneRowWritten
      <4>2. QED
        BY <4>1
    <3>3. QED
      BY <3>2, RowMoved
  <2>4. CASE ClaimExpires(k)
    <3>1. records' = [records EXCEPT ![k] = [records[k] EXCEPT !.live = FALSE]]
      BY <2>4 DEF ClaimExpires, TypeOK
    <3>2. \/ records'[r] = records[r]
          \/ records'[r] = [records[r] EXCEPT !.live = FALSE]
      <4>1. records'[r] = IF r = k THEN [records[k] EXCEPT !.live = FALSE] ELSE records[r]
        BY <3>1, OneRowWritten
      <4>2. QED
        BY <4>1
    <3>3. QED
      BY <3>2, RowMoved
  <2>5. QED
    BY <1>5, <2>1, <2>2, <2>3, <2>4
<1>6. ASSUME NEW u \in Urls, NEW same \in BOOLEAN, EditDestination(u, same)
      PROVE  RowKept(r)
  <2>1. \/ records'[r] = records[r]
        \/ records'[r] = [records[r] EXCEPT !.valid = FALSE]
    BY <1>6 DEF EditDestination
  <2>2. QED
    BY <2>1, RowMoved
<1>7. ASSUME Purge \/ Toggle \/ Cancel \/ LeaseExpires
      PROVE  RowKept(r)
  BY <1>7, RowSame DEF Purge, Toggle, Cancel, LeaseExpires
<1>8. ASSUME NEW l \in Libraries, NEW m \in Media, OtherUploads(l, m) \/ OtherDeletes(l, m)
      PROVE  RowKept(r)
  BY <1>8, RowSame DEF OtherUploads, OtherDeletes
<1>9. ASSUME NEW u \in Urls, Swap(u)
      PROVE  RowKept(r)
  BY <1>9, RowSame DEF Swap
<1>10. ASSUME Restart
       PROVE  RowKept(r)
  <2>1. CASE records' = records
    BY <2>1, RowSame
  <2>2. ASSUME NEW stale \in SUBSET Ids, records' = [k \in Ids |-> Settled(k, stale)]
        PROVE  RowKept(r)
    <3>1. records'[r] = Settled(r, stale)
      BY <2>2
    <3>2. QED
      BY <3>1, SettledKept
  <2>3. QED
    BY <1>10, <2>1, <2>2 DEF Restart
<1>11. QED
  BY <1>1, <1>2, <1>3, <1>4, <1>5, <1>6, <1>7, <1>8, <1>9, <1>10
     DEF Requests, World

\* Only these steps of the worker write more than that.
LEMMA WorkerRows ==
  ASSUME IInv, NEW r \in Ids, Starts \/ Working \/ UNCHANGED vars
  PROVE  \/ RowKept(r)
         \/ Claim(r)
         \/ RecheckStamps
         \/ /\ r = job.mine
            /\ \/ AssetKnown \/ FinishPlain \/ FinishObserved \/ FinishWritten
               \/ Release /\ job.kind = "approve"
<1> USE DEF IInv
<1>1. ASSUME records' = records
      PROVE  RowKept(r)
  BY <1>1, RowSame
<1>2. ASSUME NEW m \in Media, Recompute(m)
      PROVE  RowKept(r)
  <2>1. \/ records'[r] = records[r]
        \/ records'[r] = [records[r] EXCEPT !.state = "needs_recheck"]
    BY <1>2 DEF Recompute, Requeue
  <2>2. QED
    BY <2>1, RowMoved
<1>3. ASSUME StartSend \/ StartRecheck \/ \E k \in Ids : StartApprove(k)
      PROVE  RowKept(r)
  BY <1>1, <1>3 DEF StartSend, StartRecheck, StartApprove, Begin, Worker
<1>4. ASSUME \/ Head \/ ClaimNothing \/ CheckClaimed \/ AskCheck \/ SendBytes
             \/ FileUnreadable \/ FindTag \/ CreateTag \/ TagAssets
             \/ Observe \/ AskDate
      PROVE  RowKept(r)
  BY <1>1, <1>4 DEF Head, ClaimNothing, CheckClaimed, AskCheck, SendBytes, FileUnreadable,
                    FindTag, CreateTag, TagAssets, Observe, AskDate, Still, Worker
<1>5. ASSUME NEW k \in Ids, Claim(k), k # r
      PROVE  RowKept(r)
  <2>1. records'[r] = records[r]
    BY <1>5 DEF Claim, TypeOK
  <2>2. QED
    BY <2>1, RowSame
<1>6. ASSUME Refuse
      PROVE  RowKept(r)
  <2>1. job.pc \in HandPCs /\ job.kind # "recheck"
    BY <1>6, WhoIsWhere DEF Refuse, HandPCs, SendPCs
  <2>2. job.mine \in Ids
    BY <2>1, HandRow
  <2>3. records'[r] = IF r = job.mine THEN [Free(job.mine, "pending") EXCEPT !.valid = FALSE]
                      ELSE records[r]
    BY <1>6, <2>2 DEF Refuse, TypeOK
  <2>4. QED
    BY <2>3, RowSame, RowFreed
<1>7. ASSUME Fails \/ Retries
      PROVE  RowKept(r)
  <2>1. job.pc \in HandPCs /\ job.kind # "recheck"
    BY <1>7, WhoIsWhere DEF Fails, Retries, HandPCs, SendPCs
  <2>2. job.mine \in Ids
    BY <2>1, HandRow
  <2>3. \/ records' = records
        \/ \E s \in {"pending", "failed"} :
              records' = [records EXCEPT ![job.mine] = Counted(Free(job.mine, s))]
    BY <1>7 DEF Fails, Retries
  <2>4. \/ records'[r] = records[r]
        \/ r = job.mine /\ \E s \in {"pending", "failed"} :
              records'[r] = Counted(Free(job.mine, s))
    BY <2>2, <2>3 DEF TypeOK
  <2>5. QED
    BY <2>4, RowSame, RowFreed
<1>8. ASSUME BeginUploading \/ BeginTagging \/ BeginFixing, r # job.mine
      PROVE  RowKept(r)
  <2>1. job.pc \in HandPCs /\ job.kind # "recheck"
    BY <1>8, CommitHand DEF BeginUploading, BeginTagging, BeginFixing
  <2>2. job.mine \in Ids
    BY <2>1, HandRow
  <2>3. r # job.mine => records'[r] = records[r]
    BY <1>8, <2>2 DEF BeginUploading, BeginTagging, BeginFixing, Goes, TypeOK
  <2>4. QED
    BY <1>8, <2>3, RowSame
<1>9. ASSUME BeginUploading \/ BeginTagging \/ BeginFixing, r = job.mine
      PROVE  RowKept(r)
  <2>1. {"uploading", "tagging", "fixing_datetime"} \subseteq Active
    BY DEF Active
  <2>2. First \in {"none", "accept", "reject"} \/ ~BeginUploading
    BY <1>9, MineType, RowType DEF First, BeginUploading, Mine, TypeOK
  <2>3. \/ \E s \in Active : records'[r] = [records[r] EXCEPT !.state = s]
        \/ \E s \in Active, f \in {"none", "accept", "reject"} :
               records'[r] = [records[r] EXCEPT !.state = s, !.first = f]
    <3>1. CASE BeginUploading
      <4>1. records'[r] = [records[r] EXCEPT !.state = "uploading", !.first = First]
        BY <1>9, <3>1 DEF BeginUploading, Goes, Mine, TypeOK
      <4>2. QED
        BY <2>1, <2>2, <3>1, <4>1
    <3>2. CASE BeginTagging \/ BeginFixing
      <4>1. \/ records'[r] = [records[r] EXCEPT !.state = "tagging"]
            \/ records'[r] = [records[r] EXCEPT !.state = "fixing_datetime"]
        BY <1>9, <3>2 DEF BeginTagging, BeginFixing, Goes, Mine, TypeOK
      <4>2. QED
        BY <2>1, <4>1
    <3>3. QED
      BY <1>9, <3>1, <3>2
  <2>4. QED
    BY <2>3, RowMoved
<1>10. ASSUME AssetKnown \/ FinishPlain \/ FinishObserved \/ FinishWritten, r # job.mine
       PROVE  RowKept(r)
  <2>1. job.pc \in HandPCs /\ job.kind # "recheck"
    BY <1>10, CommitHand DEF AssetKnown, FinishPlain, FinishObserved, FinishWritten
  <2>2. job.mine \in Ids
    BY <2>1, HandRow
  <2>3. records'[r] = records[r]
    BY <1>10, <2>2
       DEF AssetKnown, FinishPlain, FinishObserved, FinishWritten, Goes, Ends, TypeOK
  <2>4. QED
    BY <2>3, RowSame
<1>11. ASSUME Release, ~(r = job.mine /\ job.kind = "approve")
       PROVE  RowKept(r)
  <2>1. job.pc \in HandPCs /\ job.kind # "recheck"
    BY <1>11, WhoIsWhere DEF Release, HandPCs, SendPCs
  <2>2. job.mine \in Ids
    BY <2>1, HandRow
  <2>3. \/ records'[r] = records[r]
        \/ \E s \in {"needs_recheck", "pending"} : r = job.mine /\ records'[r] = Free(r, s)
    BY <1>11, <2>2 DEF Release, TypeOK
  <2>4. QED
    BY <2>3, RowSame, RowFreed
<1>12. ASSUME CommitFails \/ Prepare \/ Preflight \/ PreflightFails \/ Reassure \/ Lost
              \/ PutDate
       PROVE  RowKept(r)
  <2>1. CASE CommitFails \/ Prepare \/ Preflight \/ Reassure
    BY <1>1, <2>1 DEF CommitFails, Prepare, Preflight, Reassure, Still, Worker
  <2>2. CASE PreflightFails \/ Lost \/ PutDate
    BY <1>1, <2>2 DEF PreflightFails, Lost, PutDate, Worker
  <2>3. QED
    BY <1>12, <2>1, <2>2
<1>13. ASSUME Approves
       PROVE  RowKept(r)
  <2>1. CASE records' = records
    BY <1>1, <2>1
  <2>2. CASE ApproveClaims /\ records' # records
    <3>1. job.mine \in Ids
      BY <2>2, WhoIsWhere, MineType DEF ApproveClaims, InHand
    <3>2. \/ records'[r] = records[r]
          \/ records'[r] = [records[r] EXCEPT !.state = "fixing_datetime",
                                              !.token = serial, !.live = TRUE]
      BY <2>2, <3>1 DEF ApproveClaims, Goes, Mine, TypeOK
    <3>3. QED
      BY <3>2, RowSame, RowMoved
  <2>3. QED
    BY <1>13, <2>1, <2>2 DEF Approves, ApproveReads, ApproveReadsDate, Still, Worker
<1>14. ASSUME RecheckStarts \/ RecheckLists \/ RecheckCompares \/ UNCHANGED vars
       PROVE  RowKept(r)
  <2>1. Still \/ UNCHANGED vars
    BY <1>14, Zenon DEF RecheckStarts, RecheckLists, RecheckCompares
  <2>2. CASE Still
    BY <1>1, <2>2 DEF Still, Worker
  <2>3. CASE UNCHANGED vars
    BY <1>1, <2>3
  <2>4. QED
    BY <2>1, <2>2, <2>3
<1>15. CASE Starts \/ UNCHANGED vars
  BY <1>2, <1>3, <1>14, <1>15 DEF Starts
<1>16. CASE Sends
  BY <1>4, <1>5, <1>6, <1>7, <1>8, <1>9, <1>10, <1>16 DEF Sends
<1>17. CASE Approves \/ Rechecks
  BY <1>13, <1>14, <1>17 DEF Rechecks
<1>18. CASE Shared
  BY <1>10, <1>11, <1>12, <1>18 DEF Shared
<1>19. QED
  BY <1>15, <1>16, <1>17, <1>18 DEF Working

\* What a step of the world's does is one of two kinds.
LEMMA StepKinds ==
  ASSUME [Next]_vars
  PROVE  \/ Requests \/ World \/ \E m \in Media : Recompute(m)
         \/ StartSend \/ StartRecheck \/ \E r \in Ids : StartApprove(r)
         \/ Working \/ UNCHANGED vars
  BY DEF Next, Starts

\* The asset that is known now.
LEMMA KnownRow ==
  ASSUME IInv, AssetKnown
  PROVE  /\ job.mine \in Ids
         /\ records'[job.mine].media = Mine.media /\ records'[job.mine].epoch = Mine.epoch
         /\ records'[job.mine].rev = Mine.rev /\ records'[job.mine].valid = Mine.valid
         /\ records'[job.mine].asset = job.asset
         /\ records'[job.mine].state = "asset_known"
         /\ records'[job.mine].ending = Mine.ending
         /\ records'[job.mine].origin = OriginNow
<1>1. job.mine \in Ids /\ Mine \in Record
  BY CommitHand DEF AssetKnown
<1>2. records'[job.mine] = [Mine EXCEPT !.state = "asset_known", !.first = First,
                              !.asset = job.asset, !.origin = OriginNow]
  BY <1>1 DEF AssetKnown, Goes, IInv, TypeOK
<1>3. PICK f, o : records'[job.mine] = [Mine EXCEPT !.state = "asset_known", !.first = f,
                              !.asset = job.asset, !.origin = o]
              /\ o = OriginNow
  BY <1>2
<1>4. QED
  BY <1>1, <1>3 DEF Record

\* The row that is finished, in one of the three ways.
LEMMA FinishedRow ==
  ASSUME IInv, FinishPlain \/ FinishObserved \/ FinishWritten
  PROVE  /\ job.mine \in Ids
         /\ records'[job.mine].media = Mine.media /\ records'[job.mine].epoch = Mine.epoch
         /\ records'[job.mine].rev = Mine.rev /\ records'[job.mine].valid = Mine.valid
         /\ records'[job.mine].asset = Mine.asset
         /\ records'[job.mine].origin = Mine.origin
         /\ records'[job.mine].ending = "written" => FinishWritten
         /\ records'[job.mine].state = Waiting => FinishObserved
<1>1. job.mine # 0 /\ job.mine \in Ids /\ Mine \in Record
  BY CommitHand DEF FinishPlain, FinishObserved, FinishWritten
<1>2. PICK s \in {"complete", Waiting}, e \in {"none", "plain", "same", "written"} :
        /\ Ends(s, e)
        /\ e = "written" => FinishWritten
        /\ s = Waiting => FinishObserved
  <2>1. Waiting # "complete"
    BY DEF Waiting
  <2>2. CASE FinishPlain
    BY <2>1, <2>2 DEF FinishPlain
  <2>3. CASE FinishObserved
    BY <2>1, <2>3 DEF FinishObserved
  <2>4. CASE FinishWritten
    BY <2>1, <2>4 DEF FinishWritten
  <2>5. QED
    BY <2>2, <2>3, <2>4
<1>3. s \in States
  BY RestingStates
<1>4. Free(job.mine, s).asset = Mine.asset /\ Free(job.mine, s).origin = Mine.origin
  BY <1>1 DEF Free, Mine, Record
<1>5. /\ Free(job.mine, s) \in Record /\ Free(job.mine, s).state = s
      /\ Free(job.mine, s).media = Mine.media /\ Free(job.mine, s).epoch = Mine.epoch
      /\ Free(job.mine, s).valid = Mine.valid /\ Free(job.mine, s).rev = Mine.rev
  BY <1>1, <1>3, FreeRow
<1> DEFINE row == Free(job.mine, s)
<1>6. records'[job.mine] = [row EXCEPT !.ending = e]
  BY <1>1, <1>2 DEF Ends, IInv, TypeOK
<1>7. row \in Record /\ row.state = s /\ row.media = Mine.media /\ row.epoch = Mine.epoch
      /\ row.valid = Mine.valid /\ row.rev = Mine.rev /\ row.asset = Mine.asset
      /\ row.origin = Mine.origin
  BY <1>4, <1>5
<1> HIDE DEF row
<1>8. QED
  BY <1>1, <1>2, <1>6, <1>7 DEF Record

\* The row that a job gives back.
LEMMA ReleasedRow ==
  ASSUME IInv, Release
  PROVE  /\ job.mine \in Ids
         /\ records'[job.mine].media = Mine.media /\ records'[job.mine].epoch = Mine.epoch
         /\ records'[job.mine].rev = Mine.rev /\ records'[job.mine].valid = Mine.valid
         /\ records'[job.mine].asset = Mine.asset
         /\ records'[job.mine].ending = Mine.ending
         /\ records'[job.mine].origin = Mine.origin
         /\ records'[job.mine].state # "complete"
<1>1. job.pc \in HandPCs /\ job.kind # "recheck"
  BY WhoIsWhere DEF Release, HandPCs, SendPCs, IInv
<1>2. job.mine # 0 /\ job.mine \in Ids /\ Mine \in Record
  BY <1>1, HandRow
<1>3. PICK s \in {Waiting, "needs_recheck", "pending"} :
        records' = [records EXCEPT ![job.mine] = Free(job.mine, s)]
  BY DEF Release
<1>4. s \in States /\ s # "complete"
  BY <1>3, RestingStates DEF Waiting
<1>5. records'[job.mine] = Free(job.mine, s)
  BY <1>2, <1>3 DEF IInv, TypeOK
<1>6. /\ Free(job.mine, s).asset = Mine.asset /\ Free(job.mine, s).ending = Mine.ending
      /\ Free(job.mine, s).origin = Mine.origin
  BY <1>2 DEF Free, Mine, Record
<1>7. QED
  BY <1>2, <1>4, <1>5, <1>6, FreeRow

\* The row that is claimed.
LEMMA ClaimedRow ==
  ASSUME IInv, NEW r \in Ids, Claim(r)
  PROVE  /\ records'[r].media = records[r].media /\ records'[r].epoch = records[r].epoch
         /\ records'[r].rev = current /\ records'[r].valid = records[r].valid
         /\ records'[r].asset = records[r].asset /\ records'[r].ending = records[r].ending
         /\ records'[r].state = "checking" /\ records'[r].origin = records[r].origin
         /\ \A k \in Ids : k # r => records'[k] = records[k]
<1>1. records[r] \in Record /\ records \in [Ids -> Record]
  BY DEF IInv, TypeOK
<1>2. records'[r] = [records[r] EXCEPT !.state = "checking", !.token = serial, !.live = TRUE,
                                       !.rev = current]
  BY <1>1 DEF Claim
<1>3. \A k \in Ids : k # r => records'[k] = records[k]
  BY <1>1 DEF Claim
<1>4. QED
  BY <1>1, <1>2, <1>3 DEF Record

\* What a recheck stamps on a row, of an entry of its own list.
LEMMA StampedRow ==
  ASSUME IInv, RecheckStamps, NEW r \in Ids
  PROVE  /\ records'[r].media = records[r].media /\ records'[r].epoch = records[r].epoch
         /\ records'[r].rev = records[r].rev /\ records'[r].state = records[r].state
         /\ records'[r].origin = records[r].origin
         /\ records'[r].valid => records[r].valid
         /\ \/ records'[r] = records[r]
            \/ \E x \in job.seen :
                 /\ records'[r].asset = x.has
                 /\ SeenFits => \/ records'[r].ending = "none"
                                \/ /\ records'[r].asset = records[r].asset
                                   /\ records'[r].ending = records[r].ending
<1> USE DEF IInv
<1>1. records[r] \in Record
  BY DEF TypeOK
<1>2. CASE Leased /\ \E x \in job.seen : /\ x.row = r
                                         /\ records[r].state = "complete"
                                         /\ records[r].asset = x.had
  <2> DEFINE x == CHOOSE x \in job.seen : x.row = r
  <2>1. x \in job.seen /\ x.has \in Nat
    BY <1>2, JobType
  <2>2. records'[r] = [records[r] EXCEPT !.asset = x.has, !.valid = @ /\ x.has # 0,
                          !.ending = IF x.has = x.had THEN @ ELSE "none"]
    BY <1>2 DEF RecheckStamps
  <2>3. SeenFits /\ x.has = x.had => x.has = records[r].asset
    <3>1. PICK y \in job.seen : y.row = r /\ records[r].asset = y.had
      BY <1>2
    <3>2. x \in job.seen /\ x.row = r
      BY <3>1
    <3> HIDE DEF x
    <3>3. SeenFits => x = y
      BY <3>1, <3>2 DEF SeenFits
    <3>4. QED
      BY <3>1, <3>3
  <2> HIDE DEF x
  <2>4. QED
    BY <1>1, <2>1, <2>2, <2>3 DEF Record
<1>3. CASE ~(Leased /\ \E x \in job.seen : /\ x.row = r
                                           /\ records[r].state = "complete"
                                           /\ records[r].asset = x.had)
  BY <1>3 DEF RecheckStamps
<1>4. QED
  BY <1>2, <1>3

\* A step moves a row, or is one of those that write more of it.
LEMMA RowSteps ==
  ASSUME IInv, [Next]_vars, NEW r \in Ids
  PROVE  \/ RowKept(r) \/ RowNew(r) \/ Claim(r) \/ RecheckStamps
         \/ r = job.mine /\ (AssetKnown \/ FinishPlain \/ FinishObserved \/ FinishWritten
                             \/ (Release /\ job.kind = "approve"))
<1>1. CASE Requests \/ World \/ \E m \in Media : Recompute(m)
  BY <1>1, OuterRows
<1>2. CASE \/ StartSend \/ StartRecheck \/ \E k \in Ids : StartApprove(k)
           \/ Working \/ UNCHANGED vars
  <2>1. Starts \/ Working \/ UNCHANGED vars
    BY <1>2, Zenon DEF Starts
  <2>2. QED
    BY <2>1, WorkerRows
<1>3. QED
  BY <1>1, <1>2, StepKinds

\* Whose row it is, and the revision it was sent with, stay as they are.
LEMMA IdentityKept ==
  ASSUME IInv, [Next]_vars, NEW r \in Ids
  PROVE  \/ RowNew(r)
         \/ Claim(r)
         \/ /\ records'[r].media = records[r].media
            /\ records'[r].epoch = records[r].epoch
            /\ records'[r].rev = records[r].rev
<1>1. CASE RowKept(r)
  BY <1>1 DEF RowKept
<1>2. CASE RecheckStamps
  BY <1>2, StampedRow
<1>3. CASE r = job.mine /\ (AssetKnown \/ FinishPlain \/ FinishObserved \/ FinishWritten
                            \/ Release)
  BY <1>3, KnownRow, FinishedRow, ReleasedRow DEF Mine
<1>4. QED
  BY <1>1, <1>2, <1>3, RowSteps

-----------------------------------------------------------------------------
(* The right library: every step keeps it                                  *)

\* Only an edit adds a revision, the next one, and no revision ever changes.
LEMMA RevisionsGrow ==
  ASSUME IInv, [Next]_vars
  PROVE  \/ UNCHANGED <<revisions, current>>
         \/ /\ \E u \in Urls, same \in BOOLEAN : EditDestination(u, same)
            /\ current' = current + 1
            /\ \A v \in 1..current : revisions'[v] = revisions[v]
<1>1. ASSUME NEW u \in Urls, NEW same \in BOOLEAN, EditDestination(u, same)
      PROVE  current' = current + 1 /\ \A v \in 1..current : revisions'[v] = revisions[v]
  BY <1>1 DEF EditDestination, IInv, TypeOK
<1>2. CASE Requests
  <2>1. CASE \E m \in Media : \/ CreatePair(m) \/ ZoneOverride(m) \/ CreateGroup(m)
                              \/ EditGroup(m)
    BY <2>1 DEF CreatePair, ZoneOverride, CreateGroup, EditGroup
  <2>2. CASE \E r \in Ids : Retry(r) \/ RejectReads(r) \/ RejectSettles(r)
    BY <2>2 DEF Retry, RejectReads, RejectSettles
  <2>3. CASE Purge \/ Toggle \/ Cancel
    BY <2>3 DEF Purge, Toggle, Cancel
  <2>4. QED
    BY <1>1, <1>2, <2>1, <2>2, <2>3 DEF Requests
<1>3. CASE World \/ \E m \in Media : Recompute(m)
  <2>1. CASE \E l \in Libraries, m \in Media : OtherUploads(l, m) \/ OtherDeletes(l, m)
    BY <2>1 DEF OtherUploads, OtherDeletes
  <2>2. CASE (\E u \in Urls : Swap(u)) \/ LeaseExpires \/ Restart
    BY <2>2 DEF Swap, LeaseExpires, Restart
  <2>3. CASE (\E r \in Ids : ClaimExpires(r)) \/ \E m \in Media : Recompute(m)
    BY <2>3 DEF ClaimExpires, Recompute
  <2>4. QED
    BY <1>3, <2>1, <2>2, <2>3 DEF World
<1>4. CASE StartSend \/ StartRecheck \/ \E r \in Ids : StartApprove(r)
  BY <1>4 DEF StartSend, StartRecheck, StartApprove, Begin, Worker
<1>5. CASE Working
  BY <1>5, WorkerKeeps DEF Worker
<1>6. QED
  BY <1>2, <1>3, <1>4, <1>5, StepKinds

\* The rows' half.
LEMMA RevisionsFitSafe ==
  ASSUME IInv, RevisionsFit, [Next]_vars
  PROVE  RevisionsFit'
<1> SUFFICES ASSUME NEW r \in Ids, records'[r].rev # 0
             PROVE  /\ records'[r].rev <= current'
                    /\ revisions'[records'[r].rev].epoch = records'[r].epoch
  BY DEF RevisionsFit
<1>1. records[r] \in Record /\ records[r].rev \in Nat /\ current \in 1..MaxRevisions
  BY RowType DEF IInv, TypeOK
<1>2. CASE Claim(r)
  <2>1. UNCHANGED <<revisions, current>>
    BY <1>2 DEF Claim, Worker
  <2>2. records[r].epoch = revisions[current].epoch
    BY <1>2 DEF Claim, CanClaim, Epoch
  <2>3. QED
    BY <1>1, <1>2, <2>1, <2>2, ClaimedRow, UploadsAssumption
<1>3. CASE records'[r].epoch = records[r].epoch /\ records'[r].rev = records[r].rev
  <2>1. records[r].rev <= current /\ revisions[records[r].rev].epoch = records[r].epoch
    BY <1>3 DEF RevisionsFit
  <2>2. QED
    BY <1>1, <1>3, <2>1, RevisionsGrow, UploadsAssumption
<1>4. QED
  BY <1>2, <1>3, IdentityKept DEF RowNew

\* What the job keeps while others act.
JobStays == /\ SameHand
            /\ job'.verified = job.verified
            /\ job'.date = job.date /\ job'.asset = job.asset
            /\ job'.swapped = job.swapped \/ job'.swapped
            /\ job'.late = job.late \/ job'.late

\* A flag is all that others set.
LEMMA FlagStays ==
  ASSUME TypeOK,
         \/ job' = job
         \/ job' = [job EXCEPT !.late = TRUE]
         \/ job' = [job EXCEPT !.swapped = TRUE]
         \/ job' = [job EXCEPT !.lease = FALSE]
         \/ job' = [job EXCEPT !.cancelled = TRUE]
  PROVE  JobStays
<1> USE DEF TypeOK, Job, JobStays, SameHand
<1>1. CASE job' = job
  BY <1>1
<1>2. CASE job' = [job EXCEPT !.late = TRUE]
  BY <1>2
<1>3. CASE job' = [job EXCEPT !.swapped = TRUE]
  BY <1>3
<1>4. CASE job' = [job EXCEPT !.lease = FALSE]
  BY <1>4
<1>5. CASE job' = [job EXCEPT !.cancelled = TRUE]
  BY <1>5
<1>6. QED
  BY <1>1, <1>2, <1>3, <1>4, <1>5

\* The job while others act; a swap is the only step that changes a library
\* behind a url, and a job that runs knows of it.
LEMMA OuterJob ==
  ASSUME IInv, ~Restart,
         Requests \/ World \/ (\E m \in Media : Recompute(m)) \/ UNCHANGED vars
  PROVE  /\ JobStays
         /\ behind' = behind \/ job.kind = "none" \/ job'.swapped
<1> USE DEF IInv
<1>1. ASSUME job' = job, behind' = behind
      PROVE  /\ JobStays
             /\ behind' = behind \/ job.kind = "none" \/ job'.swapped
  BY <1>1, FlagStays
<1>2. ASSUME \/ \E m \in Media : CreatePair(m) \/ ZoneOverride(m) \/ EditGroup(m)
             \/ \E r \in Ids : Retry(r) \/ RejectReads(r) \/ RejectSettles(r)
             \/ Purge
      PROVE  job' = job /\ behind' = behind
  BY <1>2 DEF CreatePair, ZoneOverride, EditGroup, Retry, RejectReads, RejectSettles, Purge
<1>3. ASSUME \/ \E m \in Media : CreateGroup(m)
             \/ \E u \in Urls, same \in BOOLEAN : EditDestination(u, same)
             \/ Toggle
      PROVE  /\ job' = job \/ job' = [job EXCEPT !.late = TRUE]
             /\ behind' = behind
  BY <1>3 DEF CreateGroup, EditDestination, Toggle, Spoil
<1>4. ASSUME Cancel \/ LeaseExpires
      PROVE  /\ \/ job' = [job EXCEPT !.lease = FALSE]
                \/ job' = [job EXCEPT !.cancelled = TRUE]
             /\ behind' = behind
  BY <1>4 DEF Cancel, LeaseExpires
<1>5. ASSUME \/ \E l \in Libraries, m \in Media : OtherUploads(l, m) \/ OtherDeletes(l, m)
             \/ \E r \in Ids : ClaimExpires(r)
             \/ \E m \in Media : Recompute(m)
             \/ UNCHANGED vars
      PROVE  job' = job /\ behind' = behind
  <2>1. CASE \E l \in Libraries, m \in Media : OtherUploads(l, m) \/ OtherDeletes(l, m)
    BY <2>1 DEF OtherUploads, OtherDeletes
  <2>2. CASE (\E r \in Ids : ClaimExpires(r)) \/ \E m \in Media : Recompute(m)
    BY <2>2 DEF ClaimExpires, Recompute
  <2>3. CASE UNCHANGED vars
    BY <2>3
  <2>4. QED
    BY <1>5, <2>1, <2>2, <2>3
<1>6. ASSUME NEW u \in Urls, Swap(u)
      PROVE  /\ job' = job \/ job' = [job EXCEPT !.swapped = TRUE]
             /\ job.kind = "none" \/ job'.swapped
  BY <1>6 DEF Swap, TypeOK, Job
<1>7. CASE Requests
  BY <1>1, <1>2, <1>3, <1>4, <1>7, FlagStays DEF Requests
<1>8. CASE World
  BY <1>1, <1>4, <1>5, <1>6, <1>8, FlagStays DEF World
<1>9. QED
  BY <1>1, <1>5, <1>7, <1>8

\* The rest of a job that has not asked yet.
LEMMA VerifiedBlank ==
  ASSUME IInv, IInv', job'.rev = 0, job'.verified = {}, job'.pc \notin {"reassure", "request"}
  PROVE  VerifiedFits'
<1>1. current' \in 1..MaxRevisions
  BY DEF IInv, TypeOK
<1>2. QED
  BY <1>1, UploadsAssumption DEF VerifiedFits

\* What was verified is of now, or of a revision the job has left: the next one
\* it takes is new, or the one it was at.
LEMMA VerifiedKept ==
  ASSUME IInv, IInv', VerifiedFits,
         UNCHANGED <<revisions, current, behind>>,
         job'.verified = job.verified, job'.swapped = job.swapped,
         job'.rev \in {job.rev, 0, current}, job'.kind = job.kind,
         job'.pc \notin {"asked", "reassure", "request"}
  PROVE  VerifiedFits'
<1>1. /\ current \in 1..MaxRevisions /\ current' = current /\ job.rev \in Nat
      /\ job'.rev \in Nat
  BY JobType DEF IInv, TypeOK
<1>2. job'.rev <= current
  BY <1>1, UploadsAssumption DEF VerifiedFits
<1>3. /\ AtRevision \in Nat /\ AtRevision' \in Nat /\ AtRevision <= current
      /\ AtRevision' \in {AtRevision, current}
  BY <1>1, UploadsAssumption DEF AtRevision, VerifiedFits
<1>4. job.verified \subseteq 1..AtRevision'
  BY <1>1, <1>3, UploadsAssumption DEF VerifiedFits
<1>5. AtRevision' \in job.verified => AtRevision' = AtRevision
  BY <1>1, <1>3, UploadsAssumption DEF VerifiedFits
<1>6. Right(AtRevision)' <=> Right(AtRevision')
  BY DEF Right
<1>7. (AtRevision' \in job'.verified /\ ~job'.swapped) => Right(AtRevision)'
  BY <1>5, <1>6 DEF VerifiedFits
<1>8. QED
  BY <1>1, <1>2, <1>4, <1>7 DEF VerifiedFits

\* Others leave the job's revision alone, and those before a new one.
LEMMA VerifiedAside ==
  ASSUME IInv, IInv', VerifiedFits, [Next]_vars, JobStays,
         behind' = behind \/ job.kind = "none" \/ job'.swapped
  PROVE  VerifiedFits'
<1>1. /\ current \in 1..MaxRevisions /\ current' \in Nat /\ job.rev \in Nat
      /\ current' \in {current, current + 1}
      /\ \A v \in 1..current : revisions'[v] = revisions[v]
  BY JobType, RevisionsGrow DEF IInv, TypeOK
<1>2. /\ job'.rev = job.rev /\ job'.kind = job.kind /\ job'.pc = job.pc
      /\ job'.verified = job.verified /\ (job'.swapped = job.swapped \/ job'.swapped)
  BY DEF JobStays, SameHand
<1>3. job'.rev <= current'
  BY <1>1, <1>2, UploadsAssumption DEF VerifiedFits
<1>4. /\ AtRevision \in 1..current /\ AtRevision' \in Nat
      /\ AtRevision' = AtRevision \/ (AtRevision' = current + 1)
  BY <1>1, <1>2, UploadsAssumption DEF AtRevision, VerifiedFits
<1>5. job.verified \subseteq 1..AtRevision' /\ (AtRevision' \in job.verified => AtRevision' = AtRevision)
  BY <1>1, <1>4, UploadsAssumption DEF VerifiedFits
<1>6. ASSUME AtRevision' \in job'.verified, ~job'.swapped
      PROVE  Right(AtRevision)'
  <2>1. AtRevision' = AtRevision /\ revisions'[AtRevision] = revisions[AtRevision]
    BY <1>1, <1>2, <1>4, <1>5, <1>6
  <2>2. job.kind # "none"
    BY <1>2, <1>6 DEF VerifiedFits
  <2>3. behind' = behind /\ ~job.swapped
    BY <1>2, <1>6, <2>2
  <2>4. Right(AtRevision)
    BY <1>2, <1>6, <2>1, <2>3 DEF VerifiedFits
  <2>5. QED
    BY <2>1, <2>3, <2>4 DEF Right
<1>7. QED
  BY <1>2, <1>3, <1>5, <1>6 DEF VerifiedFits

\* The worker asks the server; it does not move it.
LEMMA WorkerKeepsUrls ==
  ASSUME Working
  PROVE  behind' = behind
<1>1. CASE Still \/ Steps
  BY <1>1 DEF Still, Steps, Worker
<1>2. CASE (\E r \in Ids : Claim(r)) \/ Refuse \/ AskCheck \/ SendBytes \/ FileUnreadable
  BY <1>2 DEF Claim, Refuse, AskCheck, SendBytes, FileUnreadable, Worker
<1>3. CASE PreflightFails \/ Lost \/ PutDate
  BY <1>3 DEF PreflightFails, Lost, PutDate, Worker
<1>4. CASE Sends
  BY <1>1, <1>2, <1>4, Zenon
     DEF Sends, Head, ClaimNothing, CheckClaimed, FindTag, CreateTag, TagAssets, Observe,
         BeginUploading, AssetKnown, BeginTagging, FinishPlain, BeginFixing, AskDate,
         FinishObserved, Fails, Retries
<1>5. CASE Approves \/ Rechecks
  BY <1>1, <1>5, Zenon
     DEF Approves, Rechecks, ApproveReads, ApproveClaims, ApproveReadsDate, RecheckStarts,
         RecheckLists, RecheckCompares, RecheckStamps
<1>6. CASE Shared
  BY <1>1, <1>3, <1>6, Zenon
     DEF Shared, Prepare, Preflight, Reassure, FinishWritten, CommitFails, Release
<1>7. QED
  BY <1>4, <1>5, <1>6 DEF Working

\* The job's half.
LEMMA VerifiedFitsSafe ==
  ASSUME IInv, IInv', TargetsFit, [Next]_vars
  PROVE  VerifiedFits'
<1> USE DEF TargetsFit
<1>1. job \in Job /\ job.rev \in Nat /\ current \in 1..MaxRevisions
  BY JobType DEF IInv, TypeOK
<1>2. /\ NoJob.rev = 0 /\ NoJob.verified = {} /\ NoJob.pc = "idle"
      /\ \A why \in Exits : Done(why) => /\ job'.rev = 0 /\ job'.verified = {}
                                         /\ job'.pc = "idle"
  BY DEF NoJob, Done
<1>3. CASE Over
  BY <1>2, <1>3, VerifiedBlank DEF Over
<1>4. CASE Restart
  BY <1>2, <1>4, VerifiedBlank DEF Restart
<1>5. CASE StartSend \/ StartRecheck \/ \E r \in Ids : StartApprove(r)
  <2>1. job'.rev = 0 /\ job'.verified = {} /\ job'.pc \in {"head", "asked", "starting"}
    BY <1>5 DEF StartSend, StartRecheck, StartApprove, Begin, NoJob
  <2>2. QED
    BY <2>1, VerifiedBlank
<1>6. CASE ~Restart /\ (Requests \/ World \/ (\E m \in Media : Recompute(m)) \/ UNCHANGED vars)
  BY <1>6, OuterJob, VerifiedAside
<1>7. CASE Working
  <2> UNCHANGED <<revisions, current, behind>>
    BY <1>7, WorkerKeeps, WorkerKeepsUrls
  <2>1. CASE Carries
    BY <2>1, VerifiedKept DEF Carries
  <2>2. CASE Again
    <3>1. /\ job'.rev = 0 /\ job'.verified = job.verified /\ job'.swapped = job.swapped
          /\ job'.kind = job.kind /\ job'.pc = "head"
      BY <2>2 DEF Again, NoJob
    <3>2. QED
      BY <3>1, VerifiedKept
  <2>3. CASE \E r \in Ids : Claim(r)
    <3>1. /\ job'.rev = current /\ job'.verified = job.verified
          /\ job'.swapped = job.swapped /\ job'.kind = job.kind /\ job'.pc = "claimed"
      BY <1>1, <2>3 DEF Claim, Job
    <3>2. QED
      BY <3>1, VerifiedKept
  <2>4. CASE ApproveReads /\ ~Over
    <3>1. job' = [job EXCEPT !.pc = "approving", !.rev = Mine.rev] /\ Mine.state = Waiting
      BY <2>4 DEF ApproveReads, Over, Exits
    <3>2. job.pc = "asked" /\ job.verified = {}
      BY <2>4 DEF ApproveReads, VerifiedFits
    <3>3. job.mine # 0
      BY <3>2, WhoIsWhere DEF IInv, InHand
    <3>4. Mine \in Record /\ Mine.rev \in Nat /\ Mine.rev <= current
      BY <1>1, <3>3, MineType, RowType DEF IInv, RevisionsFit, Mine
    <3>5. job'.rev = Mine.rev /\ job'.verified = {} /\ job'.pc = "approving"
      BY <1>1, <3>1, <3>2 DEF Job
    <3>6. current' = current
      OBVIOUS
    <3>7. QED
      BY <3>4, <3>5, <3>6 DEF VerifiedFits
  <2>5. CASE RecheckStarts /\ ~Over
    <3>1. job' = [job EXCEPT !.pc = "preflight", !.goal = "recheck", !.rev = current]
      BY <2>5 DEF RecheckStarts, Over, NoLease, Exits
    <3>2. /\ job'.rev = current /\ job'.verified = job.verified
          /\ job'.swapped = job.swapped /\ job'.kind = job.kind /\ job'.pc = "preflight"
      BY <1>1, <3>1 DEF Job
    <3>3. QED
      BY <3>2, VerifiedKept
  <2>6. CASE Preflight
    <3>1. CASE Leave("target")
      <4>1. Carries \/ Over
        BY <3>1, MovesCarry DEF Exits, IInv
      <4>2. QED
        BY <1>3, <2>1, <4>1
    <3>2. CASE ~Leave("target")
      <4>1. job.pc = "preflight"
        BY <2>6 DEF Preflight
      <4>2. job.rev \in 1..MaxRevisions
        <5>1. CASE job.kind = "recheck"
          BY <4>1, <5>1 DEF IInv, PcFits
        <5>2. CASE job.kind # "recheck"
          BY <4>1, <5>2, HandType DEF IInv, HandPCs, SendPCs
        <5>3. QED
          BY <5>1, <5>2
      <4>3. AtRevision = job.rev /\ job.rev <= current
        BY <4>2, UploadsAssumption DEF AtRevision, VerifiedFits
      <4>4. /\ job'.rev = job.rev /\ job'.kind = job.kind /\ job'.pc = "reassure"
            /\ \/ /\ job'.verified = job.verified /\ job.rev \in job.verified
                  /\ job'.swapped = job.swapped
               \/ /\ job'.verified = job.verified \cup {job.rev}
                  /\ Right(job.rev)
        <5>1. CASE job.rev \in job.verified /\ Goto("reassure")
          BY <1>1, <5>1 DEF Goto, Job
        <5>2. CASE /\ behind[revisions[job.rev].url] = revisions[job.rev].user
                   /\ job' = [job EXCEPT !.pc = "reassure", !.swapped = FALSE,
                                         !.verified = @ \cup {job.rev}]
          BY <1>1, <5>2 DEF Right, Job
        <5>3. QED
          BY <2>6, <3>2, <5>1, <5>2 DEF Preflight
      <4>5. AtRevision' = job.rev
        BY <4>2, <4>4, UploadsAssumption DEF AtRevision
      <4>6. Right(AtRevision)' <=> Right(job.rev)
        BY <4>5 DEF Right
      <4>7. job'.verified \subseteq 1..job.rev /\ job.rev \in job'.verified
        BY <4>2, <4>3, <4>4, UploadsAssumption DEF VerifiedFits
      <4>8. ~job'.swapped => Right(job.rev)
        BY <4>3, <4>4 DEF VerifiedFits
      <4>9. job.kind # "none" /\ current' = current
        BY <4>1 DEF IInv, PcFits
      <4>10. QED
        BY <4>3, <4>4, <4>5, <4>6, <4>7, <4>8, <4>9 DEF VerifiedFits
    <3>3. QED
      BY <3>1, <3>2
  <2>7. CASE Reassure
    <3>1. CASE Stopped \/ Leave("key")
      <4>1. Carries \/ Over
        BY <3>1, MovesCarry, BadNewsCarries DEF Exits, IInv
      <4>2. QED
        BY <1>3, <2>1, <4>1
    <3>2. CASE ~(Stopped \/ Leave("key"))
      <4>1. /\ job.pc = "reassure" /\ job'.rev = job.rev /\ job'.kind = job.kind
            /\ job'.verified = job.verified /\ job'.swapped = job.swapped
            /\ job'.pc \in {"commit", "request"}
        BY <1>1, <2>7, <3>2 DEF Reassure, Job
      <4>2. AtRevision' = AtRevision /\ (Right(AtRevision)' <=> Right(AtRevision))
        BY <4>1 DEF AtRevision, Right
      <4>3. current' = current
        OBVIOUS
      <4>4. QED
        BY <4>1, <4>2, <4>3 DEF VerifiedFits
    <3>3. QED
      BY <3>1, <3>2
  <2>8. QED
    BY <1>3, <1>7, <2>1, <2>2, <2>3, <2>4, <2>5, <2>6, <2>7, WorkerMoves
<1>8. QED
  BY <1>4, <1>5, <1>6, <1>7, StepKinds DEF World

\* Rows and job fit the destination, in every state.
THEOREM TargetsInductive == Spec => []TargetsFit
<1>1. Init => TargetsFit
  <2> SUFFICES ASSUME Init PROVE TargetsFit
    OBVIOUS
  <2>1. \A r \in Ids : records[r].rev = 0
    BY DEF Init, Absent
  <2>2. job.rev = 0 /\ job.verified = {} /\ job.pc = "idle" /\ current = 1
    BY DEF Init, NoJob
  <2>3. QED
    BY <2>1, <2>2 DEF TargetsFit, RevisionsFit, VerifiedFits
<1>2. IInv /\ IInv' /\ TargetsFit /\ [Next]_vars => TargetsFit'
  BY RevisionsFitSafe, VerifiedFitsSafe DEF TargetsFit
<1>3. QED
  BY <1>1, <1>2, Inductive, PTL DEF Spec

\* What is asked about a row goes to the library of the row, as long as nobody
\* puts another one behind the url after the preflight.
THEOREM RightTarget == Spec => []RightLibrary
<1>1. IInv /\ TargetsFit => RightLibrary
  <2> SUFFICES ASSUME IInv, TargetsFit, job.pc = "request"
               PROVE  /\ revisions[job.rev].epoch = Mine.epoch
                      /\ behind[revisions[job.rev].url] # revisions[job.rev].user
                           => job.swapped
    BY DEF RightLibrary
  <2>1. /\ job.mine \in Ids /\ Mine.rev = job.rev /\ job.rev \in 1..MaxRevisions
    BY WhoIsWhere, HandType DEF IInv, HandPCs, SendPCs
  <2>2. job.rev # 0
    BY <2>1, UploadsAssumption
  <2>3. revisions[job.rev].epoch = Mine.epoch
    BY <2>1, <2>2 DEF TargetsFit, RevisionsFit, Mine
  <2>4. AtRevision = job.rev /\ job.rev \in job.verified
    BY <2>2 DEF AtRevision, TargetsFit, VerifiedFits
  <2>5. QED
    BY <2>3, <2>4 DEF TargetsFit, VerifiedFits, Right
<1>2. QED
  BY <1>1, Inductive, TargetsInductive, PTL

-----------------------------------------------------------------------------
(* Only what may be sent                                                   *)

\* Whoever invalidates a row that is being sent, takes its rule away or closes
\* the destination, does so by an edit, a toggle or a new group.
LEMMA RulesKept ==
  ASSUME IInv, NEW r \in Ids, records[r].state \in Active, records[r].valid, Eligible(r),
         ~Restart, Requests \/ World \/ (\E m \in Media : Recompute(m)) \/ UNCHANGED vars
  PROVE  \/ Eligible(r)' /\ records'[r].valid
         \/ job' = Spoil
<1> USE DEF IInv
<1>1. "failed" \notin Active /\ "complete" \notin Active /\ "absent" \notin Active
      /\ Waiting \notin Active /\ Claimable \cap Active = {}
  BY StateNames
<1>2. ASSUME records'[r] = records[r], basis \subseteq basis', enabled' = enabled
      PROVE  Eligible(r)' /\ records'[r].valid
  BY <1>2 DEF Eligible
<1>3. ASSUME NEW m \in Media, CreatePair(m)
      PROVE  Eligible(r)' /\ records'[r].valid
  <2>1. ASSUME NEW k \in Ids, k # r, NEW row, records' = [records EXCEPT ![k] = row]
        PROVE  records'[r] = records[r]
    BY <2>1 DEF TypeOK
  <2>2. records'[r] = records[r]
    BY <1>1, <1>3, <2>1 DEF CreatePair, Next1, Existing
  <2>3. QED
    BY <1>2, <1>3, <2>2 DEF CreatePair
<1>4. ASSUME NEW m \in Media, ZoneOverride(m) \/ Recompute(m)
      PROVE  Eligible(r)' /\ records'[r].valid
  BY <1>1, <1>2, <1>4 DEF ZoneOverride, Recompute, Requeue
<1>5. ASSUME NEW m \in Media, EditGroup(m)
      PROVE  Eligible(r)' /\ records'[r].valid
  BY <1>1, <1>2, <1>5 DEF EditGroup
<1>6. ASSUME NEW k \in Ids, Retry(k) \/ RejectReads(k) \/ RejectSettles(k)
      PROVE  Eligible(r)' /\ records'[r].valid
  <2>1. records'[r] = records[r]
    BY <1>1, <1>6 DEF Retry, RejectReads, RejectSettles, TypeOK
  <2>2. QED
    BY <1>2, <1>6, <2>1 DEF Retry, RejectReads, RejectSettles
<1>7. ASSUME NEW k \in Ids, ClaimExpires(k)
      PROVE  Eligible(r)' /\ records'[r].valid
  <2>1. records[k] \in Record /\ records[r] \in Record
    BY DEF TypeOK
  <2>2. \/ records'[r] = records[r]
        \/ records'[r] = [records[r] EXCEPT !.live = FALSE]
    <3>1. records'[r] = IF r = k THEN [records[k] EXCEPT !.live = FALSE] ELSE records[r]
      BY <1>7 DEF ClaimExpires, TypeOK
    <3>2. QED
      BY <3>1
  <2>3. records'[r].valid = records[r].valid /\ records'[r].media = records[r].media
    BY <2>1, <2>2 DEF Record
  <2>4. QED
    BY <1>7, <2>3 DEF ClaimExpires, Eligible
<1>8. ASSUME Purge \/ Cancel \/ LeaseExpires
      PROVE  Eligible(r)' /\ records'[r].valid
  BY <1>2, <1>8 DEF Purge, Cancel, LeaseExpires
<1>9. ASSUME \/ \E l \in Libraries, m \in Media : OtherUploads(l, m) \/ OtherDeletes(l, m)
             \/ \E u \in Urls : Swap(u)
      PROVE  Eligible(r)' /\ records'[r].valid
  BY <1>2, <1>9 DEF OtherUploads, OtherDeletes, Swap
<1>10. ASSUME UNCHANGED vars
       PROVE  Eligible(r)' /\ records'[r].valid
  BY <1>2, <1>10
<1>11. ASSUME \/ \E m \in Media : CreateGroup(m)
              \/ \E u \in Urls, same \in BOOLEAN : EditDestination(u, same)
              \/ Toggle
       PROVE  job' = Spoil
  BY <1>11 DEF CreateGroup, EditDestination, Toggle
<1>12. CASE Requests
  BY <1>3, <1>4, <1>5, <1>6, <1>8, <1>11, <1>12, Zenon DEF Requests
<1>13. CASE World
  BY <1>7, <1>8, <1>9, <1>13, Zenon DEF World
<1>14. QED
  BY <1>4, <1>10, <1>12, <1>13

\* The last look before a request goes out.
LEMMA ReassuredAsks ==
  ASSUME IInv, Working, job'.pc = "request"
  PROVE  /\ Reassure /\ Passes
         /\ job'.mine = job.mine /\ job'.goal = job.goal /\ ~job'.late
         /\ records' = records
<1>1. job \in Job
  BY DEF IInv, TypeOK
<1>2. \A why \in Exits : Done(why) => job'.pc = "idle"
  BY DEF Done, NoJob
<1>3. Reassure
  <2>1. ~(Carries \/ Again \/ Over)
    <3>1. Again => job'.pc = "head"
      BY DEF Again, NoJob
    <3>2. QED
      BY <1>2, <3>1 DEF Carries, Over
  <2>2. ~\E r \in Ids : Claim(r)
    BY <1>1 DEF Claim, Job
  <2>3. ~ApproveReads
    BY <1>1, <1>2 DEF ApproveReads, Job, Exits
  <2>4. ~RecheckStarts
    BY <1>1, <1>2 DEF RecheckStarts, Job, NoLease, Exits
  <2>5. ~Preflight
    <3>1. CASE Preflight /\ Leave("target")
      BY <2>1, <3>1, MovesCarry DEF IInv, Exits
    <3>2. CASE Preflight /\ ~Leave("target")
      BY <1>1, <3>2 DEF Preflight, Goto, Job
    <3>3. QED
      BY <3>1, <3>2
  <2>6. QED
    BY <2>1, <2>2, <2>3, <2>4, <2>5, WorkerMoves
<1>4. ~(Stopped \/ Leave("key"))
  <2>1. Stopped \/ Leave("key") => Carries \/ Over
    BY MovesCarry, BadNewsCarries DEF IInv, Exits
  <2>2. QED
    BY <1>2, <2>1 DEF Carries, Over
<1>5. /\ Passes
      /\ job' = [job EXCEPT !.pc = IF job.goal = "adopt" THEN "commit" ELSE "request",
                            !.touched = TRUE, !.late = FALSE]
      /\ records' = records
  BY <1>3, <1>4 DEF Reassure, Still, Worker
<1>6. QED
  BY <1>1, <1>3, <1>5 DEF Job

\* The first byte goes out under a rule that held after the preflight, or was
\* overtaken since.
THEOREM SendsEligible == Spec => []SendsOnlyEligible
<1>1. Init => SendsOnlyEligible
  BY DEF Init, NoJob, SendsOnlyEligible, At
<1>2. IInv /\ IInv' /\ SendsOnlyEligible /\ [Next]_vars => SendsOnlyEligible'
  <2> SUFFICES ASSUME IInv, SendsOnlyEligible, [Next]_vars,
                      job'.pc = "request", job'.goal = "send",
                      ~(Eligible(job.mine)' /\ records'[job.mine].valid)
                        \/ job'.mine # job.mine
               PROVE  job'.late
    BY DEF SendsOnlyEligible, At, Mine, Eligible
  <2>1. CASE Restart
    BY <2>1 DEF Restart, NoJob
  <2>2. CASE StartSend \/ StartRecheck \/ \E r \in Ids : StartApprove(r)
    BY <2>2 DEF StartSend, StartRecheck, StartApprove, Begin, NoJob
  <2>3. CASE ~Restart /\ (Requests \/ World \/ (\E m \in Media : Recompute(m)) \/ UNCHANGED vars)
    <3>1. JobStays
      BY <2>3, OuterJob
    <3>2. /\ job.pc = "request" /\ job.goal = "send" /\ job'.mine = job.mine
          /\ job'.late = job.late \/ job'.late
      BY <3>1 DEF JobStays, SameHand
    <3>3. job.mine \in Ids /\ Mine.state \in Active
      BY <3>2, WhoIsWhere, HandType DEF IInv, HandPCs, SendPCs
    <3>4. CASE job.late
      BY <3>2, <3>4
    <3>5. CASE ~job.late
      <4>1. Eligible(job.mine) /\ Mine.valid
        BY <3>2, <3>5 DEF SendsOnlyEligible, At
      <4>2. job' = Spoil
        BY <2>3, <3>2, <3>3, <4>1, RulesKept DEF Mine
      <4>3. QED
        BY <3>2, <4>2 DEF Spoil, IInv, TypeOK, Job
    <3>6. QED
      BY <3>4, <3>5, JobType DEF IInv
  <2>4. CASE Working
    <3>1. /\ Passes /\ job'.mine = job.mine /\ job.goal = "send" /\ records' = records
      BY <2>4, ReassuredAsks
    <3>2. UNCHANGED <<basis, enabled>>
      BY <2>4, WorkerKeeps
    <3>3. Eligible(job.mine) /\ Mine.valid
      BY <3>1 DEF Passes, Verify
    <3>4. QED
      BY <3>1, <3>2, <3>3 DEF Eligible, Mine
  <2>5. QED
    BY <2>1, <2>2, <2>3, <2>4, StepKinds
<1>3. QED
  BY <1>1, <1>2, Inductive, PTL DEF Spec

-----------------------------------------------------------------------------
(* The right date: what the worker holds                                   *)

ReadPCs == GuardPCs \cup {"known", "planning"}

\* The guard of a date that is written without being asked about.
Fixing == job.goal = "fix" /\ job.pc \in GuardPCs

\* The asset of the row in hand is on record.
Placed == \/ job.pc \in {"known", "planning"}
          \/ job.goal \in {"find", "create", "tag", "observe", "fix"} /\ job.pc \in GuardPCs

\* What a step may make of an answer, and when it comes to such places.
Answers ==
    /\ job'.rev = job.rev
    /\ job'.reply = "created" => job.reply = "created" \/ SendBytes
    /\ job'.reply = "reject" => job.reply = "reject" \/ AskCheck
    /\ Fixing' => Fixing \/ BeginFixing
    /\ Placed' => Placed \/ AssetKnown

\* A step within a job: which of them read a date, list rows, learn of an asset,
\* come to a guard or come to settle a date.
Holds ==
    /\ job'.kind = job.kind /\ job'.mine = job.mine
    /\ Answers
    /\ job'.date = job.date \/ CheckClaimed \/ ApproveReadsDate
    /\ job'.seen = job.seen \/ RecheckLists \/ RecheckCompares
    /\ job'.asset \in {job.asset, 0} \/ AskCheck \/ SendBytes \/ Observe
    /\ job'.goal \in {"observe", "fix"} => job'.goal = job.goal \/ FixesDate
    /\ job'.pc \in ReadPCs => \/ job.pc \in ReadPCs \/ job.kind = "recheck"
                              \/ CheckClaimed \/ ApproveReadsDate
    /\ job'.pc = "commit" /\ job'.goal \in {"fix", "approve"} => PutDate
    /\ job.kind = "approve" /\ job'.pc \in HandPCs => job.pc \in HandPCs \/ ApproveClaims

\* A step that only moves on from where a date has been read ...
LEMMA OnwardHolds ==
  ASSUME TypeOK, job.pc \in ReadPCs, Answers,
         job'.kind = job.kind, job'.mine = job.mine, job'.date = job.date,
         job'.seen = job.seen,
         job'.asset \in {job.asset, 0} \/ AskCheck \/ SendBytes \/ Observe,
         job'.goal \in {"observe", "fix"} => job'.goal = job.goal \/ FixesDate,
         job'.pc = "commit" /\ job'.goal \in {"fix", "approve"} => PutDate
  PROVE  Holds
<1>1. ReadPCs \subseteq HandPCs
  BY DEF ReadPCs, GuardPCs, HandPCs, SendPCs
<1>2. QED
  BY <1>1 DEF Holds

\* ... and one that turns away from it.
LEMMA AwayHolds ==
  ASSUME TypeOK, NEW p \in {"claiming", "refusing", "retrying", "failing", "leaving"},
         \/ Goto(p) /\ (job.pc \in HandPCs \/ job.kind # "approve")
         \/ \E why \in Exits : Leave(why) /\ job.pc \in HandPCs
  PROVE  Holds \/ Over
<1>1. job \in Job
  BY DEF TypeOK
<1>2. {"claiming", "refusing", "retrying", "failing", "leaving"} \cap ReadPCs = {}
      /\ "commit" \in ReadPCs
  BY DEF ReadPCs, GuardPCs
<1>3. CASE Goto(p) /\ (job.pc \in HandPCs \/ job.kind # "approve")
  <2>1. /\ job'.kind = job.kind /\ job'.mine = job.mine /\ job'.date = job.date
        /\ job'.seen = job.seen /\ job'.asset = job.asset /\ job'.goal = job.goal
        /\ job'.pc = p /\ job'.rev = job.rev /\ job'.reply = job.reply
    BY <1>1, <1>3 DEF Goto, Job
  <2>2. QED
    BY <1>2, <1>3, <2>1 DEF Holds, Answers, Fixing, Placed, ReadPCs
<1>4. ASSUME NEW why \in Exits, Leave(why), job.pc \in HandPCs
      PROVE  Holds \/ Over
  <2>1. CASE job.kind = "recheck"
    BY <1>4, <2>1 DEF Leave, Over
  <2>2. CASE job.kind # "recheck"
    <3>1. /\ job'.kind = job.kind /\ job'.mine = job.mine /\ job'.date = job.date
          /\ job'.seen = job.seen /\ job'.asset = job.asset /\ job'.goal = job.goal
          /\ job'.pc = "leaving" /\ job'.rev = job.rev /\ job'.reply = job.reply
      BY <1>1, <1>4, <2>2 DEF Leave, Job
    <3>2. QED
      BY <1>2, <1>4, <3>1 DEF Holds, Answers, Fixing, Placed, ReadPCs
  <2>3. QED
    BY <2>1, <2>2
<1>5. QED
  BY <1>3, <1>4

\* A guard that fails, or an answer that does not come.
LEMMA BadNewsHolds ==
  ASSUME TypeOK, job.pc \in GuardPCs, Stopped \/ Raises
  PROVE  Holds \/ Over
<1>1. job.pc \in HandPCs /\ job.pc \in ReadPCs /\ job \in Job
  BY DEF GuardPCs, HandPCs, SendPCs, ReadPCs, TypeOK
<1>2. CASE Stopped
  <2>1. NoLease \in Exits /\ "claim" \in Exits
    BY DEF NoLease, Exits
  <2>2. QED
    BY <1>1, <1>2, <2>1, AwayHolds DEF Stopped
<1>3. CASE Raises /\ ~(job.goal = "observe")
  <2>1. "server" \in Exits
    BY DEF Exits
  <2>2. QED
    BY <1>1, <1>3, <2>1, AwayHolds DEF Raises
<1>4. CASE Raises /\ job.goal = "observe"
  <2>1. job' = [job EXCEPT !.pc = "commit", !.reply = "none", !.asset = 0]
    BY <1>4 DEF Raises, Reply
  <2>2. /\ job'.kind = job.kind /\ job'.mine = job.mine /\ job'.date = job.date
        /\ job'.seen = job.seen /\ job'.asset = 0 /\ job'.goal = job.goal
        /\ job'.rev = job.rev /\ job'.reply = "none" /\ job'.pc = "commit"
    BY <1>1, <2>1 DEF Job
  <2>3. Answers
    BY <1>4, <2>2 DEF Answers, Fixing, Placed
  <2>4. QED
    BY <1>1, <1>4, <2>2, <2>3, OnwardHolds
<1>5. QED
  BY <1>2, <1>3, <1>4

\* An answer that comes.
LEMMA ReplyHolds ==
  ASSUME TypeOK, job.pc \in GuardPCs, NEW q, NEW id,
         \/ q = "accept"
         \/ q = "reject" /\ AskCheck
         \/ q \in {"created", "duplicate"} /\ SendBytes,
         \/ Reply(q, id) /\ (job.goal \notin {"fix", "approve"} \/ PutDate)
         \/ job' = [job EXCEPT !.pc = "prepare", !.goal = "adopt", !.reply = q, !.asset = id],
         id = 0 \/ AskCheck \/ SendBytes \/ Observe
  PROVE  Holds
<1>1. job \in Job /\ job.pc \in ReadPCs
  BY DEF TypeOK, ReadPCs
<1>2. CASE Reply(q, id) /\ (job.goal \notin {"fix", "approve"} \/ PutDate)
  <2>1. /\ job'.kind = job.kind /\ job'.mine = job.mine /\ job'.date = job.date
        /\ job'.seen = job.seen /\ job'.asset = id /\ job'.goal = job.goal
        /\ job'.rev = job.rev /\ job'.reply = q /\ job'.pc = "commit"
    BY <1>1, <1>2 DEF Reply, Job
  <2>2. Answers
    BY <2>1 DEF Answers, Fixing, Placed
  <2>3. QED
    BY <1>1, <1>2, <2>1, <2>2, OnwardHolds
<1>3. CASE job' = [job EXCEPT !.pc = "prepare", !.goal = "adopt", !.reply = q, !.asset = id]
  <2>1. /\ job'.kind = job.kind /\ job'.mine = job.mine /\ job'.date = job.date
        /\ job'.seen = job.seen /\ job'.asset = id /\ job'.goal = "adopt"
        /\ job'.rev = job.rev /\ job'.reply = q /\ job'.pc = "prepare"
    BY <1>1, <1>3 DEF Job
  <2>2. Answers
    BY <2>1 DEF Answers, Fixing, Placed
  <2>3. QED
    BY <1>1, <2>1, <2>2, OnwardHolds
<1>4. QED
  BY <1>2, <1>3

\* Every step of the worker takes up another row, lets go of one, or holds on.
LEMMA WorkerHolds ==
  ASSUME IInv, Working
  PROVE  \/ \E r \in Ids : Claim(r)
         \/ ApproveReads \/ RecheckStarts \/ Again \/ Over \/ Holds
<1> USE DEF IInv
<1>1. job \in Job
  BY DEF TypeOK
<1>2. {"commit", "request", "prepare", "preflight", "reassure", "known", "planning"}
        \subseteq ReadPCs
      /\ ReadPCs \subseteq HandPCs
      /\ {"claimed", "refusing", "retrying", "failing", "leaving", "reading"} \subseteq HandPCs
      /\ GuardPCs \subseteq ReadPCs
  BY DEF ReadPCs, GuardPCs, HandPCs, SendPCs
<1>3. {"claiming", "head", "comparing", "stamping", "reading", "refusing", "claimed"}
        \cap ReadPCs = {}
  BY DEF ReadPCs, GuardPCs
<1>4. CASE Head \/ ClaimNothing
  <2>1. CASE Head /\ Goto("claiming")
    <3>1. job.kind # "approve"
      BY <2>1, WhoIsWhere DEF Head
    <3>2. QED
      BY <2>1, <3>1, AwayHolds
  <2>2. QED
    BY <1>4, <2>1 DEF Head, ClaimNothing, Over, Exits
<1>5. CASE CheckClaimed
  <2>1. job.pc = "claimed" /\ job.kind = "send"
    BY <1>5, WhoIsWhere DEF CheckClaimed
  <2>2. CASE Goto("refusing") \/ Leave("key")
    BY <1>2, <2>1, <2>2, AwayHolds DEF Exits
  <2>3. CASE job' = [job EXCEPT !.pc = "prepare", !.goal = "check",
                               !.date = captured[Mine.media]]
    BY <1>1, <1>5, <2>1, <2>3 DEF Holds, Answers, Fixing, Placed, Job
  <2>4. QED
    BY <1>5, <2>2, <2>3 DEF CheckClaimed
<1>6. CASE AskCheck
  <2>1. job.pc \in GuardPCs /\ job.goal = "check"
    BY <1>6 DEF AskCheck, At, GuardPCs
  <2>2. CASE Reply("accept", 0)
    BY <2>1, <2>2, ReplyHolds
  <2>3. CASE Reply("reject", There.id)
    BY <1>6, <2>1, <2>3, ReplyHolds
  <2>4. CASE job' = [job EXCEPT !.pc = "prepare", !.goal = "adopt",
                               !.reply = "reject", !.asset = There.id]
    BY <1>6, <2>1, <2>4, ReplyHolds
  <2>5. QED
    BY <1>6, <2>2, <2>3, <2>4 DEF AskCheck
<1>7. CASE SendBytes
  <2>1. job.pc \in GuardPCs /\ job.pc \in ReadPCs /\ job.goal = "send"
    BY <1>2, <1>7 DEF SendBytes, At, GuardPCs
  <2>2. CASE AnswerLost
    BY <2>1, <2>2, BadNewsHolds DEF AnswerLost
  <2>3. CASE job' = [job EXCEPT !.pc = "prepare", !.goal = "adopt",
                               !.reply = "duplicate", !.asset = There.id]
    BY <1>7, <2>1, <2>3, ReplyHolds
  <2>4. CASE Reply("created", assets + 1)
    BY <1>7, <2>1, <2>4, ReplyHolds
  <2>5. QED
    BY <1>7, <2>2, <2>3, <2>4, Zenon DEF SendBytes
<1>8. CASE FileUnreadable
  BY <1>2, <1>8, AwayHolds DEF FileUnreadable, At, Exits
<1>9. CASE FindTag \/ CreateTag \/ TagAssets
  <2>1. job.pc \in ReadPCs /\ job.pc \in HandPCs /\ Placed
    BY <1>2, <1>9 DEF FindTag, CreateTag, TagAssets, At, Placed, GuardPCs
  <2>2. CASE Goto("failing")
    BY <2>1, <2>2, AwayHolds
  <2>3. ASSUME NEW g \in {"create", "tag"}, Guarded(g) \/ Goto("planning")
        PROVE  Holds
    <3>1. /\ job'.kind = job.kind /\ job'.mine = job.mine /\ job'.date = job.date
          /\ job'.seen = job.seen /\ job'.asset = job.asset /\ job'.goal \in {job.goal, g}
          /\ job'.pc \in {"prepare", "planning"} /\ job'.rev = job.rev
          /\ job'.reply = job.reply /\ (job'.pc = "prepare" => job'.goal = g)
      BY <1>1, <2>3 DEF Guarded, Goto, Job
    <3>2. Answers
      BY <2>1, <3>1 DEF Answers, Fixing, GuardPCs
    <3>3. QED
      BY <2>1, <3>1, <3>2, OnwardHolds
  <2>4. QED
    BY <1>9, <2>2, <2>3 DEF FindTag, CreateTag, TagAssets
<1>10. CASE Observe
  <2>1. job.pc \in ReadPCs /\ job.goal = "observe" /\ Placed
    BY <1>2, <1>10 DEF Observe, At, Placed, GuardPCs
  <2>2. PICK a : \E q \in {"same", "none"} :
          job' = [job EXCEPT !.pc = "commit", !.reply = q, !.asset = a]
    BY <1>10 DEF Observe, Reply
  <2>3. /\ job'.kind = job.kind /\ job'.mine = job.mine /\ job'.date = job.date
        /\ job'.seen = job.seen /\ job'.goal = job.goal
        /\ job'.rev = job.rev /\ job'.reply \in {"same", "none"} /\ job'.pc = "commit"
    BY <1>1, <2>2 DEF Job
  <2>4. Answers
    BY <2>1, <2>3 DEF Answers, Fixing
  <2>5. QED
    BY <1>10, <2>1, <2>3, <2>4, OnwardHolds
<1>11. CASE BeginUploading \/ AssetKnown \/ BeginTagging \/ BeginFixing
  <2>1. job.pc \in ReadPCs
    BY <1>2, <1>11 DEF BeginUploading, AssetKnown, BeginTagging, BeginFixing, Commits
  <2>2. \E p \in {"prepare", "known", "planning"}, g \in {"send", "none", "find", "tag", "fix"} :
          /\ \E e : job' = [job EXCEPT !.pc = p, !.goal = g, !.expect = e]
          /\ g = "fix" => FixesDate /\ BeginFixing
          /\ AssetKnown \/ job.pc \in {"known", "planning"} \/ (g = "send" /\ p = "prepare")
    BY <1>11, Zenon DEF BeginUploading, AssetKnown, BeginTagging, BeginFixing, Commits, Goes
  <2>3. /\ job'.kind = job.kind /\ job'.mine = job.mine /\ job'.date = job.date
        /\ job'.seen = job.seen /\ job'.asset = job.asset
        /\ \/ job'.goal \in {"send", "none", "find", "tag"}
           \/ job'.goal = "fix" /\ FixesDate /\ BeginFixing
        /\ job'.pc # "commit" /\ job'.rev = job.rev /\ job'.reply = job.reply
        /\ \/ AssetKnown \/ job.pc \in {"known", "planning"}
           \/ job'.goal = "send" /\ job'.pc = "prepare"
    BY <1>1, <2>2 DEF Job
  <2>4. Answers
    BY <2>3 DEF Answers, Fixing, Placed
  <2>5. QED
    BY <2>1, <2>3, <2>4, OnwardHolds
<1>12. CASE AskDate
  <2>1. job.pc \in ReadPCs /\ Placed
    BY <1>2, <1>12 DEF AskDate, Placed
  <2>2. /\ job'.kind = job.kind /\ job'.mine = job.mine /\ job'.date = job.date
        /\ job'.seen = job.seen /\ job'.asset = job.asset /\ job'.pc = "prepare"
        /\ FixesDate /\ job'.goal = "observe" /\ job'.rev = job.rev /\ job'.reply = job.reply
    BY <1>1, <1>12 DEF AskDate, Guarded, Job
  <2>3. Answers
    BY <2>1, <2>2 DEF Answers, Fixing
  <2>4. QED
    BY <2>1, <2>2, <2>3, OnwardHolds
<1>13. CASE FinishPlain \/ FinishObserved \/ FinishWritten \/ Refuse \/ Fails \/ Retries
            \/ Release
  <2>1. job.exit \in Exits /\ {"done", "claim"} \subseteq Exits
    BY JobType DEF Exits
  <2>2. CASE FinishPlain \/ FinishObserved \/ FinishWritten
    BY <2>1, <2>2 DEF FinishPlain, FinishObserved, FinishWritten, Ends, Over
  <2>3. CASE Refuse \/ Retries \/ Release
    BY <2>1, <2>3 DEF Refuse, Retries, Release, Over
  <2>4. CASE Fails
    BY <1>2, <2>1, <2>4, AwayHolds DEF Fails
  <2>5. QED
    BY <1>13, <2>2, <2>3, <2>4
<1>14. CASE ApproveClaims /\ ~Over
  <2>1. PICK row : Goes(row, "reading", "none", "fixing_datetime")
    BY <1>14 DEF ApproveClaims, Over, Exits
  <2>2. /\ job'.kind = job.kind /\ job'.mine = job.mine /\ job'.date = job.date
        /\ job'.seen = job.seen /\ job'.asset = job.asset /\ job'.goal = "none"
        /\ job'.pc = "reading" /\ job'.rev = job.rev /\ job'.reply = job.reply
    BY <1>1, <2>1 DEF Goes, Job
  <2>3. QED
    BY <1>3, <1>14, <2>2 DEF Holds, Answers, Fixing, Placed
<1>15. CASE ApproveReadsDate
  <2>1. /\ job'.kind = job.kind /\ job'.mine = job.mine
        /\ job'.seen = job.seen /\ job'.asset = job.asset /\ job'.goal = "approve"
        /\ job'.pc = "prepare" /\ job'.rev = job.rev /\ job'.reply = job.reply
    BY <1>1, <1>15 DEF ApproveReadsDate, Job
  <2>2. job.pc \in HandPCs
    BY <1>2, <1>15 DEF ApproveReadsDate
  <2>3. QED
    BY <1>15, <2>1, <2>2 DEF Holds, Answers, Fixing, Placed
<1>16. CASE (RecheckLists \/ RecheckCompares \/ RecheckStamps) /\ ~Over
  <2>1. \E p \in {"comparing", "stamping"} : \E x : job' = [job EXCEPT !.pc = p, !.seen = x]
    BY <1>16 DEF RecheckLists, RecheckCompares, RecheckStamps, NoLease, Over, Exits
  <2>2. /\ job'.kind = job.kind /\ job'.mine = job.mine /\ job'.date = job.date
        /\ job'.asset = job.asset /\ job'.goal = job.goal
        /\ job'.pc \in {"comparing", "stamping"}
        /\ job'.rev = job.rev /\ job'.reply = job.reply
    BY <1>1, <2>1 DEF Job
  <2>3. job.kind = "recheck" /\ ~RecheckStamps
    BY <1>16, WhoIsWhere, JobType
       DEF RecheckLists, RecheckCompares, RecheckStamps, PcFits, GuardPCs, NoLease, Over, Exits
  <2>4. QED
    BY <1>3, <1>16, <2>2, <2>3 DEF Holds, Answers, Fixing, Placed, GuardPCs
<1>17. CASE CommitFails
  <2>1. NoLease \in Exits /\ "claim" \in Exits
    BY DEF NoLease, Exits
  <2>2. QED
    BY <1>2, <1>17, <2>1, AwayHolds DEF CommitFails
<1>18. CASE Prepare \/ Preflight \/ Reassure
  <2>1. job.pc \in GuardPCs /\ job.pc \in HandPCs /\ job.pc \in ReadPCs
    BY <1>2, <1>18 DEF Prepare, Preflight, Reassure, GuardPCs
  <2>2. CASE Stopped \/ Leave("key") \/ Leave("target")
    BY <2>1, <2>2, AwayHolds, BadNewsHolds DEF Exits
  <2>3. CASE ~(Stopped \/ Leave("key") \/ Leave("target"))
    <3>1. \/ job' = [job EXCEPT !.pc = "preflight"]
          \/ job' = [job EXCEPT !.pc = "reassure"]
          \/ job' = [job EXCEPT !.pc = "reassure", !.swapped = FALSE,
                                !.verified = @ \cup {job.rev}]
          \/ job' = [job EXCEPT !.pc = "request", !.touched = TRUE, !.late = FALSE]
          \/ /\ job' = [job EXCEPT !.pc = "commit", !.touched = TRUE, !.late = FALSE]
             /\ job.goal = "adopt"
      BY <1>18, <2>3, Zenon DEF Prepare, Preflight, Reassure, Goto
    <3>2. /\ job'.kind = job.kind /\ job'.mine = job.mine /\ job'.date = job.date
          /\ job'.seen = job.seen /\ job'.asset = job.asset /\ job'.goal = job.goal
          /\ job'.pc = "commit" => job.goal = "adopt"
          /\ job'.pc \in {"preflight", "reassure", "request", "commit"}
          /\ job'.rev = job.rev /\ job'.reply = job.reply
      BY <1>1, <3>1 DEF Job
    <3>3. Answers
      BY <2>1, <3>2 DEF Answers, Fixing, Placed
    <3>4. QED
      BY <2>1, <3>2, <3>3, OnwardHolds
  <2>4. QED
    BY <2>2, <2>3
<1>19. CASE PreflightFails \/ Lost
  <2>1. job.pc \in GuardPCs /\ job.pc \in HandPCs
    BY <1>2, <1>19 DEF PreflightFails, Lost, AnswerLost, GuardPCs
  <2>2. QED
    BY <1>19, <2>1, AwayHolds, BadNewsHolds DEF PreflightFails, Lost, AnswerLost, Exits
<1>20. CASE PutDate
  <2>1. job.pc \in GuardPCs /\ job.pc \in HandPCs /\ job.pc \in ReadPCs
    BY <1>2, <1>20 DEF PutDate, At, GuardPCs
  <2>2. CASE AnswerLost
    BY <2>1, <2>2, BadNewsHolds DEF AnswerLost
  <2>3. CASE Reply("none", 0)
    <3>1. /\ job'.kind = job.kind /\ job'.mine = job.mine /\ job'.date = job.date
          /\ job'.seen = job.seen /\ job'.asset = 0 /\ job'.goal = job.goal
          /\ job'.rev = job.rev /\ job'.reply = "none" /\ job'.pc = "commit"
      BY <1>1, <2>3 DEF Reply, Job
    <3>2. Answers
      BY <2>1, <3>1 DEF Answers, Fixing, Placed
    <3>3. QED
      BY <1>20, <2>1, <3>1, <3>2, OnwardHolds
  <2>4. CASE Leave("server") \/ Goto("failing")
    BY <2>1, <2>4, AwayHolds DEF Exits
  <2>5. QED
    BY <1>20, <2>2, <2>3, <2>4 DEF PutDate
<1>21. CASE Sends
  BY <1>4, <1>5, <1>6, <1>7, <1>8, <1>9, <1>10, <1>11, <1>12, <1>13, <1>21, Zenon DEF Sends
<1>22. CASE Approves \/ Rechecks
  BY <1>14, <1>15, <1>16, <1>22, Zenon DEF Approves, Rechecks
<1>23. CASE Shared
  BY <1>13, <1>17, <1>18, <1>19, <1>20, <1>23, Zenon DEF Shared
<1>24. QED
  BY <1>21, <1>22, <1>23 DEF Working

-----------------------------------------------------------------------------
(* The right date: what the libraries hold                                 *)

AssetNew(l, m) ==
    /\ remote[l][m] = NoAsset
    /\ assets' = assets + 1 /\ remote'[l][m].id = assets + 1
    /\ \A k \in Libraries, n \in Media :
          k # l \/ n # m => remote'[k][n] = remote[k][n]

AssetDated(l, m) ==
    /\ PutDate /\ Known /\ l = Server /\ m = Mine.media
    /\ remote'[l][m].id = remote[l][m].id /\ remote'[l][m].date = job.date
    /\ remote'[l][m].ours = remote[l][m].ours

AssetGone(l, m) == OtherDeletes(l, m) /\ remote'[l][m] = NoAsset

\* An asset stays, goes, is new, or has its date written by this worker.
LEMMA OuterRemote ==
  ASSUME IInv,
         \/ Requests \/ World \/ \E n \in Media : Recompute(n)
         \/ StartSend \/ StartRecheck \/ \E r \in Ids : StartApprove(r)
         \/ UNCHANGED vars
  PROVE  /\ assets' \in {assets, assets + 1}
         /\ \A l \in Libraries, m \in Media :
               remote'[l][m] = remote[l][m] \/ AssetGone(l, m) \/ AssetNew(l, m)
<1> DEFINE Goal ==
      /\ assets' \in {assets, assets + 1}
      /\ \A l \in Libraries, m \in Media :
            remote'[l][m] = remote[l][m] \/ AssetGone(l, m) \/ AssetNew(l, m)
<1>1. remote \in [Libraries -> [Media -> Asset]] /\ assets \in Nat
  BY DEF IInv, TypeOK
<1>2. ASSUME UNCHANGED <<remote, assets>> PROVE Goal
  BY <1>2
<1>3. ASSUME NEW k \in Libraries, NEW n \in Media, OtherUploads(k, n)
      PROVE  Goal
  <2>1. PICK d : remote' = [remote EXCEPT ![k][n] =
                       [id |-> assets + 1, ours |-> FALSE, date |-> d]]
    BY <1>3 DEF OtherUploads
  <2>2. /\ remote'[k][n].id = assets + 1
        /\ \A i \in Libraries, j \in Media : i # k \/ j # n => remote'[i][j] = remote[i][j]
    BY <1>1, <2>1
  <2>3. QED
    BY <1>3, <2>2 DEF OtherUploads, AssetNew
<1>4. ASSUME NEW k \in Libraries, NEW n \in Media, OtherDeletes(k, n)
      PROVE  Goal
  <2>1. /\ remote'[k][n] = NoAsset
        /\ \A i \in Libraries, j \in Media : i # k \/ j # n => remote'[i][j] = remote[i][j]
    BY <1>1, <1>4 DEF OtherDeletes
  <2>2. assets' = assets
    BY <1>4 DEF OtherDeletes
  <2>3. QED
    BY <1>4, <2>1, <2>2 DEF AssetGone
<1>5. CASE Requests
  <2>1. CASE \E n \in Media : CreatePair(n) \/ ZoneOverride(n) \/ CreateGroup(n) \/ EditGroup(n)
    BY <1>2, <2>1 DEF CreatePair, ZoneOverride, CreateGroup, EditGroup
  <2>2. CASE \E r \in Ids : Retry(r) \/ RejectReads(r) \/ RejectSettles(r)
    BY <1>2, <2>2 DEF Retry, RejectReads, RejectSettles
  <2>3. CASE (\E u \in Urls, same \in BOOLEAN : EditDestination(u, same)) \/ Purge \/ Toggle
             \/ Cancel
    BY <1>2, <2>3 DEF EditDestination, Purge, Toggle, Cancel
  <2>4. QED
    BY <1>5, <2>1, <2>2, <2>3, Zenon DEF Requests
<1>6. CASE World
  <2>1. CASE (\E u \in Urls : Swap(u)) \/ LeaseExpires
    BY <1>2, <2>1 DEF Swap, LeaseExpires
  <2>2. CASE (\E r \in Ids : ClaimExpires(r)) \/ Restart
    BY <1>2, <2>2 DEF ClaimExpires, Restart
  <2>3. QED
    BY <1>3, <1>4, <1>6, <2>1, <2>2, Zenon DEF World
<1>7. CASE (\E n \in Media : Recompute(n)) \/ UNCHANGED vars
  BY <1>2, <1>7 DEF Recompute
<1>8. CASE StartSend \/ StartRecheck \/ \E r \in Ids : StartApprove(r)
  BY <1>2, <1>8 DEF StartSend, StartRecheck, StartApprove, Begin, Worker
<1>9. QED
  BY <1>5, <1>6, <1>7, <1>8

\* Of the worker's steps, two change a library.
LEMMA WorkerRemote ==
  ASSUME IInv, Working
  PROVE  /\ assets' \in {assets, assets + 1}
         /\ \A l \in Libraries, m \in Media :
               remote'[l][m] = remote[l][m] \/ AssetNew(l, m) \/ AssetDated(l, m)
<1> USE DEF IInv
<1> DEFINE Goal ==
      /\ assets' \in {assets, assets + 1}
      /\ \A l \in Libraries, m \in Media :
            remote'[l][m] = remote[l][m] \/ AssetNew(l, m) \/ AssetDated(l, m)
<1>1. remote \in [Libraries -> [Media -> Asset]] /\ assets \in Nat
  BY DEF TypeOK
<1>2. ASSUME UNCHANGED <<remote, assets>> PROVE Goal
  BY <1>2
<1>3. CASE Still \/ Steps
  BY <1>2, <1>3 DEF Still, Steps, Worker
<1>4. CASE (\E r \in Ids : Claim(r)) \/ Refuse \/ AskCheck \/ FileUnreadable
  BY <1>2, <1>4 DEF Claim, Refuse, AskCheck, FileUnreadable, Worker
<1>5. CASE PreflightFails \/ Lost
  BY <1>2, <1>5 DEF PreflightFails, Lost, Worker
<1>6. CASE SendBytes
  <2>1. CASE UNCHANGED <<remote, assets>>
    BY <1>2, <2>1
  <2>2. CASE /\ There = NoAsset
             /\ assets' = assets + 1
             /\ remote' = [remote EXCEPT ![Server][Mine.media] =
                             [id |-> assets + 1, ours |-> TRUE, date |-> Foreign]]
    <3>1. job.pc \in HandPCs /\ job.kind # "recheck"
      BY <1>6, WhoIsWhere DEF SendBytes, At, HandPCs, SendPCs
    <3>2. Server \in Libraries /\ Mine.media \in Media
      BY <3>1, HandType
    <3>3. /\ remote'[Server][Mine.media].id = assets + 1
          /\ \A i \in Libraries, j \in Media :
                i # Server \/ j # Mine.media => remote'[i][j] = remote[i][j]
      BY <1>1, <2>2, <3>2
    <3>4. QED
      BY <2>2, <3>3 DEF AssetNew, There
  <2>3. QED
    BY <1>6, <2>1, <2>2 DEF SendBytes
<1>7. CASE PutDate
  <2>1. assets' = assets
    BY <1>7 DEF PutDate, Worker
  <2>2. CASE remote' = remote
    BY <1>2, <2>1, <2>2
  <2>3. CASE /\ Known
             /\ remote' = [remote EXCEPT ![Server][Mine.media].date = job.date]
    <3>1. job.pc \in HandPCs /\ job.kind # "recheck"
      BY <1>7, WhoIsWhere DEF PutDate, At, HandPCs, SendPCs
    <3>2. Server \in Libraries /\ Mine.media \in Media
      BY <3>1, HandType
    <3>3. remote[Server][Mine.media] \in Asset
      BY <1>1, <3>2
    <3>4. remote'[Server][Mine.media] = [remote[Server][Mine.media] EXCEPT !.date = job.date]
      BY <1>1, <2>3, <3>2
    <3>5. \A i \in Libraries, j \in Media :
                i # Server \/ j # Mine.media => remote'[i][j] = remote[i][j]
      BY <1>1, <2>3, <3>2
    <3>6. /\ remote'[Server][Mine.media].id = remote[Server][Mine.media].id
          /\ remote'[Server][Mine.media].date = job.date
          /\ remote'[Server][Mine.media].ours = remote[Server][Mine.media].ours
      BY <3>3, <3>4 DEF Asset
    <3>7. QED
      BY <1>7, <2>1, <2>3, <3>5, <3>6 DEF AssetDated
  <2>4. QED
    BY <1>7, <2>2, <2>3 DEF PutDate
<1>8. CASE Sends
  BY <1>3, <1>4, <1>6, <1>8, Zenon
     DEF Sends, Head, ClaimNothing, CheckClaimed, FindTag, CreateTag, TagAssets, Observe,
         BeginUploading, AssetKnown, BeginTagging, FinishPlain, BeginFixing, AskDate,
         FinishObserved, Fails, Retries
<1>9. CASE Approves \/ Rechecks
  BY <1>3, <1>9, Zenon
     DEF Approves, Rechecks, ApproveReads, ApproveClaims, ApproveReadsDate, RecheckStarts,
         RecheckLists, RecheckCompares, RecheckStamps
<1>10. CASE Shared
  BY <1>3, <1>5, <1>7, <1>10, Zenon
     DEF Shared, Prepare, Preflight, Reassure, FinishWritten, CommitFails, Release
<1>11. QED
  BY <1>8, <1>9, <1>10 DEF Working

\* An id stays, goes or is new.
LEMMA RemoteIds ==
  ASSUME IInv, [Next]_vars
  PROVE  /\ assets' \in {assets, assets + 1}
         /\ \A l \in Libraries, m \in Media :
               \/ remote'[l][m].id = remote[l][m].id
               \/ remote'[l][m].id = 0
               \/ AssetNew(l, m)
<1>1. CASE Working
  BY <1>1, WorkerRemote DEF AssetDated
<1>2. CASE ~Working
  BY <1>2, OuterRemote, StepKinds DEF AssetGone, NoAsset
<1>3. QED
  BY <1>1, <1>2

\* The list of a recheck is only written by a recheck.
LEMMA SeenStep ==
  ASSUME IInv, [Next]_vars
  PROVE  job'.seen = {} \/ job'.seen = job.seen \/ RecheckLists \/ RecheckCompares
<1>1. job \in Job
  BY DEF IInv, TypeOK
<1>2. Over \/ Again \/ Restart => job'.seen = {}
  <2>1. Over => job'.seen = {}
    BY DEF Over, Done, NoJob
  <2>2. Again => job'.seen = {}
    BY DEF Again, NoJob
  <2>3. Restart => job'.seen = {}
    BY DEF Restart, NoJob
  <2>4. QED
    BY <2>1, <2>2, <2>3
<1>3. CASE StartSend \/ StartRecheck \/ \E r \in Ids : StartApprove(r)
  BY <1>3 DEF StartSend, StartRecheck, StartApprove, Begin, NoJob
<1>4. CASE Working
  <2>1. CASE (\E r \in Ids : Claim(r)) \/ ApproveReads \/ RecheckStarts
    BY <1>1, <1>2, <2>1 DEF Claim, ApproveReads, RecheckStarts, NoLease, Over, Exits, Job
  <2>2. CASE Holds
    BY <2>2 DEF Holds
  <2>3. QED
    BY <1>2, <1>4, <2>1, <2>2, WorkerHolds
<1>5. CASE ~Restart /\ (Requests \/ World \/ (\E m \in Media : Recompute(m)) \/ UNCHANGED vars)
  BY <1>5, OuterJob DEF JobStays, SameHand
<1>6. QED
  BY <1>2, <1>3, <1>4, <1>5, StepKinds DEF World

\* A recheck looks at a row once, and at assets that there are.
LEMMA SeenSafe ==
  ASSUME IInv, SeenFits, AssetsFit, [Next]_vars
  PROVE  SeenFits' /\ \A s \in job'.seen : s.has <= assets'
<1>1. job \in Job /\ assets \in Nat /\ assets' \in {assets, assets + 1}
      /\ \A s \in job.seen : s \in [row : Ids, had : Nat, has : Nat]
  BY RemoteIds, JobType DEF IInv, TypeOK
<1> \A why : Done(why) => job'.seen = {}
  BY DEF Done, NoJob
<1>2. CASE job'.seen = {} \/ job'.seen = job.seen
  BY <1>1, <1>2 DEF SeenFits, AssetsFit
<1>3. CASE RecheckLists /\ job'.seen # {}
  <2> DEFINE rows == {r \in Ids : /\ records[r].epoch = revisions[job.rev].epoch
                                  /\ records[r].state = "complete"
                                  /\ records[r].valid}
  <2>1. job' = [job EXCEPT !.pc = "comparing",
                     !.seen = {[row |-> r, had |-> records[r].asset, has |-> 0] : r \in rows}]
    <3>1. ~Done("done")
      BY <1>3
    <3>2. QED
      BY <1>3, <3>1, Zenon DEF RecheckLists
  <2> HIDE DEF rows
  <2>2. job'.seen = {[row |-> r, had |-> records[r].asset, has |-> 0] : r \in rows}
    BY <1>1, <2>1 DEF Job
  <2>3. SeenFits' /\ \A s \in job'.seen : s.has = 0
    BY <2>2 DEF SeenFits
  <2>4. QED
    BY <1>1, <2>3
<1>4. CASE RecheckCompares /\ job'.seen # {}
  <2> DEFINE found(s) == [s EXCEPT !.has = remote[Server][records[s.row].media].id]
  <2>1. job' = [job EXCEPT !.pc = "stamping", !.seen = {found(s) : s \in @}]
    <3>1. ~Done(NoLease) /\ ~Done("server")
      BY <1>4
    <3>2. QED
      BY <1>4, <3>1, Zenon DEF RecheckCompares
  <2>2. job'.seen = {found(s) : s \in job.seen}
    BY <1>1, <2>1 DEF Job
  <2>3. \A s \in job.seen : /\ found(s).row = s.row /\ found(s).has \in Nat
                               /\ found(s).has <= assets
    <3> SUFFICES ASSUME NEW s \in job.seen
                 PROVE  /\ found(s).row = s.row /\ found(s).has \in Nat
                        /\ found(s).has <= assets
      OBVIOUS
    <3>1. /\ found(s).row = s.row
          /\ found(s).has = remote[Server][records[s.row].media].id
      BY <1>1
    <3>2. records[s.row].media \in Media
      BY <1>1 DEF IInv, RowsFilled
    <3>3. Server \in Libraries
      <4>1. job.kind = "recheck" /\ job.rev \in 1..MaxRevisions
        BY <1>4, WhoIsWhere DEF RecheckCompares, IInv, PcFits
      <4>2. QED
        BY <4>1 DEF IInv, TypeOK, Server, Revision
    <3>4. QED
      <4>1. remote[Server][records[s.row].media] \in Asset
        BY <3>2, <3>3 DEF IInv, TypeOK
      <4>2. QED
        BY <3>1, <3>2, <3>3, <4>1 DEF AssetsFit, Asset
  <2> HIDE DEF found
  <2>4. SeenFits'
    BY <2>2, <2>3 DEF SeenFits
  <2>5. QED
    BY <1>1, <2>2, <2>3, <2>4
<1>5. QED
  BY <1>2, <1>3, <1>4, SeenStep

\* The id a job has in hand is one that the server gave it.
LEMMA AssetInHand ==
  ASSUME IInv, AssetsFit, [Next]_vars
  PROVE  job'.asset <= assets'
<1>1. /\ job \in Job /\ assets \in Nat /\ assets' \in {assets, assets + 1}
      /\ job.asset \in Nat /\ job.asset <= assets
  BY RemoteIds, JobType DEF IInv, TypeOK, AssetsFit
<1>2. CASE job'.asset \in {job.asset, 0}
  BY <1>1, <1>2
<1>3. Over \/ Again \/ Restart => job'.asset = 0
  <2>1. Over => job'.asset = 0
    BY DEF Over, Done, NoJob
  <2>2. Again => job'.asset = 0
    BY DEF Again, NoJob
  <2>3. Restart => job'.asset = 0
    BY DEF Restart, NoJob
  <2>4. QED
    BY <2>1, <2>2, <2>3
<1>4. CASE StartSend \/ StartRecheck \/ \E r \in Ids : StartApprove(r)
  <2>1. job'.asset = 0
    BY <1>4 DEF StartSend, StartRecheck, StartApprove, Begin, NoJob
  <2>2. QED
    BY <1>2, <2>1
<1>5. ASSUME AskCheck \/ SendBytes \/ Observe
      PROVE  /\ There.id \in Nat /\ There.id <= assets
             /\ Mine.asset \in Nat /\ Mine.asset <= assets
  <2>1. job.pc \in HandPCs /\ job.kind # "recheck"
    BY <1>5, WhoIsWhere DEF AskCheck, SendBytes, Observe, At, HandPCs, SendPCs, IInv
  <2>2. There \in Asset /\ Mine \in Record /\ job.mine \in Ids
        /\ Server \in Libraries /\ Mine.media \in Media
    BY <2>1, HandType DEF IInv
  <2>3. There.id \in Nat /\ Mine.asset \in Nat
    BY <2>2, RowType DEF Asset
  <2>4. QED
    BY <2>2, <2>3 DEF AssetsFit, There, Mine
<1>6. CASE AskCheck
  <2>1. job'.asset \in {0, There.id}
    <3>1. CASE Reply("accept", 0) \/ Reply("reject", There.id)
      BY <1>1, <3>1 DEF Reply, Job
    <3>2. CASE job' = [job EXCEPT !.pc = "prepare", !.goal = "adopt",
                               !.reply = "reject", !.asset = There.id]
      BY <1>1, <3>2 DEF Job
    <3>3. QED
      BY <1>6, <3>1, <3>2 DEF AskCheck
  <2>2. QED
    BY <1>1, <1>5, <1>6, <2>1
<1>7. CASE SendBytes
  <2>1. CASE AnswerLost
    <3>1. job.goal = "send"
      BY <1>7 DEF SendBytes, At
    <3>2. Goto("retrying") \/ Goto("failing") \/ Leave("server")
      BY <2>1, <3>1 DEF AnswerLost, Raises
    <3>3. job'.asset \in {job.asset, 0}
      BY <1>1, <1>3, <3>2 DEF Goto, Leave, Over, Exits, Job
    <3>4. QED
      BY <1>2, <3>3
  <2>2. CASE job' = [job EXCEPT !.pc = "prepare", !.goal = "adopt",
                               !.reply = "duplicate", !.asset = There.id]
    <3>1. job'.asset = There.id
      BY <1>1, <2>2 DEF Job
    <3>2. QED
      BY <1>1, <1>5, <1>7, <3>1
  <2>3. CASE Reply("created", assets + 1) /\ assets' = assets + 1
    <3>1. job'.asset = assets + 1
      BY <1>1, <2>3 DEF Reply, Job
    <3>2. QED
      BY <1>1, <2>3, <3>1
  <2>4. QED
    BY <1>7, <2>1, <2>2, <2>3, Zenon DEF SendBytes
<1>8. CASE Observe
  <2>1. job'.asset \in {0, Mine.asset}
    BY <1>1, <1>8 DEF Observe, Reply, Job
  <2>2. QED
    BY <1>1, <1>5, <1>8, <2>1
<1>9. CASE Working
  <2>1. CASE (\E r \in Ids : Claim(r)) \/ ((ApproveReads \/ RecheckStarts) /\ ~Over)
    <3>1. job'.asset = job.asset
      BY <1>1, <2>1 DEF Claim, ApproveReads, RecheckStarts, NoLease, Over, Exits, Job
    <3>2. QED
      BY <1>2, <3>1
  <2>2. CASE Again \/ Over
    BY <1>2, <1>3, <2>2
  <2>3. CASE Holds
    BY <1>2, <1>6, <1>7, <1>8, <2>3 DEF Holds
  <2>4. QED
    BY <1>9, <2>1, <2>2, <2>3, WorkerHolds
<1>10. CASE ~Restart /\ (Requests \/ World \/ (\E m \in Media : Recompute(m)) \/ UNCHANGED vars)
  BY <1>2, <1>10, OuterJob DEF JobStays
<1>11. QED
  BY <1>2, <1>3, <1>4, <1>9, <1>10, StepKinds DEF World

\* An asset id is given out once, and nobody knows one that was not.
LEMMA AssetsFitSafe ==
  ASSUME IInv, IInv', SeenFits, AssetsFit, [Next]_vars
  PROVE  AssetsFit'
<1>1. /\ assets \in Nat /\ assets' \in {assets, assets + 1} /\ assets' \in Nat
      /\ \A l \in Libraries, m \in Media :
            /\ remote[l][m].id \in Nat /\ remote[l][m].id <= assets
            /\ remote'[l][m].id \in Nat
  BY RemoteIds DEF IInv, TypeOK, AssetsFit, Asset
<1>2. ASSUME NEW l \in Libraries, NEW m \in Media
      PROVE  remote'[l][m].id <= assets'
  <2>1. CASE remote'[l][m].id = remote[l][m].id \/ remote'[l][m].id = 0
    BY <1>1, <2>1
  <2>2. CASE AssetNew(l, m)
    BY <1>1, <2>2 DEF AssetNew
  <2>3. QED
    BY <2>1, <2>2, RemoteIds
<1>3. ASSUME NEW l \in Libraries, NEW k \in Libraries, NEW m \in Media, NEW n \in Media,
             remote'[l][m].id # 0, remote'[l][m].id = remote'[k][n].id
      PROVE  l = k /\ m = n
  <2>1. CASE AssetNew(l, m) \/ AssetNew(k, n)
    <3>1. ASSUME NEW a \in Libraries, NEW b \in Media, NEW c \in Libraries, NEW d \in Media,
                 AssetNew(a, b), c # a \/ d # b
          PROVE  remote'[c][d].id # remote'[a][b].id
      <4>1. remote'[c][d] = remote[c][d] /\ remote'[a][b].id = assets + 1
        BY <3>1 DEF AssetNew
      <4>2. remote[c][d].id \in Nat /\ remote[c][d].id <= assets /\ assets \in Nat
        BY <1>1
      <4>3. QED
        BY <4>1, <4>2
    <3>2. CASE AssetNew(l, m)
      BY <1>3, <3>2, <3>1
    <3>3. CASE AssetNew(k, n)
      BY <1>3, <3>3, <3>1
    <3>4. QED
      BY <2>1, <3>2, <3>3
  <2>2. CASE ~AssetNew(l, m) /\ ~AssetNew(k, n)
    <3>1. remote'[l][m].id = remote[l][m].id /\ remote'[k][n].id = remote[k][n].id
      BY <1>3, <2>2, RemoteIds
    <3>2. remote[l][m].id # 0 /\ remote[l][m].id = remote[k][n].id
      BY <1>3, <3>1
    <3>3. \A a, c \in Libraries, b, d \in Media :
             remote[a][b].id # 0 /\ remote[a][b].id = remote[c][d].id => a = c /\ b = d
      BY DEF AssetsFit
    <3>4. QED
      BY <1>3, <3>2, <3>3
  <2>3. QED
    BY <2>1, <2>2
<1>4. ASSUME NEW r \in Ids
      PROVE  records'[r].asset <= assets'
  <2>1. records[r].asset \in Nat /\ records[r].asset <= assets
    BY RowType DEF IInv, TypeOK, AssetsFit
  <2>2. \/ records'[r].asset \in {records[r].asset, 0, job.asset}
        \/ \E s \in job.seen : records'[r].asset = s.has
    <3>1. CASE RowKept(r) \/ RowNew(r)
      BY <3>1 DEF RowKept, RowNew
    <3>2. CASE Claim(r)
      BY <3>2, ClaimedRow
    <3>3. CASE RecheckStamps
      BY <3>3, StampedRow
    <3>4. CASE r = job.mine /\ (AssetKnown \/ FinishPlain \/ FinishObserved \/ FinishWritten
                                \/ Release)
      BY <3>4, KnownRow, FinishedRow, ReleasedRow DEF Mine
    <3>5. QED
      BY <3>1, <3>2, <3>3, <3>4, RowSteps
  <2>3. job.asset \in Nat /\ job.asset <= assets
        /\ \A s \in job.seen : s.has \in Nat /\ s.has <= assets
    BY JobType DEF IInv, AssetsFit
  <2>4. QED
    BY <1>1, <2>1, <2>2, <2>3
<1>5. QED
  BY <1>2, <1>3, <1>4, AssetInHand, SeenSafe DEF AssetsFit

-----------------------------------------------------------------------------
(* The right date: every step keeps it                                     *)

\* A job that begins, ends or takes up another row has read no date.
Fresh == /\ job'.goal \in {job.goal, "none", "recheck"}
         /\ job'.kind = "approve" => job'.pc \notin HandPCs
         /\ job'.kind = "send" => job'.pc \notin ReadPCs
         /\ job'.pc # "commit"
         /\ job'.kind = "send" => job'.reply = "none"

\* The steps that take another job or another row up.
LEMMA FreshWork ==
  ASSUME IInv, Again \/ Over \/ ApproveReads \/ RecheckStarts \/ \E r \in Ids : Claim(r)
  PROVE  Fresh
<1>1. job \in Job /\ TypeOK
  BY DEF IInv, TypeOK
<1>2. CASE Again
  <2>1. job'.goal = "none" /\ job'.pc = "head" /\ job'.reply = "none"
    BY <1>2 DEF Again, NoJob
  <2>2. QED
    BY <2>1 DEF Fresh, HandPCs, SendPCs, ReadPCs, GuardPCs
<1>3. Over => Fresh
  <2>1. Over => job'.goal = "none" /\ job'.pc = "idle" /\ job'.reply = "none"
    BY DEF Over, Done, NoJob
  <2>2. QED
    BY <2>1 DEF Fresh, HandPCs, SendPCs, ReadPCs, GuardPCs
<1>4. CASE ApproveReads
  <2>1. CASE job' = [job EXCEPT !.pc = "approving", !.rev = Mine.rev]
    <3>1. job'.goal = job.goal /\ job'.pc = "approving" /\ job'.reply = job.reply
      BY <1>1, <2>1 DEF Job
    <3>2. job.reply = "none"
      BY <1>4, WhoIsWhere DEF IInv, ApproveReads, FirstAnswer
    <3>3. QED
      BY <3>1, <3>2 DEF Fresh, HandPCs, SendPCs, ReadPCs, GuardPCs
  <2>2. CASE Done("done")
    BY <1>3, <2>2 DEF Over, Exits
  <2>3. QED
    BY <1>4, <2>1, <2>2 DEF ApproveReads
<1>5. CASE RecheckStarts
  <2>1. CASE job' = [job EXCEPT !.pc = "preflight", !.goal = "recheck", !.rev = current]
    <3>1. /\ job'.goal = "recheck" /\ job'.pc = "preflight" /\ job'.kind = job.kind
          /\ job'.reply = job.reply
      BY <1>1, <2>1 DEF Job
    <3>2. job.kind = "recheck"
      BY <1>5, JobType DEF IInv, RecheckStarts, PcFits, SendPCs, ApprovePCs
    <3>3. QED
      BY <3>1, <3>2 DEF Fresh
  <2>2. CASE Done(NoLease)
    BY <1>3, <2>2 DEF Over, Exits, NoLease
  <2>3. QED
    BY <1>5, <2>1, <2>2 DEF RecheckStarts
<1>6. ASSUME NEW r \in Ids, Claim(r)
      PROVE  Fresh
  <2>1. /\ job'.goal = job.goal /\ job'.pc = "claimed" /\ job'.kind = job.kind
        /\ job'.reply = job.reply
    BY <1>1, <1>6 DEF Claim, Job
  <2>2. job.kind = "send" /\ job.reply = "none"
    BY <1>6, JobType DEF IInv, Claim, PcFits, RecheckPCs, ApprovePCs, FirstAnswer
  <2>3. QED
    BY <2>1, <2>2 DEF Fresh, ReadPCs, GuardPCs
<1>7. QED
  BY <1>2, <1>3, <1>4, <1>5, <1>6

\* What a step makes of the job.
LEMMA JobPath ==
  ASSUME IInv, [Next]_vars
  PROVE  \/ /\ JobStays
            /\ Requests \/ World \/ (\E m \in Media : Recompute(m)) \/ UNCHANGED vars
         \/ Fresh
         \/ Working /\ Holds
<1>1. CASE Restart
  <2>1. job'.goal = "none" /\ job'.pc = "idle" /\ job'.reply = "none"
    BY <1>1 DEF Restart, NoJob
  <2>2. QED
    BY <2>1 DEF Fresh, HandPCs, SendPCs, ReadPCs, GuardPCs
<1>2. CASE StartSend \/ StartRecheck \/ \E r \in Ids : StartApprove(r)
  <2>1. job'.goal = "none" /\ job'.pc \in {"head", "asked", "starting"} /\ job'.reply = "none"
    BY <1>2 DEF StartSend, StartRecheck, StartApprove, Begin, NoJob
  <2>2. QED
    BY <2>1 DEF Fresh, HandPCs, SendPCs, ReadPCs, GuardPCs
<1>3. CASE Working
  BY <1>3, WorkerHolds, FreshWork
<1>4. CASE ~Restart /\ (Requests \/ World \/ (\E m \in Media : Recompute(m)) \/ UNCHANGED vars)
  BY <1>4, OuterJob
<1>5. QED
  BY <1>1, <1>2, <1>3, <1>4, StepKinds

\* Nobody comes to wait, or to write, where no date is written.
LEMMA DatesAreWantedSafe ==
  ASSUME IInv, SeenFits, DatesAreWanted, [Next]_vars
  PROVE  DatesAreWanted'
<1> SUFFICES ASSUME ~FixesDate
             PROVE  /\ \A r \in Ids : records'[r].state # Waiting /\ records'[r].ending # "written"
                    /\ job'.goal \notin {"observe", "fix"}
                    /\ job'.kind = "approve" => job'.pc \notin HandPCs
  BY DEF DatesAreWanted
<1>1. /\ \A r \in Ids : records[r].state # Waiting /\ records[r].ending # "written"
      /\ job.goal \notin {"observe", "fix"}
      /\ job.kind = "approve" => job.pc \notin HandPCs
      /\ PcFits /\ InHand /\ TypeOK
  BY DEF DatesAreWanted, IInv
<1>2. ASSUME NEW r \in Ids
      PROVE  records'[r].state # Waiting /\ records'[r].ending # "written"
  <2>1. CASE RowKept(r) \/ RowNew(r)
    BY <1>1, <2>1 DEF RowKept, RowNew, Waiting
  <2>2. CASE Claim(r)
    BY <1>1, <2>2, ClaimedRow DEF Waiting
  <2>3. CASE RecheckStamps
    BY <1>1, <2>3, StampedRow
  <2>4. CASE r = job.mine /\ AssetKnown
    BY <1>1, <2>4, KnownRow DEF Mine, Waiting
  <2>5. ASSUME FinishPlain \/ FinishObserved \/ FinishWritten
        PROVE  ~FinishObserved /\ ~FinishWritten
    <3>1. ~FinishObserved
      BY <1>1 DEF FinishObserved
    <3>2. FinishWritten => job.kind = "approve" /\ job.pc \in HandPCs
      BY <1>1 DEF FinishWritten, Commits, PcFits, GuardPCs, HandPCs, SendPCs
    <3>3. QED
      BY <1>1, <3>1, <3>2
  <2>6. CASE r = job.mine /\ (FinishPlain \/ FinishObserved \/ FinishWritten)
    BY <1>1, <2>5, <2>6, FinishedRow DEF Mine
  <2>7. ~(Release /\ job.kind = "approve")
    BY <1>1 DEF Release, HandPCs, SendPCs
  <2>8. QED
    BY <2>1, <2>2, <2>3, <2>4, <2>6, <2>7, RowSteps
<1>3. ASSUME JobStays
      PROVE  /\ job'.goal \notin {"observe", "fix"}
             /\ job'.kind = "approve" => job'.pc \notin HandPCs
  BY <1>1, <1>3 DEF JobStays, SameHand
<1>4. ASSUME Fresh
      PROVE  /\ job'.goal \notin {"observe", "fix"}
             /\ job'.kind = "approve" => job'.pc \notin HandPCs
  BY <1>1, <1>4 DEF Fresh
<1>5. ASSUME Holds
      PROVE  /\ job'.goal \notin {"observe", "fix"}
             /\ job'.kind = "approve" => job'.pc \notin HandPCs
  <2>1. job'.kind = "approve" => ~ApproveClaims
    <3>1. ASSUME ApproveClaims
          PROVE  job'.kind = "none"
      <4>1. job.mine \in Ids
        BY <1>1, <3>1, JobType, Constants DEF ApproveClaims, InHand, PcFits, SendPCs, RecheckPCs
      <4>2. Done("done")
        BY <1>1, <3>1, <4>1 DEF ApproveClaims, Mine
      <4>3. QED
        BY <4>2 DEF Done, NoJob
    <3>2. QED
      BY <3>1
  <2>2. QED
    BY <1>1, <1>5, <2>1 DEF Holds
<1>6. QED
  BY <1>2, <1>3, <1>4, <1>5, JobPath

Moved(m) == ZoneOverride(m) \/ Recompute(m)

\* A capture date changes by an override or a recomputation, which send back what
\* was written with the old one.
LEMMA CapturedMoves ==
  ASSUME IInv, [Next]_vars, NEW m \in Media, ~Moved(m)
  PROVE  captured'[m] = captured[m]
<1>1. CASE captured' = captured
  BY <1>1
<1>2. ASSUME NEW n \in Media, Moved(n)
      PROVE  captured'[m] = captured[m]
  <2>1. m # n
    BY <1>2
  <2>2. QED
    BY <1>2, <2>1 DEF Moved, ZoneOverride, Recompute, IInv, TypeOK
<1>3. CASE Requests
  <2>1. captured' = captured \/ \E n \in Media : ZoneOverride(n)
    BY <1>3 DEF Requests, CreatePair, CreateGroup, EditGroup, Retry, RejectReads,
                RejectSettles, EditDestination, Purge, Toggle, Cancel
  <2>2. QED
    BY <1>1, <1>2, <2>1 DEF Moved
<1>4. CASE World
  BY <1>1, <1>4 DEF World, OtherUploads, OtherDeletes, Swap, LeaseExpires, ClaimExpires, Restart
<1>5. CASE Working
  BY <1>1, <1>5, WorkerKeeps
<1>6. CASE StartSend \/ StartRecheck \/ \E r \in Ids : StartApprove(r)
  BY <1>1, <1>6 DEF StartSend, StartRecheck, StartApprove, Begin, Worker
<1>7. QED
  BY <1>1, <1>2, <1>3, <1>4, <1>5, <1>6, StepKinds DEF Moved

\* A row that says its date was written said so before, of the same asset and the
\* same date, or the job has just settled it.
LEMMA WrittenRow ==
  ASSUME IInv, SeenFits, DatesAreWanted, [Next]_vars, NEW r \in Ids, IsWritten(r)'
  PROVE  /\ records'[r].media = records[r].media
         /\ records'[r].asset = records[r].asset
         /\ records[r].valid
         /\ \/ IsWritten(r) /\ ~Moved(records[r].media)
            \/ r = job.mine /\ FinishWritten
<1>1. /\ records'[r].state = "complete" /\ records'[r].valid
      /\ records'[r].ending = "written"
  BY DEF IsWritten
<1>2. IsWritten(r) => ~Moved(records[r].media)
  <2> SUFFICES ASSUME IsWritten(r), Moved(records[r].media)
               PROVE  FALSE
    OBVIOUS
  <2>1. FixesDate
    BY DEF DatesAreWanted, IsWritten
  <2>2. records'[r] = [records[r] EXCEPT !.state = "needs_recheck"]
    BY <2>1 DEF Moved, ZoneOverride, Recompute, Requeue, IsWritten
  <2>3. records[r] \in Record
    BY DEF IInv, TypeOK
  <2>4. QED
    BY <1>1, <2>2, <2>3 DEF Record
<1>3. CASE RowKept(r)
  BY <1>1, <1>2, <1>3 DEF RowKept, IsWritten
<1>4. CASE RecheckStamps
  BY <1>1, <1>2, <1>4, StampedRow DEF IsWritten
<1>5. CASE r = job.mine /\ (FinishPlain \/ FinishObserved \/ FinishWritten)
  BY <1>1, <1>5, FinishedRow DEF Mine
<1>6. ~RowNew(r) /\ ~Claim(r) /\ ~(r = job.mine /\ (AssetKnown \/ Release))
  <2>1. ~RowNew(r)
    BY <1>1 DEF RowNew
  <2>2. ~Claim(r)
    BY <1>1, ClaimedRow
  <2>3. ~(r = job.mine /\ (AssetKnown \/ Release))
    BY <1>1, KnownRow, ReleasedRow
  <2>4. QED
    BY <2>1, <2>2, <2>3
<1>7. QED
  BY <1>3, <1>4, <1>5, <1>6, RowSteps

\* The row in hand is nobody else's: it stays the row it is, and is not made valid.
LEMMA HandRowStays ==
  ASSUME IInv, [Next]_vars, job.kind # "recheck", job.pc \in HandPCs
  PROVE  /\ job.mine \in Ids /\ Mine.media \in Media /\ Mine.state \in Active
         /\ records'[job.mine].media = Mine.media
         /\ records'[job.mine].valid => Mine.valid
<1>1. job.mine \in Ids /\ Mine.media \in Media /\ Mine.state \in Active
  BY HandType DEF IInv
<1>2. ~RowNew(job.mine) /\ ~Claim(job.mine)
  BY <1>1 DEF RowNew, Claim, CanClaim, Claimable, Active, Mine
<1>3. CASE RowKept(job.mine)
  BY <1>1, <1>3 DEF RowKept, Mine
<1>4. CASE RecheckStamps
  BY <1>1, <1>4, StampedRow DEF Mine
<1>5. CASE AssetKnown \/ FinishPlain \/ FinishObserved \/ FinishWritten \/ Release
  BY <1>1, <1>5, KnownRow, FinishedRow, ReleasedRow
<1>6. QED
  BY <1>1, <1>2, <1>3, <1>4, <1>5, RowSteps

\* Where a date has been read, a row is in hand.
LEMMA ReadInHand ==
  ASSUME IInv, DateIsRead
  PROVE  job.kind # "recheck" /\ job.kind # "none" /\ job.pc \in HandPCs
  BY DEF DateIsRead, GuardPCs, HandPCs, SendPCs

\* A date that has been read stays the date of now: what changes the date of a row
\* in hand has found the row out of force.
LEMMA DateHeld ==
  ASSUME IInv, SeenFits, DatesAreWanted, DateInHand, [Next]_vars, DateIsRead,
         job'.mine = job.mine, job'.date = job.date
  PROVE  DateInHand'
<1>1. job.kind # "recheck" /\ job.kind # "none" /\ job.pc \in HandPCs
  BY ReadInHand
<1>2. /\ job.mine \in Ids /\ Mine.media \in Media /\ Mine.state \in Active
      /\ records'[job.mine].media = Mine.media
      /\ records'[job.mine].valid => Mine.valid
  BY <1>1, HandRowStays
<1>3. /\ Mine'.media = Mine.media
      /\ Mine'.valid => Mine.valid
  BY <1>2 DEF Mine
<1>4. CASE ~Moved(Mine.media) /\ job.date = captured[Mine.media]
  <2>1. job'.date = captured'[Mine'.media]
    BY <1>2, <1>3, <1>4, CapturedMoves
  <2>2. QED
    BY <2>1 DEF DateInHand
<1>5. ASSUME ~Mine.valid,
             \A r \in Ids : IsWritten(r) /\ ~Moved(records[r].media)
                               => records[r].media # Mine.media
      PROVE  DateInHand'
  <2>1. ASSUME NEW r \in Ids, IsWritten(r)'
        PROVE  records'[r].media # Mine'.media
    BY <1>3, <1>5, <2>1, WrittenRow DEF Mine
  <2>2. QED
    BY <1>3, <1>5, <2>1 DEF DateInHand
<1>6. CASE Moved(Mine.media)
  <2>1. ~Mine.valid
    BY <1>1, <1>2, <1>6 DEF Moved, ZoneOverride, Recompute, Mine
  <2>2. QED
    BY <1>5, <1>6, <2>1
<1>7. CASE /\ ~Mine.valid
           /\ \A r \in Ids : IsWritten(r) => records[r].media # Mine.media
  BY <1>5, <1>7
<1>8. QED
  BY <1>4, <1>6, <1>7 DEF DateInHand

\* A date is read, or held.
LEMMA DateInHandSafe ==
  ASSUME IInv, SeenFits, DatesAreWanted, DateInHand, [Next]_vars
  PROVE  DateInHand'
<1>1. job \in Job /\ TypeOK /\ PcFits
  BY DEF IInv, TypeOK
<1>2. CASE ~DateIsRead'
  BY <1>2 DEF DateInHand
<1>3. CASE Fresh
  <2>1. ~DateIsRead'
    BY <1>3 DEF Fresh, DateIsRead, ReadPCs, GuardPCs, HandPCs, SendPCs
  <2>2. QED
    BY <1>2, <2>1
<1>4. CASE JobStays /\ DateIsRead'
  <2>1. DateIsRead /\ job'.mine = job.mine /\ job'.date = job.date
    BY <1>4 DEF JobStays, SameHand, DateIsRead
  <2>2. QED
    BY <2>1, DateHeld
<1>5. CASE Working /\ Holds /\ DateIsRead'
  <2>1. CASE (CheckClaimed \/ ApproveReadsDate) /\ job'.date = captured[Mine.media]
    <3>1. captured' = captured
      BY <1>5, WorkerKeeps
    <3>2. records' = records /\ job'.mine = job.mine
      BY <1>5, <2>1 DEF CheckClaimed, ApproveReadsDate, Still, Worker, Holds
    <3>3. job'.date = captured'[Mine'.media]
      BY <2>1, <3>1, <3>2 DEF Mine
    <3>4. QED
      BY <3>3 DEF DateInHand
  <2>2. CASE ApproveReadsDate
    BY <1>1, <2>1, <2>2 DEF ApproveReadsDate, Job
  <2>3. ASSUME CheckClaimed
        PROVE  job'.date = captured[Mine.media]
    <3>1. job'.kind = "send" /\ job'.pc \in ReadPCs
      BY <1>1, <1>5, <2>3, WhoIsWhere DEF CheckClaimed, Holds, DateIsRead, ReadPCs, GuardPCs
    <3>2. ~Goto("refusing") /\ ~Leave("key")
      <4>1. Goto("refusing") => job'.pc = "refusing"
        BY <1>1 DEF Goto, Job
      <4>2. Leave("key") => job'.pc \in {"leaving", "idle"}
        BY <1>1 DEF Leave, Done, NoJob, Job
      <4>3. QED
        BY <3>1, <4>1, <4>2 DEF ReadPCs, GuardPCs
    <3>3. job' = [job EXCEPT !.pc = "prepare", !.goal = "check",
                             !.date = captured[Mine.media]]
      BY <2>3, <3>2 DEF CheckClaimed
    <3>4. QED
      BY <1>1, <3>3 DEF Job
  <2>4. CASE ~CheckClaimed /\ ~ApproveReadsDate
    <3>1. /\ job'.kind = job.kind /\ job'.mine = job.mine /\ job'.date = job.date
          /\ job.kind \in {"send", "approve"} /\ job'.pc \in ReadPCs
      BY <1>5, <2>4 DEF Holds, DateIsRead, ReadPCs, GuardPCs
    <3>2. job.pc \in ReadPCs
      BY <1>5, <2>4, <3>1 DEF Holds
    <3>3. DateIsRead
      BY <1>1, <3>1, <3>2 DEF DateIsRead, ReadPCs, GuardPCs, PcFits, ApprovePCs
    <3>4. QED
      BY <3>1, <3>3, DateHeld
  <2>5. QED
    BY <2>1, <2>2, <2>3, <2>4
<1>6. QED
  BY <1>2, <1>3, <1>4, <1>5, JobPath

\* The date of an asset changes by the worker's own request only.
LEMMA RemoteDates ==
  ASSUME IInv, [Next]_vars
  PROVE  \A l \in Libraries, m \in Media :
            \/ remote'[l][m] = remote[l][m]
            \/ AssetGone(l, m)
            \/ AssetNew(l, m)
            \/ AssetDated(l, m)
<1>1. CASE Working
  BY <1>1, WorkerRemote
<1>2. CASE ~Working
  BY <1>2, OuterRemote, StepKinds
<1>3. QED
  BY <1>1, <1>2

\* A date that was written has arrived at the one asset that the row knows.
LEMMA DateArrivedSafe ==
  ASSUME IInv, SeenFits, AssetsFit, DateArrived, [Next]_vars
  PROVE  DateArrived'
<1>1. /\ job \in Job /\ TypeOK /\ PcFits /\ assets \in Nat
      /\ \A r \in Ids : records[r] \in Record
  BY DEF IInv, TypeOK
<1> SUFFICES ASSUME job'.pc = "commit", job'.goal \in {"fix", "approve"},
                    NEW l \in Libraries,
                    remote'[l][Mine'.media].id # 0,
                    remote'[l][Mine'.media].id = Mine'.asset
             PROVE  remote'[l][Mine'.media].date = job'.date
  BY DEF DateArrived
<1>2. ~Fresh
  BY DEF Fresh
<1>3. CASE /\ JobStays
           /\ Requests \/ World \/ (\E m \in Media : Recompute(m)) \/ UNCHANGED vars
  <2>1. /\ job.pc = "commit" /\ job.goal \in {"fix", "approve"}
        /\ job'.mine = job.mine /\ job'.date = job.date
    BY <1>3 DEF JobStays, SameHand
  <2>2. job.kind # "recheck" /\ job.pc \in HandPCs
    BY <1>1, <2>1, WhoIsWhere DEF HandPCs, SendPCs
  <2>3. job.mine \in Ids /\ Mine.media \in Media /\ Mine.state \in Active
    BY <2>2, HandRowStays
  <2>4. records'[job.mine].media = Mine.media /\ records'[job.mine].asset = Mine.asset
    <3>1. CASE UNCHANGED vars
      BY <2>3, <3>1 DEF Mine
    <3>2. CASE RowKept(job.mine)
      BY <3>2 DEF RowKept, Mine
    <3>3. ~RowNew(job.mine)
      BY <2>3 DEF RowNew, Active, Mine
    <3>4. QED
      BY <1>3, <2>3, <3>1, <3>2, <3>3, OuterRows
  <2>5. Mine'.media = Mine.media /\ Mine'.asset = Mine.asset
    BY <2>1, <2>4 DEF Mine
  <2>6. CASE remote'[l][Mine.media] = remote[l][Mine.media]
    BY <2>1, <2>5, <2>6 DEF DateArrived
  <2>7. ~AssetNew(l, Mine.media)
    <3>1. Mine.asset <= assets /\ Mine.asset \in Nat
      BY <1>1, <2>3, RowType DEF AssetsFit, Mine
    <3>2. QED
      BY <1>1, <2>5, <3>1 DEF AssetNew
  <2>8. QED
    BY <1>3, <2>3, <2>5, <2>6, <2>7, OuterRemote DEF AssetGone, NoAsset
<1>4. CASE Working /\ Holds
  <2>1. PutDate /\ job'.mine = job.mine
    BY <1>4 DEF Holds
  <2>2. /\ Known /\ Reply("none", 0)
        /\ remote' = [remote EXCEPT ![Server][Mine.media].date = job.date]
    <3>1. /\ ~Leave("server") /\ ~Goto("failing") /\ ~Goto("retrying")
      <4>1. \A pc : Goto(pc) => job'.pc = pc
        BY <1>1 DEF Goto, Job
      <4>2. Leave("server") => job'.pc \in {"leaving", "idle"}
        BY <1>1 DEF Leave, Done, NoJob, Job
      <4>3. QED
        BY <4>1, <4>2
    <3>2. job.goal \in {"fix", "approve"}
      BY <2>1 DEF PutDate, At
    <3>3. ~AnswerLost
      BY <3>1, <3>2 DEF AnswerLost, Raises
    <3>4. QED
      BY <2>1, <3>1, <3>3, Zenon DEF PutDate
  <2>3. job.kind # "recheck" /\ job.pc \in HandPCs
    BY <1>1, <2>1, WhoIsWhere DEF PutDate, At, HandPCs, SendPCs
  <2>4. job.mine \in Ids /\ Mine.media \in Media /\ Server \in Libraries
    BY <2>3, HandType DEF IInv
  <2>5. Mine' = Mine /\ job'.date = job.date
    <3>1. records' = records
      BY <2>1 DEF PutDate, Worker
    <3>2. QED
      BY <1>1, <2>1, <2>2, <3>1 DEF Mine, Reply, Job
  <2>6. CASE l = Server
    BY <2>2, <2>4, <2>5, <2>6, <1>1 DEF TypeOK, Asset
  <2>7. CASE l # Server
    <3>1. remote'[l][Mine.media] = remote[l][Mine.media]
      BY <2>2, <2>4, <2>7, <1>1 DEF TypeOK
    <3>2. /\ remote[l][Mine.media].id # 0
          /\ remote[l][Mine.media].id = remote[Server][Mine.media].id
      BY <2>2, <2>5, <3>1 DEF Known, There
    <3>3. \A a, c \in Libraries, b, d \in Media :
             remote[a][b].id # 0 /\ remote[a][b].id = remote[c][d].id => a = c /\ b = d
      BY DEF AssetsFit
    <3>4. QED
      BY <2>4, <2>7, <3>2, <3>3
  <2>8. QED
    BY <2>6, <2>7
<1>5. QED
  BY <1>2, <1>3, <1>4, JobPath

\* What says it was written stays true, whatever races it.
LEMMA DateFollowsSafe ==
  ASSUME IInv, DatesFit, [Next]_vars
  PROVE  DateFollowsCapture'
<1>1. /\ TypeOK /\ PcFits /\ SeenFits /\ AssetsFit /\ DatesAreWanted /\ DateInHand
      /\ DateArrived /\ DateFollowsCapture /\ assets \in Nat
      /\ \A r \in Ids : records[r] \in Record
  BY DEF DatesFit, IInv, TypeOK
<1> SUFFICES ASSUME NEW r \in Ids, NEW l \in Libraries, IsWritten(r)',
                    remote'[l][records'[r].media].id = records'[r].asset,
                    remote'[l][records'[r].media].id # 0
             PROVE  remote'[l][records'[r].media].date = captured'[records'[r].media]
  BY DEF DateFollowsCapture, IsWritten
<1> DEFINE m == records[r].media
<1>2. /\ records'[r].media = m /\ records'[r].asset = records[r].asset
      /\ records[r].valid
      /\ (IsWritten(r) /\ ~Moved(m)) \/ (r = job.mine /\ FinishWritten)
  BY <1>1, WrittenRow
<1>3. CASE IsWritten(r) /\ ~Moved(m)
  <2>1. m \in Media
    BY <1>3 DEF IInv, RowsFilled, IsWritten
  <2>2. captured'[m] = captured[m]
    BY <1>3, <2>1, CapturedMoves
  <2>3. CASE remote'[l][m] = remote[l][m]
    BY <1>1, <1>2, <1>3, <2>2, <2>3 DEF DateFollowsCapture, IsWritten
  <2>4. ~AssetNew(l, m)
    <3>1. records[r].asset <= assets /\ records[r].asset \in Nat
      BY <1>1, RowType DEF AssetsFit
    <3>2. QED
      BY <1>1, <1>2, <3>1 DEF AssetNew
  <2>5. CASE AssetDated(l, m)
    <3>1. m = Mine.media /\ job.pc = "request" /\ remote'[l][m].date = job.date
      BY <2>5 DEF AssetDated, PutDate, At
    <3>2. DateIsRead
      BY <1>1, <3>1, JobType, WhoIsWhere DEF DateIsRead, GuardPCs, PcFits
    <3>3. job.date = captured[Mine.media]
      BY <1>1, <1>3, <3>1, <3>2 DEF DateInHand
    <3>4. QED
      BY <1>2, <2>2, <3>1, <3>3
  <2>6. QED
    BY <1>2, <2>1, <2>3, <2>4, <2>5, RemoteDates DEF AssetGone, NoAsset
<1>4. CASE r = job.mine /\ FinishWritten
  <2>1. /\ job.pc = "commit" /\ job.goal \in {"fix", "approve"} /\ Mine.valid
        /\ remote' = remote /\ captured' = captured
    BY <1>4 DEF FinishWritten, Commits, Owned, Mine, Steps, Worker
  <2>2. DateIsRead
    BY <1>1, <2>1, JobType, WhoIsWhere DEF DateIsRead, GuardPCs, PcFits
  <2>3. job.date = captured[m]
    BY <1>1, <1>4, <2>1, <2>2 DEF DateInHand, Mine
  <2>4. remote[l][m].date = job.date
    BY <1>1, <1>2, <1>4, <2>1 DEF DateArrived, Mine
  <2>5. QED
    BY <1>2, <2>1, <2>3, <2>4
<1>5. QED
  BY <1>2, <1>3, <1>4

\* The dates of the catalogue, of the job and of the libraries fit, in every state.
THEOREM DatesInductive == Spec => []DatesFit
<1>1. ASSUME Init
      PROVE  DatesFit
  <2>1. /\ job = NoJob /\ assets = 0
        /\ \A r \in Ids : records[r] = Absent
        /\ \A l \in Libraries, m \in Media : remote[l][m] = NoAsset
    BY <1>1 DEF Init
  <2>2. job.seen = {} /\ job.asset = 0 /\ job.pc = "idle" /\ job.kind = "none"
        /\ job.goal = "none"
    BY <2>1 DEF NoJob
  <2>3. \A r \in Ids : /\ records[r].asset = 0 /\ records[r].state = "absent"
                       /\ records[r].ending = "none"
    BY <2>1 DEF Absent
  <2>4. \A l \in Libraries, m \in Media : remote[l][m].id = 0
    BY <2>1 DEF NoAsset
  <2>5. SeenFits /\ AssetsFit
    BY <2>1, <2>2, <2>3, <2>4 DEF SeenFits, AssetsFit
  <2>6. DatesAreWanted
    BY <2>2, <2>3 DEF DatesAreWanted, Waiting
  <2>7. DateInHand /\ DateArrived
    BY <2>2 DEF DateInHand, DateIsRead, DateArrived
  <2>8. DateFollowsCapture
    BY <2>3 DEF DateFollowsCapture
  <2>9. QED
    BY <2>5, <2>6, <2>7, <2>8 DEF DatesFit
<1>2. ASSUME IInv, IInv', DatesFit, [Next]_vars
      PROVE  DatesFit'
  BY <1>2, SeenSafe, AssetsFitSafe, DatesAreWantedSafe, DateInHandSafe, DateArrivedSafe,
     DateFollowsSafe DEF DatesFit
<1>3. QED
  BY <1>1, <1>2, Inductive, PTL DEF Spec

\* A row that says its date was written tells the truth, also after what raced it.
THEOREM DatesFollow == Spec => []DateFollowsCapture
<1>1. DatesFit => DateFollowsCapture
  BY DEF DatesFit
<1>2. QED
  BY <1>1, DatesInductive, PTL

-----------------------------------------------------------------------------
(* Only what is ours *)

\* An epoch is one library, and no epoch is later than that of now.
EpochsFit ==
    /\ \A v \in 1..current : revisions[v].epoch <= Epoch
    /\ \A v, w \in 1..current :
          revisions[v].epoch = revisions[w].epoch => revisions[v].user = revisions[w].user

\* No id is no asset.
IdsFit == \A l \in Libraries, m \in Media : remote[l][m].id = 0 => remote[l][m] = NoAsset

\* What is there is of our making, or one of those that may pass for it.
OursHere(l, m) == remote[l][m].ours \/ <<l, m>> \in mistaken

\* In the library of a revision ...
Ours(v, m) == OursHere(revisions[v].user, m)

\* ... and wherever an asset is.
OursOnly(a, m) == \A l \in Libraries :
    remote[l][m] # NoAsset /\ remote[l][m].id = a => OursHere(l, m)

\* A row that says so is about an asset of ours ...
OriginsFit ==
    \A r \in Ids : records[r].origin = "created_by_us" =>
        /\ records[r].media \in Media
        /\ records[r].rev # 0
        /\ Ours(records[r].rev, records[r].media)

\* ... and so is the answer that will have a row say so.
CreatedFits == job.kind = "send" /\ job.reply = "created" => Ours(job.rev, Mine.media)

\* The asset of an answer that is taken for ours, and then that of the row in hand.
Taken == job.reply = "created" \/ (job.reply = "reject" /\ Mine.origin = "created_by_us")

ReplyOurs == job.kind = "send" /\ Taken => OursOnly(job.asset, Mine.media)

HandOurs == job.kind = "send" /\ Placed /\ Mine.origin = "created_by_us"
                => OursOnly(Mine.asset, Mine.media)

\* A date is written without being asked about for such a row only.
FixesOurs == Fixing => Mine.origin = "created_by_us"

OursFit == EpochsFit /\ IdsFit /\ OriginsFit /\ CreatedFits /\ ReplyOurs /\ HandOurs /\ FixesOurs

\* An edit begins an epoch for another library.
LEMMA EpochsFitSafe ==
  ASSUME IInv, EpochsFit, [Next]_vars
  PROVE  EpochsFit'
<1>1. /\ current \in 1..MaxRevisions /\ MaxRevisions \in Nat
      /\ \A v \in 1..MaxRevisions : revisions[v].epoch \in Nat
  BY UploadsAssumption DEF IInv, TypeOK, Revision
<1>2. CASE UNCHANGED <<revisions, current>>
  BY <1>2 DEF EpochsFit, Epoch
<1>3. ASSUME NEW u \in Urls, NEW same \in BOOLEAN, EditDestination(u, same),
             \A v \in 1..current : revisions'[v] = revisions[v]
      PROVE  EpochsFit'
  <2> DEFINE new == current + 1
  <2>1. /\ current' = new /\ new \in 1..MaxRevisions
        /\ revisions'[new].user = behind[u]
        /\ revisions'[new].epoch = NextEpoch(behind[u], u, same)
    BY <1>3 DEF EditDestination, IInv, TypeOK
  <2>2. \/ revisions'[new].epoch = Epoch + 1
        \/ revisions'[new].epoch = Epoch /\ revisions'[new].user = revisions[current].user
    BY <2>1 DEF NextEpoch
  <2>3. Epoch \in Nat /\ Epoch' = revisions'[new].epoch
    BY <1>1, <2>1 DEF Epoch
  <2>4. ASSUME NEW v \in 1..new
        PROVE  v = new \/ (v \in 1..current /\ revisions'[v] = revisions[v])
    BY <1>1, <1>3
  <2>5. \A v \in 1..current : revisions[v].epoch <= Epoch /\ revisions[v].epoch \in Nat
    BY <1>1 DEF EpochsFit
  <2>6. \A v \in 1..new : revisions'[v].epoch <= Epoch'
    BY <1>1, <2>2, <2>3, <2>4, <2>5
  <2>7. ASSUME NEW v \in 1..current, revisions[v].epoch = revisions'[new].epoch
        PROVE  revisions[v].user = revisions'[new].user
    <3>1. revisions[v].epoch = revisions[current].epoch
      BY <1>1, <2>2, <2>3, <2>5, <2>7 DEF Epoch
    <3>2. revisions'[new].user = revisions[current].user
      BY <1>1, <2>2, <2>3, <2>5, <2>7
    <3>3. current \in 1..current
      BY <1>1
    <3>4. QED
      BY <3>1, <3>2, <3>3 DEF EpochsFit
  <2>8. \A v, w \in 1..new : revisions'[v].epoch = revisions'[w].epoch
                                => revisions'[v].user = revisions'[w].user
    BY <2>4, <2>7 DEF EpochsFit
  <2>9. QED
    BY <2>1, <2>6, <2>8 DEF EpochsFit
<1>4. QED
  BY <1>2, <1>3, RevisionsGrow

\* What may pass for ours is not forgotten.
LEMMA MistakenGrows ==
  ASSUME IInv, [Next]_vars
  PROVE  mistaken \subseteq mistaken'
<1>1. CASE UNCHANGED mistaken
  BY <1>1
<1>2. CASE Still \/ Steps
  BY <1>1, <1>2 DEF Still, Steps, Worker
<1>3. CASE (\E r \in Ids : Claim(r)) \/ Refuse \/ FileUnreadable
  BY <1>1, <1>3 DEF Claim, Refuse, FileUnreadable, Worker
<1>4. CASE AskCheck \/ SendBytes
  BY <1>1, <1>4 DEF AskCheck, SendBytes, Strays
<1>5. CASE PreflightFails \/ Lost \/ PutDate
  BY <1>1, <1>5 DEF PreflightFails, Lost, PutDate, Worker
<1>6. CASE Working
  <2>1. CASE Sends
    BY <1>2, <1>3, <1>4, <2>1, Zenon
       DEF Sends, Head, ClaimNothing, CheckClaimed, FindTag, CreateTag, TagAssets, Observe,
           BeginUploading, AssetKnown, BeginTagging, FinishPlain, BeginFixing, AskDate,
           FinishObserved, Fails, Retries
  <2>2. CASE Approves \/ Rechecks
    BY <1>2, <2>2, Zenon
       DEF Approves, Rechecks, ApproveReads, ApproveClaims, ApproveReadsDate, RecheckStarts,
           RecheckLists, RecheckCompares, RecheckStamps
  <2>3. CASE Shared
    BY <1>2, <1>5, <2>3, Zenon
       DEF Shared, Prepare, Preflight, Reassure, FinishWritten, CommitFails, Release
  <2>4. QED
    BY <1>6, <2>1, <2>2, <2>3 DEF Working
<1>7. CASE Requests
  <2>1. CASE \E n \in Media : CreatePair(n) \/ ZoneOverride(n) \/ CreateGroup(n) \/ EditGroup(n)
    BY <1>1, <2>1 DEF CreatePair, ZoneOverride, CreateGroup, EditGroup
  <2>2. CASE \E r \in Ids : Retry(r) \/ RejectReads(r) \/ RejectSettles(r)
    BY <1>1, <2>2 DEF Retry, RejectReads, RejectSettles
  <2>3. CASE (\E u \in Urls, same \in BOOLEAN : EditDestination(u, same)) \/ Purge \/ Toggle
             \/ Cancel
    BY <1>1, <2>3 DEF EditDestination, Purge, Toggle, Cancel
  <2>4. QED
    BY <1>7, <2>1, <2>2, <2>3, Zenon DEF Requests
<1>8. CASE World
  <2>1. CASE (\E u \in Urls : Swap(u)) \/ LeaseExpires
    BY <1>1, <2>1 DEF Swap, LeaseExpires
  <2>2. CASE (\E r \in Ids : ClaimExpires(r)) \/ Restart
    BY <1>1, <2>2 DEF ClaimExpires, Restart
  <2>3. CASE \E l \in Libraries, m \in Media : OtherUploads(l, m) \/ OtherDeletes(l, m)
    BY <2>3 DEF OtherUploads, OtherDeletes
  <2>4. QED
    BY <1>8, <2>1, <2>2, <2>3, Zenon DEF World
<1>9. CASE (\E n \in Media : Recompute(n)) \/ UNCHANGED vars
  BY <1>1, <1>9 DEF Recompute
<1>10. CASE StartSend \/ StartRecheck \/ \E r \in Ids : StartApprove(r)
  BY <1>1, <1>10 DEF StartSend, StartRecheck, StartApprove, Begin, Worker
<1>11. QED
  BY <1>6, <1>7, <1>8, <1>9, <1>10, StepKinds

\* What is ours stays ours; where it was deleted, it is known to have been.
LEMMA OursLast ==
  ASSUME IInv, [Next]_vars, NEW l \in Libraries, NEW m \in Media, OursHere(l, m)
  PROVE  OursHere(l, m)'
<1>1. CASE <<l, m>> \in mistaken
  BY <1>1, MistakenGrows DEF OursHere
<1>2. CASE remote[l][m].ours
  <2>1. remote[l][m] # NoAsset
    BY <1>2 DEF NoAsset
  <2>2. CASE AssetGone(l, m)
    BY <1>2, <2>2 DEF AssetGone, OtherDeletes, OursHere
  <2>3. ~AssetNew(l, m)
    BY <2>1 DEF AssetNew
  <2>4. CASE remote'[l][m] = remote[l][m] \/ AssetDated(l, m)
    BY <1>2, <2>4 DEF AssetDated, OursHere
  <2>5. QED
    BY <2>2, <2>3, <2>4, RemoteDates
<1>3. QED
  BY <1>1, <1>2 DEF OursHere

\* The revision of a row, and with it the library, stays as well.
LEMMA OursStay ==
  ASSUME IInv, [Next]_vars, NEW v \in 1..current, NEW m \in Media, Ours(v, m)
  PROVE  /\ remote'[revisions'[v].user][m].ours \/ <<revisions'[v].user, m>> \in mistaken'
         /\ revisions'[v].user = revisions[v].user
<1>1. v \in 1..MaxRevisions /\ current \in 1..MaxRevisions
  BY UploadsAssumption DEF IInv, TypeOK
<1>2. revisions'[v] = revisions[v]
  BY RevisionsGrow
<1>3. revisions[v].user \in Libraries
  BY <1>1 DEF IInv, TypeOK, Revision
<1>4. QED
  BY <1>2, <1>3, OursLast DEF Ours, OursHere

\* Nobody else is given the id of an asset that has been given out.
LEMMA OursOnlyLast ==
  ASSUME IInv, [Next]_vars, NEW m \in Media, NEW a \in Nat, a <= assets, OursOnly(a, m)
  PROVE  OursOnly(a, m)'
<1> SUFFICES ASSUME NEW l \in Libraries, remote'[l][m] # NoAsset, remote'[l][m].id = a
             PROVE  OursHere(l, m)'
  BY DEF OursOnly
<1>1. ~AssetNew(l, m)
  BY DEF AssetNew, IInv, TypeOK
<1>2. ~AssetGone(l, m)
  BY DEF AssetGone
<1>3. remote[l][m] # NoAsset /\ remote[l][m].id = a
  <2>1. CASE remote'[l][m] = remote[l][m]
    BY <2>1
  <2>2. CASE AssetDated(l, m)
    BY <2>2 DEF AssetDated, Known, There
  <2>3. QED
    BY <1>1, <1>2, <2>1, <2>2, RemoteDates
<1>4. QED
  BY <1>3, OursLast DEF OursOnly

LEMMA IdsFitSafe ==
  ASSUME IInv, IdsFit, [Next]_vars
  PROVE  IdsFit'
<1> SUFFICES ASSUME NEW l \in Libraries, NEW m \in Media, remote'[l][m].id = 0
             PROVE  remote'[l][m] = NoAsset
  BY DEF IdsFit
<1>1. assets \in Nat
  BY DEF IInv, TypeOK
<1>2. ~AssetNew(l, m)
  BY <1>1 DEF AssetNew
<1>3. ~AssetDated(l, m)
  BY DEF AssetDated, Known, There, IdsFit
<1>4. QED
  BY <1>2, <1>3, RemoteDates DEF AssetGone, IdsFit

\* The revision of the row in hand has been there before.
LEMMA HandRevision ==
  ASSUME IInv, TargetsFit, job.kind # "recheck", job.pc \in HandPCs
  PROVE  /\ job.mine \in Ids /\ Mine.media \in Media
         /\ Mine.rev = job.rev /\ job.rev \in 1..current
<1>1. /\ job.mine \in Ids /\ Mine.media \in Media
      /\ Mine.rev = job.rev /\ job.rev \in 1..MaxRevisions
  BY HandType DEF IInv
<1>2. job.rev <= current
  BY DEF TargetsFit, VerifiedFits
<1>3. current \in 1..MaxRevisions
  BY DEF IInv, TypeOK
<1>4. QED
  BY <1>1, <1>2, <1>3, UploadsAssumption

\* What has been answered is in hand.
LEMMA AnswerInHand ==
  ASSUME IInv, job.kind = "send", job.reply # "none"
  PROVE  job.pc \in HandPCs
  BY DEF IInv, PcFits, FirstAnswer, HandPCs

\* A row comes to be ours by an answer that is taken for it.
LEMMA OriginBack ==
  ASSUME IInv, [Next]_vars, job.kind = "send", job.pc \in HandPCs,
         records'[job.mine].origin = "created_by_us"
  PROVE  Mine.origin = "created_by_us" \/ (AssetKnown /\ Taken)
<1>1. job.mine \in Ids /\ Mine.state \in Active
  BY HandRowStays
<1>2. ~RowNew(job.mine) /\ ~Claim(job.mine)
  BY <1>1 DEF RowNew, Claim, CanClaim, Claimable, Active, Mine
<1>3. CASE AssetKnown
  BY <1>3, KnownRow DEF OriginNow, Taken
<1>4. CASE RowKept(job.mine)
  BY <1>4 DEF RowKept, Mine
<1>5. CASE RecheckStamps
  BY <1>1, <1>5, StampedRow DEF Mine
<1>6. CASE FinishPlain \/ FinishObserved \/ FinishWritten \/ Release
  BY <1>6, FinishedRow, ReleasedRow
<1>7. QED
  BY <1>1, <1>2, <1>3, <1>4, <1>5, <1>6, RowSteps

LEMMA OriginsFitSafe ==
  ASSUME IInv, TargetsFit, EpochsFit, OriginsFit, CreatedFits, [Next]_vars
  PROVE  OriginsFit'
<1> SUFFICES ASSUME NEW r \in Ids, records'[r].origin = "created_by_us"
             PROVE  /\ records'[r].media \in Media
                    /\ records'[r].rev # 0
                    /\ \/ remote'[revisions'[records'[r].rev].user][records'[r].media].ours
                       \/ <<revisions'[records'[r].rev].user, records'[r].media>> \in mistaken'
  BY DEF OriginsFit, Ours, OursHere
<1>1. /\ current \in 1..MaxRevisions /\ records[r] \in Record
      /\ records[r].rev \in Nat
  BY RowType DEF IInv, TypeOK
<1>2. ASSUME records[r].origin = "created_by_us"
      PROVE  /\ records[r].media \in Media /\ records[r].rev \in 1..current
             /\ revisions[records[r].rev].epoch = records[r].epoch
             /\ Ours(records[r].rev, records[r].media)
    BY <1>1, <1>2, UploadsAssumption DEF OriginsFit, TargetsFit, RevisionsFit
<1>3. CASE /\ records[r].origin = "created_by_us"
           /\ records'[r].media = records[r].media /\ records'[r].rev = records[r].rev
  BY <1>2, <1>3, OursStay
<1>4. CASE Claim(r)
  <2>1. /\ records'[r].media = records[r].media /\ records'[r].rev = current
        /\ records[r].origin = "created_by_us"
    BY <1>4, ClaimedRow
  <2>2. records[r].epoch = revisions[current].epoch
    BY <1>4 DEF Claim, CanClaim, Epoch
  <2>3. current \in 1..current
    BY <1>1, UploadsAssumption
  <2>4. revisions[records[r].rev].user = revisions[current].user
    BY <1>2, <2>1, <2>2, <2>3 DEF EpochsFit
  <2>5. Ours(current, records[r].media)
    BY <1>2, <2>1, <2>4 DEF Ours
  <2>6. QED
    BY <1>2, <2>1, <2>3, <2>5, OursStay
<1>5. CASE r = job.mine /\ AssetKnown
  <2>1. job.pc \in HandPCs /\ job.kind # "recheck"
    BY <1>5, WhoIsWhere DEF AssetKnown, Commits, HandPCs, SendPCs, IInv
  <2>2. Mine.media \in Media /\ Mine.rev = job.rev /\ job.rev \in 1..current
    BY <2>1, HandRevision
  <2>3. /\ records'[r].media = Mine.media /\ records'[r].rev = Mine.rev
        /\ OriginNow = "created_by_us"
    BY <1>5, KnownRow
  <2>4. job.reply = "created" \/ Mine.origin = "created_by_us"
    BY <2>3 DEF OriginNow
  <2>5. job.kind = "send"
    <3>1. job.reply # "none" /\ job.pc = "commit"
      BY <1>5 DEF AssetKnown, Commits
    <3>2. QED
      BY <2>1, <3>1, JobType DEF IInv, FirstAnswer, PcFits
  <2>6. Ours(job.rev, Mine.media)
    BY <1>2, <1>5, <2>2, <2>4, <2>5 DEF CreatedFits, Mine
  <2>7. QED
    BY <2>2, <2>3, <2>6, OursStay
<1>6. CASE RowKept(r)
  BY <1>3, <1>6 DEF RowKept
<1>7. CASE RecheckStamps
  BY <1>3, <1>7, StampedRow
<1>8. CASE r = job.mine /\ (FinishPlain \/ FinishObserved \/ FinishWritten \/ Release)
  BY <1>3, <1>8, FinishedRow, ReleasedRow DEF Mine
<1>9. ~RowNew(r)
  BY DEF RowNew
<1>10. QED
  BY <1>4, <1>5, <1>6, <1>7, <1>8, <1>9, RowSteps

\* An upload that lost its answer is not told that it has created.
LEMMA LostSaysNothing ==
  ASSUME IInv, SendBytes, AnswerLost
  PROVE  job'.reply \in {job.reply, "none"} /\ job'.asset \in {job.asset, 0}
<1>1. job \in Job /\ job.goal = "send"
  BY DEF IInv, TypeOK, SendBytes, At
<1>2. \A pc : Goto(pc) => job'.reply = job.reply /\ job'.asset = job.asset
  BY <1>1 DEF Goto, Job
<1>3. Leave("server") => job'.reply \in {job.reply, "none"} /\ job'.asset \in {job.asset, 0}
  BY <1>1 DEF Leave, Done, NoJob, Job
<1>4. QED
  BY <1>1, <1>2, <1>3 DEF AnswerLost, Raises

\* Only an upload that found nothing there is answered that it has created, and a
\* url that changed hands before that is remembered.
LEMMA BytesCreate ==
  ASSUME IInv, TargetsFit, SendBytes, ~AnswerLost, job'.reply = "created"
  PROVE  /\ job.kind = "send" /\ job.pc \in HandPCs
         /\ Server \in Libraries /\ Mine.media \in Media
         /\ job'.asset = assets + 1
         /\ remote' = [remote EXCEPT ![Server][Mine.media] =
                         [id |-> assets + 1, ours |-> TRUE, date |-> Foreign]]
         /\ \/ remote'[revisions[job.rev].user][Mine.media].ours
            \/ <<revisions[job.rev].user, Mine.media>> \in mistaken'
<1>1. job \in Job /\ job.pc = "request" /\ job.goal = "send"
  BY DEF IInv, TypeOK, SendBytes, At
<1>2. job.kind = "send" /\ job.pc \in HandPCs
  BY <1>1, JobType DEF IInv, PcFits, GuardPCs, HandPCs, SendPCs
<1>4. /\ remote' = [remote EXCEPT ![Server][Mine.media] =
                      [id |-> assets + 1, ours |-> TRUE, date |-> Foreign]]
      /\ Reply("created", assets + 1)
      /\ Strays(revisions[job.rev].user)
  <2>1. ~(job' = [job EXCEPT !.pc = "prepare", !.goal = "adopt",
                             !.reply = "duplicate", !.asset = There.id])
    BY <1>1 DEF Job
  <2>2. QED
    BY <2>1 DEF SendBytes
<1>5. Server \in Libraries /\ Mine.media \in Media
  BY <1>2, HandType DEF IInv
<1>6. job'.asset = assets + 1
  BY <1>1, <1>4 DEF Reply, Job
<1>7. CASE Server = revisions[job.rev].user
  BY <1>2, <1>4, <1>5, <1>6, <1>7 DEF IInv, TypeOK
<1>8. CASE Server # revisions[job.rev].user
  BY <1>2, <1>4, <1>5, <1>6, <1>8 DEF Strays
<1>9. QED
  BY <1>7, <1>8

\* What a job holds on to is of the same row, and what was created is still there.
LEMMA CreatedStays ==
  ASSUME IInv, TargetsFit, CreatedFits, [Next]_vars,
         job.kind = "send", job.reply = "created", job'.mine = job.mine, job'.rev = job.rev
  PROVE  CreatedFits'
<1>1. Ours(job.rev, Mine.media)
  BY DEF CreatedFits
<1>2. job.pc \in HandPCs /\ job.kind # "recheck"
  BY <1>1, AnswerInHand
<1>3. Mine'.media = Mine.media
  BY <1>2, HandRowStays DEF Mine
<1>4. \/ remote'[revisions'[job.rev].user][Mine.media].ours
      \/ <<revisions'[job.rev].user, Mine.media>> \in mistaken'
  BY <1>1, <1>2, HandRevision, OursStay
<1>5. QED
  BY <1>1, <1>3, <1>4 DEF CreatedFits, Ours, OursHere

LEMMA CreatedFitsSafe ==
  ASSUME IInv, TargetsFit, CreatedFits, [Next]_vars
  PROVE  CreatedFits'
<1> SUFFICES ASSUME job'.kind = "send", job'.reply = "created"
             PROVE  CreatedFits'
  BY DEF CreatedFits
<1>1. CASE JobStays
  BY <1>1, CreatedStays DEF JobStays, SameHand
<1>2. ~Fresh
  BY DEF Fresh
<1>3. CASE Working /\ Holds
  <2>1. job'.kind = job.kind /\ job'.mine = job.mine /\ job'.rev = job.rev
    BY <1>3 DEF Holds, Answers
  <2>2. CASE job.reply = "created"
    BY <2>1, <2>2, CreatedStays
  <2>3. CASE job.reply # "created" /\ SendBytes
    <3>1. /\ job.kind = "send" /\ job.pc \in HandPCs
          /\ \/ remote'[revisions[job.rev].user][Mine.media].ours
             \/ <<revisions[job.rev].user, Mine.media>> \in mistaken'
      BY <2>3, BytesCreate, LostSaysNothing
    <3>2. Mine'.media = Mine.media
      BY <2>1, <3>1, HandRowStays DEF Mine
    <3>3. revisions' = revisions
      BY <1>3, WorkerKeeps
    <3>4. QED
      BY <2>1, <3>1, <3>2, <3>3 DEF CreatedFits, Ours, OursHere
  <2>4. QED
    BY <1>3, <2>2, <2>3 DEF Holds, Answers
<1>4. QED
  BY <1>1, <1>2, <1>3, JobPath

\* The check finds the asset of a row that is ours: it is, or the url has changed
\* hands and the place is remembered.
LEMMA CheckFindsOurs ==
  ASSUME IInv, TargetsFit, AssetsFit, IdsFit, OriginsFit, AskCheck,
         Mine.origin = "created_by_us", job'.reply = "reject", job.kind = "send"
  PROVE  /\ Mine.media \in Media
         /\ \A l \in Libraries : remote'[l][Mine.media].id = job'.asset =>
               remote'[l][Mine.media].ours \/ <<l, Mine.media>> \in mistaken'
<1>1. job \in Job /\ job.pc = "request" /\ job.pc \in HandPCs
  BY DEF IInv, TypeOK, AskCheck, At, HandPCs, SendPCs
<1>2. /\ job.mine \in Ids /\ Mine.media \in Media /\ Mine.rev = job.rev
      /\ Server \in Libraries
  BY <1>1, HandType DEF IInv
<1>3. There # NoAsset /\ Reply("reject", There.id) /\ Strays(Server)
  <2>1. ~Reply("accept", 0)
    BY <1>1 DEF Reply, Job
  <2>2. QED
    BY <2>1 DEF AskCheck
<1>4. job'.asset = There.id /\ There.id # 0 /\ remote' = remote
  BY <1>1, <1>2, <1>3 DEF Reply, Job, IdsFit, There, AskCheck, Worker
<1>5. OursHere(revisions[job.rev].user, Mine.media)
  BY <1>2 DEF OriginsFit, Ours, Mine
<1>6. remote[Server][Mine.media].ours \/ <<Server, Mine.media>> \in mistaken'
  BY <1>3, <1>5 DEF Strays, OursHere
<1>7. ASSUME NEW l \in Libraries, remote'[l][Mine.media].id = job'.asset
      PROVE  remote'[l][Mine.media].ours \/ <<l, Mine.media>> \in mistaken'
  <2>1. l = Server
    BY <1>2, <1>4, <1>7 DEF AssetsFit, There
  <2>2. QED
    BY <1>4, <1>6, <2>1
<1>8. QED
  BY <1>2, <1>7

\* What is answered to be created is there alone.
LEMMA CreatedAlone ==
  ASSUME IInv, TargetsFit, AssetsFit, SendBytes, ~AnswerLost, job'.reply = "created",
         NEW l \in Libraries, remote'[l][Mine.media].id = job'.asset
  PROVE  remote'[l][Mine.media].ours
<1>1. /\ Server \in Libraries /\ Mine.media \in Media
      /\ job'.asset = assets + 1
      /\ remote' = [remote EXCEPT ![Server][Mine.media] =
                      [id |-> assets + 1, ours |-> TRUE, date |-> Foreign]]
  BY BytesCreate
<1>2. remote \in [Libraries -> [Media -> Asset]] /\ assets \in Nat
  BY DEF IInv, TypeOK
<1>3. CASE l = Server
  BY <1>1, <1>2, <1>3
<1>4. CASE l # Server
  <2>1. remote'[l][Mine.media].id = remote[l][Mine.media].id
    BY <1>1, <1>2, <1>4
  <2>2. remote[l][Mine.media].id \in Nat /\ remote[l][Mine.media].id <= assets
    BY <1>1, <1>2 DEF Asset, AssetsFit
  <2>3. QED
    BY <1>1, <1>2, <2>1, <2>2
<1>5. QED
  BY <1>3, <1>4

\* An answer that is held on to.
LEMMA TakenStays ==
  ASSUME IInv, AssetsFit, ReplyOurs, [Next]_vars, job.kind = "send", Taken,
         job'.mine = job.mine, job'.asset = job.asset
  PROVE  ReplyOurs'
<1>1. job.pc \in HandPCs /\ job.kind # "recheck"
  BY AnswerInHand DEF Taken
<1>2. Mine'.media = Mine.media /\ Mine.media \in Media
  BY <1>1, HandRowStays DEF Mine
<1>3. job.asset \in Nat /\ job.asset <= assets
  BY JobType DEF IInv, AssetsFit
<1>4. OursOnly(job.asset, Mine.media)
  BY DEF ReplyOurs
<1>5. \A l \in Libraries : remote'[l][Mine.media] # NoAsset /\ remote'[l][Mine.media].id = job.asset
           => remote'[l][Mine.media].ours \/ <<l, Mine.media>> \in mistaken'
  BY <1>2, <1>3, <1>4, OursOnlyLast DEF OursOnly, OursHere
<1>6. QED
  BY <1>2, <1>5 DEF ReplyOurs, OursOnly, OursHere

LEMMA ReplyOursSafe ==
  ASSUME IInv, TargetsFit, AssetsFit, IdsFit, IdsFit', OriginsFit, ReplyOurs, [Next]_vars
  PROVE  ReplyOurs'
<1> SUFFICES ASSUME job'.kind = "send", Taken'
             PROVE  ReplyOurs'
  BY DEF ReplyOurs
<1>1. \/ job'.reply = "created"
      \/ job'.reply = "reject" /\ records'[job'.mine].origin = "created_by_us"
  BY DEF Taken, Mine
<1>2. ~Fresh
  BY <1>1 DEF Fresh
<1>3. ASSUME job'.kind = job.kind, job'.mine = job.mine, job'.reply = job.reply
      PROVE  job.kind = "send" /\ Taken
  <2>1. job.kind = "send" /\ job.pc \in HandPCs
    BY <1>1, <1>3, AnswerInHand
  <2>2. QED
    BY <1>1, <1>3, <2>1, OriginBack DEF Taken
<1>4. CASE JobStays
  <2>1. /\ job'.kind = job.kind /\ job'.mine = job.mine /\ job'.reply = job.reply
        /\ job'.asset = job.asset
    BY <1>4 DEF JobStays, SameHand
  <2>2. QED
    BY <1>3, <2>1, TakenStays
<1>5. CASE Working /\ Holds
  <2>1. /\ job'.kind = job.kind /\ job'.mine = job.mine
        /\ job'.reply = "created" => job.reply = "created" \/ SendBytes
        /\ job'.reply = "reject" => job.reply = "reject" \/ AskCheck
        /\ job'.asset \in {job.asset, 0} \/ AskCheck \/ SendBytes \/ Observe
    BY <1>5 DEF Holds, Answers
  <2>2. CASE AskCheck
    <3>1. job \in Job /\ job.reply \in {"none", "accept", "reject", "created", "duplicate", "same"}
      BY JobType DEF IInv, TypeOK
    <3>2. records' = records /\ job'.reply \in {"accept", "reject"}
      BY <2>2, <3>1 DEF AskCheck, Worker, Reply, Job
    <3>3. Mine.origin = "created_by_us" /\ job'.reply = "reject" /\ Mine' = Mine
      BY <1>1, <2>1, <3>2 DEF Mine
    <3>4. /\ Mine.media \in Media
          /\ \A l \in Libraries : remote'[l][Mine.media].id = job'.asset =>
               remote'[l][Mine.media].ours \/ <<l, Mine.media>> \in mistaken'
      BY <2>1, <2>2, <3>3, CheckFindsOurs
    <3>5. QED
      BY <3>3, <3>4 DEF ReplyOurs, OursOnly, OursHere
  <2>3. CASE SendBytes /\ ~AnswerLost /\ job'.reply = "created"
    <3>1. job.kind = "send" /\ job.pc \in HandPCs
      BY <2>3, BytesCreate
    <3>2. Mine'.media = Mine.media
      BY <2>1, <3>1, HandRowStays DEF Mine
    <3>3. \A l \in Libraries : remote'[l][Mine.media].id = job'.asset =>
               remote'[l][Mine.media].ours
      BY <2>3, CreatedAlone
    <3>4. QED
      BY <3>2, <3>3 DEF ReplyOurs, OursOnly, OursHere
  <2>4. ~Observe
    <3>1. job \in Job
      BY DEF IInv, TypeOK
    <3>2. Observe => job'.reply \in {"same", "none"}
      BY <3>1 DEF Observe, Reply, Job
    <3>3. QED
      BY <1>1, <3>2
  <2>5. ASSUME job'.reply = job.reply, job'.asset \in {job.asset, 0}
        PROVE  ReplyOurs'
    <3>1. job.kind = "send" /\ Taken
      BY <1>3, <2>1, <2>5
    <3>2. CASE job'.asset = job.asset
      BY <2>1, <3>1, <3>2, TakenStays
    <3>3. CASE job'.asset = 0
      <4>1. job.pc \in HandPCs
        BY <3>1, AnswerInHand DEF Taken
      <4>2. Mine'.media \in Media
        BY <2>1, <3>1, <4>1, HandRowStays DEF Mine
      <4>3. \A l \in Libraries : remote'[l][Mine'.media].id = 0
                                   => remote'[l][Mine'.media] = NoAsset
        BY <4>2 DEF IdsFit
      <4>4. QED
        BY <3>3, <4>3 DEF ReplyOurs, OursOnly
    <3>4. QED
      BY <2>5, <3>2, <3>3
  <2>6. CASE SendBytes /\ AnswerLost
    BY <1>1, <2>5, <2>6, LostSaysNothing
  <2>7. ASSUME SendBytes, ~AnswerLost
        PROVE  job'.reply \in {"created", "duplicate"}
    <3>1. job \in Job
      BY DEF IInv, TypeOK
    <3>2. QED
      BY <2>7, <3>1 DEF SendBytes, Reply, Job
  <2>8. CASE ~AskCheck /\ ~SendBytes
    BY <1>1, <2>1, <2>4, <2>5, <2>8
  <2>9. QED
    BY <1>1, <2>2, <2>3, <2>6, <2>7, <2>8
<1>6. QED
  BY <1>2, <1>4, <1>5, JobPath

\* The asset on record is the one of the answer, and nobody puts another in its place
\* while the row is in hand.
LEMMA HandOursSafe ==
  ASSUME IInv, AssetsFit, ReplyOurs, HandOurs, [Next]_vars
  PROVE  HandOurs'
<1> SUFFICES ASSUME job'.kind = "send", Placed', records'[job'.mine].origin = "created_by_us"
             PROVE  HandOurs'
  BY DEF HandOurs, Mine
<1>1. ~Fresh
  BY DEF Fresh, Placed, ReadPCs
<1>2. job'.kind = job.kind /\ job'.mine = job.mine /\ (Placed \/ AssetKnown)
  BY <1>1, JobPath DEF JobStays, SameHand, Holds, Answers, Placed
<1>3. job.kind = "send" /\ job.pc \in HandPCs
  BY <1>2 DEF Placed, AssetKnown, Commits, GuardPCs, HandPCs, SendPCs
<1>4. /\ job.mine \in Ids /\ Mine.media \in Media /\ Mine.state \in Active
      /\ Mine'.media = Mine.media
  BY <1>2, <1>3, HandRowStays DEF Mine
<1>5. ASSUME NEW a \in Nat, a <= assets, OursOnly(a, Mine.media), records'[job.mine].asset = a
      PROVE  HandOurs'
  <2>1. \A l \in Libraries : remote'[l][Mine.media] # NoAsset /\ remote'[l][Mine.media].id = a
           => remote'[l][Mine.media].ours \/ <<l, Mine.media>> \in mistaken'
    BY <1>4, <1>5, OursOnlyLast DEF OursOnly, OursHere
  <2>2. Mine'.asset = a
    BY <1>2, <1>5 DEF Mine
  <2>3. QED
    BY <1>4, <2>1, <2>2 DEF HandOurs, OursOnly, OursHere
<1>6. CASE AssetKnown
  <2>1. records'[job.mine].asset = job.asset /\ Taken
    BY <1>2, <1>6, KnownRow DEF OriginNow, Taken
  <2>2. job.asset \in Nat /\ job.asset <= assets
    BY JobType DEF IInv, AssetsFit
  <2>3. QED
    BY <1>3, <1>5, <2>1, <2>2 DEF ReplyOurs
<1>7. CASE ~AssetKnown
  <2>1. Mine.origin = "created_by_us"
    BY <1>2, <1>3, <1>7, OriginBack
  <2>2. Mine.asset \in Nat /\ Mine.asset <= assets
    BY <1>4, RowType DEF IInv, TypeOK, AssetsFit, Mine
  <2>3. ~RowNew(job.mine) /\ ~Claim(job.mine) /\ ~RecheckStamps
    BY <1>3, <1>4, WhoIsWhere
       DEF RowNew, Claim, CanClaim, Claimable, Active, Mine, RecheckStamps, IInv
  <2>4. records'[job.mine].asset = Mine.asset
    <3>1. CASE RowKept(job.mine)
      BY <3>1 DEF RowKept, Mine
    <3>2. CASE FinishPlain \/ FinishObserved \/ FinishWritten \/ Release
      BY <3>2, FinishedRow, ReleasedRow
    <3>3. QED
      BY <1>4, <1>7, <2>3, <3>1, <3>2, RowSteps
  <2>5. QED
    BY <1>2, <1>3, <1>5, <1>7, <2>1, <2>2, <2>4 DEF HandOurs
<1>8. QED
  BY <1>6, <1>7

\* Such a guard is come to with a row of ours, and no step while it lasts says
\* otherwise.
LEMMA FixesOursSafe ==
  ASSUME IInv, IInv', FixesOurs, [Next]_vars
  PROVE  FixesOurs'
<1> SUFFICES ASSUME Fixing'
             PROVE  Mine'.origin = "created_by_us"
  BY DEF FixesOurs
<1>1. job'.goal = "fix" /\ job'.pc \in GuardPCs
  BY DEF Fixing
<1>2. ~Fresh
  <2>1. job'.kind # "recheck" /\ job'.kind # "none" /\ job'.pc \in HandPCs /\ job'.pc \in ReadPCs
    BY <1>1 DEF IInv, PcFits, GuardPCs, ReadPCs, HandPCs, SendPCs
  <2>2. job'.kind \in {"send", "approve"}
    BY <2>1 DEF IInv, TypeOK, Job
  <2>3. QED
    BY <2>1, <2>2 DEF Fresh
<1>3. job'.mine = job.mine /\ (Fixing \/ BeginFixing)
  BY <1>1, <1>2, JobPath DEF JobStays, SameHand, Holds, Answers, Fixing
<1>4. Mine.origin = "created_by_us"
  BY <1>3 DEF FixesOurs, BeginFixing, Automatic
<1>5. job.kind # "recheck" /\ job.pc \in HandPCs
  <2>1. CASE Fixing
    BY <2>1 DEF IInv, PcFits, Fixing, GuardPCs, HandPCs, SendPCs
  <2>2. CASE BeginFixing
    BY <2>2, WhoIsWhere DEF IInv, BeginFixing, Commits, HandPCs, SendPCs
  <2>3. QED
    BY <1>3, <2>1, <2>2
<1>6. job.mine \in Ids /\ Mine.state \in Active
  BY <1>5, HandRowStays
<1>7. ~AssetKnown
  <2>1. AssetKnown => job'.goal = "none"
    BY DEF AssetKnown, Goes, IInv, TypeOK, Job
  <2>2. QED
    BY <1>1, <2>1
<1>8. ~RowNew(job.mine) /\ ~Claim(job.mine)
  BY <1>6 DEF RowNew, Claim, CanClaim, Claimable, Active, Mine
<1>9. records'[job.mine].origin = Mine.origin
  <2>1. CASE RowKept(job.mine)
    BY <2>1 DEF RowKept, Mine
  <2>2. CASE RecheckStamps
    BY <1>6, <2>2, StampedRow DEF Mine
  <2>3. CASE FinishPlain \/ FinishObserved \/ FinishWritten \/ Release
    BY <2>3, FinishedRow, ReleasedRow
  <2>4. QED
    BY <1>6, <1>7, <1>8, <2>1, <2>2, <2>3, RowSteps
<1>10. QED
  BY <1>3, <1>4, <1>9 DEF Mine

\* Where a date is written into an asset, an approval does it, or it is one of ours or
\* may pass for it.
LEMMA DatedIsOurs ==
  ASSUME IInv, OursFit, NEW l \in Libraries, NEW m \in Media,
         AssetDated(l, m), job.kind # "approve"
  PROVE  OursHere(l, m)
<1>1. job.pc = "request" /\ job.goal = "fix" /\ job.kind = "send" /\ job.pc \in HandPCs
  BY JobType DEF AssetDated, PutDate, At, IInv, PcFits, GuardPCs, HandPCs, SendPCs
<1>2. Placed /\ Fixing
  BY <1>1 DEF Placed, Fixing, GuardPCs
<1>3. Mine.origin = "created_by_us"
  BY <1>2 DEF OursFit, FixesOurs
<1>4. OursOnly(Mine.asset, Mine.media)
  BY <1>1, <1>2, <1>3 DEF OursFit, HandOurs
<1>5. l = Server /\ m = Mine.media /\ There # NoAsset /\ There.id = Mine.asset
  BY DEF AssetDated, Known
<1>6. QED
  BY <1>4, <1>5 DEF OursOnly, There

LEMMA RewriteApproved ==
  ASSUME IInv, OursFit, [Next]_vars, NEW l \in Libraries, NEW m \in Media, Rewritten(l, m)
  PROVE  job.kind = "approve" \/ <<l, m>> \in mistaken
<1>1. ~AssetGone(l, m)
  BY DEF AssetGone, Rewritten, OursFit, IdsFit, NoAsset
<1>2. ~AssetNew(l, m)
  BY DEF AssetNew, Rewritten
<1>3. AssetDated(l, m)
  BY <1>1, <1>2, RemoteDates DEF Rewritten
<1>4. QED
  BY <1>3, DatedIsOurs DEF Rewritten, OursHere

\* The date of an asset that somebody else created changes by an approval only, or
\* where it may pass for one of ours: that one was deleted there, or a url changed hands
\* between a preflight and an answer about the record.
THEOREM ApprovedOnly == Spec => NoUnapprovedRewrite
<1>1. Init => OursFit
  <2> SUFFICES ASSUME Init PROVE OursFit
    OBVIOUS
  <2>1. /\ job = NoJob /\ current = 1
        /\ \A r \in Ids : records[r] = Absent
        /\ \A l \in Libraries, m \in Media : remote[l][m] = NoAsset
    BY DEF Init
  <2>2. job.reply = "none" /\ job.goal = "none" /\ job.kind = "none"
    BY <2>1 DEF NoJob
  <2>3. \A v \in 1..current : v = 1
    BY <2>1
  <2>4. EpochsFit
    BY <2>1, <2>3, UploadsAssumption DEF EpochsFit, Epoch, Init
  <2>5. OriginsFit
    BY <2>1 DEF OriginsFit, Absent
  <2>6. IdsFit /\ CreatedFits /\ ReplyOurs /\ HandOurs /\ FixesOurs
    BY <2>1, <2>2 DEF IdsFit, CreatedFits, ReplyOurs, HandOurs, FixesOurs, Fixing
  <2>7. QED
    BY <2>4, <2>5, <2>6 DEF OursFit
<1>2. IInv /\ IInv' /\ TargetsFit /\ DatesFit /\ OursFit /\ [Next]_vars => OursFit'
  BY EpochsFitSafe, IdsFitSafe, OriginsFitSafe, CreatedFitsSafe, ReplyOursSafe, HandOursSafe,
     FixesOursSafe
     DEF OursFit, DatesFit
<1> DEFINE Approved == \A l \in Libraries, m \in Media :
             Rewritten(l, m) => job.kind = "approve" \/ <<l, m>> \in mistaken
<1>3. IInv /\ OursFit /\ [Next]_vars => [Approved]_vars
  BY RewriteApproved
<1>4. QED
  BY <1>1, <1>2, <1>3, Inductive, TargetsInductive, DatesInductive, PTL
     DEF Spec, NoUnapprovedRewrite

-----------------------------------------------------------------------------
(* One record after the other *)

\* What a job does with a record, in the order it does it, and where it is
\* in each of these.
Phases == <<"none", "recheck", "approve", "check", "send", "adopt", "known",
            "find", "create", "tag", "observe", "fix", "out">>
Places == <<"starting", "asked", "approving", "reading", "head", "claiming",
            "claimed", "prepare", "preflight", "reassure", "request",
            "comparing", "stamping", "commit", "planning", "refusing",
            "retrying", "failing", "leaving">>

PhaseAfter(p, q) == \E i, j \in 1..13 : i < j /\ Phases[i] = p /\ Phases[j] = q
PlaceAfter(p, q) == \E i, j \in 1..19 : i < j /\ Places[i] = p /\ Places[j] = q

WaysOut == {"refusing", "retrying", "failing", "leaving"}
PhaseOf(pc, goal) == IF pc \in WaysOut THEN "out" ELSE IF pc = "known" THEN "known" ELSE goal

Ended == job'.kind = "none"

\* No record but the one in hand is touched, and no attempt is counted.
RowsKept == \A r \in Ids : /\ records'[r].attempts = records[r].attempts
                           /\ r # job'.mine => records'[r] = records[r]

\* Further on with the record in hand.
Further ==
    /\ job'.kind = job.kind
    /\ job.mine # 0 => job'.mine = job.mine
    /\ RowsKept
    /\ \/ PhaseAfter(PhaseOf(job.pc, job.goal), PhaseOf(job'.pc, job'.goal))
       \/ /\ PhaseOf(job'.pc, job'.goal) = PhaseOf(job.pc, job.goal)
          /\ PlaceAfter(job.pc, job'.pc)

\* Done with the record in hand: it is not claimed again, or it has an
\* attempt more, and not the last one.
SetDown ==
    /\ job'.kind = job.kind /\ job'.pc = "head"
    /\ job.mine # 0
    /\ \A r \in Ids \ {job.mine} : records'[r] = records[r]
    /\ LET after == records'[job.mine] IN
       \/ ~(after.valid /\ after.state \in Claimable)
       \/ after.attempts = Mine.attempts + 1 /\ after.attempts < MaxAttempts

Moves == Ended \/ Further \/ SetDown

Waits == /\ job'.kind = job.kind /\ job'.pc = job.pc
         /\ job'.goal = job.goal /\ job'.mine = job.mine

JobAdvances ==
    [][/\ Working => Moves
       /\ job.kind # "none" => Moves \/ Waits]_vars

\* Which answer a job has at which of its commits.
StepsFit ==
    /\ job.pc \in {"starting", "asked", "approving", "reading", "head",
                   "claiming", "claimed"} => job.goal = "none"
    /\ job.pc = "planning" => job.goal = "tag"
    /\ job.goal = "adopt" => job.reply \in {"reject", "duplicate"}
    /\ job.pc = "commit" =>
         /\ job.goal \in {"check", "send", "adopt", "observe", "fix", "approve"}
         /\ job.goal = "check" => job.reply \in {"accept", "reject"}
         /\ job.goal = "send" => job.reply = "created"
         /\ job.goal = "observe" => job.reply \in {"none", "same"}
         /\ job.goal \in {"fix", "approve"} => job.reply = "none"

\* What comes after what.
LEMMA PhaseOrder ==
  /\ PhaseAfter("none", "recheck") /\ PhaseAfter("none", "approve")
  /\ PhaseAfter("none", "check") /\ PhaseAfter("check", "send")
  /\ PhaseAfter("check", "adopt") /\ PhaseAfter("send", "adopt")
  /\ PhaseAfter("check", "known") /\ PhaseAfter("send", "known")
  /\ PhaseAfter("adopt", "known") /\ PhaseAfter("known", "find")
  /\ PhaseAfter("known", "tag") /\ PhaseAfter("find", "create")
  /\ PhaseAfter("find", "tag") /\ PhaseAfter("create", "tag")
  /\ PhaseAfter("tag", "observe") /\ PhaseAfter("tag", "fix")
  /\ PhaseAfter("known", "out")
  /\ \A g \in Goals : PhaseAfter(g, "out")
<1>1. /\ Phases[1] = "none" /\ Phases[2] = "recheck" /\ Phases[3] = "approve"
      /\ Phases[4] = "check" /\ Phases[5] = "send" /\ Phases[6] = "adopt"
      /\ Phases[7] = "known" /\ Phases[8] = "find" /\ Phases[9] = "create"
      /\ Phases[10] = "tag" /\ Phases[11] = "observe" /\ Phases[12] = "fix"
      /\ Phases[13] = "out"
  BY DEF Phases
<1>2. \A i, j \in 1..13 : i < j => PhaseAfter(Phases[i], Phases[j])
  BY DEF PhaseAfter
<1>3. /\ PhaseAfter(Phases[1], Phases[2]) /\ PhaseAfter(Phases[1], Phases[3])
      /\ PhaseAfter(Phases[1], Phases[4]) /\ PhaseAfter(Phases[4], Phases[5])
      /\ PhaseAfter(Phases[4], Phases[6]) /\ PhaseAfter(Phases[5], Phases[6])
      /\ PhaseAfter(Phases[4], Phases[7]) /\ PhaseAfter(Phases[5], Phases[7])
      /\ PhaseAfter(Phases[6], Phases[7]) /\ PhaseAfter(Phases[7], Phases[8])
      /\ PhaseAfter(Phases[7], Phases[10]) /\ PhaseAfter(Phases[8], Phases[9])
      /\ PhaseAfter(Phases[8], Phases[10]) /\ PhaseAfter(Phases[9], Phases[10])
      /\ PhaseAfter(Phases[10], Phases[11]) /\ PhaseAfter(Phases[10], Phases[12])
  BY <1>2
<1>4. /\ PhaseAfter(Phases[1], Phases[13]) /\ PhaseAfter(Phases[2], Phases[13])
      /\ PhaseAfter(Phases[3], Phases[13]) /\ PhaseAfter(Phases[4], Phases[13])
      /\ PhaseAfter(Phases[5], Phases[13]) /\ PhaseAfter(Phases[6], Phases[13])
      /\ PhaseAfter(Phases[7], Phases[13]) /\ PhaseAfter(Phases[8], Phases[13])
      /\ PhaseAfter(Phases[9], Phases[13]) /\ PhaseAfter(Phases[10], Phases[13])
      /\ PhaseAfter(Phases[11], Phases[13]) /\ PhaseAfter(Phases[12], Phases[13])
  BY <1>2
<1>5. QED
  BY <1>1, <1>3, <1>4 DEF Goals

LEMMA PlaceOrder ==
  /\ PlaceAfter("asked", "approving") /\ PlaceAfter("approving", "reading")
  /\ PlaceAfter("head", "claiming") /\ PlaceAfter("claiming", "claimed")
  /\ PlaceAfter("prepare", "preflight") /\ PlaceAfter("preflight", "reassure")
  /\ PlaceAfter("reassure", "request") /\ PlaceAfter("reassure", "commit")
  /\ PlaceAfter("reassure", "comparing") /\ PlaceAfter("request", "commit")
  /\ PlaceAfter("request", "planning") /\ PlaceAfter("comparing", "stamping")
  /\ PlaceAfter("failing", "leaving") /\ PlaceAfter("retrying", "leaving")
<1>1. /\ Places[1] = "starting" /\ Places[2] = "asked" /\ Places[3] = "approving"
      /\ Places[4] = "reading" /\ Places[5] = "head" /\ Places[6] = "claiming"
      /\ Places[7] = "claimed" /\ Places[8] = "prepare" /\ Places[9] = "preflight"
      /\ Places[10] = "reassure" /\ Places[11] = "request" /\ Places[12] = "comparing"
      /\ Places[13] = "stamping" /\ Places[14] = "commit" /\ Places[15] = "planning"
      /\ Places[16] = "refusing" /\ Places[17] = "retrying" /\ Places[18] = "failing"
      /\ Places[19] = "leaving"
  BY DEF Places
<1>2. \A i, j \in 1..19 : i < j => PlaceAfter(Places[i], Places[j])
  BY DEF PlaceAfter
<1>3. /\ PlaceAfter(Places[2], Places[3]) /\ PlaceAfter(Places[3], Places[4])
      /\ PlaceAfter(Places[5], Places[6]) /\ PlaceAfter(Places[6], Places[7])
      /\ PlaceAfter(Places[8], Places[9]) /\ PlaceAfter(Places[9], Places[10])
      /\ PlaceAfter(Places[10], Places[11]) /\ PlaceAfter(Places[10], Places[14])
      /\ PlaceAfter(Places[10], Places[12]) /\ PlaceAfter(Places[11], Places[14])
      /\ PlaceAfter(Places[11], Places[15]) /\ PlaceAfter(Places[12], Places[13])
      /\ PlaceAfter(Places[18], Places[19]) /\ PlaceAfter(Places[17], Places[19])
  BY <1>2
<1>4. QED
  BY <1>1, <1>3

\* The row in hand stays in hand, and no row is written.
LEMMA Onwards ==
  ASSUME UNCHANGED records, job'.kind = job.kind, job'.mine = job.mine,
         \/ PhaseAfter(PhaseOf(job.pc, job.goal), PhaseOf(job'.pc, job'.goal))
         \/ /\ PhaseOf(job'.pc, job'.goal) = PhaseOf(job.pc, job.goal)
            /\ PlaceAfter(job.pc, job'.pc)
  PROVE  Further
  BY DEF Further, RowsKept

\* From wherever a job is at work there is a way out ahead.
LEMMA OutIsAhead ==
  ASSUME TypeOK, job.pc \notin WaysOut, job'.pc \in WaysOut
  PROVE  PhaseAfter(PhaseOf(job.pc, job.goal), PhaseOf(job'.pc, job'.goal))
<1>1. PhaseOf(job'.pc, job'.goal) = "out" /\ job.goal \in Goals
  BY JobType DEF PhaseOf
<1>2. PhaseOf(job.pc, job.goal) \in {"known", job.goal}
  BY DEF PhaseOf
<1>3. QED
  BY <1>1, <1>2, PhaseOrder

LEMMA DoneEnds == ASSUME NEW why, Done(why) PROVE StepsFit' /\ Ended
  BY DEF Done, NoJob, StepsFit, Ended

LEMMA GoesOut ==
  ASSUME IInv, StepsFit, UNCHANGED records, job.pc \notin WaysOut,
         NEW pc \in WaysOut, Goto(pc)
  PROVE  StepsFit' /\ Further
<1>1. /\ job'.pc = pc /\ job'.kind = job.kind /\ job'.mine = job.mine
      /\ job'.goal = job.goal /\ job'.reply = job.reply
  BY DEF Goto, IInv, TypeOK, Job
<1>2. StepsFit'
  BY <1>1 DEF StepsFit, WaysOut
<1>3. QED
  BY <1>1, <1>2, OutIsAhead, Onwards DEF IInv

LEMMA Leaves ==
  ASSUME IInv, StepsFit, UNCHANGED records, job.pc \notin {"refusing", "leaving"},
         NEW why, Leave(why)
  PROVE  StepsFit' /\ (Ended \/ Further)
<1>1. CASE Done(why)
  BY <1>1, DoneEnds
<1>2. CASE job' = [job EXCEPT !.pc = "leaving", !.exit = why]
  <2>1. /\ job'.pc = "leaving" /\ job'.kind = job.kind /\ job'.mine = job.mine
        /\ job'.goal = job.goal /\ job'.reply = job.reply
    BY <1>2 DEF IInv, TypeOK, Job
  <2>2. StepsFit'
    BY <2>1 DEF StepsFit
  <2>3. CASE job.pc \in {"failing", "retrying"}
    <3>1. PhaseOf(job'.pc, job'.goal) = PhaseOf(job.pc, job.goal)
      BY <2>1, <2>3 DEF PhaseOf, WaysOut
    <3>2. QED
      BY <2>1, <2>2, <2>3, <3>1, PlaceOrder, Onwards
  <2>4. CASE job.pc \notin WaysOut
    BY <2>1, <2>2, <2>4, OutIsAhead, Onwards DEF IInv, WaysOut
  <2>5. QED
    BY <2>3, <2>4 DEF WaysOut
<1>3. QED
  BY <1>1, <1>2 DEF Leave

\* The places a job passes without a change of its goal.
LEMMA GoesOn ==
  ASSUME IInv, StepsFit, UNCHANGED records,
         job.pc \notin WaysOut \cup {"known"},
         NEW pc \in {"claiming", "preflight", "reassure", "planning"}, Goto(pc),
         PlaceAfter(job.pc, pc), pc = "claiming" => job.goal = "none",
         pc = "planning" => job.goal = "tag"
  PROVE  StepsFit' /\ Further
<1>1. /\ job'.pc = pc /\ job'.kind = job.kind /\ job'.mine = job.mine
      /\ job'.goal = job.goal /\ job'.reply = job.reply
  BY DEF Goto, IInv, TypeOK, Job
<1>2. StepsFit'
  BY <1>1 DEF StepsFit
<1>3. PhaseOf(job'.pc, job'.goal) = PhaseOf(job.pc, job.goal)
  BY <1>1 DEF PhaseOf, WaysOut
<1>4. QED
  BY <1>1, <1>2, <1>3, Onwards

\* A goal that comes later, with another guard before it.
LEMMA NextGoal ==
  ASSUME IInv, UNCHANGED records, job.pc \notin WaysOut,
         NEW pc \in {"prepare", "preflight"}, NEW goal \in Goals,
         job'.kind = job.kind, job'.mine = job.mine, job'.pc = pc, job'.goal = goal,
         PhaseAfter(PhaseOf(job.pc, job.goal), goal),
         goal = "adopt" => job'.reply \in {"reject", "duplicate"}
  PROVE  StepsFit' /\ Further
<1>1. StepsFit'
  BY DEF StepsFit
<1>2. PhaseOf(job'.pc, job'.goal) = goal
  BY DEF PhaseOf, WaysOut
<1>3. QED
  BY <1>1, <1>2, Onwards

LEMMA StoppedMoves ==
  ASSUME IInv, StepsFit, UNCHANGED records, job.pc \in {"prepare", "reassure"}, Stopped
  PROVE  StepsFit' /\ Moves
<1>1. CASE Goto("refusing")
  BY <1>1, GoesOut DEF WaysOut, Moves
<1>2. CASE Leave(NoLease) \/ Leave("claim")
  BY <1>2, Leaves DEF Moves
<1>3. QED
  BY <1>1, <1>2 DEF Stopped

LEMMA GuardMoves ==
  ASSUME IInv, StepsFit, Prepare \/ Preflight \/ PreflightFails
  PROVE  StepsFit' /\ Moves
<1>1. CASE Prepare
  <2>1. job.pc = "prepare" /\ records' = records
    BY <1>1 DEF Prepare, Still, Worker
  <2>2. CASE Goto("preflight")
    BY <2>1, <2>2, GoesOn, PlaceOrder DEF WaysOut, Moves
  <2>3. CASE Stopped
    BY <2>1, <2>3, StoppedMoves
  <2>4. QED
    BY <1>1, <2>2, <2>3 DEF Prepare
<1>2. CASE Preflight
  <2>1. job.pc = "preflight" /\ records' = records
    BY <1>2 DEF Preflight, Still, Worker
  <2>2. CASE Goto("reassure")
    BY <2>1, <2>2, GoesOn, PlaceOrder DEF WaysOut, Moves
  <2>3. CASE job' = [job EXCEPT !.pc = "reassure", !.swapped = FALSE,
                                !.verified = @ \cup {job.rev}]
    <3>1. /\ job'.pc = "reassure" /\ job'.kind = job.kind /\ job'.mine = job.mine
          /\ job'.goal = job.goal /\ job'.reply = job.reply
      BY <2>3 DEF IInv, TypeOK, Job
    <3>2. StepsFit'
      BY <3>1 DEF StepsFit
    <3>3. PhaseOf(job'.pc, job'.goal) = PhaseOf(job.pc, job.goal)
      BY <2>1, <3>1 DEF PhaseOf, WaysOut
    <3>4. QED
      BY <2>1, <3>1, <3>2, <3>3, Onwards, PlaceOrder DEF Moves
  <2>4. CASE Leave("target")
    BY <2>1, <2>4, Leaves DEF Moves
  <2>5. QED
    BY <1>2, <2>2, <2>3, <2>4 DEF Preflight
<1>3. CASE PreflightFails
  <2>1. job.pc = "preflight" /\ records' = records /\ Leave("target")
    BY <1>3 DEF PreflightFails, Worker
  <2>2. QED
    BY <2>1, Leaves DEF Moves
<1>4. QED
  BY <1>1, <1>2, <1>3

LEMMA ReassureMoves == ASSUME IInv, StepsFit, Reassure PROVE StepsFit' /\ Moves
<1>1. job.pc = "reassure" /\ records' = records
  BY DEF Reassure, Still, Worker
<1>2. CASE Stopped \/ Leave("key")
  BY <1>1, <1>2, StoppedMoves, Leaves DEF Moves
<1>3. CASE job' = [job EXCEPT !.pc = IF job.goal = "adopt" THEN "commit"
                                                           ELSE "request",
                              !.touched = TRUE, !.late = FALSE]
  <2>1. /\ job'.kind = job.kind /\ job'.mine = job.mine
        /\ job'.goal = job.goal /\ job'.reply = job.reply
        /\ job'.pc = IF job.goal = "adopt" THEN "commit" ELSE "request"
    BY <1>3 DEF IInv, TypeOK, Job
  <2>2. StepsFit'
    BY <2>1 DEF StepsFit
  <2>3. PhaseOf(job'.pc, job'.goal) = PhaseOf(job.pc, job.goal)
    BY <1>1, <2>1 DEF PhaseOf, WaysOut
  <2>4. QED
    BY <1>1, <2>1, <2>2, <2>3, Onwards, PlaceOrder DEF Moves
<1>4. QED
  BY <1>2, <1>3 DEF Reassure

\* An answer that is the goal's own.
LEMMA Replies ==
  ASSUME IInv, StepsFit, UNCHANGED records, job.pc = "request",
         NEW r \in {"none", "accept", "reject", "created", "same"}, NEW id, Reply(r, id),
         \/ job.goal = "check" /\ r \in {"accept", "reject"}
         \/ job.goal = "send" /\ r = "created"
         \/ job.goal = "observe" /\ r \in {"none", "same"}
         \/ job.goal \in {"fix", "approve"} /\ r = "none"
  PROVE  StepsFit' /\ Further
<1>1. /\ job'.pc = "commit" /\ job'.kind = job.kind /\ job'.mine = job.mine
      /\ job'.goal = job.goal /\ job'.reply = r
  BY DEF Reply, IInv, TypeOK, Job
<1>2. StepsFit'
  BY <1>1 DEF StepsFit
<1>3. PhaseOf(job'.pc, job'.goal) = PhaseOf(job.pc, job.goal)
  BY <1>1 DEF PhaseOf, WaysOut
<1>4. QED
  BY <1>1, <1>2, <1>3, Onwards, PlaceOrder

LEMMA RaisesMoves ==
  ASSUME IInv, StepsFit, UNCHANGED records, job.pc = "request", Raises
  PROVE  StepsFit' /\ Moves
<1>1. CASE Leave("server")
  BY <1>1, Leaves DEF Moves
<1>2. CASE job.goal = "observe" /\ Reply("none", 0)
  BY <1>2, Replies DEF Moves
<1>3. CASE Goto("retrying") \/ Goto("failing")
  BY <1>3, GoesOut DEF Moves, WaysOut
<1>4. QED
  BY <1>1, <1>2, <1>3 DEF Raises

\* What is there already takes another guard.
LEMMA Adopts ==
  ASSUME IInv, UNCHANGED records, job.pc = "request", job.goal \in {"check", "send"},
         NEW r \in {"reject", "duplicate"}, NEW id,
         job' = [job EXCEPT !.pc = "prepare", !.goal = "adopt", !.reply = r, !.asset = id]
  PROVE  StepsFit' /\ Further
<1>1. /\ job'.pc = "prepare" /\ job'.kind = job.kind /\ job'.mine = job.mine
      /\ job'.goal = "adopt" /\ job'.reply = r
  BY DEF IInv, TypeOK, Job
<1>2. PhaseAfter(PhaseOf(job.pc, job.goal), "adopt") /\ "adopt" \in Goals
  BY PhaseOrder DEF PhaseOf, WaysOut, Goals
<1>3. QED
  BY <1>1, <1>2, NextGoal DEF WaysOut

LEMMA AskCheckMoves == ASSUME IInv, StepsFit, AskCheck PROVE StepsFit' /\ Moves
<1>1. job.pc = "request" /\ job.goal = "check" /\ records' = records
  BY DEF AskCheck, At, Worker
<1>2. CASE Reply("accept", 0) \/ Reply("reject", There.id)
  BY <1>1, <1>2, Replies DEF Moves
<1>3. CASE job' = [job EXCEPT !.pc = "prepare", !.goal = "adopt",
                              !.reply = "reject", !.asset = There.id]
  BY <1>1, <1>3, Adopts DEF Moves
<1>4. QED
  BY <1>2, <1>3 DEF AskCheck

LEMMA SendBytesMoves == ASSUME IInv, StepsFit, SendBytes PROVE StepsFit' /\ Moves
<1>1. job.pc = "request" /\ job.goal = "send" /\ records' = records
  BY DEF SendBytes, At, Worker
<1>2. CASE AnswerLost
  BY <1>1, <1>2, RaisesMoves DEF AnswerLost
<1>3. CASE job' = [job EXCEPT !.pc = "prepare", !.goal = "adopt",
                              !.reply = "duplicate", !.asset = There.id]
  BY <1>1, <1>3, Adopts DEF Moves
<1>4. CASE Reply("created", assets + 1)
  BY <1>1, <1>4, Replies DEF Moves
<1>5. QED
  BY <1>2, <1>3, <1>4 DEF SendBytes

LEMMA PutDateMoves == ASSUME IInv, StepsFit, PutDate PROVE StepsFit' /\ Moves
<1>1. job.pc = "request" /\ job.goal \in {"fix", "approve"} /\ records' = records
  BY DEF PutDate, At, Worker
<1>2. CASE AnswerLost
  BY <1>1, <1>2, RaisesMoves DEF AnswerLost
<1>3. CASE Reply("none", 0)
  BY <1>1, <1>3, Replies DEF Moves
<1>4. CASE Leave("server") \/ Goto("failing")
  BY <1>1, <1>4, Leaves, GoesOut DEF Moves, WaysOut
<1>5. QED
  BY <1>2, <1>3, <1>4 DEF PutDate

LEMMA RequestMoves ==
  ASSUME IInv, StepsFit,
         Lost \/ FileUnreadable \/ FindTag \/ CreateTag \/ TagAssets \/ Observe
  PROVE  StepsFit' /\ Moves
<1>1. CASE Lost
  BY <1>1, RaisesMoves DEF Lost, AnswerLost, Worker
<1>2. CASE FileUnreadable
  BY <1>2, Leaves DEF FileUnreadable, At, Worker, Moves
<1>3. CASE FindTag \/ CreateTag \/ TagAssets
  <2>1. job.pc = "request" /\ job.goal \in {"find", "create", "tag"} /\ records' = records
    BY <1>3 DEF FindTag, CreateTag, TagAssets, At, Still, Worker
  <2>2. CASE TagAssets /\ Goto("planning")
    BY <2>1, <2>2, GoesOn, PlaceOrder DEF TagAssets, At, WaysOut, Moves
  <2>3. CASE Goto("failing")
    BY <2>1, <2>3, GoesOut DEF WaysOut, Moves
  <2>4. ASSUME NEW g \in {"create", "tag"}, Guarded(g), PhaseAfter(job.goal, g)
        PROVE  StepsFit' /\ Moves
    <3>1. /\ job'.pc = "prepare" /\ job'.kind = job.kind /\ job'.mine = job.mine
          /\ job'.goal = g
      BY <2>4 DEF Guarded, IInv, TypeOK, Job
    <3>2. PhaseAfter(PhaseOf(job.pc, job.goal), g) /\ g \in Goals
      BY <2>1, <2>4 DEF PhaseOf, WaysOut, Goals
    <3>3. QED
      BY <2>1, <3>1, <3>2, NextGoal DEF WaysOut, Moves
  <2>5. QED
    BY <1>3, <2>2, <2>3, <2>4, PhaseOrder DEF FindTag, CreateTag, TagAssets, At
<1>4. CASE Observe
  <2>1. job.pc = "request" /\ job.goal = "observe" /\ records' = records
    BY <1>4 DEF Observe, At, Still, Worker
  <2>2. Reply("same", Mine.asset) \/ Reply("none", 0)
    BY <1>4 DEF Observe
  <2>3. QED
    BY <2>1, <2>2, Replies DEF Moves
<1>5. QED
  BY <1>1, <1>2, <1>3, <1>4

\* A commit writes the row in hand and counts nothing.
LEMMA GoesMoves ==
  ASSUME IInv, job.mine \in Ids, NEW row, row.attempts = Mine.attempts,
         NEW pc \in PCs \ WaysOut, NEW goal \in Goals, NEW expect, Goes(row, pc, goal, expect),
         job.pc \notin WaysOut,
         \/ PhaseAfter(PhaseOf(job.pc, job.goal), PhaseOf(pc, goal))
         \/ PhaseOf(pc, goal) = PhaseOf(job.pc, job.goal) /\ PlaceAfter(job.pc, pc)
  PROVE  /\ Further
         /\ job'.pc = pc /\ job'.goal = goal /\ job'.reply = job.reply
<1>1. /\ job'.pc = pc /\ job'.goal = goal /\ job'.reply = job.reply
      /\ job'.kind = job.kind /\ job'.mine = job.mine
  BY DEF Goes, IInv, TypeOK, Job
<1>2. records' = [records EXCEPT ![job.mine] = row]
  BY DEF Goes
<1>3. RowsKept
  BY <1>1, <1>2 DEF RowsKept, IInv, TypeOK, Mine
<1>4. QED
  BY <1>1, <1>3 DEF Further

\* Where a commit finds a row in hand.
LEMMA CommitMine ==
  ASSUME IInv, job.pc \in HandPCs, job.kind # "recheck"
  PROVE  job.mine \in Ids /\ Mine \in Record
  BY HandType DEF IInv

LEMMA CommitsMove ==
  ASSUME IInv, StepsFit, BeginUploading \/ AssetKnown \/ BeginTagging \/ BeginFixing
  PROVE  StepsFit' /\ Moves
<1>1. job.pc \in {"commit", "known", "planning"}
  BY DEF BeginUploading, AssetKnown, BeginTagging, BeginFixing, Commits
<1>2. job.mine \in Ids /\ Mine \in Record
  BY <1>1, CommitMine, WhoIsWhere DEF IInv, HandPCs, SendPCs
<1>3. CASE BeginUploading
  <2>1. job.pc = "commit" /\ job.goal = "check"
    BY <1>3 DEF BeginUploading, Commits, StepsFit, IInv, FirstAnswer
  <2>2. Goes([Mine EXCEPT !.state = "uploading", !.first = First],
             "prepare", "send", "uploading")
    BY <1>3 DEF BeginUploading
  <2>3. PhaseAfter(PhaseOf(job.pc, job.goal), PhaseOf("prepare", "send"))
    BY <2>1, PhaseOrder DEF PhaseOf, WaysOut
  <2>4. /\ [Mine EXCEPT !.state = "uploading", !.first = First].attempts = Mine.attempts
        /\ "prepare" \in PCs \ WaysOut /\ "send" \in Goals
    BY <1>2 DEF Record, PCs, Goals, WaysOut
  <2>5. Further /\ job'.pc = "prepare" /\ job'.goal = "send"
    BY <1>2, <2>1, <2>2, <2>3, <2>4, GoesMoves DEF WaysOut
  <2>6. QED
    BY <2>5 DEF StepsFit, Moves
<1>4. CASE AssetKnown
  <2>1. job.pc = "commit" /\ job.goal \in {"check", "send", "adopt"}
    BY <1>4 DEF AssetKnown, Commits, StepsFit
  <2> DEFINE row == [Mine EXCEPT !.state = "asset_known", !.first = First,
                                 !.asset = job.asset, !.origin = OriginNow]
  <2>2. Goes(row, "known", "none", "asset_known")
    BY <1>4 DEF AssetKnown
  <2>3. PhaseAfter(PhaseOf(job.pc, job.goal), PhaseOf("known", "none"))
    BY <2>1, PhaseOrder DEF PhaseOf, WaysOut
  <2>4. row.attempts = Mine.attempts /\ "known" \in PCs \ WaysOut /\ "none" \in Goals
    BY <1>2 DEF Record, PCs, Goals, WaysOut
  <2> HIDE DEF row
  <2>5. Further /\ job'.pc = "known" /\ job'.goal = "none"
    BY <1>2, <2>1, <2>2, <2>3, <2>4, GoesMoves DEF WaysOut
  <2>6. QED
    BY <2>5 DEF StepsFit, Moves
<1>5. CASE BeginTagging
  <2>1. job.pc = "known"
    BY <1>5 DEF BeginTagging, Commits
  <2>2. PICK pc \in {"prepare", "planning"} : \E g \in {"find", "tag"} :
           /\ Goes([Mine EXCEPT !.state = "tagging"], pc, g, "tagging")
           /\ pc = "planning" => g = "tag"
    BY <1>5 DEF BeginTagging
  <2> PICK g \in {"find", "tag"} :
           /\ Goes([Mine EXCEPT !.state = "tagging"], pc, g, "tagging")
           /\ pc = "planning" => g = "tag"
    BY <2>2
  <2>3. PhaseAfter(PhaseOf(job.pc, job.goal), PhaseOf(pc, g))
    BY <2>1, PhaseOrder DEF PhaseOf, WaysOut
  <2>4. /\ [Mine EXCEPT !.state = "tagging"].attempts = Mine.attempts
        /\ pc \in PCs \ WaysOut /\ g \in Goals
    BY <1>2 DEF Record, PCs, Goals, WaysOut
  <2>5. Further /\ job'.pc = pc /\ job'.goal = g
    BY <1>2, <2>1, <2>2, <2>3, <2>4, GoesMoves DEF WaysOut
  <2>6. QED
    BY <2>5 DEF StepsFit, Moves
<1>6. CASE BeginFixing
  <2>1. job.pc = "planning" /\ job.goal = "tag"
    BY <1>6 DEF BeginFixing, Commits, StepsFit
  <2>2. Goes([Mine EXCEPT !.state = "fixing_datetime"], "prepare", "fix", "fixing_datetime")
    BY <1>6 DEF BeginFixing
  <2>3. PhaseAfter(PhaseOf(job.pc, job.goal), PhaseOf("prepare", "fix"))
    BY <2>1, PhaseOrder DEF PhaseOf, WaysOut
  <2>4. /\ [Mine EXCEPT !.state = "fixing_datetime"].attempts = Mine.attempts
        /\ "prepare" \in PCs \ WaysOut /\ "fix" \in Goals
    BY <1>2 DEF Record, PCs, Goals, WaysOut
  <2>5. Further /\ job'.pc = "prepare" /\ job'.goal = "fix"
    BY <1>2, <2>1, <2>2, <2>3, <2>4, GoesMoves DEF WaysOut
  <2>6. QED
    BY <2>5 DEF StepsFit, Moves
<1>7. QED
  BY <1>3, <1>4, <1>5, <1>6

\* A record that is let go: the sender takes the next.
LEMMA PutsDown ==
  ASSUME IInv, job.kind = "send", job.mine \in Ids, NEW row,
         records' = [records EXCEPT ![job.mine] = row], Again,
         \/ ~(row.valid /\ row.state \in Claimable)
         \/ row.attempts = Mine.attempts + 1 /\ row.attempts < MaxAttempts
  PROVE  StepsFit' /\ Moves
<1>1. job'.kind = job.kind /\ job'.pc = "head" /\ job'.goal = "none" /\ job'.reply = "none"
  BY DEF Again, NoJob
<1>2. /\ records'[job.mine] = row /\ job.mine # 0
      /\ \A r \in Ids \ {job.mine} : records'[r] = records[r]
  BY DEF IInv, TypeOK, Ids
<1>3. StepsFit'
  BY <1>1 DEF StepsFit
<1>4. QED
  BY <1>1, <1>2, <1>3 DEF SetDown, Moves

LEMMA EndsMoves ==
  ASSUME IInv, job.kind \in {"send", "approve"}, job.mine \in Ids,
         NEW state \in {"complete", Waiting}, NEW ending, Ends(state, ending)
  PROVE  StepsFit' /\ Moves
<1>1. CASE Done("done")
  BY <1>1, DoneEnds DEF Moves
<1>2. CASE job.kind = "send" /\ Again
  <2> DEFINE row == [Free(job.mine, state) EXCEPT !.ending = ending]
  <2>1. records' = [records EXCEPT ![job.mine] = row]
    BY DEF Ends
  <2>2. records[job.mine] \in Record
    BY DEF IInv, TypeOK
  <2>3. row.state = state
    BY <2>2 DEF Free, Record
  <2>4. state \notin Claimable
    BY StateNames
  <2> HIDE DEF row
  <2>5. QED
    BY <1>2, <2>1, <2>3, <2>4, PutsDown
<1>3. QED
  BY <1>1, <1>2 DEF Ends

LEMMA FinishMoves ==
  ASSUME IInv, StepsFit, FinishPlain \/ FinishObserved \/ FinishWritten
  PROVE  StepsFit' /\ Moves
<1>1. job.pc \in {"commit", "planning"}
  BY DEF FinishPlain, FinishObserved, FinishWritten, Commits
<1>2. job.kind \in {"send", "approve"}
  BY <1>1, WhoIsWhere, JobType DEF IInv, PcFits
<1>3. job.mine \in Ids
  BY <1>1, <1>2, CommitMine DEF HandPCs, SendPCs
<1>4. \E state \in {"complete", Waiting} : \E ending : Ends(state, ending)
  BY DEF FinishPlain, FinishObserved, FinishWritten
<1>5. QED
  BY <1>2, <1>3, <1>4, EndsMoves

LEMMA AskDateMoves == ASSUME IInv, StepsFit, AskDate \/ CommitFails PROVE StepsFit' /\ Moves
<1>1. CASE AskDate
  <2>1. job.pc = "planning" /\ job.goal = "tag" /\ records' = records
    BY <1>1 DEF AskDate, Still, Worker, StepsFit
  <2>2. /\ job'.pc = "prepare" /\ job'.kind = job.kind /\ job'.mine = job.mine
        /\ job'.goal = "observe"
    BY <1>1 DEF AskDate, Guarded, IInv, TypeOK, Job
  <2>3. PhaseAfter(PhaseOf(job.pc, job.goal), "observe") /\ "observe" \in Goals
    BY <2>1, PhaseOrder DEF PhaseOf, WaysOut, Goals
  <2>4. QED
    BY <2>1, <2>2, <2>3, NextGoal DEF WaysOut, Moves
<1>2. CASE CommitFails
  <2>1. /\ job.pc \notin {"refusing", "leaving"} /\ records' = records
        /\ \E why : Leave(why)
    BY <1>2 DEF CommitFails, Still, Worker
  <2>2. QED
    BY <2>1, Leaves DEF Moves
<1>3. QED
  BY <1>1, <1>2

LEMMA DownMoves ==
  ASSUME IInv, StepsFit, Refuse \/ Fails \/ Retries \/ Release
  PROVE  StepsFit' /\ Moves
<1>1. CASE Release
  BY <1>1, DoneEnds DEF Release, Moves
<1>2. ASSUME job.pc \in {"refusing", "failing", "retrying"}
      PROVE  /\ job.kind = "send" /\ job.mine \in Ids
             /\ records[job.mine] \in Record /\ Mine = records[job.mine]
  BY <1>2, WhoIsWhere, CommitMine DEF IInv, HandPCs, SendPCs, Mine
<1>3. CASE Refuse
  <2> DEFINE row == [Free(job.mine, "pending") EXCEPT !.valid = FALSE]
  <2>1. job.pc = "refusing" /\ Again /\ records' = [records EXCEPT ![job.mine] = row]
    BY <1>3 DEF Refuse
  <2>2. ~row.valid
    BY <1>2, <2>1 DEF Free, Record
  <2> HIDE DEF row
  <2>3. QED
    BY <1>2, <2>1, <2>2, PutsDown
<1>4. CASE Fails
  <2>1. job.pc \in {"failing", "retrying"}
    BY <1>4 DEF Fails
  <2>2. CASE Leave("claim") /\ UNCHANGED records
    BY <2>1, <2>2, Leaves DEF Moves
  <2> DEFINE row == Counted(Free(job.mine, "failed"))
  <2>3. ASSUME Again, records' = [records EXCEPT ![job.mine] = row]
        PROVE  StepsFit' /\ Moves
    <3>1. row.state = "failed" /\ "failed" \notin Claimable
      BY <1>2, <2>1, StateNames DEF Counted, Free, Record
    <3> HIDE DEF row
    <3>2. QED
      BY <1>2, <2>1, <2>3, <3>1, PutsDown
  <2>4. QED
    BY <1>4, <2>2, <2>3 DEF Fails
<1>5. CASE Retries
  <2> DEFINE row == Counted(Free(job.mine, "pending"))
  <2>1. /\ job.pc = "retrying" /\ Again /\ records' = [records EXCEPT ![job.mine] = row]
        /\ Mine.attempts + 1 < MaxAttempts
    BY <1>5 DEF Retries
  <2>2. row.attempts = Mine.attempts + 1
    BY <1>2, <2>1 DEF Counted, Free, Record
  <2> HIDE DEF row
  <2>3. QED
    BY <1>2, <2>1, <2>2, PutsDown
<1>6. QED
  BY <1>1, <1>3, <1>4, <1>5

LEMMA HeadMoves ==
  ASSUME IInv, StepsFit, Head \/ ClaimNothing \/ CheckClaimed \/ \E r \in Ids : Claim(r)
  PROVE  StepsFit' /\ Moves
<1>1. CASE Head \/ ClaimNothing
  <2>1. CASE \E why : Done(why)
    BY <2>1, DoneEnds DEF Moves
  <2>2. CASE Goto("claiming") /\ job.pc = "head" /\ records' = records
    BY <2>2, GoesOn, PlaceOrder DEF WaysOut, Moves, StepsFit
  <2>3. QED
    BY <1>1, <2>1, <2>2 DEF Head, ClaimNothing, Still, Worker
<1>2. CASE CheckClaimed
  <2>1. job.pc = "claimed" /\ job.goal = "none" /\ records' = records
    BY <1>2 DEF CheckClaimed, Still, Worker, StepsFit
  <2>2. CASE Goto("refusing") \/ Leave("key")
    BY <2>1, <2>2, GoesOut, Leaves DEF WaysOut, Moves
  <2>3. CASE job' = [job EXCEPT !.pc = "prepare", !.goal = "check",
                                !.date = captured[Mine.media]]
    <3>1. /\ job'.pc = "prepare" /\ job'.kind = job.kind /\ job'.mine = job.mine
          /\ job'.goal = "check"
      BY <2>3 DEF IInv, TypeOK, Job
    <3>2. PhaseAfter(PhaseOf(job.pc, job.goal), "check") /\ "check" \in Goals
      BY <2>1, PhaseOrder DEF PhaseOf, WaysOut, Goals
    <3>3. QED
      BY <2>1, <3>1, <3>2, NextGoal DEF WaysOut, Moves
  <2>4. QED
    BY <1>2, <2>2, <2>3 DEF CheckClaimed
<1>3. ASSUME NEW r \in Ids, Claim(r)
      PROVE  StepsFit' /\ Moves
  <2>1. /\ job.pc = "claiming" /\ job.goal = "none"
        /\ job' = [job EXCEPT !.pc = "claimed", !.mine = r, !.expect = "checking",
                              !.rev = current, !.touched = FALSE]
        /\ records' = [records EXCEPT ![r].state = "checking", ![r].token = serial,
                                      ![r].live = TRUE, ![r].rev = current]
    BY <1>3 DEF Claim, StepsFit
  <2>2. /\ job'.pc = "claimed" /\ job'.kind = job.kind /\ job'.mine = r
        /\ job'.goal = "none" /\ job'.reply = job.reply
    BY <2>1 DEF IInv, TypeOK, Job
  <2>3. job.mine = 0
    BY <2>1 DEF IInv, InHand, ApprovePCs, HandPCs, SendPCs
  <2>4. RowsKept
    <3> DEFINE row == [records[r] EXCEPT !.state = "checking", !.token = serial,
                                         !.live = TRUE, !.rev = current]
    <3>1. records' = [records EXCEPT ![r] = row]
      BY <2>1 DEF IInv, TypeOK
    <3>2. records[r] \in Record
      BY DEF IInv, TypeOK
    <3>3. row.attempts = records[r].attempts
      BY <3>2 DEF Record
    <3> HIDE DEF row
    <3>4. \A k \in Ids : records'[k] = IF k = r THEN row ELSE records[k]
      BY <3>1, OneRowWritten DEF IInv
    <3>5. QED
      BY <2>2, <3>3, <3>4 DEF RowsKept
  <2>5. PhaseOf(job'.pc, job'.goal) = PhaseOf(job.pc, job.goal)
    BY <2>1, <2>2 DEF PhaseOf, WaysOut
  <2>6. StepsFit'
    BY <2>2 DEF StepsFit
  <2>7. QED
    BY <2>1, <2>2, <2>3, <2>4, <2>5, <2>6, PlaceOrder DEF Further, Moves
<1>4. QED
  BY <1>1, <1>2, <1>3

LEMMA ApproveMoves == ASSUME IInv, StepsFit, Approves PROVE StepsFit' /\ Moves
<1>1. CASE ApproveReads
  <2>1. job.pc = "asked" /\ job.goal = "none" /\ records' = records
    BY <1>1 DEF ApproveReads, Still, Worker, StepsFit
  <2>2. CASE Done("done")
    BY <2>2, DoneEnds DEF Moves
  <2>3. CASE job' = [job EXCEPT !.pc = "approving", !.rev = Mine.rev]
    <3>1. /\ job'.pc = "approving" /\ job'.kind = job.kind /\ job'.mine = job.mine
          /\ job'.goal = "none" /\ job'.reply = job.reply
      BY <2>1, <2>3 DEF IInv, TypeOK, Job
    <3>2. PhaseOf(job'.pc, job'.goal) = PhaseOf(job.pc, job.goal)
      BY <2>1, <3>1 DEF PhaseOf, WaysOut
    <3>3. StepsFit'
      BY <3>1 DEF StepsFit
    <3>4. QED
      BY <2>1, <3>1, <3>2, <3>3, Onwards, PlaceOrder DEF Moves
  <2>4. QED
    BY <1>1, <2>2, <2>3 DEF ApproveReads
<1>2. CASE ApproveClaims
  <2>1. job.pc = "approving" /\ job.goal = "none"
    BY <1>2 DEF ApproveClaims, StepsFit
  <2>2. CASE Done("done")
    BY <2>2, DoneEnds DEF Moves
  <2> DEFINE row == [Mine EXCEPT !.state = "fixing_datetime", !.token = serial,
                                 !.live = TRUE]
  <2>3. CASE Goes(row, "reading", "none", "fixing_datetime")
    <3>1. job.mine \in Ids /\ Mine \in Record
      BY <2>1, WhoIsWhere, MineType DEF IInv, InHand
    <3>2. row.attempts = Mine.attempts /\ "reading" \in PCs \ WaysOut /\ "none" \in Goals
      BY <3>1 DEF Record, PCs, Goals, WaysOut
    <3>3. PhaseOf("reading", "none") = PhaseOf(job.pc, job.goal)
      BY <2>1 DEF PhaseOf, WaysOut
    <3> HIDE DEF row
    <3>4. Further /\ job'.pc = "reading" /\ job'.goal = "none"
      BY <2>1, <2>3, <3>1, <3>2, <3>3, GoesMoves, PlaceOrder DEF WaysOut
    <3>5. QED
      BY <3>4 DEF StepsFit, Moves
  <2>4. QED
    BY <1>2, <2>2, <2>3 DEF ApproveClaims
<1>3. CASE ApproveReadsDate
  <2>1. job.pc = "reading" /\ job.goal = "none" /\ records' = records
    BY <1>3 DEF ApproveReadsDate, Still, Worker, StepsFit
  <2>2. /\ job'.pc = "prepare" /\ job'.kind = job.kind /\ job'.mine = job.mine
        /\ job'.goal = "approve"
    BY <1>3 DEF ApproveReadsDate, IInv, TypeOK, Job
  <2>3. PhaseAfter(PhaseOf(job.pc, job.goal), "approve") /\ "approve" \in Goals
    BY <2>1, PhaseOrder DEF PhaseOf, WaysOut, Goals
  <2>4. QED
    BY <2>1, <2>2, <2>3, NextGoal DEF WaysOut, Moves
<1>4. QED
  BY <1>1, <1>2, <1>3 DEF Approves

\* A recheck that goes on in its list.
LEMMA RecheckOn ==
  ASSUME IInv, StepsFit, UNCHANGED records, NEW pc \in {"comparing", "stamping"},
         job.pc \notin WaysOut \cup {"known"}, PlaceAfter(job.pc, pc), NEW seen,
         job' = [job EXCEPT !.pc = pc, !.seen = seen]
  PROVE  StepsFit' /\ Further
<1>1. /\ job'.pc = pc /\ job'.kind = job.kind /\ job'.mine = job.mine
      /\ job'.goal = job.goal /\ job'.reply = job.reply
  BY DEF IInv, TypeOK, Job
<1>2. StepsFit'
  BY <1>1 DEF StepsFit
<1>3. PhaseOf(job'.pc, job'.goal) = PhaseOf(job.pc, job.goal)
  BY <1>1 DEF PhaseOf, WaysOut
<1>4. QED
  BY <1>1, <1>2, <1>3, Onwards

LEMMA RecheckMoves == ASSUME IInv, StepsFit, Rechecks PROVE StepsFit' /\ Moves
<1>1. CASE \E why : Done(why)
  BY <1>1, DoneEnds DEF Moves
<1>2. CASE RecheckStarts /\ ~\E why : Done(why)
  <2>1. job.pc = "starting" /\ job.goal = "none" /\ records' = records
    BY <1>2 DEF RecheckStarts, Still, Worker, StepsFit
  <2>2. /\ job'.pc = "preflight" /\ job'.kind = job.kind /\ job'.mine = job.mine
        /\ job'.goal = "recheck"
    BY <1>2 DEF RecheckStarts, IInv, TypeOK, Job
  <2>3. PhaseAfter(PhaseOf(job.pc, job.goal), "recheck") /\ "recheck" \in Goals
    BY <2>1, PhaseOrder DEF PhaseOf, WaysOut, Goals
  <2>4. QED
    BY <2>1, <2>2, <2>3, NextGoal DEF WaysOut, Moves
<1>3. CASE RecheckLists /\ ~\E why : Done(why)
  <2>1. job.pc = "reassure" /\ records' = records
    BY <1>3 DEF RecheckLists, Still, Worker
  <2>2. PICK seen : job' = [job EXCEPT !.pc = "comparing", !.seen = seen]
    BY <1>3 DEF RecheckLists
  <2>3. QED
    BY <2>1, <2>2, RecheckOn, PlaceOrder DEF WaysOut, Moves
<1>4. CASE RecheckCompares /\ ~\E why : Done(why)
  <2>1. job.pc = "comparing" /\ records' = records
    BY <1>4 DEF RecheckCompares, Still, Worker
  <2>2. PICK seen : job' = [job EXCEPT !.pc = "stamping", !.seen = seen]
    BY <1>4 DEF RecheckCompares
  <2>3. QED
    BY <2>1, <2>2, RecheckOn, PlaceOrder DEF WaysOut, Moves
<1>5. CASE RecheckStamps
  BY <1>5, DoneEnds DEF RecheckStamps, Moves
<1>6. QED
  BY <1>1, <1>2, <1>3, <1>4, <1>5 DEF Rechecks

LEMMA WorkMoves == ASSUME IInv, StepsFit, Working PROVE StepsFit' /\ Moves
<1>1. CASE Sends
  BY <1>1, HeadMoves, DownMoves, AskCheckMoves, SendBytesMoves, RequestMoves, CommitsMove,
     FinishMoves, AskDateMoves DEF Sends
<1>2. CASE Shared
  BY <1>2, GuardMoves, ReassureMoves, RequestMoves, PutDateMoves, FinishMoves, AskDateMoves,
     DownMoves DEF Shared
<1>3. QED
  BY <1>1, <1>2, ApproveMoves, RecheckMoves DEF Working

LEMMA StepsStep ==
  ASSUME IInv, StepsFit, [Next]_vars
  PROVE  /\ StepsFit'
         /\ Working => Moves
         /\ job.kind # "none" => Moves \/ Waits
<1>1. CASE Working
  BY <1>1, WorkMoves
<1>2. CASE JobStays /\ ~Working
  BY <1>2 DEF JobStays, SameHand, StepsFit, Waits
<1>3. CASE Restart /\ ~Working
  BY <1>3 DEF Restart, NoJob, StepsFit, Ended, Moves
<1>4. CASE (StartSend \/ StartRecheck \/ \E r \in Ids : StartApprove(r)) /\ ~Working
  <2>1. job.kind = "none" /\ job'.goal = "none" /\ job'.pc \notin {"planning", "commit"}
    BY <1>4 DEF StartSend, StartRecheck, StartApprove, Begin, NoJob
  <2>2. QED
    BY <1>4, <2>1 DEF StepsFit
<1>5. QED
  BY <1>1, <1>2, <1>3, <1>4, OuterJob DEF Next, Starts

\* Every step of the worker takes its job nearer to its end, and nothing else
\* throws it back: within a record it goes through the phases in their order,
\* and a record it is done with it claims again only with an attempt more, and
\* never with the last one.
THEOREM RecordsRunDown == Spec => []StepsFit /\ JobAdvances
<1>1. Init => StepsFit
  BY DEF Init, NoJob, StepsFit
<1>2. IInv /\ StepsFit /\ [Next]_vars => StepsFit'
  BY StepsStep
<1>3. IInv /\ StepsFit /\ [Next]_vars
        => [/\ Working => Moves
            /\ job.kind # "none" => Moves \/ Waits]_vars
  BY StepsStep
<1>4. QED
  BY <1>1, <1>2, <1>3, Inductive, PTL DEF Spec, JobAdvances
=============================================================================
