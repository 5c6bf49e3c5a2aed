---------------------------- MODULE MergeGroups ----------------------------
(***************************************************************************)
(* Groups of split videos: detection (jobs/detect_groups.py), editing      *)
(* (db/merges.py, api/routes_merges.py), the merge job (jobs/merger.py)    *)
(* with the publication of its result, the deletion of a result            *)
(* (db/media.py), the recovery at startup (jobs/reconcile.py) and what the *)
(* tables then offer for upload (db/selection.py).                         *)
(*                                                                         *)
(* A step is one transaction; jobs run one at a time (JobQueue promises    *)
(* it), requests of users come between any two steps.  Publication is      *)
(* taken at the grain of its promise (Publication): staged, linked,        *)
(* committed.  The upload records are what Uploads makes of them.          *)
(***************************************************************************)
EXTENDS Naturals, FiniteSets, Sequences

CONSTANTS
    Parts,        \* how many original videos there are, in capture order
    Joined,       \* the i for which part i + 1 continues part i
    Lists,        \* the lists of parts users think of
    MaxGroups, MaxVideos, MaxRows, MaxRevisions, MaxNames,   \* bounds
    Takes,        \* how many different files the same inputs may give
    Budgets       \* how often the Expenses happen: one is chosen

Expenses == {"merge", "detect", "edit", "save", "delete", "upload",
             "fault", "loss", "restart"}

PartIds == 1..Parts
ListsOf(S) == UNION {[1..n -> S] : n \in 2..Parts}

ASSUME MergeAssumption ==
    /\ {Parts, MaxGroups, MaxVideos, MaxRows, MaxRevisions, MaxNames, Takes}
           \subseteq Nat \ {0}
    /\ Joined \subseteq PartIds
    /\ Lists \subseteq ListsOf(PartIds)
    /\ Budgets \subseteq [Expenses -> Nat]

VARIABLES
    groups,     \* merge_group with its members
    videos,     \* media_file, role derived
    files,      \* the tree derived/
    rows,       \* artifact_staging, kind merge
    upload,     \* upload_record: the valid record of each media file
    revision,   \* the profile's current_revision_id
    job,        \* the worker: what the running handler holds
    request,    \* a request that has computed a digest and not yet written
    unlinking,  \* names whose rows are deleted and whose files are not yet
    budget

vars == <<groups, videos, files, rows, upload, revision, job, request,
          unlinking, budget>>

-----------------------------------------------------------------------------
GroupIds == 1..MaxGroups
VideoIds == 1..MaxVideos
RowIds   == 1..MaxRows
Nobody   == 0                  \* NULL, for ids that start at 1
MediaIds == {<<"part", p>> : p \in PartIds} \cup {<<"video", v>> : v \in VideoIds}

Statuses == {"absent", "detected", "merging", "merged", "failed", "skipped"}
Group == [status : Statuses, members : Seq(PartIds),
          rev : 0..MaxRevisions,            \* profile_revision_id
          digest : 0..MaxRevisions,         \* the revision input_digest was made of
          out : VideoIds \cup {Nobody}, next : GroupIds \cup {Nobody},
          verified : {"none", "passed", "failed"}, adopted : BOOLEAN]
NoGroup == [status |-> "absent", members |-> <<>>, rev |-> 0, digest |-> 0,
            out |-> Nobody, next |-> Nobody, verified |-> "none", adopted |-> FALSE]

\* What a file holds: the parts it was joined from, under which rules, and
\* which of the files that may come of them.
Contents == [of : Seq(PartIds), rev : 1..MaxRevisions, take : 1..Takes]
Nothing  == [of |-> <<>>, rev |-> 1, take |-> 1]

\* merged_rel_path names the first and the last part; a collision takes the
\* next name of the series.
Names == PartIds \X PartIds \X (1..MaxNames)
NoName == <<1, 1, 1>>
NameOf(list, n) == <<list[1], list[Len(list)], n>>

Video   == [name : Names, made : Contents \cup {Nothing}]
NoVideo == [name |-> NoName, made |-> Nothing]

Row   == [state : {"absent", "writing", "staged", "published"},
          group : GroupIds \cup {Nobody}, name : Names, made : Contents \cup {Nothing},
          temp : BOOLEAN]                   \* the staging file is there
NoRow == [state |-> "absent", group |-> Nobody, name |-> NoName,
          made |-> Nothing, temp |-> FALSE]

PCs == {"idle", "detecting", "joining", "verified", "writing", "staged",
        "linked", "committed", "recovering"}
Job == [pc : PCs, group : GroupIds \cup {Nobody}, row : RowIds \cup {Nobody},
        rev : 0..MaxRevisions, todo : Seq(Seq(PartIds)),
        made : Contents \cup {Nothing}, rows : SUBSET RowIds]
NoJob == [pc |-> "idle", group |-> Nobody, row |-> Nobody, rev |-> 0,
          todo |-> <<>>, made |-> Nothing, rows |-> {}]

Request == [kind : {"none", "create", "regroup"}, group : GroupIds \cup {Nobody},
            list : Seq(PartIds), digest : 0..MaxRevisions]
NoRequest == [kind |-> "none", group |-> Nobody, list |-> <<>>, digest |-> 0]

Sent == {"none", "waiting", "queued", "sending", "complete", "gone"}

TypeOK ==
    /\ groups \in [GroupIds -> Group]
    /\ videos \in [VideoIds -> Video]
    /\ files \in [Names -> Contents \cup {Nothing}]
    /\ rows \in [RowIds -> Row]
    /\ upload \in [MediaIds -> Sent]
    /\ revision \in 1..MaxRevisions
    /\ job \in Job
    /\ request \in Request
    /\ unlinking \in SUBSET Names
    /\ budget \in [Expenses -> Nat]

Init ==
    /\ groups = [g \in GroupIds |-> NoGroup]
    /\ videos = [v \in VideoIds |-> NoVideo]
    /\ files = [n \in Names |-> Nothing]
    /\ rows = [r \in RowIds |-> NoRow]
    /\ upload = [m \in MediaIds |-> "none"]
    /\ revision = 1
    /\ job = NoJob
    /\ request = NoRequest
    /\ unlinking = {}
    /\ budget \in Budgets

Pay(e) == /\ budget[e] > 0
          /\ budget' = [budget EXCEPT ![e] = @ - 1]

-----------------------------------------------------------------------------
(* The tables. *)

Exists(g) == groups[g].status # "absent"
HasVideo(v) == videos[v] # NoVideo
\* Neither superseded nor discarded: its members are active (the triggers).
Holds(g) == /\ Exists(g)
            /\ groups[g].next = Nobody
            /\ groups[g].status # "skipped"
PartsOf(g) == {groups[g].members[i] : i \in 1..Len(groups[g].members)}
InList(list) == {list[i] : i \in 1..Len(list)}
Taken(p) == \E g \in GroupIds : Holds(g) /\ p \in PartsOf(g)
\* merge_group_active_digest: a discarded group keeps its digest.
DigestTaken(list, rev) ==
    \E g \in GroupIds : /\ Exists(g)
                        /\ groups[g].next = Nobody
                        /\ groups[g].members = list
                        /\ groups[g].digest = rev

FreeGroup == {g \in GroupIds : /\ ~Exists(g)
                               /\ \A h \in 1..(g - 1) : Exists(h)}
FreeVideo == {v \in VideoIds : /\ ~HasVideo(v)
                               /\ \A w \in 1..(v - 1) : HasVideo(w)}
FreeRow   == {r \in RowIds : /\ rows[r].state = "absent"
                             /\ \A s \in 1..(r - 1) : rows[s].state # "absent"}

NewGroup(list, rev, digest) ==
    [NoGroup EXCEPT !.status = "detected", !.members = list, !.rev = rev,
                    !.digest = digest]

\* The group a video is shown and deleted with: the current one first.
Rank(g) == IF groups[g].next # Nobody THEN 2
           ELSE IF groups[g].status = "skipped" THEN 1 ELSE 0
Pointing(v) == {g \in GroupIds : Exists(g) /\ groups[g].out = v}
Owner(v) == CHOOSE g \in Pointing(v) :
                \A h \in Pointing(v) : \/ Rank(g) < Rank(h)
                                       \/ Rank(g) = Rank(h) /\ g <= h

InFlight == {"waiting", "queued", "sending"}    \* IN_FLIGHT_STATES
PartUpload(g) == {upload[<<"part", p>>] : p \in PartsOf(g)}

\* SENDABLE_CLAUSE: what the counts of the dashboard call not yet sent.
Adoptable(g) == groups[g].adopted \/ groups[g].verified = "passed"
CountedBy(g, v) == /\ groups[g].out = v
                   /\ groups[g].next = Nobody
                   /\ groups[g].status = "merged"
                   /\ groups[g].rev = revision
                   /\ Adoptable(g)
Counted(v) == HasVideo(v) /\ \E g \in GroupIds : CountedBy(g, v)

\* group_is_current: the stored digest is the one of today's members and rules.
ActiveMembers(g) == IF Holds(g) THEN groups[g].members ELSE <<>>
\* Fault: the digest is not compared, as SENDABLE_CLAUSE does not.
FaultIsCurrent(g, v) == Exists(g) /\ groups[g].next = Nobody /\ groups[g].out = v
IsCurrent(g, v) == /\ Exists(g)
                   /\ groups[g].next = Nobody
                   /\ groups[g].out = v
                   /\ groups[g].digest = revision
                   /\ ActiveMembers(g) = groups[g].members

\* SelectionService.selectable, without the switches that widen it.
OffersPart(p) == ~Taken(p)
OffersVideo(v) ==
    /\ HasVideo(v)
    /\ \E g \in GroupIds : /\ groups[g].status = "merged"
                           /\ IsCurrent(g, v)
                           /\ Adoptable(g)
Offers(m) == IF m[1] = "part" THEN OffersPart(m[2]) ELSE OffersVideo(m[2])

-----------------------------------------------------------------------------
(* GroupDetector *)

\* detect_groups on the parts between taken ones: the longest runs whose
\* neighbours continue each other.
Free(taken) == PartIds \ taken
Chains(taken) ==
    {c \in PartIds \X PartIds :
        LET a == c[1]
            b == c[2]
        IN /\ a < b
           /\ a..b \subseteq Free(taken)
           /\ a..(b - 1) \subseteq Joined
           /\ \/ a = 1
              \/ (a - 1) \notin Joined
              \/ (a - 1) \in taken
           /\ \/ b \notin Joined
              \/ b = Parts
              \/ (b + 1) \in taken}
Run(c) == [i \in 1..(c[2] - c[1] + 1) |-> c[1] + i - 1]
Candidates(taken) ==
    {s \in [1..Cardinality(Chains(taken)) -> {Run(c) : c \in Chains(taken)}] :
        \A i, j \in DOMAIN s : i < j => s[i][1] < s[j][1]}

\* The job carries the revision of the moment it was asked for.
StartDetect ==
    /\ job.pc = "idle"
    /\ Pay("detect")
    /\ \E rev \in 1..revision :
       \E s \in Candidates({p \in PartIds : Taken(p)}) :
           job' = [NoJob EXCEPT !.pc = "detecting", !.rev = rev, !.todo = s]
    /\ UNCHANGED <<groups, videos, files, rows, upload, revision, request, unlinking>>

Refused(list, rev) == DigestTaken(list, rev) \/ \E p \in InList(list) : Taken(p)

SaveDetected ==
    /\ job.pc = "detecting"
    /\ IF job.todo = <<>> THEN job' = NoJob /\ UNCHANGED groups
       ELSE LET list == Head(job.todo)
            IN /\ job' = [job EXCEPT !.todo = Tail(@)]
               /\ \/ Refused(list, job.rev) /\ UNCHANGED groups
                  \/ /\ ~Refused(list, job.rev)
                     /\ \E g \in FreeGroup :
                           groups' = [groups EXCEPT ![g] =
                                         NewGroup(list, job.rev, job.rev)]
    /\ UNCHANGED <<videos, files, rows, upload, revision, request, unlinking, budget>>

-----------------------------------------------------------------------------
(* Merger.run *)

Idle == job' = NoJob

\* claim_for_merge.  The job carries the digest and the revision of the
\* group's row, neither of which ever changes.
StartMerge(g) ==
    /\ job.pc = "idle"
    /\ Pay("merge")
    /\ Holds(g) /\ groups[g].status \in {"detected", "failed"}
    /\ groups' = [groups EXCEPT ![g].status = "merging"]
    /\ job' = [NoJob EXCEPT !.pc = "joining", !.group = g, !.rev = groups[g].rev]
    /\ UNCHANGED <<videos, files, rows, upload, revision, request, unlinking>>

\* _transition from merging: of another row it raises, and the job ends.
Leave(g, target) ==
    groups' = IF groups[g].status = "merging" /\ groups[g].next = Nobody
              THEN [groups EXCEPT ![g].status = target] ELSE groups

\* record_verification, before anything is published.  A group that was edited
\* meanwhile makes it raise, and mark_failed after it.
RecordVerification ==
    /\ job.pc = "joining"
    /\ LET g == job.group
       IN IF groups[g].status = "merging" /\ groups[g].next = Nobody
          THEN \E verdict \in {"passed", "failed"}, take \in 1..Takes :
                  /\ groups' = [groups EXCEPT ![g].verified = verdict]
                  /\ job' = [job EXCEPT !.pc = "verified",
                                        !.made = [of |-> groups[g].members,
                                                  rev |-> job.rev, take |-> take]]
          ELSE Leave(g, "failed") /\ Idle
    /\ UNCHANGED <<videos, files, rows, upload, revision, request, unlinking, budget>>

\* An input that is gone, no space, ffmpeg, a probe, an error of the file system.
MergeFails ==
    /\ job.pc \in {"joining", "verified"}
    /\ Pay("fault")
    /\ Leave(job.group, "failed")
    /\ Idle
    /\ UNCHANGED <<videos, files, rows, upload, revision, request, unlinking>>

\* A cancel is seen by ffmpeg's loop, before the publication, or in its pass
\* over the bytes.
\* Fault: a cancelled merge does not release its group.
FaultMergeCancelled ==
    /\ job.pc \in {"joining", "verified", "writing"}
    /\ Pay("fault")
    /\ rows' = IF job.pc = "writing" THEN [rows EXCEPT ![job.row] = NoRow] ELSE rows
    /\ Idle
    /\ UNCHANGED <<groups, videos, files, upload, revision, request, unlinking>>
MergeCancelled ==
    /\ job.pc \in {"joining", "verified", "writing"}
    /\ Pay("fault")
    /\ Leave(job.group, "detected")
    /\ rows' = IF job.pc = "writing" THEN [rows EXCEPT ![job.row] = NoRow] ELSE rows
    /\ Idle
    /\ UNCHANGED <<videos, files, upload, revision, request, unlinking>>

\* publish_prepared: the row first, then the link from work/ to staging/.
InsertRow ==
    /\ job.pc = "verified"
    /\ \E r \in FreeRow :
          /\ rows' = [rows EXCEPT ![r] = [NoRow EXCEPT !.state = "writing",
                                                       !.group = job.group,
                                                       !.temp = TRUE]]
          /\ job' = [job EXCEPT !.pc = "writing", !.row = r]
    /\ UNCHANGED <<groups, videos, files, upload, revision, request, unlinking, budget>>

\* assert_lease and the update, in one transaction: the point of no return.
Stage ==
    /\ job.pc = "writing"
    /\ rows' = [rows EXCEPT ![job.row].state = "staged",
                            ![job.row].made = job.made,
                            ![job.row].name = NameOf(job.made.of, 1)]
    /\ job' = [job EXCEPT !.pc = "staged"]
    /\ UNCHANGED <<groups, videos, files, upload, revision, request, unlinking, budget>>

\* The lease was lost, or step 2 to 6 failed: the row is dropped.
StagingFails ==
    /\ job.pc = "writing"
    /\ Pay("fault")
    /\ rows' = [rows EXCEPT ![job.row] = NoRow]
    /\ Leave(job.group, "failed")
    /\ Idle
    /\ UNCHANGED <<videos, files, upload, revision, request, unlinking>>

\* _link of the publisher: from the row's name on, the first name of the series
\* that is free or holds the same bytes.
Fits(r, n) == files[n] = Nothing \/ files[n] = rows[r].made
From(r, k) == <<rows[r].name[1], rows[r].name[2], k>>
LinkTo(r, n, state) ==
    /\ n[1] = rows[r].name[1] /\ n[2] = rows[r].name[2] /\ n[3] >= rows[r].name[3]
    /\ Fits(r, n)
    /\ \A k \in rows[r].name[3]..(n[3] - 1) : ~Fits(r, From(r, k))
    /\ files' = [files EXCEPT ![n] = rows[r].made]
    /\ rows' = [rows EXCEPT ![r].name = n, ![r].temp = FALSE, ![r].state = state]

\* _commit: the row of a name is taken over; the group is found by its id,
\* whatever has become of it.
VideosNamed(n) == {v \in VideoIds : HasVideo(v) /\ videos[v].name = n}
\* Fault: the output is entered only where the group is still in force.
FaultCommitRow(r, n) ==
    \E v \in (IF VideosNamed(n) = {} THEN FreeVideo ELSE VideosNamed(n)) :
        /\ videos' = IF HasVideo(v) THEN videos
                     ELSE [videos EXCEPT ![v] = [name |-> n, made |-> rows[r].made]]
        /\ groups' = IF Holds(rows[r].group)
                     THEN [groups EXCEPT ![rows[r].group].out = v] ELSE groups
CommitRow(r, n) ==
    \E v \in (IF VideosNamed(n) = {} THEN FreeVideo ELSE VideosNamed(n)) :
        /\ videos' = IF HasVideo(v) THEN videos
                     ELSE [videos EXCEPT ![v] = [name |-> n, made |-> rows[r].made]]
        /\ groups' = [groups EXCEPT ![rows[r].group].out = v]

Link ==
    /\ job.pc = "staged"
    /\ \E n \in Names : LinkTo(job.row, n, "staged")
    /\ job' = [job EXCEPT !.pc = "linked"]
    /\ UNCHANGED <<groups, videos, upload, revision, request, unlinking, budget>>

Commit ==
    /\ job.pc = "linked"
    /\ CommitRow(job.row, rows[job.row].name)
    /\ rows' = [rows EXCEPT ![job.row].state = "published"]
    /\ job' = [job EXCEPT !.pc = "committed"]
    /\ UNCHANGED <<files, upload, revision, request, unlinking, budget>>

\* An error after the row was staged: left to the next start, the group merging.
PublishInterrupted ==
    /\ job.pc \in {"staged", "linked"}
    /\ Pay("fault")
    /\ Idle
    /\ UNCHANGED <<groups, videos, files, rows, upload, revision, request, unlinking>>

\* mark_merged asks the table whether output and verification are there.
MarkMerged ==
    /\ job.pc = "committed"
    /\ LET g == job.group
       IN Leave(g, IF groups[g].out # Nobody /\ groups[g].verified # "none"
                   THEN "merged" ELSE "failed")
    /\ Idle
    /\ UNCHANGED <<videos, files, rows, upload, revision, request, unlinking, budget>>

MergeStep == \/ RecordVerification \/ MergeFails \/ MergeCancelled \/ InsertRow
             \/ Stage \/ StagingFails \/ Link \/ Commit \/ PublishInterrupted
             \/ MarkMerged \/ \E g \in GroupIds : StartMerge(g)

-----------------------------------------------------------------------------
(* The process ends and starts: Reconciler.run on what concerns merges. *)

Recoverable == {r \in RowIds : \/ rows[r].state \in {"writing", "staged"}
                               \/ /\ rows[r].state = "published"
                                  /\ VideosNamed(rows[r].name) = {}}

Restart ==
    /\ Pay("restart")
    /\ job' = [NoJob EXCEPT !.pc = "recovering", !.rows = Recoverable]
    /\ request' = NoRequest
    /\ unlinking' = {}
    /\ UNCHANGED <<groups, videos, files, rows, upload, revision>>

Recovered(r) == job' = [job EXCEPT !.rows = @ \ {r}]

DiscardWriting(r) ==
    /\ job.pc = "recovering" /\ r \in job.rows
    /\ rows[r].state = "writing"
    /\ rows' = [rows EXCEPT ![r] = NoRow]
    /\ Recovered(r)
    /\ UNCHANGED <<groups, videos, files, upload, revision, request, unlinking, budget>>

\* resume of a staged row whose staging file is there.
ResumeLinking(r) ==
    /\ job.pc = "recovering" /\ r \in job.rows
    /\ rows[r].state = "staged" /\ rows[r].temp
    /\ \E n \in Names : LinkTo(r, n, "published") /\ CommitRow(r, n)
    /\ Recovered(r)
    /\ UNCHANGED <<upload, revision, request, unlinking, budget>>

\* _adopt_published_final, and the rows that are published already: _commit
\* alone, which of those looks at no file.
ResumeCommit(r) ==
    /\ job.pc = "recovering" /\ r \in job.rows
    /\ \/ /\ rows[r].state = "staged"
          /\ ~rows[r].temp
          /\ files[rows[r].name] = rows[r].made
       \/ rows[r].state = "published"
    /\ rows' = [rows EXCEPT ![r].state = "published"]
    /\ CommitRow(r, rows[r].name)
    /\ Recovered(r)
    /\ UNCHANGED <<files, upload, revision, request, unlinking, budget>>

\* StagingLost, or an OSError: the row stays and the others go on.
ResumeFails(r) ==
    /\ job.pc = "recovering" /\ r \in job.rows
    /\ rows[r].state = "staged"
    /\ \/ /\ ~rows[r].temp
          /\ files[rows[r].name] # rows[r].made
          /\ UNCHANGED budget
       \/ Pay("fault")
    /\ Recovered(r)
    /\ UNCHANGED <<groups, videos, files, rows, upload, revision, request, unlinking>>

\* _settle_merges: groups of rows that could not be recovered are not touched.
Blocked == {rows[r].group : r \in {s \in RowIds : rows[s].state \in {"writing", "staged"}}}
\* Fault: every group left merging is taken for published.
FaultSettleAsMerged ==
    /\ job.pc = "recovering" /\ job.rows = {}
    /\ groups' = [g \in GroupIds |->
            IF groups[g].status = "merging" /\ g \notin Blocked
            THEN [groups[g] EXCEPT !.status = "merged"] ELSE groups[g]]
    /\ Idle
    /\ UNCHANGED <<videos, files, rows, upload, revision, request, unlinking, budget>>
\* Fault: a group whose staging could not be recovered is released as well.
FaultSettleBlocked ==
    /\ job.pc = "recovering" /\ job.rows = {}
    /\ groups' = [g \in GroupIds |->
            IF groups[g].status = "merging"
            THEN [groups[g] EXCEPT !.status =
                     IF groups[g].out # Nobody THEN "merged" ELSE "detected"]
            ELSE groups[g]]
    /\ Idle
    /\ UNCHANGED <<videos, files, rows, upload, revision, request, unlinking, budget>>
SettleMerges ==
    /\ job.pc = "recovering" /\ job.rows = {}
    /\ groups' = [g \in GroupIds |->
            IF groups[g].status = "merging" /\ g \notin Blocked
            THEN [groups[g] EXCEPT !.status =
                     IF groups[g].out # Nobody THEN "merged" ELSE "detected"]
            ELSE groups[g]]
    /\ Idle
    /\ UNCHANGED <<videos, files, rows, upload, revision, request, unlinking, budget>>

Recovery == \/ Restart
            \/ \E r \in RowIds : \/ DiscardWriting(r) \/ ResumeLinking(r)
                                 \/ ResumeCommit(r) \/ ResumeFails(r)
            \/ SettleMerges

-----------------------------------------------------------------------------
(* Requests.  Before HTTP is up, there are none. *)

Serving == job.pc # "recovering"

\* _digest_of reads the current revision; the write follows in a transaction
\* of its own.
ComputeDigest ==
    /\ Serving /\ request = NoRequest
    /\ Pay("edit")
    /\ \E list \in Lists :
          \/ request' = [NoRequest EXCEPT !.kind = "create", !.list = list,
                                          !.digest = revision]
          \/ \E g \in GroupIds :
                /\ Exists(g)
                /\ request' = [kind |-> "regroup", group |-> g, list |-> list,
                               digest |-> revision]
    /\ UNCHANGED <<groups, videos, files, rows, upload, revision, job, unlinking>>

CreateManual ==
    /\ request.kind = "create"
    /\ \/ Refused(request.list, request.digest) /\ UNCHANGED groups
       \/ /\ ~Refused(request.list, request.digest)
          /\ \E g \in FreeGroup :
                groups' = [groups EXCEPT ![g] =
                              NewGroup(request.list, revision, request.digest)]
    /\ request' = NoRequest
    /\ UNCHANGED <<videos, files, rows, upload, revision, job, unlinking, budget>>

\* _assert_editable looks at the members that are still active.
Editable(g) == /\ Exists(g)
               /\ Holds(g) => PartUpload(g) \cap {"queued", "sending"} = {}
\* _invalidate_pending, before the members are let go.
Invalidated(g) ==
    IF ~Holds(g) THEN upload
    ELSE [m \in MediaIds |->
            IF upload[m] = "waiting" /\ m \in {<<"part", p>> : p \in PartsOf(g)}
            THEN "none" ELSE upload[m]]

\* supersede: the members of the old group are free before the new ones are
\* inserted.  A group that is superseded already may not point anywhere else.
Regroup ==
    /\ request.kind = "regroup"
    /\ LET g == request.group
           others == {h \in GroupIds : Holds(h) /\ h # g}
           free == /\ Editable(g)
                   /\ groups[g].next = Nobody
                   /\ \A h \in others : PartsOf(h) \cap InList(request.list) = {}
                   /\ ~\E h \in GroupIds \ {g} :
                          /\ Exists(h) /\ groups[h].next = Nobody
                          /\ groups[h].members = request.list
                          /\ groups[h].digest = request.digest
       IN \/ ~free /\ UNCHANGED <<groups, upload>>
          \/ /\ free
             /\ \E n \in FreeGroup :
                   groups' = [groups EXCEPT ![g].next = n,
                                 ![n] = NewGroup(request.list, revision, request.digest)]
             /\ upload' = Invalidated(g)
    /\ request' = NoRequest
    /\ UNCHANGED <<videos, files, rows, revision, job, unlinking, budget>>

Discarded(g) == [groups EXCEPT ![g].status = "skipped"]

Discard(g) ==
    /\ Serving
    /\ Pay("edit")
    /\ Editable(g)
    /\ groups' = Discarded(g)
    /\ upload' = Invalidated(g)
    /\ UNCHANGED <<videos, files, rows, revision, job, request, unlinking>>

\* Refused while a row refers to the group (ON DELETE RESTRICT).
DeleteDiscarded(g) ==
    /\ Serving
    /\ groups[g].status = "skipped" /\ groups[g].out = Nobody
    /\ \A r \in RowIds : rows[r].group # g
    /\ \A h \in GroupIds : groups[h].next # g
    /\ request.group # g /\ job.group # g       \* their next look refuses
    /\ groups' = [groups EXCEPT ![g] = NoGroup]
    /\ UNCHANGED <<videos, files, rows, upload, revision, job, request, unlinking, budget>>

Adopt(g) ==
    /\ Serving
    /\ groups[g].status = "merged" /\ groups[g].next = Nobody
    /\ groups[g].out # Nobody /\ ~groups[g].adopted
    /\ groups' = [groups EXCEPT ![g].adopted = TRUE]
    /\ UNCHANGED <<videos, files, rows, upload, revision, job, request, unlinking, budget>>

\* The profile is saved: a new revision, and with it another digest.
SaveProfile ==
    /\ Serving
    /\ Pay("save")
    /\ revision < MaxRevisions
    /\ revision' = revision + 1
    /\ UNCHANGED <<groups, videos, files, rows, upload, job, request, unlinking>>

\* deletion_blocker
Deletable(v) ==
    /\ HasVideo(v)
    /\ upload[<<"video", v>>] \in {"none", "gone"}
    /\ Pointing(v) # {}
    /\ Rank(Owner(v)) = 0 => PartUpload(Owner(v)) \cap InFlight = {}

\* delete_derived: the rows in one transaction ...
DeleteVideo(v) ==
    /\ Serving
    /\ Pay("delete")
    /\ Deletable(v)
    /\ groups' = [g \in GroupIds |->
            LET kept == IF g = Owner(v) /\ Rank(g) = 0
                        THEN [groups[g] EXCEPT !.status = "skipped"] ELSE groups[g]
            IN IF g \in Pointing(v) THEN [kept EXCEPT !.out = Nobody] ELSE kept]
    /\ upload' = [upload EXCEPT ![<<"video", v>>] = "none"]
    /\ videos' = [videos EXCEPT ![v] = NoVideo]
    /\ unlinking' = unlinking \cup {videos[v].name}
    /\ UNCHANGED <<files, rows, revision, job, request>>

\* ... and the file after it.
Unlink(n) ==
    /\ n \in unlinking
    /\ files' = [files EXCEPT ![n] = Nothing]
    /\ unlinking' = unlinking \ {n}
    /\ UNCHANGED <<groups, videos, rows, upload, revision, job, request, budget>>

Requests ==
    \/ ComputeDigest \/ CreateManual \/ Regroup \/ SaveProfile
    \/ \E g \in GroupIds : Discard(g) \/ DeleteDiscarded(g) \/ Adopt(g)
    \/ \E v \in VideoIds : DeleteVideo(v)
    \/ \E n \in Names : Unlink(n)

-----------------------------------------------------------------------------
(* The world: uploads go on (see Uploads), files of derived/ disappear. *)

UploadMoves == {<<"none", "queued">>, <<"waiting", "queued">>, <<"queued", "waiting">>,
                <<"queued", "sending">>, <<"sending", "waiting">>,
                <<"sending", "complete">>, <<"complete", "gone">>}
Upload(m) ==
    /\ Serving
    /\ Pay("upload")
    /\ m[1] = "video" => HasVideo(m[2])
    /\ \E move \in UploadMoves :
          /\ upload[m] = move[1]
          /\ move \in {<<"none", "queued">>, <<"queued", "sending">>} => Offers(m)
          /\ upload' = [upload EXCEPT ![m] = move[2]]
    /\ UNCHANGED <<groups, videos, files, rows, revision, job, request, unlinking>>

Lose(n) ==
    /\ Pay("loss")
    /\ files[n] # Nothing
    /\ files' = [files EXCEPT ![n] = Nothing]
    /\ UNCHANGED <<groups, videos, rows, upload, revision, job, request, unlinking>>

World == \/ \E m \in MediaIds : Upload(m)
         \/ \E n \in Names : Lose(n)

Next == StartDetect \/ SaveDetected \/ MergeStep \/ Recovery \/ Requests \/ World

Spec == Init /\ [][Next]_vars

-----------------------------------------------------------------------------
(* What has to hold. *)

IsMerged(g) == groups[g].status = "merged" /\ groups[g].next = Nobody

\* A group in force that is merged has its video and a verdict on it, however
\* the merge ended: by the job, at the next start, or after the video was
\* taken over from an older group of the same name (mark_merged asks for both
\* in the database; the recovery only for the video).
MergedIsComplete ==
    \A g \in GroupIds : IsMerged(g) =>
        /\ groups[g].out # Nobody /\ HasVideo(groups[g].out)
        /\ groups[g].verified # "none"

\* With no job and no recovery going on, a group in force is left merging only
\* with a staged row a later start will publish: otherwise nobody could claim
\* it again ("it cannot even be retried", _settle_merges).
NothingStuck ==
    \A g \in GroupIds :
        (job.pc = "idle" /\ groups[g].status = "merging" /\ groups[g].next = Nobody)
            => \E r \in RowIds : rows[r].state = "staged" /\ rows[r].group = g

\* What is offered for upload as a video is, byte for byte, made of the parts
\* its group has now, under today's rules, and none of these parts is offered
\* beside it: a library gets the recording once.  It holds where an error inside
\* a publication does not meet a lost file or a deleted video (Separate in
\* MergeGroupsProofs, true of every budget of the run): README, section 11.
OfferedFitsItsParts ==
    \A v \in VideoIds : \A g \in GroupIds :
        (OffersVideo(v) /\ groups[g].out = v /\ IsMerged(g) /\ IsCurrent(g, v))
            => /\ files[videos[v].name] # Nothing =>
                      /\ files[videos[v].name].of = groups[g].members
                      /\ files[videos[v].name].rev = revision
               /\ \A p \in PartsOf(g) : ~OffersPart(p)

\* Every video in the catalogue belongs to some group, without which it can be
\* neither offered nor deleted (deletion_blocker, "元になったファイルが分からない").
EveryVideoHasAnOwner == \A v \in VideoIds : HasVideo(v) => Pointing(v) # {}

\* A merged group in force keeps its video: no recovery of an older publication
\* and no later commit puts another in its place (_settle_merges, "履歴が上書きされる").
OutputIsStable ==
    [][\A g \in GroupIds :
          (IsMerged(g) /\ groups'[g].status = "merged" /\ groups'[g].next = Nobody)
              => groups'[g].out = groups[g].out]_vars

\* What the dashboard counts as sendable can be sent: SENDABLE_CLAUSE and
\* group_is_current differ only when the bytes of a part changed, which no step
\* here does (db/selection.py:65-70).
CountedCanBeSent == \A v \in VideoIds : Counted(v) => OffersVideo(v)

\* A video that is in the catalogue has its file, or somebody lost it: deleting
\* one never leaves a record of nothing (db/media.py:136-138).
DeletedStaysDeleted ==
    \A v \in VideoIds : HasVideo(v) =>
        \/ files[videos[v].name] # Nothing
        \/ videos[v].name \in unlinking
=============================================================================
