---------------------------- MODULE CaptureTimes ----------------------------
(***************************************************************************)
(* The capture date of every medium of one profile: resolved at import     *)
(* (core/timestamps.py), told in another zone on request                   *)
(* (db/capture_zone.py), resolved again by recompute_timestamps            *)
(* (jobs/recompute.py), inherited by a merged video (jobs/merger.py), and  *)
(* written to the library by an upload (jobs/uploader.py).                 *)
(*                                                                         *)
(* The originals are the parts of one take; the groups made of them, one   *)
(* after the other, have the same members, and the same members make the   *)
(* same file.  The worker runs one job at a time (JobQueue); requests come *)
(* between any two of its steps, and a step is one transaction or one      *)
(* request.  Uploads and MergeGroups have the rest of what sends and joins.*)
(***************************************************************************)
EXTENDS Integers, FiniteSets, Sequences

CONSTANTS
    Parts,        \* how many originals there are; the first is 1
    Zones, NoZone,
    Offset,       \* Offset[z]: how far the clocks of zone z are ahead
    Clock,        \* what the camera's clock showed, in every original's name
    Defs,         \* Defs[r]: zone and fix_datetime_after_upload of revision r
    BatchSize,    \* BATCH_SIZE
    MaxGroups,    \* bounds: how many groups there are, one after the other,
    Budgets       \* and how often each Expense happens: one is chosen

Expenses == {"edit", "override", "forget", "merge", "interrupt", "restart",
             "recompute", "stop", "send", "fault"}

ASSUME CaptureTimesAssumption ==
    /\ {Parts, BatchSize, MaxGroups} \subseteq Nat \ {0}
    /\ Offset \in [Zones -> Int] /\ Clock \in Int
    /\ NoZone \notin Zones
    /\ Defs \in Seq([zone : Zones \cup {NoZone}, fixes : BOOLEAN]) /\ Defs # <<>>
    /\ Budgets \subseteq [Expenses -> Nat]

VARIABLES
    media,      \* media_file: date, revision, override, and the name on the card
    group,      \* the merge_group the parts are in; its number, or that of the next
    staged,     \* outputs that are staged and not published
    records,    \* upload_record.state of each medium
    written,    \* the date we last wrote to the library's asset
    revision,   \* device_profile.current_revision_id
    job,        \* what the worker does
    passing,    \* history: originals given a zone between their page and its write
    behind,     \* history: the video differs from its first part by a recomputation
    mute,       \* history: sent media told anew under a profile that writes no date
    budget

history == <<passing, behind, mute>>
vars    == <<media, group, staged, records, written, revision, job, history, budget>>

Originals == {<<"part", i>> : i \in 1..Parts}
First     == <<"part", 1>>
Revisions == 1..Len(Defs)

-----------------------------------------------------------------------------
(* Dates: an instant, and the zone its wall clock is told in. *)

Hours(z)   == IF z = NoZone THEN 0 ELSE Offset[z]
Wall(date) == date.at + Hours(date.tz)

\* resolve_captured_at of a name: the camera's clock, in the camera's zone.
CameraDate(r) == [at |-> Clock - Hours(Defs[r].zone), tz |-> Defs[r].zone]

\* with_zone_override: the instant stays.
InZone(date, z) == IF z = NoZone THEN date ELSE [date EXCEPT !.tz = z]

\* _recomputed_original: the place is put on what was resolved, but never on a
\* date that is no instant (timezone_policy none).
Resolved(r, own) ==
    IF Defs[r].zone = NoZone THEN CameraDate(r) ELSE InZone(CameraDate(r), own)

Dates  == [at : {Clock - Hours(z) : z \in Zones \cup {NoZone}},
           tz : Zones \cup {NoZone}]
NoDate == [at |-> Clock, tz |-> "none"]

\* merged_rel_path names the video after the first part's wall clock.
VideoNamed(date) == <<"video", Wall(date)>>
Videos  == {VideoNamed(d) : d \in Dates}
NoVideo == <<"none", 0>>
Media   == Originals \cup Videos

\* own is captured_at_zone_override, named an entry of the card that is left.
Row == [here : BOOLEAN, date : Dates, rev : Revisions, own : Zones \cup {NoZone},
        named : BOOLEAN]
NoRow == [here |-> FALSE, date |-> CameraDate(1), rev |-> 1, own |-> NoZone,
          named |-> FALSE]

States == {"none", "pending", "held", "recheck", "complete", "gone"}
Group  == [id : 1..MaxGroups, rev : Revisions, out : Videos \cup {NoVideo},
           status : {"none", "detected", "merging", "merged", "failed"}]
Output == [group : 1..MaxGroups, date : Dates, rev : Revisions]

\* page is what a recomputation has read: of which media, and what it found.
Job(page) ==
       [kind : {"none", "recompute", "merge", "send", "recover"},
        pc : {"idle", "parts", "videos", "write", "inherit", "finished",
              "joining", "staged", "committed", "claimed", "put"},
        rev : Revisions, seen : SUBSET Media, page : {page},
        group : 0..MaxGroups, of : Media, date : Dates, fixes : BOOLEAN]
Nothing == [m \in {} |-> NoRow]
NoJob   == [kind |-> "none", pc |-> "idle", rev |-> 1, seen |-> {},
            page |-> Nothing, group |-> 0, of |-> First, date |-> CameraDate(1),
            fixes |-> FALSE]

TypeOK ==
    /\ media \in [Media -> Row]
    /\ group \in Group /\ staged \subseteq Output
    /\ records \in [Media -> States]
    /\ written \in [Media -> Dates \cup {NoDate}]
    /\ revision \in Revisions
    /\ job \in Job(job.page)
    /\ DOMAIN job.page \subseteq Media /\ job.page \in [DOMAIN job.page -> Row]
    /\ passing \subseteq Originals /\ behind \in BOOLEAN /\ mute \subseteq Media
    /\ budget \in [Expenses -> Nat]

Init ==
    /\ media = [m \in Media |-> NoRow]
    /\ group = [id |-> 1, rev |-> 1, out |-> NoVideo, status |-> "none"]
    /\ staged = {}
    /\ records = [m \in Media |-> "none"]
    /\ written = [m \in Media |-> NoDate]
    /\ revision = 1
    /\ job = NoJob
    /\ passing = {} /\ behind = FALSE /\ mute = {}
    /\ budget \in Budgets

Pay(e) == /\ budget[e] > 0
          /\ budget' = [budget EXCEPT ![e] = @ - 1]

-----------------------------------------------------------------------------
(* What the tables say. *)

Idle == job.kind = "none"
HasGroup == group.status # "none"
HasVideo == group.out # NoVideo
Holds == group.status \in {"detected", "merging", "merged"}

\* _definition_of: the revision under which the date was resolved.
Definition(m) == Defs[media[m].rev]

\* Fault: what was sent of a joined video is not sent again.
FaultRequeued(S, fixing) ==
    [m \in Media |-> IF m \in S \cap Originals /\ fixing[m] /\ records[m] = "complete"
                     THEN "recheck" ELSE records[m]]

\* requeue_sent, of the media of S under the definitions that write dates back.
Requeued(S, fixing) ==
    [m \in Media |-> IF m \in S /\ fixing[m] /\ records[m] = "complete"
                     THEN "recheck" ELSE records[m]]

\* Media of S told anew that stay complete, with an older date in the library.
Muted(S, fixing) ==
    mute \cup {m \in S : ~fixing[m] /\ records[m] = "complete"}

\* The video in force, in the tables to come, differs from its first part.
Differs(table, grp) ==
    grp.out # NoVideo /\ table[grp.out].date # table[First].date

-----------------------------------------------------------------------------
(* The profile, and what an import and a scan leave. *)

\* ProfileRegistry.update.
EditProfile ==
    /\ Pay("edit")
    /\ revision < Len(Defs)
    /\ revision' = revision + 1
    /\ UNCHANGED <<media, group, staged, records, written, job, history>>

\* An import carries the revision of the moment it was asked for.
Import(m, r) ==
    /\ Idle
    /\ ~media[m].here /\ r <= revision
    /\ media' = [media EXCEPT ![m] = [here |-> TRUE, date |-> Resolved(r, NoZone),
                                      rev |-> r, own |-> NoZone, named |-> TRUE]]
    /\ UNCHANGED <<group, staged, records, written, revision, job, history, budget>>

\* Another file took its path on the card: the scan makes the entry new, and
\* nothing tells any more what the original was called.
ForgetName(m) ==
    /\ Idle
    /\ media[m].named
    /\ Pay("forget")
    /\ media' = [media EXCEPT ![m].named = FALSE]
    /\ UNCHANGED <<group, staged, records, written, revision, job, history>>

-----------------------------------------------------------------------------
(* apply_zone_override *)

Target(m, zone) == IF zone = NoZone THEN Definition(m).zone ELSE zone

\* _originals_of: a video in force stands for its active members.
Chosen(S) == UNION {IF m \in Originals THEN {m} ELSE Originals : m \in S}
Known(S)  == \A m \in S : media[m].here /\ (m \in Originals \/ m = group.out)

Told(S, zone) ==
    [m \in Media |-> IF m \in S
                     THEN [media[m] EXCEPT !.date = InZone(@, Target(m, zone)),
                                           !.own = zone]
                     ELSE media[m]]
MovedBy(S, zone) == {m \in S : Told(S, zone)[m].date # media[m].date}

\* Fault: only the first part, chosen by itself, is looked at.
FaultInherits(moved, table) ==
    IF moved = {First} /\ Differs(table, group) THEN {group.out} ELSE {}

\* _outputs_of, _inherit: the video is told what its first part now says.
Inherits(moved, table) ==
    IF moved # {} /\ Differs(table, group) THEN {group.out} ELSE {}
Inherited(moved, table) ==
    [m \in Media |-> IF m \in Inherits(moved, table)
                     THEN [table[m] EXCEPT !.date = table[First].date]
                     ELSE table[m]]

\* Fault: a running recomputation is not in the way.
FaultBusy(moved) ==
    /\ moved # {}
    /\ \/ \E m \in moved : records[m] = "held"
       \/ group.status = "merging"

\* _refuse_if_busy.
Busy(moved) ==
    LET targets == moved \cup (IF HasVideo THEN {group.out} ELSE {})
    IN  /\ moved # {}
        /\ \/ job.kind = "recompute"
           \/ \E m \in targets : records[m] = "held"
           \/ group.status = "merging"

ZoneOverride(S, zone) ==
    LET chosen == Chosen(S)
        moved  == MovedBy(chosen, zone)
        table  == Told(chosen, zone)
        all    == moved \cup Inherits(moved, table)
        fixing == [m \in Media |-> Definition(m).fixes]
    IN  /\ Pay("override")
        /\ S # {} /\ Known(S)
        /\ \A m \in chosen : Definition(m).zone # NoZone
        /\ ~Busy(moved)
        /\ media' = Inherited(moved, table)
        /\ media' # media
        /\ records' = Requeued(all, fixing)
        /\ mute' = Muted(all, fixing)
        /\ behind' = (behind /\ moved = {})
        /\ passing' = passing \ chosen
        /\ UNCHANGED <<group, staged, written, revision, job>>

-----------------------------------------------------------------------------
(* Recomputer.run *)

StartRecompute(r) ==
    /\ Idle
    /\ Pay("recompute")
    /\ r <= revision
    /\ job' = [NoJob EXCEPT !.kind = "recompute", !.pc = "parts", !.rev = r]
    /\ UNCHANGED <<media, group, staged, records, written, revision, history>>

\* The rows of the pass that were not read, in the order of their paths, which
\* is any order here: a page is a batch of them.
Unread(S) == {m \in S : media[m].here} \ job.seen
Pages(S)  == {p \in SUBSET Unread(S) :
                 \/ Cardinality(p) = BatchSize
                 \/ Cardinality(p) < BatchSize /\ p = Unread(S)}

\* One page is read, its dates are resolved outside of any transaction.
ReadPage(pc, S, next) ==
    /\ job.pc = pc
    /\ Unread(S) # {}
    /\ \E p \in Pages(S) :
           job' = [job EXCEPT !.pc = next, !.page = [m \in p |-> media[m]],
                              !.seen = @ \cup p]
    /\ UNCHANGED <<media, group, staged, records, written, revision, history, budget>>

EndPass(pc, S, next) ==
    /\ job.pc = pc
    /\ Unread(S) = {}
    /\ job' = [job EXCEPT !.pc = next]
    /\ UNCHANGED <<media, group, staged, records, written, revision, history, budget>>

\* What the rows of the page become, and whose dates changed since the reading.
Recomputed(values, S) ==
    [m \in Media |->
        IF m \in S
        THEN [media[m] EXCEPT !.date = values[m], !.rev = job.rev,
                              !.own = IF Defs[job.rev].zone = NoZone THEN NoZone ELSE @]
        ELSE media[m]]

\* _apply_batch, _write: values are the dates of those that could be resolved.
Apply(values, back) ==
    LET S       == DOMAIN values
        changed == {m \in S : values[m] # job.page[m].date}
        fixing  == [m \in Media |-> Defs[job.rev].fixes]
    IN  /\ media' = Recomputed(values, S)
        /\ records' = Requeued(changed, fixing)
        /\ mute' = Muted(changed, fixing)
        /\ behind' = Differs(media', group)
        /\ job' = [job EXCEPT !.pc = back, !.page = Nothing]
        /\ UNCHANGED <<group, staged, written, revision, budget>>

WritePage ==
    LET S == {m \in DOMAIN job.page : job.page[m].named}
    IN  /\ job.pc = "write"
        /\ Apply([m \in S |-> Resolved(job.rev, job.page[m].own)], "parts")
        /\ passing' = (passing \ S)
                          \cup {m \in S : /\ media[m].own # job.page[m].own
                                           /\ media[m].date = job.page[m].date}

\* _recomputed_derived, inside of the transaction: of the video in force, when
\* its first part was resolved under this revision.
InheritPage ==
    LET S == {v \in DOMAIN job.page : v = group.out /\ media[First].rev = job.rev}
    IN  /\ job.pc = "inherit"
        /\ Apply([v \in S |-> media[First].date], "videos")
        /\ UNCHANGED passing

EndRecompute ==
    /\ job.pc = "finished"
    /\ job' = NoJob
    /\ UNCHANGED <<media, group, staged, records, written, revision, history, budget>>

\* A cancel, or the lease is lost: the pages that were written stay.
StopRecompute ==
    /\ job.kind = "recompute" /\ job.pc # "finished"
    /\ Pay("stop")
    /\ job' = NoJob
    /\ UNCHANGED <<media, group, staged, records, written, revision, history>>

-----------------------------------------------------------------------------
(* Groups of the parts, and the job that joins them (MergeGroups has more). *)

Grouped(id, r) == group' = [id |-> id, rev |-> r, out |-> NoVideo, status |-> "detected"]

MakeGroup(r) ==
    /\ ~HasGroup
    /\ \A m \in Originals : media[m].here
    /\ Grouped(group.id, r)
    /\ behind' = FALSE
    /\ UNCHANGED <<media, staged, records, written, revision, job, passing, mute, budget>>

\* save_detected, of a detection that was asked for earlier.
SaveDetected == \E r \in 1..revision : MakeGroup(r)

CreateManual == MakeGroup(revision)

\* _assert_editable, _invalidate_pending: refused while a part is sent or about
\* to be; what waits is invalidated.
EditGroup ==
    LET waiting == {m \in Originals : records[m] \in {"pending", "recheck"}}
    IN  /\ HasGroup
        /\ group.id < MaxGroups
        /\ \A m \in Originals : records[m] # "held"
        /\ job.kind = "send" => waiting = {}
        /\ records' = [m \in Media |-> IF m \in waiting THEN "gone" ELSE records[m]]
        /\ behind' = FALSE
        /\ UNCHANGED <<media, staged, written, revision, job, passing, mute, budget>>

\* By a group of the same parts.
Supersede == EditGroup /\ Grouped(group.id + 1, revision)

\* The parts are free again, and no longer those of the video.
Discard ==
    /\ EditGroup
    /\ group' = [id |-> group.id + 1, rev |-> group.rev, out |-> NoVideo,
                 status |-> "none"]

\* claim_for_merge, _captured_of: the date of the first part is read once.
StartMerge ==
    /\ Idle
    /\ Pay("merge")
    /\ group.status \in {"detected", "failed"}
    /\ group' = [group EXCEPT !.status = "merging"]
    /\ job' = [NoJob EXCEPT !.kind = "merge", !.pc = "joining", !.rev = group.rev,
                            !.group = group.id, !.date = media[First].date]
    /\ UNCHANGED <<media, staged, records, written, revision, history>>

\* A transition of a group that was edited meanwhile finds no row.
Leave(status) ==
    group' = IF group.id = job.group THEN [group EXCEPT !.status = status] ELSE group

Stage ==
    /\ job.pc = "joining" /\ job.group = group.id   \* record_verification
    /\ staged' = staged \cup {[group |-> job.group, date |-> job.date, rev |-> job.rev]}
    /\ job' = [job EXCEPT !.pc = "staged"]
    /\ UNCHANGED <<media, group, records, written, revision, history, budget>>

\* _commit: a row of that name is taken as it is, with the date it has.
Published(o) ==
    LET v == VideoNamed(o.date)
        reused == media[v].here
    IN  /\ media' = IF reused THEN media
                    ELSE [media EXCEPT ![v] = [here |-> TRUE, date |-> o.date,
                              rev |-> o.rev, own |-> NoZone, named |-> FALSE]]
        /\ group' = IF group.id = o.group THEN [group EXCEPT !.out = v] ELSE group
        /\ staged' = staged \ {o}
        /\ behind' = IF group.id # o.group THEN behind
                     ELSE /\ Differs(media', group')
                          /\ reused \/ job.kind = "recover"

Publish ==
    /\ job.pc = "staged"
    /\ \E o \in staged : o.group = job.group /\ Published(o)
    /\ job' = [job EXCEPT !.pc = "committed"]
    /\ UNCHANGED <<records, written, revision, passing, mute, budget>>

MarkMerged ==
    /\ job.pc = "committed"
    /\ Leave("merged")
    /\ job' = NoJob
    /\ UNCHANGED <<media, staged, records, written, revision, history, budget>>

\* Cancelled, or failed, before anything was staged.
MergeEnds(status) ==
    /\ job.pc = "joining"
    /\ Pay("stop")
    /\ Leave(status)
    /\ job' = NoJob
    /\ UNCHANGED <<media, staged, records, written, revision, history>>

\* An edit of the group makes record_verification raise, and mark_failed too.
MergeOutrun ==
    /\ job.pc = "joining" /\ job.group # group.id
    /\ job' = NoJob
    /\ UNCHANGED <<media, group, staged, records, written, revision, history, budget>>

\* PublishInterrupted: the group stays merging until the next startup.
PublishInterrupted ==
    /\ job.pc = "staged"
    /\ Pay("interrupt")
    /\ job' = NoJob
    /\ UNCHANGED <<media, group, staged, records, written, revision, history>>

\* The process ends, and Reconciler.run begins; held records stay held, for
\* the startup gives it no uploads (Uploads).
Restart ==
    /\ Pay("restart")
    /\ job' = [NoJob EXCEPT !.kind = "recover"]
    /\ UNCHANGED <<media, group, staged, records, written, revision, history>>

Resume ==
    /\ job.kind = "recover"
    /\ \E o \in staged : Published(o)
    /\ UNCHANGED <<records, written, revision, job, passing, mute, budget>>

\* _settle_merges, after the staged rows.
SettleMerges ==
    /\ job.kind = "recover"
    /\ staged = {}
    /\ group' = IF group.status # "merging" THEN group
                ELSE [group EXCEPT !.status = IF HasVideo THEN "merged" ELSE "detected"]
    /\ job' = NoJob
    /\ UNCHANGED <<media, staged, records, written, revision, history, budget>>

-----------------------------------------------------------------------------
(* Uploads, at the grain of what reads and writes dates (Uploads has the rest). *)

\* check_eligibility, of the default rule.
Eligible(m) ==
    IF m \in Originals THEN ~Holds
    ELSE m = group.out /\ group.status = "merged" /\ group.rev = revision

CreateRecord(m) ==
    /\ budget["send"] > 0
    /\ media[m].here /\ records[m] = "none"
    /\ Eligible(m)
    /\ records' = [records EXCEPT ![m] = "pending"]
    /\ UNCHANGED <<media, group, staged, written, revision, job, history, budget>>

\* claim_next, _one: the date is read and the plan made by today's definition.
Claim(m) ==
    /\ Idle
    /\ records[m] \in {"pending", "recheck"}
    /\ Pay("send")
    /\ IF Eligible(m)
       THEN /\ records' = [records EXCEPT ![m] = "held"]
            /\ job' = [NoJob EXCEPT !.kind = "send", !.pc = "claimed", !.of = m,
                           !.date = media[m].date,
                           !.fixes = Defs[revision].fixes /\ Defs[revision].zone # NoZone]
       ELSE /\ records' = [records EXCEPT ![m] = "gone"]
            /\ UNCHANGED job
    /\ UNCHANGED <<media, group, staged, written, revision, history>>

\* set_date_time_original of our own asset.
PutDate ==
    /\ job.pc = "claimed" /\ job.fixes
    /\ written' = [written EXCEPT ![job.of] = job.date]
    /\ mute' = mute \ {job.of}
    /\ job' = [job EXCEPT !.pc = "put"]
    /\ UNCHANGED <<media, group, staged, records, revision, passing, behind, budget>>

Complete ==
    /\ records' = [records EXCEPT ![job.of] = "complete"]
    /\ job' = NoJob
    /\ UNCHANGED <<media, group, staged, written, revision, passing, behind, budget>>

\* No date is to be written.
FinishPlain ==
    /\ job.pc = "claimed" /\ ~job.fixes
    /\ mute' = mute \cup {job.of}
    /\ Complete

FinishWritten ==
    /\ job.pc = "put"
    /\ UNCHANGED mute
    /\ Complete

\* A failure before or after the library was touched.
FailSend(state) ==
    /\ job.kind = "send"
    /\ state = "pending" => job.pc = "claimed"
    /\ Pay("fault")
    /\ records' = [records EXCEPT ![job.of] = state]
    /\ job' = NoJob
    /\ UNCHANGED <<media, group, staged, written, revision, history>>

-----------------------------------------------------------------------------
Requests ==
    \/ EditProfile
    \/ \E S \in SUBSET Media, z \in Zones \cup {NoZone} : ZoneOverride(S, z)
    \/ SaveDetected \/ CreateManual \/ Supersede \/ Discard
    \/ \E m \in Media : CreateRecord(m)

Jobs ==
    \/ \E m \in Originals : ForgetName(m) \/ \E r \in Revisions : Import(m, r)
    \/ \E r \in Revisions : StartRecompute(r)
    \/ ReadPage("parts", Originals, "write") \/ WritePage
    \/ EndPass("parts", Originals, "videos")
    \/ ReadPage("videos", Videos, "inherit") \/ InheritPage
    \/ EndPass("videos", Videos, "finished") \/ EndRecompute
    \/ StartMerge \/ Stage \/ Publish \/ MarkMerged
    \/ \E m \in Media : Claim(m)
    \/ PutDate \/ FinishPlain \/ FinishWritten

Faults ==
    \/ StopRecompute \/ \E s \in {"detected", "failed"} : MergeEnds(s)
    \/ MergeOutrun \/ PublishInterrupted
    \/ Restart \/ Resume \/ SettleMerges
    \/ \E s \in {"pending", "recheck"} : FailSend(s)

Next == Requests \/ Jobs \/ Faults

Spec == Init /\ [][Next]_vars

-----------------------------------------------------------------------------
\* A date is what its camera showed, resolved under the revision the row names
\* and told in the place the row records: after any imports, recomputations
\* that were stopped halfway and zones given between their pages and while they
\* run.  What a recomputation writes over a zone that was recorded after its
\* page was read is left out (passing; README).
DateIsResolved ==
    \A m \in Originals \ passing :
        media[m].here => media[m].date = Resolved(media[m].rev, media[m].own)

\* A medium that says complete has in the library the date it has here, when we
\* ever wrote one, whatever moved it: a zone of its own or of a part it was
\* joined from, a recomputation, a video taken again (docs: requeue_sent).
SentIsTold ==
    \A m \in Media \ mute :
        records[m] = "complete" /\ written[m] # NoDate => written[m] = media[m].date

\* The video in force tells the date of its first part, unless a recomputation
\* moved the part alone or a publication took an old row or an old date
\* (behind); and a recomputation that ends leaves none that is behind.
VideosFollow ==
    HasVideo =>
        /\ ~behind => ~Differs(media, group)
        /\ job.pc = "finished" /\ media[First].rev = job.rev => ~Differs(media, group)

\* As above without the exception: the place a user gave is never lost
\* ("利用者が付けた撮影地を再計算で消さない", jobs/recompute.py).
PlaceIsKept ==
    \A m \in Originals :
        media[m].here => media[m].date = Resolved(media[m].rev, media[m].own)

\* A sent medium told anew without being sent again was never written
\* ("こちらがリモートの日時を書いたことが無い", requeue_sent).
NeverWrittenStays ==
    \A m \in Media :
        records[m] = "complete" /\ written[m] # NoDate => written[m] = media[m].date
=============================================================================
