------------------------- MODULE CaptureTimesProofs -------------------------
(***************************************************************************)
(* DateIsResolved, SentIsTold and VideosFollow of CaptureTimes, for any     *)
(* parts, zones, revisions, batches and budgets.                           *)
(***************************************************************************)
EXTENDS CaptureTimes, TLAPS

\* Which job is at which step.
PcFits ==
    /\ job.pc \in {"parts", "write", "videos", "inherit", "finished"}
           => job.kind = "recompute"
    /\ job.pc \in {"joining", "staged", "committed"} => job.kind = "merge"
    /\ job.pc \in {"claimed", "put"} => job.kind = "send"
    /\ job.pc = "idle" => job.kind \in {"none", "recover"}

\* What a recomputation has read is of its pass and still says the date of the
\* row: what would move one is refused while it runs.
PageIsFresh ==
    /\ job.pc = "write" => DOMAIN job.page \subseteq Originals
    /\ job.pc = "inherit" => DOMAIN job.page \subseteq Videos
    /\ job.pc \in {"write", "inherit"} =>
           \A m \in DOMAIN job.page :
               media[m].here /\ media[m].date = job.page[m].date

\* The instant of an original is what the revision of its row makes of it,
\* also where the zone is not what the row records.
InstantsStay ==
    \A m \in Originals :
        media[m].here => media[m].date.at = CameraDate(media[m].rev).at

RecordsAreOfMedia == \A m \in Media : records[m] # "none" => media[m].here

\* The record in hand stays held, which keeps its medium's date.
SendInHand ==
    job.kind = "send" =>
        /\ records[job.of] = "held"
        /\ media[job.of].here /\ media[job.of].date = job.date
        /\ job.pc = "put" => written[job.of] = job.date

GroupFits ==
    /\ HasGroup => \A m \in Originals : media[m].here
    /\ HasVideo => HasGroup /\ media[group.out].here

\* What waits to be published is of an older group, or of one that is merging.
StagedFits ==
    \A o \in staged : /\ o.group <= group.id
                      /\ o.group = group.id => group.status = "merging"

\* The merge of a group that nobody edited: its first part keeps its date, and
\* what is staged is what this job made.
MergeInHand ==
    job.kind = "merge" =>
        /\ job.group # 0 /\ job.group <= group.id
        /\ job.group = group.id =>
               /\ group.status = "merging"
               /\ job.pc \in {"joining", "committed"} =>
                      \A o \in staged : o.group # group.id
               /\ job.pc \in {"joining", "staged"} => media[First].date = job.date
               /\ job.pc = "staged" =>
                      \A o \in staged : o.group = group.id =>
                          o.date = job.date /\ o.rev = job.rev

FollowsUnlessBehind == HasVideo /\ ~behind => ~Differs(media, group)

\* How far the second pass has come.
PassFits ==
    /\ job.pc \in {"parts", "write"} => job.seen \subseteq Originals
    /\ job.pc = "finished" => \A v \in Videos : media[v].here => v \in job.seen
    /\ /\ job.pc \in {"videos", "inherit", "finished"}
       /\ HasVideo /\ media[First].rev = job.rev
       /\ group.out \in job.seen
       /\ job.pc = "inherit" => group.out \notin DOMAIN job.page
       => ~Differs(media, group)

\* What does not look at the job, and what does.
TablesFit ==
    /\ InstantsStay /\ DateIsResolved /\ RecordsAreOfMedia /\ SentIsTold
    /\ GroupFits /\ StagedFits /\ FollowsUnlessBehind
JobFits == PcFits /\ PageIsFresh /\ SendInHand /\ MergeInHand /\ PassFits

IInv == TypeOK /\ TablesFit /\ JobFits

tables == <<media, group, staged, records, written, history>>

-----------------------------------------------------------------------------
(* Dates and names *)

LEMMA ZonesFit ==
    /\ First \in Originals /\ First \in Media /\ 1 \in Revisions
    /\ \A r \in Revisions : Defs[r].zone \in Zones \cup {NoZone} /\ Defs[r].fixes \in BOOLEAN
    /\ \A z \in Zones \cup {NoZone} : Hours(z) \in Int
  <1>1. First \in Originals /\ First \in Media
    BY CaptureTimesAssumption DEF First, Originals, Media
  <1>2. Len(Defs) \in Nat /\ Len(Defs) # 0
    BY CaptureTimesAssumption
  <1> DEFINE Definitions == [zone : Zones \cup {NoZone}, fixes : BOOLEAN]
  <1>3. Defs \in Seq(Definitions)
    BY CaptureTimesAssumption
  <1> HIDE DEF Definitions
  <1>5. \A r \in Revisions : Defs[r] \in Definitions
    BY <1>3 DEF Revisions
  <1>4. \A z \in Zones \cup {NoZone} : Hours(z) \in Int
    BY CaptureTimesAssumption DEF Hours
  <1> QED BY <1>1, <1>2, <1>4, <1>5 DEF Revisions, Definitions

LEMMA DatesFit ==
    ASSUME NEW r \in Revisions, NEW z \in Zones \cup {NoZone}
    PROVE  /\ CameraDate(r) \in Dates /\ Resolved(r, z) \in Dates
           /\ Resolved(r, z).at = CameraDate(r).at
           /\ Defs[r].zone = NoZone => Resolved(r, z) = CameraDate(r)
  BY ZonesFit DEF CameraDate, Resolved, InZone, Dates

LEMMA ZonedFits ==
    ASSUME NEW d \in Dates, NEW z \in Zones \cup {NoZone}
    PROVE  InZone(d, z) \in Dates /\ InZone(d, z).at = d.at
  BY DEF InZone, Dates

\* A date told in the place of a request is what a recomputation would say.
LEMMA ToldIsResolved ==
    ASSUME NEW r \in Revisions, NEW z \in Zones \cup {NoZone}, NEW d \in Dates,
           d.at = CameraDate(r).at, Defs[r].zone # NoZone
    PROVE  InZone(d, IF z = NoZone THEN Defs[r].zone ELSE z) = Resolved(r, z)
  BY ZonesFit DEF CameraDate, Resolved, InZone, Dates

LEMMA NamesFit ==
    /\ Originals \cap Videos = {} /\ NoVideo \notin Media
    /\ \A d \in Dates : VideoNamed(d) \in Videos
  BY DEF Originals, Videos, NoVideo, Media, VideoNamed

LEMMA RowsFit ==
    ASSUME TypeOK
    PROVE  /\ \A m \in Media : /\ media[m] \in Row /\ media[m].date \in Dates
                               /\ media[m].rev \in Revisions
           /\ group.out \in Videos \cup {NoVideo} /\ group.rev \in Revisions
           /\ group.id \in 1..MaxGroups
           /\ job.rev \in Revisions /\ job.date \in Dates /\ job.group \in 0..MaxGroups
  BY DEF TypeOK, Row, Group, Job

-----------------------------------------------------------------------------
(* What a step leaves alone *)

LEMMA TablesStay ==
    ASSUME IInv, UNCHANGED tables
    PROVE  TablesFit'
  BY DEF IInv, TablesFit, tables, history, InstantsStay, DateIsResolved,
         RecordsAreOfMedia, SentIsTold, GroupFits, StagedFits, FollowsUnlessBehind,
         HasGroup, HasVideo, Differs

\* The worker is free, or recovers.
LEMMA JobEnds ==
    ASSUME job' = NoJob \/ job' = [NoJob EXCEPT !.kind = "recover"]
    PROVE  JobFits'
  BY DEF JobFits, NoJob, PcFits, PageIsFresh, SendInHand, MergeInHand, PassFits

LEMMA NoJobFits == NoJob \in Job(Nothing) /\ Nothing \in [DOMAIN Nothing -> Row] /\ DOMAIN Nothing = {}
  BY ZonesFit, DatesFit, CaptureTimesAssumption DEF NoJob, Job, Nothing

LEMMA QuietTypes ==
    ASSUME TypeOK, UNCHANGED tables, revision' \in Revisions,
           budget' \in [Expenses -> Nat],
           job' \in Job(job'.page), DOMAIN job'.page \subseteq Media,
           job'.page \in [DOMAIN job'.page -> Row]
    PROVE  TypeOK'
  BY DEF TypeOK, tables, history

LEMMA Spends ==
    ASSUME TypeOK, NEW e \in Expenses, Pay(e)
    PROVE  budget' \in [Expenses -> Nat]
  BY DEF TypeOK, Pay

-----------------------------------------------------------------------------
(* Steps of the profile and of the job that change no table *)

LEMMA EditStep ==
    ASSUME IInv, EditProfile
    PROVE  IInv'
  <1>1. UNCHANGED tables /\ UNCHANGED job /\ revision' = revision + 1 /\ revision < Len(Defs)
    BY DEF EditProfile, tables
  <1>2. TypeOK'
    <2>1. revision' \in Revisions
      BY <1>1 DEF IInv, TypeOK, Revisions
    <2>2. budget' \in [Expenses -> Nat]
      BY Spends DEF EditProfile, IInv, Expenses
    <2> QED BY <1>1, <2>1, <2>2, QuietTypes DEF IInv, TypeOK
  <1>3. JobFits'
    BY <1>1 DEF IInv, JobFits, tables, history, PcFits, PageIsFresh, SendInHand, MergeInHand,
                PassFits, HasVideo, Differs
  <1> QED BY <1>1, <1>2, <1>3, TablesStay DEF IInv

\* The recomputation begins or ends, the worker stops or starts again.
LEMMA FreeStep ==
    ASSUME IInv, EndRecompute \/ StopRecompute \/ PublishInterrupted \/ MergeOutrun \/ Restart
    PROVE  IInv'
  <1>1. /\ UNCHANGED tables /\ UNCHANGED revision
        /\ job' = NoJob \/ job' = [NoJob EXCEPT !.kind = "recover"]
    BY DEF EndRecompute, StopRecompute, PublishInterrupted, MergeOutrun, Restart, tables
  <1>2. TypeOK'
    <2>1. budget' \in [Expenses -> Nat]
      <3>1. CASE EndRecompute \/ MergeOutrun
        BY <3>1 DEF EndRecompute, MergeOutrun, IInv, TypeOK
      <3>2. CASE StopRecompute \/ PublishInterrupted \/ Restart
        BY <3>2, Spends DEF StopRecompute, PublishInterrupted, Restart, IInv, Expenses
      <3> QED BY <3>1, <3>2
    <2>2. job' \in Job(job'.page) /\ job'.page = Nothing
      BY <1>1, NoJobFits DEF NoJob, Job
    <2> QED BY <1>1, <2>1, <2>2, NoJobFits, QuietTypes DEF IInv, TypeOK
  <1>3. JobFits'
    BY <1>1, JobEnds
  <1> QED BY <1>1, <1>2, <1>3, TablesStay DEF IInv

LEMMA StartRecomputeStep ==
    ASSUME IInv, NEW r \in Revisions, StartRecompute(r)
    PROVE  IInv'
  <1>1. /\ UNCHANGED tables /\ UNCHANGED revision
        /\ job' = [NoJob EXCEPT !.kind = "recompute", !.pc = "parts", !.rev = r]
    BY DEF StartRecompute, tables
  <1>2. TypeOK'
    <2>1. budget' \in [Expenses -> Nat]
      BY Spends DEF StartRecompute, IInv, Expenses
    <2>2. job' \in Job(job'.page) /\ job'.page = Nothing
      BY <1>1, NoJobFits DEF NoJob, Job
    <2> QED BY <1>1, <2>1, <2>2, NoJobFits, QuietTypes DEF IInv, TypeOK
  <1>3. JobFits'
    BY <1>1 DEF NoJob, JobFits, PcFits, PageIsFresh, SendInHand, MergeInHand, PassFits
  <1> QED BY <1>1, <1>2, <1>3, TablesStay DEF IInv

LEMMA ReadPageStep ==
    ASSUME IInv,
           \/ ReadPage("parts", Originals, "write")
           \/ ReadPage("videos", Videos, "inherit")
    PROVE  IInv'
  <1> DEFINE Turns(p, next) ==
          job' = [job EXCEPT !.pc = next, !.page = [m \in p |-> media[m]], !.seen = @ \cup p]
  <1> HIDE DEF Turns
  <1>1. PICK p \in SUBSET Media :
            /\ UNCHANGED tables /\ UNCHANGED revision /\ UNCHANGED budget
            /\ \A m \in p : media[m].here /\ m \notin job.seen
            /\ \/ p \subseteq Originals /\ job.pc = "parts" /\ Turns(p, "write")
               \/ p \subseteq Videos /\ job.pc = "videos" /\ Turns(p, "inherit")
    <2>1. CASE ReadPage("parts", Originals, "write")
      <3>1. PICK p \in Pages(Originals) : Turns(p, "write")
        BY <2>1, Zenon DEF ReadPage, Turns
      <3>2. p \subseteq Unread(Originals)
        BY <3>1 DEF Pages
      <3>3. /\ p \in SUBSET Media /\ p \subseteq Originals
            /\ \A m \in p : media[m].here /\ m \notin job.seen
        BY <3>2 DEF Unread, Media
      <3>4. /\ UNCHANGED tables /\ UNCHANGED revision /\ UNCHANGED budget
            /\ job.pc = "parts"
        BY <2>1 DEF ReadPage, tables
      <3> QED BY <3>1, <3>3, <3>4
    <2>2. CASE ReadPage("videos", Videos, "inherit")
      <3>1. PICK p \in Pages(Videos) : Turns(p, "inherit")
        BY <2>2, Zenon DEF ReadPage, Turns
      <3>2. p \subseteq Unread(Videos)
        BY <3>1 DEF Pages
      <3>3. /\ p \in SUBSET Media /\ p \subseteq Videos
            /\ \A m \in p : media[m].here /\ m \notin job.seen
        BY <3>2 DEF Unread, Media
      <3>4. /\ UNCHANGED tables /\ UNCHANGED revision /\ UNCHANGED budget
            /\ job.pc = "videos"
        BY <2>2 DEF ReadPage, tables
      <3> QED BY <3>1, <3>3, <3>4
    <2> QED BY <2>1, <2>2
  <1>2. /\ \/ p \subseteq Originals /\ job.pc = "parts" /\ job'.pc = "write"
           \/ p \subseteq Videos /\ job.pc = "videos" /\ job'.pc = "inherit"
        /\ job'.kind = job.kind /\ job'.rev = job.rev
        /\ job'.page = [m \in p |-> media[m]] /\ job'.seen = job.seen \cup p
        /\ job' \in Job(job'.page)
    <2> DEFINE page == [m \in p |-> media[m]]
    <2>1. job \in Job(job.page)
      BY DEF IInv, TypeOK
    <2>2. p \subseteq Media
      BY <1>1
    <2>3. \/ /\ p \subseteq Originals /\ job.pc = "parts"
             /\ job' = [job EXCEPT !.pc = "write", !.page = page, !.seen = @ \cup p]
          \/ /\ p \subseteq Videos /\ job.pc = "videos"
             /\ job' = [job EXCEPT !.pc = "inherit", !.page = page, !.seen = @ \cup p]
      BY <1>1 DEF Turns
    <2> HIDE DEF page
    <2>4. /\ \/ p \subseteq Originals /\ job.pc = "parts" /\ job'.pc = "write"
             \/ p \subseteq Videos /\ job.pc = "videos" /\ job'.pc = "inherit"
          /\ job'.kind = job.kind /\ job'.rev = job.rev
          /\ job'.page = page /\ job'.seen = job.seen \cup p
          /\ job' \in Job(page)
      <3>1. CASE p \subseteq Originals /\ job.pc = "parts"
                 /\ job' = [job EXCEPT !.pc = "write", !.page = page, !.seen = @ \cup p]
        BY <2>1, <2>2, <3>1 DEF Job
      <3>2. CASE p \subseteq Videos /\ job.pc = "videos"
                 /\ job' = [job EXCEPT !.pc = "inherit", !.page = page, !.seen = @ \cup p]
        BY <2>1, <2>2, <3>2 DEF Job
      <3> QED BY <2>3, <3>1, <3>2
    <2>5. job'.page = page
      BY <2>4
    <2> QED BY <2>4, <2>5 DEF page
  <1>3. TypeOK'
    <2>1. job'.page \in [p -> Row]
      BY <1>2, RowsFit DEF IInv
    <2>2. DOMAIN job'.page = p
      BY <1>2
    <2>3. revision' \in Revisions /\ budget' \in [Expenses -> Nat]
      BY <1>1 DEF IInv, TypeOK
    <2> QED BY <1>1, <1>2, <2>1, <2>2, <2>3, QuietTypes DEF IInv
  <1>4. \A m \in p : media'[m].here /\ media'[m].date = job'.page[m].date
    BY <1>1, <1>2 DEF tables
  <1>5. PcFits' /\ PageIsFresh' /\ SendInHand' /\ MergeInHand'
    BY <1>2, <1>4 DEF IInv, JobFits, PcFits, PageIsFresh, SendInHand, MergeInHand
  <1>6. PassFits'
    BY <1>1, <1>2, NamesFit DEF IInv, JobFits, tables, history, PassFits, HasVideo, Differs
  <1> QED BY <1>1, <1>3, <1>5, <1>6, TablesStay DEF IInv, JobFits

LEMMA EndPassStep ==
    ASSUME IInv,
           \/ EndPass("parts", Originals, "videos")
           \/ EndPass("videos", Videos, "finished")
    PROVE  IInv'
  <1>1. /\ UNCHANGED tables /\ UNCHANGED revision /\ UNCHANGED budget
        /\ \/ job.pc = "parts" /\ job' = [job EXCEPT !.pc = "videos"]
           \/ /\ job.pc = "videos" /\ job' = [job EXCEPT !.pc = "finished"]
              /\ \A v \in Videos : media[v].here => v \in job.seen
    BY DEF EndPass, Unread, tables
  <1>2. TypeOK'
    BY <1>1, QuietTypes DEF IInv, TypeOK, Job
  <1>3. PcFits' /\ PageIsFresh' /\ SendInHand' /\ MergeInHand'
    BY <1>1 DEF IInv, JobFits, TypeOK, Job, tables, PcFits, PageIsFresh, SendInHand, MergeInHand
  <1>4. PassFits'
    BY <1>1, NamesFit, RowsFit
    DEF IInv, JobFits, TypeOK, Job, tables, history, PassFits, HasVideo, Differs
  <1> QED BY <1>1, <1>2, <1>3, <1>4, TablesStay DEF IInv, JobFits

-----------------------------------------------------------------------------
(* Imports and scans: while no job has anything in hand *)

LEMMA FreeJobFits ==
    ASSUME IInv, job.kind \in {"none", "recover"}
    PROVE  job.pc = "idle"
  BY DEF IInv, TypeOK, Job, JobFits, PcFits

LEMMA FreeJobStays ==
    ASSUME IInv, job.kind \in {"none", "recover"}, UNCHANGED job
    PROVE  JobFits'
  BY FreeJobFits DEF JobFits, PcFits, PageIsFresh, SendInHand, MergeInHand, PassFits

LEMMA ImportStep ==
    ASSUME IInv, NEW m \in Originals, NEW r \in Revisions, Import(m, r)
    PROVE  IInv'
  <1> DEFINE row == [here |-> TRUE, date |-> Resolved(r, NoZone), rev |-> r,
                     own |-> NoZone, named |-> TRUE]
  <1>1. /\ Idle /\ ~media[m].here /\ media' = [media EXCEPT ![m] = row]
        /\ UNCHANGED <<group, staged, records, written, revision, job, budget>>
        /\ UNCHANGED <<passing, behind, mute>>
    BY DEF Import, history
  <1>2. row \in Row /\ row.date.at = CameraDate(r).at
    BY DatesFit DEF Row
  <1> HIDE DEF row
  <1>3. m \in Media /\ ~HasGroup
    BY <1>1 DEF Media, IInv, TablesFit, GroupFits
  <1>4. TypeOK'
    BY <1>1, <1>2 DEF IInv, TypeOK
  <1>5. JobFits'
    BY <1>1, FreeJobStays DEF Idle
  <1>6. /\ media'[m] = row
        /\ \A n \in Media \ {m} : media'[n] = media[n]
    BY <1>1, <1>3 DEF IInv, TypeOK
  <1>7. InstantsStay' /\ DateIsResolved'
    <2>1. row.rev = r /\ row.own = NoZone /\ row.date = Resolved(r, NoZone)
      BY DEF row
    <2> QED BY <1>1, <1>2, <1>6, <2>1
        DEF IInv, TablesFit, InstantsStay, DateIsResolved, Media
  <1>8. RecordsAreOfMedia' /\ SentIsTold'
    <2>1. records[m] = "none"
      BY <1>1, <1>3 DEF IInv, TablesFit, RecordsAreOfMedia
    <2>2. row.here
      BY DEF row
    <2> QED BY <1>1, <1>6, <2>1, <2>2 DEF IInv, TablesFit, RecordsAreOfMedia, SentIsTold
  <1>9. GroupFits' /\ StagedFits' /\ FollowsUnlessBehind'
    BY <1>1, <1>3 DEF IInv, TablesFit, GroupFits, StagedFits, FollowsUnlessBehind,
                      HasGroup, HasVideo
  <1> QED BY <1>4, <1>5, <1>7, <1>8, <1>9 DEF IInv, TablesFit

LEMMA ForgetStep ==
    ASSUME IInv, NEW m \in Originals, ForgetName(m)
    PROVE  IInv'
  <1>1. /\ Idle /\ media' = [media EXCEPT ![m].named = FALSE] /\ Pay("forget")
        /\ UNCHANGED <<group, staged, records, written, revision, job>>
        /\ UNCHANGED <<passing, behind, mute>>
    BY DEF ForgetName, history
  <1>2. budget' \in [Expenses -> Nat]
    BY <1>1, Spends DEF IInv, Expenses
  <1>3. media' \in [Media -> Row]
    BY <1>1 DEF IInv, TypeOK, Row, Media
  <1>4. TypeOK'
    BY <1>1, <1>2, <1>3 DEF IInv, TypeOK
  <1>5. JobFits'
    BY <1>1, FreeJobStays DEF Idle
  <1>6. \A n \in Media : /\ media'[n].here = media[n].here /\ media'[n].date = media[n].date
                         /\ media'[n].rev = media[n].rev /\ media'[n].own = media[n].own
    BY <1>1 DEF IInv, TypeOK, Row
  <1>7. InstantsStay' /\ DateIsResolved' /\ RecordsAreOfMedia' /\ SentIsTold'
    BY <1>1, <1>6 DEF IInv, TablesFit, InstantsStay, DateIsResolved, RecordsAreOfMedia,
                      SentIsTold, Media
  <1>8. GroupFits' /\ StagedFits' /\ FollowsUnlessBehind'
    BY <1>1, <1>6, RowsFit, ZonesFit
    DEF IInv, TablesFit, GroupFits, StagedFits, FollowsUnlessBehind, HasGroup, HasVideo,
        Differs, Media
  <1> QED BY <1>4, <1>5, <1>7, <1>8 DEF IInv, TablesFit

-----------------------------------------------------------------------------
(* A zone is given *)

LEMMA RequeuedFits ==
    ASSUME TypeOK, NEW S \in SUBSET Media, NEW fixing
    PROVE  /\ Requeued(S, fixing) \in [Media -> States]
           /\ Muted(S, fixing) \subseteq Media /\ mute \subseteq Muted(S, fixing)
           /\ \A m \in Media :
                  /\ Requeued(S, fixing)[m] # "none" <=> records[m] # "none"
                  /\ records[m] = "held" => Requeued(S, fixing)[m] = "held"
                  /\ Requeued(S, fixing)[m] = "complete" => 
                         records[m] = "complete" /\ (m \in S => m \in Muted(S, fixing))
  BY DEF TypeOK, Requeued, Muted, States

LEMMA ZoneOverrideStep ==
    ASSUME IInv, NEW S \in SUBSET Media, NEW zone \in Zones \cup {NoZone},
           ZoneOverride(S, zone)
    PROVE  IInv'
  <1> DEFINE chosen == Chosen(S)
             moved  == MovedBy(chosen, zone)
             table  == Told(chosen, zone)
             all    == moved \cup Inherits(moved, table)
             fixing == [m \in Media |-> Definition(m).fixes]
  <1>1. /\ Pay("override") /\ Known(S)
        /\ \A m \in chosen : Definition(m).zone # NoZone
        /\ ~Busy(moved)
        /\ media' = Inherited(moved, table)
        /\ records' = Requeued(all, fixing) /\ mute' = Muted(all, fixing)
        /\ behind' = (behind /\ moved = {}) /\ passing' = passing \ chosen
        /\ UNCHANGED <<group, staged, written, revision, job>>
    BY DEF ZoneOverride
  <1>2. chosen \subseteq Originals /\ moved \subseteq chosen
    <2>1. chosen \subseteq Originals
      BY DEF Chosen
    <2>2. moved \subseteq chosen
      BY DEF MovedBy
    <2> QED BY <2>1, <2>2
  <1>3. \A m \in Media : media[m] \in Row
    BY RowsFit DEF IInv
  <1>4. \A m \in Media :
            /\ table[m] \in Row
            /\ table[m].here = media[m].here /\ table[m].rev = media[m].rev
            /\ m \notin chosen => table[m] = media[m]
            /\ m \in chosen => /\ table[m].own = zone
                               /\ table[m].date = InZone(media[m].date, Target(m, zone))
    <2> TAKE m \in Media
    <2>1. CASE m \notin chosen
      BY <2>1, <1>3 DEF Told
    <2>2. CASE m \in chosen
      <3>1. table[m] = [media[m] EXCEPT !.date = InZone(@, Target(m, zone)), !.own = zone]
        BY <2>2 DEF Told
      <3>2. Target(m, zone) \in Zones \cup {NoZone}
        BY ZonesFit, RowsFit DEF IInv, Target, Definition
      <3>3. InZone(media[m].date, Target(m, zone)) \in Dates
        BY <3>2, <1>3, ZonedFits, RowsFit DEF IInv
      <3> QED BY <2>2, <3>1, <3>3, <1>3 DEF Row
    <2> QED BY <2>1, <2>2
  <1>5. \A m \in Originals : media[m].here =>
            /\ table[m].date.at = CameraDate(table[m].rev).at
            /\ m \in chosen => table[m].date = Resolved(table[m].rev, table[m].own)
    <2> SUFFICES ASSUME NEW m \in Originals, media[m].here
                 PROVE  /\ table[m].date.at = CameraDate(table[m].rev).at
                        /\ m \in chosen => table[m].date = Resolved(table[m].rev, table[m].own)
      OBVIOUS
    <2>1. m \in Media /\ media[m].date.at = CameraDate(media[m].rev).at
      BY DEF Media, IInv, TablesFit, InstantsStay
    <2>2. CASE m \notin chosen
      BY <2>1, <2>2, <1>4
    <2>3. CASE m \in chosen
      <3>1. media[m].rev \in Revisions /\ media[m].date \in Dates
        BY <2>1, RowsFit DEF IInv
      <3>2. InZone(media[m].date, Target(m, zone)) = Resolved(media[m].rev, zone)
        BY <1>1, <2>1, <2>3, <3>1, ToldIsResolved DEF Target, Definition
      <3> QED BY <1>4, <2>1, <2>3, <3>1, <3>2, DatesFit
    <2> QED BY <2>2, <2>3
  <1>6. /\ Inherits(moved, table) \subseteq {group.out} \cap Videos
        /\ moved = {} => Inherits(moved, table) = {}
        /\ moved # {} /\ HasVideo /\ Differs(table, group) => group.out \in Inherits(moved, table)
    BY RowsFit DEF IInv, Inherits, Differs, HasVideo
  <1>7. \A m \in Media : m \notin moved => table[m].date = media[m].date
    BY <1>2, <1>4 DEF MovedBy
  <1> HIDE DEF chosen, moved, table, all, fixing
  <1>8. /\ media' \in [Media -> Row]
        /\ \A m \in Media :
               /\ media'[m].here = media[m].here /\ media'[m].rev = media[m].rev
               /\ m \notin Inherits(moved, table) => media'[m] = table[m]
               /\ m \in Inherits(moved, table) => media'[m].date = table[First].date
    BY <1>1, <1>4, ZonesFit DEF Inherited, Row
  <1>9. \A m \in Originals : media'[m] = table[m]
    BY <1>6, <1>8, NamesFit DEF Media
  <1>10. all \subseteq Media /\ \A m \in Media \ all : media'[m].date = media[m].date
    BY <1>2, <1>6, <1>7, <1>8 DEF all, Media
  <1>11. \A m \in Media : media'[m].date # media[m].date =>
             /\ job.kind # "recompute" /\ group.status # "merging"
             /\ records[m] # "held"
    <2>1. \A m \in Media : media'[m].date # media[m].date =>
              m \in moved \cup (IF HasVideo THEN {group.out} ELSE {}) /\ moved # {}
      BY <1>6, <1>10, NamesFit DEF all, HasVideo, Media
    <2>2. moved # {} =>
              /\ job.kind # "recompute" /\ group.status # "merging"
              /\ \A m \in moved \cup (IF HasVideo THEN {group.out} ELSE {}) :
                     records[m] # "held"
      BY <1>1 DEF Busy
    <2> QED BY <2>1, <2>2
  <1>12. TypeOK'
    <2>1. budget' \in [Expenses -> Nat]
      BY <1>1, Spends DEF IInv, Expenses
    <2>2. passing' \subseteq Originals /\ behind' \in BOOLEAN
      BY <1>1 DEF IInv, TypeOK
    <2> QED BY <1>1, <1>8, <1>10, <2>1, <2>2, RequeuedFits DEF IInv, TypeOK
  <1>13. InstantsStay' /\ DateIsResolved'
    BY <1>1, <1>4, <1>5, <1>8, <1>9 DEF IInv, TablesFit, InstantsStay, DateIsResolved, Media
  <1>14. RecordsAreOfMedia' /\ SentIsTold'
    <2>1. /\ mute \subseteq mute'
          /\ \A m \in Media :
                 /\ records'[m] # "none" => records[m] # "none"
                 /\ records'[m] = "complete" =>
                        records[m] = "complete" /\ (m \in all => m \in mute')
      BY <1>1, <1>10, RequeuedFits DEF IInv
    <2> QED BY <1>1, <1>8, <1>10, <2>1
        DEF IInv, TablesFit, RecordsAreOfMedia, SentIsTold
  <1>15. GroupFits' /\ StagedFits'
    BY <1>1, <1>8, RowsFit DEF IInv, TablesFit, GroupFits, StagedFits, HasGroup, HasVideo, Media
  <1>16. FollowsUnlessBehind'
    <2> SUFFICES ASSUME HasVideo, ~behind' PROVE ~Differs(media', group)
      BY <1>1 DEF FollowsUnlessBehind, HasVideo
    <2>1. group.out \in Media /\ group.out \in Videos
      BY RowsFit DEF IInv, HasVideo, Media
    <2>2. CASE moved = {}
      BY <1>1, <1>6, <1>7, <1>8, <2>1, <2>2, ZonesFit
      DEF IInv, TablesFit, FollowsUnlessBehind, Differs
    <2>3. CASE moved # {}
      BY <1>6, <1>8, <1>9, <2>1, <2>3, ZonesFit DEF Differs, HasVideo
    <2> QED BY <2>2, <2>3
  <1>17. PcFits' /\ PageIsFresh'
    BY <1>1, <1>8, <1>11 DEF IInv, JobFits, TypeOK, PcFits, PageIsFresh
  <1>18. SendInHand' /\ MergeInHand'
    <2>1. \A m \in Media : records[m] = "held" => records'[m] = "held"
      BY <1>1, <1>10, RequeuedFits DEF IInv
    <2>2. job.of \in Media
      BY DEF IInv, TypeOK, Job
    <2> QED BY <1>1, <1>8, <1>11, <2>1, <2>2, ZonesFit
        DEF IInv, JobFits, SendInHand, MergeInHand
  <1>19. PassFits'
    <2>1. \/ job.kind # "recompute"
          \/ \A m \in Media : media'[m].date = media[m].date
      BY <1>11
    <2>2. job.kind # "recompute" => job.pc \notin {"parts", "write", "videos", "inherit", "finished"}
      BY DEF IInv, JobFits, PcFits
    <2> QED BY <1>1, <1>8, <2>1, <2>2, ZonesFit, RowsFit
        DEF IInv, JobFits, PassFits, HasVideo, Differs, Media
  <1> QED BY <1>12, <1>13, <1>14, <1>15, <1>16, <1>17, <1>18, <1>19
      DEF IInv, TablesFit, JobFits

-----------------------------------------------------------------------------
(* A page is written *)

\* What both kinds of page do to the rows, the records and the job.
LEMMA ApplyFits ==
    ASSUME IInv, job.pc \in {"write", "inherit"}, NEW back \in {"parts", "videos"},
           NEW values, DOMAIN values \subseteq DOMAIN job.page,
           \A m \in DOMAIN values : values[m] \in Dates,
           passing' \subseteq Originals, Apply(values, back)
    PROVE  /\ TypeOK'
           /\ \A m \in Media \ DOMAIN values : media'[m] = media[m]
           /\ \A m \in DOMAIN values :
                  /\ media'[m].here = media[m].here
                  /\ media'[m].date = values[m] /\ media'[m].rev = job.rev
                  /\ media'[m].own = IF Defs[job.rev].zone = NoZone THEN NoZone
                                                                   ELSE media[m].own
           /\ RecordsAreOfMedia' /\ SentIsTold'
           /\ GroupFits' /\ StagedFits' /\ FollowsUnlessBehind'
           /\ job' = [job EXCEPT !.pc = back, !.page = Nothing]
           /\ UNCHANGED group
  <1> DEFINE S       == DOMAIN values
             changed == {m \in S : values[m] # job.page[m].date}
             fixing  == [m \in Media |-> Defs[job.rev].fixes]
  <1>1. /\ media' = Recomputed(values, S)
        /\ records' = Requeued(changed, fixing) /\ mute' = Muted(changed, fixing)
        /\ behind' = Differs(media', group)
        /\ job' = [job EXCEPT !.pc = back, !.page = Nothing]
        /\ UNCHANGED <<group, staged, written, revision, budget>>
    BY DEF Apply
  <1>2. S \subseteq Media /\ changed \subseteq S
    BY DEF IInv, TypeOK
  <1>3. \A m \in DOMAIN values : values[m] \in Dates
    OBVIOUS
  <1> HIDE DEF fixing, changed
  <1>4. /\ media' \in [Media -> Row]
        /\ \A m \in Media \ S : media'[m] = media[m]
        /\ \A m \in S : /\ media'[m].here = media[m].here
                        /\ media'[m].date = values[m] /\ media'[m].rev = job.rev
                        /\ media'[m].own = IF Defs[job.rev].zone = NoZone THEN NoZone
                                                                         ELSE media[m].own
    BY <1>1, <1>2, <1>3, RowsFit DEF Recomputed, Row, IInv
  <1>5. \A m \in Media \ changed : media'[m].date = media[m].date
    <2>1. \A m \in S : media[m].date = job.page[m].date
      BY DEF IInv, JobFits, PageIsFresh
    <2> QED BY <1>2, <1>4, <2>1 DEF changed
  <1>6. \A m \in Media : media'[m].here = media[m].here
    BY <1>4
  <1>7. job' \in Job(job'.page) /\ job'.page = Nothing
    BY <1>1 DEF IInv, TypeOK, Job
  <1>8. TypeOK'
    <2>1. behind' \in BOOLEAN
      BY <1>1 DEF Differs
    <2> QED BY <1>1, <1>2, <1>4, <1>7, <2>1, NoJobFits, RequeuedFits DEF IInv, TypeOK
  <1>9. RecordsAreOfMedia' /\ SentIsTold'
    <2>1. /\ mute \subseteq mute'
          /\ \A m \in Media :
                 /\ records'[m] # "none" => records[m] # "none"
                 /\ records'[m] = "complete" =>
                        records[m] = "complete" /\ (m \in changed => m \in mute')
      BY <1>1, <1>2, RequeuedFits DEF IInv
    <2> QED BY <1>1, <1>5, <1>6, <2>1
        DEF IInv, TablesFit, RecordsAreOfMedia, SentIsTold
  <1>10. GroupFits' /\ StagedFits' /\ FollowsUnlessBehind'
    BY <1>1, <1>6, RowsFit
    DEF IInv, TablesFit, GroupFits, StagedFits, FollowsUnlessBehind, HasGroup, HasVideo,
        Differs, Media
  <1> QED BY <1>1, <1>4, <1>8, <1>9, <1>10

LEMMA WritePageStep ==
    ASSUME IInv, WritePage
    PROVE  IInv'
  <1> DEFINE S      == {m \in DOMAIN job.page : job.page[m].named}
             values == [m \in S |-> Resolved(job.rev, job.page[m].own)]
  <1>1. /\ job.pc = "write" /\ Apply(values, "parts")
        /\ passing' = (passing \ S)
                          \cup {m \in S : /\ media[m].own # job.page[m].own
                                           /\ media[m].date = job.page[m].date}
    BY DEF WritePage
  <1>2. /\ S \subseteq Originals /\ S \subseteq Media /\ DOMAIN values = S
        /\ \A m \in S : /\ media[m].here /\ media[m].date = job.page[m].date
                        /\ job.page[m].own \in Zones \cup {NoZone}
    BY <1>1 DEF IInv, JobFits, PageIsFresh, TypeOK, Row, Media
  <1>3. \A m \in S : /\ values[m] \in Dates
                     /\ values[m].at = CameraDate(job.rev).at
                     /\ values[m] = Resolved(job.rev, job.page[m].own)
                     /\ Defs[job.rev].zone = NoZone => values[m] = CameraDate(job.rev)
    BY <1>2, DatesFit, RowsFit DEF IInv
  <1>4. passing' \subseteq Originals
    BY <1>1, <1>2 DEF IInv, TypeOK
  <1> HIDE DEF values
  <1>5. /\ TypeOK'
        /\ \A m \in Media \ S : media'[m] = media[m]
        /\ \A m \in S : /\ media'[m].here = media[m].here
                        /\ media'[m].date = values[m] /\ media'[m].rev = job.rev
                        /\ media'[m].own = IF Defs[job.rev].zone = NoZone THEN NoZone
                                                                         ELSE media[m].own
        /\ RecordsAreOfMedia' /\ SentIsTold'
        /\ GroupFits' /\ StagedFits' /\ FollowsUnlessBehind'
        /\ job' = [job EXCEPT !.pc = "parts", !.page = Nothing]
    BY <1>1, <1>2, <1>3, <1>4, ApplyFits
  <1> HIDE DEF S
  <1>6. InstantsStay'
    BY <1>2, <1>3, <1>5 DEF IInv, TablesFit, InstantsStay, Media
  <1>7. DateIsResolved'
    <2> SUFFICES ASSUME NEW m \in Originals \ passing', media'[m].here
                 PROVE  media'[m].date = Resolved(media'[m].rev, media'[m].own)
      BY DEF DateIsResolved
    <2>1. CASE m \in S
      <3>1. media[m].own = job.page[m].own
        BY <1>1, <1>2, <2>1
      <3>2. job.rev \in Revisions
        BY RowsFit DEF IInv
      <3>3. CASE Defs[job.rev].zone = NoZone
        BY <1>3, <1>5, <2>1, <3>2, <3>3 DEF Resolved
      <3>4. CASE Defs[job.rev].zone # NoZone
        BY <1>3, <1>5, <2>1, <3>1, <3>4
      <3> QED BY <3>3, <3>4
    <2>2. CASE m \notin S
      BY <1>1, <1>2, <1>5, <2>2 DEF IInv, TablesFit, DateIsResolved, Media
    <2> QED BY <2>1, <2>2
  <1>8. /\ job'.pc = "parts" /\ job'.kind = "recompute" /\ job'.seen = job.seen
    BY <1>1, <1>5 DEF IInv, TypeOK, Job, JobFits, PcFits
  <1>9. JobFits'
    BY <1>1, <1>8 DEF IInv, JobFits, PcFits, PageIsFresh, SendInHand, MergeInHand, PassFits
  <1> QED BY <1>5, <1>6, <1>7, <1>9 DEF IInv, TablesFit

LEMMA InheritPageStep ==
    ASSUME IInv, InheritPage
    PROVE  IInv'
  <1> DEFINE S      == {v \in DOMAIN job.page : v = group.out /\ media[First].rev = job.rev}
             values == [v \in S |-> media[First].date]
  <1>1. job.pc = "inherit" /\ Apply(values, "videos") /\ UNCHANGED passing
    BY DEF InheritPage
  <1>2. S \subseteq Videos /\ DOMAIN values = S
    BY <1>1 DEF IInv, JobFits, PageIsFresh
  <1>3. \A v \in S : values[v] = media[First].date /\ values[v] \in Dates
    BY ZonesFit, RowsFit DEF IInv
  <1>4. passing' \subseteq Originals
    BY <1>1 DEF IInv, TypeOK
  <1>5. \A v \in DOMAIN job.page : v = group.out /\ media[First].rev = job.rev => v \in S
    OBVIOUS
  <1> HIDE DEF values
  <1>6. /\ TypeOK'
        /\ \A m \in Media \ S : media'[m] = media[m]
        /\ \A m \in S : media'[m].date = media[First].date
        /\ RecordsAreOfMedia' /\ SentIsTold'
        /\ GroupFits' /\ StagedFits' /\ FollowsUnlessBehind'
        /\ job' = [job EXCEPT !.pc = "videos", !.page = Nothing]
        /\ UNCHANGED group
    BY <1>1, <1>2, <1>3, <1>4, ApplyFits
  <1> HIDE DEF S
  <1>7. \A m \in Originals : media'[m] = media[m]
    BY <1>2, <1>6, NamesFit DEF Media
  <1>8. InstantsStay' /\ DateIsResolved'
    BY <1>1, <1>7 DEF IInv, TablesFit, InstantsStay, DateIsResolved
  <1>9. /\ job'.pc = "videos" /\ job'.kind = "recompute" /\ job'.seen = job.seen
        /\ job'.rev = job.rev
    BY <1>1, <1>6 DEF IInv, TypeOK, Job, JobFits, PcFits
  <1>10. PassFits'
    <2> SUFFICES ASSUME HasVideo, media[First].rev = job.rev, group.out \in job.seen
                 PROVE  ~Differs(media', group)
      BY <1>6, <1>7, <1>9, ZonesFit DEF PassFits, HasVideo
    <2>1. group.out \in Media
      BY RowsFit DEF IInv, HasVideo, Media
    <2>2. CASE group.out \in DOMAIN job.page
      BY <1>5, <1>6, <1>7, <2>2, ZonesFit DEF Differs
    <2>3. CASE group.out \notin DOMAIN job.page
      <3>1. ~Differs(media, group) /\ group.out \notin S
        BY <1>1, <2>3 DEF S, IInv, JobFits, PassFits
      <3> QED BY <1>6, <1>7, <2>1, <3>1, ZonesFit DEF Differs
    <2> QED BY <2>2, <2>3
  <1>11. PcFits' /\ PageIsFresh' /\ SendInHand' /\ MergeInHand'
    BY <1>9 DEF PcFits, PageIsFresh, SendInHand, MergeInHand
  <1> QED BY <1>6, <1>8, <1>10, <1>11 DEF IInv, TablesFit, JobFits

-----------------------------------------------------------------------------
(* Groups and merges *)

\* A detection or a user makes a group: what was staged, and the merge in hand,
\* are of a group before it.
LEMMA MakeGroupStep ==
    ASSUME IInv, SaveDetected \/ CreateManual
    PROVE  IInv'
  <1>1. PICK r \in Revisions :
            /\ ~HasGroup /\ \A m \in Originals : media[m].here
            /\ group' = [id |-> group.id, rev |-> r, out |-> NoVideo,
                         status |-> "detected"]
            /\ behind' = FALSE
            /\ UNCHANGED <<media, staged, records, written, revision, job, passing, mute, budget>>
    <2>1. revision \in Revisions /\ 1..revision \subseteq Revisions
      BY CaptureTimesAssumption DEF IInv, TypeOK, Revisions
    <2>2. PICK r \in Revisions : MakeGroup(r)
      BY <2>1 DEF SaveDetected, CreateManual
    <2> QED BY <2>2 DEF MakeGroup, Grouped
  <1>2. /\ group' \in Group /\ group'.id = group.id /\ group.id \in 1..MaxGroups
        /\ ~HasVideo' /\ HasGroup' /\ group.status = "none"
    BY <1>1 DEF IInv, TypeOK, Group, HasVideo, HasGroup
  <1>3. TypeOK'
    BY <1>1, <1>2 DEF IInv, TypeOK
  <1>4. InstantsStay' /\ DateIsResolved' /\ RecordsAreOfMedia' /\ SentIsTold'
    BY <1>1 DEF IInv, TablesFit, InstantsStay, DateIsResolved, RecordsAreOfMedia, SentIsTold
  <1>5. GroupFits' /\ StagedFits' /\ FollowsUnlessBehind'
    BY <1>1, <1>2 DEF IInv, TablesFit, GroupFits, StagedFits, FollowsUnlessBehind
  <1>6. PcFits' /\ PageIsFresh' /\ PassFits' /\ SendInHand'
    BY <1>1, <1>2 DEF IInv, JobFits, PcFits, PageIsFresh, PassFits, SendInHand
  <1>7. MergeInHand'
    BY <1>1, <1>2 DEF IInv, JobFits, MergeInHand
  <1> QED BY <1>3, <1>4, <1>5, <1>6, <1>7 DEF IInv, TablesFit, JobFits

\* An edit puts the next group, or none, in the place of the one there was.
LEMMA EditGroupStep ==
    ASSUME IInv, Supersede \/ Discard
    PROVE  IInv'
  <1> DEFINE waiting == {m \in Originals : records[m] \in {"pending", "recheck"}}
  <1>1. PICK r \in Revisions, status \in {"none", "detected"} :
            /\ HasGroup /\ group.id < MaxGroups
            /\ group' = [id |-> group.id + 1, rev |-> r, out |-> NoVideo,
                         status |-> status]
            /\ records' = [m \in Media |-> IF m \in waiting THEN "gone" ELSE records[m]]
            /\ behind' = FALSE
            /\ UNCHANGED <<media, staged, written, revision, job, passing, mute, budget>>
    BY DEF Supersede, Discard, EditGroup, Grouped, IInv, TypeOK, Group
  <1>2. /\ group' \in Group /\ group'.id = group.id + 1 /\ ~HasVideo'
        /\ \A m \in Originals : media[m].here
    BY <1>1, CaptureTimesAssumption
    DEF IInv, TypeOK, Group, HasVideo, TablesFit, GroupFits
  <1>3. \A m \in Media : \/ records'[m] = records[m]
                         \/ records[m] \in {"pending", "recheck"} /\ records'[m] = "gone"
    BY <1>1
  <1>4. records' \in [Media -> States]
    BY <1>1 DEF IInv, TypeOK, States
  <1> HIDE DEF waiting
  <1>5. TypeOK'
    BY <1>1, <1>2, <1>4 DEF IInv, TypeOK
  <1>6. InstantsStay' /\ DateIsResolved' /\ RecordsAreOfMedia' /\ SentIsTold'
    BY <1>1, <1>3 DEF IInv, TablesFit, InstantsStay, DateIsResolved, RecordsAreOfMedia,
                      SentIsTold
  <1>7. GroupFits' /\ StagedFits' /\ FollowsUnlessBehind'
    <2>1. group.id \in Nat /\ \A o \in staged : o.group \in Nat
      BY CaptureTimesAssumption DEF IInv, TypeOK, Group, Output
    <2> QED BY <1>1, <1>2, <2>1
        DEF IInv, TablesFit, GroupFits, StagedFits, FollowsUnlessBehind
  <1>8. PcFits' /\ PageIsFresh' /\ PassFits'
    BY <1>1, <1>2 DEF IInv, JobFits, PcFits, PageIsFresh, PassFits
  <1>9. SendInHand'
    BY <1>1, <1>3 DEF IInv, JobFits, TypeOK, Job, SendInHand
  <1>10. MergeInHand'
    <2>1. group.id \in Nat /\ job.group \in Nat
      BY CaptureTimesAssumption DEF IInv, TypeOK, Group, Job
    <2> QED BY <1>1, <1>2, <2>1 DEF IInv, JobFits, MergeInHand
  <1> QED BY <1>5, <1>6, <1>7, <1>8, <1>9, <1>10 DEF IInv, TablesFit, JobFits

\* A step of a merge that moves no date and no record.
LEMMA MergeTables ==
    ASSUME IInv, UNCHANGED <<media, records, written, passing, behind, mute>>,
           GroupFits', StagedFits', group'.out = group.out
    PROVE  TablesFit'
  BY DEF IInv, TablesFit, InstantsStay, DateIsResolved, RecordsAreOfMedia, SentIsTold,
         FollowsUnlessBehind, HasVideo, Differs

LEMMA StartMergeStep ==
    ASSUME IInv, StartMerge
    PROVE  IInv'
  <1>1. /\ Pay("merge") /\ group.status \in {"detected", "failed"}
        /\ group' = [group EXCEPT !.status = "merging"]
        /\ job' = [NoJob EXCEPT !.kind = "merge", !.pc = "joining", !.rev = group.rev,
                                !.group = group.id, !.date = media[First].date]
        /\ UNCHANGED <<media, staged, records, written, revision, passing, behind, mute>>
    BY DEF StartMerge, history
  <1>2. /\ group' \in Group /\ group'.id = group.id /\ group'.out = group.out
        /\ group'.status = "merging" /\ group.id # 0 /\ group.id \in 1..MaxGroups
    BY <1>1, RowsFit DEF IInv, TypeOK, Group
  <1>3. budget' \in [Expenses -> Nat]
    BY <1>1, Spends DEF IInv, Expenses
  <1>4. job' \in Job(job'.page) /\ job'.page = Nothing
    <2>1. group.id \in 0..MaxGroups
      BY <1>2, CaptureTimesAssumption
    <2> QED BY <1>1, <2>1, NoJobFits, ZonesFit, RowsFit DEF NoJob, Job, IInv
  <1>5. TypeOK'
    BY <1>1, <1>2, <1>3, <1>4, NoJobFits DEF IInv, TypeOK
  <1>6. \A o \in staged : o.group # group.id
    BY <1>1 DEF IInv, TablesFit, StagedFits
  <1>7. GroupFits' /\ StagedFits'
    BY <1>1, <1>2, <1>6
    DEF IInv, TablesFit, GroupFits, StagedFits, HasGroup, HasVideo
  <1>8. JobFits'
    <2>1. group.id <= group.id
      BY <1>2, CaptureTimesAssumption
    <2> QED BY <1>1, <1>2, <1>6, <2>1
        DEF NoJob, JobFits, PcFits, PageIsFresh, SendInHand, MergeInHand, PassFits
  <1> QED BY <1>1, <1>2, <1>5, <1>7, <1>8, MergeTables DEF IInv

LEMMA StageStep ==
    ASSUME IInv, Stage
    PROVE  IInv'
  <1> DEFINE o == [group |-> job.group, date |-> job.date, rev |-> job.rev]
  <1>1. /\ job.pc = "joining" /\ job.group = group.id
        /\ staged' = staged \cup {o} /\ job' = [job EXCEPT !.pc = "staged"]
        /\ UNCHANGED <<media, group, records, written, revision, passing, behind, mute, budget>>
    BY DEF Stage, history
  <1>2. /\ job.kind = "merge" /\ job.group # 0 /\ group.status = "merging"
        /\ \A p \in staged : p.group # group.id
        /\ media[First].date = job.date
    BY <1>1 DEF IInv, JobFits, PcFits, MergeInHand
  <1>3. o \in Output
    BY <1>2, RowsFit DEF Output, IInv
  <1>4. /\ job' \in Job(job'.page) /\ job'.page = job.page
        /\ job'.kind = "merge" /\ job'.pc = "staged" /\ job'.date = job.date
        /\ job'.group = job.group /\ job'.rev = job.rev
    BY <1>1, <1>2 DEF IInv, TypeOK, Job
  <1>5. TypeOK'
    BY <1>1, <1>3, <1>4 DEF IInv, TypeOK
  <1>6. group.id <= group.id
    BY CaptureTimesAssumption, RowsFit DEF IInv
  <1>7. GroupFits' /\ StagedFits'
    BY <1>1, <1>2, <1>6 DEF IInv, TablesFit, GroupFits, StagedFits, HasGroup, HasVideo
  <1>8. JobFits'
    BY <1>1, <1>2, <1>4, <1>6
    DEF JobFits, PcFits, PageIsFresh, SendInHand, MergeInHand, PassFits
  <1> QED BY <1>1, <1>5, <1>7, <1>8, MergeTables DEF IInv

\* A publication: the row is new, or taken as it is.
LEMMA PublishedFits ==
    ASSUME IInv, NEW o \in staged, Published(o), job.kind \in {"merge", "recover"},
           job.kind = "merge" /\ o.group = group.id => media[First].date = o.date,
           UNCHANGED <<records, written, passing, mute>>
    PROVE  /\ media' \in [Media -> Row] /\ group' \in Group /\ staged' \subseteq Output
           /\ behind' \in BOOLEAN
           /\ TablesFit'
           /\ staged' = staged \ {o}
           /\ group'.id = group.id /\ group'.status = group.status
           /\ \A m \in Media : media[m].here => media'[m] = media[m]
  <1> DEFINE v   == VideoNamed(o.date)
             row == [here |-> TRUE, date |-> o.date, rev |-> o.rev, own |-> NoZone,
                     named |-> FALSE]
  <1>1. /\ o.group \in 1..MaxGroups /\ o.date \in Dates /\ o.rev \in Revisions
    BY DEF IInv, TypeOK, Output
  <1>2. v \in Videos /\ v \in Media /\ v \notin Originals
    BY <1>1, NamesFit DEF Media
  <1>3. row \in Row /\ row.here /\ row.date = o.date
    BY <1>1 DEF Row
  <1>4. /\ media' = IF media[v].here THEN media ELSE [media EXCEPT ![v] = row]
        /\ group' = IF group.id = o.group THEN [group EXCEPT !.out = v] ELSE group
        /\ staged' = staged \ {o}
        /\ behind' = IF group.id # o.group THEN behind
                     ELSE /\ Differs(media', group')
                          /\ media[v].here \/ job.kind = "recover"
    BY DEF Published
  <1> HIDE DEF v, row
  <1>5. /\ media' \in [Media -> Row]
        /\ \A m \in Media : media[m].here => media'[m] = media[m]
        /\ \A m \in Media \ {v} : media'[m] = media[m]
        /\ media'[v].here
        /\ ~media[v].here => media'[v].date = o.date
    BY <1>2, <1>3, <1>4 DEF IInv, TypeOK
  <1>6. group' \in Group /\ group'.id = group.id /\ group'.status = group.status
    BY <1>2, <1>4 DEF IInv, TypeOK, Group
  <1>7. /\ group.id = o.group => group'.out = v
        /\ group.id # o.group => group' = group
    BY <1>4 DEF IInv, TypeOK, Group
  <1>8. behind' \in BOOLEAN
    BY <1>4 DEF IInv, TypeOK, Differs
  <1>9. \A m \in Originals : media'[m] = media[m]
    BY <1>2, <1>5 DEF Media
  <1>10. InstantsStay' /\ DateIsResolved'
    BY <1>9 DEF IInv, TablesFit, InstantsStay, DateIsResolved
  <1>11. RecordsAreOfMedia' /\ SentIsTold'
    <2>1. ~media[v].here => records[v] = "none"
      BY <1>2 DEF IInv, TablesFit, RecordsAreOfMedia
    <2> QED BY <1>5, <2>1 DEF IInv, TablesFit, RecordsAreOfMedia, SentIsTold
  <1>12. GroupFits'
    <2>1. HasGroup' => \A m \in Originals : media'[m].here
      BY <1>6, <1>9 DEF IInv, TablesFit, GroupFits, HasGroup
    <2>2. group.id = o.group => HasGroup
      BY DEF IInv, TablesFit, StagedFits, HasGroup
    <2>3. HasVideo' => HasGroup' /\ media'[group'.out].here
      BY <1>5, <1>6, <1>7, <2>2, RowsFit
      DEF IInv, TablesFit, GroupFits, HasGroup, HasVideo, Media
    <2> QED BY <2>1, <2>3 DEF GroupFits
  <1>13. StagedFits'
    BY <1>4, <1>6 DEF IInv, TablesFit, StagedFits
  <1>14. FollowsUnlessBehind'
    <2> SUFFICES ASSUME HasVideo', ~behind' PROVE ~Differs(media', group')
      BY DEF FollowsUnlessBehind
    <2>1. CASE group.id # o.group
      <3>1. group' = group /\ behind' = behind /\ media[group.out].here
        BY <1>4, <1>7, <2>1 DEF IInv, TablesFit, GroupFits, HasVideo
      <3>2. media'[group.out] = media[group.out] /\ media'[First] = media[First]
        BY <1>5, <1>9, <3>1, RowsFit, ZonesFit DEF IInv, HasVideo, Media
      <3> QED BY <3>1, <3>2 DEF IInv, TablesFit, FollowsUnlessBehind, HasVideo, Differs
    <2>2. CASE group.id = o.group
      <3>1. CASE media[v].here \/ job.kind = "recover"
        BY <1>4, <2>2, <3>1
      <3>2. CASE ~media[v].here /\ job.kind = "merge"
        BY <1>5, <1>7, <1>9, <2>2, <3>2, ZonesFit DEF Differs
      <3> QED BY <3>1, <3>2
    <2> QED BY <2>1, <2>2
  <1>15. staged' \subseteq Output
    BY <1>4 DEF IInv, TypeOK
  <1> QED BY <1>4, <1>5, <1>6, <1>8, <1>10, <1>11, <1>12, <1>13, <1>14, <1>15 DEF TablesFit

LEMMA PublishStep ==
    ASSUME IInv, Publish
    PROVE  IInv'
  <1>1. PICK o \in staged :
            /\ job.pc = "staged" /\ o.group = job.group /\ Published(o)
            /\ job' = [job EXCEPT !.pc = "committed"]
            /\ UNCHANGED <<records, written, revision, passing, mute, budget>>
    BY DEF Publish
  <1>2. /\ job.kind = "merge" /\ job.group # 0 /\ job.group <= group.id
        /\ job.group = group.id =>
               /\ group.status = "merging" /\ media[First].date = job.date
               /\ \A p \in staged : p.group = group.id =>
                      p.date = job.date /\ p.rev = job.rev
    BY <1>1 DEF IInv, JobFits, PcFits, MergeInHand
  <1>3. /\ media' \in [Media -> Row] /\ group' \in Group /\ staged' \subseteq Output
        /\ behind' \in BOOLEAN /\ TablesFit'
        /\ staged' = staged \ {o}
        /\ group'.id = group.id /\ group'.status = group.status
    BY <1>1, <1>2, PublishedFits
  <1>4. /\ job' \in Job(job'.page) /\ job'.page = job.page
        /\ job'.kind = "merge" /\ job'.pc = "committed" /\ job'.group = job.group
    BY <1>1, <1>2 DEF IInv, TypeOK, Job
  <1>5. TypeOK'
    BY <1>1, <1>3, <1>4 DEF IInv, TypeOK
  <1>6. job.group = group.id => \A p \in staged' : p.group # group.id
    <2>1. \A p \in staged : p.group = o.group /\ p.date = o.date /\ p.rev = o.rev => p = o
      BY DEF IInv, TypeOK, Output
    <2> QED BY <1>1, <1>2, <1>3, <2>1
  <1>7. JobFits'
    BY <1>2, <1>3, <1>4, <1>6
    DEF JobFits, PcFits, PageIsFresh, SendInHand, MergeInHand, PassFits
  <1> QED BY <1>3, <1>5, <1>7 DEF IInv

LEMMA ResumeStep ==
    ASSUME IInv, Resume
    PROVE  IInv'
  <1>1. PICK o \in staged :
            /\ job.kind = "recover" /\ Published(o)
            /\ UNCHANGED <<records, written, revision, job, passing, mute, budget>>
    BY DEF Resume
  <1>2. /\ media' \in [Media -> Row] /\ group' \in Group /\ staged' \subseteq Output
        /\ behind' \in BOOLEAN /\ TablesFit'
    BY <1>1, PublishedFits
  <1>3. TypeOK'
    BY <1>1, <1>2 DEF IInv, TypeOK
  <1> QED BY <1>1, <1>2, <1>3, FreeJobStays DEF IInv

LEMMA LeaveFits ==
    ASSUME IInv, NEW status \in {"detected", "failed", "merged"}, Leave(status),
           job.pc \in {"joining", "committed"}
    PROVE  /\ group' \in Group /\ group'.out = group.out
           /\ UNCHANGED <<media, staged>> => GroupFits' /\ StagedFits'
  <1>1. group' = IF group.id = job.group THEN [group EXCEPT !.status = status] ELSE group
    BY DEF Leave
  <1>2. /\ group' \in Group /\ group'.out = group.out /\ group'.id = group.id
        /\ group.id # job.group => group' = group
        /\ group'.status # "none" \/ group' = group
    BY <1>1 DEF IInv, TypeOK, Group
  <1>3. job.group = group.id => group.status = "merging" /\ \A o \in staged : o.group # group.id
    BY DEF IInv, JobFits, PcFits, MergeInHand
  <1>4. HasGroup' => HasGroup
    BY <1>2, <1>3 DEF HasGroup
  <1>5. HasGroup => HasGroup'
    BY <1>2 DEF HasGroup
  <1> QED BY <1>2, <1>3, <1>4, <1>5 DEF IInv, TablesFit, GroupFits, StagedFits, HasVideo

LEMMA MergeEndsStep ==
    ASSUME IInv, MarkMerged \/ MergeEnds("detected") \/ MergeEnds("failed")
    PROVE  IInv'
  <1>1. PICK status \in {"detected", "failed", "merged"} :
            /\ job.pc \in {"joining", "committed"} /\ Leave(status) /\ job' = NoJob
            /\ UNCHANGED <<media, staged, records, written, revision, passing, behind, mute>>
    BY DEF MarkMerged, MergeEnds, history
  <1>2. budget' \in [Expenses -> Nat]
    <2>1. CASE MarkMerged
      BY <2>1 DEF MarkMerged, IInv, TypeOK
    <2>2. CASE MergeEnds("detected") \/ MergeEnds("failed")
      BY <2>2, Spends DEF MergeEnds, IInv, Expenses
    <2> QED BY <2>1, <2>2
  <1>3. group' \in Group /\ group'.out = group.out /\ GroupFits' /\ StagedFits'
    BY <1>1, LeaveFits
  <1>4. TypeOK'
    BY <1>1, <1>2, <1>3, NoJobFits DEF IInv, TypeOK, NoJob
  <1> QED BY <1>1, <1>3, <1>4, JobEnds, MergeTables DEF IInv

LEMMA SettleMergesStep ==
    ASSUME IInv, SettleMerges
    PROVE  IInv'
  <1>1. /\ staged = {} /\ job' = NoJob
        /\ group' = IF group.status # "merging" THEN group
                    ELSE [group EXCEPT !.status = IF HasVideo THEN "merged" ELSE "detected"]
        /\ UNCHANGED <<media, staged, records, written, revision, budget>>
        /\ UNCHANGED <<passing, behind, mute>>
    BY DEF SettleMerges, history
  <1>2. /\ group' \in Group /\ group'.out = group.out /\ group'.id = group.id
        /\ group'.status # "none" <=> group.status # "none"
    BY <1>1 DEF IInv, TypeOK, Group
  <1>3. GroupFits' /\ StagedFits'
    BY <1>1, <1>2 DEF IInv, TablesFit, GroupFits, StagedFits, HasGroup, HasVideo
  <1>4. TypeOK'
    BY <1>1, <1>2, NoJobFits DEF IInv, TypeOK, NoJob
  <1> QED BY <1>1, <1>2, <1>3, <1>4, JobEnds, MergeTables DEF IInv

-----------------------------------------------------------------------------
(* Sends *)

\* A step of a send that moves no date and no group.
LEMMA SendTables ==
    ASSUME IInv, UNCHANGED <<media, group, staged, passing, behind>>,
           RecordsAreOfMedia', SentIsTold'
    PROVE  TablesFit'
  BY DEF IInv, TablesFit, InstantsStay, DateIsResolved, GroupFits, StagedFits,
         FollowsUnlessBehind, HasGroup, HasVideo, Differs

LEMMA CreateRecordStep ==
    ASSUME IInv, NEW m \in Media, CreateRecord(m)
    PROVE  IInv'
  <1>1. /\ media[m].here /\ records[m] = "none"
        /\ records' = [records EXCEPT ![m] = "pending"]
        /\ UNCHANGED <<media, group, staged, written, revision, job, budget>>
        /\ UNCHANGED <<passing, behind, mute>>
    BY DEF CreateRecord, history
  <1>2. /\ records'[m] = "pending" /\ \A n \in Media \ {m} : records'[n] = records[n]
        /\ records' \in [Media -> States]
    BY <1>1 DEF IInv, TypeOK, States
  <1>3. TypeOK'
    BY <1>1, <1>2 DEF IInv, TypeOK
  <1>4. RecordsAreOfMedia' /\ SentIsTold'
    BY <1>1, <1>2 DEF IInv, TablesFit, RecordsAreOfMedia, SentIsTold
  <1>5. PcFits' /\ PageIsFresh' /\ MergeInHand' /\ PassFits'
    BY <1>1 DEF IInv, JobFits, PcFits, PageIsFresh, MergeInHand, PassFits, HasVideo, Differs
  <1>6. SendInHand'
    BY <1>1, <1>2 DEF IInv, JobFits, TypeOK, Job, SendInHand
  <1> QED BY <1>1, <1>3, <1>4, <1>5, <1>6, SendTables DEF IInv, JobFits

LEMMA ClaimStep ==
    ASSUME IInv, NEW m \in Media, Claim(m)
    PROVE  IInv'
  <1>1. /\ Idle /\ records[m] \in {"pending", "recheck"} /\ Pay("send")
        /\ UNCHANGED <<media, group, staged, written, revision, passing, behind, mute>>
    BY DEF Claim, history
  <1>2. budget' \in [Expenses -> Nat]
    BY <1>1, Spends DEF IInv, Expenses
  <1>3. media[m].here
    BY <1>1 DEF IInv, TablesFit, RecordsAreOfMedia
  <1>4. CASE Eligible(m)
    <2>1. /\ records' = [records EXCEPT ![m] = "held"]
          /\ job' = [NoJob EXCEPT !.kind = "send", !.pc = "claimed", !.of = m,
                         !.date = media[m].date,
                         !.fixes = Defs[revision].fixes /\ Defs[revision].zone # NoZone]
      BY <1>4 DEF Claim
    <2>2. /\ records' \in [Media -> States] /\ records'[m] = "held"
          /\ \A n \in Media \ {m} : records'[n] = records[n]
      BY <2>1 DEF IInv, TypeOK, States
    <2>3. job' \in Job(job'.page) /\ job'.page = Nothing
      BY <2>1, NoJobFits, RowsFit DEF NoJob, Job, IInv
    <2>4. TypeOK'
      BY <1>1, <1>2, <2>2, <2>3, NoJobFits DEF IInv, TypeOK
    <2>5. RecordsAreOfMedia' /\ SentIsTold'
      BY <1>1, <1>3, <2>2 DEF IInv, TablesFit, RecordsAreOfMedia, SentIsTold
    <2>6. /\ job'.kind = "send" /\ job'.pc = "claimed" /\ job'.of = m
          /\ job'.date = media[m].date
      BY <2>1 DEF NoJob
    <2>7. JobFits'
      BY <1>1, <1>3, <2>2, <2>6
      DEF JobFits, PcFits, PageIsFresh, SendInHand, MergeInHand, PassFits
    <2> QED BY <1>1, <2>4, <2>5, <2>7, SendTables DEF IInv
  <1>5. CASE ~Eligible(m)
    <2>1. records' = [records EXCEPT ![m] = "gone"] /\ UNCHANGED job
      BY <1>5 DEF Claim
    <2>2. /\ records' \in [Media -> States] /\ records'[m] = "gone"
          /\ \A n \in Media \ {m} : records'[n] = records[n]
      BY <2>1 DEF IInv, TypeOK, States
    <2>3. TypeOK'
      BY <1>1, <1>2, <2>1, <2>2 DEF IInv, TypeOK
    <2>4. RecordsAreOfMedia' /\ SentIsTold'
      BY <1>1, <1>3, <2>2 DEF IInv, TablesFit, RecordsAreOfMedia, SentIsTold
    <2> QED BY <1>1, <2>1, <2>3, <2>4, SendTables, FreeJobStays DEF IInv, Idle
  <1> QED BY <1>4, <1>5

LEMMA PutDateStep ==
    ASSUME IInv, PutDate
    PROVE  IInv'
  <1>1. /\ job.pc = "claimed"
        /\ written' = [written EXCEPT ![job.of] = job.date]
        /\ mute' = mute \ {job.of}
        /\ job' = [job EXCEPT !.pc = "put"]
        /\ UNCHANGED <<media, group, staged, records, revision, passing, behind, budget>>
    BY DEF PutDate
  <1>2. /\ job.kind = "send" /\ job.of \in Media /\ records[job.of] = "held"
        /\ media[job.of].here /\ media[job.of].date = job.date
    BY <1>1 DEF IInv, JobFits, PcFits, SendInHand, TypeOK, Job
  <1>3. /\ job' \in Job(job'.page) /\ job'.page = job.page
        /\ job'.kind = "send" /\ job'.pc = "put" /\ job'.date = job.date /\ job'.of = job.of
    BY <1>1, <1>2 DEF IInv, TypeOK, Job
  <1>4. /\ written' \in [Media -> Dates \cup {NoDate}] /\ written'[job.of] = job.date
        /\ \A n \in Media \ {job.of} : written'[n] = written[n]
    BY <1>1, <1>2, RowsFit DEF IInv, TypeOK
  <1>5. TypeOK'
    BY <1>1, <1>3, <1>4 DEF IInv, TypeOK
  <1>6. RecordsAreOfMedia' /\ SentIsTold'
    BY <1>1, <1>2, <1>4 DEF IInv, TablesFit, RecordsAreOfMedia, SentIsTold
  <1>7. JobFits'
    BY <1>1, <1>2, <1>3, <1>4
    DEF JobFits, PcFits, PageIsFresh, SendInHand, MergeInHand, PassFits
  <1> QED BY <1>1, <1>5, <1>6, <1>7, SendTables DEF IInv

LEMMA SendEndsStep ==
    ASSUME IInv, FinishPlain \/ FinishWritten \/ FailSend("pending") \/ FailSend("recheck")
    PROVE  IInv'
  <1>1. PICK state \in {"complete", "pending", "recheck"} :
            /\ job.kind = "send"
            /\ records' = [records EXCEPT ![job.of] = state]
            /\ job' = NoJob
            /\ state = "complete" => \/ job.pc = "put" /\ mute' = mute
                                     \/ mute' = mute \cup {job.of}
            /\ state # "complete" => mute' = mute
            /\ UNCHANGED <<media, group, staged, written, revision, passing, behind>>
    <2>1. CASE FinishPlain \/ FinishWritten
      <3>1. job.kind = "send"
        BY <2>1 DEF FinishPlain, FinishWritten, IInv, JobFits, PcFits
      <3>2. \/ job.pc = "put" /\ mute' = mute
            \/ mute' = mute \cup {job.of}
        BY <2>1 DEF FinishPlain, FinishWritten
      <3> QED BY <2>1, <3>1, <3>2 DEF FinishPlain, FinishWritten, Complete
    <2>2. CASE FailSend("pending") \/ FailSend("recheck")
      BY <2>2 DEF FailSend, history
    <2> QED BY <2>1, <2>2
  <1>2. budget' \in [Expenses -> Nat]
    <2>1. CASE FinishPlain \/ FinishWritten
      BY <2>1 DEF FinishPlain, FinishWritten, Complete, IInv, TypeOK
    <2>2. CASE FailSend("pending") \/ FailSend("recheck")
      BY <2>2, Spends DEF FailSend, IInv, Expenses
    <2> QED BY <2>1, <2>2
  <1>3. /\ job.of \in Media /\ records[job.of] = "held"
        /\ media[job.of].here /\ media[job.of].date = job.date
        /\ job.pc = "put" => written[job.of] = job.date
    BY <1>1 DEF IInv, JobFits, SendInHand, TypeOK, Job
  <1>4. /\ records' \in [Media -> States] /\ records'[job.of] # "none"
        /\ records'[job.of] = "complete" =>
               job.of \in mute' \/ written[job.of] = media[job.of].date
        /\ \A n \in Media \ {job.of} : records'[n] = records[n]
    BY <1>1, <1>3 DEF IInv, TypeOK, States
  <1>5. mute' \subseteq Media /\ mute \subseteq mute'
    BY <1>1, <1>3 DEF IInv, TypeOK
  <1>6. TypeOK'
    BY <1>1, <1>2, <1>4, <1>5, NoJobFits DEF IInv, TypeOK, NoJob
  <1>7. RecordsAreOfMedia' /\ SentIsTold'
    BY <1>1, <1>3, <1>4, <1>5 DEF IInv, TablesFit, RecordsAreOfMedia, SentIsTold
  <1> QED BY <1>1, <1>6, <1>7, SendTables, JobEnds DEF IInv

-----------------------------------------------------------------------------
(* The theorems *)

LEMMA InitFits == Init => IInv
  <1> SUFFICES ASSUME Init PROVE IInv
    OBVIOUS
  <1>1. TypeOK
    <2>1. NoRow \in Row
      BY ZonesFit, DatesFit DEF NoRow, Row
    <2>2. group \in Group /\ ~HasGroup /\ ~HasVideo
      BY ZonesFit, CaptureTimesAssumption DEF Init, Group, HasGroup, HasVideo
    <2>3. budget \in [Expenses -> Nat]
      BY CaptureTimesAssumption DEF Init
    <2> QED BY <2>1, <2>2, <2>3, NoJobFits, ZonesFit DEF Init, TypeOK, States, NoJob
  <1>2. TablesFit
    BY DEF Init, TablesFit, InstantsStay, DateIsResolved, RecordsAreOfMedia, SentIsTold,
           GroupFits, StagedFits, FollowsUnlessBehind, HasGroup, HasVideo, NoRow, Media
  <1>3. JobFits
    BY DEF Init, NoJob, JobFits, PcFits, PageIsFresh, SendInHand, MergeInHand, PassFits
  <1> QED BY <1>1, <1>2, <1>3 DEF IInv

LEMMA StutterFits == IInv /\ UNCHANGED vars => IInv'
  <1> SUFFICES ASSUME IInv, UNCHANGED vars PROVE IInv'
    OBVIOUS
  <1>1. UNCHANGED tables /\ UNCHANGED <<revision, job, budget, passing, behind, mute>>
    BY DEF vars, tables, history
  <1>2. TypeOK'
    BY <1>1, QuietTypes DEF IInv, TypeOK
  <1>3. JobFits'
    BY <1>1 DEF IInv, JobFits, tables, history, PcFits, PageIsFresh, SendInHand, MergeInHand,
                PassFits, HasVideo, Differs
  <1> QED BY <1>1, <1>2, <1>3, TablesStay DEF IInv

\* The strengthened invariant is inductive: types, what the tables say of each
\* other, and what each job has in hand at each of its steps.
THEOREM Inductive == Spec => []IInv
  <1>1. IInv /\ [Next]_vars => IInv'
    <2> SUFFICES ASSUME IInv, [Next]_vars PROVE IInv'
      OBVIOUS
    <2>1. CASE Requests
      BY <2>1, EditStep, ZoneOverrideStep, MakeGroupStep, EditGroupStep,
         CreateRecordStep DEF Requests
    <2>2. CASE Jobs
      BY <2>2, ForgetStep, ImportStep, StartRecomputeStep, ReadPageStep, WritePageStep,
         EndPassStep, InheritPageStep, FreeStep, StartMergeStep, StageStep, PublishStep,
         MergeEndsStep, ClaimStep, PutDateStep, SendEndsStep DEF Jobs
    <2>3. CASE Faults
      BY <2>3, FreeStep, MergeEndsStep, ResumeStep, SettleMergesStep, SendEndsStep DEF Faults
    <2>4. CASE UNCHANGED vars
      BY <2>4, StutterFits
    <2> QED BY <2>1, <2>2, <2>3, <2>4 DEF Next
  <1> QED BY <1>1, InitFits, PTL DEF Spec

\* Every variable keeps its type.
THEOREM TypeCorrect == Spec => []TypeOK
  <1>1. IInv => TypeOK
    BY DEF IInv
  <1> QED BY <1>1, Inductive, PTL

\* The date of an original is what its camera, revision and place make of it,
\* unless a place was recorded under the hands of a recomputation
\* (db/capture_zone.py, jobs/recompute.py).
THEOREM DatesResolved == Spec => []DateIsResolved
  <1>1. IInv => DateIsResolved
    BY DEF IInv, TablesFit
  <1> QED BY <1>1, Inductive, PTL

\* What was sent and says complete has the date of the catalogue in the
\* library, or is on its way there again (requeue_sent, jobs/uploader.py).
THEOREM SentTold == Spec => []SentIsTold
  <1>1. IInv => SentIsTold
    BY DEF IInv, TablesFit
  <1> QED BY <1>1, Inductive, PTL

\* The video in force follows its first part, and a recomputation that ends
\* leaves none behind (_inherit, _recomputed_derived, jobs/merger.py).
THEOREM VideosFollowed == Spec => []VideosFollow
  <1>1. IInv => VideosFollow
    <2> SUFFICES ASSUME IInv, HasVideo PROVE VideosFollow
      BY DEF VideosFollow
    <2>1. ~behind => ~Differs(media, group)
      BY DEF IInv, TablesFit, FollowsUnlessBehind
    <2>2. ASSUME job.pc = "finished", media[First].rev = job.rev
          PROVE  ~Differs(media, group)
      <3>1. group.out \in Videos /\ media[group.out].here
        BY RowsFit DEF IInv, TablesFit, GroupFits, HasVideo
      <3> QED BY <2>2, <3>1 DEF IInv, JobFits, PassFits
    <2> QED BY <2>1, <2>2 DEF VideosFollow
  <1> QED BY <1>1, Inductive, PTL
=============================================================================
