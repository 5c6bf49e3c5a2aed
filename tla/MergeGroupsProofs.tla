------------------------- MODULE MergeGroupsProofs -------------------------
(***************************************************************************)
(* MergedIsComplete, NothingStuck, EveryVideoHasAnOwner and OutputIsStable *)
(* of MergeGroups, for any parts, lists, bounds and budgets, and           *)
(* OfferedFitsItsParts where losses and errors do not come together.       *)
(***************************************************************************)
EXTENDS MergeGroups, FiniteSetTheorems, SequenceTheorems, WellFoundedInduction, TLAPS

-----------------------------------------------------------------------------
(* The inductive invariant                                                 *)

IsRow(r) == rows[r].state # "absent"
Named(name, list) == name[1] = list[1] /\ name[2] = list[Len(list)]
InForce(g) == groups[g].next = Nobody /\ groups[g].status # "skipped"

\* A group that is there has members and a revision.
MembersFit ==
    \A g \in GroupIds : Exists(g) => groups[g].members # <<>> /\ groups[g].rev # 0

\* Groups in force share no part.
Disjoint ==
    \A g, h \in GroupIds :
        g # h /\ Holds(g) /\ Holds(h) => PartsOf(g) \cap PartsOf(h) = {}

\* An output is a video that was verified and is named after the group's ends.
OutputFits(g) ==
    groups[g].out # Nobody =>
        /\ Exists(g) /\ groups[g].verified # "none"
        /\ HasVideo(groups[g].out)
        /\ Named(videos[groups[g].out].name, groups[g].members)

\* A merged group has an output; one that can be merged has none, and no row.
StatusFits(g) ==
    groups[g].next = Nobody =>
        /\ groups[g].status = "merged" => groups[g].out # Nobody
        /\ groups[g].status \in {"detected", "failed"} =>
               /\ groups[g].out = Nobody
               /\ \A r \in RowIds : IsRow(r) => rows[r].group # g

GroupsFit == \A g \in GroupIds : OutputFits(g) /\ StatusFits(g)

\* A group has one row at most.  Until it is published the group has no output;
\* afterwards it has that of the row's name, while it is in force.
RowFits(r) ==
    LET g == rows[r].group IN
    /\ g \in GroupIds /\ Exists(g) /\ groups[g].verified # "none"
    /\ \A s \in RowIds : IsRow(s) /\ rows[s].group = g => s = r
    /\ rows[r].state \in {"staged", "published"} =>
           rows[r].made.of = groups[g].members /\ Named(rows[r].name, groups[g].members)
    /\ groups[g].out # Nobody =>
           rows[r].state = "published" /\ videos[groups[g].out].name = rows[r].name
    /\ rows[r].state = "published" /\ InForce(g) => groups[g].out # Nobody

RowsFit == \A r \in RowIds : IsRow(r) => RowFits(r)

NamesFit ==
    \A v, w \in VideoIds :
        HasVideo(v) /\ HasVideo(w) /\ videos[v].name = videos[w].name => v = w

TablesFit == /\ MembersFit /\ Disjoint /\ GroupsFit /\ RowsFit /\ NamesFit
             /\ EveryVideoHasAnOwner

\* What is being written is in the hands of the job, or of the recovery.
WritingFits ==
    \A r \in RowIds : rows[r].state = "writing" =>
        \/ job.pc = "writing" /\ job.row = r
        \/ job.pc = "recovering" /\ r \in job.rows

Joining    == {"joining", "verified"}
Publishing == {"writing", "staged", "linked"}
Merging    == Joining \cup Publishing \cup {"committed"}

\* The group of a merge is merging, unless it was edited; its row is as far as
\* the job is.
JobFits ==
    LET g == job.group IN
    /\ job.pc \in Merging =>
           /\ g \in GroupIds /\ Exists(g)
           /\ InForce(g) => groups[g].status = "merging"
    /\ job.pc \in Joining \cup Publishing => groups[g].out = Nobody
    /\ job.pc \in Joining => \A r \in RowIds : IsRow(r) => rows[r].group # g
    /\ job.pc \in {"verified", "writing"} =>
           /\ job.made.of = groups[g].members
           /\ groups[g].verified # "none"
    /\ job.pc \in Publishing \cup {"committed"} =>
           job.row \in RowIds /\ rows[job.row].group = g
    /\ job.pc = "writing" => rows[job.row].state = "writing"
    /\ job.pc \in {"staged", "linked"} => rows[job.row].state = "staged"
    /\ job.pc = "committed" => rows[job.row].state = "published"
    /\ job.pc \in {"joining", "detecting"} => job.rev # 0
    /\ job.pc = "detecting" => \A i \in 1..Len(job.todo) : job.todo[i] # <<>>

\* A group left merging is in somebody's hands.
MergingFits ==
    \A g \in GroupIds : groups[g].status = "merging" /\ groups[g].next = Nobody =>
        \/ job.pc = "recovering"
        \/ job.pc \in {"joining", "verified", "writing", "committed"} /\ job.group = g
        \/ \E r \in RowIds : rows[r].state = "staged" /\ rows[r].group = g

RequestFits ==
    /\ request.kind # "none" => request.list \in Lists
    /\ request.kind = "regroup" => request.group \in GroupIds

IInv == TypeOK /\ TablesFit /\ WritingFits /\ JobFits /\ MergingFits /\ RequestFits

\* One step of OutputIsStable.
Stable == \A g \in GroupIds :
    (IsMerged(g) /\ groups'[g].status = "merged" /\ groups'[g].next = Nobody)
        => groups'[g].out = groups[g].out

Kept == IInv' /\ Stable

-----------------------------------------------------------------------------
(* Types and lists                                                         *)

LEMMA Constants ==
    /\ Parts \in Nat \ {0} /\ MaxGroups \in Nat \ {0} /\ MaxVideos \in Nat \ {0}
    /\ MaxRows \in Nat \ {0} /\ MaxRevisions \in Nat \ {0} /\ MaxNames \in Nat \ {0}
    /\ Takes \in Nat \ {0}
BY MergeAssumption

\* The lists users think of are lists of parts, and not empty.
LEMMA ListsAreLists ==
    \A list \in Lists : list \in Seq(PartIds) /\ list # <<>>
<1> SUFFICES ASSUME NEW list \in Lists
             PROVE  list \in Seq(PartIds) /\ list # <<>>
    OBVIOUS
<1>1. PICK n \in 2..Parts : list \in [1..n -> PartIds]
    BY MergeAssumption DEF ListsOf
<1>2. n \in Nat /\ n > 0
    BY Constants
<1>3. list \in Seq(PartIds)
    BY <1>1, <1>2, SeqDef
<1>4. Len(list) = n
    BY <1>1, <1>2, <1>3, LenProperties
<1> QED
    BY <1>2, <1>3, <1>4

\* The candidates of a detection are lists of parts, and not empty.
LEMMA CandidatesAreLists ==
    ASSUME NEW taken
    PROVE  \A s \in Candidates(taken) :
               s \in Seq(Seq(PartIds)) /\ \A i \in 1..Len(s) : s[i] # <<>>
<1> DEFINE chains == Chains(taken)
           found  == {Run(c) : c \in chains}
<1>1. chains \subseteq PartIds \X PartIds
    BY DEF Chains
<1>2. IsFiniteSet(PartIds \X PartIds)
    <2>1. IsFiniteSet(PartIds)
        BY Constants, FS_Interval DEF PartIds
    <2> QED
        BY <2>1, FS_Product
<1>3. Cardinality(chains) \in Nat
    BY <1>1, <1>2, FS_Subset, FS_CardinalityType
<1>4. \A c \in chains : Run(c) \in Seq(PartIds) /\ Run(c) # <<>>
    <2> SUFFICES ASSUME NEW a \in PartIds, NEW b \in PartIds, a < b
                 PROVE  Run(<<a, b>>) \in Seq(PartIds) /\ Run(<<a, b>>) # <<>>
        BY DEF Chains
    <2> DEFINE n == b - a + 1
    <2>1. n \in Nat /\ n > 1
        BY DEF PartIds
    <2>2. Run(<<a, b>>) = [i \in 1..n |-> a + i - 1]
        BY DEF Run
    <2>3. \A i \in 1..n : a + i - 1 \in PartIds
        BY Constants DEF PartIds
    <2>4. Run(<<a, b>>) \in [1..n -> PartIds]
        BY <2>2, <2>3
    <2>5. Run(<<a, b>>) \in Seq(PartIds)
        BY <2>1, <2>4, SeqDef
    <2>6. Len(Run(<<a, b>>)) = n
        BY <2>1, <2>4, <2>5, LenProperties
    <2> QED
        BY <2>1, <2>5, <2>6
<1> SUFFICES ASSUME NEW s \in Candidates(taken)
             PROVE  s \in Seq(Seq(PartIds)) /\ \A i \in 1..Len(s) : s[i] # <<>>
    OBVIOUS
<1>5. s \in [1..Cardinality(chains) -> found]
    BY DEF Candidates
<1>6. s \in [1..Cardinality(chains) -> Seq(PartIds)]
    BY <1>4, <1>5
<1>7. s \in Seq(Seq(PartIds))
    BY <1>3, <1>6, SeqDef
<1>8. Len(s) = Cardinality(chains)
    BY <1>3, <1>6, <1>7, LenProperties
<1> QED
    BY <1>4, <1>5, <1>7, <1>8

\* The first part of a list and its last are parts of it.
LEMMA Ends ==
    ASSUME NEW list \in Seq(PartIds), list # <<>>
    PROVE  /\ Len(list) \in Nat \ {0}
           /\ list[1] \in InList(list) /\ list[1] \in PartIds
           /\ list[Len(list)] \in PartIds
           /\ NameOf(list, 1) \in Names
           /\ Named(NameOf(list, 1), list)
<1>1. Len(list) \in Nat \ {0}
    BY EmptySeq, LenProperties
<1>2. list[1] \in PartIds /\ list[Len(list)] \in PartIds
    BY <1>1, ElementOfSeq
<1> QED
    BY <1>1, <1>2, Constants DEF InList, NameOf, Names, Named

LEMMA EmptyRecords ==
    /\ NoGroup \in Group /\ NoVideo \in Video /\ NoRow \in Row /\ NoJob \in Job
    /\ NoRequest \in Request /\ Nothing.of = <<>>
    /\ NoName \in Names
<1>1. <<>> \in Seq(PartIds) /\ <<>> \in Seq(Seq(PartIds))
    BY EmptySeq
<1> QED
    BY <1>1, Constants DEF NoGroup, Group, Statuses, NoVideo, Video, NoRow, Row, NoJob, Job,
       NoRequest, Request, Nothing, NoName, Names, PartIds, Nobody, PCs

\* A new group of a list.
LEMMA NewGroupType ==
    ASSUME NEW list \in Seq(PartIds), NEW rev \in 1..MaxRevisions,
           NEW digest \in 0..MaxRevisions
    PROVE  /\ NewGroup(list, rev, digest) \in Group
           /\ NewGroup(list, rev, digest).status = "detected"
           /\ NewGroup(list, rev, digest).members = list
           /\ NewGroup(list, rev, digest).rev = rev
           /\ NewGroup(list, rev, digest).out = Nobody
           /\ NewGroup(list, rev, digest).next = Nobody
<1>1. /\ NoGroup \in Group /\ NoGroup.out = Nobody /\ NoGroup.next = Nobody
      /\ NoGroup.verified = "none" /\ NoGroup.adopted = FALSE
    BY EmptyRecords DEF NoGroup
<1>2. rev \in 0..MaxRevisions
    BY Constants
<1> QED
    BY <1>1, <1>2 DEF NewGroup, Group, Statuses

-----------------------------------------------------------------------------
(* The tables, by what a step does to them                                 *)

\* Of a group that is there, a step keeps all that is not its status, its
\* verdict and its adoption; it takes no verdict back and revives nothing.
GroupKept(g) ==
    /\ groups'[g].members = groups[g].members
    /\ groups'[g].rev = groups[g].rev
    /\ groups'[g].digest = groups[g].digest
    /\ groups'[g].out = groups[g].out
    /\ groups'[g].next = groups[g].next
    /\ groups'[g].status = "absent" <=> groups[g].status = "absent"
    /\ groups[g].status = "skipped" => groups'[g].status = "skipped"
    /\ groups[g].verified # "none" => groups'[g].verified # "none"

\* What the new status of a group asks for is there.
StatusEarned(g) ==
    /\ groups'[g].status = "merged" =>
           groups[g].status = "merged" \/ groups[g].out # Nobody
    /\ groups'[g].status \in {"detected", "failed"} =>
           \/ groups[g].status \in {"detected", "failed"}
           \/ /\ groups[g].out = Nobody
              /\ \A r \in RowIds : IsRow(r)' => rows[r].group # g

LEMMA StatusTables ==
    ASSUME TablesFit, UNCHANGED videos,
           \A r \in RowIds : rows'[r] = rows[r] \/ rows'[r].state = "absent",
           \A g \in GroupIds : GroupKept(g),
           \A g \in GroupIds : groups[g].next = Nobody => StatusEarned(g)
    PROVE  TablesFit' /\ Stable
<1>1. MembersFit' /\ NamesFit' /\ Stable
    BY DEF TablesFit, MembersFit, NamesFit, Stable, GroupKept, Exists, HasVideo, IsMerged
<1>2. \A g \in GroupIds : (Holds(g)' => Holds(g)) /\ PartsOf(g)' = PartsOf(g)
    BY DEF GroupKept, Holds, Exists, PartsOf
<1>3. Disjoint'
    BY <1>2 DEF TablesFit, Disjoint
<1>4. GroupsFit'
    BY DEF TablesFit, GroupsFit, OutputFits, StatusFits, GroupKept, StatusEarned, Exists,
       HasVideo, IsRow
<1>5. RowsFit'
    BY DEF TablesFit, RowsFit, RowFits, GroupKept, InForce, Exists, IsRow
<1>6. EveryVideoHasAnOwner'
    BY DEF TablesFit, EveryVideoHasAnOwner, Pointing, GroupKept, Exists, HasVideo
<1> QED
    BY <1>1, <1>3, <1>4, <1>5, <1>6 DEF TablesFit

LEMMA QuietTables ==
    ASSUME TablesFit, UNCHANGED <<groups, videos, rows>>
    PROVE  TablesFit' /\ Stable
BY StatusTables DEF GroupKept, StatusEarned

\* A new group, of parts that no other group in force has; the group it comes
\* from, if any, is superseded.
LEMMA NewGroupTables ==
    ASSUME TypeOK, TablesFit, UNCHANGED <<videos, rows>>,
           NEW n \in GroupIds, ~Exists(n),
           NEW list \in Seq(PartIds), list # <<>>, NEW rev \in 1..MaxRevisions,
           NEW digest \in 0..MaxRevisions,
           groups'[n] = NewGroup(list, rev, digest),
           \A g \in GroupIds : g # n =>
               \/ groups'[g] = groups[g]
               \/ groups'[g] = [groups[g] EXCEPT !.next = n],
           \A g \in GroupIds :
               g # n /\ Holds(g)' => PartsOf(g) \cap InList(list) = {}
    PROVE  TablesFit' /\ Stable
<1>1. /\ groups'[n].status = "detected" /\ groups'[n].members = list
      /\ groups'[n].rev # 0 /\ groups'[n].out = Nobody /\ groups'[n].next = Nobody
    BY NewGroupType, Constants
<1>2. \A g \in GroupIds : g # n =>
        /\ groups'[g].members = groups[g].members /\ groups'[g].rev = groups[g].rev
        /\ groups'[g].out = groups[g].out /\ groups'[g].status = groups[g].status
        /\ groups'[g].verified = groups[g].verified
        /\ groups'[g].next = Nobody => groups[g].next = Nobody
    <2> SUFFICES ASSUME NEW g \in GroupIds, g # n
                 PROVE  /\ groups'[g].members = groups[g].members
                        /\ groups'[g].rev = groups[g].rev
                        /\ groups'[g].out = groups[g].out
                        /\ groups'[g].status = groups[g].status
                        /\ groups'[g].verified = groups[g].verified
                        /\ groups'[g].next \in {groups[g].next, n}
        BY DEF GroupIds, Nobody
    <2>1. groups[g] \in Group
        BY DEF TypeOK
    <2>2. CASE groups'[g] = groups[g]
        BY <2>2
    <2>3. CASE groups'[g] = [groups[g] EXCEPT !.next = n]
        BY <2>1, <2>3 DEF Group
    <2> QED
        BY <2>2, <2>3
<1>3. groups[n].out = Nobody
    BY DEF TablesFit, GroupsFit, OutputFits
<1>4. \A r \in RowIds : IsRow(r) => rows[r].group # n
    BY DEF TablesFit, RowsFit, RowFits
<1>5. MembersFit' /\ NamesFit' /\ Stable
    BY <1>1, <1>2 DEF TablesFit, MembersFit, NamesFit, Stable, Exists, HasVideo, IsMerged
<1>6. PartsOf(n)' = InList(list)
    BY <1>1 DEF PartsOf, InList
<1>7. \A g \in GroupIds : g # n => (Holds(g)' => Holds(g)) /\ PartsOf(g)' = PartsOf(g)
    BY <1>2 DEF Holds, Exists, PartsOf
<1>8. Disjoint'
    BY <1>6, <1>7 DEF TablesFit, Disjoint
<1>9. GroupsFit'
    BY <1>1, <1>2, <1>4 DEF TablesFit, GroupsFit, OutputFits, StatusFits, Exists, HasVideo, IsRow
<1>10. RowsFit'
    BY <1>2, <1>4 DEF TablesFit, RowsFit, RowFits, InForce, Exists, IsRow
<1>11. EveryVideoHasAnOwner'
    BY <1>2, <1>3 DEF TablesFit, EveryVideoHasAnOwner, Pointing, Exists, HasVideo, VideoIds, Nobody
<1> QED
    BY <1>5, <1>8, <1>9, <1>10, <1>11 DEF TablesFit

\* A row is written or linked, of a group without an output.
LEMMA RowTables ==
    ASSUME TablesFit, UNCHANGED <<groups, videos>>,
           NEW r \in RowIds, \A s \in RowIds : s # r => rows'[s] = rows[s],
           NEW g \in GroupIds, rows'[r].group = g,
           Exists(g), groups[g].verified # "none", groups[g].out = Nobody,
           groups[g].next = Nobody => groups[g].status \notin {"detected", "failed"},
           \A s \in RowIds : IsRow(s) /\ rows[s].group = g => s = r,
           rows'[r].state \in {"writing", "staged"},
           rows'[r].state = "staged" =>
               rows'[r].made.of = groups[g].members /\ Named(rows'[r].name, groups[g].members)
    PROVE  TablesFit' /\ Stable
<1>1. MembersFit' /\ Disjoint' /\ NamesFit' /\ EveryVideoHasAnOwner' /\ Stable
    <2>1. MembersFit' /\ NamesFit' /\ EveryVideoHasAnOwner'
        BY DEF TablesFit, MembersFit, NamesFit, EveryVideoHasAnOwner, Exists, HasVideo, Pointing
    <2>2. \A h \in GroupIds : (Holds(h)' <=> Holds(h)) /\ PartsOf(h)' = PartsOf(h)
        BY DEF Exists, Holds, PartsOf
    <2>3. Disjoint'
        BY <2>2 DEF TablesFit, Disjoint
    <2>4. Stable
        BY DEF Stable, IsMerged
    <2> QED
        BY <2>1, <2>3, <2>4
<1>2. GroupsFit'
    BY DEF TablesFit, GroupsFit, OutputFits, StatusFits, Exists, HasVideo, IsRow
<1>3. ASSUME NEW s \in RowIds, IsRow(s)' PROVE RowFits(s)'
    <2>1. CASE s = r
        BY <2>1 DEF TablesFit, RowsFit, RowFits, Exists, IsRow
    <2>2. CASE s # r
        <3>1. IsRow(s) /\ RowFits(s)
            BY <1>3, <2>2 DEF TablesFit, RowsFit, IsRow
        <3>2. rows[s].group # g
            BY <2>2, <3>1
        <3> QED
            BY <2>2, <3>1, <3>2 DEF RowFits, Exists, IsRow, InForce
    <2> QED
        BY <2>1, <2>2
<1> QED
    BY <1>1, <1>2, <1>3 DEF TablesFit, RowsFit

\* A row is committed as video v: one of that name that is there already, or a
\* new one.
Entered(r, n, v) ==
    LET g == rows[r].group IN
    /\ videos' = IF HasVideo(v) THEN videos
                 ELSE [videos EXCEPT ![v] = [name |-> n, made |-> rows[r].made]]
    /\ groups' = [groups EXCEPT ![g].out = v]
    /\ \A h \in GroupIds : h # g => groups'[h] = groups[h]
    /\ groups'[g].out = v
    /\ groups'[g].members = groups[g].members /\ groups'[g].rev = groups[g].rev
    /\ groups'[g].digest = groups[g].digest
    /\ groups'[g].next = groups[g].next /\ groups'[g].status = groups[g].status
    /\ groups'[g].verified = groups[g].verified
    /\ HasVideo(v)' /\ videos'[v].name = n
    /\ \A w \in VideoIds : HasVideo(w) => videos'[w] = videos[w]
    /\ \A w \in VideoIds : w # v => videos'[w] = videos[w]
    /\ IF HasVideo(v) THEN v \in VideosNamed(n) ELSE VideosNamed(n) = {}

LEMMA CommittedRow ==
    ASSUME TypeOK, TablesFit,
           NEW r \in RowIds, rows[r].state \in {"staged", "published"},
           NEW n \in Names, CommitRow(r, n)
    PROVE  /\ RowFits(r) /\ rows[r].group \in GroupIds
           /\ \E v \in VideoIds : v # Nobody /\ Entered(r, n, v)
<1> DEFINE g == rows[r].group
           Chosen == IF VideosNamed(n) = {} THEN FreeVideo ELSE VideosNamed(n)
<1>1. PICK v \in Chosen :
        /\ videos' = IF HasVideo(v) THEN videos
                     ELSE [videos EXCEPT ![v] = [name |-> n, made |-> rows[r].made]]
        /\ groups' = [groups EXCEPT ![g].out = v]
    BY DEF CommitRow
<1>2. v \in VideoIds /\ v # Nobody
    BY DEF FreeVideo, VideosNamed, VideoIds, Nobody
<1>3. RowFits(r) /\ g \in GroupIds
    BY DEF TablesFit, RowsFit, RowFits, IsRow
<1>4. /\ \A h \in GroupIds : h # g => groups'[h] = groups[h]
      /\ groups'[g].out = v
      /\ groups'[g].members = groups[g].members /\ groups'[g].rev = groups[g].rev
      /\ groups'[g].digest = groups[g].digest
      /\ groups'[g].next = groups[g].next /\ groups'[g].status = groups[g].status
      /\ groups'[g].verified = groups[g].verified
    BY <1>1, <1>3 DEF TypeOK, Group
<1>5. rows[r].made.of # <<>>
    BY <1>3 DEF RowFits, TablesFit, MembersFit
<1>6. [name |-> n, made |-> rows[r].made] # NoVideo
    BY <1>5 DEF NoVideo, Nothing
<1>7. /\ HasVideo(v)' /\ videos'[v].name = n
      /\ \A w \in VideoIds : HasVideo(w) => videos'[w] = videos[w]
      /\ \A w \in VideoIds : w # v => videos'[w] = videos[w]
      /\ IF HasVideo(v) THEN v \in VideosNamed(n) ELSE VideosNamed(n) = {}
    <2>1. CASE HasVideo(v)
        <3>1. v \in VideosNamed(n)
            BY <2>1 DEF FreeVideo
        <3> QED
            BY <1>1, <2>1, <3>1 DEF VideosNamed, HasVideo
    <2>2. CASE ~HasVideo(v)
        <3>1. VideosNamed(n) = {}
            BY <2>2 DEF VideosNamed
        <3> QED
            BY <1>1, <1>2, <1>6, <2>2, <3>1 DEF HasVideo, TypeOK
    <2> QED
        BY <2>1, <2>2
<1>8. Entered(r, n, v)
    BY <1>1, <1>4, <1>7 DEF Entered
<1> QED
    BY <1>2, <1>3, <1>8

\* A group that has an output keeps it.
LEMMA CommitTables ==
    ASSUME TypeOK, TablesFit,
           NEW r \in RowIds, rows[r].state \in {"staged", "published"},
           NEW n \in Names, n[1] = rows[r].name[1], n[2] = rows[r].name[2],
           rows[r].state = "published" => n = rows[r].name,
           CommitRow(r, n),
           rows'[r].state = "published", rows'[r].name = n,
           rows'[r].group = rows[r].group, rows'[r].made = rows[r].made,
           \A s \in RowIds : s # r => rows'[s] = rows[s]
    PROVE  /\ TablesFit' /\ Stable
           /\ groups' \in [GroupIds -> Group] /\ videos' \in [VideoIds -> Video]
           /\ \A h \in GroupIds : /\ groups'[h].status = groups[h].status
                                 /\ groups'[h].next = groups[h].next
                                 /\ groups'[h].members = groups[h].members
<1> DEFINE g == rows[r].group
<1>1. PICK v \in VideoIds : v # Nobody /\ Entered(r, n, v)
    BY CommittedRow
<1>2. v \in VideoIds /\ v # Nobody
    BY <1>1
<1>3. RowFits(r) /\ g \in GroupIds
    BY CommittedRow
<1>4. /\ \A h \in GroupIds : h # g => groups'[h] = groups[h]
      /\ groups'[g].out = v
      /\ groups'[g].members = groups[g].members /\ groups'[g].rev = groups[g].rev
      /\ groups'[g].next = groups[g].next /\ groups'[g].status = groups[g].status
      /\ groups'[g].verified = groups[g].verified
    BY <1>1 DEF Entered
<1>5. /\ rows'[r].state = "published" /\ rows'[r].name = n /\ rows'[r].group = g
      /\ rows'[r].made = rows[r].made
      /\ \A s \in RowIds : s # r => rows'[s] = rows[s]
    OBVIOUS
<1>6. groups[g].out \in {Nobody, v}
    <2> SUFFICES ASSUME groups[g].out # Nobody PROVE groups[g].out = v
        OBVIOUS
    <2>1. HasVideo(groups[g].out) /\ groups[g].out \in VideoIds
        BY <1>3 DEF TablesFit, GroupsFit, OutputFits, TypeOK, Group
    <2>2. groups[g].out \in VideosNamed(n)
        BY <1>3, <2>1 DEF RowFits, VideosNamed
    <2>3. v \in VideosNamed(n)
        BY <1>1, <2>2 DEF Entered
    <2> QED
        BY <2>1, <2>2, <2>3 DEF VideosNamed, TablesFit, NamesFit
<1>9. /\ HasVideo(v)' /\ videos'[v].name = n
      /\ \A w \in VideoIds : HasVideo(w) => videos'[w] = videos[w]
      /\ \A w \in VideoIds : w # v => videos'[w] = videos[w]
      /\ ~HasVideo(v) => VideosNamed(n) = {}
    BY <1>1 DEF Entered
<1> HIDE DEF g
<1>10. Named(n, groups[g].members)
    BY <1>3 DEF RowFits, Named, g
<1>11. Exists(g) /\ groups[g].verified # "none"
    BY <1>3 DEF RowFits, g
<1>12. groups[g].next = Nobody => groups[g].status \notin {"detected", "failed"}
    BY <1>3 DEF TablesFit, GroupsFit, StatusFits, IsRow, g
<1>13. MembersFit'
    BY <1>4 DEF TablesFit, MembersFit, Exists
<1>14. Disjoint'
    <2>1. \A h \in GroupIds : (Holds(h)' <=> Holds(h)) /\ PartsOf(h)' = PartsOf(h)
        BY <1>4 DEF Holds, Exists, PartsOf
    <2> QED
        BY <2>1 DEF TablesFit, Disjoint
<1>15. GroupsFit'
    <2>1. ASSUME NEW h \in GroupIds, h = g PROVE (OutputFits(h) /\ StatusFits(h))'
        BY <1>2, <1>4, <1>9, <1>10, <1>11, <1>12, <2>1 DEF OutputFits, StatusFits, Exists
    <2>2. ASSUME NEW h \in GroupIds, h # g PROVE OutputFits(h)'
        <3>1. groups[h].out \in VideoIds \cup {Nobody}
            BY DEF TypeOK, Group
        <3> QED
            BY <1>4, <1>9, <2>2, <3>1 DEF TablesFit, GroupsFit, OutputFits, Exists, HasVideo
    <2>3. ASSUME NEW h \in GroupIds, h # g PROVE StatusFits(h)'
        <3>1. \A s \in RowIds : IsRow(s)' => IsRow(s) /\ rows'[s].group = rows[s].group
            BY <1>5 DEF IsRow, g
        <3> QED
            BY <1>4, <2>3, <3>1 DEF TablesFit, GroupsFit, StatusFits
    <2> QED
        BY <2>1, <2>2, <2>3 DEF GroupsFit
<1>16. RowsFit'
    <2>1. RowFits(r)'
        <3>1. \A s \in RowIds : IsRow(s)' /\ rows'[s].group = g => s = r
            BY <1>3, <1>5 DEF RowFits, IsRow, g
        <3> QED
            BY <1>2, <1>3, <1>4, <1>5, <1>9, <1>10, <1>11, <3>1 DEF RowFits, Exists, g
    <2>2. ASSUME NEW s \in RowIds, s # r, IsRow(s)' PROVE RowFits(s)'
        <3>1. IsRow(s) /\ RowFits(s) /\ rows[s].group # g
            BY <1>3, <1>5, <2>2 DEF TablesFit, RowsFit, RowFits, IsRow, g
        <3>2. groups[rows[s].group].out # Nobody =>
                  videos'[groups[rows[s].group].out] = videos[groups[rows[s].group].out]
            BY <1>9, <3>1 DEF TablesFit, GroupsFit, OutputFits, RowFits, TypeOK, Group
        <3>3. \A t \in RowIds : IsRow(t)' => IsRow(t) /\ rows'[t].group = rows[t].group
            BY <1>5 DEF IsRow, g
        <3> QED
            BY <1>4, <1>5, <2>2, <3>1, <3>2, <3>3 DEF RowFits, Exists, InForce
    <2> QED
        BY <2>1, <2>2 DEF RowsFit
<1>17. NamesFit'
    <2>1. \A w \in VideoIds : w # v => (HasVideo(w)' <=> HasVideo(w))
        BY <1>9 DEF HasVideo
    <2>2. \A w \in VideoIds : HasVideo(w)' /\ videos'[w].name = n => w = v
        <3> SUFFICES ASSUME NEW w \in VideoIds, w # v, HasVideo(w), videos[w].name = n
                     PROVE  FALSE
            BY <1>9, <2>1
        <3>1. HasVideo(v)
            BY <1>9 DEF VideosNamed
        <3>2. videos[v].name = n
            BY <1>2, <1>9, <3>1
        <3> QED
            BY <1>2, <3>1, <3>2 DEF TablesFit, NamesFit
    <2> QED
        BY <1>9, <2>1, <2>2 DEF TablesFit, NamesFit
<1>18. EveryVideoHasAnOwner'
    <2>1. ASSUME NEW w \in VideoIds, HasVideo(w)', w # v PROVE Pointing(w)' # {}
        <3>1. HasVideo(w)
            BY <1>9, <2>1 DEF HasVideo
        <3>2. PICK h \in GroupIds : Exists(h) /\ groups[h].out = w
            BY <3>1 DEF TablesFit, EveryVideoHasAnOwner, Pointing
        <3>3. h # g
            BY <1>2, <1>6, <2>1, <3>2 DEF VideoIds, Nobody
        <3> QED
            BY <1>4, <3>2, <3>3 DEF Pointing, Exists
    <2>2. Pointing(v)' # {}
        BY <1>3, <1>4, <1>11 DEF Pointing, Exists, g
    <2> QED
        BY <2>1, <2>2 DEF EveryVideoHasAnOwner
<1>19. Stable
    BY <1>4, <1>6, <1>3, <1>10, <1>11 DEF Stable, IsMerged, TablesFit, GroupsFit, StatusFits
<1>20. groups' \in [GroupIds -> Group]
    <2>1. groups[g] \in Group /\ v \in VideoIds \cup {Nobody}
        BY <1>2, <1>3 DEF TypeOK, g
    <2>2. groups'[g] = [groups[g] EXCEPT !.out = v]
        BY <1>1, <1>3 DEF Entered, TypeOK, g
    <2>3. groups'[g] \in Group
        BY <2>1, <2>2 DEF Group
    <2> QED
        BY <1>1, <1>3, <1>4, <2>3 DEF Entered, TypeOK, g
<1>21. videos' \in [VideoIds -> Video]
    <2>1. rows[r].made \in Contents \cup {Nothing}
        BY DEF TypeOK, Row
    <2> QED
        BY <1>1, <2>1 DEF Entered, TypeOK, Video
<1>22. \A h \in GroupIds : /\ groups'[h].status = groups[h].status
                         /\ groups'[h].next = groups[h].next
                         /\ groups'[h].members = groups[h].members
    BY <1>4
<1> QED
    BY <1>13, <1>14, <1>15, <1>16, <1>17, <1>18, <1>19, <1>20, <1>21, <1>22 DEF TablesFit

Before(o, v) == \A h \in Pointing(v) : \/ Rank(o) < Rank(h)
                                       \/ Rank(o) = Rank(h) /\ o <= h

\* The owner is the first of the groups that have the video as their output.
LEMMA OwnerIsFirst ==
    ASSUME NEW v, Pointing(v) # {}
    PROVE  Owner(v) \in Pointing(v) /\ Before(Owner(v), v)
<1>1. \A h \in Pointing(v) : h \in Nat /\ Rank(h) \in {0, 1, 2}
    BY DEF Pointing, GroupIds, Rank
<1>2. PICK rank \in {0, 1, 2} :
          /\ \E h \in Pointing(v) : Rank(h) = rank
          /\ \A h \in Pointing(v) : rank <= Rank(h)
    <2>1. CASE \E h \in Pointing(v) : Rank(h) = 0
        BY <1>1, <2>1
    <2>2. CASE /\ ~\E h \in Pointing(v) : Rank(h) = 0
               /\ \E h \in Pointing(v) : Rank(h) = 1
        BY <1>1, <2>2
    <2>3. CASE ~\E h \in Pointing(v) : Rank(h) \in {0, 1}
        BY <1>1, <2>3
    <2> QED
        BY <2>1, <2>2, <2>3
<1> DEFINE least == {h \in Pointing(v) : Rank(h) = rank}
           less  == {ss \in Nat \X Nat : ss[1] < ss[2]}
<1>3. PICK o \in least : \A h \in least : <<h, o>> \notin less
    <2>1. least \subseteq Nat /\ least # {}
        BY <1>1, <1>2
    <2>2. IsWellFoundedOn(less, Nat)
        BY NatLessThanWellFounded, Zenon DEF OpToRel
    <2> QED
        BY <2>1, <2>2, WFMin, Zenon
<1>4. \A h \in least : o <= h
    <2> SUFFICES ASSUME NEW h \in least PROVE o <= h
        OBVIOUS
    <2>1. h \in Nat /\ o \in Nat /\ <<h, o>> \notin less
        BY <1>1, <1>3
    <2>2. ~(h < o)
        BY <2>1
    <2> QED
        BY <2>1, <2>2
<1>5. Before(o, v)
    BY <1>1, <1>2, <1>3, <1>4 DEF Before
<1> QED
    BY <1>3, <1>5 DEF Owner, Before

\* At most one group in force has a given output: two would share their first
\* part.  It is the owner, and deleting the video discards it.
LEMMA OwnerInForce ==
    ASSUME TypeOK, TablesFit, NEW v \in VideoIds,
           NEW g \in Pointing(v), InForce(g)
    PROVE  Owner(v) = g /\ Rank(g) = 0
<1>1. g \in GroupIds /\ groups[g].out = v /\ Exists(g)
    BY DEF Pointing
<1>2. Rank(g) = 0 /\ Holds(g)
    BY <1>1 DEF Rank, InForce, Holds
<1>3. \A h \in Pointing(v) : Rank(h) \in {0, 1, 2}
    BY DEF Rank
<1>4. ASSUME NEW h \in Pointing(v), Rank(h) = 0 PROVE h = g
    <2>1. h \in GroupIds /\ groups[h].out = v /\ Exists(h) /\ Holds(h)
        BY <1>4 DEF Pointing, Rank, Holds
    <2>2. v # Nobody
        BY DEF VideoIds, Nobody
    <2>3. groups[g].members[1] = groups[h].members[1]
        BY <1>1, <2>1, <2>2 DEF TablesFit, GroupsFit, OutputFits, Named
    <2>4. /\ groups[g].members \in Seq(PartIds) /\ groups[g].members # <<>>
          /\ groups[h].members \in Seq(PartIds) /\ groups[h].members # <<>>
        BY <1>1, <2>1 DEF TypeOK, Group, TablesFit, MembersFit
    <2>5. groups[g].members[1] \in PartsOf(g) \cap PartsOf(h)
        BY <2>3, <2>4, Ends DEF PartsOf, InList
    <2> QED
        BY <1>1, <1>2, <2>1, <2>5 DEF TablesFit, Disjoint
<1>5. \A h \in Pointing(v) : Rank(g) < Rank(h) \/ (Rank(g) = Rank(h) /\ g <= h)
    <2> SUFFICES ASSUME NEW h \in Pointing(v)
                 PROVE  Rank(g) < Rank(h) \/ (Rank(g) = Rank(h) /\ g <= h)
        OBVIOUS
    <2>1. CASE Rank(h) = 0
        BY <1>1, <1>2, <1>4, <2>1 DEF GroupIds
    <2>2. CASE Rank(h) # 0
        BY <1>2, <1>3, <2>2
    <2> QED
        BY <2>1, <2>2
<1>6. Owner(v) \in Pointing(v) /\ Before(Owner(v), v)
    BY <1>5, OwnerIsFirst DEF Before
<1>7. Rank(Owner(v)) = 0
    BY <1>2, <1>3, <1>6 DEF Before
<1> QED
    BY <1>2, <1>4, <1>6, <1>7

\* A video is deleted: nobody has it any more, and who had it in force is
\* discarded.
LEMMA DeleteTables ==
    ASSUME TypeOK, TablesFit, NEW v \in VideoIds, DeleteVideo(v)
    PROVE  /\ TablesFit' /\ Stable
           /\ groups' \in [GroupIds -> Group]
           /\ \A g \in GroupIds :
                 /\ groups'[g].members = groups[g].members
                 /\ groups'[g].next = groups[g].next
                 /\ groups'[g].verified = groups[g].verified
                 /\ groups'[g].out \in {groups[g].out, Nobody}
                 /\ Exists(g)' <=> Exists(g)
                 /\ groups'[g].status \in {groups[g].status, "skipped"}
<1> DEFINE New(g) ==
        LET kept == IF g = Owner(v) /\ Rank(g) = 0
                    THEN [groups[g] EXCEPT !.status = "skipped"] ELSE groups[g]
        IN IF g \in Pointing(v) THEN [kept EXCEPT !.out = Nobody] ELSE kept
<1>1. groups' = [g \in GroupIds |-> New(g)] /\ UNCHANGED rows
      /\ videos' = [videos EXCEPT ![v] = NoVideo]
    BY DEF DeleteVideo
<1>2. ASSUME NEW g \in GroupIds
      PROVE  /\ groups'[g] \in Group
             /\ groups'[g].members = groups[g].members
             /\ groups'[g].rev = groups[g].rev
             /\ groups'[g].next = groups[g].next
             /\ groups'[g].verified = groups[g].verified
             /\ groups'[g].out = IF groups[g].out = v THEN Nobody ELSE groups[g].out
             /\ Exists(g)' <=> Exists(g)
             /\ groups'[g].status \in {groups[g].status, "skipped"}
             /\ groups[g].out = v /\ InForce(g) => groups'[g].status = "skipped"
    <2>1. groups[g] \in Group /\ groups'[g] = New(g)
        BY <1>1, <1>2 DEF TypeOK
    <2>2. g \in Pointing(v) <=> groups[g].out = v
        BY <1>2 DEF Pointing, TablesFit, GroupsFit, OutputFits, VideoIds, Nobody
    <2>3. groups[g].out = v /\ InForce(g) => g = Owner(v) /\ Rank(g) = 0
        BY <2>2, OwnerInForce
    <2>4. g = Owner(v) /\ Rank(g) = 0 => groups[g].status # "absent"
        BY OwnerIsFirst DEF DeleteVideo, Deletable, Pointing, Exists
    <2> QED
        BY <2>1, <2>2, <2>3, <2>4 DEF Group, Statuses, Exists
<1>3. groups' \in [GroupIds -> Group]
    BY <1>1, <1>2
<1>4. \A w \in VideoIds : w # v => videos'[w] = videos[w]
    BY <1>1 DEF TypeOK
<1>5. videos'[v] = NoVideo
    BY <1>1 DEF TypeOK
<1> HIDE DEF New
<1>6. MembersFit'
    BY <1>2 DEF TablesFit, MembersFit
<1>7. Disjoint'
    <2>1. \A g \in GroupIds : (Holds(g)' => Holds(g)) /\ PartsOf(g)' = PartsOf(g)
        BY <1>2 DEF Holds, Exists, PartsOf
    <2> QED
        BY <2>1 DEF TablesFit, Disjoint
<1>8. ASSUME NEW g \in GroupIds PROVE OutputFits(g)'
    <2> SUFFICES ASSUME groups'[g].out # Nobody PROVE OutputFits(g)'
        BY DEF OutputFits
    <2>1. groups'[g].out = groups[g].out /\ groups[g].out # v
        BY <1>2
    <2>2. OutputFits(g) /\ groups[g].out \in VideoIds
        BY <2>1 DEF TablesFit, GroupsFit, TypeOK, Group
    <2> QED
        BY <1>2, <1>4, <2>1, <2>2 DEF OutputFits, HasVideo
<1>9. ASSUME NEW g \in GroupIds PROVE StatusFits(g)'
    <2> SUFFICES ASSUME groups'[g].next = Nobody PROVE StatusFits(g)'
        BY DEF StatusFits
    <2>1. StatusFits(g) /\ groups[g].next = Nobody
        BY <1>2 DEF TablesFit, GroupsFit
    <2>2. groups'[g].status # "skipped" => groups'[g].status = groups[g].status
        BY <1>2
    <2>3. groups'[g].status = "merged" => groups'[g].out # Nobody
        BY <1>2, <2>1, <2>2 DEF StatusFits, InForce
    <2>4. groups'[g].status \in {"detected", "failed"} =>
              groups'[g].out = Nobody /\ \A r \in RowIds : IsRow(r) => rows[r].group # g
        BY <1>2, <2>1, <2>2 DEF StatusFits
    <2> QED
        BY <1>1, <2>3, <2>4 DEF StatusFits, IsRow
<1>10. RowsFit'
    <2> SUFFICES ASSUME NEW r \in RowIds, IsRow(r)' PROVE RowFits(r)'
        BY DEF RowsFit
    <2>1. PICK g \in GroupIds : rows[r].group = g /\ RowFits(r)
        BY <1>1 DEF TablesFit, RowsFit, RowFits, IsRow
    <2>2. \A s \in RowIds : IsRow(s)' /\ rows'[s].group = g => s = r
        BY <1>1, <2>1 DEF RowFits, IsRow
    <2>3. groups'[g].out # Nobody =>
              rows[r].state = "published" /\ videos'[groups'[g].out].name = rows[r].name
        <3> SUFFICES ASSUME groups'[g].out # Nobody
                     PROVE  /\ rows[r].state = "published"
                            /\ videos'[groups'[g].out].name = rows[r].name
            OBVIOUS
        <3>1. groups'[g].out = groups[g].out /\ groups[g].out # v
            BY <1>2, <2>1
        <3>2. groups[g].out \in VideoIds
            BY <2>1, <3>1 DEF TypeOK, Group
        <3> QED
            BY <1>4, <2>1, <3>1, <3>2 DEF RowFits
    <2>4. rows[r].state = "published" /\ InForce(g)' => groups'[g].out # Nobody
        <3>1. InForce(g)' => InForce(g) /\ groups[g].out # v
            BY <1>2 DEF InForce
        <3>2. groups[g].out # v => groups'[g].out = groups[g].out
            BY <1>2
        <3> QED
            BY <2>1, <3>1, <3>2 DEF RowFits
    <2> QED
        BY <1>1, <1>2, <2>1, <2>2, <2>3, <2>4 DEF RowFits
<1>11. NamesFit'
    BY <1>4, <1>5 DEF TablesFit, NamesFit, HasVideo
<1>12. EveryVideoHasAnOwner'
    <2> SUFFICES ASSUME NEW w \in VideoIds, HasVideo(w)' PROVE Pointing(w)' # {}
        BY DEF EveryVideoHasAnOwner
    <2>1. w # v /\ HasVideo(w)
        BY <1>4, <1>5 DEF HasVideo
    <2>2. PICK g \in GroupIds : Exists(g) /\ groups[g].out = w
        BY <2>1 DEF TablesFit, EveryVideoHasAnOwner, Pointing
    <2>3. Exists(g)' /\ groups'[g].out = w
        BY <1>2, <2>1, <2>2
    <2> QED
        BY <2>3 DEF Pointing
<1>13. Stable
    <2> SUFFICES ASSUME NEW g \in GroupIds, IsMerged(g), groups'[g].status = "merged"
                 PROVE  groups'[g].out = groups[g].out
        BY DEF Stable
    <2> QED
        BY <1>2 DEF IsMerged, InForce
<1> QED
    BY <1>2, <1>3, <1>6, <1>7, <1>8, <1>9, <1>10, <1>11, <1>12, <1>13 DEF TablesFit, GroupsFit

-----------------------------------------------------------------------------
(* Steps that leave the tables alone                                       *)

LEMMA PayKeepsBudget ==
    ASSUME TypeOK, NEW e \in Expenses, Pay(e)
    PROVE  budget' \in [Expenses -> Nat]
BY DEF TypeOK, Pay

\* Nothing the invariant speaks of changes but the request and the types.
LEMMA QuietStep ==
    ASSUME IInv, TypeOK', RequestFits', UNCHANGED <<groups, videos, rows, job>>
    PROVE  Kept
<1>1. TablesFit' /\ Stable
    BY QuietTables DEF IInv
<1>2. WritingFits' /\ JobFits' /\ MergingFits'
    BY DEF IInv, WritingFits, JobFits, MergingFits, InForce, Exists, IsRow
<1> QED
    BY <1>1, <1>2 DEF Kept, IInv

LEMMA ComputeDigestStep ==
    ASSUME IInv, ComputeDigest
    PROVE  Kept
<1>1. PICK list \in Lists :
          \/ request' = [NoRequest EXCEPT !.kind = "create", !.list = list,
                                          !.digest = revision]
          \/ \E g \in GroupIds :
                request' = [kind |-> "regroup", group |-> g, list |-> list,
                            digest |-> revision]
    BY DEF ComputeDigest
<1>2. list \in Seq(PartIds)
    BY ListsAreLists
<1>3. revision \in 0..MaxRevisions
    BY Constants DEF IInv, TypeOK
<1>4. request' \in Request /\ RequestFits'
    <2>1. CASE request' = [NoRequest EXCEPT !.kind = "create", !.list = list,
                                            !.digest = revision]
        BY <1>2, <1>3, <2>1, EmptyRecords DEF Request, RequestFits
    <2>2. ASSUME NEW g \in GroupIds,
                 request' = [kind |-> "regroup", group |-> g, list |-> list,
                             digest |-> revision]
          PROVE  request' \in Request /\ RequestFits'
        BY <1>2, <1>3, <2>2 DEF Request, RequestFits
    <2> QED
        BY <1>1, <2>1, <2>2
<1>5. TypeOK'
    BY <1>4, PayKeepsBudget DEF IInv, TypeOK, ComputeDigest, Expenses
<1> QED
    BY <1>4, <1>5, QuietStep DEF ComputeDigest

LEMMA SaveProfileStep ==
    ASSUME IInv, SaveProfile
    PROVE  Kept
<1>1. revision' \in 1..MaxRevisions
    BY Constants DEF IInv, TypeOK, SaveProfile
<1>2. TypeOK'
    BY <1>1, PayKeepsBudget DEF IInv, TypeOK, SaveProfile, Expenses
<1> QED
    BY <1>2, QuietStep DEF IInv, RequestFits, SaveProfile

LEMMA UnlinkStep ==
    ASSUME IInv, NEW n \in Names, Unlink(n)
    PROVE  Kept
<1>1. TypeOK'
    BY DEF IInv, TypeOK, Unlink
<1> QED
    BY <1>1, QuietStep DEF IInv, RequestFits, Unlink

LEMMA LoseStep ==
    ASSUME IInv, NEW n \in Names, Lose(n)
    PROVE  Kept
<1>1. TypeOK'
    BY PayKeepsBudget DEF IInv, TypeOK, Lose, Expenses
<1> QED
    BY <1>1, QuietStep DEF IInv, RequestFits, Lose

LEMMA UploadStep ==
    ASSUME IInv, NEW m \in MediaIds, Upload(m)
    PROVE  Kept
<1>1. PICK move \in UploadMoves : upload' = [upload EXCEPT ![m] = move[2]]
    BY DEF Upload
<1>2. upload' \in [MediaIds -> Sent]
    BY <1>1 DEF IInv, TypeOK, UploadMoves, Sent
<1>3. TypeOK'
    BY <1>2, PayKeepsBudget DEF IInv, TypeOK, Upload, Expenses
<1> QED
    BY <1>3, QuietStep DEF IInv, RequestFits, Upload

\* The worker goes on to a job that holds no group, or to none.
LEMMA StartDetectStep ==
    ASSUME IInv, StartDetect
    PROVE  Kept
<1>1. PICK rev \in 1..revision : \E s \in Candidates({p \in PartIds : Taken(p)}) :
          job' = [NoJob EXCEPT !.pc = "detecting", !.rev = rev, !.todo = s]
    BY DEF StartDetect
<1>2. PICK s \in Candidates({p \in PartIds : Taken(p)}) :
          job' = [NoJob EXCEPT !.pc = "detecting", !.rev = rev, !.todo = s]
    BY <1>1
<1>3. s \in Seq(Seq(PartIds)) /\ \A i \in 1..Len(s) : s[i] # <<>>
    BY CandidatesAreLists
<1>4. rev \in 0..MaxRevisions /\ rev # 0
    BY Constants DEF IInv, TypeOK
<1>5. /\ job' \in Job /\ job'.pc = "detecting" /\ job'.rev = rev /\ job'.todo = s
    BY <1>2, <1>3, <1>4, EmptyRecords DEF Job, PCs
<1>6. TypeOK'
    BY <1>5, PayKeepsBudget DEF IInv, TypeOK, StartDetect, Expenses
<1>7. TablesFit' /\ Stable
    BY QuietTables DEF IInv, StartDetect
<1>8. WritingFits' /\ MergingFits' /\ RequestFits'
    BY <1>5 DEF IInv, WritingFits, MergingFits, RequestFits, StartDetect
<1>9. JobFits'
    BY <1>3, <1>4, <1>5 DEF JobFits, Joining, Publishing, Merging
<1> QED
    BY <1>6, <1>7, <1>8, <1>9 DEF Kept, IInv

LEMMA IdleJob ==
    ASSUME Idle
    PROVE  job' \in Job /\ job'.pc = "idle" /\ JobFits'
<1>1. job' \in Job /\ job'.pc = "idle"
    BY EmptyRecords DEF Idle, NoJob
<1> QED
    BY <1>1 DEF JobFits, Joining, Publishing, Merging

LEMMA PublishInterruptedStep ==
    ASSUME IInv, PublishInterrupted
    PROVE  Kept
<1>1. job' \in Job /\ job'.pc = "idle" /\ JobFits'
    BY IdleJob DEF PublishInterrupted
<1>2. TypeOK'
    BY <1>1, PayKeepsBudget DEF IInv, TypeOK, PublishInterrupted, Expenses
<1>3. TablesFit' /\ Stable
    BY QuietTables DEF IInv, PublishInterrupted
<1>4. WritingFits' /\ RequestFits'
    BY DEF IInv, WritingFits, RequestFits, PublishInterrupted
<1>5. MergingFits'
    BY DEF IInv, MergingFits, PublishInterrupted
<1> QED
    BY <1>1, <1>2, <1>3, <1>4, <1>5 DEF Kept, IInv

LEMMA RestartStep ==
    ASSUME IInv, Restart
    PROVE  Kept
<1>1. /\ job' \in Job /\ job'.pc = "recovering"
      /\ \A r \in RowIds : rows[r].state = "writing" => r \in job'.rows
    <2>1. Recoverable \in SUBSET RowIds
        BY DEF Recoverable
    <2>2. \A r \in RowIds : rows[r].state = "writing" => r \in Recoverable
        BY DEF Recoverable
    <2> QED
        BY <2>1, <2>2, EmptyRecords DEF Restart, Job, PCs
<1>2. request' \in Request /\ request'.kind = "none"
    BY EmptyRecords DEF Restart, NoRequest
<1>3. TypeOK'
    BY <1>1, <1>2, PayKeepsBudget DEF IInv, TypeOK, Restart, Expenses
<1>4. TablesFit' /\ Stable
    BY QuietTables DEF IInv, Restart
<1>5. WritingFits' /\ MergingFits' /\ RequestFits'
    BY <1>1, <1>2 DEF WritingFits, MergingFits, RequestFits, Restart
<1>6. JobFits'
    BY <1>1 DEF JobFits, Joining, Publishing, Merging
<1> QED
    BY <1>3, <1>4, <1>5, <1>6 DEF Kept, IInv

\* The recovery has dealt with a row.
LEMMA RecoveredRow ==
    ASSUME IInv, NEW r \in RowIds, job.pc = "recovering", Recovered(r)
    PROVE  /\ job' \in Job /\ job'.pc = "recovering" /\ job'.rows = job.rows \ {r}
           /\ JobFits'
<1>1. job' \in Job /\ job'.pc = "recovering" /\ job'.rows = job.rows \ {r}
    BY DEF IInv, TypeOK, Job, Recovered
<1> QED
    BY <1>1 DEF JobFits, Joining, Publishing, Merging

LEMMA ResumeFailsStep ==
    ASSUME IInv, NEW r \in RowIds, ResumeFails(r)
    PROVE  Kept
<1>1. /\ job' \in Job /\ job'.pc = "recovering" /\ job'.rows = job.rows \ {r}
      /\ JobFits'
    BY RecoveredRow DEF ResumeFails
<1>2. budget' \in [Expenses -> Nat]
    BY PayKeepsBudget DEF IInv, TypeOK, ResumeFails, Expenses
<1>3. TypeOK'
    BY <1>1, <1>2 DEF IInv, TypeOK, ResumeFails
<1>4. TablesFit' /\ Stable
    BY QuietTables DEF IInv, ResumeFails
<1>5. WritingFits' /\ MergingFits' /\ RequestFits'
    BY <1>1 DEF IInv, WritingFits, MergingFits, RequestFits, ResumeFails
<1> QED
    BY <1>1, <1>3, <1>4, <1>5 DEF Kept, IInv

-----------------------------------------------------------------------------
(* Steps of the merge job                                                  *)

\* One group gets another status.
LEMMA OneStatus ==
    ASSUME IInv, NEW g \in GroupIds, NEW status \in Statuses,
           groups' = [groups EXCEPT ![g].status = status],
           status = "absent" <=> groups[g].status = "absent",
           groups[g].status = "skipped" => status = "skipped"
    PROVE  /\ groups' \in [GroupIds -> Group]
           /\ \A h \in GroupIds : GroupKept(h)
           /\ \A h \in GroupIds : h # g => groups'[h] = groups[h]
           /\ groups'[g].status = status
<1>1. groups \in [GroupIds -> Group] /\ groups[g] \in Group
    BY DEF IInv, TypeOK
<1>2. groups'[g] = [groups[g] EXCEPT !.status = status]
    BY <1>1
<1>3. groups'[g] \in Group
    BY <1>1, <1>2 DEF Group
<1>4. \A h \in GroupIds : h # g => groups'[h] = groups[h]
    BY <1>1
<1>5. groups' \in [GroupIds -> Group]
    BY <1>1, <1>3, <1>4
<1>6. /\ groups'[g].status = status /\ groups'[g].verified = groups[g].verified
      /\ groups'[g].members = groups[g].members /\ groups'[g].rev = groups[g].rev
      /\ groups'[g].out = groups[g].out /\ groups'[g].next = groups[g].next
      /\ groups'[g].digest = groups[g].digest
    BY <1>1, <1>2 DEF Group
<1> QED
    BY <1>4, <1>5, <1>6 DEF GroupKept

\* The job leaves its group: it lets it go with a status, where it still is
\* its own.
LEMMA LeaveGroup ==
    ASSUME IInv, NEW g \in GroupIds, NEW target \in {"detected", "failed", "merged"},
           Leave(g, target)
    PROVE  /\ groups' \in [GroupIds -> Group]
           /\ \A h \in GroupIds : GroupKept(h)
           /\ \A h \in GroupIds : h # g => groups'[h] = groups[h]
           /\ groups'[g].status # "merging" \/ groups'[g].next # Nobody
           /\ groups'[g].status = groups[g].status \/ groups'[g].status = target
<1>1. CASE groups[g].status = "merging" /\ groups[g].next = Nobody
    <2>1. groups' = [groups EXCEPT ![g].status = target]
        BY <1>1 DEF Leave
    <2> QED
        BY <1>1, <2>1, OneStatus DEF Statuses
<1>2. CASE ~(groups[g].status = "merging" /\ groups[g].next = Nobody)
    <2>1. UNCHANGED groups
        BY <1>2 DEF Leave
    <2> QED
        BY <1>2, <2>1 DEF IInv, TypeOK, GroupKept
<1> QED
    BY <1>1, <1>2

\* The job ends before anything was staged, or after the commit.
LEMMA JobEnds ==
    ASSUME IInv, Idle, job.pc \in Joining \cup {"writing", "committed"},
           NEW target \in {"detected", "failed", "merged"}, Leave(job.group, target),
           target = "merged" <=> job.pc = "committed",
           IF job.pc = "writing" THEN rows' = [rows EXCEPT ![job.row] = NoRow]
                                 ELSE UNCHANGED rows,
           UNCHANGED <<videos, files, upload, revision, request, unlinking>>,
           budget' \in [Expenses -> Nat]
    PROVE  Kept
<1>1. PICK g \in GroupIds : g = job.group
    BY DEF IInv, JobFits, Merging, Publishing
<1>2. /\ groups' \in [GroupIds -> Group]
      /\ \A h \in GroupIds : GroupKept(h)
      /\ \A h \in GroupIds : h # g => groups'[h] = groups[h]
      /\ groups'[g].status # "merging" \/ groups'[g].next # Nobody
      /\ groups'[g].status = groups[g].status \/ groups'[g].status = target
    BY <1>1, LeaveGroup
<1>3. job' \in Job /\ job'.pc = "idle" /\ JobFits'
    BY IdleJob
<1>4. /\ rows' \in [RowIds -> Row]
      /\ \A r \in RowIds : rows'[r] = rows[r] \/ rows'[r].state = "absent"
      /\ \A r \in RowIds : rows[r].state # "writing" => rows'[r] = rows[r]
      /\ \A r \in RowIds : rows'[r].state # "writing"
    <2>1. CASE job.pc = "writing"
        <3>1. job.row \in RowIds /\ rows[job.row].state = "writing"
            BY <2>1 DEF IInv, JobFits, Publishing
        <3>2. \A r \in RowIds : rows[r].state = "writing" => r = job.row
            BY <2>1 DEF IInv, WritingFits
        <3>3. NoRow \in Row /\ NoRow.state = "absent"
            BY EmptyRecords DEF NoRow
        <3> QED
            BY <2>1, <3>1, <3>2, <3>3 DEF IInv, TypeOK
    <2>2. CASE job.pc # "writing"
        BY <2>2 DEF IInv, WritingFits, TypeOK, Joining
    <2> QED
        BY <2>1, <2>2
<1>5. TypeOK'
    BY <1>2, <1>3, <1>4 DEF IInv, TypeOK
<1>6. groups[g].next = Nobody => StatusEarned(g)
    <2> SUFFICES ASSUME groups[g].next = Nobody, groups'[g].status # groups[g].status
                 PROVE  StatusEarned(g)
        BY <1>4 DEF IInv, TablesFit, GroupsFit, StatusFits, StatusEarned, IsRow
    <2>1. groups'[g].status = target /\ InForce(g)
        BY <1>1, <1>2 DEF Leave, InForce
    <2>2. CASE job.pc = "committed"
        <3>1. job.row \in RowIds /\ rows[job.row].group = g /\ rows[job.row].state = "published"
            BY <1>1, <2>2 DEF IInv, JobFits
        <3>2. groups[g].out # Nobody
            BY <2>1, <3>1 DEF IInv, TablesFit, RowsFit, RowFits, IsRow
        <3> QED
            BY <2>1, <2>2, <3>2 DEF StatusEarned
    <2>3. CASE job.pc # "committed"
        <3>1. groups[g].out = Nobody
            BY <1>1, <2>3 DEF IInv, JobFits, Publishing
        <3>2. ASSUME NEW r \in RowIds, IsRow(r)' PROVE rows[r].group # g
            <4>1. rows'[r] = rows[r] /\ IsRow(r) /\ rows[r].state # "writing"
                BY <1>4, <3>2 DEF IsRow
            <4>2. CASE job.pc \in Joining
                BY <1>1, <4>1, <4>2 DEF IInv, JobFits
            <4>3. CASE job.pc = "writing"
                <5>1. /\ job.row \in RowIds /\ rows[job.row].group = g
                      /\ rows[job.row].state = "writing"
                    BY <1>1, <4>3 DEF IInv, JobFits, Publishing
                <5>2. RowFits(job.row)
                    BY <5>1 DEF IInv, TablesFit, RowsFit, IsRow
                <5> QED
                    BY <4>1, <5>1, <5>2 DEF RowFits
            <4> QED
                BY <2>3, <4>2, <4>3
        <3> QED
            BY <2>1, <2>3, <3>1, <3>2 DEF StatusEarned
    <2> QED
        BY <2>2, <2>3
<1>7. \A h \in GroupIds : groups[h].next = Nobody => StatusEarned(h)
    <2> SUFFICES ASSUME NEW h \in GroupIds, groups[h].next = Nobody, h # g
                 PROVE  StatusEarned(h)
        BY <1>6
    <2> QED
        BY <1>2, <1>4 DEF IInv, TablesFit, GroupsFit, StatusFits, StatusEarned, IsRow
<1>8. TablesFit' /\ Stable
    BY <1>2, <1>4, <1>7, StatusTables DEF IInv
<1>9. WritingFits' /\ RequestFits'
    BY <1>4 DEF IInv, WritingFits, RequestFits
<1>10. MergingFits'
    <2> SUFFICES ASSUME NEW h \in GroupIds, groups'[h].status = "merging",
                        groups'[h].next = Nobody
                 PROVE  \E r \in RowIds : rows'[r].state = "staged" /\ rows'[r].group = h
        BY DEF MergingFits
    <2>1. h # g /\ groups[h].status = "merging" /\ groups[h].next = Nobody
        BY <1>2
    <2>2. PICK r \in RowIds : rows[r].state = "staged" /\ rows[r].group = h
        BY <1>1, <2>1 DEF IInv, MergingFits, Joining
    <2> QED
        BY <1>4, <2>2
<1> QED
    BY <1>3, <1>5, <1>8, <1>9, <1>10 DEF Kept, IInv

LEMMA MergeFailsStep ==
    ASSUME IInv, MergeFails
    PROVE  Kept
<1>1. budget' \in [Expenses -> Nat]
    BY PayKeepsBudget DEF IInv, MergeFails, Expenses
<1> QED
    BY <1>1, JobEnds DEF MergeFails, Joining

LEMMA MergeCancelledStep ==
    ASSUME IInv, MergeCancelled
    PROVE  Kept
<1>1. budget' \in [Expenses -> Nat]
    BY PayKeepsBudget DEF IInv, MergeCancelled, Expenses
<1> QED
    BY <1>1, JobEnds DEF MergeCancelled, Joining

LEMMA StagingFailsStep ==
    ASSUME IInv, StagingFails
    PROVE  Kept
<1>1. budget' \in [Expenses -> Nat]
    BY PayKeepsBudget DEF IInv, StagingFails, Expenses
<1> QED
    BY <1>1, JobEnds DEF StagingFails, Joining

LEMMA MarkMergedStep ==
    ASSUME IInv, MarkMerged
    PROVE  Kept
<1> DEFINE g == job.group
<1>1. g \in GroupIds /\ job.row \in RowIds /\ rows[job.row].group = g
      /\ rows[job.row].state = "published"
    BY DEF IInv, JobFits, MarkMerged, Merging
<1>2. groups[g].status = "merging" /\ groups[g].next = Nobody =>
          groups[g].out # Nobody /\ groups[g].verified # "none"
    BY <1>1 DEF IInv, TablesFit, RowsFit, RowFits, IsRow, InForce
<1>3. Leave(g, "merged")
    BY <1>2 DEF MarkMerged, Leave
<1>4. budget' \in [Expenses -> Nat]
    BY DEF IInv, TypeOK, MarkMerged
<1> QED
    BY <1>3, <1>4, JobEnds DEF MarkMerged, Joining

LEMMA StartMergeStep ==
    ASSUME IInv, NEW g \in GroupIds, StartMerge(g)
    PROVE  Kept
<1>1. groups[g] \in Group /\ Holds(g) /\ groups[g].status \in {"detected", "failed"}
    BY DEF IInv, TypeOK, StartMerge
<1>2. /\ groups' \in [GroupIds -> Group]
      /\ \A h \in GroupIds : GroupKept(h)
      /\ \A h \in GroupIds : h # g => groups'[h] = groups[h]
      /\ groups'[g].status = "merging"
    BY <1>1, OneStatus DEF StartMerge, Statuses
<1>3. /\ groups[g].out = Nobody
      /\ \A r \in RowIds : IsRow(r) => rows[r].group # g
    BY <1>1 DEF Holds, IInv, TablesFit, GroupsFit, StatusFits
<1>4. groups[g].rev \in 0..MaxRevisions /\ groups[g].rev # 0
    BY <1>1 DEF Group, Holds, IInv, TablesFit, MembersFit
<1>5. /\ job' \in Job /\ job'.pc = "joining" /\ job'.group = g
      /\ job'.rev = groups[g].rev
    BY <1>4, EmptyRecords DEF StartMerge, Job, PCs
<1>6. TypeOK'
    BY <1>2, <1>5, PayKeepsBudget DEF IInv, TypeOK, StartMerge, Expenses
<1>7. \A h \in GroupIds : groups[h].next = Nobody => StatusEarned(h)
    BY <1>2 DEF IInv, TablesFit, GroupsFit, StatusFits, StatusEarned, IsRow
<1>8. TablesFit' /\ Stable
    BY <1>2, <1>7, StatusTables DEF IInv, StartMerge
<1>9. WritingFits' /\ RequestFits'
    BY DEF IInv, WritingFits, RequestFits, StartMerge
<1>10. JobFits'
    <2>1. Exists(g)' /\ groups'[g].out = Nobody
        BY <1>1, <1>2, <1>3 DEF GroupKept, Holds, Exists
    <2> QED
        BY <1>2, <1>3, <1>4, <1>5, <2>1
        DEF JobFits, Joining, Publishing, Merging, StartMerge, IsRow
<1>11. MergingFits'
    BY <1>2, <1>5 DEF IInv, MergingFits, StartMerge
<1> QED
    BY <1>6, <1>8, <1>9, <1>10, <1>11 DEF Kept, IInv

LEMMA RecordVerificationStep ==
    ASSUME IInv, RecordVerification
    PROVE  Kept
<1>1. PICK g \in GroupIds : g = job.group
    BY DEF IInv, JobFits, RecordVerification, Joining, Merging
<1>2. CASE ~(groups[g].status = "merging" /\ groups[g].next = Nobody)
    <2>1. Leave(g, "failed") /\ Idle
        BY <1>1, <1>2 DEF RecordVerification
    <2>2. budget' \in [Expenses -> Nat]
        BY DEF IInv, TypeOK, RecordVerification
    <2> QED
        BY <1>1, <2>1, <2>2, JobEnds DEF RecordVerification, Joining
<1>3. CASE groups[g].status = "merging" /\ groups[g].next = Nobody
    <2>1. PICK verdict \in {"passed", "failed"}, take \in 1..Takes :
              /\ groups' = [groups EXCEPT ![g].verified = verdict]
              /\ job' = [job EXCEPT !.pc = "verified",
                                    !.made = [of |-> groups[g].members,
                                              rev |-> job.rev, take |-> take]]
        BY <1>1, <1>3 DEF RecordVerification
    <2>2. groups[g] \in Group
        BY DEF IInv, TypeOK
    <2>3. /\ groups'[g] \in Group /\ groups'[g].verified = verdict
          /\ groups'[g].status = groups[g].status /\ GroupKept(g)
          /\ groups'[g].members = groups[g].members /\ groups'[g].out = groups[g].out
        <3>1. groups'[g] = [groups[g] EXCEPT !.verified = verdict]
            BY <2>1 DEF IInv, TypeOK
        <3> QED
            BY <2>2, <3>1 DEF Group, GroupKept
    <2>4. \A h \in GroupIds : h # g => groups'[h] = groups[h]
        BY <2>1 DEF IInv, TypeOK
    <2>5. groups' \in [GroupIds -> Group] /\ \A h \in GroupIds : GroupKept(h)
        BY <2>1, <2>3, <2>4 DEF IInv, TypeOK, GroupKept
    <2>6. job.rev \in 1..MaxRevisions /\ groups[g].members \in Seq(PartIds)
        <3>1. job.rev \in 0..MaxRevisions
            BY DEF IInv, TypeOK, Job
        <3>2. job.rev # 0
            BY DEF IInv, JobFits, RecordVerification
        <3> QED
            BY <2>2, <3>1, <3>2, Constants DEF Group
    <2>7. /\ job' \in Job /\ job'.pc = "verified" /\ job'.group = g
          /\ job'.made.of = groups[g].members
        <3> DEFINE made == [of |-> groups[g].members, rev |-> job.rev, take |-> take]
        <3>1. made \in Contents
            BY <2>6 DEF Contents
        <3> HIDE DEF made
        <3>2. job' \in Job /\ job'.pc = "verified" /\ job'.group = g /\ job'.made = made
            BY <1>1, <2>1, <3>1 DEF IInv, TypeOK, Job, PCs, made
        <3> QED
            BY <3>2 DEF made
    <2>8. TypeOK'
        BY <2>5, <2>7 DEF IInv, TypeOK, RecordVerification
    <2>9. \A h \in GroupIds : groups[h].next = Nobody => StatusEarned(h)
        BY <2>3, <2>4 DEF IInv, TablesFit, GroupsFit, StatusFits, StatusEarned, IsRow,
           RecordVerification
    <2>10. TablesFit' /\ Stable
        BY <2>5, <2>9, StatusTables DEF IInv, RecordVerification
    <2>11. WritingFits' /\ RequestFits'
        BY DEF IInv, WritingFits, RequestFits, RecordVerification
    <2>12. JobFits'
        <3>1. Exists(g)' /\ groups'[g].out = Nobody /\ groups'[g].verified # "none"
            BY <1>1, <1>3, <2>3 DEF IInv, JobFits, Joining, Exists, RecordVerification
        <3>2. \A r \in RowIds : IsRow(r)' => rows'[r].group # g
            BY <1>1 DEF IInv, JobFits, Joining, IsRow, RecordVerification
        <3> QED
            BY <1>3, <2>3, <2>7, <3>1, <3>2 DEF JobFits, Joining, Publishing, Merging
    <2>13. MergingFits'
        BY <1>1, <2>3, <2>4, <2>7 DEF IInv, MergingFits, RecordVerification
    <2> QED
        BY <2>8, <2>10, <2>11, <2>12, <2>13 DEF Kept, IInv
<1> QED
    BY <1>2, <1>3

LEMMA InsertRowStep ==
    ASSUME IInv, InsertRow
    PROVE  Kept
<1>1. PICK r \in FreeRow :
          /\ rows' = [rows EXCEPT ![r] = [NoRow EXCEPT !.state = "writing",
                                                       !.group = job.group,
                                                       !.temp = TRUE]]
          /\ job' = [job EXCEPT !.pc = "writing", !.row = r]
    BY DEF InsertRow
<1>2. PICK g \in GroupIds : g = job.group
    BY DEF IInv, JobFits, InsertRow, Joining, Merging
<1>3. r \in RowIds /\ rows[r].state = "absent"
    BY <1>1 DEF FreeRow
<1>4. /\ rows' \in [RowIds -> Row]
      /\ rows'[r].state = "writing" /\ rows'[r].group = g
      /\ \A s \in RowIds : s # r => rows'[s] = rows[s]
    <2> DEFINE new == [NoRow EXCEPT !.state = "writing", !.group = g, !.temp = TRUE]
    <2>1. new \in Row /\ new.state = "writing" /\ new.group = g
        BY EmptyRecords DEF Row
    <2>2. rows' = [rows EXCEPT ![r] = new]
        BY <1>1, <1>2
    <2> HIDE DEF new
    <2> QED
        BY <1>3, <2>1, <2>2 DEF IInv, TypeOK
<1>5. /\ job' \in Job /\ job'.pc = "writing" /\ job'.row = r /\ job'.group = g
      /\ job'.made = job.made
    BY <1>1, <1>2, <1>3 DEF IInv, TypeOK, Job, PCs
<1>6. TypeOK'
    BY <1>4, <1>5 DEF IInv, TypeOK, InsertRow
<1>7. /\ Exists(g) /\ groups[g].verified # "none" /\ groups[g].out = Nobody
      /\ InForce(g) => groups[g].status = "merging"
      /\ job.made.of = groups[g].members
      /\ \A s \in RowIds : IsRow(s) => rows[s].group # g
    BY <1>2 DEF IInv, JobFits, InsertRow, Joining, Merging
<1>8. TablesFit' /\ Stable
    <2>1. groups[g].next = Nobody => groups[g].status \notin {"detected", "failed"}
        BY <1>7 DEF InForce
    <2> QED
        BY <1>3, <1>4, <1>7, <2>1, RowTables DEF IInv, InsertRow
<1>9. WritingFits' /\ RequestFits'
    BY <1>4, <1>5 DEF IInv, WritingFits, RequestFits, InsertRow
<1>10. JobFits'
    BY <1>3, <1>4, <1>5, <1>7
    DEF JobFits, Joining, Publishing, Merging, Exists, InForce, InsertRow
<1>11. MergingFits'
    <2>1. \A s \in RowIds : rows[s].state = "staged" => rows'[s] = rows[s]
        BY <1>3, <1>4
    <2> SUFFICES ASSUME NEW h \in GroupIds, h # g, groups[h].status = "merging",
                        groups[h].next = Nobody
                 PROVE  \E s \in RowIds : rows'[s].state = "staged" /\ rows'[s].group = h
        BY <1>5 DEF MergingFits, InsertRow
    <2>2. PICK s \in RowIds : rows[s].state = "staged" /\ rows[s].group = h
        BY <1>2 DEF IInv, MergingFits, InsertRow
    <2> QED
        BY <2>1, <2>2
<1> QED
    BY <1>6, <1>8, <1>9, <1>10, <1>11 DEF Kept, IInv

LEMMA StageStep ==
    ASSUME IInv, Stage
    PROVE  Kept
<1>1. PICK g \in GroupIds, r \in RowIds : g = job.group /\ r = job.row
    BY DEF IInv, JobFits, Stage, Publishing, Merging
<1>2. /\ Exists(g) /\ groups[g].out = Nobody /\ groups[g].verified # "none"
      /\ InForce(g) => groups[g].status = "merging"
      /\ job.made.of = groups[g].members
      /\ rows[r].group = g /\ rows[r].state = "writing"
    BY <1>1 DEF IInv, JobFits, Stage, Publishing, Merging
<1>3. /\ job.made \in Contents \cup {Nothing} /\ job.made.of \in Seq(PartIds)
      /\ job.made.of # <<>>
    BY <1>2 DEF IInv, TypeOK, Job, Group, TablesFit, MembersFit
<1>4. NameOf(job.made.of, 1) \in Names /\ Named(NameOf(job.made.of, 1), job.made.of)
    BY <1>3, Ends
<1>5. /\ rows' \in [RowIds -> Row]
      /\ rows'[r].state = "staged" /\ rows'[r].group = g /\ rows'[r].made = job.made
      /\ rows'[r].name = NameOf(job.made.of, 1)
      /\ \A s \in RowIds : s # r => rows'[s] = rows[s]
    <2> DEFINE made == job.made
               name == NameOf(job.made.of, 1)
    <2>1. rows' = [rows EXCEPT ![r].state = "staged", ![r].made = made, ![r].name = name]
        BY <1>1 DEF Stage
    <2>2. made \in Contents \cup {Nothing} /\ name \in Names
        BY <1>3, <1>4
    <2> HIDE DEF made, name
    <2>3. rows[r] \in Row
        BY DEF IInv, TypeOK
    <2>4. rows'[r] = [rows[r] EXCEPT !.state = "staged", !.made = made, !.name = name]
        BY <2>1 DEF IInv, TypeOK
    <2>5. /\ rows'[r] \in Row /\ rows'[r].state = "staged"
          /\ rows'[r].group = rows[r].group /\ rows'[r].made = made /\ rows'[r].name = name
        BY <2>2, <2>3, <2>4 DEF Row
    <2>6. \A s \in RowIds : s # r => rows'[s] = rows[s]
        BY <2>1 DEF IInv, TypeOK
    <2>7. rows' \in [RowIds -> Row]
        BY <2>1, <2>5, <2>6 DEF IInv, TypeOK
    <2> QED
        BY <1>2, <2>5, <2>6, <2>7 DEF made, name
<1>6. job' \in Job /\ job'.pc = "staged" /\ job'.row = r /\ job'.group = g
    BY <1>1 DEF IInv, TypeOK, Job, PCs, Stage
<1>7. TypeOK'
    BY <1>5, <1>6 DEF IInv, TypeOK, Stage
<1>8. TablesFit' /\ Stable
    <2>1. groups[g].next = Nobody => groups[g].status \notin {"detected", "failed"}
        BY <1>2 DEF InForce
    <2>2. \A s \in RowIds : IsRow(s) /\ rows[s].group = g => s = r
        BY <1>2 DEF IInv, TablesFit, RowsFit, RowFits, IsRow
    <2>3. rows'[r].made.of = groups[g].members /\ Named(rows'[r].name, groups[g].members)
        BY <1>2, <1>4, <1>5
    <2> QED
        BY <1>2, <1>5, <2>1, <2>2, <2>3, RowTables DEF IInv, Stage
<1>9. WritingFits' /\ RequestFits'
    <2>1. \A s \in RowIds : rows'[s].state # "writing"
        BY <1>1, <1>5 DEF IInv, WritingFits, Stage
    <2> QED
        BY <2>1 DEF IInv, WritingFits, RequestFits, Stage
<1>10. JobFits'
    BY <1>2, <1>5, <1>6 DEF JobFits, Joining, Publishing, Merging, Exists, InForce, Stage
<1>11. MergingFits'
    <2> SUFFICES ASSUME NEW h \in GroupIds, groups[h].status = "merging",
                        groups[h].next = Nobody
                 PROVE  \E s \in RowIds : rows'[s].state = "staged" /\ rows'[s].group = h
        BY DEF MergingFits, Stage
    <2>1. CASE h = g
        BY <1>5, <2>1
    <2>2. CASE h # g
        <3>1. PICK s \in RowIds : rows[s].state = "staged" /\ rows[s].group = h
            BY <1>1, <2>2 DEF IInv, MergingFits, Stage
        <3> QED
            BY <1>2, <1>5, <3>1
    <2> QED
        BY <2>1, <2>2
<1> QED
    BY <1>7, <1>8, <1>9, <1>10, <1>11 DEF Kept, IInv

\* A row got its file under a name of its series.
LEMMA LinkedRow ==
    ASSUME IInv, NEW r \in RowIds, NEW n \in Names,
           NEW state \in {"staged", "published"}, LinkTo(r, n, state)
    PROVE  /\ rows' \in [RowIds -> Row]
           /\ files' \in [Names -> Contents \cup {Nothing}]
           /\ rows'[r].state = state /\ rows'[r].name = n
           /\ rows'[r].group = rows[r].group /\ rows'[r].made = rows[r].made
           /\ rows'[r].temp = FALSE
           /\ \A s \in RowIds : s # r => rows'[s] = rows[s]
           /\ n[1] = rows[r].name[1] /\ n[2] = rows[r].name[2]
<1>1. rows[r] \in Row
    BY DEF IInv, TypeOK
<1>2. rows'[r] = [rows[r] EXCEPT !.name = n, !.temp = FALSE, !.state = state]
    BY DEF IInv, TypeOK, LinkTo
<1>3. /\ rows'[r] \in Row /\ rows'[r].state = state /\ rows'[r].name = n
      /\ rows'[r].group = rows[r].group /\ rows'[r].made = rows[r].made
      /\ rows'[r].temp = FALSE
    BY <1>1, <1>2 DEF Row
<1>4. \A s \in RowIds : s # r => rows'[s] = rows[s]
    BY DEF IInv, TypeOK, LinkTo
<1>5. rows' \in [RowIds -> Row]
    BY <1>3, <1>4 DEF IInv, TypeOK, LinkTo
<1>6. files' \in [Names -> Contents \cup {Nothing}]
    BY <1>1 DEF IInv, TypeOK, LinkTo, Row
<1>7. n[1] = rows[r].name[1] /\ n[2] = rows[r].name[2]
    BY DEF LinkTo
<1> QED
    BY <1>3, <1>4, <1>5, <1>6, <1>7

LEMMA LinkStep ==
    ASSUME IInv, Link
    PROVE  Kept
<1>1. PICK g \in GroupIds, r \in RowIds : g = job.group /\ r = job.row
    BY DEF IInv, JobFits, Link, Publishing, Merging
<1>2. /\ Exists(g) /\ groups[g].out = Nobody
      /\ InForce(g) => groups[g].status = "merging"
      /\ rows[r].group = g /\ rows[r].state = "staged"
    BY <1>1 DEF IInv, JobFits, Link, Publishing, Merging
<1>3. RowFits(r)
    BY <1>2 DEF IInv, TablesFit, RowsFit, IsRow
<1>4. PICK n \in Names : LinkTo(r, n, "staged")
    BY <1>1 DEF Link
<1>5. /\ rows' \in [RowIds -> Row]
      /\ files' \in [Names -> Contents \cup {Nothing}]
      /\ rows'[r].state = "staged" /\ rows'[r].name = n
      /\ rows'[r].group = rows[r].group /\ rows'[r].made = rows[r].made
      /\ \A s \in RowIds : s # r => rows'[s] = rows[s]
      /\ n[1] = rows[r].name[1] /\ n[2] = rows[r].name[2]
    BY <1>4, LinkedRow
<1>6. job' \in Job /\ job'.pc = "linked" /\ job'.row = r /\ job'.group = g
    BY <1>1 DEF IInv, TypeOK, Job, PCs, Link
<1>7. TypeOK'
    BY <1>5, <1>6 DEF IInv, TypeOK, Link
<1>8. TablesFit' /\ Stable
    <2>1. groups[g].next = Nobody => groups[g].status \notin {"detected", "failed"}
        BY <1>2 DEF InForce
    <2>2. /\ \A s \in RowIds : IsRow(s) /\ rows[s].group = g => s = r
          /\ groups[g].verified # "none"
        BY <1>2, <1>3 DEF RowFits
    <2>3. rows'[r].made.of = groups[g].members /\ Named(rows'[r].name, groups[g].members)
        BY <1>2, <1>3, <1>5 DEF RowFits, Named
    <2> QED
        BY <1>2, <1>5, <2>1, <2>2, <2>3, RowTables DEF IInv, Link
<1>9. WritingFits' /\ RequestFits'
    <2>1. \A s \in RowIds : rows'[s].state # "writing"
        BY <1>5 DEF IInv, WritingFits, Link
    <2> QED
        BY <2>1 DEF IInv, WritingFits, RequestFits, Link
<1>10. JobFits'
    BY <1>2, <1>5, <1>6 DEF JobFits, Joining, Publishing, Merging, Exists, InForce, Link
<1>11. MergingFits'
    <2> SUFFICES ASSUME NEW h \in GroupIds, groups[h].status = "merging",
                        groups[h].next = Nobody
                 PROVE  \E s \in RowIds : rows'[s].state = "staged" /\ rows'[s].group = h
        BY DEF MergingFits, Link
    <2>1. PICK s \in RowIds : rows[s].state = "staged" /\ rows[s].group = h
        BY DEF IInv, MergingFits, Link
    <2> QED
        BY <1>5, <2>1
<1> QED
    BY <1>7, <1>8, <1>9, <1>10, <1>11 DEF Kept, IInv

LEMMA CommitStep ==
    ASSUME IInv, Commit
    PROVE  Kept
<1>1. PICK g \in GroupIds, r \in RowIds : g = job.group /\ r = job.row
    BY DEF IInv, JobFits, Commit, Publishing, Merging
<1>2. /\ Exists(g)
      /\ InForce(g) => groups[g].status = "merging"
      /\ rows[r].group = g /\ rows[r].state = "staged"
    BY <1>1 DEF IInv, JobFits, Commit, Publishing, Merging
<1>3. rows[r] \in Row
    BY DEF IInv, TypeOK
<1>4. /\ rows' \in [RowIds -> Row]
      /\ rows'[r].state = "published" /\ rows'[r].name = rows[r].name
      /\ rows'[r].group = rows[r].group /\ rows'[r].made = rows[r].made
      /\ \A s \in RowIds : s # r => rows'[s] = rows[s]
    <2>1. rows'[r] = [rows[r] EXCEPT !.state = "published"]
        BY <1>1 DEF IInv, TypeOK, Commit
    <2>2. /\ rows'[r] \in Row
          /\ rows'[r].state = "published" /\ rows'[r].name = rows[r].name
          /\ rows'[r].group = rows[r].group /\ rows'[r].made = rows[r].made
        BY <1>3, <2>1 DEF Row
    <2>3. \A s \in RowIds : s # r => rows'[s] = rows[s]
        BY <1>1 DEF IInv, TypeOK, Commit
    <2>4. rows' \in [RowIds -> Row]
        BY <2>2, <2>3 DEF IInv, TypeOK, Commit
    <2> QED
        BY <2>2, <2>3, <2>4
<1>5. rows[r].name \in Names /\ CommitRow(r, rows[r].name)
    BY <1>1, <1>3 DEF Commit, Row
<1>6. /\ TablesFit' /\ Stable
      /\ groups' \in [GroupIds -> Group] /\ videos' \in [VideoIds -> Video]
      /\ \A h \in GroupIds : /\ groups'[h].status = groups[h].status
                             /\ groups'[h].next = groups[h].next
                             /\ groups'[h].members = groups[h].members
    BY <1>2, <1>4, <1>5, CommitTables DEF IInv
<1>7. job' \in Job /\ job'.pc = "committed" /\ job'.row = r /\ job'.group = g
    BY <1>1 DEF IInv, TypeOK, Job, PCs, Commit
<1>8. TypeOK'
    BY <1>4, <1>6, <1>7 DEF IInv, TypeOK, Commit
<1>9. WritingFits' /\ RequestFits'
    <2>1. \A s \in RowIds : rows'[s].state # "writing"
        BY <1>4 DEF IInv, WritingFits, Commit
    <2> QED
        BY <2>1 DEF IInv, WritingFits, RequestFits, Commit
<1>10. JobFits'
    <2>1. Exists(g)' /\ (InForce(g)' => groups'[g].status = "merging")
        BY <1>2, <1>6 DEF Exists, InForce
    <2>2. rows'[r].group = g /\ rows'[r].state = "published"
        BY <1>2, <1>4
    <2> QED
        BY <1>7, <2>1, <2>2 DEF JobFits, Joining, Publishing, Merging, Exists, InForce
<1>11. MergingFits'
    <2> SUFFICES ASSUME NEW h \in GroupIds, h # g, groups[h].status = "merging",
                        groups[h].next = Nobody
                 PROVE  \E s \in RowIds : rows'[s].state = "staged" /\ rows'[s].group = h
        BY <1>6, <1>7 DEF MergingFits
    <2>1. PICK s \in RowIds : rows[s].state = "staged" /\ rows[s].group = h
        BY DEF IInv, MergingFits, Commit
    <2> QED
        BY <1>2, <1>4, <2>1
<1> QED
    BY <1>6, <1>8, <1>9, <1>10, <1>11 DEF Kept, IInv

-----------------------------------------------------------------------------
(* Steps of the recovery                                                   *)

LEMMA DiscardWritingStep ==
    ASSUME IInv, NEW r \in RowIds, DiscardWriting(r)
    PROVE  Kept
<1>1. /\ job' \in Job /\ job'.pc = "recovering" /\ job'.rows = job.rows \ {r}
      /\ JobFits'
    BY RecoveredRow DEF DiscardWriting
<1>2. /\ rows' \in [RowIds -> Row] /\ rows'[r].state = "absent"
      /\ \A s \in RowIds : s # r => rows'[s] = rows[s]
    <2>1. NoRow \in Row /\ NoRow.state = "absent"
        BY EmptyRecords DEF NoRow
    <2> QED
        BY <2>1 DEF IInv, TypeOK, DiscardWriting
<1>3. TypeOK'
    BY <1>1, <1>2 DEF IInv, TypeOK, DiscardWriting
<1>4. TablesFit' /\ Stable
    <2>1. \A g \in GroupIds : GroupKept(g)
        BY DEF GroupKept, DiscardWriting
    <2>2. \A g \in GroupIds : groups[g].next = Nobody => StatusEarned(g)
        BY DEF StatusEarned, DiscardWriting
    <2>3. \A s \in RowIds : rows'[s] = rows[s] \/ rows'[s].state = "absent"
        BY <1>2
    <2> QED
        BY <2>1, <2>2, <2>3, StatusTables DEF IInv, DiscardWriting
<1>5. WritingFits' /\ MergingFits' /\ RequestFits'
    BY <1>1, <1>2 DEF IInv, WritingFits, MergingFits, RequestFits, DiscardWriting
<1> QED
    BY <1>1, <1>3, <1>4, <1>5 DEF Kept, IInv

LEMMA ResumeLinkingStep ==
    ASSUME IInv, NEW r \in RowIds, ResumeLinking(r)
    PROVE  Kept
<1>1. /\ job' \in Job /\ job'.pc = "recovering" /\ job'.rows = job.rows \ {r}
      /\ JobFits'
    BY RecoveredRow DEF ResumeLinking
<1>2. PICK n \in Names : LinkTo(r, n, "published") /\ CommitRow(r, n)
    BY DEF ResumeLinking
<1>3. /\ rows' \in [RowIds -> Row]
      /\ files' \in [Names -> Contents \cup {Nothing}]
      /\ rows'[r].state = "published" /\ rows'[r].name = n
      /\ rows'[r].group = rows[r].group /\ rows'[r].made = rows[r].made
      /\ \A s \in RowIds : s # r => rows'[s] = rows[s]
      /\ n[1] = rows[r].name[1] /\ n[2] = rows[r].name[2]
    BY <1>2, LinkedRow
<1>4. rows[r].state = "staged"
    BY DEF ResumeLinking
<1>5. /\ TablesFit' /\ Stable
      /\ groups' \in [GroupIds -> Group] /\ videos' \in [VideoIds -> Video]
    BY <1>2, <1>3, <1>4, CommitTables DEF IInv
<1>6. TypeOK'
    BY <1>1, <1>3, <1>5 DEF IInv, TypeOK, ResumeLinking
<1>7. WritingFits' /\ MergingFits' /\ RequestFits'
    BY <1>1, <1>3 DEF IInv, WritingFits, MergingFits, RequestFits, ResumeLinking
<1> QED
    BY <1>1, <1>5, <1>6, <1>7 DEF Kept, IInv

LEMMA ResumeCommitStep ==
    ASSUME IInv, NEW r \in RowIds, ResumeCommit(r)
    PROVE  Kept
<1>1. /\ job' \in Job /\ job'.pc = "recovering" /\ job'.rows = job.rows \ {r}
      /\ JobFits'
    BY RecoveredRow DEF ResumeCommit
<1>2. rows[r] \in Row /\ rows[r].state \in {"staged", "published"}
    BY DEF IInv, TypeOK, ResumeCommit
<1>3. rows'[r] = [rows[r] EXCEPT !.state = "published"]
    BY DEF IInv, TypeOK, ResumeCommit
<1>4. /\ rows'[r] \in Row
      /\ rows'[r].state = "published" /\ rows'[r].name = rows[r].name
      /\ rows'[r].group = rows[r].group /\ rows'[r].made = rows[r].made
    BY <1>2, <1>3 DEF Row
<1>5. \A s \in RowIds : s # r => rows'[s] = rows[s]
    BY DEF IInv, TypeOK, ResumeCommit
<1>6. rows' \in [RowIds -> Row]
    BY <1>4, <1>5 DEF IInv, TypeOK, ResumeCommit
<1>7. rows[r].name \in Names /\ CommitRow(r, rows[r].name)
    BY <1>2 DEF Row, ResumeCommit
<1>8. /\ TablesFit' /\ Stable
      /\ groups' \in [GroupIds -> Group] /\ videos' \in [VideoIds -> Video]
    BY <1>2, <1>4, <1>5, <1>7, CommitTables DEF IInv
<1>9. TypeOK'
    BY <1>1, <1>6, <1>8 DEF IInv, TypeOK, ResumeCommit
<1>10. WritingFits' /\ MergingFits' /\ RequestFits'
    BY <1>1, <1>4, <1>5 DEF IInv, WritingFits, MergingFits, RequestFits, ResumeCommit
<1> QED
    BY <1>1, <1>8, <1>9, <1>10 DEF Kept, IInv

LEMMA SettleMergesStep ==
    ASSUME IInv, SettleMerges
    PROVE  Kept
<1>1. job' \in Job /\ job'.pc = "idle" /\ JobFits'
    BY IdleJob DEF SettleMerges
<1>2. \A r \in RowIds : rows[r].state # "writing"
    BY DEF IInv, WritingFits, SettleMerges
<1>3. ASSUME NEW g \in GroupIds
      PROVE  /\ groups'[g] \in Group /\ GroupKept(g)
             /\ groups'[g].status # groups[g].status =>
                    /\ groups[g].status = "merging" /\ g \notin Blocked
                    /\ groups'[g].status =
                           IF groups[g].out # Nobody THEN "merged" ELSE "detected"
             /\ groups'[g].status = "merging" => g \in Blocked
    <2>1. groups[g] \in Group
        BY DEF IInv, TypeOK
    <2>2. groups'[g] = IF groups[g].status = "merging" /\ g \notin Blocked
                       THEN [groups[g] EXCEPT !.status =
                                IF groups[g].out # Nobody THEN "merged" ELSE "detected"]
                       ELSE groups[g]
        BY DEF SettleMerges
    <2> QED
        BY <2>1, <2>2 DEF Group, Statuses, GroupKept
<1>4. TypeOK'
    <2>1. groups' \in [GroupIds -> Group]
        BY <1>3 DEF SettleMerges
    <2> QED
        BY <1>1, <2>1 DEF IInv, TypeOK, SettleMerges
<1>5. ASSUME NEW g \in GroupIds, groups[g].next = Nobody PROVE StatusEarned(g)
    <2>1. CASE groups'[g].status = groups[g].status
        BY <2>1, <1>5 DEF IInv, TablesFit, GroupsFit, StatusFits, StatusEarned, IsRow, SettleMerges
    <2>2. CASE groups'[g].status = "merged" /\ groups[g].out # Nobody
        BY <2>2 DEF StatusEarned
    <2>3. CASE /\ groups'[g].status = "detected" /\ groups[g].out = Nobody
               /\ groups[g].status = "merging" /\ g \notin Blocked
        <3>1. ASSUME NEW r \in RowIds, IsRow(r), rows[r].group = g PROVE FALSE
            <4>1. rows[r].state = "published"
                <5>1. rows[r].state \in {"absent", "writing", "staged", "published"}
                    BY DEF IInv, TypeOK, Row
                <5> QED
                    BY <1>2, <2>3, <3>1, <5>1 DEF Blocked, IsRow
            <4>2. RowFits(r) /\ InForce(g)
                BY <1>5, <2>3, <3>1 DEF IInv, TablesFit, RowsFit, InForce
            <4> QED
                BY <2>3, <3>1, <4>1, <4>2 DEF RowFits
        <3> QED
            BY <2>3, <3>1 DEF StatusEarned, IsRow, SettleMerges
    <2> QED
        BY <1>3, <2>1, <2>2, <2>3
<1>6. TablesFit' /\ Stable
    BY <1>3, <1>5, StatusTables DEF IInv, SettleMerges
<1>7. WritingFits' /\ RequestFits'
    BY <1>2 DEF IInv, WritingFits, RequestFits, SettleMerges
<1>8. MergingFits'
    <2> SUFFICES ASSUME NEW g \in GroupIds, groups'[g].status = "merging"
                 PROVE  \E r \in RowIds : rows[r].state = "staged" /\ rows[r].group = g
        BY DEF MergingFits, SettleMerges
    <2>1. g \in Blocked
        BY <1>3
    <2> QED
        BY <1>2, <2>1 DEF Blocked
<1> QED
    BY <1>1, <1>4, <1>6, <1>7, <1>8 DEF Kept, IInv

-----------------------------------------------------------------------------
(* Steps of detection and of users                                         *)

\* A job that detects is not one that merges.
LEMMA SaveDetectedStep ==
    ASSUME IInv, SaveDetected
    PROVE  Kept
<1>1. job.pc = "detecting" /\ job.todo \in Seq(Seq(PartIds)) /\ job.rev \in 1..MaxRevisions
      /\ \A i \in 1..Len(job.todo) : job.todo[i] # <<>>
    <2>1. job.rev \in 0..MaxRevisions /\ job.rev # 0 /\ job.todo \in Seq(Seq(PartIds))
        BY DEF IInv, TypeOK, Job, JobFits, SaveDetected
    <2> QED
        BY <2>1, Constants DEF IInv, JobFits, SaveDetected
<1>2. /\ job' \in Job /\ job'.pc \in {"idle", "detecting"} /\ JobFits'
    <2>1. CASE job.todo = <<>>
        BY <2>1, IdleJob DEF SaveDetected, Idle
    <2>2. CASE job.todo # <<>>
        <3> DEFINE rest == Tail(job.todo)
        <3>1. /\ rest \in Seq(Seq(PartIds))
              /\ \A i \in 1..Len(rest) : rest[i] # <<>>
            <4>1. /\ rest \in Seq(Seq(PartIds)) /\ Len(rest) = Len(job.todo) - 1
                  /\ \A i \in 1..Len(rest) : rest[i] = job.todo[i + 1]
                BY <1>1, <2>2, HeadTailProperties
            <4>2. Len(job.todo) \in Nat
                BY <1>1, LenProperties
            <4> QED
                BY <1>1, <4>1, <4>2
        <3>2. job' = [job EXCEPT !.todo = rest]
            BY <2>2 DEF SaveDetected
        <3> HIDE DEF rest
        <3>3. /\ job' \in Job /\ job'.pc = "detecting" /\ job'.todo = rest
              /\ job'.rev = job.rev
            BY <1>1, <3>1, <3>2 DEF IInv, TypeOK, Job
        <3> QED
            BY <1>1, <3>1, <3>3 DEF JobFits, Joining, Publishing, Merging
    <2> QED
        BY <2>1, <2>2
<1>3. /\ TablesFit' /\ Stable /\ groups' \in [GroupIds -> Group]
      /\ \A g \in GroupIds : groups'[g] = groups[g] \/ groups'[g].status = "detected"
    <2>1. CASE UNCHANGED groups
        BY <2>1, QuietTables DEF IInv, TypeOK, SaveDetected
    <2>2. CASE groups' # groups
        <3> DEFINE list == Head(job.todo)
        <3>1. job.todo # <<>> /\ ~Refused(list, job.rev)
            BY <2>2 DEF SaveDetected
        <3>2. PICK n \in FreeGroup : groups' = [groups EXCEPT ![n] =
                                                   NewGroup(list, job.rev, job.rev)]
            BY <2>2, <3>1 DEF SaveDetected
        <3>3. list \in Seq(PartIds) /\ list # <<>>
            <4>1. list = job.todo[1] /\ Len(job.todo) \in Nat \ {0}
                BY <1>1, <3>1, EmptySeq
            <4> QED
                BY <1>1, <3>1, <4>1, HeadTailProperties
        <3> HIDE DEF list
        <3>4. n \in GroupIds /\ ~Exists(n)
            BY DEF FreeGroup
        <3>5. /\ groups'[n] = NewGroup(list, job.rev, job.rev)
              /\ \A g \in GroupIds : g # n => groups'[g] = groups[g]
            BY <3>2, <3>4 DEF IInv, TypeOK
        <3>6. job.rev \in 0..MaxRevisions
            BY <1>1, Constants
        <3>7. NewGroup(list, job.rev, job.rev) \in Group
              /\ NewGroup(list, job.rev, job.rev).status = "detected"
            BY <1>1, <3>3, <3>6, NewGroupType
        <3>8. \A g \in GroupIds : g # n /\ Holds(g)' => PartsOf(g) \cap InList(list) = {}
            BY <3>1, <3>5 DEF Refused, Taken, Holds, Exists, InList
        <3>9. TablesFit' /\ Stable
            BY <1>1, <3>3, <3>4, <3>5, <3>6, <3>8, NewGroupTables DEF IInv, SaveDetected
        <3> QED
            BY <3>2, <3>4, <3>5, <3>7, <3>9 DEF IInv, TypeOK
    <2> QED
        BY <2>1, <2>2
<1>4. TypeOK'
    BY <1>2, <1>3 DEF IInv, TypeOK, SaveDetected
<1>5. WritingFits' /\ RequestFits'
    BY <1>1 DEF IInv, WritingFits, RequestFits, SaveDetected
<1>6. MergingFits'
    BY <1>1, <1>3 DEF IInv, MergingFits, SaveDetected
<1> QED
    BY <1>2, <1>3, <1>4, <1>5, <1>6 DEF Kept, IInv

\* What a step of a user on groups has to leave as it is for the job.
LEMMA UserStep ==
    ASSUME IInv, TypeOK', TablesFit', Stable, RequestFits', UNCHANGED <<rows, job>>,
           \A g \in GroupIds : Exists(g) /\ (job.pc \in Merging => g = job.group) =>
               /\ Exists(g)' /\ groups'[g].members = groups[g].members
               /\ groups'[g].out \in {groups[g].out, Nobody}
               /\ groups[g].verified # "none" => groups'[g].verified # "none",
           \A g \in GroupIds : InForce(g)' /\ Exists(g) =>
               InForce(g) /\ groups'[g].status = groups[g].status,
           \A g \in GroupIds : groups'[g].status = "merging" /\ groups'[g].next = Nobody =>
               groups[g].status = "merging" /\ groups[g].next = Nobody
    PROVE  Kept
<1>1. WritingFits'
    BY DEF IInv, WritingFits
<1>2. MergingFits'
    BY DEF IInv, MergingFits
<1>3. JobFits'
    <2>1. CASE job.pc \in Merging
        <3>1. PICK g \in GroupIds : g = job.group
            BY <2>1 DEF IInv, JobFits
        <3>2. /\ Exists(g) /\ Exists(g)' /\ groups'[g].members = groups[g].members
              /\ groups'[g].out \in {groups[g].out, Nobody}
              /\ groups[g].verified # "none" => groups'[g].verified # "none"
              /\ InForce(g)' => InForce(g) /\ groups'[g].status = groups[g].status
            BY <2>1, <3>1 DEF IInv, JobFits
        <3> QED
            BY <2>1, <3>1, <3>2
            DEF IInv, JobFits, Joining, Publishing, Merging, IsRow
    <2>2. CASE job.pc \notin Merging
        BY <2>2 DEF IInv, JobFits, Joining, Publishing, Merging
    <2> QED
        BY <2>1, <2>2
<1> QED
    BY <1>1, <1>2, <1>3 DEF Kept, IInv

LEMMA CreateManualStep ==
    ASSUME IInv, CreateManual
    PROVE  Kept
<1>1. request.list \in Seq(PartIds) /\ request.list # <<>>
      /\ request.digest \in 0..MaxRevisions /\ revision \in 1..MaxRevisions
    BY ListsAreLists DEF IInv, RequestFits, TypeOK, Request, CreateManual
<1>2. request' \in Request /\ RequestFits'
    BY EmptyRecords DEF CreateManual, NoRequest, RequestFits
<1>3. CASE UNCHANGED groups
    BY <1>2, <1>3, QuietStep DEF CreateManual, IInv, TypeOK
<1>4. CASE groups' # groups
    <2> DEFINE list == request.list
               new == NewGroup(list, revision, request.digest)
    <2>1. PICK n \in FreeGroup : groups' = [groups EXCEPT ![n] = new]
        BY <1>4 DEF CreateManual
    <2>2. ~Refused(list, request.digest)
        BY <1>4 DEF CreateManual
    <2>3. n \in GroupIds /\ ~Exists(n)
        BY DEF FreeGroup
    <2>4. new \in Group /\ new.status = "detected"
        BY <1>1, NewGroupType
    <2>5. groups'[n] = new /\ \A g \in GroupIds : g # n => groups'[g] = groups[g]
        BY <2>1, <2>3 DEF IInv, TypeOK
    <2>6. \A g \in GroupIds : g # n /\ Holds(g)' => PartsOf(g) \cap InList(list) = {}
        BY <2>2, <2>5 DEF Refused, Taken, Holds, Exists, InList
    <2>7. TablesFit' /\ Stable
        BY <1>1, <2>3, <2>5, <2>6, NewGroupTables DEF IInv, CreateManual
    <2>8. TypeOK'
        BY <1>2, <2>1, <2>4 DEF IInv, TypeOK, CreateManual
    <2> HIDE DEF list, new
    <2> QED
        BY <1>2, <2>3, <2>4, <2>5, <2>7, <2>8, UserStep DEF CreateManual, Exists, InForce
<1> QED
    BY <1>3, <1>4

LEMMA RegroupStep ==
    ASSUME IInv, Regroup
    PROVE  Kept
<1>1. request.list \in Seq(PartIds) /\ request.list # <<>>
      /\ request.digest \in 0..MaxRevisions /\ revision \in 1..MaxRevisions
      /\ request.group \in GroupIds
    BY ListsAreLists DEF IInv, RequestFits, TypeOK, Request, Regroup
<1>2. request' \in Request /\ RequestFits'
    BY EmptyRecords DEF Regroup, NoRequest, RequestFits
<1>3. CASE UNCHANGED <<groups, upload>>
    BY <1>2, <1>3, QuietStep DEF Regroup, IInv, TypeOK
<1>4. CASE ~UNCHANGED <<groups, upload>>
    <2> DEFINE g == request.group
               list == request.list
               new == NewGroup(list, revision, request.digest)
    <2>1. /\ Editable(g)
          /\ \A h \in GroupIds : Holds(h) /\ h # g => PartsOf(h) \cap InList(list) = {}
          /\ \E n \in FreeGroup : groups' = [groups EXCEPT ![g].next = n, ![n] = new]
          /\ upload' = Invalidated(g)
        BY <1>4 DEF Regroup
    <2>2. PICK n \in FreeGroup : groups' = [groups EXCEPT ![g].next = n, ![n] = new]
        BY <2>1
    <2>3. n \in GroupIds /\ ~Exists(n) /\ Exists(g) /\ g # n /\ n # Nobody
        BY <2>1 DEF FreeGroup, Editable, GroupIds, Nobody
    <2>4. new \in Group /\ new.status = "detected"
        BY <1>1, NewGroupType
    <2>5. /\ groups'[n] = new /\ groups'[g] = [groups[g] EXCEPT !.next = n]
          /\ \A h \in GroupIds \ {g, n} : groups'[h] = groups[h]
        BY <1>1, <2>2, <2>3 DEF IInv, TypeOK
    <2>6. groups[g] \in Group
        BY <1>1 DEF IInv, TypeOK
    <2>7. /\ groups'[g] \in Group /\ groups'[g].next = n
          /\ groups'[g].members = groups[g].members /\ groups'[g].out = groups[g].out
          /\ groups'[g].status = groups[g].status
          /\ groups'[g].verified = groups[g].verified
        BY <2>3, <2>5, <2>6 DEF Group
    <2>8. groups' \in [GroupIds -> Group]
        BY <1>1, <2>2, <2>4, <2>5, <2>7 DEF IInv, TypeOK
    <2>9. upload' \in [MediaIds -> Sent]
        BY <2>1 DEF Invalidated, IInv, TypeOK, Sent
    <2>10. TypeOK'
        BY <1>2, <2>8, <2>9 DEF IInv, TypeOK, Regroup
    <2>11. PICK old \in GroupIds : old = g
        BY <1>1
    <2> HIDE DEF g, list, new
    <2>12. \A h \in GroupIds : h # n /\ Holds(h)' => PartsOf(h) \cap InList(list) = {}
        <3> SUFFICES ASSUME NEW h \in GroupIds, h # n, Holds(h)'
                     PROVE  PartsOf(h) \cap InList(list) = {}
            OBVIOUS
        <3>1. h # g
            BY <2>3, <2>7 DEF Holds
        <3>2. Holds(h)
            BY <2>5, <3>1 DEF Holds, Exists
        <3> QED
            BY <2>1, <3>1, <3>2
    <2>13. TablesFit' /\ Stable
        <3>1. \A h \in GroupIds : h # n => \/ groups'[h] = groups[h]
                                           \/ groups'[h] = [groups[h] EXCEPT !.next = n]
            BY <2>5
        <3>2. groups'[n] = NewGroup(request.list, revision, request.digest)
            BY <2>5 DEF new, list
        <3>3. PICK l \in Seq(PartIds), d \in 0..MaxRevisions, rev \in 1..MaxRevisions :
                  l = request.list /\ d = request.digest /\ rev = revision
            BY <1>1
        <3>4. groups'[n] = NewGroup(l, rev, d) /\ l # <<>>
            BY <1>1, <3>2, <3>3
        <3>5. \A h \in GroupIds : h # n /\ Holds(h)' => PartsOf(h) \cap InList(l) = {}
            BY <2>12, <3>3 DEF list
        <3>6. TypeOK /\ TablesFit /\ UNCHANGED <<videos, rows>>
            BY DEF IInv, Regroup
        <3> QED
            BY <2>3, <3>1, <3>4, <3>5, <3>6, NewGroupTables
    <2>14. \A h \in GroupIds : Exists(h) =>
               /\ Exists(h)' /\ groups'[h].members = groups[h].members
               /\ groups'[h].out = groups[h].out /\ groups'[h].verified = groups[h].verified
               /\ groups'[h].status = groups[h].status
               /\ groups'[h].next = Nobody => groups[h].next = Nobody
        BY <2>3, <2>5, <2>7 DEF Exists
    <2> QED
        BY <1>2, <2>3, <2>4, <2>5, <2>10, <2>13, <2>14, UserStep DEF Regroup, Exists, InForce
<1> QED
    BY <1>3, <1>4

LEMMA DiscardStep ==
    ASSUME IInv, NEW g \in GroupIds, Discard(g)
    PROVE  Kept
<1>1. groups' = [groups EXCEPT ![g].status = "skipped"] /\ Exists(g)
    BY DEF Discard, Discarded, Editable
<1>2. /\ groups' \in [GroupIds -> Group]
      /\ \A h \in GroupIds : GroupKept(h)
      /\ \A h \in GroupIds : h # g => groups'[h] = groups[h]
      /\ groups'[g].status = "skipped"
    BY <1>1, OneStatus DEF Statuses, Exists
<1>3. upload' \in [MediaIds -> Sent]
    BY DEF Invalidated, IInv, TypeOK, Sent, Discard
<1>4. TypeOK'
    BY <1>2, <1>3, PayKeepsBudget DEF IInv, TypeOK, Discard, Expenses
<1>5. \A h \in GroupIds : groups[h].next = Nobody => StatusEarned(h)
    BY <1>2 DEF IInv, TablesFit, GroupsFit, StatusFits, StatusEarned, IsRow, Discard
<1>6. TablesFit' /\ Stable
    BY <1>2, <1>5, StatusTables DEF IInv, Discard
<1>7. RequestFits'
    BY DEF IInv, RequestFits, Discard
<1> QED
    BY <1>2, <1>4, <1>6, <1>7, UserStep DEF Discard, GroupKept, Exists, InForce

LEMMA AdoptStep ==
    ASSUME IInv, NEW g \in GroupIds, Adopt(g)
    PROVE  Kept
<1>1. groups[g] \in Group
    BY DEF IInv, TypeOK
<1>2. groups'[g] = [groups[g] EXCEPT !.adopted = TRUE]
    BY DEF IInv, TypeOK, Adopt
<1>3. /\ groups'[g] \in Group /\ GroupKept(g) /\ groups'[g].status = groups[g].status
      /\ groups'[g].verified = groups[g].verified
    BY <1>1, <1>2 DEF Group, GroupKept
<1>4. \A h \in GroupIds : h # g => groups'[h] = groups[h]
    BY DEF IInv, TypeOK, Adopt
<1>5. groups' \in [GroupIds -> Group]
    BY <1>3, <1>4 DEF IInv, TypeOK, Adopt
<1>6. \A h \in GroupIds : GroupKept(h) /\ groups'[h].status = groups[h].status
    BY <1>3, <1>4 DEF GroupKept
<1>7. TypeOK'
    BY <1>5 DEF IInv, TypeOK, Adopt
<1>8. \A h \in GroupIds : groups[h].next = Nobody => StatusEarned(h)
    BY <1>6 DEF IInv, TablesFit, GroupsFit, StatusFits, StatusEarned, IsRow, Adopt
<1>9. TablesFit' /\ Stable
    BY <1>6, <1>8, StatusTables DEF IInv, Adopt
<1>10. RequestFits'
    BY DEF IInv, RequestFits, Adopt
<1> QED
    BY <1>6, <1>7, <1>9, <1>10, UserStep DEF Adopt, GroupKept, Exists, InForce

LEMMA DeleteDiscardedStep ==
    ASSUME IInv, NEW g \in GroupIds, DeleteDiscarded(g)
    PROVE  Kept
<1>1. /\ groups[g].status = "skipped" /\ groups[g].out = Nobody
      /\ \A r \in RowIds : rows[r].group # g
      /\ job.group # g
    BY DEF DeleteDiscarded
<1>2. /\ NoGroup \in Group /\ NoGroup.status = "absent" /\ NoGroup.out = Nobody
    BY EmptyRecords DEF NoGroup
<1>3. /\ groups' \in [GroupIds -> Group]
      /\ groups'[g].status = "absent" /\ groups'[g].out = Nobody
      /\ \A h \in GroupIds : h # g => groups'[h] = groups[h]
    BY <1>2 DEF IInv, TypeOK, DeleteDiscarded
<1>4. TypeOK'
    BY <1>3 DEF IInv, TypeOK, DeleteDiscarded
<1>5. MembersFit' /\ NamesFit'
    BY <1>3 DEF IInv, TablesFit, MembersFit, NamesFit, Exists, HasVideo, DeleteDiscarded
<1>6. Disjoint'
    <2>1. \A h \in GroupIds : Holds(h)' => Holds(h) /\ PartsOf(h)' = PartsOf(h)
        BY <1>3 DEF Holds, Exists, PartsOf
    <2> QED
        BY <2>1 DEF IInv, TablesFit, Disjoint
<1>7. GroupsFit'
    BY <1>3 DEF IInv, TablesFit, GroupsFit, OutputFits, StatusFits, Exists, HasVideo, IsRow,
       DeleteDiscarded
<1>8. RowsFit'
    BY <1>1, <1>3 DEF IInv, TablesFit, RowsFit, RowFits, InForce, Exists, IsRow, DeleteDiscarded
<1>9. EveryVideoHasAnOwner'
    <2> SUFFICES ASSUME NEW v \in VideoIds, HasVideo(v) PROVE Pointing(v)' # {}
        BY DEF EveryVideoHasAnOwner, HasVideo, DeleteDiscarded
    <2>1. PICK h \in GroupIds : Exists(h) /\ groups[h].out = v
        BY DEF IInv, TablesFit, EveryVideoHasAnOwner, Pointing
    <2>2. h # g
        BY <1>1, <2>1 DEF VideoIds, Nobody
    <2> QED
        BY <1>3, <2>1, <2>2 DEF Pointing, Exists
<1>10. Stable
    BY <1>3 DEF Stable, IsMerged
<1>11. TablesFit'
    BY <1>5, <1>6, <1>7, <1>8, <1>9 DEF TablesFit
<1>12. UNCHANGED <<rows, job>> /\ RequestFits'
    BY DEF IInv, RequestFits, DeleteDiscarded
<1>13. WritingFits' /\ MergingFits'
    BY <1>3, <1>12 DEF IInv, WritingFits, MergingFits
<1>14. JobFits'
    <2>1. \A h \in GroupIds : h = job.group => groups'[h] = groups[h]
        BY <1>1, <1>3
    <2>2. CASE job.pc \in Merging
        <3>1. PICK h \in GroupIds : h = job.group /\ groups'[h] = groups[h]
            BY <2>1, <2>2 DEF IInv, JobFits
        <3> QED
            BY <1>12, <2>2, <3>1
            DEF IInv, JobFits, Joining, Publishing, Merging, IsRow, Exists, InForce
    <2>3. CASE job.pc \notin Merging
        BY <1>12, <2>3 DEF IInv, JobFits, Joining, Publishing, Merging
    <2> QED
        BY <2>2, <2>3
<1> QED
    BY <1>4, <1>10, <1>11, <1>12, <1>13, <1>14 DEF Kept, IInv

LEMMA DeleteVideoStep ==
    ASSUME IInv, NEW v \in VideoIds, DeleteVideo(v)
    PROVE  Kept
<1>1. /\ TablesFit' /\ Stable
      /\ groups' \in [GroupIds -> Group]
      /\ \A g \in GroupIds :
            /\ groups'[g].members = groups[g].members
            /\ groups'[g].next = groups[g].next
            /\ groups'[g].verified = groups[g].verified
            /\ groups'[g].out \in {groups[g].out, Nobody}
            /\ Exists(g)' <=> Exists(g)
            /\ groups'[g].status \in {groups[g].status, "skipped"}
    BY DeleteTables DEF IInv
<1>2. videos' \in [VideoIds -> Video] /\ unlinking' \in SUBSET Names
    <2>1. videos[v].name \in Names
        BY DEF IInv, TypeOK, Video
    <2> QED
        BY <2>1, EmptyRecords DEF IInv, TypeOK, DeleteVideo
<1>3. upload' \in [MediaIds -> Sent]
    BY DEF IInv, TypeOK, DeleteVideo, Sent
<1>4. TypeOK'
    BY <1>1, <1>2, <1>3, PayKeepsBudget DEF IInv, TypeOK, DeleteVideo, Expenses
<1>5. RequestFits'
    BY DEF IInv, RequestFits, DeleteVideo
<1> QED
    BY <1>1, <1>4, <1>5, UserStep DEF DeleteVideo, InForce

-----------------------------------------------------------------------------
(* The theorems                                                            *)

LEMMA InitKeeps == Init => IInv
<1> SUFFICES ASSUME Init PROVE IInv
    OBVIOUS
<1>1. TypeOK
    BY EmptyRecords, Constants, MergeAssumption DEF Init, TypeOK, Sent
<1>2. /\ \A g \in GroupIds : /\ groups[g].status = "absent" /\ groups[g].out = Nobody
                             /\ ~Exists(g)
      /\ \A v \in VideoIds : ~HasVideo(v)
      /\ \A r \in RowIds : rows[r].state = "absent"
      /\ job.pc = "idle" /\ request.kind = "none"
    BY DEF Init, NoGroup, NoVideo, NoRow, NoJob, NoRequest, Exists, HasVideo
<1>3. MembersFit /\ GroupsFit /\ RowsFit /\ NamesFit /\ EveryVideoHasAnOwner
    BY <1>2 DEF MembersFit, GroupsFit, OutputFits, StatusFits, RowsFit, NamesFit,
       EveryVideoHasAnOwner, IsRow
<1>4. Disjoint
    BY <1>2 DEF Disjoint, Holds
<1>5. WritingFits /\ MergingFits /\ RequestFits
    BY <1>2 DEF WritingFits, MergingFits, RequestFits
<1>6. JobFits
    BY <1>2 DEF JobFits, Joining, Publishing, Merging
<1> QED
    BY <1>1, <1>3, <1>4, <1>5, <1>6 DEF IInv, TablesFit

LEMMA NextKeeps ==
    ASSUME IInv, Next
    PROVE  Kept
<1>1. CASE MergeStep
    BY <1>1, RecordVerificationStep, MergeFailsStep, MergeCancelledStep, InsertRowStep,
       StageStep, StagingFailsStep, LinkStep, CommitStep, PublishInterruptedStep,
       MarkMergedStep, StartMergeStep DEF MergeStep
<1>2. CASE Recovery
    BY <1>2, RestartStep, DiscardWritingStep, ResumeLinkingStep, ResumeCommitStep,
       ResumeFailsStep, SettleMergesStep DEF Recovery
<1>3. CASE Requests
    BY <1>3, ComputeDigestStep, CreateManualStep, RegroupStep, SaveProfileStep, DiscardStep,
       DeleteDiscardedStep, AdoptStep, DeleteVideoStep, UnlinkStep DEF Requests
<1>4. CASE World
    BY <1>4, UploadStep, LoseStep DEF World
<1> QED
    BY <1>1, <1>2, <1>3, <1>4, StartDetectStep, SaveDetectedStep DEF Next

LEMMA StutteringKeeps ==
    ASSUME IInv, UNCHANGED vars
    PROVE  Kept
<1>1. TypeOK' /\ RequestFits'
    BY DEF IInv, TypeOK, RequestFits, vars
<1> QED
    BY <1>1, QuietStep DEF vars

\* The invariant holds of every behaviour: of every interleaving of the merge
\* job, interrupted or not, with the edits of users, the recovery and losses.
THEOREM Inductive == Spec => []IInv
<1>1. IInv /\ [Next]_vars => IInv'
    BY NextKeeps, StutteringKeeps DEF Kept
<1> QED
    BY <1>1, InitKeeps, PTL DEF Spec

\* The types, for any number of parts, groups, videos, rows and revisions.
THEOREM TypeCorrect == Spec => []TypeOK
<1>1. IInv => TypeOK
    BY DEF IInv
<1> QED
    BY <1>1, Inductive, PTL

\* A merged group in force has its video and a verdict on it, whether the job
\* ended the merge or the recovery.
THEOREM MergedComplete == Spec => []MergedIsComplete
<1>1. IInv => MergedIsComplete
    BY DEF IInv, TablesFit, GroupsFit, OutputFits, StatusFits, MergedIsComplete, IsMerged
<1> QED
    BY <1>1, Inductive, PTL

\* Whatever interrupts a merge, its group can be merged again, or a later start
\* publishes what it has staged.
THEOREM NothingLeftStuck == Spec => []NothingStuck
<1>1. IInv => NothingStuck
    BY DEF IInv, MergingFits, NothingStuck
<1> QED
    BY <1>1, Inductive, PTL

\* Every video in the catalogue belongs to a group and can be deleted.
THEOREM VideosOwned == Spec => []EveryVideoHasAnOwner
<1>1. IInv => EveryVideoHasAnOwner
    BY DEF IInv, TablesFit
<1> QED
    BY <1>1, Inductive, PTL

\* No publication, resumed or new, puts another video in the place of the one a
\* merged group has.
THEOREM OutputStable == Spec => OutputIsStable
<1>1. IInv /\ [Next]_vars => [Stable]_vars
    BY NextKeeps DEF Kept
<1> QED
    BY <1>1, Inductive, PTL DEF Spec, OutputIsStable, Stable

-----------------------------------------------------------------------------
(* What is offered fits its parts                                          *)

\* What a file holds is the merge of a group's members under its rules.
MadeFor(c, g) == c.of = groups[g].members /\ c.rev = groups[g].rev

\* The name a group's video has, or will be entered under.
Linked(r)  == rows[r].state = "staged" /\ ~rows[r].temp
Waiting(r) == rows[r].state = "staged" /\ rows[r].temp
At(g, n) == \/ groups[g].out # Nobody /\ videos[groups[g].out].name = n
            \/ \E r \in RowIds : Linked(r) /\ rows[r].group = g /\ rows[r].name = n

\* The file under the name of a group in force, while it is there, is its own.
FilesFit ==
    \A g \in GroupIds : Holds(g) =>
        \A n \in Names : At(g, n) => files[n] = Nothing \/ MadeFor(files[n], g)

\* No digest is of a later revision than the rules beside it, and what is merged
\* is merged by the rules of its group.
GroupRevs == \A g \in GroupIds : Exists(g) =>
                 groups[g].digest <= groups[g].rev /\ groups[g].rev <= revision
RowRevs   == \A r \in RowIds :
                 /\ rows[r].state \in {"staged", "published"} =>
                        rows[r].made.rev = groups[rows[r].group].rev
                 /\ rows[r].state = "writing" => rows[r].temp
JobRevs   == /\ job.rev <= revision
             /\ job.pc \in Joining => job.rev = groups[job.group].rev
             /\ job.pc \in {"verified", "writing"} => job.made.rev = groups[job.group].rev
             /\ job.pc = "linked" => ~rows[job.row].temp
RevsFit == GroupRevs /\ RowRevs /\ JobRevs /\ request.digest <= revision

\* Where nothing is lost and no video deleted, what was linked stays there.
NoLosses == budget["loss"] = 0 /\ budget["delete"] = 0
Intact ==
    /\ unlinking = {}
    /\ \A v \in VideoIds : HasVideo(v) => files[videos[v].name] # Nothing
    /\ \A r \in RowIds : Linked(r) \/ rows[r].state = "published" =>
                             files[rows[r].name] # Nothing

\* Where no publication is interrupted by an error, one file at most waits to be
\* linked, and no group in force that has come so far shares its parts.
Pending(g) == \/ job.pc \in Joining \cup {"writing", "staged"} /\ job.group = g
              \/ \E r \in RowIds : Waiting(r) /\ rows[r].group = g
Tried(g) == groups[g].out # Nobody \/ \E r \in RowIds : IsRow(r) /\ rows[r].group = g
NoFaults == budget["fault"] = 0
InHand == \A r \in RowIds : Waiting(r) =>
              \/ job.pc = "staged" /\ job.row = r
              \/ job.pc = "recovering" /\ r \in job.rows
OneWaits == \A r, s \in RowIds : Waiting(r) /\ Waiting(s) => r = s
NoRival == \A g, h \in GroupIds :
               g # h /\ Pending(h) /\ Holds(g) /\ Tried(g) => PartsOf(g) \cap PartsOf(h) = {}
Orderly == InHand /\ OneWaits /\ NoRival

Sound == /\ FilesFit /\ RevsFit
         /\ (NoLosses /\ Intact) \/ (NoFaults /\ Orderly)

\* Neither losses nor deletions where publications are interrupted by errors.
Separate == \A b \in Budgets : b["fault"] = 0 \/ (b["loss"] = 0 /\ b["delete"] = 0)

\* A step that publishes nothing: groups keep their members and rules, rows,
\* videos and files stay or go, and a new group has nothing.
GroupStill(g) == Exists(g)' =>
    \/ /\ Exists(g)
       /\ groups'[g].members = groups[g].members /\ groups'[g].rev = groups[g].rev
       /\ groups'[g].digest = groups[g].digest
       /\ groups'[g].out \in {groups[g].out, Nobody}
       /\ Holds(g)' => Holds(g)
    \/ /\ ~Exists(g) /\ groups'[g].out = Nobody
       /\ groups'[g].digest <= groups'[g].rev /\ groups'[g].rev <= revision
Still ==
    /\ \A g \in GroupIds : GroupStill(g)
    /\ \A r \in RowIds : rows'[r] = rows[r] \/ rows'[r].state = "absent"
    /\ \A v \in VideoIds : videos'[v] = videos[v] \/ ~HasVideo(v)'
    /\ \A n \in Names : files'[n] \in {files[n], Nothing}

LEMMA KeptIsStill ==
    ASSUME \A g \in GroupIds : GroupKept(g)
    PROVE  \A g \in GroupIds : GroupStill(g)
BY DEF GroupKept, GroupStill, Exists, Holds

\* Where a group's video is, it was before.
LEMMA StillAt ==
    ASSUME IInv, IInv', Still, NEW g \in GroupIds, Exists(g)',
           Tried(g)' \/ \E r \in RowIds : IsRow(r) /\ rows[r].group = g
    PROVE  /\ Exists(g)
           /\ groups'[g].members = groups[g].members /\ groups'[g].rev = groups[g].rev
           /\ PartsOf(g)' = PartsOf(g)
           /\ Holds(g)' => Holds(g)
           /\ Tried(g)' => Tried(g)
           /\ \A n \in Names : At(g, n)' => At(g, n)
<1>1. \A r \in RowIds : IsRow(r) => Exists(rows[r].group)
    BY DEF IInv, TablesFit, RowsFit, RowFits
<1>2. \A r \in RowIds : IsRow(r)' => IsRow(r) /\ rows'[r] = rows[r]
    BY DEF Still, IsRow
<1>3. /\ Exists(g)
      /\ groups'[g].members = groups[g].members /\ groups'[g].rev = groups[g].rev
      /\ groups'[g].out \in {groups[g].out, Nobody}
      /\ Holds(g)' => Holds(g)
    BY <1>1, <1>2 DEF Still, GroupStill, Tried
<1>4. PartsOf(g)' = PartsOf(g)
    BY <1>3 DEF PartsOf
<1>5. Tried(g)' => Tried(g)
    BY <1>2, <1>3 DEF Tried
<1>6. groups'[g].out # Nobody => videos'[groups[g].out] = videos[groups[g].out]
    <2> SUFFICES ASSUME groups'[g].out # Nobody
                 PROVE  videos'[groups[g].out] = videos[groups[g].out]
        OBVIOUS
    <2>1. groups'[g].out = groups[g].out /\ groups[g].out \in VideoIds
        BY <1>3 DEF IInv, TypeOK, Group
    <2>2. HasVideo(groups[g].out)'
        BY <2>1 DEF IInv, TablesFit, GroupsFit, OutputFits
    <2> QED
        BY <2>1, <2>2 DEF Still
<1>7. ASSUME NEW n \in Names, At(g, n)' PROVE At(g, n)
    <2>1. \A r \in RowIds : Linked(r)' => Linked(r) /\ rows'[r] = rows[r]
        BY <1>2 DEF Linked, IsRow
    <2> QED
        BY <1>3, <1>6, <1>7, <2>1 DEF At
<1> QED
    BY <1>3, <1>4, <1>5, <1>7

LEMMA AtIsTried ==
    ASSUME NEW g, NEW n, At(g, n)
    PROVE  Tried(g)
BY DEF At, Tried, Linked, IsRow

LEMMA StillFiles ==
    ASSUME IInv, IInv', FilesFit, Still
    PROVE  FilesFit'
<1> SUFFICES ASSUME NEW g \in GroupIds, Holds(g)', NEW n \in Names, At(g, n)'
             PROVE  files'[n] = Nothing \/ MadeFor(files[n], g)'
    BY DEF FilesFit
<1>1. Tried(g)' /\ Exists(g)'
    BY DEF At, Tried, Linked, IsRow, Holds, Exists
<1> QED
    BY <1>1, StillAt DEF FilesFit, Still, MadeFor

LEMMA Revisions ==
    ASSUME TypeOK
    PROVE  /\ revision \in Nat /\ job.rev \in Nat /\ request.digest \in Nat
           /\ \A g \in GroupIds : groups[g].rev \in Nat /\ groups[g].digest \in Nat
BY Constants DEF TypeOK, Job, Request, Group

LEMMA StillRevs ==
    ASSUME IInv, IInv', RevsFit, Still, JobRevs', revision <= revision',
           request'.digest <= revision'
    PROVE  RevsFit'
<1>1. GroupRevs'
    <2> SUFFICES ASSUME NEW g \in GroupIds, Exists(g)'
                 PROVE  groups'[g].digest <= groups'[g].rev /\ groups'[g].rev <= revision'
        BY DEF GroupRevs
    <2>1. /\ revision \in Nat /\ revision' \in Nat
          /\ groups'[g].rev \in Nat /\ groups'[g].digest \in Nat
          /\ groups[g].rev \in Nat /\ groups[g].digest \in Nat
        BY Revisions, Constants DEF IInv, TypeOK, Group
    <2> QED
        BY <2>1 DEF Still, GroupStill, RevsFit, GroupRevs
<1>2. RowRevs'
    <2> SUFFICES ASSUME NEW r \in RowIds, IsRow(r)'
                 PROVE  /\ rows'[r].state \in {"staged", "published"} =>
                               rows'[r].made.rev = groups'[rows'[r].group].rev
                        /\ rows'[r].state = "writing" => rows'[r].temp
        BY DEF RowRevs, IsRow
    <2>1. rows'[r] = rows[r] /\ IsRow(r)
        BY DEF Still, IsRow
    <2>2. rows[r].group \in GroupIds /\ Exists(rows[r].group)'
        BY <2>1 DEF IInv, TablesFit, RowsFit, RowFits
    <2>3. groups'[rows[r].group].rev = groups[rows[r].group].rev
        BY <2>1, <2>2, StillAt
    <2> QED
        BY <2>1, <2>3 DEF RevsFit, RowRevs
<1> QED
    BY <1>1, <1>2 DEF RevsFit

LEMMA StillIntact ==
    ASSUME IInv, Intact, Still, UNCHANGED files, unlinking' = {}
    PROVE  Intact'
<1>1. \A v \in VideoIds : HasVideo(v)' => HasVideo(v) /\ videos'[v] = videos[v]
    BY DEF Still, HasVideo
<1>2. \A r \in RowIds : (Linked(r) \/ rows[r].state = "published")' =>
          rows'[r] = rows[r] /\ (Linked(r) \/ rows[r].state = "published")
    BY DEF Still, Linked
<1> QED
    BY <1>1, <1>2 DEF Intact

\* Who is pending is there.
LEMMA PendingIsThere ==
    ASSUME IInv, NEW g \in GroupIds, Pending(g)
    PROVE  Exists(g)
BY DEF IInv, Pending, JobFits, Joining, Publishing, Merging, TablesFit, RowsFit, RowFits,
   Waiting, IsRow

LEMMA StillOrderly ==
    ASSUME IInv, IInv', Orderly, Still, InHand',
           \A h \in GroupIds : Pending(h)' => Pending(h) \/ Holds(h)
    PROVE  Orderly'
<1>1. \A r \in RowIds : Waiting(r)' => Waiting(r)
    BY DEF Still, Waiting
<1>2. OneWaits'
    BY <1>1 DEF Orderly, OneWaits
<1>3. NoRival'
    <2> SUFFICES ASSUME NEW g \in GroupIds, NEW h \in GroupIds, g # h,
                        Pending(h)', Holds(g)', Tried(g)'
                 PROVE  PartsOf(g)' \cap PartsOf(h)' = {}
        BY DEF NoRival
    <2>1. Exists(g)' /\ Exists(h)'
        BY PendingIsThere DEF IInv, Holds, Exists, Pending, JobFits, Joining, Publishing, Merging,
           TablesFit, RowsFit, RowFits, Waiting, IsRow
    <2>2. Holds(g) /\ Tried(g) /\ PartsOf(g)' = PartsOf(g)
        BY <2>1, StillAt
    <2>3. Exists(h)
        BY PendingIsThere DEF Holds
    <2>4. PartsOf(h)' = PartsOf(h)
        BY <2>1, <2>3 DEF Still, GroupStill, PartsOf
    <2>5. PartsOf(g) \cap PartsOf(h) = {}
        BY <2>2 DEF Orderly, NoRival, IInv, TablesFit, Disjoint
    <2> QED
        BY <2>2, <2>4, <2>5
<1> QED
    BY <1>2, <1>3 DEF Orderly

\* What a step that publishes nothing has to show for.
LEMMA StillSound ==
    ASSUME IInv, IInv', Sound, Still, JobRevs', revision <= revision',
           request'.digest <= revision',
           NoLosses => NoLosses', NoFaults => NoFaults',
           NoLosses /\ Intact => UNCHANGED files /\ unlinking' = {},
           NoFaults /\ Orderly =>
               InHand' /\ \A h \in GroupIds : Pending(h)' => Pending(h) \/ Holds(h)
    PROVE  Sound'
<1>1. FilesFit' /\ RevsFit'
    BY StillFiles, StillRevs DEF Sound
<1>2. CASE NoLosses /\ Intact
    BY <1>1, <1>2, StillIntact DEF Sound
<1>3. CASE NoFaults /\ Orderly
    BY <1>1, <1>3, StillOrderly DEF Sound
<1> QED
    BY <1>2, <1>3 DEF Sound

\* The expenses only become fewer.
LEMMA PayLess ==
    ASSUME TypeOK, NEW e \in Expenses, Pay(e)
    PROVE  /\ NoLosses => NoLosses' /\ e \notin {"loss", "delete"}
           /\ NoFaults => NoFaults' /\ e # "fault"
<1>1. /\ budget[e] > 0
      /\ \A f \in Expenses : f # e => budget'[f] = budget[f]
    BY DEF TypeOK, Pay
<1> QED
    BY <1>1 DEF NoLosses, NoFaults, Expenses

LEMMA PaidNothing ==
    ASSUME UNCHANGED budget
    PROVE  (NoLosses => NoLosses') /\ (NoFaults => NoFaults')
BY DEF NoLosses, NoFaults

\* Only what the job or the recovery has in hand waits for its link.
LEMMA NothingWaits ==
    ASSUME InHand, job.pc \notin {"staged", "recovering"}
    PROVE  \A r \in RowIds : ~Waiting(r)
BY DEF InHand

\* Steps of users and of the world.
LEMMA UserSound ==
    ASSUME IInv, IInv', Sound, Still, UNCHANGED <<rows, job>>,
           revision <= revision', request'.digest <= revision',
           NoLosses => NoLosses', NoFaults => NoFaults',
           NoLosses /\ Intact => UNCHANGED files /\ unlinking' = {}
    PROVE  Sound'
<1>1. JobRevs'
    <2>1. job.rev <= revision'
        BY Revisions, Constants DEF Sound, RevsFit, JobRevs, IInv, TypeOK
    <2>2. CASE job.pc \in Joining \cup {"writing"}
        <3>1. job.group \in GroupIds /\ Exists(job.group) /\ Exists(job.group)'
            BY <2>2 DEF IInv, JobFits, Joining, Publishing, Merging
        <3>2. groups'[job.group].rev = groups[job.group].rev
            BY <3>1 DEF Still, GroupStill
        <3> QED
            BY <2>1, <2>2, <3>2 DEF Sound, RevsFit, JobRevs, Joining
    <2>3. CASE job.pc \notin Joining \cup {"writing"}
        BY <2>1, <2>3 DEF Sound, RevsFit, JobRevs, Joining
    <2> QED
        BY <2>2, <2>3
<1>2. Orderly => InHand' /\ \A h \in GroupIds : Pending(h)' => Pending(h)
    BY DEF Orderly, InHand, Pending, Waiting
<1> QED
    BY <1>1, <1>2, StillSound

\* The worker ends a job, or takes up one that merges nothing.
LEMMA LeaveSound ==
    ASSUME IInv, IInv', Sound, Still, job'.pc \in {"idle", "detecting"},
           job'.rev <= revision, UNCHANGED <<files, unlinking, revision, request>>,
           NoLosses => NoLosses', NoFaults => NoFaults',
           NoFaults /\ Orderly => \A r \in RowIds : ~Waiting(r)
    PROVE  Sound'
<1>1. JobRevs'
    BY DEF JobRevs, Joining
<1>2. ASSUME \A r \in RowIds : ~Waiting(r)
      PROVE  InHand' /\ \A h \in GroupIds : ~Pending(h)'
    <2>1. \A r \in RowIds : ~Waiting(r)'
        BY <1>2 DEF Still, Waiting
    <2> QED
        BY <2>1 DEF InHand, Pending, Joining
<1>3. revision <= revision' /\ request'.digest <= revision'
    BY Revisions DEF IInv, Sound, RevsFit
<1>4. Intact => UNCHANGED files /\ unlinking' = {}
    BY DEF Intact
<1> QED
    BY <1>1, <1>2, <1>3, <1>4, StillSound

\* The process starts, or the recovery leaves a row as it is.
LEMMA RecoverSound ==
    ASSUME IInv, IInv', Sound, Still, job'.pc = "recovering", job'.rev <= revision,
           UNCHANGED <<files, revision>>, request'.digest <= revision,
           unlinking' \in {unlinking, {}},
           NoLosses => NoLosses', NoFaults => NoFaults',
           NoFaults /\ Orderly => InHand'
    PROVE  Sound'
<1>1. JobRevs'
    BY DEF JobRevs, Joining
<1>2. \A h \in GroupIds : Pending(h)' => Pending(h)
    <2>1. \A r \in RowIds : Waiting(r)' => Waiting(r) /\ rows'[r] = rows[r]
        BY DEF Still, Waiting
    <2> QED
        BY <2>1 DEF Pending, Joining
<1>3. revision <= revision' /\ request'.digest <= revision'
    BY Revisions DEF IInv
<1>4. Intact => UNCHANGED files /\ unlinking' = {}
    BY DEF Intact
<1> QED
    BY <1>1, <1>2, <1>3, <1>4, StillSound

\* Where groups, rows and videos stay, and files too or go.
LEMMA SameIsStill ==
    ASSUME UNCHANGED <<groups, rows, videos>>,
           \A n \in Names : files'[n] \in {files[n], Nothing}
    PROVE  Still
<1>1. \A g \in GroupIds : GroupKept(g)
    BY DEF GroupKept
<1> QED
    BY <1>1, KeptIsStill DEF Still

LEMMA StatusIsStill ==
    ASSUME \A g \in GroupIds : GroupKept(g), UNCHANGED <<videos, files>>,
           \A r \in RowIds : rows'[r] = rows[r] \/ rows'[r].state = "absent"
    PROVE  Still
BY KeptIsStill DEF Still

LEMMA ComputeDigestSound ==
    ASSUME IInv, IInv', Sound, ComputeDigest
    PROVE  Sound'
<1>1. Still
    BY SameIsStill DEF ComputeDigest
<1>2. request'.digest = revision
    <2>1. PICK list \in Lists :
              \/ request' = [NoRequest EXCEPT !.kind = "create", !.list = list,
                                              !.digest = revision]
              \/ \E g \in GroupIds :
                    request' = [kind |-> "regroup", group |-> g, list |-> list,
                                digest |-> revision]
        BY DEF ComputeDigest
    <2>2. CASE request' = [NoRequest EXCEPT !.kind = "create", !.list = list,
                                            !.digest = revision]
        BY <2>2, EmptyRecords DEF Request
    <2>3. ASSUME NEW g \in GroupIds,
                 request' = [kind |-> "regroup", group |-> g, list |-> list,
                             digest |-> revision]
          PROVE  request'.digest = revision
        BY <2>3
    <2> QED
        BY <2>1, <2>2, <2>3
<1>3. (NoLosses => NoLosses') /\ (NoFaults => NoFaults')
    BY PayLess DEF IInv, ComputeDigest, Expenses
<1>4. revision <= revision'
    BY Revisions DEF IInv, ComputeDigest
<1>5. Intact => UNCHANGED files /\ unlinking' = {}
    BY DEF Intact, ComputeDigest
<1> QED
    BY <1>1, <1>2, <1>3, <1>4, <1>5, UserSound DEF ComputeDigest

LEMMA SaveProfileSound ==
    ASSUME IInv, IInv', Sound, SaveProfile
    PROVE  Sound'
<1>1. Still
    BY SameIsStill DEF SaveProfile
<1>2. (NoLosses => NoLosses') /\ (NoFaults => NoFaults')
    BY PayLess DEF IInv, SaveProfile, Expenses
<1>3. revision <= revision' /\ request'.digest <= revision'
    BY Revisions DEF IInv, SaveProfile, Sound, RevsFit
<1>4. Intact => UNCHANGED files /\ unlinking' = {}
    BY DEF Intact, SaveProfile
<1> QED
    BY <1>1, <1>2, <1>3, <1>4, UserSound DEF SaveProfile

LEMMA UploadSound ==
    ASSUME IInv, IInv', Sound, NEW m \in MediaIds, Upload(m)
    PROVE  Sound'
<1>1. Still
    BY SameIsStill DEF Upload
<1>2. (NoLosses => NoLosses') /\ (NoFaults => NoFaults')
    BY PayLess DEF IInv, Upload, Expenses
<1>3. revision <= revision' /\ request'.digest <= revision'
    BY Revisions DEF IInv, Upload, Sound, RevsFit
<1>4. Intact => UNCHANGED files /\ unlinking' = {}
    BY DEF Intact, Upload
<1> QED
    BY <1>1, <1>2, <1>3, <1>4, UserSound DEF Upload

LEMMA LoseSound ==
    ASSUME IInv, IInv', Sound, NEW n \in Names, Lose(n)
    PROVE  Sound'
<1>1. Still
    BY SameIsStill DEF Lose, IInv, TypeOK
<1>2. ~NoLosses /\ (NoFaults => NoFaults')
    BY PayLess DEF IInv, Lose, Expenses
<1>3. revision <= revision' /\ request'.digest <= revision'
    BY Revisions DEF IInv, Lose, Sound, RevsFit
<1> QED
    BY <1>1, <1>2, <1>3, UserSound DEF Lose

LEMMA UnlinkSound ==
    ASSUME IInv, IInv', Sound, NEW n \in Names, Unlink(n)
    PROVE  Sound'
<1>1. Still
    BY SameIsStill DEF Unlink, IInv, TypeOK
<1>2. ~Intact /\ (NoLosses => NoLosses') /\ (NoFaults => NoFaults')
    BY PaidNothing DEF Intact, Unlink
<1>3. revision <= revision' /\ request'.digest <= revision'
    BY Revisions DEF IInv, Unlink, Sound, RevsFit
<1> QED
    BY <1>1, <1>2, <1>3, UserSound DEF Unlink

LEMMA DiscardSound ==
    ASSUME IInv, IInv', Sound, NEW g \in GroupIds, Discard(g)
    PROVE  Sound'
<1>1. groups' = [groups EXCEPT ![g].status = "skipped"] /\ Exists(g)
    BY DEF Discard, Discarded, Editable
<1>2. Still
    BY <1>1, OneStatus, StatusIsStill DEF Statuses, Exists, Discard
<1>3. (NoLosses => NoLosses') /\ (NoFaults => NoFaults')
    BY PayLess DEF IInv, Discard, Expenses
<1>4. revision <= revision' /\ request'.digest <= revision'
    BY Revisions DEF IInv, Discard, Sound, RevsFit
<1>5. Intact => UNCHANGED files /\ unlinking' = {}
    BY DEF Intact, Discard
<1> QED
    BY <1>2, <1>3, <1>4, <1>5, UserSound DEF Discard

LEMMA AdoptSound ==
    ASSUME IInv, IInv', Sound, NEW g \in GroupIds, Adopt(g)
    PROVE  Sound'
<1>1. groups[g] \in Group
    BY DEF IInv, TypeOK
<1>2. groups'[g] = [groups[g] EXCEPT !.adopted = TRUE]
    BY DEF IInv, TypeOK, Adopt
<1>3. GroupKept(g)
    BY <1>1, <1>2 DEF Group, GroupKept
<1>4. \A h \in GroupIds : GroupKept(h)
    BY <1>3 DEF IInv, TypeOK, GroupKept, Adopt
<1>5. Still
    BY <1>4, StatusIsStill DEF Adopt
<1>6. (NoLosses => NoLosses') /\ (NoFaults => NoFaults')
    BY PaidNothing DEF Adopt
<1>7. revision <= revision' /\ request'.digest <= revision'
    BY Revisions DEF IInv, Adopt, Sound, RevsFit
<1>8. Intact => UNCHANGED files /\ unlinking' = {}
    BY DEF Intact, Adopt
<1> QED
    BY <1>5, <1>6, <1>7, <1>8, UserSound DEF Adopt

LEMMA DeleteDiscardedSound ==
    ASSUME IInv, IInv', Sound, NEW g \in GroupIds, DeleteDiscarded(g)
    PROVE  Sound'
<1>1. groups'[g].status = "absent" /\ \A h \in GroupIds : h # g => groups'[h] = groups[h]
    BY EmptyRecords DEF IInv, TypeOK, DeleteDiscarded, NoGroup
<1>2. \A h \in GroupIds : GroupStill(h)
    BY <1>1 DEF GroupStill, Exists, Holds
<1>3. Still
    BY <1>2 DEF Still, DeleteDiscarded
<1>4. (NoLosses => NoLosses') /\ (NoFaults => NoFaults')
    BY PaidNothing DEF DeleteDiscarded
<1>5. revision <= revision' /\ request'.digest <= revision'
    BY Revisions DEF IInv, DeleteDiscarded, Sound, RevsFit
<1>6. Intact => UNCHANGED files /\ unlinking' = {}
    BY DEF Intact, DeleteDiscarded
<1> QED
    BY <1>3, <1>4, <1>5, <1>6, UserSound DEF DeleteDiscarded

LEMMA DeleteVideoSound ==
    ASSUME IInv, IInv', Sound, NEW v \in VideoIds, DeleteVideo(v)
    PROVE  Sound'
<1>1. \A g \in GroupIds : GroupStill(g)
    <2> SUFFICES ASSUME NEW g \in GroupIds, Exists(g)'
                 PROVE  /\ Exists(g)
                        /\ groups'[g].members = groups[g].members
                        /\ groups'[g].rev = groups[g].rev
                        /\ groups'[g].digest = groups[g].digest
                        /\ groups'[g].out \in {groups[g].out, Nobody}
                        /\ Holds(g)' => Holds(g)
        BY DEF GroupStill
    <2> DEFINE kept == IF g = Owner(v) /\ Rank(g) = 0
                       THEN [groups[g] EXCEPT !.status = "skipped"] ELSE groups[g]
    <2>1. groups[g] \in Group
        BY DEF IInv, TypeOK
    <2>2. groups'[g] = IF g \in Pointing(v) THEN [kept EXCEPT !.out = Nobody] ELSE kept
        BY DEF DeleteVideo
    <2>3. /\ kept \in Group /\ kept.members = groups[g].members /\ kept.rev = groups[g].rev
          /\ kept.digest = groups[g].digest /\ kept.out = groups[g].out
          /\ kept.next = groups[g].next
          /\ \/ kept.status = groups[g].status
             \/ g = Owner(v) /\ Rank(g) = 0 /\ kept.status = "skipped"
        BY <2>1 DEF Group, Statuses
    <2> HIDE DEF kept
    <2>4. /\ groups'[g].members = kept.members /\ groups'[g].rev = kept.rev
          /\ groups'[g].digest = kept.digest /\ groups'[g].next = kept.next
          /\ groups'[g].status = kept.status /\ groups'[g].out \in {kept.out, Nobody}
        BY <2>2, <2>3 DEF Group
    <2>5. Owner(v) \in Pointing(v)
        BY OwnerIsFirst DEF DeleteVideo, Deletable
    <2>6. Exists(g)
        BY <2>3, <2>4, <2>5 DEF Exists, Pointing
    <2> QED
        BY <2>3, <2>4, <2>6 DEF Holds, Exists
<1>2. \A w \in VideoIds : videos'[w] = videos[w] \/ ~HasVideo(w)'
    BY DEF IInv, TypeOK, DeleteVideo, HasVideo
<1>3. Still
    BY <1>1, <1>2 DEF Still, DeleteVideo
<1>4. ~NoLosses /\ (NoFaults => NoFaults')
    BY PayLess DEF IInv, DeleteVideo, Expenses
<1>5. revision <= revision' /\ request'.digest <= revision'
    BY Revisions DEF IInv, DeleteVideo, Sound, RevsFit
<1> QED
    BY <1>3, <1>4, <1>5, UserSound DEF DeleteVideo

\* A new group is of a revision that has been.
LEMMA NewGroupStill ==
    ASSUME IInv, NEW n \in GroupIds, ~Exists(n),
           NEW list \in Seq(PartIds), NEW rev \in 1..MaxRevisions,
           NEW digest \in 0..MaxRevisions, digest <= rev, rev <= revision,
           groups'[n] = NewGroup(list, rev, digest),
           \A g \in GroupIds : g # n =>
               \/ groups'[g] = groups[g]
               \/ groups'[g] = [groups[g] EXCEPT !.next = n],
           UNCHANGED <<rows, videos, files>>
    PROVE  Still
<1>1. groups'[n].out = Nobody /\ groups'[n].rev = rev /\ groups'[n].digest = digest
    <2>1. NewGroup(list, rev, digest).digest = digest
        BY EmptyRecords DEF NewGroup, NoGroup
    <2> QED
        BY <2>1, NewGroupType
<1>2. GroupStill(n)
    BY <1>1 DEF GroupStill
<1>3. ASSUME NEW g \in GroupIds, g # n PROVE GroupStill(g)
    <2>1. groups[g] \in Group
        BY DEF IInv, TypeOK
    <2>2. CASE groups'[g] = groups[g]
        BY <2>2 DEF GroupStill, Exists, Holds
    <2>3. CASE groups'[g] = [groups[g] EXCEPT !.next = n]
        <3>1. /\ groups'[g].members = groups[g].members /\ groups'[g].rev = groups[g].rev
              /\ groups'[g].digest = groups[g].digest /\ groups'[g].out = groups[g].out
              /\ groups'[g].status = groups[g].status /\ groups'[g].next = n
            BY <2>1, <2>3 DEF Group
        <3> QED
            BY <3>1 DEF GroupStill, Exists, Holds, GroupIds, Nobody
    <2> QED
        BY <1>3, <2>2, <2>3
<1> QED
    BY <1>2, <1>3 DEF Still

LEMMA CreateManualSound ==
    ASSUME IInv, IInv', Sound, CreateManual
    PROVE  Sound'
<1>1. /\ request.list \in Seq(PartIds) /\ request.digest \in 0..MaxRevisions
      /\ revision \in 1..MaxRevisions /\ request.digest <= revision
    BY ListsAreLists DEF IInv, RequestFits, TypeOK, Request, CreateManual, Sound, RevsFit
<1>2. Still
    <2>1. CASE UNCHANGED groups
        BY <2>1, SameIsStill DEF CreateManual
    <2>2. CASE groups' # groups
        <3>1. PICK n \in FreeGroup : groups' = [groups EXCEPT ![n] =
                  NewGroup(request.list, revision, request.digest)]
            BY <2>2 DEF CreateManual
        <3>2. n \in GroupIds /\ ~Exists(n)
            BY DEF FreeGroup
        <3>3. /\ groups'[n] = NewGroup(request.list, revision, request.digest)
              /\ \A g \in GroupIds : g # n => groups'[g] = groups[g]
            BY <3>1, <3>2 DEF IInv, TypeOK
        <3>4. revision <= revision
            BY <1>1, Constants
        <3> QED
            BY <1>1, <3>2, <3>3, <3>4, NewGroupStill DEF CreateManual
    <2> QED
        BY <2>1, <2>2
<1>3. request'.digest = 0
    BY DEF CreateManual, NoRequest
<1>4. revision <= revision' /\ request'.digest <= revision'
    BY <1>3, Revisions DEF IInv, CreateManual
<1>5. (NoLosses => NoLosses') /\ (NoFaults => NoFaults')
    BY PaidNothing DEF CreateManual
<1>6. Intact => UNCHANGED files /\ unlinking' = {}
    BY DEF Intact, CreateManual
<1> QED
    BY <1>2, <1>4, <1>5, <1>6, UserSound DEF CreateManual

LEMMA RegroupSound ==
    ASSUME IInv, IInv', Sound, Regroup
    PROVE  Sound'
<1>1. /\ request.list \in Seq(PartIds) /\ request.digest \in 0..MaxRevisions
      /\ revision \in 1..MaxRevisions /\ request.digest <= revision
      /\ request.group \in GroupIds
    BY ListsAreLists DEF IInv, RequestFits, TypeOK, Request, Regroup, Sound, RevsFit
<1>2. Still
    <2>1. CASE UNCHANGED <<groups, upload>>
        BY <2>1, SameIsStill DEF Regroup
    <2>2. CASE ~UNCHANGED <<groups, upload>>
        <3> DEFINE g == request.group
                   new == NewGroup(request.list, revision, request.digest)
        <3>1. Editable(g) /\ \E n \in FreeGroup : groups' = [groups EXCEPT ![g].next = n, ![n] = new]
            BY <2>2 DEF Regroup
        <3>2. PICK n \in FreeGroup : groups' = [groups EXCEPT ![g].next = n, ![n] = new]
            BY <3>1
        <3>3. n \in GroupIds /\ ~Exists(n) /\ g # n
            BY <3>1 DEF FreeGroup, Editable
        <3>4. /\ groups'[n] = new /\ groups'[g] = [groups[g] EXCEPT !.next = n]
              /\ \A h \in GroupIds \ {g, n} : groups'[h] = groups[h]
            BY <1>1, <3>2, <3>3 DEF IInv, TypeOK
        <3>5. revision <= revision
            BY <1>1, Constants
        <3>6. \A h \in GroupIds : h # n => \/ groups'[h] = groups[h]
                                           \/ groups'[h] = [groups[h] EXCEPT !.next = n]
            BY <3>4
        <3> QED
            BY <1>1, <3>3, <3>4, <3>5, <3>6, NewGroupStill DEF Regroup
    <2> QED
        BY <2>1, <2>2
<1>3. request'.digest = 0
    BY DEF Regroup, NoRequest
<1>4. revision <= revision' /\ request'.digest <= revision'
    BY <1>3, Revisions DEF IInv, Regroup
<1>5. (NoLosses => NoLosses') /\ (NoFaults => NoFaults')
    BY PaidNothing DEF Regroup
<1>6. Intact => UNCHANGED files /\ unlinking' = {}
    BY DEF Intact, Regroup
<1> QED
    BY <1>2, <1>4, <1>5, <1>6, UserSound DEF Regroup

\* The job ends before anything was staged, or after the commit.
LEMMA JobEndsSound ==
    ASSUME IInv, IInv', Sound, Idle, job.pc \in Joining \cup {"writing", "committed"},
           NEW target \in {"detected", "failed", "merged"}, Leave(job.group, target),
           IF job.pc = "writing" THEN rows' = [rows EXCEPT ![job.row] = NoRow]
                                 ELSE UNCHANGED rows,
           UNCHANGED <<videos, files, upload, revision, request, unlinking>>,
           NoLosses => NoLosses', NoFaults => NoFaults'
    PROVE  Sound'
<1>1. PICK g \in GroupIds : g = job.group
    BY DEF IInv, JobFits, Merging, Publishing
<1>2. \A h \in GroupIds : GroupKept(h)
    BY <1>1, LeaveGroup
<1>3. \A r \in RowIds : rows'[r] = rows[r] \/ rows'[r].state = "absent"
    <2>1. CASE job.pc = "writing"
        BY <2>1, EmptyRecords DEF IInv, TypeOK, NoRow, JobFits, Publishing
    <2>2. CASE job.pc # "writing"
        BY <2>2
    <2> QED
        BY <2>1, <2>2
<1>4. Still
    BY <1>2, <1>3, StatusIsStill
<1>5. job'.pc = "idle" /\ job'.rev <= revision
    BY Revisions DEF IInv, Idle, NoJob
<1>6. Orderly => \A r \in RowIds : ~Waiting(r)
    BY NothingWaits DEF Orderly, Joining
<1> QED
    BY <1>4, <1>5, <1>6, LeaveSound

LEMMA MergeFailsSound ==
    ASSUME IInv, IInv', Sound, MergeFails
    PROVE  Sound'
<1>1. (NoLosses => NoLosses') /\ (NoFaults => NoFaults')
    BY PayLess DEF IInv, MergeFails, Expenses
<1> QED
    BY <1>1, JobEndsSound DEF MergeFails, Joining

LEMMA MergeCancelledSound ==
    ASSUME IInv, IInv', Sound, MergeCancelled
    PROVE  Sound'
<1>1. (NoLosses => NoLosses') /\ (NoFaults => NoFaults')
    BY PayLess DEF IInv, MergeCancelled, Expenses
<1> QED
    BY <1>1, JobEndsSound DEF MergeCancelled, Joining

LEMMA StagingFailsSound ==
    ASSUME IInv, IInv', Sound, StagingFails
    PROVE  Sound'
<1>1. (NoLosses => NoLosses') /\ (NoFaults => NoFaults')
    BY PayLess DEF IInv, StagingFails, Expenses
<1> QED
    BY <1>1, JobEndsSound DEF StagingFails, Joining

LEMMA MarkMergedSound ==
    ASSUME IInv, IInv', Sound, MarkMerged
    PROVE  Sound'
<1>1. PICK target \in {"detected", "failed", "merged"} : Leave(job.group, target)
    BY DEF MarkMerged
<1>2. (NoLosses => NoLosses') /\ (NoFaults => NoFaults')
    BY PaidNothing DEF MarkMerged
<1> QED
    BY <1>1, <1>2, JobEndsSound DEF MarkMerged, Joining

LEMMA PublishInterruptedSound ==
    ASSUME IInv, IInv', Sound, PublishInterrupted
    PROVE  Sound'
<1>1. Still
    BY SameIsStill DEF PublishInterrupted
<1>2. job'.pc = "idle" /\ job'.rev <= revision
    BY Revisions DEF IInv, Idle, NoJob, PublishInterrupted
<1>3. (NoLosses => NoLosses') /\ ~NoFaults
    BY PayLess DEF IInv, PublishInterrupted, Expenses
<1> QED
    BY <1>1, <1>2, <1>3, LeaveSound DEF PublishInterrupted

LEMMA StartDetectSound ==
    ASSUME IInv, IInv', Sound, StartDetect
    PROVE  Sound'
<1>1. Still
    BY SameIsStill DEF StartDetect
<1>2. job'.pc = "detecting" /\ job'.rev <= revision
    <2>1. PICK rev \in 1..revision : \E s \in Candidates({p \in PartIds : Taken(p)}) :
              job' = [NoJob EXCEPT !.pc = "detecting", !.rev = rev, !.todo = s]
        BY DEF StartDetect
    <2>2. job'.pc = "detecting" /\ job'.rev = rev
        BY <2>1, EmptyRecords DEF Job
    <2> QED
        BY <2>2, Revisions DEF IInv
<1>3. (NoLosses => NoLosses') /\ (NoFaults => NoFaults')
    BY PayLess DEF IInv, StartDetect, Expenses
<1>4. Orderly => \A r \in RowIds : ~Waiting(r)
    BY NothingWaits DEF Orderly, StartDetect
<1> QED
    BY <1>1, <1>2, <1>3, <1>4, LeaveSound DEF StartDetect

LEMMA SaveDetectedSound ==
    ASSUME IInv, IInv', Sound, SaveDetected
    PROVE  Sound'
<1>1. /\ job.pc = "detecting" /\ job.todo \in Seq(Seq(PartIds)) /\ job.rev \in 1..MaxRevisions
      /\ job.rev \in 0..MaxRevisions /\ job.rev <= revision /\ job.rev <= job.rev
    <2>1. job.rev \in 0..MaxRevisions /\ job.rev # 0 /\ job.todo \in Seq(Seq(PartIds))
        BY DEF IInv, TypeOK, Job, JobFits, SaveDetected
    <2> QED
        BY <2>1, Constants DEF SaveDetected, Sound, RevsFit, JobRevs
<1>2. Still
    <2>1. CASE UNCHANGED groups
        BY <2>1, SameIsStill DEF SaveDetected
    <2>2. CASE groups' # groups
        <3> DEFINE list == Head(job.todo)
        <3>1. job.todo # <<>> /\ \E n \in FreeGroup : groups' = [groups EXCEPT ![n] =
                                                   NewGroup(list, job.rev, job.rev)]
            BY <2>2 DEF SaveDetected
        <3>2. PICK n \in FreeGroup : groups' = [groups EXCEPT ![n] =
                                                   NewGroup(list, job.rev, job.rev)]
            BY <3>1
        <3>3. list \in Seq(PartIds)
            BY <1>1, <3>1, HeadTailProperties
        <3>4. n \in GroupIds /\ ~Exists(n)
            BY DEF FreeGroup
        <3>5. /\ groups'[n] = NewGroup(list, job.rev, job.rev)
              /\ \A g \in GroupIds : g # n => groups'[g] = groups[g]
            BY <3>2, <3>4 DEF IInv, TypeOK
        <3> HIDE DEF list
        <3> QED
            BY <1>1, <3>3, <3>4, <3>5, NewGroupStill DEF SaveDetected
    <2> QED
        BY <2>1, <2>2
<1>3. job'.pc \in {"idle", "detecting"} /\ job'.rev <= revision
    <2>1. CASE job.todo = <<>>
        BY <2>1, Revisions DEF SaveDetected, NoJob, IInv
    <2>2. CASE job.todo # <<>>
        <3>1. job'.pc = "detecting" /\ job'.rev = job.rev
            BY <1>1, <2>2 DEF SaveDetected, IInv, TypeOK, Job
        <3> QED
            BY <1>1, <3>1
    <2> QED
        BY <2>1, <2>2
<1>4. (NoLosses => NoLosses') /\ (NoFaults => NoFaults')
    BY PaidNothing DEF SaveDetected
<1>5. Orderly => \A r \in RowIds : ~Waiting(r)
    BY NothingWaits DEF Orderly, SaveDetected
<1> QED
    BY <1>2, <1>3, <1>4, <1>5, LeaveSound DEF SaveDetected

LEMMA SettleMergesSound ==
    ASSUME IInv, IInv', Sound, SettleMerges
    PROVE  Sound'
<1>1. \A g \in GroupIds : GroupKept(g)
    <2> SUFFICES ASSUME NEW g \in GroupIds PROVE GroupKept(g)
        OBVIOUS
    <2>1. groups[g] \in Group
        BY DEF IInv, TypeOK
    <2>2. groups'[g] = IF groups[g].status = "merging" /\ g \notin Blocked
                       THEN [groups[g] EXCEPT !.status =
                                IF groups[g].out # Nobody THEN "merged" ELSE "detected"]
                       ELSE groups[g]
        BY DEF SettleMerges
    <2> QED
        BY <2>1, <2>2 DEF Group, GroupKept
<1>2. Still
    BY <1>1, StatusIsStill DEF SettleMerges
<1>3. job'.pc = "idle" /\ job'.rev <= revision
    BY Revisions DEF IInv, Idle, NoJob, SettleMerges
<1>4. (NoLosses => NoLosses') /\ (NoFaults => NoFaults')
    BY PaidNothing DEF SettleMerges
<1>5. Orderly => \A r \in RowIds : ~Waiting(r)
    BY DEF Orderly, InHand, SettleMerges
<1> QED
    BY <1>2, <1>3, <1>4, <1>5, LeaveSound DEF SettleMerges

LEMMA RestartSound ==
    ASSUME IInv, IInv', Sound, Restart
    PROVE  Sound'
<1>1. Still
    BY SameIsStill DEF Restart
<1>2. job'.pc = "recovering" /\ job'.rev = 0 /\ job'.rows = Recoverable
    BY DEF Restart, NoJob
<1>3. request'.digest = 0
    BY DEF Restart, NoRequest
<1>4. InHand'
    BY <1>2 DEF InHand, Waiting, Recoverable, Restart
<1>5. (NoLosses => NoLosses') /\ (NoFaults => NoFaults')
    BY PayLess DEF IInv, Restart, Expenses
<1>6. job'.rev <= revision /\ request'.digest <= revision
    BY <1>2, <1>3, Revisions DEF IInv
<1> QED
    BY <1>1, <1>2, <1>4, <1>5, <1>6, RecoverSound DEF Restart

\* The recovery goes on: what has been dealt with does not wait any more.
LEMMA StillInHand ==
    ASSUME InHand, Still, NEW r \in RowIds, job.pc = "recovering",
           job'.pc = "recovering", job'.rows = job.rows \ {r}, ~Waiting(r)'
    PROVE  InHand'
BY DEF InHand, Still, Waiting

LEMMA DiscardWritingSound ==
    ASSUME IInv, IInv', Sound, NEW r \in RowIds, DiscardWriting(r)
    PROVE  Sound'
<1>1. job'.pc = "recovering" /\ job'.rows = job.rows \ {r} /\ job'.rev = job.rev
    BY DEF IInv, TypeOK, Job, Recovered, DiscardWriting
<1>2. rows'[r].state = "absent" /\ \A s \in RowIds : s # r => rows'[s] = rows[s]
    BY EmptyRecords DEF NoRow, IInv, TypeOK, DiscardWriting
<1>3. Still
    <2>1. \A g \in GroupIds : GroupKept(g)
        BY DEF GroupKept, DiscardWriting
    <2> QED
        BY <1>2, <2>1, StatusIsStill DEF DiscardWriting
<1>4. Orderly => InHand'
    BY <1>1, <1>2, <1>3, StillInHand DEF Orderly, Waiting, DiscardWriting
<1>5. (NoLosses => NoLosses') /\ (NoFaults => NoFaults')
    BY PaidNothing DEF DiscardWriting
<1>6. job'.rev <= revision /\ request'.digest <= revision
    BY <1>1 DEF Sound, RevsFit, JobRevs, DiscardWriting
<1> QED
    BY <1>1, <1>3, <1>4, <1>5, <1>6, RecoverSound DEF DiscardWriting

LEMMA ResumeFailsSound ==
    ASSUME IInv, IInv', Sound, NEW r \in RowIds, ResumeFails(r)
    PROVE  Sound'
<1>1. job'.pc = "recovering" /\ job'.rows = job.rows \ {r} /\ job'.rev = job.rev
    BY DEF IInv, TypeOK, Job, Recovered, ResumeFails
<1>2. Still
    BY SameIsStill DEF ResumeFails
<1>3. /\ NoLosses => NoLosses'
      /\ NoFaults => NoFaults' /\ ~rows[r].temp
    <2>1. CASE ~rows[r].temp /\ UNCHANGED budget
        BY <2>1, PaidNothing
    <2>2. CASE Pay("fault")
        BY <2>2, PayLess DEF IInv, Expenses
    <2> QED
        BY <2>1, <2>2 DEF ResumeFails
<1>4. NoFaults /\ Orderly => InHand'
    BY <1>1, <1>2, <1>3, StillInHand DEF Orderly, Waiting, ResumeFails
<1>5. job'.rev <= revision /\ request'.digest <= revision
    BY <1>1 DEF Sound, RevsFit, JobRevs, ResumeFails
<1> QED
    BY <1>1, <1>2, <1>3, <1>4, <1>5, RecoverSound DEF ResumeFails

LEMMA StartMergeSound ==
    ASSUME IInv, IInv', Sound, NEW g \in GroupIds, StartMerge(g)
    PROVE  Sound'
<1>1. groups[g] \in Group /\ Holds(g) /\ groups[g].status \in {"detected", "failed"}
    BY DEF IInv, TypeOK, StartMerge
<1>2. \A h \in GroupIds : GroupKept(h)
    BY <1>1, OneStatus DEF StartMerge, Statuses
<1>3. Still
    BY <1>2, StatusIsStill DEF StartMerge
<1>4. job'.pc = "joining" /\ job'.group = g /\ job'.rev = groups[g].rev
    BY DEF StartMerge, NoJob
<1>5. JobRevs'
    <2>1. groups'[g].rev = groups[g].rev
        BY <1>2 DEF GroupKept
    <2>2. groups[g].rev <= revision
        BY <1>1 DEF Sound, RevsFit, GroupRevs, Holds
    <2> QED
        BY <1>4, <2>1, <2>2 DEF JobRevs, StartMerge
<1>6. ASSUME Orderly
      PROVE  InHand' /\ \A h \in GroupIds : Pending(h)' => Pending(h) \/ Holds(h)
    <2>1. \A r \in RowIds : ~Waiting(r)'
        BY <1>6, NothingWaits DEF Orderly, StartMerge, Waiting
    <2> QED
        BY <1>1, <1>4, <2>1 DEF InHand, Pending
<1>7. (NoLosses => NoLosses') /\ (NoFaults => NoFaults')
    BY PayLess DEF IInv, StartMerge, Expenses
<1>8. revision <= revision' /\ request'.digest <= revision'
    BY Revisions DEF IInv, StartMerge, Sound, RevsFit
<1>9. Intact => UNCHANGED files /\ unlinking' = {}
    BY DEF Intact, StartMerge
<1> QED
    BY <1>3, <1>5, <1>6, <1>7, <1>8, <1>9, StillSound

LEMMA RecordVerificationSound ==
    ASSUME IInv, IInv', Sound, RecordVerification
    PROVE  Sound'
<1>1. PICK g \in GroupIds : g = job.group
    BY DEF IInv, JobFits, RecordVerification, Joining, Merging
<1>2. (NoLosses => NoLosses') /\ (NoFaults => NoFaults')
    BY PaidNothing DEF RecordVerification
<1>3. CASE ~(groups[g].status = "merging" /\ groups[g].next = Nobody)
    <2>1. Leave(g, "failed") /\ Idle
        BY <1>1, <1>3 DEF RecordVerification
    <2> QED
        BY <1>1, <1>2, <2>1, JobEndsSound DEF RecordVerification, Joining
<1>4. CASE groups[g].status = "merging" /\ groups[g].next = Nobody
    <2>1. PICK verdict \in {"passed", "failed"}, take \in 1..Takes :
              /\ groups' = [groups EXCEPT ![g].verified = verdict]
              /\ job' = [job EXCEPT !.pc = "verified",
                                    !.made = [of |-> groups[g].members,
                                              rev |-> job.rev, take |-> take]]
        BY <1>1, <1>4 DEF RecordVerification
    <2>2. groups[g] \in Group
        BY DEF IInv, TypeOK
    <2>3. GroupKept(g)
        <3>1. groups'[g] = [groups[g] EXCEPT !.verified = verdict]
            BY <2>1 DEF IInv, TypeOK
        <3> QED
            BY <2>2, <3>1 DEF Group, GroupKept
    <2>4. \A h \in GroupIds : GroupKept(h)
        BY <2>1, <2>3 DEF IInv, TypeOK, GroupKept
    <2>5. Still
        BY <2>4, StatusIsStill DEF RecordVerification
    <2>6. /\ job'.pc = "verified" /\ job'.group = g /\ job'.rev = job.rev
          /\ job'.made.rev = job.rev
        BY <1>1, <2>1 DEF IInv, TypeOK, Job
    <2>7. JobRevs'
        <3>1. groups'[g].rev = groups[g].rev
            BY <2>3 DEF GroupKept
        <3> QED
            BY <1>1, <2>6, <3>1 DEF Sound, RevsFit, JobRevs, Joining, RecordVerification
    <2>8. ASSUME Orderly
          PROVE  InHand' /\ \A h \in GroupIds : Pending(h)' => Pending(h)
        <3>1. \A r \in RowIds : ~Waiting(r)'
            BY <2>8, NothingWaits DEF Orderly, RecordVerification, Waiting
        <3> QED
            BY <1>1, <2>6, <3>1 DEF InHand, Pending, RecordVerification, Joining
    <2>9. revision <= revision' /\ request'.digest <= revision'
        <3>1. UNCHANGED <<revision, request>>
            BY DEF RecordVerification
        <3> QED
            BY <3>1, Revisions DEF IInv, Sound, RevsFit
    <2>10. Intact => UNCHANGED files /\ unlinking' = {}
        BY DEF Intact, RecordVerification
    <2> QED
        BY <1>2, <2>5, <2>7, <2>8, <2>9, <2>10, StillSound
<1> QED
    BY <1>3, <1>4

-----------------------------------------------------------------------------
(* Steps of a publication                                                  *)

\* A group's members and rules are there and not empty; what its row holds is
\* something.
LEMMA RowOfGroup ==
    ASSUME IInv, NEW r \in RowIds, IsRow(r)
    PROVE  /\ RowFits(r) /\ rows[r].group \in GroupIds
           /\ groups[rows[r].group].members \in Seq(PartIds)
           /\ groups[rows[r].group].members # <<>>
           /\ rows[r].state \in {"staged", "published"} => rows[r].made # Nothing
<1>1. RowFits(r) /\ rows[r].group \in GroupIds
    BY DEF IInv, TablesFit, RowsFit, RowFits
<1>2. /\ groups[rows[r].group].members \in Seq(PartIds)
      /\ groups[rows[r].group].members # <<>>
    BY <1>1 DEF IInv, TypeOK, Group, RowFits, TablesFit, MembersFit
<1> QED
    BY <1>1, <1>2 DEF RowFits, Nothing

\* Who has a video at a name is named after its ends.
LEMMA AtIsNamed ==
    ASSUME IInv, NEW g \in GroupIds, Exists(g), NEW n \in Names, At(g, n)
    PROVE  /\ groups[g].members \in Seq(PartIds) /\ groups[g].members # <<>>
           /\ n[1] = groups[g].members[1]
           /\ n[1] \in PartsOf(g)
<1>1. groups[g].members \in Seq(PartIds) /\ groups[g].members # <<>>
    BY DEF IInv, TypeOK, Group, TablesFit, MembersFit
<1>2. n[1] = groups[g].members[1]
    <2>1. CASE groups[g].out # Nobody /\ videos[groups[g].out].name = n
        BY <2>1 DEF IInv, TablesFit, GroupsFit, OutputFits, Named
    <2>2. CASE \E r \in RowIds : Linked(r) /\ rows[r].group = g /\ rows[r].name = n
        BY <2>2 DEF IInv, TablesFit, RowsFit, RowFits, Named, Linked, IsRow
    <2> QED
        BY <2>1, <2>2 DEF At
<1> QED
    BY <1>1, <1>2, Ends DEF PartsOf, InList

\* A file that is linked where another group in force has its own is the same.
LEMMA NoClash ==
    ASSUME IInv, Sound, NEW r \in RowIds, rows[r].state = "staged",
           NEW n \in Names, n[1] = rows[r].name[1], Fits(r, n), Pending(rows[r].group),
           NEW g \in GroupIds, g # rows[r].group, Holds(g), At(g, n)
    PROVE  files[n] = rows[r].made
<1> DEFINE h == rows[r].group
<1>1. /\ RowFits(r) /\ h \in GroupIds
      /\ groups[h].members \in Seq(PartIds) /\ groups[h].members # <<>>
    BY RowOfGroup DEF IsRow
<1>2. CASE NoLosses /\ Intact
    <2>1. CASE groups[g].out # Nobody /\ videos[groups[g].out].name = n
        <3>1. HasVideo(groups[g].out) /\ groups[g].out \in VideoIds
            BY <2>1 DEF IInv, TypeOK, Group, TablesFit, GroupsFit, OutputFits
        <3> QED
            BY <1>2, <2>1, <3>1 DEF Intact, Fits
    <2>2. CASE \E s \in RowIds : Linked(s) /\ rows[s].group = g /\ rows[s].name = n
        BY <1>2, <2>2 DEF Intact, Fits
    <2> QED
        BY <2>1, <2>2 DEF At
<1>3. CASE NoFaults /\ Orderly
    <2>1. PartsOf(g) \cap PartsOf(h) = {}
        BY <1>1, <1>3, AtIsTried DEF Orderly, NoRival
    <2>2. n[1] \in PartsOf(g)
        BY AtIsNamed DEF Holds
    <2>3. n[1] \in PartsOf(h)
        <3>1. n[1] = groups[h].members[1]
            BY <1>1 DEF RowFits, Named
        <3> QED
            BY <1>1, <3>1, Ends DEF PartsOf, InList
    <2> QED
        BY <2>1, <2>2, <2>3
<1> QED
    BY <1>2, <1>3 DEF Sound

\* One row and its group get as far as the name n; the others stay as they are.
Gained(r, n) ==
    \A g \in GroupIds :
        /\ groups'[g].members = groups[g].members /\ groups'[g].rev = groups[g].rev
        /\ groups'[g].digest = groups[g].digest
        /\ Exists(g)' <=> Exists(g)
        /\ Holds(g)' <=> Holds(g)
        /\ PartsOf(g)' = PartsOf(g)
        /\ \A m \in Names : At(g, m)' => At(g, m) \/ (g = rows[r].group /\ m = n)

LEMMA GainedFiles ==
    ASSUME FilesFit, NEW r \in RowIds, NEW n \in Names, Gained(r, n),
           \A m \in Names : m # n => files'[m] = files[m],
           Holds(rows[r].group) => files'[n] = Nothing \/ MadeFor(files'[n], rows[r].group),
           \A g \in GroupIds : g # rows[r].group /\ Holds(g) /\ At(g, n) =>
               files'[n] = files[n]
    PROVE  FilesFit'
<1> SUFFICES ASSUME NEW g \in GroupIds, Holds(g)', NEW m \in Names, At(g, m)'
             PROVE  files'[m] = Nothing \/ MadeFor(files[m], g)'
    BY DEF FilesFit
<1>1. /\ Holds(g)
      /\ At(g, m) \/ (g = rows[r].group /\ m = n)
      /\ groups'[g].members = groups[g].members /\ groups'[g].rev = groups[g].rev
    BY DEF Gained
<1>2. CASE At(g, m) /\ (g # rows[r].group \/ m # n)
    <2>1. files'[m] = files[m] /\ (files[m] = Nothing \/ MadeFor(files[m], g))
        BY <1>1, <1>2 DEF FilesFit
    <2> QED
        BY <1>1, <2>1 DEF MadeFor
<1>3. CASE g = rows[r].group /\ m = n
    BY <1>1, <1>3 DEF MadeFor
<1> QED
    BY <1>1, <1>2, <1>3

LEMMA GainedRevs ==
    ASSUME IInv, RevsFit, NEW r, NEW n, Gained(r, n), UNCHANGED <<revision, request>>,
           RowRevs', JobRevs'
    PROVE  RevsFit'
BY DEF RevsFit, GroupRevs, Gained

\* Nothing is in the hands of anybody, once the link is there.
LEMMA NonePending ==
    ASSUME job'.pc \in {"linked", "committed", "recovering"},
           \A r \in RowIds : ~Waiting(r)'
    PROVE  Orderly'
BY DEF Orderly, InHand, OneWaits, NoRival, Pending, Joining

LEMMA GainedIntact ==
    ASSUME Intact, NEW r \in RowIds, NEW n \in Names, UNCHANGED unlinking,
           \A m \in Names : files[m] # Nothing => files'[m] # Nothing,
           \A v \in VideoIds : HasVideo(v)' =>
               \/ HasVideo(v) /\ videos'[v] = videos[v]
               \/ videos'[v].name = n,
           \A s \in RowIds : s # r => rows'[s] = rows[s], rows'[r].name = n,
           files'[n] # Nothing, TypeOK
    PROVE  Intact'
<1>1. \A v \in VideoIds : videos[v].name \in Names
    BY DEF TypeOK, Video
<1>2. \A s \in RowIds : rows[s].name \in Names
    BY DEF TypeOK, Row
<1>3. unlinking' = {}
    BY DEF Intact
<1>4. \A v \in VideoIds : HasVideo(v)' => files'[videos'[v].name] # Nothing
    BY <1>1 DEF Intact
<1>5. \A s \in RowIds : (Linked(s) \/ rows[s].state = "published")' =>
                            files'[rows'[s].name] # Nothing
    BY <1>2 DEF Intact, Linked
<1> QED
    BY <1>3, <1>4, <1>5 DEF Intact

\* What entering a row in the catalogue changes of groups and videos.
LEMMA EnteredGains ==
    ASSUME IInv, NEW r \in RowIds, rows[r].state \in {"staged", "published"},
           NEW n \in Names, CommitRow(r, n), rows'[r].state = "published",
           \A s \in RowIds : s # r => rows'[s] = rows[s]
    PROVE  /\ Gained(r, n)
           /\ \A v \in VideoIds : HasVideo(v)' =>
                  \/ HasVideo(v) /\ videos'[v] = videos[v]
                  \/ videos'[v].name = n
           /\ \A g \in GroupIds : groups'[g].out # Nobody =>
                  groups[g].out # Nobody \/ g = rows[r].group
<1> DEFINE h == rows[r].group
<1>1. PICK v \in VideoIds : v # Nobody /\ Entered(r, n, v)
    BY CommittedRow DEF IInv
<1>2. RowFits(r) /\ h \in GroupIds
    BY CommittedRow DEF IInv
<1>3. \A g \in GroupIds :
        /\ groups'[g].members = groups[g].members /\ groups'[g].rev = groups[g].rev
        /\ groups'[g].digest = groups[g].digest
        /\ groups'[g].status = groups[g].status /\ groups'[g].next = groups[g].next
    BY <1>1 DEF Entered
<1>4. \A g \in GroupIds : g # h => groups'[g].out = groups[g].out
    BY <1>1 DEF Entered
<1>5. videos'[v].name = n /\ groups'[h].out = v
    BY <1>1 DEF Entered
<1>6. \A w \in VideoIds : HasVideo(w) => videos'[w] = videos[w]
    BY <1>1 DEF Entered
<1>7. \A w \in VideoIds : w # v => videos'[w] = videos[w]
    BY <1>1 DEF Entered
<1> HIDE DEF h
<1>8. ASSUME NEW g \in GroupIds, NEW m \in Names, At(g, m)'
      PROVE  At(g, m) \/ (g = h /\ m = n)
    <2>1. \A s \in RowIds : Linked(s)' => Linked(s) /\ rows'[s] = rows[s]
        BY DEF Linked
    <2>2. CASE groups'[g].out # Nobody /\ videos'[groups'[g].out].name = m
        <3>1. CASE g = h
            BY <1>5, <2>2, <3>1
        <3>2. CASE g # h
            <4>1. groups[g].out \in VideoIds /\ HasVideo(groups[g].out)
                BY <1>4, <2>2, <3>2 DEF IInv, TypeOK, Group, TablesFit, GroupsFit, OutputFits
            <4> QED
                BY <1>4, <1>6, <2>2, <3>2, <4>1 DEF At
        <3> QED
            BY <3>1, <3>2
    <2>3. CASE \E s \in RowIds : Linked(s)' /\ rows'[s].group = g /\ rows'[s].name = m
        BY <2>1, <2>3 DEF At
    <2> QED
        BY <1>8, <2>2, <2>3 DEF At
<1>9. Gained(r, n)
    BY <1>3, <1>8 DEF Gained, Exists, Holds, PartsOf, h
<1>10. \A w \in VideoIds : HasVideo(w)' =>
           (HasVideo(w) /\ videos'[w] = videos[w]) \/ videos'[w].name = n
    BY <1>5, <1>7 DEF HasVideo
<1> QED
    BY <1>4, <1>9, <1>10 DEF h

\* A row is written or staged: nothing is linked yet.
LEMMA SameAt ==
    ASSUME FilesFit, UNCHANGED <<groups, videos, files, unlinking>>,
           \A s \in RowIds : (Linked(s) \/ rows[s].state = "published")' =>
               (Linked(s) \/ rows[s].state = "published") /\ rows'[s] = rows[s]
    PROVE  FilesFit' /\ (Intact => Intact')
<1>1. \A s \in RowIds : Linked(s)' => Linked(s) /\ rows'[s] = rows[s]
    BY DEF Linked
<1>2. \A g \in GroupIds, n \in Names : At(g, n)' => At(g, n)
    BY <1>1 DEF At
<1>3. FilesFit'
    BY <1>2 DEF FilesFit, Holds, Exists, MadeFor
<1> QED
    BY <1>3 DEF Intact, HasVideo

LEMMA InsertRowSound ==
    ASSUME IInv, IInv', Sound, InsertRow
    PROVE  Sound'
<1>1. PICK r \in FreeRow :
          /\ rows' = [rows EXCEPT ![r] = [NoRow EXCEPT !.state = "writing",
                                                       !.group = job.group,
                                                       !.temp = TRUE]]
          /\ job' = [job EXCEPT !.pc = "writing", !.row = r]
    BY DEF InsertRow
<1>2. PICK g \in GroupIds : g = job.group
    BY DEF IInv, JobFits, InsertRow, Joining, Merging
<1>3. r \in RowIds /\ rows[r].state = "absent"
    BY <1>1 DEF FreeRow
<1>4. /\ rows'[r].state = "writing" /\ rows'[r].group = g /\ rows'[r].temp = TRUE
      /\ \A s \in RowIds : s # r => rows'[s] = rows[s]
    <2> DEFINE new == [NoRow EXCEPT !.state = "writing", !.group = g, !.temp = TRUE]
    <2>1. new.state = "writing" /\ new.group = g /\ new.temp = TRUE
        BY EmptyRecords DEF Row
    <2>2. rows' = [rows EXCEPT ![r] = new]
        BY <1>1, <1>2
    <2> HIDE DEF new
    <2> QED
        BY <1>3, <2>1, <2>2 DEF IInv, TypeOK
<1>5. /\ job'.pc = "writing" /\ job'.row = r /\ job'.group = g
      /\ job'.made = job.made /\ job'.rev = job.rev
    BY <1>1, <1>2 DEF IInv, TypeOK, Job
<1>6. /\ UNCHANGED <<groups, videos, files, unlinking, revision, request, budget>>
      /\ job.pc = "verified"
    BY DEF InsertRow
<1>7. FilesFit' /\ (Intact => Intact')
    BY <1>4, <1>6, SameAt DEF Linked, Sound
<1>8. RevsFit'
    <2>1. RowRevs' /\ GroupRevs'
        BY <1>4, <1>6 DEF Sound, RevsFit, RowRevs, GroupRevs, Exists
    <2>2. JobRevs'
        BY <1>2, <1>5, <1>6 DEF Sound, RevsFit, JobRevs, Joining
    <2> QED
        BY <1>6, <2>1, <2>2 DEF Sound, RevsFit
<1>9. ASSUME Orderly PROVE Orderly'
    <2>1. \A s \in RowIds : ~Waiting(s)'
        BY <1>4, <1>6, <1>9, NothingWaits DEF Orderly, Waiting
    <2>2. ASSUME NEW a \in GroupIds, NEW b \in GroupIds, a # b,
                 Pending(b)', Holds(a)', Tried(a)'
          PROVE  PartsOf(a)' \cap PartsOf(b)' = {}
        <3>1. b = g /\ Pending(b)
            BY <1>2, <1>5, <1>6, <2>1, <2>2 DEF Pending, Joining
        <3>2. Holds(a) /\ Tried(a)
            BY <1>4, <1>6, <2>2, <3>1 DEF Holds, Exists, Tried, IsRow
        <3>3. PartsOf(a) \cap PartsOf(b) = {}
            BY <1>9, <2>2, <3>1, <3>2 DEF Orderly, NoRival
        <3>4. PartsOf(a)' = PartsOf(a) /\ PartsOf(b)' = PartsOf(b)
            BY <1>6 DEF PartsOf
        <3> QED
            BY <3>3, <3>4
    <2> QED
        BY <2>1, <2>2 DEF Orderly, InHand, OneWaits, NoRival
<1>10. (NoLosses => NoLosses') /\ (NoFaults => NoFaults')
    BY <1>6, PaidNothing
<1> QED
    BY <1>7, <1>8, <1>9, <1>10 DEF Sound

LEMMA StageSound ==
    ASSUME IInv, IInv', Sound, Stage
    PROVE  Sound'
<1>1. PICK g \in GroupIds, r \in RowIds : g = job.group /\ r = job.row
    BY DEF IInv, JobFits, Stage, Publishing, Merging
<1>2. rows[r].group = g /\ rows[r].state = "writing" /\ rows[r].temp
    BY <1>1 DEF IInv, JobFits, Stage, Publishing, Sound, RevsFit, RowRevs
<1>3. /\ rows'[r].state = "staged" /\ rows'[r].group = g /\ rows'[r].made = job.made
      /\ rows'[r].temp
      /\ \A s \in RowIds : s # r => rows'[s] = rows[s]
    <2> DEFINE made == job.made
               name == NameOf(job.made.of, 1)
    <2>1. rows' = [rows EXCEPT ![r].state = "staged", ![r].made = made, ![r].name = name]
        BY <1>1 DEF Stage
    <2> HIDE DEF made, name
    <2>2. rows[r] \in Row
        BY DEF IInv, TypeOK
    <2>3. rows'[r] = [rows[r] EXCEPT !.state = "staged", !.made = made, !.name = name]
        BY <2>1 DEF IInv, TypeOK
    <2>4. /\ rows'[r].state = "staged" /\ rows'[r].group = rows[r].group
          /\ rows'[r].made = made /\ rows'[r].temp = rows[r].temp
        BY <2>2, <2>3 DEF Row
    <2>5. \A s \in RowIds : s # r => rows'[s] = rows[s]
        BY <2>1 DEF IInv, TypeOK
    <2> QED
        BY <1>2, <2>4, <2>5 DEF made
<1>4. job'.pc = "staged" /\ job'.row = r /\ job'.group = g /\ job'.rev = job.rev
    BY <1>1 DEF IInv, TypeOK, Job, Stage
<1>5. /\ UNCHANGED <<groups, videos, files, unlinking, revision, request, budget>>
      /\ job.pc = "writing"
    BY DEF Stage
<1>6. FilesFit' /\ (Intact => Intact')
    BY <1>3, <1>5, SameAt DEF Linked, Sound
<1>7. RevsFit'
    <2>1. job.made.rev = groups[g].rev
        BY <1>1, <1>5 DEF Sound, RevsFit, JobRevs
    <2>2. RowRevs' /\ GroupRevs'
        BY <1>3, <1>5, <2>1 DEF Sound, RevsFit, RowRevs, GroupRevs, Exists
    <2>3. JobRevs'
        BY <1>4, <1>5 DEF Sound, RevsFit, JobRevs, Joining
    <2> QED
        BY <1>5, <2>2, <2>3 DEF Sound, RevsFit
<1>8. ASSUME Orderly PROVE Orderly'
    <2>1. \A s \in RowIds : Waiting(s)' => s = r
        BY <1>3, <1>5, <1>8, NothingWaits DEF Orderly, Waiting
    <2>2. ASSUME NEW a \in GroupIds, NEW b \in GroupIds, a # b,
                 Pending(b)', Holds(a)', Tried(a)'
          PROVE  PartsOf(a)' \cap PartsOf(b)' = {}
        <3>1. b = g /\ Pending(b)
            BY <1>1, <1>3, <1>4, <1>5, <2>1, <2>2 DEF Pending, Joining
        <3>2. Holds(a) /\ Tried(a)
            BY <1>3, <1>5, <2>2, <3>1 DEF Holds, Exists, Tried, IsRow
        <3>3. PartsOf(a) \cap PartsOf(b) = {}
            BY <1>8, <2>2, <3>1, <3>2 DEF Orderly, NoRival
        <3>4. PartsOf(a)' = PartsOf(a) /\ PartsOf(b)' = PartsOf(b)
            BY <1>5 DEF PartsOf
        <3> QED
            BY <3>3, <3>4
    <2> QED
        BY <1>4, <2>1, <2>2 DEF Orderly, InHand, OneWaits, NoRival
<1>9. (NoLosses => NoLosses') /\ (NoFaults => NoFaults')
    BY <1>5, PaidNothing
<1> QED
    BY <1>6, <1>7, <1>8, <1>9 DEF Sound

\* The file of a row that is linked: it is the merge of the row's group, and
\* what another group in force has at that name is the same.
LEMMA LinkedFile ==
    ASSUME IInv, Sound, NEW r \in RowIds, rows[r].state = "staged",
           Pending(rows[r].group), NEW n \in Names,
           NEW state \in {"staged", "published"}, LinkTo(r, n, state)
    PROVE  /\ files'[n] = rows[r].made /\ rows[r].made # Nothing
           /\ MadeFor(rows[r].made, rows[r].group)
           /\ \A m \in Names : m # n => files'[m] = files[m]
           /\ \A m \in Names : files[m] # Nothing => files'[m] # Nothing
           /\ \A g \in GroupIds : g # rows[r].group /\ Holds(g) /\ At(g, n) =>
                  files'[n] = files[n]
<1>1. /\ files'[n] = rows[r].made /\ \A m \in Names : m # n => files'[m] = files[m]
      /\ n[1] = rows[r].name[1] /\ Fits(r, n)
    BY DEF LinkTo, IInv, TypeOK
<1>2. rows[r].made # Nothing /\ MadeFor(rows[r].made, rows[r].group)
    BY RowOfGroup DEF IsRow, RowFits, MadeFor, Sound, RevsFit, RowRevs
<1> QED
    BY <1>1, <1>2, NoClash

LEMMA LinkSound ==
    ASSUME IInv, IInv', Sound, Link
    PROVE  Sound'
<1>1. PICK g \in GroupIds, r \in RowIds : g = job.group /\ r = job.row
    BY DEF IInv, JobFits, Link, Publishing, Merging
<1>2. rows[r].group = g /\ rows[r].state = "staged" /\ Pending(g) /\ job.pc = "staged"
    BY <1>1 DEF IInv, JobFits, Link, Publishing, Pending
<1>3. PICK n \in Names : LinkTo(r, n, "staged")
    BY <1>1 DEF Link
<1>4. /\ rows'[r].state = "staged" /\ rows'[r].name = n /\ ~rows'[r].temp
      /\ rows'[r].group = g /\ rows'[r].made = rows[r].made
      /\ \A s \in RowIds : s # r => rows'[s] = rows[s]
    BY <1>2, <1>3, LinkedRow
<1>5. /\ files'[n] = rows[r].made /\ rows[r].made # Nothing /\ MadeFor(rows[r].made, g)
      /\ \A m \in Names : m # n => files'[m] = files[m]
      /\ \A m \in Names : files[m] # Nothing => files'[m] # Nothing
      /\ \A h \in GroupIds : h # g /\ Holds(h) /\ At(h, n) => files'[n] = files[n]
    BY <1>2, <1>3, LinkedFile
<1>6. job'.pc = "linked" /\ job'.row = r /\ job'.group = g /\ job'.rev = job.rev
    BY <1>1 DEF IInv, TypeOK, Job, Link
<1>7. UNCHANGED <<groups, videos, unlinking, revision, request, budget>>
    BY DEF Link
<1>8. Gained(r, n)
    <2>1. \A h \in GroupIds, m \in Names : At(h, m)' => At(h, m) \/ (h = g /\ m = n)
        BY <1>4, <1>7 DEF At, Linked
    <2> QED
        BY <1>2, <1>7, <2>1 DEF Gained, Exists, Holds, PartsOf
<1>9. FilesFit'
    BY <1>2, <1>5, <1>8, GainedFiles DEF Sound
<1>10. RevsFit'
    <2>1. RowRevs' /\ GroupRevs'
        BY <1>2, <1>4, <1>7 DEF Sound, RevsFit, RowRevs, GroupRevs, Exists
    <2>2. JobRevs'
        BY <1>4, <1>6, <1>7 DEF Sound, RevsFit, JobRevs, Joining
    <2> QED
        BY <1>7, <2>1, <2>2 DEF Sound, RevsFit
<1>11. ASSUME Intact PROVE Intact'
    BY <1>4, <1>5, <1>7, <1>11, GainedIntact DEF HasVideo, IInv
<1>12. ASSUME Orderly PROVE Orderly'
    <2>1. \A s \in RowIds : ~Waiting(s)'
        BY <1>1, <1>2, <1>4, <1>12 DEF Orderly, InHand, Waiting
    <2> QED
        BY <1>6, <2>1, NonePending
<1>13. (NoLosses => NoLosses') /\ (NoFaults => NoFaults')
    BY <1>7, PaidNothing
<1> QED
    BY <1>9, <1>10, <1>11, <1>12, <1>13 DEF Sound

\* A row whose file is linked is entered in the catalogue: as a video of the
\* name, which its group has then.
LEMMA CommitSound ==
    ASSUME IInv, IInv', Sound, Commit
    PROVE  Sound'
<1>1. PICK g \in GroupIds, r \in RowIds : g = job.group /\ r = job.row
    BY DEF IInv, JobFits, Commit, Publishing, Merging
<1>2. rows[r].group = g /\ Linked(r) /\ rows[r].state = "staged" /\ job.pc = "linked"
    BY <1>1 DEF IInv, JobFits, Commit, Publishing, Sound, RevsFit, JobRevs, Linked
<1>3. rows[r] \in Row /\ rows[r].name \in Names
    BY DEF IInv, TypeOK, Row
<1>4. /\ rows'[r].state = "published" /\ rows'[r].name = rows[r].name
      /\ rows'[r].group = g /\ rows'[r].made = rows[r].made
      /\ \A s \in RowIds : s # r => rows'[s] = rows[s]
    <2>1. rows'[r] = [rows[r] EXCEPT !.state = "published"]
        BY <1>1 DEF IInv, TypeOK, Commit
    <2> QED
        BY <1>1, <1>2, <1>3, <2>1 DEF Row, IInv, TypeOK, Commit
<1>5. CommitRow(r, rows[r].name)
    BY <1>1 DEF Commit
<1>6. /\ Gained(r, rows[r].name)
      /\ \A v \in VideoIds : HasVideo(v)' =>
             \/ HasVideo(v) /\ videos'[v] = videos[v]
             \/ videos'[v].name = rows[r].name
    BY <1>2, <1>3, <1>4, <1>5, EnteredGains
<1>7. job'.pc = "committed" /\ job'.rev = job.rev
    BY DEF IInv, TypeOK, Job, Commit
<1>8. UNCHANGED <<files, unlinking, revision, request, budget>>
    BY DEF Commit
<1>9. FilesFit'
    <2>1. At(g, rows[r].name)
        BY <1>2 DEF At
    <2>2. Holds(g) => files[rows[r].name] = Nothing \/ MadeFor(files[rows[r].name], g)
        BY <1>3, <2>1 DEF Sound, FilesFit
    <2> QED
        BY <1>2, <1>3, <1>6, <1>8, <2>2, GainedFiles DEF Sound
<1>10. RevsFit'
    <2>1. RowRevs'
        <3>1. \A s \in RowIds : IsRow(s) => rows[s].group \in GroupIds
            BY RowOfGroup
        <3> QED
            BY <1>2, <1>4, <1>6, <3>1 DEF Sound, RevsFit, RowRevs, Gained, IsRow
    <2>2. JobRevs'
        BY <1>7, <1>8 DEF Sound, RevsFit, JobRevs, Joining
    <2> QED
        BY <1>6, <1>8, <2>1, <2>2, GainedRevs DEF Sound
<1>11. ASSUME Intact PROVE Intact'
    <2>1. files'[rows[r].name] # Nothing
        BY <1>2, <1>8, <1>11 DEF Intact
    <2> QED
        BY <1>3, <1>4, <1>6, <1>8, <1>11, <2>1, GainedIntact DEF IInv
<1>12. ASSUME Orderly PROVE Orderly'
    <2>1. \A s \in RowIds : ~Waiting(s)'
        BY <1>2, <1>4, <1>12, NothingWaits DEF Orderly, Waiting
    <2> QED
        BY <1>7, <2>1, NonePending
<1>13. (NoLosses => NoLosses') /\ (NoFaults => NoFaults')
    BY <1>8, PaidNothing
<1> QED
    BY <1>9, <1>10, <1>11, <1>12, <1>13 DEF Sound

LEMMA ResumeLinkingSound ==
    ASSUME IInv, IInv', Sound, NEW r \in RowIds, ResumeLinking(r)
    PROVE  Sound'
<1>1. PICK n \in Names : LinkTo(r, n, "published") /\ CommitRow(r, n)
    BY DEF ResumeLinking
<1>2. /\ rows[r].state = "staged" /\ Waiting(r) /\ RowFits(r)
      /\ rows[r].group \in GroupIds /\ Pending(rows[r].group)
    BY RowOfGroup DEF ResumeLinking, Waiting, Pending, IsRow
<1>3. /\ rows'[r].state = "published" /\ rows'[r].name = n
      /\ rows'[r].group = rows[r].group /\ rows'[r].made = rows[r].made
      /\ \A s \in RowIds : s # r => rows'[s] = rows[s]
    BY <1>1, LinkedRow
<1>4. /\ files'[n] = rows[r].made /\ rows[r].made # Nothing
      /\ MadeFor(rows[r].made, rows[r].group)
      /\ \A m \in Names : m # n => files'[m] = files[m]
      /\ \A m \in Names : files[m] # Nothing => files'[m] # Nothing
      /\ \A g \in GroupIds : g # rows[r].group /\ Holds(g) /\ At(g, n) =>
             files'[n] = files[n]
    BY <1>1, <1>2, LinkedFile
<1>5. /\ Gained(r, n)
      /\ \A v \in VideoIds : HasVideo(v)' =>
             \/ HasVideo(v) /\ videos'[v] = videos[v]
             \/ videos'[v].name = n
    BY <1>1, <1>2, <1>3, EnteredGains
<1>6. job.pc = "recovering" /\ job'.pc = "recovering" /\ job'.rev = job.rev
    BY DEF IInv, TypeOK, Job, Recovered, ResumeLinking
<1>7. UNCHANGED <<unlinking, revision, request, budget>>
    BY DEF ResumeLinking
<1>8. FilesFit'
    BY <1>4, <1>5, GainedFiles DEF Sound
<1>9. RevsFit'
    <2>1. RowRevs'
        <3>1. \A s \in RowIds : IsRow(s) => rows[s].group \in GroupIds
            BY RowOfGroup
        <3> QED
            BY <1>2, <1>3, <1>5, <3>1 DEF Sound, RevsFit, RowRevs, Gained, IsRow
    <2>2. JobRevs'
        BY <1>6, <1>7 DEF Sound, RevsFit, JobRevs, Joining
    <2> QED
        BY <1>5, <1>7, <2>1, <2>2, GainedRevs DEF Sound
<1>10. ASSUME Intact PROVE Intact'
    BY <1>3, <1>4, <1>5, <1>7, <1>10, GainedIntact DEF IInv
<1>11. ASSUME Orderly PROVE Orderly'
    <2>1. \A s \in RowIds : ~Waiting(s)'
        BY <1>2, <1>3, <1>11 DEF Orderly, OneWaits, Waiting
    <2> QED
        BY <1>6, <2>1, NonePending
<1>12. (NoLosses => NoLosses') /\ (NoFaults => NoFaults')
    BY <1>7, PaidNothing
<1> QED
    BY <1>8, <1>9, <1>10, <1>11, <1>12 DEF Sound

\* A row that was published, or only linked, before the process ended: the
\* group in force that had it published has its video at the name already.
LEMMA ResumeCommitSound ==
    ASSUME IInv, IInv', Sound, NEW r \in RowIds, ResumeCommit(r)
    PROVE  Sound'
<1> DEFINE n == rows[r].name
           g == rows[r].group
<1>1. /\ Linked(r) \/ rows[r].state = "published"
      /\ rows[r].state \in {"staged", "published"}
    BY DEF ResumeCommit, Linked
<1>2. RowFits(r) /\ g \in GroupIds /\ rows[r] \in Row /\ n \in Names
    BY <1>1, RowOfGroup DEF IsRow, IInv, TypeOK, Row
<1>3. /\ rows'[r].state = "published" /\ rows'[r].name = n
      /\ rows'[r].group = g /\ rows'[r].made = rows[r].made
      /\ \A s \in RowIds : s # r => rows'[s] = rows[s]
    <2>1. rows'[r] = [rows[r] EXCEPT !.state = "published"]
        BY DEF IInv, TypeOK, ResumeCommit
    <2> QED
        BY <1>2, <2>1 DEF Row, IInv, TypeOK, ResumeCommit
<1>4. /\ CommitRow(r, n) /\ job.pc = "recovering" /\ r \in job.rows
      /\ UNCHANGED <<files, unlinking, revision, request, budget>>
    BY DEF ResumeCommit
<1>5. job'.pc = "recovering" /\ job'.rows = job.rows \ {r} /\ job'.rev = job.rev
    BY DEF IInv, TypeOK, Job, Recovered, ResumeCommit
<1> HIDE DEF n, g
<1>6. /\ Gained(r, n)
      /\ \A v \in VideoIds : HasVideo(v)' =>
             \/ HasVideo(v) /\ videos'[v] = videos[v]
             \/ videos'[v].name = n
      /\ \A h \in GroupIds : groups'[h].out # Nobody => groups[h].out # Nobody \/ h = g
    BY <1>1, <1>2, <1>3, <1>4, EnteredGains DEF g
<1>7. FilesFit'
    <2>1. Holds(g) => At(g, n)
        <3>1. CASE Linked(r)
            BY <3>1 DEF At, n, g
        <3>2. CASE rows[r].state = "published"
            BY <1>2, <3>2 DEF RowFits, InForce, Holds, At, n, g
        <3> QED
            BY <1>1, <3>1, <3>2
    <2>2. Holds(g) => files[n] = Nothing \/ MadeFor(files[n], g)
        BY <1>2, <2>1 DEF Sound, FilesFit
    <2> QED
        BY <1>2, <1>4, <1>6, <2>2, GainedFiles DEF Sound, g
<1>8. RevsFit'
    <2>1. RowRevs'
        <3>1. \A s \in RowIds : IsRow(s) => rows[s].group \in GroupIds
            BY RowOfGroup
        <3> QED
            BY <1>1, <1>3, <1>6, <3>1 DEF Sound, RevsFit, RowRevs, Gained, IsRow, g
    <2>2. JobRevs'
        BY <1>4, <1>5 DEF Sound, RevsFit, JobRevs, Joining
    <2> QED
        BY <1>4, <1>6, <2>1, <2>2, GainedRevs DEF Sound
<1>9. ASSUME Intact PROVE Intact'
    <2>1. files'[n] # Nothing
        BY <1>1, <1>4, <1>9 DEF Intact, n
    <2> QED
        BY <1>2, <1>3, <1>4, <1>6, <1>9, <2>1, GainedIntact DEF IInv
<1>10. ASSUME Orderly PROVE Orderly'
    <2>1. \A s \in RowIds : Waiting(s)' => Waiting(s) /\ s # r /\ rows'[s] = rows[s]
        BY <1>3 DEF Waiting
    <2>2. InHand' /\ OneWaits'
        BY <1>4, <1>5, <1>10, <2>1 DEF Orderly, InHand, OneWaits
    <2>3. ASSUME NEW a \in GroupIds, NEW b \in GroupIds, a # b,
                 Pending(b)', Holds(a)', Tried(a)'
          PROVE  PartsOf(a)' \cap PartsOf(b)' = {}
        <3>1. Pending(b)
            BY <1>5, <2>1, <2>3 DEF Pending, Joining
        <3>2. Tried(g)
            BY <1>1 DEF Tried, IsRow, g
        <3>3. Tried(a)
            <4>1. \A s \in RowIds : IsRow(s)' => IsRow(s) /\ rows'[s].group = rows[s].group
                BY <1>1, <1>3 DEF IsRow, g
            <4> QED
                BY <1>6, <2>3, <3>2, <4>1 DEF Tried
        <3>4. /\ Holds(a) /\ PartsOf(a)' = PartsOf(a) /\ PartsOf(b)' = PartsOf(b)
            BY <1>6, <2>3 DEF Gained
        <3> QED
            BY <1>10, <2>3, <3>1, <3>3, <3>4 DEF Orderly, NoRival
    <2> QED
        BY <2>2, <2>3 DEF Orderly, NoRival
<1>11. (NoLosses => NoLosses') /\ (NoFaults => NoFaults')
    BY <1>4, PaidNothing
<1> QED
    BY <1>7, <1>8, <1>9, <1>10, <1>11 DEF Sound

LEMMA SoundAtFirst ==
    ASSUME Separate, Init
    PROVE  Sound
<1>1. /\ \A g \in GroupIds : ~Exists(g) /\ groups[g].out = Nobody
      /\ \A v \in VideoIds : ~HasVideo(v)
      /\ \A r \in RowIds : rows[r].state = "absent"
      /\ job.pc = "idle" /\ job.rev = 0 /\ request.digest = 0 /\ revision = 1
      /\ unlinking = {}
    BY DEF Init, NoGroup, NoVideo, NoRow, NoJob, NoRequest, Exists, HasVideo
<1>2. FilesFit /\ RevsFit
    BY <1>1 DEF FilesFit, Holds, RevsFit, GroupRevs, RowRevs, JobRevs, Joining
<1>3. Intact /\ Orderly
    BY <1>1 DEF Intact, Linked, Orderly, InHand, OneWaits, NoRival, Waiting, Holds
<1>4. NoLosses \/ NoFaults
    BY DEF Separate, Init, NoLosses, NoFaults
<1> QED
    BY <1>2, <1>3, <1>4 DEF Sound

LEMMA StutteringSound ==
    ASSUME IInv, IInv', Sound, UNCHANGED vars
    PROVE  Sound'
<1>1. Still
    BY SameIsStill DEF vars
<1>2. (NoLosses => NoLosses') /\ (NoFaults => NoFaults')
    BY PaidNothing DEF vars
<1>3. revision <= revision' /\ request'.digest <= revision'
    BY Revisions DEF IInv, vars, Sound, RevsFit
<1>4. Intact => UNCHANGED files /\ unlinking' = {}
    BY DEF Intact, vars
<1> QED
    BY <1>1, <1>2, <1>3, <1>4, UserSound DEF vars

LEMMA NextSound ==
    ASSUME IInv, IInv', Sound, Next
    PROVE  Sound'
<1>1. CASE MergeStep
    BY <1>1, RecordVerificationSound, MergeFailsSound, MergeCancelledSound, InsertRowSound,
       StageSound, StagingFailsSound, LinkSound, CommitSound, PublishInterruptedSound,
       MarkMergedSound, StartMergeSound DEF MergeStep
<1>2. CASE Recovery
    BY <1>2, RestartSound, DiscardWritingSound, ResumeLinkingSound, ResumeCommitSound,
       ResumeFailsSound, SettleMergesSound DEF Recovery
<1>3. CASE Requests
    BY <1>3, ComputeDigestSound, CreateManualSound, RegroupSound, SaveProfileSound,
       DiscardSound, DeleteDiscardedSound, AdoptSound, DeleteVideoSound, UnlinkSound
    DEF Requests
<1>4. CASE World
    BY <1>4, UploadSound, LoseSound DEF World
<1> QED
    BY <1>1, <1>2, <1>3, <1>4, StartDetectSound, SaveDetectedSound DEF Next

\* Where nothing disappears, or no publication is interrupted by an error, what
\* lies under the name of a group in force is the merge of its members.
THEOREM SoundInductive == ASSUME Separate PROVE Spec => [](IInv /\ Sound)
<1>1. Init => IInv /\ Sound
    BY InitKeeps, SoundAtFirst
<1>2. IInv /\ Sound /\ [Next]_vars => (IInv /\ Sound)'
    <2>1. IInv /\ [Next]_vars => IInv'
        BY NextKeeps, StutteringKeeps DEF Kept
    <2> QED
        BY <2>1, NextSound, StutteringSound
<1> QED
    BY <1>1, <1>2, PTL DEF Spec

\* What is offered for upload as a video is made of the parts its group has now
\* under today's rules, and none of them is offered beside it.
THEOREM OfferedFits == ASSUME Separate PROVE Spec => []OfferedFitsItsParts
<1>1. IInv /\ Sound => OfferedFitsItsParts
    <2> SUFFICES ASSUME IInv, Sound, NEW v \in VideoIds, NEW g \in GroupIds, OffersVideo(v),
                        groups[g].out = v, IsMerged(g), IsCurrent(g, v)
                 PROVE  /\ files[videos[v].name] # Nothing =>
                               /\ files[videos[v].name].of = groups[g].members
                               /\ files[videos[v].name].rev = revision
                        /\ \A p \in PartsOf(g) : ~OffersPart(p)
        BY DEF OfferedFitsItsParts
    <2>1. Holds(g)
        BY DEF IsMerged, Holds, Exists
    <2>2. \A p \in PartsOf(g) : ~OffersPart(p)
        BY <2>1 DEF OffersPart, Taken
    <2>3. videos[v].name \in Names /\ At(g, videos[v].name)
        BY DEF IInv, TypeOK, Video, At, VideoIds, Nobody
    <2>4. files[videos[v].name] = Nothing \/ MadeFor(files[videos[v].name], g)
        BY <2>1, <2>3 DEF Sound, FilesFit
    <2>5. groups[g].rev = revision
        <3>1. groups[g].digest = revision /\ Exists(g)
            BY DEF IsCurrent
        <3>2. groups[g].digest <= groups[g].rev /\ groups[g].rev <= revision
            BY <3>1 DEF Sound, RevsFit, GroupRevs
        <3> QED
            BY <3>1, <3>2, Revisions DEF IInv
    <2> QED
        BY <2>2, <2>4, <2>5 DEF MadeFor
<1> QED
    BY <1>1, SoundInductive, PTL
=============================================================================
