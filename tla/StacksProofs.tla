---------------------------- MODULE StacksProofs ----------------------------
(***************************************************************************)
(* Proofs about Stacks: the types, that the pass leaves the stacks of      *)
(* other users alone, that what is recorded as a stack is one, that the    *)
(* list of photos agrees and hides nothing, that no refused pair is        *)
(* forgotten, and that a pass runs down.  The three before the last have   *)
(* hypotheses on rules and cards.                                          *)
(***************************************************************************)
EXTENDS Stacks, FiniteSetTheorems, TLAPS

USE DEF cards, local, server, history

-----------------------------------------------------------------------------
(* The inductive invariant                                                 *)

Places == {"idle", "take", "refuse", "guard look", "look", "guard post",
           "post", "find", "guard put", "put", "read back", "record",
           "stamp", "groups", "compare", "reopen"}

\* The job has a group, the first guard let it pass, it has a stack of its own.
Grouped == {"guard look", "look", "guard post", "post", "find", "guard put",
            "put", "read back", "record"}
Guarded == Grouped \ {"guard look"}
Settling == {"guard put", "put", "read back", "record"}

\* Some fields hold whatever was put there.
JobRecord == [at : Places, done : {job.done}, me : Media \cup {None},
              revision : {job.revision}, why : Skips, group : SUBSET Media,
              lead : {job.lead}, assets : [Media -> Nat], todo : SUBSET Media,
              seen : [Media -> [id : Nat, primary : Nat]],
              stack : {job.stack}, groups : {job.groups}]

StackRecord == [id : Nat, members : SUBSET Nat, primary : Nat]

RowRecord == [state : States, asset : Nat, ours : BOOLEAN,
              stack : {"none", "stacked"} \cup Skips, sid : Nat]

\* Stacks have numbers of their own and no asset in common.
StacksFit ==
    /\ stacks \subseteq StackRecord
    /\ serial \in Nat
    /\ \A s \in stacks : s.id \in 1..serial /\ s.primary \in s.members
    /\ \A s, t \in stacks :
         s.id = t.id \/ s.members \cap t.members # {} => s = t

RowsFit ==
    /\ rows \in [Media -> RowRecord]
    /\ \A m \in Media : /\ rows[m].stack = "stacked" <=> rows[m].sid # 0
                        /\ rows[m].sid <= serial
                        /\ rows[m].state # "none" => rows[m].asset # 0

\* An asset belongs to one media file, whoever remembers it.
Owned(m) == {library[m], rows[m].asset, job.assets[m]}

AssetsFit ==
    /\ library \in [Media -> Nat]
    /\ \A m \in Media : \A i \in Owned(m) : i <= serial
    /\ \A m, n \in Media : m # n => Owned(m) \cap Owned(n) \subseteq {0}

OthersFit ==
    /\ rule \in Rules
    /\ revision \in Nat
    /\ usable \in BOOLEAN
    /\ fresh \subseteq touched

\* No stack that stood when the record was taken has this asset.
Clear(m) == \A s \in stacks : job.assets[m] \in s.members => s.id \in fresh

JobFits ==
    /\ job \in JobRecord
    /\ job.at = "guard look" => job.todo = job.group
    /\ job.at \in Grouped => \A m \in job.group : job.assets[m] # 0

\* Only the job records a stack, and the guard has found none recorded.
GroupIsFree ==
    job.at \in Guarded => \A m \in job.group : rows[m].stack # "stacked"

LookIsFair ==
    job.at = "look" => \A m \in job.group \ job.todo :
                          job.seen[m] = NoStack => Clear(m)

PostIsClear == job.at \in {"guard post", "post"} => \A m \in job.group : Clear(m)

PutIsOurs ==
    job.at \in {"guard put", "put"} =>
        \A s \in stacks : s.id = job.stack.id =>
            s.id \in fresh \/ s.members = AssetsOf(job.group)

StackIsUnrecorded ==
    job.at \in Settling =>
        /\ job.stack.id \in 1..serial
        /\ \A m \in Media : rows[m].sid = job.stack.id =>
              job.stack.id \in touched \cup torn

RecordIsReady ==
    job.at = "record" =>
        \/ job.stack.id \in touched
        \/ \E s \in stacks : /\ s.id = job.stack.id
                             /\ s.members = AssetsOf(job.group)
                             /\ s.primary = job.assets[job.lead]

JobInv == /\ JobFits /\ GroupIsFree /\ LookIsFair /\ PostIsClear
          /\ PutIsOurs /\ StackIsUnrecorded /\ RecordIsReady

IInv == StacksFit /\ RowsFit /\ AssetsFit /\ OthersFit /\ JobInv /\ RecordIsTrue

-----------------------------------------------------------------------------
(* The server's stacks                                                     *)

\* What a loss of assets leaves of the stacks.
LEMMA WithoutFits ==
  ASSUME StacksFit, NEW gone, NEW t \in Without(stacks, gone)
  PROVE  /\ t \in StackRecord /\ t.primary \in t.members
         /\ \E s \in stacks : /\ t.id = s.id /\ t.primary = s.primary
                             /\ t.members = s.members \ gone
<1>1. PICK s \in stacks : t = [s EXCEPT !.members = @ \ gone]
  BY DEF Without
<1>2. s \in StackRecord /\ s.primary \in s.members
  BY DEF StacksFit
<1>3. t \in StackRecord /\ t.id = s.id /\ t.primary = s.primary /\ t.members = s.members \ gone
  BY <1>1, <1>2 DEF StackRecord
<1>4. t \in stacks \/ t.primary \in t.members
  BY DEF Without
<1>5. QED
  BY <1>3, <1>4 DEF StacksFit

\* Two stacks that have lost assets are as different as they were.
LEMMA WithoutApart ==
  ASSUME StacksFit, NEW gone,
         NEW t \in Without(stacks, gone), NEW u \in Without(stacks, gone),
         t.id = u.id \/ t.members \cap u.members # {}
  PROVE  t = u
<1>1. PICK x \in stacks : /\ t.id = x.id /\ t.primary = x.primary
                          /\ t.members = x.members \ gone
  BY WithoutFits
<1>2. PICK y \in stacks : /\ u.id = y.id /\ u.primary = y.primary
                          /\ u.members = y.members \ gone
  BY WithoutFits
<1>3. x = y
  BY <1>1, <1>2 DEF StacksFit
<1>4. t.id = u.id /\ t.members = u.members /\ t.primary = u.primary
  BY <1>1, <1>2, <1>3
<1>5. QED
  BY <1>4, WithoutFits DEF StackRecord

\* A stack that loses nothing stays as it is.
LEMMA WithoutKeeps ==
  ASSUME StacksFit, NEW gone, NEW s \in stacks, s.members \cap gone = {}
  PROVE  s \in Without(stacks, gone)
<1>1. s \in StackRecord
  BY DEF StacksFit
<1>2. [s EXCEPT !.members = @ \ gone] = s
  <2>1. s.members \ gone = s.members
    OBVIOUS
  <2>2. QED
    BY <1>1, <2>1 DEF StackRecord
<1>3. QED
  BY <1>2 DEF Without

\* Stacks fit together whatever a user takes out of the library.
LEMMA WithoutIsFit ==
  ASSUME StacksFit, NEW gone, stacks' = Without(stacks, gone), serial' = serial
  PROVE  StacksFit'
<1>1. ASSUME NEW t \in stacks'
      PROVE  t \in StackRecord /\ t.id \in 1..serial' /\ t.primary \in t.members
  BY <1>1, WithoutFits DEF StacksFit
<1>2. ASSUME NEW t \in stacks', NEW u \in stacks',
             t.id = u.id \/ t.members \cap u.members # {}
      PROVE  t = u
  BY <1>2, WithoutApart
<1>3. QED
  BY <1>1, <1>2 DEF StacksFit, StackRecord

\* A new stack takes its assets away from the others.
LEMMA StackedIsFit ==
  ASSUME StacksFit, NEW assets \in SUBSET Nat, NEW p \in assets,
         stacks' = Stacked(assets, p), serial' = serial + 1
  PROVE  /\ StacksFit'
         /\ Absorbed(assets) \in SUBSET Nat
         /\ \A t \in stacks' : t.id = serial' =>
              t = [id |-> serial + 1, members |-> Absorbed(assets), primary |-> p]
<1> DEFINE all == Absorbed(assets)
           new == [id |-> serial + 1, members |-> all, primary |-> p]
<1>1. all \in SUBSET Nat /\ p \in all
  <2>1. \A x \in stacks : x.members \subseteq Nat
    BY DEF StacksFit, StackRecord
  <2>2. \A i \in all : i \in assets \/ \E x \in stacks : i \in x.members
    BY DEF Absorbed
  <2>3. p \in all
    BY DEF Absorbed
  <2>4. QED
    BY <2>1, <2>2, <2>3
<1>2. new \in StackRecord /\ new.id = serial' /\ new.primary \in new.members
      /\ new.members = all
  BY <1>1 DEF StackRecord, StacksFit
<1>3. stacks' = Without(stacks, all) \cup {new}
  BY DEF Stacked
<1> HIDE DEF all, new
<1>4. ASSUME NEW t \in Without(stacks, all)
      PROVE  /\ t \in StackRecord /\ t.id \in 1..serial /\ t.primary \in t.members
             /\ t.members \cap all = {}
  BY <1>4, WithoutFits DEF StacksFit
<1>5. ASSUME NEW t \in Without(stacks, all), NEW u \in Without(stacks, all),
             t.id = u.id \/ t.members \cap u.members # {}
      PROVE  t = u
  BY <1>5, WithoutApart
<1>6. serial \in Nat
  BY DEF StacksFit
<1>7. ASSUME NEW t \in stacks', NEW u \in stacks',
             t.id = u.id \/ t.members \cap u.members # {}
      PROVE  t = u
  BY <1>2, <1>3, <1>4, <1>5, <1>6, <1>7
<1>8. \A t \in stacks' : t \in StackRecord /\ t.id \in 1..serial' /\ t.primary \in t.members
  BY <1>2, <1>3, <1>4, <1>6
<1>9. StacksFit'
  BY <1>6, <1>7, <1>8 DEF StacksFit, StackRecord
<1>10. \A t \in stacks' : t.id = serial' => t = new
  BY <1>2, <1>3, <1>4, <1>6
<1>11. QED
  BY <1>1, <1>9, <1>10 DEF all, new

\* What a new stack takes away had an asset of it or of a stack it takes in.
LEMMA StackedKeeps ==
  ASSUME StacksFit, NEW assets \in SUBSET Nat, NEW p \in assets,
         NEW s \in stacks, s \notin Stacked(assets, p)
  PROVE  s.members \cap assets # {}
<1>1. s.members \cap Absorbed(assets) # {}
  BY WithoutKeeps DEF Stacked
<1>2. CASE s.members \cap assets # {}
  BY <1>2
<1>3. CASE \E x \in stacks : x.primary \in assets /\ s.members \cap x.members # {}
  BY <1>3 DEF StacksFit
<1>4. QED
  BY <1>1, <1>2, <1>3 DEF Absorbed

-----------------------------------------------------------------------------
(* The job                                                                 *)

\* The job that is none has the fields of a job.
LEMMA NoJobType ==
  NoJob \in [at : {"idle"}, done : {{}}, me : Media \cup {None},
            revision : {0}, why : Skips, group : SUBSET Media, lead : {None},
            assets : [Media -> Nat], todo : {{}},
            seen : [Media -> [id : Nat, primary : Nat]],
            stack : {NoStack}, groups : {{}}]
  BY DEF NoJob, NoStack, Skips

\* A job that begins, goes on to its next record or ends has nothing in hand.
LEMMA EmptyHanded ==
  ASSUME IInv, NEW a \in {"idle", "take", "stamp"}, NEW d,
         job' = [NoJob EXCEPT !.at = a, !.done = d]
  PROVE  /\ JobInv' /\ \A m \in Media : job'.assets[m] = 0
<1>2. job'.at = a /\ job' \in JobRecord'
  BY NoJobType DEF JobRecord, Places
<1>3. job'.assets = NoJob.assets
  BY NoJobType
<1>4. \A m \in Media : job'.assets[m] = 0
  BY <1>3 DEF NoJob
<1>5. JobInv'
  BY <1>2 DEF JobInv, JobFits, GroupIsFree, LookIsFair, PostIsClear, PutIsOurs,
              StackIsUnrecorded, RecordIsReady, Grouped, Guarded, Settling
<1>6. QED
  BY <1>4, <1>5

\* The forms such a job has in the actions.
LEMMA EmptyForms ==
         /\ NoJob = [NoJob EXCEPT !.at = "idle", !.done = {}]
         /\ [NoJob EXCEPT !.at = "take"] = [NoJob EXCEPT !.at = "take", !.done = {}]
         /\ [NoJob EXCEPT !.at = "stamp"] = [NoJob EXCEPT !.at = "stamp", !.done = {}]
  BY NoJobType

\* A job that moves on keeps what it has in hand.
LEMMA Moved ==
  ASSUME JobFits, NEW p \in Places, At(p)
  PROVE  /\ job' \in JobRecord' /\ job'.at = p
         /\ job'.group = job.group /\ job'.lead = job.lead
         /\ job'.assets = job.assets /\ job'.todo = job.todo
         /\ job'.seen = job.seen /\ job'.stack = job.stack
  BY DEF JobFits, JobRecord, At

-----------------------------------------------------------------------------
(* What keeps the parts of the invariant                                   *)

Growing == /\ lead \subseteq lead' /\ touched \subseteq touched'
           /\ torn \subseteq torn'

\* What rows say of a stack, they said before, unless it was torn.
SameRecords ==
    \A m \in Media : rows'[m].sid # 0 /\ rows'[m].sid \notin touched' \cup torn' =>
        \A x \in Media :
          /\ rows'[x].sid = rows'[m].sid <=> rows[x].sid = rows'[m].sid
          /\ rows'[x].sid = rows'[m].sid => rows'[x].asset = rows[x].asset

\* Every stack that goes or changes was touched, or nobody has recorded it.
StacksStand ==
    \A s \in stacks \ stacks' : \A m \in Media :
        rows[m].sid = s.id => s.id \in touched' \cup torn'

\* Nobody records a stack.
NoneRecorded == \A m \in Media : rows'[m].sid \in {0, rows[m].sid}

\* A recorded stack is one as long as the rows and the server keep it.
LEMMA StillTrue ==
  ASSUME IInv, RowsFit', SameRecords, StacksStand, Growing
  PROVE  RecordIsTrue'
<1> SUFFICES ASSUME NEW m \in Media, rows'[m].stack = "stacked",
                    rows'[m].sid \notin touched' \cup torn'
             PROVE  \E s \in stacks' :
                      /\ s.id = rows'[m].sid
                      /\ s.members = {rows'[x].asset : x \in
                                       {y \in Media : rows'[y].sid = s.id}}
                      /\ <<s.id, s.primary>> \in lead'
  BY DEF RecordIsTrue
<1>1. rows'[m].sid # 0
  BY DEF RowsFit
<1>2. /\ rows[m].sid = rows'[m].sid
      /\ \A x \in Media :
           /\ rows'[x].sid = rows'[m].sid <=> rows[x].sid = rows'[m].sid
           /\ rows'[x].sid = rows'[m].sid => rows'[x].asset = rows[x].asset
  BY <1>1 DEF SameRecords
<1>3. rows[m].stack = "stacked" /\ rows[m].sid \notin touched \cup torn
  BY <1>1, <1>2 DEF IInv, RowsFit, Growing
<1>4. PICK s \in stacks :
        /\ s.id = rows[m].sid
        /\ s.members = {rows[x].asset : x \in {y \in Media : rows[y].sid = s.id}}
        /\ <<s.id, s.primary>> \in lead
  BY <1>3 DEF IInv, RecordIsTrue
<1>5. s \in stacks'
  BY <1>2, <1>4 DEF StacksStand
<1>6. s.members = {rows'[x].asset : x \in {y \in Media : rows'[y].sid = s.id}}
  BY <1>2, <1>4
<1>7. QED
  BY <1>2, <1>4, <1>5, <1>6 DEF Growing

\* The job does not notice what others do.
LEMMA JobUndisturbed ==
  ASSUME IInv, job' = job, RowsFit', NoneRecorded, Growing,
         fresh \subseteq fresh', serial' \in Nat, serial <= serial',
         \A s \in stacks' \ stacks : s.id \in fresh',
         \A s \in stacks \ stacks' : s.id \in touched'
  PROVE  JobInv'
<1>1. JobFits'
  BY DEF IInv, JobInv, JobFits, JobRecord
<1>2. GroupIsFree'
  <2>1. \A m \in Media : rows'[m].stack = "stacked" => rows[m].stack = "stacked"
    BY DEF IInv, RowsFit, NoneRecorded
  <2>2. job.group \subseteq Media
    BY DEF IInv, JobInv, JobFits, JobRecord
  <2>3. QED
    BY <2>1, <2>2 DEF IInv, JobInv, GroupIsFree
<1>3. LookIsFair' /\ PostIsClear'
  BY DEF IInv, JobInv, LookIsFair, PostIsClear, Clear
<1>4. PutIsOurs'
  BY DEF IInv, JobInv, PutIsOurs, AssetsOf
<1>5. StackIsUnrecorded'
  <2> SUFFICES ASSUME job.at \in Settling
               PROVE  /\ job.stack.id \in 1..serial'
                      /\ \A m \in Media : rows'[m].sid = job.stack.id =>
                            job.stack.id \in touched' \cup torn'
    BY DEF StackIsUnrecorded
  <2>1. /\ job.stack.id \in 1..serial
        /\ \A m \in Media : rows[m].sid = job.stack.id =>
              job.stack.id \in touched \cup torn
    BY DEF IInv, JobInv, StackIsUnrecorded
  <2>2. job.stack.id \in 1..serial' /\ job.stack.id # 0
    BY <2>1 DEF IInv, StacksFit
  <2>3. QED
    BY <2>1, <2>2 DEF NoneRecorded, Growing
<1>6. RecordIsReady'
  <2> SUFFICES ASSUME job.at = "record", job.stack.id \notin touched'
               PROVE  \E s \in stacks' : /\ s.id = job.stack.id
                                          /\ s.members = AssetsOf(job.group)
                                          /\ s.primary = job.assets[job.lead]
    BY DEF RecordIsReady, AssetsOf
  <2>1. PICK s \in stacks : /\ s.id = job.stack.id
                            /\ s.members = AssetsOf(job.group)
                            /\ s.primary = job.assets[job.lead]
    BY DEF IInv, JobInv, RecordIsReady, Growing
  <2>2. QED
    BY <2>1
<1>7. QED
  BY <1>1, <1>2, <1>3, <1>4, <1>5, <1>6 DEF JobInv

\* Assets stay with their media files; one file may get a new asset.
LEMMA AssetsKept ==
  ASSUME IInv, library' \in [Media -> Nat], serial' \in Nat, serial <= serial', NEW k,
         \A m \in Media : \A i \in Owned(m)' :
            i \in Owned(m) \/ i = 0 \/ (m = k /\ i = serial + 1 /\ i <= serial')
  PROVE  AssetsFit'
<1>1. serial \in Nat
  BY DEF IInv, StacksFit
<1>2. \A m \in Media : Owned(m) \subseteq Nat /\ \A i \in Owned(m) : i <= serial
  <2>1. \A m \in Media : library[m] \in Nat
    BY DEF IInv, AssetsFit
  <2>2. \A m \in Media : rows[m].asset \in Nat
    BY DEF IInv, RowsFit, RowRecord
  <2>3. \A m \in Media : job.assets[m] \in Nat
    BY DEF IInv, JobInv, JobFits, JobRecord
  <2>4. QED
    BY <2>1, <2>2, <2>3 DEF IInv, AssetsFit, Owned
<1>3. \A m \in Media : \A i \in Owned(m)' : i <= serial'
  BY <1>1, <1>2
<1>4. ASSUME NEW m \in Media, NEW n \in Media, m # n,
             NEW i \in Owned(m)', i \in Owned(n)'
      PROVE  i = 0
  <2>1. CASE i \in Owned(m) /\ i \in Owned(n)
    BY <1>4, <2>1 DEF IInv, AssetsFit
  <2>2. CASE i = serial + 1
    BY <1>1, <1>2, <1>4, <2>2
  <2>3. QED
    BY <1>4, <2>1, <2>2
<1>5. QED
  BY <1>3, <1>4 DEF AssetsFit

\* The same when nobody gets a new one.
LEMMA AssetsSame ==
  ASSUME IInv, library' \in [Media -> Nat], serial' \in Nat, serial <= serial',
         \A m \in Media : \A i \in Owned(m)' : i \in Owned(m) \/ i = 0
  PROVE  AssetsFit'
  BY AssetsKept

\* A step that leaves the server alone.
LEMMA ServerKept ==
  ASSUME IInv, UNCHANGED server, RowsFit', OthersFit', SameRecords, Growing, JobInv',
         \A m \in Media : rows'[m].asset \in {0, rows[m].asset, library[m]},
         \A m \in Media : job'.assets[m] \in {0, job.assets[m], rows[m].asset}
  PROVE  IInv'
<1>1. StacksFit'
  BY DEF IInv, StacksFit, server, StackRecord
<1>2. AssetsFit'
  <2>1. library' \in [Media -> Nat] /\ serial' \in Nat /\ serial <= serial'
    BY DEF IInv, AssetsFit, StacksFit, server
  <2>2. \A m \in Media : \A i \in Owned(m)' : i \in Owned(m) \/ i = 0
    BY DEF Owned, server
  <2>3. QED
    BY <2>1, <2>2, AssetsSame
<1>3. RecordIsTrue'
  BY StillTrue DEF StacksStand, server
<1>4. QED
  BY <1>1, <1>2, <1>3 DEF IInv

\* Only rows change, and nothing is recorded.
LEMMA RowsChange ==
  ASSUME IInv, UNCHANGED <<server, job>>, RowsFit', OthersFit', SameRecords,
         NoneRecorded, Growing, fresh' = fresh,
         \A m \in Media : rows'[m].asset \in {0, rows[m].asset, library[m]}
  PROVE  IInv'
<1>1. JobInv'
  BY JobUndisturbed DEF server, IInv, StacksFit
<1>2. QED
  BY <1>1, ServerKept DEF server

\* Rows stay, the job goes on with nothing in hand.
LEMMA JobOver ==
  ASSUME IInv, UNCHANGED <<rows, server>>, OthersFit', Growing,
         NEW a \in {"idle", "take", "stamp"}, NEW d,
         job' = [NoJob EXCEPT !.at = a, !.done = d]
  PROVE  IInv'
<1>1. JobInv' /\ \A m \in Media : job'.assets[m] = 0
  BY EmptyHanded
<1>2. RowsFit' /\ SameRecords
  BY DEF IInv, RowsFit, SameRecords, server, RowRecord
<1>3. QED
  BY <1>1, <1>2, ServerKept

-----------------------------------------------------------------------------
(* Requests                                                                *)

\* A retry clears one record; what it belonged to is torn from then on.
LEMMA RetryKeeps == ASSUME IInv, Retry PROVE IInv'
<1>1. PICK m \in Media :
        /\ rows[m].state = "failed"
        /\ rows' = [rows EXCEPT ![m].state = "pending", ![m].stack = "none", ![m].sid = 0]
        /\ torn' = torn \cup ({rows[m].sid} \ {0})
  BY DEF Retry
<1>2. rows \in [Media -> RowRecord]
  BY DEF IInv, RowsFit
<1>3. /\ rows' \in [Media -> RowRecord]
      /\ rows'[m].stack = "none" /\ rows'[m].sid = 0 /\ rows'[m].asset = rows[m].asset
      /\ \A x \in Media : x # m => rows'[x] = rows[x]
  BY <1>1, <1>2 DEF RowRecord, States
<1>4. UNCHANGED <<rule, revision, usable, server, job, lead, touched, fresh>>
  BY DEF Retry, cards
<1>5. RowsFit'
  <2>1. \A x \in Media : /\ rows[x].stack = "stacked" <=> rows[x].sid # 0
                         /\ rows[x].sid <= serial
                         /\ rows[x].state # "none" => rows[x].asset # 0
    BY DEF IInv, RowsFit
  <2>2. 0 <= serial' /\ serial' = serial
    BY <1>4 DEF IInv, StacksFit
  <2>3. \A x \in Media : /\ rows'[x].stack = "stacked" <=> rows'[x].sid # 0
                         /\ rows'[x].sid <= serial'
                         /\ rows'[x].state # "none" => rows'[x].asset # 0
    BY <1>1, <1>3, <2>1, <2>2
  <2>4. QED
    BY <1>3, <2>3 DEF RowsFit
<1>6. SameRecords /\ NoneRecorded /\ Growing
  <2>1. ASSUME NEW x \in Media, NEW y \in Media, rows'[x].sid # 0,
               rows'[x].sid \notin touched' \cup torn'
        PROVE  /\ rows'[y].sid = rows'[x].sid <=> rows[y].sid = rows'[x].sid
               /\ rows'[y].sid = rows'[x].sid => rows'[y].asset = rows[y].asset
    BY <1>1, <1>3, <2>1
  <2>2. QED
    BY <1>1, <1>3, <1>4, <2>1 DEF SameRecords, NoneRecorded, Growing
<1>7. OthersFit'
  BY <1>4 DEF IInv, OthersFit
<1>8. \A x \in Media : rows'[x].asset = rows[x].asset
  BY <1>3
<1>9. QED
  BY <1>4, <1>5, <1>6, <1>7, <1>8, RowsChange

\* A row whose refusal is taken back.
LEMMA UnskippedRow ==
  ASSUME NEW row \in RowRecord
  PROVE  /\ Unskipped(row) \in RowRecord
         /\ Unskipped(row).state = row.state /\ Unskipped(row).asset = row.asset
         /\ Unskipped(row).sid = row.sid
         /\ Unskipped(row).stack = "stacked" <=> row.stack = "stacked"
  BY DEF Unskipped, RowRecord, Skips

\* Rows that keep their asset and what was recorded of them.
LEMMA RowsSettled ==
  ASSUME IInv, UNCHANGED <<server, lead, touched, torn>>,
         rows' \in [Media -> RowRecord],
         \A m \in Media : /\ rows'[m].asset = rows[m].asset
                          /\ rows'[m].sid = rows[m].sid
                          /\ rows'[m].stack = "stacked" <=> rows[m].stack = "stacked"
                          /\ rows[m].state = "none" => rows'[m].state = "none"
  PROVE  RowsFit' /\ SameRecords /\ NoneRecorded /\ Growing
<1>1. RowsFit'
  BY DEF IInv, RowsFit, server
<1>2. SameRecords /\ NoneRecorded /\ Growing
  BY DEF SameRecords, NoneRecorded, Growing
<1>3. QED
  BY <1>1, <1>2

\* A saved rule takes refusals back and leaves the recorded stacks alone.
LEMMA EditProfileKeeps == ASSUME IInv, EditProfile PROVE IInv'
<1>1. UNCHANGED <<usable, server, job, lead, touched, fresh, torn>>
  BY DEF EditProfile, history
<1>2. rows \in [Media -> RowRecord]
  BY DEF IInv, RowsFit
<1>3. \A m \in Media : rows'[m] \in {rows[m], Unskipped(rows[m])}
  BY DEF EditProfile
<1>4. rows' \in [Media -> RowRecord]
  BY <1>2, UnskippedRow DEF EditProfile
<1>5. \A m \in Media : /\ rows'[m].asset = rows[m].asset
                       /\ rows'[m].sid = rows[m].sid
                       /\ rows'[m].stack = "stacked" <=> rows[m].stack = "stacked"
                       /\ rows[m].state = "none" => rows'[m].state = "none"
  BY <1>2, <1>3, UnskippedRow
<1>6. RowsFit' /\ SameRecords /\ NoneRecorded /\ Growing
  BY <1>1, <1>4, <1>5, RowsSettled
<1>7. OthersFit'
  BY <1>1 DEF IInv, OthersFit, EditProfile
<1>8. QED
  BY <1>1, <1>5, <1>6, <1>7, RowsChange

\* A moved date gives a record back to be sent, with its asset.
LEMMA MoveDateKeeps == ASSUME IInv, MoveDate PROVE IInv'
<1>1. UNCHANGED <<rule, revision, usable, server, job, lead, touched, fresh, torn>>
  BY DEF MoveDate, history, cards
<1>2. rows \in [Media -> RowRecord]
  BY DEF IInv, RowsFit
<1>3. PICK m \in Media, requeue \in BOOLEAN :
        /\ rows[m].state # "none"
        /\ LET row == Unskipped(rows[m])
               state == IF requeue /\ row.state = "complete" THEN "needs"
                        ELSE row.state
           IN  rows' = [rows EXCEPT ![m] = [row EXCEPT !.state = state]]
  BY DEF MoveDate
<1> DEFINE row == Unskipped(rows[m])
           state == IF requeue /\ row.state = "complete" THEN "needs" ELSE row.state
<1>4. /\ row \in RowRecord /\ row.asset = rows[m].asset /\ row.sid = rows[m].sid
      /\ row.stack = "stacked" <=> rows[m].stack = "stacked"
  BY <1>2, UnskippedRow
<1>5. rows' = [rows EXCEPT ![m] = [row EXCEPT !.state = state]] /\ state \in States
  BY <1>3, <1>4 DEF RowRecord, States
<1> HIDE DEF row, state
<1>6. /\ rows' \in [Media -> RowRecord]
      /\ rows'[m].asset = row.asset /\ rows'[m].sid = row.sid
      /\ rows'[m].stack = row.stack
      /\ \A x \in Media : x # m => rows'[x] = rows[x]
  BY <1>2, <1>4, <1>5 DEF RowRecord
<1>7. \A x \in Media : /\ rows'[x].asset = rows[x].asset
                       /\ rows'[x].sid = rows[x].sid
                       /\ rows'[x].stack = "stacked" <=> rows[x].stack = "stacked"
                       /\ rows[x].state = "none" => rows'[x].state = "none"
  BY <1>3, <1>4, <1>6
<1>8. RowsFit' /\ SameRecords /\ NoneRecorded /\ Growing
  BY <1>1, <1>6, <1>7, RowsSettled
<1>9. OthersFit'
  BY <1>1 DEF IInv, OthersFit
<1>10. QED
  BY <1>1, <1>7, <1>8, <1>9, RowsChange

\* A failed sending leaves the record its asset.
LEMMA SendFailsKeeps == ASSUME IInv, SendFails PROVE IInv'
<1>1. UNCHANGED <<rule, revision, usable, server, job, lead, touched, fresh, torn>>
  BY DEF SendFails, history, cards
<1>2. rows \in [Media -> RowRecord]
  BY DEF IInv, RowsFit
<1>3. PICK m \in Media : /\ rows[m].state \in {"pending", "needs"}
                         /\ rows' = [rows EXCEPT ![m].state = "failed"]
  BY DEF SendFails
<1>4. /\ rows' \in [Media -> RowRecord]
      /\ \A x \in Media : /\ rows'[x].asset = rows[x].asset
                          /\ rows'[x].sid = rows[x].sid
                          /\ rows'[x].stack = "stacked" <=> rows[x].stack = "stacked"
                          /\ rows[x].state = "none" => rows'[x].state = "none"
  BY <1>2, <1>3 DEF RowRecord, States
<1>5. RowsFit' /\ SameRecords /\ NoneRecorded /\ Growing
  BY <1>1, <1>4, RowsSettled
<1>6. OthersFit'
  BY <1>1 DEF IInv, OthersFit
<1>7. QED
  BY <1>1, <1>4, <1>5, <1>6, RowsChange

\* A destination switched on or off changes no record.
LEMMA SetUsableKeeps == ASSUME IInv, SetUsable PROVE IInv'
<1>1. UNCHANGED <<rule, revision, rows, server, job, lead, touched, fresh, torn>>
  BY DEF SetUsable, history, cards
<1>2. RowsFit' /\ SameRecords /\ NoneRecorded /\ Growing
  BY <1>1, RowsSettled DEF IInv, RowsFit
<1>3. OthersFit'
  BY <1>1 DEF IInv, OthersFit, SetUsable
<1>4. QED
  BY <1>1, <1>2, <1>3, RowsChange

\* The cards and the evidence are nothing the records depend on.
LEMMA EvidenceKeeps == ASSUME IInv, Evidence PROVE IInv'
<1>1. UNCHANGED <<rule, revision, usable, rows, server, job, lead, touched, fresh, torn>>
  BY DEF Evidence, local, Shoot, Scan, ScanCancelled, Import
<1>2. RowsFit' /\ SameRecords /\ NoneRecorded /\ Growing
  BY <1>1, RowsSettled DEF IInv, RowsFit
<1>3. OthersFit'
  BY <1>1 DEF IInv, OthersFit
<1>4. QED
  BY <1>1, <1>2, <1>3, RowsChange

-----------------------------------------------------------------------------
(* Rows that leave their stacks                                            *)

\* A stack is given up by all its rows.
LEMMA ReopenedRows ==
  ASSUME IInv, NEW moved \in SUBSET Media
  PROVE  /\ Reopened(rows, moved) \in [Media -> RowRecord]
         /\ \A m \in Media : LET row == Reopened(rows, moved)[m] IN
              /\ row.state = rows[m].state /\ row.asset = rows[m].asset
              /\ row.ours = rows[m].ours
              /\ \/ row.sid = 0 /\ row.stack # "stacked"
                 \/ row.sid = rows[m].sid /\ row.stack = rows[m].stack
              /\ m \in moved => row.sid = 0
              /\ row.sid # 0 => \A x \in Media : rows[x].sid = rows[m].sid =>
                                   Reopened(rows, moved)[x] = rows[x]
<1> DEFINE gone == {rows[m].sid : m \in moved} \ {0}
           cleared(m) == [rows[m] EXCEPT !.stack = "none", !.sid = 0]
           open == Reopened(rows, moved)
<1>1. /\ rows \in [Media -> RowRecord]
      /\ \A m \in Media : rows[m].stack = "stacked" <=> rows[m].sid # 0
  BY DEF IInv, RowsFit
<1>2. open = [m \in Media |-> IF rows[m].sid \in gone THEN cleared(m) ELSE rows[m]]
  BY DEF Reopened
<1>3. \A m \in Media :
        /\ cleared(m) \in RowRecord
        /\ cleared(m).state = rows[m].state /\ cleared(m).asset = rows[m].asset
        /\ cleared(m).ours = rows[m].ours
        /\ cleared(m).stack = "none" /\ cleared(m).sid = 0
  BY <1>1 DEF RowRecord
<1> HIDE DEF cleared, open
<1>4. open \in [Media -> RowRecord]
  BY <1>1, <1>2, <1>3
<1>5. ASSUME NEW m \in Media
      PROVE  /\ open[m].state = rows[m].state /\ open[m].asset = rows[m].asset
             /\ open[m].ours = rows[m].ours
             /\ \/ open[m].sid = 0 /\ open[m].stack # "stacked"
                \/ open[m].sid = rows[m].sid /\ open[m].stack = rows[m].stack
             /\ m \in moved => open[m].sid = 0
             /\ open[m].sid # 0 => \A x \in Media : rows[x].sid = rows[m].sid =>
                                  open[x] = rows[x]
  BY <1>1, <1>2, <1>3
<1>6. QED
  BY <1>4, <1>5 DEF open

\* Rows that give up their stacks, whole stacks at a time.
LEMMA RowsCleared ==
  ASSUME IInv, UNCHANGED <<lead, touched, torn>>, serial' \in Nat, serial <= serial',
         rows' \in [Media -> RowRecord],
         \A m \in Media :
           /\ \/ rows'[m].sid = 0 /\ rows'[m].stack # "stacked"
              \/ rows'[m].sid = rows[m].sid /\ rows'[m].stack = rows[m].stack
           /\ rows'[m].sid # 0 => \A x \in Media : rows[x].sid = rows[m].sid =>
                /\ rows'[x].sid = rows[x].sid
                /\ rows'[x].asset = rows[x].asset
           /\ rows'[m].state # "none" => rows'[m].asset # 0
  PROVE  RowsFit' /\ SameRecords /\ NoneRecorded /\ Growing
<1>1. \A m \in Media : /\ rows[m].stack = "stacked" <=> rows[m].sid # 0
                       /\ rows[m].sid <= serial /\ rows[m].sid \in Nat
  BY DEF IInv, RowsFit, RowRecord
<1>2. serial \in Nat
  BY DEF IInv, StacksFit
<1>3. \A m \in Media : /\ rows'[m].stack = "stacked" <=> rows'[m].sid # 0
                       /\ rows'[m].sid <= serial'
                       /\ rows'[m].state # "none" => rows'[m].asset # 0
  BY <1>1, <1>2
<1>4. RowsFit'
  BY <1>3 DEF RowsFit
<1>5. SameRecords
  BY DEF SameRecords
<1>6. NoneRecorded /\ Growing
  BY DEF NoneRecorded, Growing
<1>7. QED
  BY <1>4, <1>5, <1>6

\* An asset that takes another's place ends the stack of the old one.
LEMMA SendKeeps == ASSUME IInv, Send PROVE IInv'
<1>1. PICK m \in Media :
        /\ rows[m].state \in {"none", "pending", "needs"}
        /\ LET new == library[m] = 0
               asset == IF new THEN serial + 1 ELSE library[m]
               open == IF asset = rows[m].asset THEN rows
                       ELSE Reopened(rows, {m})
               row == open[m]
           IN  /\ library' = [library EXCEPT ![m] = asset]
               /\ serial' = IF new THEN serial + 1 ELSE serial
               /\ rows' = [open EXCEPT ![m] =
                             [row EXCEPT !.state = "complete", !.asset = asset,
                                         !.ours = row.ours \/ new]]
  BY DEF Send
<1> DEFINE new == library[m] = 0
           asset == IF new THEN serial + 1 ELSE library[m]
           open == IF asset = rows[m].asset THEN rows ELSE Reopened(rows, {m})
           row == open[m]
           ours == row.ours \/ new
<1>2. UNCHANGED <<rule, revision, usable, stacks, job, lead, touched, fresh, torn>>
  BY DEF Send
<1>3. /\ library \in [Media -> Nat] /\ serial \in Nat
      /\ rows \in [Media -> RowRecord]
  BY DEF IInv, AssetsFit, StacksFit, RowsFit
<1>4. /\ asset \in Nat /\ asset # 0
      /\ serial' \in Nat /\ serial <= serial'
      /\ asset = library[m] \/ (asset = serial + 1 /\ asset <= serial')
  BY <1>1, <1>3
<1>5. /\ library' \in [Media -> Nat] /\ library'[m] = asset
      /\ \A x \in Media : x # m => library'[x] = library[x]
  BY <1>1, <1>3, <1>4
<1>6. /\ open \in [Media -> RowRecord]
      /\ \A x \in Media :
           /\ open[x].state = rows[x].state /\ open[x].asset = rows[x].asset
           /\ \/ open[x].sid = 0 /\ open[x].stack # "stacked"
              \/ open[x].sid = rows[x].sid /\ open[x].stack = rows[x].stack
           /\ open[x].sid # 0 => \A y \in Media : rows[y].sid = rows[x].sid =>
                                   open[y] = rows[y]
      /\ asset # rows[m].asset => open[m].sid = 0
  <2> HIDE DEF asset
  <2>1. CASE asset = rows[m].asset
    <3>1. open = rows
      BY <2>1
    <3>2. \A x \in Media : rows[x].stack = "stacked" <=> rows[x].sid # 0
      BY DEF IInv, RowsFit
    <3>3. QED
      BY <1>3, <2>1, <3>1, <3>2
  <2>2. CASE asset # rows[m].asset
    <3>1. open = Reopened(rows, {m})
      BY <2>2
    <3> DEFINE r == Reopened(rows, {m})
    <3>2. {m} \in SUBSET Media /\ m \in {m}
      OBVIOUS
    <3>3. /\ r \in [Media -> RowRecord]
          /\ \A x \in Media :
               /\ r[x].state = rows[x].state /\ r[x].asset = rows[x].asset
               /\ \/ r[x].sid = 0 /\ r[x].stack # "stacked"
                  \/ r[x].sid = rows[x].sid /\ r[x].stack = rows[x].stack
               /\ r[x].sid # 0 => \A y \in Media : rows[y].sid = rows[x].sid =>
                                    r[y] = rows[y]
          /\ r[m].sid = 0
      BY <3>2, ReopenedRows
    <3> HIDE DEF open, r
    <3>4. QED
      BY <3>1, <3>3 DEF r
  <2>3. QED
    BY <2>1, <2>2
<1>7. rows' = [open EXCEPT ![m] = [row EXCEPT !.state = "complete", !.asset = asset,
                                              !.ours = ours]]
      /\ row \in RowRecord /\ ours \in BOOLEAN /\ row = open[m]
  BY <1>1, <1>6 DEF RowRecord
<1> HIDE DEF new, asset, open, row, ours
<1>8. /\ rows' \in [Media -> RowRecord]
      /\ rows'[m].asset = asset /\ rows'[m].sid = row.sid /\ rows'[m].stack = row.stack
      /\ \A x \in Media : x # m => rows'[x] = open[x]
  BY <1>4, <1>6, <1>7 DEF RowRecord, States
<1>9. \A x \in Media : rows[x].state # "none" => rows[x].asset # 0
  BY DEF IInv, RowsFit
<1>10. RowsFit' /\ SameRecords /\ NoneRecorded /\ Growing
  <2>1. ASSUME NEW x \in Media
        PROVE  /\ \/ rows'[x].sid = 0 /\ rows'[x].stack # "stacked"
                  \/ rows'[x].sid = rows[x].sid /\ rows'[x].stack = rows[x].stack
               /\ rows'[x].state # "none" => rows'[x].asset # 0
    BY <1>4, <1>6, <1>7, <1>8, <1>9
  <2>2. ASSUME NEW x \in Media, rows'[x].sid # 0,
               NEW y \in Media, rows[y].sid = rows[x].sid
        PROVE  rows'[y].sid = rows[y].sid /\ rows'[y].asset = rows[y].asset
    BY <1>6, <1>7, <1>8, <2>2
  <2>3. QED
    BY <1>2, <1>4, <1>8, <2>1, <2>2, RowsCleared
<1>11. StacksFit'
  BY <1>2, <1>3, <1>4 DEF IInv, StacksFit, StackRecord
<1>12. AssetsFit'
  <2>1. ASSUME NEW x \in Media, NEW i \in Owned(x)'
        PROVE  i \in Owned(x) \/ i = 0 \/ (x = m /\ i = serial + 1 /\ i <= serial')
    BY <1>2, <1>4, <1>5, <1>6, <1>8 DEF Owned
  <2>2. QED
    BY <1>4, <1>5, <2>1, AssetsKept
<1>13. JobInv' /\ RecordIsTrue'
  BY <1>2, <1>4, <1>10, JobUndisturbed, StillTrue DEF StacksStand
<1>14. OthersFit'
  BY <1>2 DEF IInv, OthersFit
<1>15. QED
  BY <1>10, <1>11, <1>12, <1>13, <1>14 DEF IInv

-----------------------------------------------------------------------------
(* Steps of the job that need no group                                     *)

\* A job without a group promises nothing.
LEMMA Ungrouped ==
  ASSUME job' \in JobRecord', job'.at \notin Grouped
  PROVE  JobInv'
  BY DEF JobInv, JobFits, GroupIsFree, LookIsFair, PostIsClear, PutIsOurs,
         StackIsUnrecorded, RecordIsReady, Grouped, Guarded, Settling

\* A job that begins or ends has nothing in hand.
LEMMA RestingKeeps ==
  ASSUME IInv, StartPass \/ StartRecheck \/ PassOver \/ Stop
  PROVE  IInv'
<1>1. UNCHANGED <<rule, revision, usable, rows, server, lead, touched, fresh, torn>>
  BY DEF StartPass, StartRecheck, PassOver, Stop
<1>2. \E a \in {"idle", "take", "stamp"} : \E d :
        job' = [NoJob EXCEPT !.at = a, !.done = d]
  BY EmptyForms DEF StartPass, StartRecheck, PassOver, Stop
<1>3. OthersFit' /\ Growing
  BY <1>1 DEF IInv, OthersFit, Growing
<1>4. QED
  BY <1>1, <1>2, <1>3, JobOver

\* A record that is done with.
LEMMA OverForms ==
  ASSUME job' = IF usable THEN RowOver ELSE NoJob
  PROVE  \E a \in {"idle", "take", "stamp"} : \E d :
           job' = [NoJob EXCEPT !.at = a, !.done = d]
<1>1. CASE usable
  <2>1. job' = [NoJob EXCEPT !.at = "take", !.done = job.done \cup {job.me}]
    BY <1>1 DEF RowOver
  <2>2. QED
    BY <2>1
<1>2. CASE ~usable
  BY <1>2, EmptyForms
<1>3. QED
  BY <1>1, <1>2

\* A refused record is in no stack.
LEMMA RefuseKeeps == ASSUME IInv, Refuse PROVE IInv'
<1>1. UNCHANGED <<rule, revision, usable, server, lead, touched, fresh, torn>>
  BY DEF Refuse
<1>2. rows \in [Media -> RowRecord] /\ job.why \in Skips
  BY DEF IInv, RowsFit, JobInv, JobFits, JobRecord
<1>3. \/ rows' = rows
      \/ rows' = [rows EXCEPT ![job.me].stack = job.why] /\ rows[job.me].stack = "none"
  BY DEF Refuse
<1>4. /\ rows' \in [Media -> RowRecord]
      /\ \A m \in Media : /\ rows'[m].asset = rows[m].asset
                          /\ rows'[m].sid = rows[m].sid
                          /\ rows'[m].stack = "stacked" <=> rows[m].stack = "stacked"
                          /\ rows[m].state = "none" => rows'[m].state = "none"
  BY <1>2, <1>3 DEF RowRecord, Skips
<1>5. RowsFit' /\ SameRecords /\ NoneRecorded /\ Growing
  BY <1>1, <1>4, RowsSettled
<1>6. JobInv' /\ \A m \in Media : job'.assets[m] = 0
  <2>1. PICK a \in {"idle", "take", "stamp"} :
          \E d : job' = [NoJob EXCEPT !.at = a, !.done = d]
    BY OverForms DEF Refuse
  <2>2. PICK d : job' = [NoJob EXCEPT !.at = a, !.done = d]
    BY <2>1
  <2>3. QED
    BY <2>2, EmptyHanded
<1>7. OthersFit'
  BY <1>1 DEF IInv, OthersFit
<1>8. QED
  BY <1>1, <1>4, <1>5, <1>6, <1>7, ServerKept

\* A gone asset takes its record out of its stack, with the others of it.
LEMMA StampKeeps == ASSUME IInv, Stamp PROVE IInv'
<1> DEFINE sent == {m \in Media : rows[m].state = "complete"}
           moved == {m \in sent : rows[m].asset # library[m]}
           open == Reopened(rows, moved)
           followed(m) == [open[m] EXCEPT !.asset = library[m]]
<1>1. UNCHANGED <<rule, revision, usable, server, lead, touched, fresh, torn>>
  BY DEF Stamp
<1>2. rows' = [m \in Media |-> IF m \notin moved THEN open[m]
                              ELSE IF library[m] = 0 THEN NoRow ELSE followed(m)]
  BY DEF Stamp
<1>3. /\ open \in [Media -> RowRecord]
      /\ \A m \in Media :
           /\ open[m].state = rows[m].state /\ open[m].asset = rows[m].asset
           /\ \/ open[m].sid = 0 /\ open[m].stack # "stacked"
              \/ open[m].sid = rows[m].sid /\ open[m].stack = rows[m].stack
           /\ m \in moved => open[m].sid = 0
           /\ open[m].sid # 0 => \A x \in Media : rows[x].sid = rows[m].sid =>
                                   open[x] = rows[x]
  <2>1. moved \in SUBSET Media
    OBVIOUS
  <2> HIDE DEF moved
  <2>2. QED
    BY <2>1, ReopenedRows
<1>4. /\ library \in [Media -> Nat] /\ rows \in [Media -> RowRecord]
      /\ serial \in Nat
      /\ \A m \in Media : /\ rows[m].stack = "stacked" <=> rows[m].sid # 0
                          /\ rows[m].state # "none" => rows[m].asset # 0
  BY DEF IInv, AssetsFit, RowsFit, StacksFit
<1> HIDE DEF open, moved
<1>5. \A m \in Media : /\ followed(m) \in RowRecord
                       /\ followed(m).asset = library[m]
                       /\ followed(m).sid = open[m].sid
                       /\ followed(m).stack = open[m].stack
  BY <1>3, <1>4 DEF RowRecord
<1>6. /\ NoRow \in RowRecord /\ NoRow.state = "none" /\ NoRow.asset = 0
      /\ NoRow.sid = 0 /\ NoRow.stack = "none"
  BY DEF NoRow, RowRecord, States
<1> HIDE DEF followed
<1>7. ASSUME NEW m \in Media
      PROVE  /\ rows'[m] \in RowRecord
             /\ \/ rows'[m].sid = 0 /\ rows'[m].stack # "stacked"
                \/ rows'[m].sid = rows[m].sid /\ rows'[m].stack = rows[m].stack
             /\ rows'[m].state # "none" => rows'[m].asset # 0
             /\ rows'[m].asset \in {0, rows[m].asset, library[m]}
             /\ rows'[m].sid # 0 => m \notin moved /\ rows'[m] = open[m]
  BY <1>2, <1>3, <1>4, <1>5, <1>6
<1>8. ASSUME NEW m \in Media, rows'[m].sid # 0,
             NEW x \in Media, rows[x].sid = rows[m].sid
      PROVE  rows'[x].sid = rows[x].sid /\ rows'[x].asset = rows[x].asset
  <2>1. open[m].sid # 0 /\ open[m].sid = rows[m].sid
    BY <1>3, <1>7, <1>8
  <2>2. open[x] = rows[x]
    BY <1>3, <1>8, <2>1
  <2>3. x \notin moved
    BY <1>3, <1>8, <2>1, <2>2
  <2>4. QED
    BY <1>2, <2>2, <2>3
<1>9. rows' \in [Media -> RowRecord]
  BY <1>2, <1>7
<1>10. RowsFit' /\ SameRecords /\ NoneRecorded /\ Growing
  BY <1>1, <1>4, <1>7, <1>8, <1>9, RowsCleared
<1>11. /\ job' \in JobRecord' /\ job'.at \in {"groups", "take"}
       /\ job'.assets = job.assets
  <2>1. PICK a \in {"groups", "take"} : At(a)
    BY DEF Stamp
  <2>2. a \in Places
    BY DEF Places
  <2>3. job' \in JobRecord' /\ job'.at = a /\ job'.assets = job.assets
    BY <2>1, <2>2, Moved DEF IInv, JobInv
  <2>4. QED
    BY <2>3
<1>12. JobInv'
  BY <1>11, Ungrouped DEF Grouped
<1>13. OthersFit'
  BY <1>1 DEF IInv, OthersFit
<1>14. QED
  BY <1>1, <1>7, <1>10, <1>11, <1>12, <1>13, ServerKept

\* The stacks the library lost are given up whole.
LEMMA ReopenKeeps == ASSUME IInv, Reopen PROVE IInv'
<1> DEFINE cleared(m) == [rows[m] EXCEPT !.stack = "none", !.sid = 0]
           gone(m) == \E g \in job.groups : rows[m].sid = g.id
<1>1. UNCHANGED <<rule, revision, usable, server, lead, touched, fresh, torn>>
  BY DEF Reopen
<1>2. rows' = [m \in Media |-> IF gone(m) THEN cleared(m) ELSE rows[m]]
  BY DEF Reopen
<1>3. /\ rows \in [Media -> RowRecord] /\ serial \in Nat
      /\ \A m \in Media : /\ rows[m].stack = "stacked" <=> rows[m].sid # 0
                          /\ rows[m].state # "none" => rows[m].asset # 0
  BY DEF IInv, RowsFit, StacksFit
<1>4. \A m \in Media : /\ cleared(m) \in RowRecord
                       /\ cleared(m).asset = rows[m].asset
                       /\ cleared(m).state = rows[m].state
                       /\ cleared(m).sid = 0 /\ cleared(m).stack = "none"
  BY <1>3 DEF RowRecord
<1>5. \A m, x \in Media : rows[x].sid = rows[m].sid => (gone(x) <=> gone(m))
  OBVIOUS
<1> HIDE DEF cleared, gone
<1>6. /\ rows' \in [Media -> RowRecord]
      /\ \A m \in Media :
           /\ \/ rows'[m].sid = 0 /\ rows'[m].stack # "stacked"
              \/ rows'[m].sid = rows[m].sid /\ rows'[m].stack = rows[m].stack
           /\ rows'[m].state # "none" => rows'[m].asset # 0
           /\ rows'[m].asset = rows[m].asset
           /\ rows'[m].sid # 0 => ~gone(m)
  BY <1>2, <1>3, <1>4
<1>7. ASSUME NEW m \in Media, rows'[m].sid # 0,
             NEW x \in Media, rows[x].sid = rows[m].sid
      PROVE  rows'[x].sid = rows[x].sid /\ rows'[x].asset = rows[x].asset
  BY <1>2, <1>5, <1>6, <1>7
<1>8. RowsFit' /\ SameRecords /\ NoneRecorded /\ Growing
  BY <1>1, <1>3, <1>6, <1>7, RowsCleared
<1>9. JobInv' /\ \A m \in Media : job'.assets[m] = 0
  <2>1. job' = [NoJob EXCEPT !.at = "take", !.done = {}]
    BY EmptyForms DEF Reopen
  <2>2. QED
    BY <2>1, EmptyHanded
<1>10. OthersFit'
  BY <1>1 DEF IInv, OthersFit
<1>11. QED
  BY <1>1, <1>6, <1>8, <1>9, <1>10, ServerKept

\* Steps that leave all but the job alone.
LEMMA JobMoves ==
  ASSUME IInv, UNCHANGED <<rule, revision, usable, rows, server, lead, touched, torn>>,
         fresh' \subseteq fresh, JobInv',
         \A m \in Media : job'.assets[m] \in {0, job.assets[m], rows[m].asset}
  PROVE  IInv'
<1>1. RowsFit' /\ SameRecords /\ NoneRecorded /\ Growing
  BY RowsSettled DEF IInv, RowsFit
<1>2. OthersFit'
  BY DEF IInv, OthersFit
<1>3. QED
  BY <1>1, <1>2, ServerKept

\* Reading the stacks to compare changes nothing.
LEMMA ComparingKeeps == ASSUME IInv, Groups \/ Compare PROVE IInv'
<1>1. UNCHANGED <<rule, revision, usable, rows, server, lead, touched, fresh, torn>>
  BY DEF Groups, Compare
<1>2. job \in JobRecord
  BY DEF IInv, JobInv, JobFits
<1>3. \E a \in {"take", "compare", "reopen"} : \E g :
        job' = [job EXCEPT !.at = a, !.groups = g]
  BY DEF Groups, Compare
<1>4. /\ job' \in JobRecord' /\ job'.at \in {"take", "compare", "reopen"}
      /\ job'.assets = job.assets
  BY <1>2, <1>3 DEF JobRecord, Places
<1>5. JobInv'
  BY <1>4, Ungrouped DEF Grouped
<1>6. QED
  BY <1>1, <1>4, <1>5, JobMoves

-----------------------------------------------------------------------------
(* Steps of the pass with a group in hand, before it changes anything      *)

\* An answer that ends in a refusal.
LEMMA RejectedFits ==
  ASSUME JobFits, Rejected
  PROVE  JobInv' /\ job'.assets = job.assets
<1>1. job' \in JobRecord' /\ job'.at = "refuse" /\ job'.assets = job.assets
  BY DEF JobFits, JobRecord, Rejected, Places, Skips
<1>2. QED
  BY <1>1, Ungrouped DEF Grouped

\* The group of a record consists of media files.
LEMMA GroupIsMedia ==
  ASSUME NEW m \in Media, NEW known \in SUBSET Media
  PROVE  Group(m, known) \in SUBSET Media
  BY DEF Group, Partners, Candidates

\* A taken record starts with the assets its group has then.
LEMMA TakeKeeps == ASSUME IInv, Take PROVE IInv'
<1>1. UNCHANGED <<rule, revision, usable, rows, server, lead, touched, torn>> /\ fresh' = {}
  BY DEF Take
<1> DEFINE taken(m) == [NoJob EXCEPT !.done = job.done, !.me = m, !.revision = revision,
                                     !.assets = [x \in Media |-> rows[x].asset]]
<1>2. PICK m \in Untried :
        LET group == Group(m, Known) IN
        job' = IF Eligible(group)
                 THEN [taken(m) EXCEPT !.at = "guard look", !.group = group,
                                       !.lead = Primary(group), !.todo = group]
                 ELSE [taken(m) EXCEPT !.at = "refuse"]
  BY DEF Take
<1>3. m \in Media /\ Group(m, Known) \in SUBSET Media
  BY <1>2, GroupIsMedia DEF Untried, Known
<1>4. /\ [x \in Media |-> rows[x].asset] \in [Media -> Nat]
      /\ \A x \in Media : rows[x].state # "none" => rows[x].asset # 0
  BY DEF IInv, RowsFit, RowRecord
<1>5. taken(m) \in [at : {"idle"}, done : {job.done}, me : Media, revision : {revision},
                    why : Skips, group : SUBSET Media, lead : {None},
                    assets : [Media -> Nat], todo : {{}},
                    seen : [Media -> [id : Nat, primary : Nat]],
                    stack : {NoStack}, groups : {{}}]
      /\ taken(m).assets = [x \in Media |-> rows[x].asset]
  BY <1>3, <1>4, NoJobType
<1> HIDE DEF taken
<1>6. JobInv' /\ job'.assets = [x \in Media |-> rows[x].asset]
  <2>1. CASE ~Eligible(Group(m, Known))
    <3>1. job' = [taken(m) EXCEPT !.at = "refuse"]
      BY <1>2, <2>1
    <3>2. job' \in JobRecord' /\ job'.at = "refuse"
          /\ job'.assets = [x \in Media |-> rows[x].asset]
      BY <1>5, <3>1 DEF JobRecord, Places
    <3>3. QED
      BY <3>2, Ungrouped DEF Grouped
  <2>2. CASE Eligible(Group(m, Known))
    <3> DEFINE group == Group(m, Known)
               first == Primary(group)
    <3>1. \A x \in group : rows[x].asset # 0
      BY <1>3, <1>4, <2>2 DEF Eligible
    <3>2. job' = [taken(m) EXCEPT !.at = "guard look", !.group = group,
                                  !.lead = first, !.todo = group]
      BY <1>2, <2>2
    <3> HIDE DEF group, first
    <3>3. group \in SUBSET Media
      BY <1>3 DEF group
    <3>4. /\ job' \in JobRecord' /\ job'.at = "guard look"
          /\ job'.group = group /\ job'.todo = group
          /\ job'.assets = [x \in Media |-> rows[x].asset]
      BY <1>5, <3>2, <3>3 DEF JobRecord, Places
    <3>5. \A x \in job'.group : job'.assets[x] # 0
      BY <3>1, <3>3, <3>4
    <3>6. QED
      BY <3>4, <3>5 DEF JobInv, JobFits, GroupIsFree, LookIsFair, PostIsClear, PutIsOurs,
                        StackIsUnrecorded, RecordIsReady, Grouped, Guarded, Settling
  <2>3. QED
    BY <2>1, <2>2
<1>7. QED
  BY <1>1, <1>6, JobMoves

\* After the first guard the group is free of recorded stacks.
LEMMA GuardKeeps == ASSUME IInv, Guard PROVE IInv'
<1>1. UNCHANGED <<rule, revision, usable, rows, server, lead, touched, fresh, torn>>
  BY DEF Guard
<1>2. PICK request \in {"look", "post", "put"} :
        /\ job.at = Guards[request]
        /\ IF ~usable THEN job' = NoJob
           ELSE IF ~Current \/ MemberMoved THEN job' = RowOver
           ELSE At(request)
  BY DEF Guard, Guards
<1>3. CASE job' \in {NoJob, RowOver}
  <2>1. \E a \in {"idle", "take", "stamp"} : \E d :
          job' = [NoJob EXCEPT !.at = a, !.done = d]
    BY <1>3, EmptyForms DEF RowOver
  <2>2. OthersFit' /\ Growing
    BY <1>1 DEF IInv, OthersFit, Growing
  <2>3. QED
    BY <1>1, <2>1, <2>2, JobOver
<1>4. CASE At(request) /\ ~MemberMoved
  <2>1. JobInv /\ JobFits
    BY DEF IInv, JobInv
  <2>2. /\ job' \in JobRecord' /\ job'.at = request
        /\ job'.group = job.group /\ job'.lead = job.lead
        /\ job'.assets = job.assets /\ job'.todo = job.todo
        /\ job'.seen = job.seen /\ job'.stack = job.stack
    BY <1>2, <1>4, <2>1, Moved DEF Places
  <2>3. /\ request = "look" => job.at = "guard look"
        /\ request = "post" => job.at = "guard post"
        /\ request = "put" => job.at = "guard put"
    <3>1. /\ Guards["look"] = "guard look" /\ Guards["post"] = "guard post"
          /\ Guards["put"] = "guard put"
      BY DEF Guards
    <3>2. QED
      BY <1>2, <3>1
  <2>4. JobFits'
    BY <2>1, <2>2, <2>3 DEF JobFits, Grouped
  <2>5. GroupIsFree'
    BY <1>1, <1>4, <2>2 DEF GroupIsFree, MemberMoved
  <2>6. LookIsFair'
    BY <2>1, <2>2, <2>3 DEF LookIsFair, JobFits
  <2>7. PostIsClear'
    BY <1>1, <2>1, <2>2, <2>3 DEF PostIsClear, JobInv, Clear
  <2>8. PutIsOurs'
    BY <1>1, <2>1, <2>2, <2>3 DEF PutIsOurs, JobInv, AssetsOf
  <2>9. StackIsUnrecorded' /\ RecordIsReady'
    BY <1>1, <2>1, <2>2, <2>3 DEF StackIsUnrecorded, RecordIsReady, JobInv, Settling
  <2>10. JobInv'
    BY <2>4, <2>5, <2>6, <2>7, <2>8, <2>9 DEF JobInv
  <2>11. QED
    BY <1>1, <2>2, <2>10, JobMoves
<1>5. QED
  BY <1>2, <1>3, <1>4

\* What the server tells of an asset.
LEMMA StackOfFits ==
  ASSUME StacksFit, NEW asset
  PROVE  /\ StackOf(asset) \in [id : Nat, primary : Nat]
         /\ StackOf(asset) = NoStack => \A s \in stacks : asset \notin s.members
<1> DEFINE holding == {s \in stacks : asset \in s.members}
<1>1. CASE holding = {}
  BY <1>1 DEF StackOf, NoStack
<1>2. CASE holding # {}
  <2>1. PICK s \in stacks : StackOf(asset) = [id |-> s.id, primary |-> s.primary]
    BY <1>2 DEF StackOf
  <2>2. s.id \in Nat /\ s.primary \in Nat /\ s.id # 0
    BY DEF StacksFit, StackRecord
  <2>3. QED
    BY <2>1, <2>2 DEF NoStack
<1>3. QED
  BY <1>1, <1>2

\* What a look remembers is what the server had.
LEMMA LookKeeps == ASSUME IInv, Look PROVE IInv'
<1>1. UNCHANGED <<rule, revision, usable, rows, server, lead, touched, fresh, torn>>
      /\ job.at = "look"
  BY DEF Look
<1>2. JobFits /\ StacksFit
  BY DEF IInv, JobInv
<1>3. PICK m \in job.todo :
        \/ Rejected
        \/ LET seen == [job.seen EXCEPT ![m] = StackOf(job.assets[m])]
               todo == job.todo \ {m}
           IN  job' = [job EXCEPT !.seen = seen, !.todo = todo, !.why = "remote",
                                  !.at = IF todo = {} THEN Verdict(seen) ELSE "look"]
  BY DEF Look
<1>4. CASE Rejected
  BY <1>1, <1>2, <1>4, RejectedFits, JobMoves
<1>5. CASE ~Rejected
  <2> DEFINE told == StackOf(job.assets[m])
             seen == [job.seen EXCEPT ![m] = told]
             todo == job.todo \ {m}
             at == IF todo = {} THEN Verdict(seen) ELSE "look"
  <2>1. job' = [job EXCEPT !.seen = seen, !.todo = todo, !.why = "remote", !.at = at]
    BY <1>3, <1>5
  <2>2. /\ told \in [id : Nat, primary : Nat]
        /\ told = NoStack => \A s \in stacks : job.assets[m] \notin s.members
    BY <1>2, StackOfFits
  <2> HIDE DEF told
  <2>3. job.todo \in SUBSET Media /\ job.seen \in [Media -> [id : Nat, primary : Nat]]
        /\ job.group \in SUBSET Media
    BY <1>2 DEF JobFits, JobRecord
  <2>4. /\ seen \in [Media -> [id : Nat, primary : Nat]] /\ seen[m] = told
        /\ \A x \in Media : x # m => seen[x] = job.seen[x]
        /\ todo \in SUBSET Media
    BY <2>2, <2>3
  <2>5. /\ at \in {"guard post", "find", "refuse", "look"}
        /\ at = "guard post" => todo = {} /\ \A x \in job.group : seen[x] = NoStack
    BY DEF Verdict
  <2> HIDE DEF seen, todo, at
  <2>6. /\ job' \in JobRecord' /\ job'.at = at /\ job'.group = job.group
        /\ job'.assets = job.assets /\ job'.todo = todo /\ job'.seen = seen
    <3>1. job \in JobRecord
      BY <1>2 DEF JobFits
    <3>2. /\ job'.at = at /\ job'.group = job.group
          /\ job'.assets = job.assets /\ job'.todo = todo /\ job'.seen = seen
      BY <2>1, <3>1 DEF JobRecord
    <3>3. at \in Places /\ "remote" \in Skips
      BY <2>5 DEF Places, Skips
    <3>4. job' \in JobRecord'
      BY <2>1, <2>4, <3>1, <3>3 DEF JobRecord
    <3>5. QED
      BY <3>2, <3>4
  <2>7. JobFits'
    BY <1>1, <1>2, <2>5, <2>6 DEF JobFits, Grouped
  <2>8. GroupIsFree'
    BY <1>1, <2>6 DEF GroupIsFree, IInv, JobInv, Guarded, Grouped
  <2>9. ASSUME NEW x \in job.group \ todo, seen[x] = NoStack
        PROVE  \A s \in stacks : job.assets[x] \in s.members => s.id \in fresh
    <3>1. CASE x = m
      BY <2>2, <2>4, <2>9, <3>1
    <3>2. CASE x # m
      <4>1. x \in job.group \ job.todo /\ job.seen[x] = NoStack
        BY <2>3, <2>4, <2>9, <3>2 DEF todo
      <4>2. QED
        BY <1>1, <4>1 DEF IInv, JobInv, LookIsFair, Clear
    <3>3. QED
      BY <3>1, <3>2
  <2>10. LookIsFair' /\ PostIsClear'
    BY <1>1, <2>5, <2>6, <2>9 DEF LookIsFair, PostIsClear, Clear
  <2>11. PutIsOurs' /\ StackIsUnrecorded' /\ RecordIsReady'
    BY <2>5, <2>6 DEF PutIsOurs, StackIsUnrecorded, RecordIsReady, Settling
  <2>12. JobInv'
    BY <2>7, <2>8, <2>10, <2>11 DEF JobInv
  <2>13. QED
    BY <1>1, <2>6, <2>12, JobMoves
<1>6. QED
  BY <1>4, <1>5

-----------------------------------------------------------------------------
(* Steps of the pass with a stack                                          *)

\* A stack of the group's assets is what the job goes on with.
LEMMA FoundFits ==
  ASSUME IInv, StacksFit', rows' = rows, UNCHANGED <<touched, torn, fresh>>,
         job.at \in Guarded, NEW k, Found(k), NEW s \in stacks',
         s.id = k.id, s.primary = k.primary, s.members = AssetsOf(job.group),
         \A m \in Media : rows[m].sid = s.id => s.id \in touched \cup torn
  PROVE  JobInv' /\ job'.assets = job.assets
<1>1. job \in JobRecord
  BY DEF IInv, JobInv, JobFits
<1>2. PICK at \in {"record", "guard put"} :
        /\ job' = [job EXCEPT !.stack = k, !.at = at]
        /\ at = "record" => k.primary = job.assets[job.lead]
  BY DEF Found
<1>3. /\ job' \in JobRecord' /\ job'.at = at /\ job'.group = job.group
      /\ job'.assets = job.assets /\ job'.lead = job.lead /\ job'.stack = k
  BY <1>1, <1>2 DEF JobRecord, Places
<1>4. JobFits' /\ GroupIsFree'
  BY <1>3 DEF IInv, JobInv, JobFits, GroupIsFree, Guarded
<1>5. LookIsFair' /\ PostIsClear'
  BY <1>3 DEF LookIsFair, PostIsClear
<1>6. AssetsOf(job.group)' = AssetsOf(job.group)
  BY <1>3 DEF AssetsOf
<1>7. \A t \in stacks' : t.id = k.id => t = s
  BY DEF StacksFit
<1>8. PutIsOurs'
  BY <1>3, <1>6, <1>7 DEF PutIsOurs
<1>9. StackIsUnrecorded'
  BY <1>3 DEF StackIsUnrecorded, StacksFit
<1>10. RecordIsReady'
  BY <1>2, <1>3, <1>6 DEF RecordIsReady
<1>11. QED
  BY <1>3, <1>4, <1>5, <1>8, <1>9, <1>10 DEF JobInv

\* The job remembers an asset by the media file it belongs to.
LEMMA AssetIsOwned ==
  ASSUME IInv, job.at \in Grouped, NEW m \in Media, NEW g \in job.group,
         rows[m].asset = job.assets[g]
  PROVE  m = g
<1>1. g \in Media /\ job.assets[g] # 0
  BY DEF IInv, JobInv, JobFits, JobRecord
<1>2. job.assets[g] \in Owned(g) /\ rows[m].asset \in Owned(m)
  BY DEF Owned
<1>3. QED
  BY <1>1, <1>2 DEF IInv, AssetsFit

\* An absorbed answer is looked for again among the group's assets.
LEMMA FindKeeps == ASSUME IInv, Find PROVE IInv'
<1>1. UNCHANGED <<rule, revision, usable, rows, server, lead, touched, fresh, torn>>
      /\ job.at = "find"
  BY DEF Find
<1> DEFINE told == job.seen[job.lead]
<1>2. CASE Rejected
  <2>1. JobInv' /\ job'.assets = job.assets
    BY <1>2, RejectedFits DEF IInv, JobInv
  <2>2. QED
    BY <1>1, <2>1, JobMoves
<1>3. CASE ~Rejected
  <2>1. PICK s \in stacks : /\ s.id = told.id /\ s.primary = told.primary
                            /\ s.members = AssetsOf(job.group) /\ Found(told)
    BY <1>3 DEF Find
  <2>2. ASSUME NEW m \in Media, rows[m].sid = s.id, s.id \notin touched \cup torn
        PROVE  FALSE
    <3>1. rows[m].stack = "stacked"
      BY <2>2 DEF IInv, RowsFit, StacksFit
    <3>2. PICK t \in stacks :
            /\ t.id = s.id
            /\ t.members = {rows[x].asset : x \in {y \in Media : rows[y].sid = t.id}}
      BY <2>2, <3>1 DEF IInv, RecordIsTrue
    <3>3. t = s
      BY <3>2 DEF IInv, StacksFit
    <3>4. rows[m].asset \in AssetsOf(job.group)
      BY <2>1, <2>2, <3>2, <3>3
    <3>5. PICK g \in job.group : rows[m].asset = job.assets[g]
      BY <3>4 DEF AssetsOf
    <3>6. m \in job.group
      BY <1>1, <3>5, AssetIsOwned DEF Grouped
    <3>7. QED
      BY <1>1, <3>1, <3>6 DEF IInv, JobInv, GroupIsFree, Guarded, Grouped
  <2>3. StacksFit'
    BY <1>1 DEF IInv, StacksFit, StackRecord
  <2>4. s \in stacks' /\ job.at \in Guarded
    BY <1>1 DEF Guarded, Grouped
  <2> HIDE DEF told
  <2>5. JobInv' /\ job'.assets = job.assets
    BY <1>1, <2>1, <2>2, <2>3, <2>4, FoundFits
  <2>6. QED
    BY <1>1, <2>5, JobMoves
<1>4. QED
  BY <1>2, <1>3

\* What is read back is a stack of the group's assets.
LEMMA ReadBackKeeps == ASSUME IInv, ReadBack PROVE IInv'
<1>1. UNCHANGED <<rule, revision, usable, rows, server, lead, touched, fresh, torn>>
      /\ job.at = "read back"
  BY DEF ReadBack
<1>2. JobInv /\ JobFits
  BY DEF IInv, JobInv
<1>3. CASE Rejected
  BY <1>1, <1>2, <1>3, RejectedFits, JobMoves
<1>4. CASE ~Rejected
  <2>1. PICK s \in stacks : /\ s.id = job.stack.id
                            /\ s.primary = job.assets[job.lead]
                            /\ s.members = AssetsOf(job.group)
    BY <1>4 DEF ReadBack
  <2>2. At("record")
    BY <1>4 DEF ReadBack
  <2>3. /\ job' \in JobRecord' /\ job'.at = "record"
        /\ job'.group = job.group /\ job'.lead = job.lead
        /\ job'.assets = job.assets /\ job'.stack = job.stack
    BY <1>2, <2>2, Moved DEF Places
  <2>4. JobFits' /\ GroupIsFree'
    BY <1>1, <1>2, <2>3 DEF JobInv, JobFits, GroupIsFree, Guarded, Grouped
  <2>5. LookIsFair' /\ PostIsClear' /\ PutIsOurs'
    BY <2>3 DEF LookIsFair, PostIsClear, PutIsOurs
  <2>6. StackIsUnrecorded'
    BY <1>1, <1>2, <2>3 DEF JobInv, StackIsUnrecorded, Settling
  <2>7. RecordIsReady'
    BY <1>1, <2>1, <2>3 DEF RecordIsReady, AssetsOf
  <2>8. JobInv'
    BY <2>4, <2>5, <2>6, <2>7 DEF JobInv
  <2>9. QED
    BY <1>1, <2>3, <2>8, JobMoves
<1>5. QED
  BY <1>3, <1>4

\* What POST takes away was made while the pass had its record in hand.
LEMMA PostTakes ==
  ASSUME IInv, Post, NEW s \in stacks \ stacks'
  PROVE  s.id \in fresh
<1>1. /\ job.at = "post"
      /\ AssetsOf(job.group) \in SUBSET Nat
  BY DEF Post, AssetsOf, IInv, JobInv, JobFits, JobRecord
<1>2. PICK p \in AssetsOf(job.group) : stacks' = Stacked(AssetsOf(job.group), p)
  BY DEF Post, Rejected
<1>3. s.members \cap AssetsOf(job.group) # {}
  BY <1>1, <1>2, StackedKeeps DEF IInv
<1>4. QED
  BY <1>1, <1>3 DEF IInv, JobInv, PostIsClear, Clear, AssetsOf

\* A POST takes apart stacks no record is true of.
LEMMA PostKeeps == ASSUME IInv, Post PROVE IInv'
<1>1. UNCHANGED <<rule, revision, usable, rows, library, lead, touched, fresh, torn>>
      /\ job.at = "post"
  BY DEF Post
<1> DEFINE assets == AssetsOf(job.group)
<1>2. CASE Rejected /\ UNCHANGED <<stacks, serial>>
  <2>1. JobInv' /\ job'.assets = job.assets
    BY <1>2, RejectedFits DEF IInv, JobInv
  <2>2. QED
    BY <1>1, <1>2, <2>1, JobMoves
<1>3. ASSUME NEW p \in assets, stacks' = Stacked(assets, p), serial' = serial + 1,
             IF Absorbed(assets) = assets
               THEN Found([id |-> serial', primary |-> p]) ELSE Rejected
      PROVE  IInv'
  <2>1. assets \in SUBSET Nat /\ serial \in Nat /\ StacksFit
    <3>1. job.assets \in [Media -> Nat] /\ job.group \in SUBSET Media
      BY DEF IInv, JobInv, JobFits, JobRecord
    <3>2. assets \in SUBSET Nat
      BY <3>1 DEF AssetsOf
    <3>3. QED
      BY <3>2 DEF IInv, StacksFit
  <2> HIDE DEF assets
  <2>2. /\ StacksFit'
        /\ Absorbed(assets) \in SUBSET Nat
        /\ [id |-> serial + 1, members |-> Absorbed(assets), primary |-> p] \in stacks'
    BY <1>3, <2>1, StackedIsFit DEF Stacked
  <2>3. RowsFit' /\ SameRecords /\ Growing
    <3>1. \A m \in Media : rows[m].sid <= serial'
      BY <1>3, <2>1 DEF IInv, RowsFit, RowRecord
    <3>2. QED
      BY <1>1, <3>1 DEF IInv, RowsFit, SameRecords, Growing, RowRecord
  <2>4. StacksStand
    <3>1. \A s \in stacks \ stacks' : s.id \in fresh
      BY PostTakes
    <3>2. QED
      BY <1>1, <3>1 DEF StacksStand, IInv, OthersFit
  <2>5. RecordIsTrue'
    BY <2>3, <2>4, StillTrue
  <2>6. JobInv' /\ job'.assets = job.assets
    <3>1. CASE Absorbed(assets) # assets
      BY <1>3, <3>1, RejectedFits DEF IInv, JobInv
    <3>2. CASE Absorbed(assets) = assets
      <4> DEFINE k == [id |-> serial + 1, primary |-> p]
                 s == [id |-> serial + 1, members |-> assets, primary |-> p]
      <4>1. Found(k) /\ s \in stacks'
        BY <1>3, <2>2, <3>2
      <4>2. s.id = k.id /\ s.primary = k.primary /\ s.members = AssetsOf(job.group)
            /\ s.id = serial + 1
        BY DEF assets
      <4> HIDE DEF k, s
      <4>3. \A m \in Media : rows[m].sid # s.id
        BY <2>1, <4>2 DEF IInv, RowsFit, RowRecord
      <4>4. job.at \in Guarded
        BY <1>1 DEF Guarded, Grouped
      <4>5. QED
        BY <1>1, <2>2, <4>1, <4>2, <4>3, <4>4, FoundFits
    <3>3. QED
      BY <3>1, <3>2
  <2>7. AssetsFit'
    <3>1. \A m \in Media : \A i \in Owned(m)' : i \in Owned(m)
      BY <1>1, <2>6 DEF Owned
    <3>2. QED
      BY <1>1, <1>3, <2>1, <3>1, AssetsSame DEF IInv, AssetsFit
  <2>8. OthersFit'
    BY <1>1 DEF IInv, OthersFit
  <2>9. QED
    BY <2>2, <2>3, <2>5, <2>6, <2>7, <2>8 DEF IInv
<1>4. QED
  BY <1>2, <1>3 DEF Post

\* What PUT changes is the stack of the group.
LEMMA PutTakes ==
  ASSUME Put, NEW s \in stacks \ stacks'
  PROVE  job.at = "put" /\ s.id = job.stack.id
  BY DEF Put, Rejected

\* A PUT changes the primary asset of the stack in hand alone.
LEMMA PutKeeps == ASSUME IInv, Put PROVE IInv'
<1>1. UNCHANGED <<rule, revision, usable, rows, library, serial, lead, touched, fresh, torn>>
      /\ job.at = "put"
  BY DEF Put
<1>2. JobInv /\ JobFits
  BY DEF IInv, JobInv
<1> DEFINE wanted == job.assets[job.lead]
           old == {x \in stacks : x.id = job.stack.id /\ wanted \in x.members}
<1>3. CASE Rejected /\ UNCHANGED stacks
  <2>1. JobInv' /\ job'.assets = job.assets
    BY <1>2, <1>3, RejectedFits
  <2>2. QED
    BY <1>1, <1>3, <2>1, JobMoves
<1>4. CASE /\ stacks' = (stacks \ old) \cup {[x EXCEPT !.primary = wanted] : x \in old}
           /\ At("read back")
  <2>1. /\ job' \in JobRecord' /\ job'.at = "read back"
        /\ job'.group = job.group /\ job'.assets = job.assets /\ job'.stack = job.stack
    BY <1>2, <1>4, Moved DEF Places
  <2>2. \A x \in stacks : /\ x \in StackRecord /\ x.id \in 1..serial
                          /\ x.primary \in x.members /\ x.members \subseteq Nat
    BY DEF IInv, StacksFit, StackRecord
  <2>3. ASSUME NEW t \in stacks'
        PROVE  /\ t \in StackRecord /\ t.primary \in t.members
               /\ \E x \in stacks : t.id = x.id /\ t.members = x.members
                                   /\ t.primary = IF x \in old THEN wanted ELSE x.primary
    <3>1. CASE t \in stacks \ old
      BY <2>2, <3>1
    <3>2. CASE t \notin stacks \ old
      <4>1. PICK x \in old : t = [x EXCEPT !.primary = wanted]
        BY <1>4, <3>2
      <4>2. x \in StackRecord /\ wanted \in x.members /\ wanted \in Nat
        BY <2>2
      <4> HIDE DEF wanted
      <4>3. t \in StackRecord /\ t.id = x.id /\ t.members = x.members /\ t.primary = wanted
        BY <4>1, <4>2 DEF StackRecord
      <4>4. QED
        BY <4>2, <4>3
    <3>3. QED
      BY <3>1, <3>2
  <2>4. ASSUME NEW t \in stacks', NEW u \in stacks',
               t.id = u.id \/ t.members \cap u.members # {}
        PROVE  t = u
    <3>1. PICK x \in stacks : t.id = x.id /\ t.members = x.members
                              /\ t.primary = IF x \in old THEN wanted ELSE x.primary
      BY <2>3
    <3>2. PICK y \in stacks : u.id = y.id /\ u.members = y.members
                              /\ u.primary = IF y \in old THEN wanted ELSE y.primary
      BY <2>3
    <3> HIDE DEF old, wanted
    <3>3. x = y
      BY <2>4, <3>1, <3>2 DEF IInv, StacksFit
    <3>4. t.id = u.id /\ t.members = u.members /\ t.primary = u.primary
      BY <3>1, <3>2, <3>3
    <3>5. t \in StackRecord /\ u \in StackRecord
      BY <2>3
    <3>6. QED
      BY <3>4, <3>5 DEF StackRecord
  <2>5. StacksFit'
    BY <1>1, <2>2, <2>3, <2>4 DEF IInv, StacksFit, StackRecord
  <2>6. RowsFit' /\ SameRecords /\ Growing
    BY <1>1 DEF IInv, RowsFit, SameRecords, Growing, RowRecord
  <2>7. StacksStand
    BY <1>1, <1>2, PutTakes DEF StacksStand, JobInv, StackIsUnrecorded, Settling
  <2>8. RecordIsTrue'
    BY <2>6, <2>7, StillTrue
  <2>9. JobInv'
    <3>1. JobFits' /\ GroupIsFree'
      BY <1>1, <1>2, <2>1 DEF JobInv, JobFits, GroupIsFree, Guarded, Grouped
    <3>2. LookIsFair' /\ PostIsClear' /\ PutIsOurs' /\ RecordIsReady'
      BY <2>1 DEF LookIsFair, PostIsClear, PutIsOurs, RecordIsReady
    <3>3. StackIsUnrecorded'
      BY <1>1, <1>2, <2>1 DEF JobInv, StackIsUnrecorded, Settling
    <3>4. QED
      BY <3>1, <3>2, <3>3 DEF JobInv
  <2>10. AssetsFit'
    <3>1. \A m \in Media : \A i \in Owned(m)' : i \in Owned(m)
      BY <1>1, <2>1 DEF Owned
    <3>2. QED
      BY <1>1, <3>1, AssetsSame DEF IInv, AssetsFit, StacksFit
  <2>11. OthersFit'
    BY <1>1 DEF IInv, OthersFit
  <2>12. QED
    BY <2>5, <2>6, <2>8, <2>9, <2>10, <2>11 DEF IInv
<1>5. QED
  BY <1>3, <1>4 DEF Put

\* What is recorded is the stack that was read back.
LEMMA RecordKeeps == ASSUME IInv, Record PROVE IInv'
<1>1. UNCHANGED <<rule, revision, usable, server, touched, fresh, torn>>
      /\ job.at = "record"
  BY DEF Record
<1>2. JobInv' /\ \A m \in Media : job'.assets[m] = 0
  <2>1. PICK a \in {"idle", "take", "stamp"} :
          \E d : job' = [NoJob EXCEPT !.at = a, !.done = d]
    BY OverForms DEF Record
  <2>2. PICK d : job' = [NoJob EXCEPT !.at = a, !.done = d]
    BY <2>1
  <2>3. QED
    BY <2>2, EmptyHanded
<1>3. OthersFit'
  BY <1>1 DEF IInv, OthersFit
<1>4. CASE UNCHANGED <<rows, lead>>
  <2>1. RowsFit' /\ SameRecords /\ Growing
    BY <1>1, <1>4, RowsSettled DEF IInv, RowsFit
  <2>2. QED
    BY <1>1, <1>2, <1>3, <1>4, <2>1, ServerKept
<1>5. CASE ~UNCHANGED <<rows, lead>>
  <2> DEFINE sid == job.stack.id
             recorded(m) == [rows[m] EXCEPT !.stack = "stacked", !.sid = sid]
  <2>1. /\ ~MemberMoved
        /\ rows' = [m \in Media |-> IF m \in job.group THEN recorded(m) ELSE rows[m]]
        /\ lead' = lead \cup {<<sid, job.assets[job.lead]>>}
    BY <1>5 DEF Record
  <2>2. /\ rows \in [Media -> RowRecord] /\ job.group \in SUBSET Media
        /\ serial \in Nat /\ sid \in 1..serial
        /\ \A m \in Media : /\ rows[m].stack = "stacked" <=> rows[m].sid # 0
                            /\ rows[m].sid <= serial
                            /\ rows[m].state # "none" => rows[m].asset # 0
        /\ \A m \in Media : rows[m].sid = sid => sid \in touched \cup torn
    BY <1>1 DEF IInv, RowsFit, StacksFit, JobInv, JobFits, JobRecord, StackIsUnrecorded,
                Settling
  <2>3. \A m \in job.group : rows[m].asset = job.assets[m] /\ rows[m].stack # "stacked"
    BY <2>1 DEF MemberMoved
  <2>4. \A m \in Media : /\ recorded(m) \in RowRecord
                         /\ recorded(m).asset = rows[m].asset
                         /\ recorded(m).state = rows[m].state
                         /\ recorded(m).sid = sid /\ recorded(m).stack = "stacked"
    <3>1. sid \in Nat
      BY <2>2
    <3> HIDE DEF sid
    <3>2. QED
      BY <2>2, <3>1 DEF RowRecord
  <2> HIDE DEF sid, recorded
  <2>5. /\ rows' \in [Media -> RowRecord]
        /\ \A m \in Media : /\ rows'[m].asset = rows[m].asset
                            /\ rows'[m].state = rows[m].state
                            /\ m \in job.group => /\ rows'[m].sid = sid
                                                  /\ rows'[m].stack = "stacked"
                            /\ m \notin job.group => rows'[m] = rows[m]
    BY <2>1, <2>2, <2>4
  <2>6. RowsFit'
    <3>1. \A m \in Media : /\ rows'[m].stack = "stacked" <=> rows'[m].sid # 0
                           /\ rows'[m].sid <= serial'
                           /\ rows'[m].state # "none" => rows'[m].asset # 0
      BY <1>1, <2>2, <2>5
    <3>2. QED
      BY <2>5, <3>1 DEF RowsFit
  <2>7. ASSUME NEW m \in Media, rows'[m].stack = "stacked",
               rows'[m].sid \notin touched \cup torn
        PROVE  \E s \in stacks :
                 /\ s.id = rows'[m].sid
                 /\ s.members = {rows'[x].asset : x \in
                                  {y \in Media : rows'[y].sid = s.id}}
                 /\ <<s.id, s.primary>> \in lead'
    <3>1. CASE m \in job.group
      <4>1. rows'[m].sid = sid /\ sid \notin touched \cup torn
        BY <2>5, <2>7, <3>1
      <4>2. PICK s \in stacks : /\ s.id = sid
                                /\ s.members = AssetsOf(job.group)
                                /\ s.primary = job.assets[job.lead]
        BY <1>1, <4>1 DEF IInv, JobInv, RecordIsReady, sid
      <4>3. {y \in Media : rows'[y].sid = sid} = job.group
        BY <2>2, <2>5, <4>1
      <4>4. s.members = {rows'[x].asset : x \in job.group}
        BY <2>2, <2>3, <2>5, <4>2 DEF AssetsOf
      <4>5. QED
        BY <2>1, <4>1, <4>2, <4>3, <4>4
    <3>2. CASE m \notin job.group
      <4>1. rows'[m] = rows[m] /\ rows[m].sid # 0
        BY <2>2, <2>5, <2>7, <3>2
      <4>2. PICK s \in stacks :
              /\ s.id = rows[m].sid
              /\ s.members = {rows[x].asset : x \in {y \in Media : rows[y].sid = s.id}}
              /\ <<s.id, s.primary>> \in lead
        BY <2>7, <4>1 DEF IInv, RecordIsTrue
      <4>3. s.id # sid
        BY <2>2, <2>7, <4>1, <4>2
      <4>4. \A y \in Media : rows'[y].sid = s.id <=> rows[y].sid = s.id
        BY <2>2, <2>3, <2>5, <4>1, <4>2, <4>3
      <4>5. s.members = {rows'[x].asset : x \in {y \in Media : rows'[y].sid = s.id}}
        BY <2>5, <4>2, <4>4
      <4>6. QED
        BY <2>1, <4>1, <4>2, <4>5
    <3>3. QED
      BY <3>1, <3>2
  <2>8. RecordIsTrue'
    BY <1>1, <2>7 DEF RecordIsTrue
  <2>9. StacksFit'
    BY <1>1 DEF IInv, StacksFit, StackRecord
  <2>10. AssetsFit'
    <3>1. \A m \in Media : \A i \in Owned(m)' : i \in Owned(m) \/ i = 0
      BY <1>1, <1>2, <2>5 DEF Owned
    <3>2. QED
      BY <1>1, <2>2, <3>1, AssetsSame DEF IInv, AssetsFit
  <2>11. QED
    BY <1>2, <1>3, <2>6, <2>8, <2>9, <2>10 DEF IInv
<1>6. QED
  BY <1>4, <1>5

-----------------------------------------------------------------------------
(* Other users                                                             *)

\* Other users touch what they stack, dissolve or delete.
LEMMA UsersKeep ==
  ASSUME IInv, Touch, StacksFit', serial <= serial', library' \in [Media -> Nat], NEW k,
         \A m \in Media : library'[m] \in {0, library[m]} \/
            (m = k /\ library'[m] = serial + 1 /\ serial' = serial + 1)
  PROVE  IInv'
<1> DEFINE changed == {s.id : s \in (stacks \ stacks') \cup (stacks' \ stacks)}
<1>1. /\ UNCHANGED <<rule, revision, usable, rows, job, lead, torn>>
      /\ touched' = touched \cup changed /\ fresh' = fresh \cup changed
  BY DEF Touch
<1>2. \A s \in (stacks \ stacks') \cup (stacks' \ stacks) : s.id \in changed
  OBVIOUS
<1> HIDE DEF changed
<1>3. serial \in Nat /\ serial' \in Nat
  BY DEF IInv, StacksFit
<1>4. RowsFit' /\ SameRecords /\ NoneRecorded /\ Growing
  <2>1. \A m \in Media : rows[m].sid <= serial'
    BY <1>3 DEF IInv, RowsFit, RowRecord
  <2>2. RowsFit'
    BY <1>1, <2>1 DEF IInv, RowsFit, RowRecord
  <2>3. SameRecords /\ NoneRecorded /\ Growing
    BY <1>1 DEF SameRecords, NoneRecorded, Growing
  <2>4. QED
    BY <2>2, <2>3
<1>5. StacksStand
  BY <1>1, <1>2 DEF StacksStand
<1>6. JobInv'
  BY <1>1, <1>2, <1>3, <1>4, JobUndisturbed
<1>7. AssetsFit'
  <2>1. \A m \in Media : \A i \in Owned(m)' :
          i \in Owned(m) \/ i = 0 \/ (m = k /\ i = serial + 1 /\ i <= serial')
    BY <1>1, <1>3 DEF Owned
  <2>2. QED
    BY <1>3, <2>1, AssetsKept
<1>8. OthersFit'
  BY <1>1 DEF IInv, OthersFit
<1>9. QED
  BY <1>4, <1>5, <1>6, <1>7, <1>8, StillTrue DEF IInv

\* An asset others upload belongs to one media file.
LEMMA OtherUsersKeep ==
  ASSUME IInv, UserStacks \/ UserDissolves \/ UserDeletes \/ UserUploads
  PROVE  IInv'
<1>1. /\ library \in [Media -> Nat] /\ serial \in Nat /\ StacksFit
  BY DEF IInv, AssetsFit, StacksFit
<1>2. CASE UserStacks
  <2>1. PICK assets \in SUBSET (Existing \cup {Foreign}) : \E p \in assets :
          stacks' = Stacked(assets, p)
    BY <1>2 DEF UserStacks
  <2>2. assets \in SUBSET Nat
    BY <1>1, <2>1 DEF Existing, Foreign
  <2>3. serial' = serial + 1 /\ library' = library /\ Touch
    BY <1>2 DEF UserStacks
  <2>4. StacksFit'
    BY <1>1, <2>1, <2>2, <2>3, StackedIsFit
  <2>5. QED
    BY <1>1, <2>3, <2>4, UsersKeep
<1>3. CASE UserDissolves
  <2>1. stacks' \subseteq stacks /\ library' = library /\ serial' = serial /\ Touch
    BY <1>3 DEF UserDissolves
  <2>2. StacksFit'
    BY <1>1, <2>1 DEF StacksFit, StackRecord
  <2>3. QED
    BY <1>1, <2>1, <2>2, UsersKeep
<1>4. CASE UserDeletes
  <2>1. PICK m \in Media : /\ library' = [library EXCEPT ![m] = 0]
                           /\ stacks' = Without(stacks, {library[m]})
    BY <1>4 DEF UserDeletes
  <2>2. serial' = serial /\ Touch
    BY <1>4 DEF UserDeletes
  <2>3. StacksFit'
    BY <1>1, <2>1, <2>2, WithoutIsFit
  <2>4. library' \in [Media -> Nat] /\ \A x \in Media : library'[x] \in {0, library[x]}
    BY <1>1, <2>1
  <2>5. QED
    BY <1>1, <2>2, <2>3, <2>4, UsersKeep
<1>5. CASE UserUploads
  <2>1. PICK m \in Media : library' = [library EXCEPT ![m] = serial + 1]
    BY <1>5 DEF UserUploads
  <2>2. serial' = serial + 1 /\ stacks' = stacks /\ Touch
    BY <1>5 DEF UserUploads
  <2>3. StacksFit'
    BY <1>1, <2>2 DEF StacksFit, StackRecord
  <2>4. /\ library' \in [Media -> Nat]
        /\ \A x \in Media : library'[x] \in {0, library[x]} \/
             (x = m /\ library'[x] = serial + 1 /\ serial' = serial + 1)
    BY <1>1, <2>1, <2>2
  <2>5. QED
    BY <1>1, <2>2, <2>3, <2>4, UsersKeep
<1>6. QED
  BY <1>2, <1>3, <1>4, <1>5

-----------------------------------------------------------------------------
(* Theorems                                                                *)

\* At the start nothing is recorded and no job runs.
LEMMA InitFits == Init => IInv
<1> SUFFICES ASSUME Init PROVE IInv
  OBVIOUS
<1>1. /\ rows = [m \in Media |-> NoRow] /\ library = [m \in Media |-> 0]
      /\ stacks = {} /\ serial = 0 /\ job = NoJob
      /\ rule \in Rules /\ revision = 1 /\ usable = TRUE /\ fresh = {} /\ touched = {}
  BY DEF Init
<1>2. /\ NoRow \in RowRecord /\ NoRow.state = "none" /\ NoRow.asset = 0
      /\ NoRow.sid = 0 /\ NoRow.stack = "none"
  BY DEF NoRow, RowRecord, States
<1>3. StacksFit /\ RowsFit /\ OthersFit
  BY <1>1, <1>2 DEF StacksFit, RowsFit, OthersFit
<1>4. /\ job \in JobRecord /\ job.at = "idle"
      /\ \A m \in Media : job.assets[m] = 0
  <2>1. NoJob \in JobRecord /\ NoJob.at = "idle"
    BY <1>1, NoJobType DEF JobRecord, Places
  <2>2. NoJob.assets = [m \in Media |-> 0]
    BY DEF NoJob
  <2>3. QED
    BY <1>1, <2>1, <2>2
<1>5. JobInv
  BY <1>4 DEF JobInv, JobFits, GroupIsFree, LookIsFair, PostIsClear, PutIsOurs,
              StackIsUnrecorded, RecordIsReady, Grouped, Guarded, Settling
<1>6. AssetsFit
  BY <1>1, <1>2, <1>4 DEF AssetsFit, Owned
<1>7. RecordIsTrue
  BY <1>1, <1>2 DEF RecordIsTrue
<1>8. QED
  BY <1>3, <1>5, <1>6, <1>7 DEF IInv

\* A step that changes nothing.
LEMMA Stutters == ASSUME IInv, UNCHANGED vars PROVE IInv'
<1>1. UNCHANGED <<rule, revision, usable, rows, server, job, lead, touched, fresh, torn>>
  BY DEF vars
<1>2. RowsFit' /\ SameRecords /\ NoneRecorded /\ Growing
  BY <1>1, RowsSettled DEF IInv, RowsFit
<1>3. OthersFit'
  BY <1>1 DEF IInv, OthersFit
<1>4. QED
  BY <1>1, <1>2, <1>3, RowsChange

\* Every action, one by one.
LEMMA StepKeeps == IInv /\ [Next]_vars => IInv'
<1> SUFFICES ASSUME IInv, [Next]_vars PROVE IInv'
  OBVIOUS
<1>1. CASE StartPass \/ StartRecheck \/ PassOver \/ Stop
  BY <1>1, RestingKeeps
<1>2. CASE Pass /\ ~PassOver
  BY <1>2, TakeKeeps, RefuseKeeps, GuardKeeps, LookKeeps, FindKeeps, PostKeeps, PutKeeps,
     ReadBackKeeps, RecordKeeps DEF Pass
<1>3. CASE Recheck
  BY <1>3, StampKeeps, ComparingKeeps, ReopenKeeps DEF Recheck
<1>4. CASE Send \/ SendFails
  BY <1>4, SendKeeps, SendFailsKeeps
<1>5. CASE Retry \/ EditProfile \/ MoveDate \/ SetUsable \/ Evidence
  BY <1>5, RetryKeeps, EditProfileKeeps, MoveDateKeeps, SetUsableKeeps, EvidenceKeeps
<1>6. CASE UserStacks \/ UserDissolves \/ UserDeletes \/ UserUploads
  BY <1>6, OtherUsersKeep
<1>7. CASE UNCHANGED vars
  BY <1>7, Stutters
<1>8. QED
  BY <1>1, <1>2, <1>3, <1>4, <1>5, <1>6, <1>7 DEF Next

\* The invariant the other theorems rest on.
THEOREM Inductive == Spec => []IInv
<1>1. Init => IInv
  BY InitFits
<1>2. IInv /\ [Next]_vars => IInv'
  BY StepKeeps
<1>3. QED
  BY <1>1, <1>2, PTL DEF Spec

\* The variables of the pass and of the server keep their types.
THEOREM TypeCorrect == Spec => []TypeOK
<1>1. IInv => TypeOK
  <2> SUFFICES ASSUME IInv PROVE TypeOK
    OBVIOUS
  <2>1. /\ rows \in [Media -> [state : States, asset : Nat, ours : BOOLEAN,
                               stack : {"none", "stacked"} \cup Skips, sid : Nat]]
        /\ \A m \in Media : rows[m].stack = "stacked" <=> rows[m].sid # 0
    BY DEF IInv, RowsFit, RowRecord
  <2>2. /\ rule \in Rules /\ revision \in Nat /\ usable \in BOOLEAN
        /\ serial \in Nat /\ library \in [Media -> Nat]
        /\ \A s \in stacks : s.id \in 1..serial /\ s.primary \in s.members
    BY DEF IInv, OthersFit, StacksFit, AssetsFit
  <2>3. job.me \in Media \cup {None} /\ job.group \subseteq Media
    BY DEF IInv, JobInv, JobFits, JobRecord
  <2>4. QED
    BY <2>1, <2>2, <2>3 DEF TypeOK
<1>2. QED
  BY <1>1, Inductive, PTL

\* What is recorded as a stack is one on the server, unless another user
\* changed it since or a retry tore it.
THEOREM RecordsTrue == Spec => []RecordIsTrue
<1>1. IInv => RecordIsTrue
  BY DEF IInv
<1>2. QED
  BY <1>1, Inductive, PTL

\* No step of the job changes a stack of another user that stood when it took
\* the record in hand.
THEOREM ForeignSafe == Spec => ForeignStackKept
<1> DEFINE Kept == job' # job => \A s \in stacks \ stacks' :
                      s.id \in fresh \/ s.members = AssetsOf(job.group)
<1>1. ASSUME IInv, [Next]_vars PROVE [Kept]_vars
  <2> SUFFICES ASSUME job' # job, NEW s \in stacks \ stacks'
               PROVE  s.id \in fresh \/ s.members = AssetsOf(job.group)
    OBVIOUS
  <2>1. Post \/ Put
    BY <1>1 DEF Next, vars, StartPass, StartRecheck, Stop, Pass, Take, PassOver, Refuse,
       Guard, Look, Find, ReadBack, Record, Recheck, Stamp, Groups, Compare, Reopen, Send,
       SendFails, Retry, EditProfile, MoveDate, SetUsable, Evidence, UserStacks,
       UserDissolves, UserDeletes, UserUploads, Touch
  <2>2. CASE Post
    BY <1>1, <2>2, PostTakes
  <2>3. CASE Put
    BY <1>1, <2>3, PutTakes DEF IInv, JobInv, PutIsOurs
  <2>4. QED
    BY <2>1, <2>2, <2>3
<1>2. QED
  BY <1>1, Inductive, PTL DEF Spec, ForeignStackKept

-----------------------------------------------------------------------------
(* The list of photos                                                      *)

\* A content is of the extension its path has.
EntriesFit ==
    /\ entries \in [Paths -> Entry]
    /\ card \in [Paths -> Media \cup {Absent}]
    /\ \A p \in Paths : /\ entries[p].media \in Media => Kind[entries[p].media] = p.ext
                        /\ card[p] \in Media => Kind[card[p]] = p.ext

\* The cards as they are put in.
LEMMA CardInitFits == Init => EntriesFit
<1> SUFFICES ASSUME Init PROVE EntriesFit
  OBVIOUS
<1>1. PICK world \in Worlds, marked \in BOOLEAN :
         CardInit(world.held, marked) /\ scans = MaxScans - world.scans
  BY DEF Init
<1>2. /\ card = world.held /\ card \in [Paths -> Media \cup {Absent}]
      /\ scans \in Nat
      /\ \A p \in Paths : card[p] # Absent => Kind[card[p]] = p.ext
  BY <1>1, StacksAssumption, StackPairsAssumption DEF CardInit
<1>3. /\ entries \in [Paths -> Entry]
      /\ \A p \in Paths : entries[p].media = card[p]
  <2> DEFINE mark(p) == IF marked /\ \E q \in On(p.card) : /\ q.ext # p.ext
                                                          /\ world.held[q] # Absent
                        THEN scans ELSE 0
  <2>1. entries = [p \in Paths |-> [media |-> world.held[p], mark |-> mark(p)]]
    BY <1>1 DEF CardInit
  <2>2. \A p \in Paths : mark(p) \in Nat
    BY <1>2
  <2> HIDE DEF mark
  <2>3. QED
    BY <1>2, <2>1, <2>2 DEF Entry
<1>4. Absent \notin Media
  BY StackPairsAssumption
<1>5. QED
  BY <1>2, <1>3, <1>4 DEF EntriesFit

\* What a scan makes of an entry stays of its extension.
LEMMA EntriesKept ==
  ASSUME EntriesFit, card' = card, entries' \in [Paths -> Entry],
         \A p \in Paths : entries'[p].media \in {entries[p].media, card[p], Pending, Absent}
  PROVE  EntriesFit'
<1>1. Absent \notin Media /\ Pending \notin Media
  BY StackPairsAssumption
<1>2. QED
  BY <1>1 DEF EntriesFit

\* Cards, scans and imports keep what is of an extension there.
LEMMA EvidenceFits == ASSUME EntriesFit, scans \in Nat, Evidence PROVE EntriesFit' /\ scans' \in Nat
<1>1. \A p \in Paths : entries[p] \in Entry /\ card[p] \in Media \cup {Absent}
  BY DEF EntriesFit
<1>2. \A p \in Paths, redated \in SUBSET Paths :
         /\ Reconciled(p, redated) \in Entry
         /\ Reconciled(p, redated).media \in {entries[p].media, Pending}
  BY <1>1 DEF Reconciled, Entry
<1>3. \A p \in Paths, e \in Entry :
         /\ Swept(p, e) \in Entry
         /\ Swept(p, e).media \in {e.media, Absent}
  BY DEF Swept, Entry
<1>4. CASE Shoot
  <2>1. PICK p \in Paths : \E m \in {x \in Media : Kind[x] = p.ext} \cup {Absent} :
           card' = [card EXCEPT ![p] = m] /\ UNCHANGED <<entries, scans>>
    BY <1>4 DEF Shoot
  <2>2. card' \in [Paths -> Media \cup {Absent}]
    BY <2>1 DEF EntriesFit
  <2>3. \A q \in Paths : card'[q] \in Media => Kind[card'[q]] = q.ext
    BY <2>1, StackPairsAssumption DEF EntriesFit
  <2>4. QED
    BY <2>1, <2>2, <2>3 DEF EntriesFit
<1>5. CASE Scan
  <2>1. PICK c \in Cards : \E redated \in SUBSET On(c) :
           /\ scans' = scans + 1 /\ card' = card
           /\ entries' = [p \in Paths |->
                 IF p \notin On(c) THEN entries[p]
                 ELSE Scanned(p, redated, ToMark(c), scans')]
    BY <1>5 DEF Scan
  <2>2. PICK redated \in SUBSET On(c) :
           entries' = [p \in Paths |->
                 IF p \notin On(c) THEN entries[p]
                 ELSE Scanned(p, redated, ToMark(c), scans')]
    BY <2>1
  <2>3. redated \in SUBSET Paths /\ scans' \in Nat
    BY <2>1, <2>2 DEF On
  <2>4. ASSUME NEW p \in Paths
        PROVE  /\ entries'[p] \in Entry
               /\ entries'[p].media \in {entries[p].media, Pending, Absent}
    <3> DEFINE e == Swept(p, Reconciled(p, redated))
    <3>1. e \in Entry /\ e.media \in {entries[p].media, Pending, Absent}
      BY <1>2, <1>3, <2>3
    <3>2. Scanned(p, redated, ToMark(c), scans')
             = [e EXCEPT !.mark = IF p \in ToMark(c) THEN scans' ELSE @]
      BY Zenon DEF Scanned
    <3> HIDE DEF e
    <3>3. /\ Scanned(p, redated, ToMark(c), scans') \in Entry
          /\ Scanned(p, redated, ToMark(c), scans').media = e.media
      BY <2>3, <3>1, <3>2 DEF Entry
    <3>4. QED
      BY <1>1, <2>2, <3>1, <3>3
  <2>5. entries' \in [Paths -> Entry]
    BY <2>2, <2>4
  <2>6. QED
    BY <2>1, <2>3, <2>4, <2>5, EntriesKept
<1>6. CASE ScanCancelled
  <2>1. PICK c \in Cards : \E reached \in SUBSET On(c) :
           /\ scans' = scans + 1 /\ card' = card
           /\ entries' = [p \in Paths |-> IF p \in reached THEN Reconciled(p, {})
                                          ELSE entries[p]]
    BY <1>6 DEF ScanCancelled
  <2>2. \A p \in Paths : /\ entries'[p] \in Entry
                         /\ entries'[p].media \in {entries[p].media, Pending}
    BY <1>1, <1>2, <2>1
  <2>3. entries' \in [Paths -> Entry] /\ scans' \in Nat
    BY <2>1, <2>2
  <2>4. QED
    BY <2>1, <2>2, <2>3, EntriesKept
<1>7. CASE Import
  <2>1. PICK p \in Paths : /\ card[p] # Absent /\ card' = card /\ scans' = scans
                           /\ entries' = [entries EXCEPT ![p].media = card[p]]
    BY <1>7 DEF Import
  <2>2. \A q \in Paths : /\ entries'[q] \in Entry
                         /\ entries'[q].media \in {entries[q].media, card[q]}
    BY <1>1, <2>1 DEF Entry, EntriesFit
  <2>3. entries' \in [Paths -> Entry]
    BY <2>1, <2>2 DEF EntriesFit
  <2>4. QED
    BY <2>1, <2>2, <2>3, EntriesKept
<1>8. QED
  BY <1>4, <1>5, <1>6, <1>7 DEF Evidence

\* Nobody else touches the cards or what was found on them.
LEMMA EntriesStep ==
  ASSUME EntriesFit, scans \in Nat, [Next]_vars
  PROVE  EntriesFit' /\ scans' \in Nat
<1>1. CASE UNCHANGED <<entries, card, scans>>
  BY <1>1 DEF EntriesFit
<1>2. CASE UNCHANGED vars
  BY <1>1, <1>2 DEF vars
<1>3. CASE StartPass \/ StartRecheck \/ Stop \/ Pass \/ Recheck
  BY <1>1, <1>3 DEF StartPass, StartRecheck, Stop, Pass, Take, PassOver, Refuse,
       Guard, Look, Find, Post, Put, ReadBack, Record, Recheck, Stamp, Groups, Compare, Reopen
<1>4. CASE Send \/ SendFails \/ Retry \/ EditProfile \/ MoveDate \/ SetUsable
  BY <1>1, <1>4 DEF Send, SendFails, Retry, EditProfile, MoveDate, SetUsable
<1>5. CASE UserStacks \/ UserDissolves \/ UserDeletes \/ UserUploads
  BY <1>1, <1>5 DEF UserStacks, UserDissolves, UserDeletes, UserUploads, Touch
<1>6. CASE Evidence
  BY <1>6, EvidenceFits
<1>7. QED
  BY <1>2, <1>3, <1>4, <1>5, <1>6 DEF Next

\* The extensions fit, in every state.
THEOREM EntriesInductive == Spec => []EntriesFit
<1>1. Init => EntriesFit /\ scans \in Nat
  BY CardInitFits, StacksAssumption, StackPairsAssumption DEF Init
<1>2. EntriesFit /\ scans \in Nat /\ [Next]_vars => (EntriesFit /\ scans \in Nat)'
  BY EntriesStep
<1>3. QED
  BY <1>1, <1>2, PTL DEF Spec

\* A card has one file of a name: its file system does not tell cases apart.
OneFilePerName ==
    \A p, q \in Paths : p.card = q.card /\ p.ext = q.ext => p = q

\* A rule that is enabled names every extension there are media of.
RulesAreWhole ==
    \A x \in Rules : x = << >> \/ \A e \in Exts : \E i \in DOMAIN x : x[i] = e

\* No rule names more than two extensions.
ShortRules == \A x \in Rules : Len(x) <= 2

\* The media beside the sightings of m.
MediaBeside(m) ==
    {x \in Media : \E p \in Marked(m) : \E q \in Beside(p) : entries[q].media = x}

\* What the list of photos finds for m.
FoundFor(m) ==
    {entries[q].media : q \in {a \in UNION {Beside(p) : p \in Marked(m)} : InRule(a.ext)}}

\* There are finitely many paths, so the list finds finitely many media.
LEMMA FoundIsFinite == ASSUME NEW m PROVE IsFiniteSet(FoundFor(m))
<1> DEFINE Q == {a \in UNION {Beside(p) : p \in Marked(m)} : InRule(a.ext)}
           f == [q \in Q |-> entries[q].media]
<1>1. Q \subseteq Paths
  BY DEF Beside
<1>2. IsFiniteSet(Q)
  BY <1>1, StackPairsAssumption, FS_Subset
<1>3. FoundFor(m) = {entries[q].media : q \in Q}
  BY DEF FoundFor
<1> HIDE DEF Q
<1>4. f \in Surjection(Q, FoundFor(m))
  BY <1>3, Zenon DEF Surjection
<1>5. QED
  BY <1>2, <1>4, FS_Surjection

\* A finite set has two elements or more when it has two that differ.
LEMMA TwoOrMore ==
  ASSUME NEW S, IsFiniteSet(S)
  PROVE  /\ \A x, y \in S : x # y => Cardinality(S) >= 2
         /\ Cardinality(S) >= 2 => \E x, y \in S : x # y
<1>1. ASSUME NEW x \in S, NEW y \in S, x # y PROVE Cardinality(S) >= 2
  <2>1. IsFiniteSet({x}) /\ Cardinality({x}) = 1
    BY FS_Singleton
  <2> DEFINE one == {x}
  <2> HIDE DEF one
  <2>2. IsFiniteSet({x} \cup {y}) /\ Cardinality({x} \cup {y}) = 2
    <3>1. IsFiniteSet(one) /\ Cardinality(one) = 1 /\ y \notin one
      BY <1>1, <2>1 DEF one
    <3>2. IsFiniteSet(one \cup {y}) /\ Cardinality(one \cup {y}) = 2
      BY <3>1, FS_AddElement
    <3>3. QED
      BY <3>2 DEF one
  <2>3. {x} \cup {y} \subseteq S
    BY <1>1
  <2>4. Cardinality({x} \cup {y}) <= Cardinality(S)
    BY <2>3, FS_Subset
  <2>5. Cardinality(S) \in Nat
    BY FS_CardinalityType
  <2>6. QED
    BY <2>2, <2>4, <2>5
<1>2. ASSUME Cardinality(S) >= 2, \A x, y \in S : x = y PROVE FALSE
  <2>1. CASE S = {}
    BY <1>2, <2>1, FS_EmptySet
  <2>2. CASE S # {}
    <3>1. PICK x \in S : S = {x}
      BY <1>2, <2>2
    <3>2. QED
      BY <1>2, <3>1, FS_Singleton
  <2>3. QED
    BY <2>1, <2>2
<1>3. QED
  BY <1>1, <1>2

\* With the rule in force, what the list finds for m is what is beside it.
LEMMA FoundBeside ==
  ASSUME NEW m, \A e \in Exts : InRule(e)
  PROVE  FoundFor(m) = MediaBeside(m)
<1>1. \A p \in Marked(m) : \A q \in Beside(p) :
         /\ q \in Paths /\ entries[q].media \in Media /\ InRule(q.ext)
  BY StackPairsAssumption DEF Beside
<1>2. FoundFor(m) \subseteq MediaBeside(m)
  <2> SUFFICES ASSUME NEW x \in FoundFor(m) PROVE x \in MediaBeside(m)
    OBVIOUS
  <2>1. PICK q \in {a \in UNION {Beside(p) : p \in Marked(m)} : InRule(a.ext)} :
           x = entries[q].media
    BY DEF FoundFor
  <2>2. PICK p \in Marked(m) : q \in Beside(p)
    BY <2>1
  <2>3. QED
    BY <1>1, <2>1, <2>2 DEF MediaBeside
<1>3. MediaBeside(m) \subseteq FoundFor(m)
  <2> SUFFICES ASSUME NEW x \in MediaBeside(m) PROVE x \in FoundFor(m)
    OBVIOUS
  <2>1. PICK p \in Marked(m) : \E q \in Beside(p) : entries[q].media = x
    BY DEF MediaBeside
  <2>2. PICK q \in Beside(p) : entries[q].media = x
    BY <2>1
  <2>3. q \in UNION {Beside(a) : a \in Marked(m)} /\ InRule(q.ext)
    BY <1>1, <2>2
  <2>4. QED
    BY <2>2, <2>3 DEF FoundFor
<1>4. QED
  BY <1>2, <1>3

\* The evidence of m on a card is the mark of its only file there.
LEMMA ProofIsMark ==
  ASSUME OneFilePerName, EntriesFit, NEW m \in Media, NEW p \in Sightings(m)
  PROVE  Proof(m, p.card) = entries[p].mark
<1>1. {x \in Sightings(m) : x.card = p.card} = {p}
  BY DEF OneFilePerName, EntriesFit, Sightings
<1>2. (CHOOSE x \in {p} : \A q \in {p} : q.twin <= x.twin) = p
  <2>1. p.twin \in 0..1
    BY StackPairsAssumption DEF Sightings
  <2>2. \A q \in {p} : q.twin <= p.twin
    BY <2>1
  <2>3. QED
    BY <2>2
<1>3. QED
  BY <1>1, <1>2, Zenon DEF Proof

\* The partners the pass finds are the media beside m.
LEMMA PartnersBeside ==
  ASSUME OneFilePerName, EntriesFit, NEW m \in Media, \A e \in Exts : InRule(e)
  PROVE  Partners(m, Media) = MediaBeside(m) \ {m}
<1> DEFINE Q == {p \in Candidates(m, Media) : /\ InRule(p.ext)
                                              /\ Proof(m, p.card) # 0
                                              /\ entries[p].mark = Proof(m, p.card)}
<1>1. InRule(Kind[m]) /\ \A p \in Paths : InRule(p.ext)
  BY StackPairsAssumption
<1>2. Partners(m, Media) = {entries[q].media : q \in Q} \ {m}
  BY <1>1 DEF Partners
<1>3. \A q \in Q : \E p \in Marked(m) : q \in Beside(p)
  <2> SUFFICES ASSUME NEW q \in Q PROVE \E p \in Marked(m) : q \in Beside(p)
    OBVIOUS
  <2>1. /\ q \in Paths /\ entries[q].media \in Media
        /\ \E p \in Sightings(m) : p.card = q.card
        /\ Proof(m, q.card) # 0 /\ entries[q].mark = Proof(m, q.card)
    BY DEF Candidates
  <2>2. PICK p \in Sightings(m) : p.card = q.card
    BY <2>1
  <2>3. Proof(m, q.card) = entries[p].mark
    BY <2>2, ProofIsMark
  <2>4. QED
    BY <2>1, <2>2, <2>3 DEF Marked, Beside
<1>4. \A p \in Marked(m) : \A q \in Beside(p) : q \in Q
  <2> SUFFICES ASSUME NEW p \in Marked(m), NEW q \in Beside(p) PROVE q \in Q
    OBVIOUS
  <2>1. /\ q \in Paths /\ entries[q].media \in Media /\ q.card = p.card
        /\ p \in Sightings(m) /\ entries[p].mark # 0 /\ entries[q].mark = entries[p].mark
    BY DEF Marked, Beside
  <2>2. Proof(m, q.card) = entries[p].mark
    BY <2>1, ProofIsMark
  <2>3. QED
    BY <1>1, <2>1, <2>2 DEF Candidates
<1>5. \A q \in Q : entries[q].media \in Media
  BY DEF Candidates
<1> HIDE DEF Q
<1>6. {entries[q].media : q \in Q} = MediaBeside(m)
  BY <1>3, <1>4, <1>5 DEF MediaBeside
<1>7. QED
  BY <1>2, <1>6

\* Two media of one extension are beside m for the list as for the pass.
LEMMA AmbiguousBoth ==
  ASSUME OneFilePerName, EntriesFit, NEW m \in Media, \A e \in Exts : InRule(e),
         m \in MediaBeside(m)
  PROVE  Ambiguous(m, Media) <=> AmbiguousRow(m)
<1>1. Partners(m, Media) \cup {m} = MediaBeside(m)
  BY PartnersBeside
<1>2. ASSUME NEW x \in MediaBeside(m), NEW y \in MediaBeside(m), x # y, Kind[x] = Kind[y]
      PROVE  AmbiguousRow(m)
  <2>1. PICK p \in Marked(m) : \E a \in Beside(p) : entries[a].media = x
    BY DEF MediaBeside
  <2>2. PICK a \in Beside(p) : entries[a].media = x
    BY <2>1
  <2>3. PICK q \in Marked(m) : \E b \in Beside(q) : entries[b].media = y
    BY DEF MediaBeside
  <2>4. PICK b \in Beside(q) : entries[b].media = y
    BY <2>3
  <2>5. a.ext = b.ext
    BY <1>2, <2>2, <2>4 DEF EntriesFit, Beside, MediaBeside
  <2>6. QED
    BY <1>2, <2>2, <2>4, <2>5 DEF AmbiguousRow
<1>3. ASSUME NEW p \in Marked(m), NEW q \in Marked(m), NEW a \in Beside(p),
             NEW b \in Beside(q), entries[a].media # entries[b].media, a.ext = b.ext
      PROVE  \E x, y \in MediaBeside(m) : x # y /\ Kind[x] = Kind[y]
  <2>1. entries[a].media \in MediaBeside(m) /\ entries[b].media \in MediaBeside(m)
    BY DEF MediaBeside, Beside
  <2>2. Kind[entries[a].media] = a.ext /\ Kind[entries[b].media] = b.ext
    BY DEF EntriesFit, Beside
  <2>3. QED
    BY <1>3, <2>1, <2>2
<1>4. AmbiguousRow(m) => \E x, y \in MediaBeside(m) : x # y /\ Kind[x] = Kind[y]
  BY <1>3, Zenon DEF AmbiguousRow
<1>5. QED
  BY <1>1, <1>2, <1>4 DEF Ambiguous

\* One rule in two languages, where both see the same files.
LEMMA OneRule ==
  ASSUME OneFilePerName, RulesAreWhole, EntriesFit, rule \in Rules
  PROVE  ListingAgrees
<1> SUFFICES ASSUME NEW m \in Media PROVE MembersOf(m) = Group(m, Media)
  BY DEF ListingAgrees
<1>1. CASE rule = << >>
  <2>1. \A e : ~InRule(e)
    BY <1>1 DEF InRule
  <2>2. Partners(m, Media) = {}
    BY <2>1 DEF Partners
  <2>3. FoundFor(m) = {}
    BY <2>1 DEF FoundFor
  <2>4. Cardinality(FoundFor(m)) < 2
    BY <2>3, FS_EmptySet
  <2>5. MembersOf(m) = {}
    BY <2>4 DEF MembersOf, FoundFor
  <2>6. QED
    BY <2>2, <2>5 DEF Group
<1>2. CASE \A e \in Exts : \E i \in DOMAIN rule : rule[i] = e
  <2>1. \A e \in Exts : InRule(e)
    BY <1>2 DEF InRule
  <2>2. /\ FoundFor(m) = MediaBeside(m) /\ IsFiniteSet(FoundFor(m))
        /\ Partners(m, Media) = FoundFor(m) \ {m}
    BY <2>1, FoundBeside, FoundIsFinite, PartnersBeside
  <2>3. Cardinality(FoundFor(m)) \in Nat
    BY <2>2, FS_CardinalityType
  <2>4. MembersOf(m) = IF AmbiguousRow(m) \/ Cardinality(FoundFor(m)) < 2 THEN {}
                       ELSE FoundFor(m)
    BY Zenon DEF MembersOf, FoundFor
  <2>5. CASE Marked(m) = {}
    <3>1. FoundFor(m) = {}
      BY <2>2, <2>5 DEF MediaBeside
    <3>2. MembersOf(m) = {}
      BY <2>4, <3>1
    <3>3. Group(m, Media) = {}
      BY <2>2, <3>1 DEF Group
    <3>4. QED
      BY <3>2, <3>3
  <2>6. CASE Marked(m) # {}
    <3>1. PICK p \in Marked(m) : TRUE
      BY <2>6
    <3>2. p \in Beside(p) /\ entries[p].media = m
      BY <3>1 DEF Marked, Sightings, Beside
    <3>3. m \in MediaBeside(m)
      BY <3>1, <3>2 DEF MediaBeside
    <3>4. Ambiguous(m, Media) <=> AmbiguousRow(m)
      BY <2>1, <3>3, AmbiguousBoth
    <3>5. Cardinality(FoundFor(m)) < 2 <=> Partners(m, Media) = {}
      <4>1. Cardinality(FoundFor(m)) >= 2 <=> \E x, y \in FoundFor(m) : x # y
        BY <2>2, TwoOrMore
      <4>2. (\E x, y \in FoundFor(m) : x # y) <=> Partners(m, Media) # {}
        BY <2>2, <3>3
      <4>3. QED
        BY <2>3, <4>1, <4>2
    <3>6. Partners(m, Media) \cup {m} = FoundFor(m)
      BY <2>2, <3>3
    <3>7. QED
      BY <2>4, <3>4, <3>5, <3>6 DEF Group
  <2>7. QED
    BY <2>5, <2>6
<1>3. QED
  BY <1>1, <1>2 DEF RulesAreWhole

\* The list of photos declares the stacks that the pass makes, for cards with
\* one file of a name and rules that name every extension.
THEOREM ListingTrue ==
  ASSUME OneFilePerName, RulesAreWhole
  PROVE  Spec => []ListingAgrees
<1>1. IInv /\ EntriesFit => ListingAgrees
  BY OneRule DEF IInv, OthersFit
<1>2. QED
  BY <1>1, Inductive, EntriesInductive, PTL

\* A row that is hidden is a member of a row that is not, when a rule names
\* two extensions.
LEMMA HiddenIsMember ==
  ASSUME ShortRules, EntriesFit, rule \in Rules
  PROVE  NothingDisappears
<1> SUFFICES ASSUME NEW m \in Media, Hidden(m)
             PROVE  \E x \in Media : ~Hidden(x) /\ m \in MembersOf(x)
  BY DEF NothingDisappears
<1>1. PICK p \in Marked(m) : \E q \in Beside(p) :
          /\ InRule(p.ext) /\ InRule(q.ext)
          /\ RankOf(q.ext) < RankOf(p.ext)
          /\ entries[q].media # m
          /\ ~AmbiguousRow(entries[q].media)
  BY DEF Hidden
<1>2. PICK q \in Beside(p) :
          /\ InRule(p.ext) /\ InRule(q.ext)
          /\ RankOf(q.ext) < RankOf(p.ext)
          /\ entries[q].media # m
          /\ ~AmbiguousRow(entries[q].media)
  BY <1>1
<1> DEFINE y == entries[q].media
<1>3. /\ p \in Paths /\ entries[p].media = m /\ entries[p].mark # 0
      /\ q \in Paths /\ y \in Media /\ q.card = p.card
      /\ entries[q].mark = entries[p].mark
  BY DEF Marked, Sightings, Beside
<1>4. q \in Marked(y) /\ p \in Beside(q) /\ q \in Beside(q)
  BY <1>3 DEF Marked, Sightings, Beside
<1>5. \A e : InRule(e) => RankOf(e) \in 1..2
  <2> SUFFICES ASSUME NEW e, InRule(e) PROVE RankOf(e) \in 1..2
    OBVIOUS
  <2>1. RankOf(e) \in DOMAIN rule
    BY DEF InRule, RankOf
  <2>2. rule \in Seq(Exts) /\ Len(rule) <= 2
    BY StackPairsAssumption DEF ShortRules
  <2>3. QED
    BY <2>1, <2>2
<1>6. RankOf(q.ext) = 1
  BY <1>2, <1>5
<1>7. ~Hidden(y)
  <2> SUFFICES ASSUME Hidden(y) PROVE FALSE
    OBVIOUS
  <2>1. PICK a \in Marked(y) : \E b \in Beside(a) :
           InRule(a.ext) /\ InRule(b.ext) /\ RankOf(b.ext) < RankOf(a.ext)
    BY DEF Hidden
  <2>2. a.ext = Kind[y] /\ q.ext = Kind[y]
    BY <1>3, <2>1 DEF Marked, Sightings, EntriesFit
  <2>3. QED
    BY <1>5, <1>6, <2>1, <2>2
<1>8. m \in MembersOf(y)
  <2>1. m \in FoundFor(y) /\ y \in FoundFor(y)
    <3>1. /\ p \in {a \in UNION {Beside(b) : b \in Marked(y)} : InRule(a.ext)}
          /\ q \in {a \in UNION {Beside(b) : b \in Marked(y)} : InRule(a.ext)}
      BY <1>2, <1>4
    <3>2. QED
      BY <1>3, <3>1 DEF FoundFor
  <2>2. Cardinality(FoundFor(y)) >= 2 /\ Cardinality(FoundFor(y)) \in Nat
    BY <1>2, <2>1, FoundIsFinite, TwoOrMore, FS_CardinalityType
  <2>3. MembersOf(y) = IF AmbiguousRow(y) \/ Cardinality(FoundFor(y)) < 2 THEN {}
                       ELSE FoundFor(y)
    BY Zenon DEF MembersOf, FoundFor
  <2>4. QED
    BY <1>2, <2>1, <2>2, <2>3
<1>9. QED
  BY <1>3, <1>7, <1>8

\* No file disappears from the list, where a rule names two extensions.
THEOREM ListedSomewhere ==
  ASSUME ShortRules
  PROVE  Spec => []NothingDisappears
<1>1. IInv /\ EntriesFit => NothingDisappears
  BY HiddenIsMember DEF IInv, OthersFit
<1>2. QED
  BY <1>1, Inductive, EntriesInductive, PTL

-----------------------------------------------------------------------------
(* Refused pairs                                                           *)

\* A content is on one card.
Apart ==
    \A p, q \in Paths :
        entries[p].media \in Media /\ entries[p].media = entries[q].media =>
            p.card = q.card

\* One scan has met m and x on a card, and the rule names both.
Joined(m, x) ==
    \E p \in Sightings(m) : \E q \in Sightings(x) :
        /\ p.card = q.card
        /\ entries[p].mark # 0 /\ entries[p].mark = entries[q].mark
        /\ InRule(p.ext) /\ InRule(q.ext)

Ready(m) == rows[m].ours /\ rows[m].state = "complete"

\* Refused by the local rules and nothing against it but them.
Quiet(m) == Ready(m) /\ rows[m].stack = "local"

\* Of two that belong together and are refused, one had its evidence late.
RefusedApart ==
    \A m, x \in Media : m # x /\ Joined(m, x) /\ Quiet(m) /\ Quiet(x) =>
        m \in late \/ x \in late

\* A refusal that is about to be recorded had a reason when the record was
\* taken, and has it still under the same revision.
RefusalIsFair ==
    job.at = "refuse" /\ job.why = "local" =>
        /\ job.me \in Media
        /\ job.revision = revision =>
             \/ job.me \in late
             \/ \A x \in Media \ {job.me} :
                   Joined(job.me, x) => ~(Ready(job.me) /\ Ready(x))

\* Only what is sent is refused.
RefusedAreSent == \A m \in Media : rows[m].stack \in Skips => rows[m].state = "complete"

RevisionFits == revision \in Nat /\ job.revision \in 0..revision

PairsFit == RefusedApart /\ RefusalIsFair /\ RefusedAreSent /\ RevisionFits

\* It is the same from both of them.
LEMMA JoinedBoth == ASSUME NEW m, NEW x, Joined(m, x) PROVE Joined(x, m)
  BY DEF Joined

\* Partners are those a scan has met m with.
LEMMA PartnersJoined ==
  ASSUME OneFilePerName, EntriesFit, NEW m \in Media, NEW known \in SUBSET Media
  PROVE  Partners(m, known) = {x \in known \ {m} : Joined(m, x)}
<1> DEFINE Q == {p \in Candidates(m, known) : /\ InRule(p.ext)
                                              /\ Proof(m, p.card) # 0
                                              /\ entries[p].mark = Proof(m, p.card)}
<1>1. \A p \in Sightings(m) : p.ext = Kind[m]
  BY DEF EntriesFit, Sightings
<1>2. CASE ~InRule(Kind[m])
  <2>1. \A x : ~Joined(m, x)
    BY <1>1, <1>2 DEF Joined
  <2>2. Partners(m, known) = {}
    BY <1>2 DEF Partners
  <2>3. QED
    BY <2>1, <2>2
<1>3. CASE InRule(Kind[m])
  <2>1. Partners(m, known) = {entries[q].media : q \in Q} \ {m}
    BY <1>3 DEF Partners
  <2>2. ASSUME NEW q \in Q PROVE /\ entries[q].media \in known \cup {m}
                                 /\ Joined(m, entries[q].media)
    <3>1. /\ q \in Paths /\ entries[q].media \in known \cup {m} /\ InRule(q.ext)
          /\ \E p \in Sightings(m) : p.card = q.card
          /\ Proof(m, q.card) # 0 /\ entries[q].mark = Proof(m, q.card)
      BY DEF Candidates
    <3>2. PICK p \in Sightings(m) : p.card = q.card
      BY <3>1
    <3>3. Proof(m, q.card) = entries[p].mark
      BY <3>2, ProofIsMark
    <3>4. InRule(p.ext)
      BY <1>1, <1>3
    <3>5. q \in Sightings(entries[q].media)
      BY <3>1 DEF Sightings
    <3>6. QED
      BY <3>1, <3>2, <3>3, <3>4, <3>5 DEF Joined
  <2>3. ASSUME NEW x \in known, Joined(m, x)
        PROVE  \E q \in Q : entries[q].media = x
    <3>1. PICK p \in Sightings(m) : \E q \in Sightings(x) :
            /\ p.card = q.card
            /\ entries[p].mark # 0 /\ entries[p].mark = entries[q].mark
            /\ InRule(p.ext) /\ InRule(q.ext)
      BY <2>3 DEF Joined
    <3>2. PICK q \in Sightings(x) :
            /\ p.card = q.card
            /\ entries[p].mark # 0 /\ entries[p].mark = entries[q].mark
            /\ InRule(p.ext) /\ InRule(q.ext)
      BY <3>1
    <3>3. Proof(m, q.card) = entries[p].mark
      BY <3>2, ProofIsMark
    <3>4. q \in Paths /\ entries[q].media = x
      BY DEF Sightings
    <3>5. q \in Q
      BY <3>2, <3>3, <3>4 DEF Candidates
    <3>6. QED
      BY <3>4, <3>5
  <2> HIDE DEF Q
  <2>4. QED
    BY <2>1, <2>2, <2>3
<1>4. QED
  BY <1>2, <1>3

\* A rule of two extensions joins m with one medium, on the card that has both.
LEMMA OnePartner ==
  ASSUME OneFilePerName, ShortRules, EntriesFit, Apart, rule \in Rules,
         NEW m \in Media, NEW x \in Media \ {m}, NEW y \in Media \ {m},
         Joined(m, x), Joined(m, y)
  PROVE  x = y /\ Kind[x] # Kind[m]
<1>1. PICK p \in Sightings(m) : \E q \in Sightings(x) :
        p.card = q.card /\ InRule(p.ext) /\ InRule(q.ext)
  BY DEF Joined
<1>2. PICK q \in Sightings(x) : p.card = q.card /\ InRule(p.ext) /\ InRule(q.ext)
  BY <1>1
<1>3. PICK a \in Sightings(m) : \E b \in Sightings(y) :
        a.card = b.card /\ InRule(b.ext)
  BY DEF Joined
<1>4. PICK b \in Sightings(y) : a.card = b.card /\ InRule(b.ext)
  BY <1>3
<1>5. /\ p \in Paths /\ entries[p].media = m /\ q \in Paths /\ entries[q].media = x
      /\ a \in Paths /\ entries[a].media = m /\ b \in Paths /\ entries[b].media = y
  BY DEF Sightings
<1>6. a.card = p.card
  BY <1>5 DEF Apart
<1>7. p.ext # q.ext /\ p.ext # b.ext
  BY <1>2, <1>4, <1>5, <1>6 DEF OneFilePerName
<1>8. q.ext = b.ext
  <2>1. rule \in Seq(Exts) /\ Len(rule) <= 2
    BY StackPairsAssumption DEF ShortRules
  <2>2. DOMAIN rule \subseteq 1..2
    BY <2>1
  <2>3. PICK i \in 1..2 : rule[i] = p.ext
    BY <1>2, <2>2 DEF InRule
  <2>4. PICK j \in 1..2 : rule[j] = q.ext
    BY <1>2, <2>2 DEF InRule
  <2>5. PICK k \in 1..2 : rule[k] = b.ext
    BY <1>4, <2>2 DEF InRule
  <2>6. i # j /\ i # k
    BY <1>7, <2>3, <2>4, <2>5
  <2>7. j = k
    BY <2>6
  <2>8. QED
    BY <2>4, <2>5, <2>7
<1>9. q = b
  BY <1>2, <1>4, <1>5, <1>6, <1>8 DEF OneFilePerName
<1>10. Kind[m] = p.ext /\ Kind[x] = q.ext
  BY <1>5 DEF EntriesFit
<1>11. QED
  BY <1>5, <1>7, <1>9, <1>10

\* Two that are joined and ready are a group that can be stacked.
LEMMA PairIsEligible ==
  ASSUME OneFilePerName, ShortRules, IInv, EntriesFit, Apart,
         NEW m \in Media, NEW x \in Media \ {m}, Joined(m, x), Ready(m), Ready(x)
  PROVE  Eligible(Group(m, Known))
<1>1. rule \in Rules
  BY DEF IInv, OthersFit
<1>2. x \in Known /\ Known \in SUBSET Media
  BY DEF Known, Ready
<1>3. Partners(m, Known) = {y \in Known \ {m} : Joined(m, y)}
  BY <1>2, PartnersJoined
<1>4. \A y \in Known \ {m} : Joined(m, y) => y = x
  BY <1>1, <1>2, OnePartner
<1>5. Partners(m, Known) = {x}
  BY <1>2, <1>3, <1>4
<1>6. Kind[x] # Kind[m]
  BY <1>1, OnePartner
<1>7. ~Ambiguous(m, Known)
  BY <1>5, <1>6 DEF Ambiguous
<1>8. Group(m, Known) = {x, m}
  BY <1>5, <1>7 DEF Group
<1>9. rows[m].asset # rows[x].asset
  <2>1. rows[m].asset # 0
    BY DEF IInv, RowsFit, Ready
  <2>2. rows[m].asset \in Owned(m) /\ rows[x].asset \in Owned(x)
    BY DEF Owned
  <2>3. QED
    BY <2>1, <2>2 DEF IInv, AssetsFit
<1>10. QED
  BY <1>8, <1>9 DEF Eligible, Ready

\* No group of refused records is left that had its evidence in time.
LEMMA PairsRemembered ==
  ASSUME OneFilePerName, EntriesFit, PairsFit
  PROVE  NoPairForgotten
<1> SUFFICES ASSUME NEW m \in Media, Settled(Group(m, Known))
             PROVE  Group(m, Known) \cap late # {}
  BY DEF NoPairForgotten
<1>1. Group(m, Known) = Partners(m, Known) \cup {m} /\ Partners(m, Known) # {}
  BY DEF Settled, Eligible, Group
<1>2. PICK x \in Partners(m, Known) : TRUE
  BY <1>1
<1>3. x \in Media /\ x # m /\ Joined(m, x)
  BY <1>2, PartnersJoined DEF Known
<1>4. Quiet(m) /\ Quiet(x)
  BY <1>1, <1>2 DEF Settled, Eligible, Quiet, Ready
<1>5. QED
  BY <1>1, <1>2, <1>3, <1>4 DEF PairsFit, RefusedApart

\* The job goes on, and is not about to refuse by the local rules.
GoesOn ==
    /\ job'.at # "refuse" \/ job'.why = "remote"
    /\ job'.revision \in {0, job.revision}

\* Rows that no step brings nearer to a refused pair.
LEMMA RowsFall ==
  ASSUME PairsFit, UNCHANGED <<entries, rule, revision, late>>,
         \A m \in Media : Quiet(m)' => Quiet(m), RefusedAreSent',
         GoesOn \/ (job' = job /\ (job.at = "refuse" => \A m \in Media : Ready(m)' => Ready(m)))
  PROVE  PairsFit'
<1>1. \A m, x : Joined(m, x)' <=> Joined(m, x)
  BY DEF Joined, Sightings, InRule
<1>2. RefusedApart'
  BY <1>1 DEF PairsFit, RefusedApart
<1>3. RevisionFits'
  BY DEF GoesOn, PairsFit, RevisionFits
<1>4. RefusalIsFair'
  <2>1. CASE GoesOn
    BY <2>1 DEF GoesOn, RefusalIsFair
  <2>2. CASE job' = job /\ (job.at = "refuse" => \A m \in Media : Ready(m)' => Ready(m))
    BY <1>1, <2>2 DEF PairsFit, RefusalIsFair
  <2>3. QED
    BY <2>1, <2>2
<1>5. QED
  BY <1>2, <1>3, <1>4 DEF PairsFit

\* Rows that stay.
LEMMA RowsStay ==
  ASSUME PairsFit, UNCHANGED <<entries, rule, revision, late, rows>>,
         GoesOn \/ job' = job
  PROVE  PairsFit'
<1>1. /\ \A m \in Media : Quiet(m)' => Quiet(m)
      /\ \A m \in Media : Ready(m)' => Ready(m)
      /\ RefusedAreSent'
  BY DEF Quiet, Ready, PairsFit, RefusedAreSent
<1>2. QED
  BY <1>1, RowsFall

\* A job with nothing in hand goes on.
LEMMA EmptyGoesOn ==
  ASSUME NEW a \in {"idle", "take", "stamp"}, NEW d,
         job' = [NoJob EXCEPT !.at = a, !.done = d]
  PROVE  GoesOn
  BY NoJobType DEF GoesOn

\* So does one that moves to another place.
LEMMA MovedGoesOn ==
  ASSUME IInv, NEW p \in Places \ {"refuse"}, At(p)
  PROVE  GoesOn
<1>1. job \in JobRecord
  BY DEF IInv, JobInv, JobFits
<1>2. QED
  BY <1>1 DEF GoesOn, JobRecord, At

\* And one that refuses by the answer of the server.
LEMMA RejectedGoesOn ==
  ASSUME IInv, Rejected
  PROVE  GoesOn
<1>1. job \in JobRecord
  BY DEF IInv, JobInv, JobFits
<1>2. QED
  BY <1>1 DEF GoesOn, JobRecord, Rejected

\* And one that found its stack.
LEMMA FoundGoesOn ==
  ASSUME IInv, NEW k, Found(k)
  PROVE  GoesOn
<1>1. job \in JobRecord
  BY DEF IInv, JobInv, JobFits
<1>2. PICK at \in {"record", "guard put"} : job' = [job EXCEPT !.stack = k, !.at = at]
  BY DEF Found
<1>3. QED
  BY <1>1, <1>2 DEF GoesOn, JobRecord

\* Steps of a job that record and refuse nothing.
LEMMA JobStepPairs ==
  ASSUME IInv, PairsFit,
         \/ StartPass \/ StartRecheck \/ Stop \/ PassOver \/ Guard
         \/ Look \/ Find \/ Post \/ Put \/ ReadBack \/ Groups \/ Compare
  PROVE  PairsFit'
<1> SUFFICES GoesOn /\ UNCHANGED <<entries, rule, revision, late, rows>>
  BY RowsStay
<1>1. UNCHANGED <<entries, rule, revision, late, rows>>
  BY DEF StartPass, StartRecheck, Stop, PassOver, Guard, Look, Find, Post, Put, ReadBack,
         Groups, Compare
<1>2. job \in JobRecord
  BY DEF IInv, JobInv, JobFits
<1>3. CASE StartPass \/ StartRecheck \/ Stop \/ PassOver
  <2>1. \E a \in {"idle", "take", "stamp"} : \E d : job' = [NoJob EXCEPT !.at = a, !.done = d]
    BY <1>3, EmptyForms DEF StartPass, StartRecheck, PassOver, Stop
  <2>2. QED
    BY <1>1, <2>1, EmptyGoesOn
<1>4. CASE Guard
  <2>1. PICK request \in {"look", "post", "put"} :
          IF ~usable THEN job' = NoJob
          ELSE IF ~Current \/ MemberMoved THEN job' = RowOver
          ELSE At(request)
    BY <1>4 DEF Guard, Guards
  <2>2. CASE job' = NoJob \/ job' = RowOver
    <3>1. \E a \in {"idle", "take", "stamp"} : \E d : job' = [NoJob EXCEPT !.at = a, !.done = d]
      BY <2>2, EmptyForms DEF RowOver
    <3>2. QED
      BY <1>1, <3>1, EmptyGoesOn
  <2>3. CASE At(request)
    BY <1>1, <2>3, MovedGoesOn DEF Places
  <2>4. QED
    BY <2>1, <2>2, <2>3
<1>5. CASE Look
  <2>1. PICK m \in job.todo :
          \/ Rejected
          \/ \E seen, todo, at : job' = [job EXCEPT !.seen = seen, !.todo = todo,
                                                    !.why = "remote", !.at = at]
    BY <1>5 DEF Look
  <2>2. CASE \E seen, todo, at : job' = [job EXCEPT !.seen = seen, !.todo = todo,
                                                    !.why = "remote", !.at = at]
    <3>1. PICK seen, todo, at : job' = [job EXCEPT !.seen = seen, !.todo = todo,
                                                   !.why = "remote", !.at = at]
      BY <2>2
    <3>2. job'.why = "remote" /\ job'.revision = job.revision
      BY <1>2, <3>1 DEF JobRecord
    <3>3. QED
      BY <1>1, <3>2 DEF GoesOn
  <2>3. QED
    BY <1>1, <2>1, <2>2, RejectedGoesOn
<1>6. CASE Find
  BY <1>1, <1>6, RejectedGoesOn, FoundGoesOn DEF Find
<1>7. CASE Post
  BY <1>1, <1>7, RejectedGoesOn, FoundGoesOn DEF Post
<1>8. CASE Put
  BY <1>1, <1>8, RejectedGoesOn, MovedGoesOn DEF Put, Places
<1>9. CASE ReadBack
  BY <1>1, <1>9, RejectedGoesOn, MovedGoesOn DEF ReadBack, Places
<1>10. CASE Groups \/ Compare
  <2>1. \E a \in {"take", "compare", "reopen"} : \E g :
          job' = [job EXCEPT !.at = a, !.groups = g]
    BY <1>10 DEF Groups, Compare
  <2>2. job'.at # "refuse" /\ job'.revision = job.revision
    BY <1>2, <2>1 DEF JobRecord
  <2>3. QED
    BY <1>1, <2>2 DEF GoesOn
<1>11. QED
  BY <1>3, <1>4, <1>5, <1>6, <1>7, <1>8, <1>9, <1>10

\* What a row keeps when it leaves its stack.
LEMMA ReopenedStack ==
  ASSUME IInv, NEW moved, NEW m \in Media
  PROVE  Reopened(rows, moved)[m].stack \in {"none", rows[m].stack}
<1>1. rows[m] \in RowRecord
  BY DEF IInv, RowsFit
<1>2. [rows[m] EXCEPT !.stack = "none", !.sid = 0].stack = "none"
  BY <1>1 DEF RowRecord
<1>3. \/ Reopened(rows, moved)[m] = rows[m]
      \/ Reopened(rows, moved)[m] = [rows[m] EXCEPT !.stack = "none", !.sid = 0]
  BY DEF Reopened
<1>4. QED
  BY <1>2, <1>3

\* Rows of which no refusal is new and none is ready that was not.
LEMMA RowsFallAll ==
  ASSUME PairsFit, UNCHANGED <<entries, rule, revision, late>>, GoesOn \/ job' = job,
         \A m \in Media :
            /\ rows'[m].ours => rows[m].ours
            /\ rows'[m].state = "complete" => rows[m].state = "complete"
            /\ rows'[m].stack \in Skips =>
                 rows'[m].stack = rows[m].stack /\ rows'[m].state = rows[m].state
  PROVE  PairsFit'
<1>1. \A m \in Media : Ready(m)' => Ready(m)
  BY DEF Ready
<1>2. \A m \in Media : Quiet(m)' => Quiet(m)
  BY <1>1 DEF Quiet, Skips
<1>3. RefusedAreSent'
  BY DEF PairsFit, RefusedAreSent
<1>4. QED
  BY <1>1, <1>2, <1>3, RowsFall

\* A request takes back a refusal, or what was sent.
LEMMA RetryPairs == ASSUME IInv, PairsFit, Retry PROVE PairsFit'
<1>1. PICK m \in Media :
        rows' = [rows EXCEPT ![m].state = "pending", ![m].stack = "none", ![m].sid = 0]
  BY DEF Retry
<1>2. rows \in [Media -> RowRecord]
  BY DEF IInv, RowsFit
<1>3. /\ rows'[m].ours = rows[m].ours /\ rows'[m].state = "pending"
      /\ rows'[m].stack = "none"
      /\ \A x \in Media : x # m => rows'[x] = rows[x]
  BY <1>1, <1>2 DEF RowRecord
<1>4. UNCHANGED <<entries, rule, revision, late, job>>
  BY DEF Retry
<1>5. \A x \in Media :
        /\ rows'[x].ours => rows[x].ours
        /\ rows'[x].state = "complete" => rows[x].state = "complete"
        /\ rows'[x].stack \in Skips =>
             rows'[x].stack = rows[x].stack /\ rows'[x].state = rows[x].state
  BY <1>3 DEF Skips
<1>6. QED
  BY <1>4, <1>5, RowsFallAll

\* A row whose refusal is taken back is not refused.
LEMMA UnskippedStack ==
  ASSUME NEW row \in RowRecord
  PROVE  Unskipped(row).stack \notin Skips /\ Unskipped(row).ours = row.ours
  BY DEF Unskipped, RowRecord, Skips

\* A moved date takes the refusal back.
LEMMA MoveDatePairs == ASSUME IInv, PairsFit, MoveDate PROVE PairsFit'
<1>1. rows \in [Media -> RowRecord]
  BY DEF IInv, RowsFit
<1>2. PICK m \in Media : \E state \in {"needs", Unskipped(rows[m]).state} :
        rows' = [rows EXCEPT ![m] = [Unskipped(rows[m]) EXCEPT !.state = state]]
  BY DEF MoveDate
<1>3. PICK state \in {"needs", Unskipped(rows[m]).state} :
        rows' = [rows EXCEPT ![m] = [Unskipped(rows[m]) EXCEPT !.state = state]]
  BY <1>2
<1> DEFINE row == Unskipped(rows[m])
<1>4. row \in RowRecord /\ row.stack \notin Skips /\ row.ours = rows[m].ours
      /\ row.state = rows[m].state
  BY <1>1, UnskippedRow, UnskippedStack
<1>5. rows' = [rows EXCEPT ![m] = [row EXCEPT !.state = state]] /\ state \in {"needs", row.state}
  BY <1>3
<1> HIDE DEF row
<1>6. /\ rows'[m].ours = rows[m].ours /\ rows'[m].stack \notin Skips
      /\ rows'[m].state = "complete" => rows[m].state = "complete"
      /\ \A x \in Media : x # m => rows'[x] = rows[x]
  BY <1>1, <1>4, <1>5 DEF RowRecord
<1>7. UNCHANGED <<entries, rule, revision, late, job>>
  BY DEF MoveDate
<1>8. \A x \in Media :
        /\ rows'[x].ours => rows[x].ours
        /\ rows'[x].state = "complete" => rows[x].state = "complete"
        /\ rows'[x].stack \in Skips =>
             rows'[x].stack = rows[x].stack /\ rows'[x].state = rows[x].state
  BY <1>6
<1>9. QED
  BY <1>7, <1>8, RowsFallAll

\* A failed sending is of a record that was not sent.
LEMMA SendFailsPairs == ASSUME IInv, PairsFit, SendFails PROVE PairsFit'
<1>1. PICK m \in Media : /\ rows[m].state \in {"pending", "needs"}
                         /\ rows' = [rows EXCEPT ![m].state = "failed"]
  BY DEF SendFails
<1>2. rows \in [Media -> RowRecord]
  BY DEF IInv, RowsFit
<1>3. /\ rows'[m].ours = rows[m].ours /\ rows'[m].state = "failed"
      /\ rows'[m].stack = rows[m].stack
      /\ \A x \in Media : x # m => rows'[x] = rows[x]
  BY <1>1, <1>2 DEF RowRecord
<1>4. rows[m].stack \notin Skips
  BY <1>1 DEF PairsFit, RefusedAreSent
<1>5. UNCHANGED <<entries, rule, revision, late, job>>
  BY DEF SendFails
<1>6. \A x \in Media :
        /\ rows'[x].ours => rows[x].ours
        /\ rows'[x].state = "complete" => rows[x].state = "complete"
        /\ rows'[x].stack \in Skips =>
             rows'[x].stack = rows[x].stack /\ rows'[x].state = rows[x].state
  BY <1>3, <1>4
<1>7. QED
  BY <1>5, <1>6, RowsFallAll

\* What was not sent was not refused either, and no pass is under way.
LEMMA SendPairs == ASSUME IInv, PairsFit, Send PROVE PairsFit'
<1>1. PICK m \in Media :
        /\ rows[m].state \in {"none", "pending", "needs"}
        /\ LET new == library[m] = 0
               asset == IF new THEN serial + 1 ELSE library[m]
               open == IF asset = rows[m].asset THEN rows
                       ELSE Reopened(rows, {m})
               row == open[m]
           IN  rows' = [open EXCEPT ![m] =
                          [row EXCEPT !.state = "complete", !.asset = asset,
                                      !.ours = row.ours \/ new]]
  BY DEF Send
<1> DEFINE new == library[m] = 0
           asset == IF new THEN serial + 1 ELSE library[m]
           open == IF asset = rows[m].asset THEN rows ELSE Reopened(rows, {m})
           ours == open[m].ours \/ new
<1>2. rows' = [open EXCEPT ![m] = [open[m] EXCEPT !.state = "complete", !.asset = asset,
                                                  !.ours = ours]]
  BY <1>1
<1>3. rows \in [Media -> RowRecord]
  BY DEF IInv, RowsFit
<1>4. /\ open \in [Media -> RowRecord]
      /\ \A x \in Media : /\ open[x].state = rows[x].state /\ open[x].ours = rows[x].ours
                          /\ open[x].stack \in {"none", rows[x].stack}
  BY <1>3, ReopenedRows, ReopenedStack
<1> HIDE DEF open, asset, ours
<1>5. /\ rows'[m].state = "complete" /\ rows'[m].stack = open[m].stack
      /\ \A x \in Media : x # m => rows'[x] = open[x]
  BY <1>2, <1>4 DEF RowRecord
<1>6. rows[m].stack \notin Skips
  BY <1>1 DEF PairsFit, RefusedAreSent
<1>7. UNCHANGED <<entries, rule, revision, late, job>> /\ job.at = "idle"
  BY DEF Send
<1>8. \A x \in Media : rows'[x].stack \in Skips =>
        /\ rows'[x].stack = rows[x].stack /\ rows'[x].state = rows[x].state
        /\ rows'[x].ours = rows[x].ours
  BY <1>4, <1>5, <1>6 DEF Skips
<1>9. (\A x \in Media : Quiet(x)' => Quiet(x)) /\ RefusedAreSent'
  BY <1>8 DEF Quiet, Ready, Skips, PairsFit, RefusedAreSent
<1>10. QED
  BY <1>7, <1>9, RowsFall

\* A record the server has lost is not ready, one that moved is as before.
LEMMA StampPairs == ASSUME IInv, PairsFit, Stamp PROVE PairsFit'
<1> DEFINE sent == {m \in Media : rows[m].state = "complete"}
           moved == {m \in sent : rows[m].asset # library[m]}
           open == Reopened(rows, moved)
           followed(m) == [open[m] EXCEPT !.asset = library[m]]
<1>1. rows' = [m \in Media |-> IF m \notin moved THEN open[m]
                              ELSE IF library[m] = 0 THEN NoRow ELSE followed(m)]
  BY DEF Stamp
<1>2. /\ open \in [Media -> RowRecord]
      /\ \A x \in Media : /\ open[x].state = rows[x].state /\ open[x].ours = rows[x].ours
                          /\ open[x].stack \in {"none", rows[x].stack}
  <2>1. moved \in SUBSET Media
    OBVIOUS
  <2> HIDE DEF moved
  <2>2. QED
    BY <2>1, ReopenedRows, ReopenedStack
<1> HIDE DEF open, moved
<1>3. \A m \in Media : /\ followed(m).state = open[m].state
                       /\ followed(m).ours = open[m].ours
                       /\ followed(m).stack = open[m].stack
  BY <1>2 DEF RowRecord
<1>4. NoRow.state = "none" /\ NoRow.ours = FALSE /\ NoRow.stack = "none"
  BY DEF NoRow
<1> HIDE DEF followed
<1>5. \A x \in Media :
        /\ rows'[x].ours => rows[x].ours
        /\ rows'[x].state = "complete" => rows[x].state = "complete"
        /\ rows'[x].stack \in Skips =>
             rows'[x].stack = rows[x].stack /\ rows'[x].state = rows[x].state
  BY <1>1, <1>2, <1>3, <1>4 DEF Skips
<1>6. UNCHANGED <<entries, rule, revision, late>>
  BY DEF Stamp
<1>7. GoesOn
  <2>1. PICK a \in {"groups", "take"} : At(a)
    BY DEF Stamp
  <2>2. a \in Places \ {"refuse"}
    BY DEF Places
  <2>3. QED
    BY <2>1, <2>2, MovedGoesOn
<1>8. QED
  BY <1>5, <1>6, <1>7, RowsFallAll

\* A stack that is given up leaves no refusal.
LEMMA ReopenPairs == ASSUME IInv, PairsFit, Reopen PROVE PairsFit'
<1>1. \A m \in Media : rows'[m] \in {rows[m], [rows[m] EXCEPT !.stack = "none", !.sid = 0]}
  BY DEF Reopen
<1>2. \A m \in Media : rows[m] \in RowRecord
  BY DEF IInv, RowsFit
<1>3. \A x \in Media :
        /\ rows'[x].ours => rows[x].ours
        /\ rows'[x].state = "complete" => rows[x].state = "complete"
        /\ rows'[x].stack \in Skips =>
             rows'[x].stack = rows[x].stack /\ rows'[x].state = rows[x].state
  BY <1>1, <1>2 DEF RowRecord, Skips
<1>4. job' = [NoJob EXCEPT !.at = "take", !.done = {}]
  BY EmptyForms DEF Reopen
<1>5. GoesOn
  BY <1>4, EmptyGoesOn
<1>6. UNCHANGED <<entries, rule, revision, late>>
  BY DEF Reopen
<1>7. QED
  BY <1>3, <1>5, <1>6, RowsFallAll

\* A stack that is recorded is no refusal.
LEMMA RecordPairs == ASSUME IInv, PairsFit, Record PROVE PairsFit'
<1>1. \A m \in Media :
        rows'[m] \in {rows[m], [rows[m] EXCEPT !.stack = "stacked", !.sid = job.stack.id]}
  BY DEF Record
<1>2. \A m \in Media : rows[m] \in RowRecord
  BY DEF IInv, RowsFit
<1>3. \A x \in Media :
        /\ rows'[x].ours => rows[x].ours
        /\ rows'[x].state = "complete" => rows[x].state = "complete"
        /\ rows'[x].stack \in Skips =>
             rows'[x].stack = rows[x].stack /\ rows'[x].state = rows[x].state
  BY <1>1, <1>2 DEF RowRecord, Skips
<1>4. PICK a \in {"idle", "take", "stamp"} : \E d : job' = [NoJob EXCEPT !.at = a, !.done = d]
  BY OverForms DEF Record
<1>5. GoesOn
  BY <1>4, EmptyGoesOn
<1>6. UNCHANGED <<entries, rule, revision, late>>
  BY DEF Record
<1>7. QED
  BY <1>3, <1>5, <1>6, RowsFallAll

\* A refusal is recorded under the revision it was found under, or not at all.
LEMMA RefusePairs == ASSUME IInv, PairsFit, Refuse PROVE PairsFit'
<1>1. UNCHANGED <<entries, rule, revision, late>> /\ job.at = "refuse"
  BY DEF Refuse
<1>2. GoesOn
  <2>1. PICK a \in {"idle", "take", "stamp"} : \E d : job' = [NoJob EXCEPT !.at = a, !.done = d]
    BY OverForms DEF Refuse
  <2>2. QED
    BY <2>1, EmptyGoesOn
<1>3. CASE rows' = rows
  BY <1>1, <1>2, <1>3, RowsStay
<1>4. CASE rows' # rows
  <2>1. /\ rows' = [rows EXCEPT ![job.me].stack = job.why]
        /\ job.revision = revision /\ rows[job.me].state = "complete"
        /\ rows[job.me].stack = "none"
    BY <1>4 DEF Refuse, Current
  <2>2. rows \in [Media -> RowRecord] /\ job.why \in Skips
    BY DEF IInv, RowsFit, JobInv, JobFits, JobRecord
  <2>3. \A x \in Media : /\ rows'[x].ours = rows[x].ours /\ rows'[x].state = rows[x].state
                         /\ x # job.me => rows'[x] = rows[x]
                         /\ x = job.me => rows'[x].stack = job.why
    BY <2>1, <2>2 DEF RowRecord
  <2>4. RefusedAreSent'
    BY <2>1, <2>3 DEF PairsFit, RefusedAreSent
  <2>5. CASE job.why = "remote"
    <3>1. \A x \in Media : Quiet(x)' => Quiet(x)
      BY <2>3, <2>5 DEF Quiet, Ready
    <3>2. QED
      BY <1>1, <1>2, <2>4, <3>1, RowsFall
  <2>6. CASE job.why = "local"
    <3>1. \A m, x : Joined(m, x)' <=> Joined(m, x)
      BY <1>1 DEF Joined, Sightings, InRule
    <3>2. \/ job.me \in late
          \/ \A x \in Media \ {job.me} :
                Joined(job.me, x) => ~(Ready(job.me) /\ Ready(x))
      BY <1>1, <2>1, <2>6 DEF PairsFit, RefusalIsFair
    <3>3. \A x \in Media : Quiet(x)' => Ready(x) /\ (x # job.me => Quiet(x))
      BY <2>3 DEF Quiet, Ready
    <3>4. ASSUME NEW m \in Media, NEW x \in Media, m # x, Joined(m, x), Quiet(m)', Quiet(x)'
          PROVE  m \in late \/ x \in late
      <4>1. CASE m = job.me
        BY <3>2, <3>3, <3>4, <4>1
      <4>2. CASE x = job.me
        BY <3>2, <3>3, <3>4, <4>2, JoinedBoth
      <4>3. CASE m # job.me /\ x # job.me
        BY <3>3, <3>4, <4>3 DEF PairsFit, RefusedApart
      <4>4. QED
        BY <4>1, <4>2, <4>3
    <3>5. RefusedApart'
      BY <1>1, <3>1, <3>4 DEF RefusedApart
    <3>6. RefusalIsFair'
      BY <1>2 DEF GoesOn, RefusalIsFair
    <3>7. RevisionFits'
      BY <1>1, <1>2 DEF GoesOn, PairsFit, RevisionFits
    <3>8. QED
      BY <2>4, <3>5, <3>6, <3>7 DEF PairsFit
  <2>7. QED
    BY <2>2, <2>5, <2>6 DEF Skips
<1>5. QED
  BY <1>3, <1>4

\* A record is refused when its partner is not ready, and no other time.
LEMMA TakePairs ==
  ASSUME OneFilePerName, ShortRules, IInv, EntriesFit, Apart, PairsFit, Take
  PROVE  PairsFit'
<1>1. UNCHANGED <<entries, rule, revision, rows>>
  BY DEF Take
<1> DEFINE taken(m) == [NoJob EXCEPT !.done = job.done, !.me = m, !.revision = revision,
                                     !.assets = [x \in Media |-> rows[x].asset]]
<1>2. PICK m \in Untried :
        /\ LET group == Group(m, Known) IN
           job' = IF Eligible(group)
                    THEN [taken(m) EXCEPT !.at = "guard look", !.group = group,
                                          !.lead = Primary(group), !.todo = group]
                    ELSE [taken(m) EXCEPT !.at = "refuse"]
        /\ late' = late \ {m}
  BY DEF Take
<1>3. m \in Media /\ rows[m].stack = "none"
  BY <1>2 DEF Untried
<1>4. taken(m) \in [at : {"idle"}, done : {job.done}, me : {m}, revision : {revision},
                    why : Skips, group : SUBSET Media, lead : {None},
                    assets : {[x \in Media |-> rows[x].asset]}, todo : {{}},
                    seen : [Media -> [id : Nat, primary : Nat]],
                    stack : {NoStack}, groups : {{}}]
  BY <1>3, NoJobType
<1> HIDE DEF taken
<1>5. /\ job'.me = m /\ job'.revision = revision
      /\ job'.at = "refuse" => ~Eligible(Group(m, Known))
  <2> DEFINE group == Group(m, Known)
             first == Primary(group)
  <2>1. CASE Eligible(group)
    <3>1. job' = [taken(m) EXCEPT !.at = "guard look", !.group = group,
                                  !.lead = first, !.todo = group]
      BY <1>2, <2>1
    <3> HIDE DEF group, first
    <3>2. QED
      BY <1>4, <3>1
  <2>2. CASE ~Eligible(group)
    <3>1. job' = [taken(m) EXCEPT !.at = "refuse"]
      BY <1>2, <2>2
    <3>2. job'.me = m /\ job'.revision = revision
      BY <1>4, <3>1
    <3>3. QED
      BY <2>2, <3>2
  <2>3. QED
    BY <2>1, <2>2
<1>6. \A n, x : Joined(n, x)' <=> Joined(n, x)
  BY <1>1 DEF Joined, Sightings, InRule
<1>7. \A x \in Media : (Ready(x)' <=> Ready(x)) /\ (Quiet(x)' <=> Quiet(x))
  BY <1>1 DEF Ready, Quiet
<1>8. RefusedApart'
  BY <1>2, <1>3, <1>6, <1>7 DEF PairsFit, RefusedApart, Quiet
<1>9. RefusalIsFair'
  <2>1. ASSUME job'.at = "refuse", NEW x \in Media \ {m}, Joined(m, x), Ready(m), Ready(x)
        PROVE  FALSE
    BY <1>3, <1>5, <2>1, PairIsEligible
  <2>2. QED
    BY <1>3, <1>5, <1>6, <1>7, <2>1 DEF RefusalIsFair
<1>10. RefusedAreSent' /\ RevisionFits'
  BY <1>1, <1>5 DEF PairsFit, RefusedAreSent, RevisionFits
<1>11. QED
  BY <1>8, <1>9, <1>10 DEF PairsFit

\* Evidence that changes comes late for all that is refused or about to be.
LEMMA EvidencePairs == ASSUME PairsFit, Evidence PROVE PairsFit'
<1>1. UNCHANGED <<rule, revision, rows, job>>
  BY DEF Evidence, Shoot, Scan, ScanCancelled, Import
<1>2. CASE entries' = entries
  <2>1. late' = late
    BY <1>2 DEF Evidence
  <2>2. QED
    BY <1>1, <1>2, <2>1, RowsStay
<1>3. CASE entries' # entries
  <2>1. late' = late \cup {m \in Media : rows[m].stack = "local" \/ m = job.me}
    BY <1>3 DEF Evidence
  <2>2. RefusedApart'
    BY <1>1, <2>1 DEF RefusedApart, Quiet
  <2>3. RefusalIsFair'
    BY <1>1, <2>1 DEF PairsFit, RefusalIsFair
  <2>4. RefusedAreSent' /\ RevisionFits'
    BY <1>1 DEF PairsFit, RefusedAreSent, RevisionFits
  <2>5. QED
    BY <2>2, <2>3, <2>4 DEF PairsFit
<1>4. QED
  BY <1>2, <1>3

\* A new revision disarms the refusal under way, a new rule takes all back.
LEMMA EditProfilePairs == ASSUME IInv, PairsFit, EditProfile PROVE PairsFit'
<1>1. UNCHANGED <<entries, late, job>> /\ revision' = revision + 1
  BY DEF EditProfile
<1>2. RevisionFits' /\ job'.revision # revision'
  BY <1>1 DEF PairsFit, RevisionFits
<1>3. RefusalIsFair'
  BY <1>1, <1>2 DEF PairsFit, RefusalIsFair
<1>4. CASE rule' = rule
  <2>1. rows' = rows
    BY <1>4 DEF EditProfile
  <2>2. \A m, x : Joined(m, x)' <=> Joined(m, x)
    BY <1>1, <1>4 DEF Joined, Sightings, InRule
  <2>3. RefusedApart' /\ RefusedAreSent'
    BY <1>1, <2>1, <2>2 DEF PairsFit, RefusedApart, RefusedAreSent, Quiet, Ready
  <2>4. QED
    BY <1>2, <1>3, <2>3 DEF PairsFit
<1>5. CASE rule' # rule
  <2>1. \A m \in Media : rows[m] \in RowRecord /\ rows'[m] = Unskipped(rows[m])
    BY <1>5 DEF EditProfile, IInv, RowsFit
  <2>2. \A m \in Media : rows'[m].stack \notin Skips
    BY <2>1, UnskippedStack
  <2>3. RefusedApart' /\ RefusedAreSent'
    BY <2>2 DEF RefusedApart, RefusedAreSent, Quiet, Skips
  <2>4. QED
    BY <1>2, <1>3, <2>3 DEF PairsFit
<1>6. QED
  BY <1>4, <1>5

\* Every action, one by one.
LEMMA PairsStep ==
  ASSUME OneFilePerName, ShortRules
  PROVE  IInv /\ EntriesFit /\ Apart /\ PairsFit /\ [Next]_vars => PairsFit'
<1> SUFFICES ASSUME IInv, EntriesFit, Apart, PairsFit, [Next]_vars PROVE PairsFit'
  OBVIOUS
<1>1. CASE \/ StartPass \/ StartRecheck \/ Stop \/ PassOver \/ Guard
           \/ Look \/ Find \/ Post \/ Put \/ ReadBack \/ Groups \/ Compare
  BY <1>1, JobStepPairs
<1>2. CASE Take \/ Refuse \/ Record
  BY <1>2, TakePairs, RefusePairs, RecordPairs
<1>3. CASE Stamp \/ Reopen
  BY <1>3, StampPairs, ReopenPairs
<1>4. CASE Send \/ SendFails \/ Retry \/ MoveDate \/ EditProfile
  BY <1>4, SendPairs, SendFailsPairs, RetryPairs, MoveDatePairs, EditProfilePairs
<1>5. CASE Evidence
  BY <1>5, EvidencePairs
<1>6. CASE SetUsable \/ UserStacks \/ UserDissolves \/ UserDeletes \/ UserUploads
  <2>1. UNCHANGED <<entries, rule, revision, late, rows, job>>
    BY <1>6 DEF SetUsable, UserStacks, UserDissolves, UserDeletes, UserUploads, Touch
  <2>2. QED
    BY <2>1, RowsStay
<1>7. CASE UNCHANGED vars
  BY <1>7, RowsStay DEF vars
<1>8. QED
  BY <1>1, <1>2, <1>3, <1>4, <1>5, <1>6, <1>7 DEF Next, Pass, Recheck

\* Nothing is refused at the beginning.
LEMMA PairsInit == Init => PairsFit
<1> SUFFICES ASSUME Init PROVE PairsFit
  OBVIOUS
<1>1. /\ NoRow.stack = "none" /\ job.at = "idle" /\ job.revision = 0 /\ revision = 1
      /\ rows = [m \in Media |-> NoRow]
  BY NoJobType DEF Init, NoRow
<1>2. QED
  BY <1>1 DEF PairsFit, RefusedApart, RefusalIsFair, RefusedAreSent, RevisionFits, Quiet, Skips

\* No group that could be stacked is left refused by the local rules, unless
\* its evidence came after the refusal: where a card has one file of a name,
\* a rule names two extensions and no content is on two cards.
THEOREM NoneForgotten ==
  ASSUME OneFilePerName, ShortRules
  PROVE  Spec /\ []Apart => []NoPairForgotten
<1>1. Init => PairsFit
  BY PairsInit
<1>2. IInv /\ EntriesFit /\ Apart /\ PairsFit /\ [Next]_vars => PairsFit'
  BY PairsStep
<1>3. EntriesFit /\ PairsFit => NoPairForgotten
  BY PairsRemembered
<1>4. QED
  BY <1>1, <1>2, <1>3, Inductive, EntriesInductive, PTL DEF Spec

-----------------------------------------------------------------------------
(* The end of a pass                                                       *)

InHand == Grouped \cup {"refuse"}
Comparing == {"stamp", "groups", "compare", "reopen"}

\* The places of a job, in the order it takes them.
Stages == <<"stamp", "groups", "compare", "reopen", "take", "guard look", "look",
            "guard post", "post", "find", "guard put", "put", "read back",
            "record", "refuse">>

Ahead(p, q) == \E i, j \in 1..15 : i < j /\ Stages[i] = p /\ Stages[j] = q

\* The job has ended, is done with one more record, is further on with the
\* one in hand, or has one answer more.
Nearer ==
    \/ job'.at = "idle"
    \/ job.done \subseteq job'.done /\ job'.done # job.done
    \/ job'.done = job.done /\ Ahead(job.at, job'.at)
    \/ /\ job'.done = job.done /\ job'.at = job.at
       /\ job'.todo \subseteq job.todo /\ job'.todo # job.todo

\* The record in hand is a new one, its group and what is left to ask are not
\* empty: there is always a next step.
HandFits ==
    /\ job.done \subseteq Media
    /\ job.at \in Comparing => job.done = {}
    /\ job.at \in InHand => job.me \in Media \ job.done
    /\ job.at \in Grouped => job.group # {}
    /\ job.at = "look" => job.todo # {}

PassAdvances == [][job.at # "idle" => job' = job \/ Nearer]_vars

\* A step of the job that keeps its record.
Onward == HandFits' /\ (job.at # "idle" => Nearer)

\* What comes after what.
LEMMA StagesOrder ==
         /\ Ahead("stamp", "groups") /\ Ahead("stamp", "take")
         /\ Ahead("groups", "compare") /\ Ahead("groups", "take")
         /\ Ahead("compare", "reopen") /\ Ahead("reopen", "take")
         /\ Ahead("take", "guard look") /\ Ahead("take", "refuse")
         /\ Ahead("guard look", "look") /\ Ahead("look", "guard post")
         /\ Ahead("look", "find") /\ Ahead("guard post", "post")
         /\ Ahead("find", "record") /\ Ahead("find", "guard put")
         /\ Ahead("post", "record") /\ Ahead("post", "guard put")
         /\ Ahead("guard put", "put") /\ Ahead("put", "read back")
         /\ Ahead("read back", "record")
         /\ \A p \in Grouped : Ahead(p, "refuse")
<1>1. /\ Stages[1] = "stamp" /\ Stages[2] = "groups" /\ Stages[3] = "compare"
      /\ Stages[4] = "reopen" /\ Stages[5] = "take" /\ Stages[6] = "guard look"
      /\ Stages[7] = "look" /\ Stages[8] = "guard post" /\ Stages[9] = "post"
      /\ Stages[10] = "find" /\ Stages[11] = "guard put" /\ Stages[12] = "put"
      /\ Stages[13] = "read back" /\ Stages[14] = "record" /\ Stages[15] = "refuse"
  BY DEF Stages
<1>2. \A i, j \in 1..15 : i < j => Ahead(Stages[i], Stages[j])
  BY DEF Ahead
<1>3. /\ Ahead(Stages[1], Stages[2]) /\ Ahead(Stages[1], Stages[5])
      /\ Ahead(Stages[2], Stages[3])
      /\ Ahead(Stages[2], Stages[5]) /\ Ahead(Stages[3], Stages[4])
      /\ Ahead(Stages[4], Stages[5]) /\ Ahead(Stages[5], Stages[6])
      /\ Ahead(Stages[5], Stages[15]) /\ Ahead(Stages[6], Stages[7])
      /\ Ahead(Stages[7], Stages[8]) /\ Ahead(Stages[7], Stages[10])
      /\ Ahead(Stages[8], Stages[9]) /\ Ahead(Stages[10], Stages[14])
      /\ Ahead(Stages[10], Stages[11]) /\ Ahead(Stages[9], Stages[14])
      /\ Ahead(Stages[9], Stages[11]) /\ Ahead(Stages[11], Stages[12])
      /\ Ahead(Stages[12], Stages[13]) /\ Ahead(Stages[13], Stages[14])
      /\ Ahead(Stages[6], Stages[15]) /\ Ahead(Stages[7], Stages[15])
      /\ Ahead(Stages[8], Stages[15]) /\ Ahead(Stages[9], Stages[15])
      /\ Ahead(Stages[10], Stages[15]) /\ Ahead(Stages[11], Stages[15])
      /\ Ahead(Stages[12], Stages[15]) /\ Ahead(Stages[13], Stages[15])
      /\ Ahead(Stages[14], Stages[15])
  BY <1>2
<1>4. QED
  BY <1>1, <1>3 DEF Grouped

\* A job with nothing in hand.
LEMMA EmptyFits ==
  ASSUME NEW a \in {"idle", "take", "stamp"}, NEW d \in SUBSET Media,
         a = "stamp" => d = {}, job' = [NoJob EXCEPT !.at = a, !.done = d]
  PROVE  HandFits' /\ job'.at = a /\ job'.done = d
<1>1. job'.at = a /\ job'.done = d
  BY NoJobType
<1>2. QED
  BY <1>1 DEF HandFits, Comparing, InHand, Grouped

\* A record that is done with is one more.
LEMMA OverAdvances ==
  ASSUME HandFits, job.at \in InHand, job' \in {RowOver, NoJob}
  PROVE  Onward
<1>1. CASE job' = RowOver
  <2>1. job' = [NoJob EXCEPT !.at = "take", !.done = job.done \cup {job.me}]
    BY <1>1 DEF RowOver
  <2>2. job.done \cup {job.me} \in SUBSET Media
    BY DEF HandFits
  <2>3. HandFits' /\ job'.done = job.done \cup {job.me}
    BY <2>1, <2>2, EmptyFits
  <2>4. job.done \subseteq job'.done /\ job'.done # job.done
    BY <2>3 DEF HandFits
  <2>5. QED
    BY <2>3, <2>4 DEF Onward, Nearer
<1>2. CASE job' = NoJob
  <2>1. job' = [NoJob EXCEPT !.at = "idle", !.done = {}]
    BY <1>2, EmptyForms
  <2>2. HandFits' /\ job'.at = "idle"
    BY <2>1, EmptyFits
  <2>3. QED
    BY <2>2 DEF Onward, Nearer
<1>3. QED
  BY <1>1, <1>2

\* A job that changes its place and no more.
LEMMA AtFields ==
  ASSUME IInv, NEW p, At(p)
  PROVE  /\ job'.at = p /\ job'.done = job.done /\ job'.me = job.me
         /\ job'.group = job.group /\ job'.todo = job.todo
<1>1. job \in JobRecord
  BY DEF IInv, JobInv, JobFits
<1>2. QED
  BY <1>1 DEF JobRecord, At

\* A record that goes on to a later place.
LEMMA FurtherOn ==
  ASSUME IInv, HandFits, job.at \in InHand, job'.at \in InHand \ {"look"},
         Ahead(job.at, job'.at),
         job'.done = job.done, job'.me = job.me, job'.group = job.group,
         job'.at \in Grouped => job.at \in Grouped
  PROVE  Onward
<1>1. HandFits'
  BY DEF HandFits, InHand, Comparing, Grouped
<1>2. QED
  BY <1>1 DEF Onward, Nearer

\* An answer that ends in a refusal.
LEMMA RejectedAdvances ==
  ASSUME IInv, HandFits, job.at \in Grouped, Rejected
  PROVE  Onward
<1>1. job \in JobRecord
  BY DEF IInv, JobInv, JobFits
<1>2. /\ job'.at = "refuse" /\ job'.done = job.done /\ job'.me = job.me
      /\ job'.group = job.group
  BY <1>1 DEF JobRecord, Rejected
<1>3. Ahead(job.at, job'.at)
  BY <1>2, StagesOrder DEF Grouped
<1>4. QED
  BY <1>2, <1>3, FurtherOn DEF InHand, Grouped

\* The stack is found, and put in order where its first member is another.
LEMMA FoundAdvances ==
  ASSUME IInv, HandFits, job.at \in {"find", "post"}, NEW k, Found(k)
  PROVE  Onward
<1>1. job \in JobRecord
  BY DEF IInv, JobInv, JobFits
<1>2. PICK at \in {"record", "guard put"} : job' = [job EXCEPT !.stack = k, !.at = at]
  BY DEF Found
<1>3. /\ job'.at = at /\ job'.done = job.done /\ job'.me = job.me
      /\ job'.group = job.group
  BY <1>1, <1>2 DEF JobRecord
<1>4. Ahead(job.at, job'.at)
  BY <1>3, StagesOrder
<1>5. QED
  BY <1>3, <1>4, FurtherOn DEF InHand, Grouped

\* One answer less to wait for, or the verdict.
LEMMA LookAdvances == ASSUME IInv, HandFits, Look PROVE Onward
<1>1. job \in JobRecord /\ job.at = "look"
  BY DEF IInv, JobInv, JobFits, Look
<1>2. PICK m \in job.todo :
        \/ Rejected
        \/ \E seen : job' = [job EXCEPT !.seen = seen, !.todo = job.todo \ {m},
               !.why = "remote",
               !.at = IF job.todo \ {m} = {} THEN Verdict(seen) ELSE "look"]
  BY DEF Look
<1>3. CASE Rejected
  BY <1>1, <1>3, RejectedAdvances DEF Grouped
<1>4. ASSUME NEW seen, job' = [job EXCEPT !.seen = seen, !.todo = job.todo \ {m},
               !.why = "remote",
               !.at = IF job.todo \ {m} = {} THEN Verdict(seen) ELSE "look"]
      PROVE  Onward
  <2> DEFINE verdict == Verdict(seen)
  <2>1. verdict \in {"guard post", "find", "refuse"}
    BY DEF Verdict
  <2> HIDE DEF verdict
  <2>2. /\ job'.done = job.done /\ job'.me = job.me /\ job'.group = job.group
        /\ job'.todo = job.todo \ {m}
        /\ job'.at = IF job.todo \ {m} = {} THEN verdict ELSE "look"
    BY <1>1, <1>4 DEF JobRecord, verdict
  <2>3. CASE job.todo \ {m} = {}
    <3>1. Ahead(job.at, job'.at)
      BY <1>1, <2>1, <2>2, <2>3, StagesOrder DEF Grouped
    <3>2. QED
      BY <1>1, <2>1, <2>2, <2>3, <3>1, FurtherOn DEF InHand, Grouped
  <2>4. CASE job.todo \ {m} # {}
    <3>1. HandFits'
      BY <1>1, <2>2, <2>4 DEF HandFits, Comparing, InHand, Grouped
    <3>2. job'.todo \subseteq job.todo /\ job'.todo # job.todo
      BY <1>2, <2>2
    <3>3. QED
      BY <1>1, <2>2, <2>4, <3>1, <3>2 DEF Onward, Nearer
  <2>5. QED
    BY <2>3, <2>4
<1>5. QED
  BY <1>2, <1>3, <1>4

\* A guard lets the job pass, or is done with its record.
LEMMA GuardAdvances == ASSUME IInv, HandFits, Guard PROVE Onward
<1>1. PICK request \in {"look", "post", "put"} :
        /\ job.at = Guards[request]
        /\ IF ~usable THEN job' = NoJob
           ELSE IF ~Current \/ MemberMoved THEN job' = RowOver
           ELSE At(request)
  BY DEF Guard, Guards
<1>2. /\ Guards["look"] = "guard look" /\ Guards["post"] = "guard post"
      /\ Guards["put"] = "guard put"
  BY DEF Guards
<1>3. \/ request = "look" /\ job.at = "guard look"
      \/ request = "post" /\ job.at = "guard post"
      \/ request = "put" /\ job.at = "guard put"
  BY <1>1, <1>2
<1>4. CASE job' \in {RowOver, NoJob}
  BY <1>3, <1>4, OverAdvances DEF InHand, Grouped
<1>5. CASE At(request)
  <2>1. /\ job'.at = request /\ job'.done = job.done /\ job'.me = job.me
        /\ job'.group = job.group /\ job'.todo = job.todo
    BY <1>5, AtFields
  <2>2. Ahead(job.at, job'.at)
    BY <1>3, <2>1, StagesOrder
  <2>3. request = "look" => job.todo # {}
    BY <1>3 DEF IInv, JobInv, JobFits, HandFits, Grouped
  <2>4. HandFits'
    BY <1>3, <2>1, <2>3 DEF HandFits, InHand, Grouped, Comparing
  <2>5. QED
    BY <2>1, <2>2, <2>4 DEF Onward, Nearer
<1>6. QED
  BY <1>1, <1>4, <1>5

\* A record is taken that the pass is not done with.
LEMMA TakeAdvances == ASSUME IInv, HandFits, Take PROVE Onward
<1> DEFINE taken(m) == [NoJob EXCEPT !.done = job.done, !.me = m, !.revision = revision,
                                     !.assets = [x \in Media |-> rows[x].asset]]
<1>1. PICK m \in Untried :
        LET group == Group(m, Known) IN
           job' = IF Eligible(group)
                    THEN [taken(m) EXCEPT !.at = "guard look", !.group = group,
                                          !.lead = Primary(group), !.todo = group]
                    ELSE [taken(m) EXCEPT !.at = "refuse"]
  BY DEF Take
<1>2. m \in Media \ job.done /\ job.at = "take"
  BY DEF Untried, Take
<1>3. taken(m) \in [at : {"idle"}, done : {job.done}, me : {m}, revision : {revision},
                    why : Skips, group : SUBSET Media, lead : {None},
                    assets : {[x \in Media |-> rows[x].asset]}, todo : {{}},
                    seen : [Media -> [id : Nat, primary : Nat]],
                    stack : {NoStack}, groups : {{}}]
  BY <1>2, NoJobType
<1> HIDE DEF taken
<1> DEFINE group == Group(m, Known)
           first == Primary(group)
<1>4. CASE Eligible(group)
  <2>1. group # {}
    BY <1>4 DEF Eligible
  <2>2. job' = [taken(m) EXCEPT !.at = "guard look", !.group = group,
                                !.lead = first, !.todo = group]
    BY <1>1, <1>4
  <2> HIDE DEF group, first
  <2>3. /\ job'.at = "guard look" /\ job'.done = job.done /\ job'.me = m
        /\ job'.group = group
    BY <1>3, <2>2
  <2>4. HandFits'
    BY <1>2, <2>1, <2>3 DEF HandFits, InHand, Comparing, Grouped
  <2>5. Ahead(job.at, job'.at)
    BY <1>2, <2>3, StagesOrder
  <2>6. QED
    BY <2>3, <2>4, <2>5 DEF Onward, Nearer
<1>5. CASE ~Eligible(group)
  <2>1. job' = [taken(m) EXCEPT !.at = "refuse"]
    BY <1>1, <1>5
  <2>2. job'.at = "refuse" /\ job'.done = job.done /\ job'.me = m
    BY <1>3, <2>1
  <2>3. HandFits'
    BY <1>2, <2>2 DEF HandFits, InHand, Comparing, Grouped
  <2>4. Ahead(job.at, job'.at)
    BY <1>2, <2>2, StagesOrder
  <2>5. QED
    BY <2>2, <2>3, <2>4 DEF Onward, Nearer
<1>6. QED
  BY <1>4, <1>5

\* The recheck goes through its places to the pass, which has all before it.
LEMMA RecheckAdvances == ASSUME IInv, HandFits, Recheck PROVE Onward
<1>1. job \in JobRecord /\ job.at \in Comparing /\ job.done = {}
  BY DEF IInv, JobInv, JobFits, HandFits, Recheck, Stamp, Groups, Compare, Reopen, Comparing
<1>2. CASE Reopen
  <2>1. job' = [NoJob EXCEPT !.at = "take", !.done = {}] /\ job.at = "reopen"
    BY <1>2, EmptyForms DEF Reopen
  <2>2. HandFits' /\ job'.at = "take" /\ job'.done = {}
    BY <2>1, EmptyFits
  <2>3. QED
    BY <1>1, <2>1, <2>2, StagesOrder DEF Onward, Nearer
<1>3. CASE Stamp \/ Groups \/ Compare
  <2>1. PICK a \in {"groups", "take", "compare", "reopen"} :
          /\ \E g : job' = [job EXCEPT !.at = a, !.groups = g]
          /\ Ahead(job.at, a)
    <3>1. CASE Stamp
      <4>1. PICK a \in {"groups", "take"} : job' = [job EXCEPT !.at = a] /\ job.at = "stamp"
        BY <3>1 DEF Stamp, At
      <4>2. job' = [job EXCEPT !.at = a, !.groups = job.groups]
        BY <1>1, <4>1 DEF JobRecord
      <4>3. QED
        BY <4>1, <4>2, StagesOrder
    <3>2. CASE Groups
      <4>1. /\ job.at = "groups"
            /\ \E a \in {"take", "compare"} : \E g :
                  job' = [job EXCEPT !.at = a, !.groups = g]
        BY <3>2 DEF Groups
      <4>2. QED
        BY <4>1, StagesOrder
    <3>3. CASE Compare
      <4>1. job.at = "compare" /\ \E g : job' = [job EXCEPT !.at = "reopen", !.groups = g]
        BY <3>3 DEF Compare
      <4>2. QED
        BY <4>1, StagesOrder
    <3>4. QED
      BY <1>3, <3>1, <3>2, <3>3
  <2>2. job'.at = a /\ job'.done = job.done
    BY <1>1, <2>1 DEF JobRecord
  <2>3. HandFits'
    BY <1>1, <2>2 DEF HandFits, Comparing, InHand, Grouped
  <2>4. QED
    BY <2>1, <2>2, <2>3 DEF Onward, Nearer
<1>4. QED
  BY <1>2, <1>3 DEF Recheck

\* Every step of a running job, whoever makes it.
LEMMA PassStep ==
  ASSUME IInv, HandFits, [Next]_vars
  PROVE  HandFits' /\ (job.at # "idle" => job' = job \/ Nearer)
<1>1. CASE job' = job
  BY <1>1 DEF HandFits
<1>2. CASE Take \/ Guard \/ Look \/ Recheck
  BY <1>2, TakeAdvances, GuardAdvances, LookAdvances, RecheckAdvances DEF Onward
<1>3. CASE Refuse \/ Record
  <2>1. job.at \in InHand /\ job' \in {RowOver, NoJob}
    BY <1>3 DEF Refuse, Record, InHand, Grouped
  <2>2. QED
    BY <2>1, OverAdvances DEF Onward
<1>4. CASE Find \/ Post
  <2>1. job.at \in {"find", "post"} /\ (Rejected \/ \E k : Found(k))
    BY <1>4 DEF Find, Post
  <2>2. QED
    BY <2>1, RejectedAdvances, FoundAdvances DEF Onward, Grouped
<1>5. CASE Put \/ ReadBack
  <2>1. \/ Rejected
        \/ job.at = "put" /\ At("read back")
        \/ job.at = "read back" /\ At("record")
    BY <1>5 DEF Put, ReadBack
  <2>2. job.at \in {"put", "read back"}
    BY <1>5 DEF Put, ReadBack
  <2>3. CASE Rejected
    BY <2>2, <2>3, RejectedAdvances DEF Onward, Grouped
  <2>4. CASE job.at = "put" /\ At("read back")
    <3>1. /\ job'.at = "read back" /\ job'.done = job.done /\ job'.me = job.me
          /\ job'.group = job.group
      BY <2>4, AtFields
    <3>2. Ahead(job.at, job'.at)
      BY <2>4, <3>1, StagesOrder
    <3>3. QED
      BY <2>4, <3>1, <3>2, FurtherOn DEF Onward, InHand, Grouped
  <2>5. CASE job.at = "read back" /\ At("record")
    <3>1. /\ job'.at = "record" /\ job'.done = job.done /\ job'.me = job.me
          /\ job'.group = job.group
      BY <2>5, AtFields
    <3>2. Ahead(job.at, job'.at)
      BY <2>5, <3>1, StagesOrder
    <3>3. QED
      BY <2>5, <3>1, <3>2, FurtherOn DEF Onward, InHand, Grouped
  <2>6. QED
    BY <2>1, <2>3, <2>4, <2>5
<1>6. CASE StartPass \/ StartRecheck \/ Stop \/ PassOver
  <2>1. \E a \in {"idle", "take", "stamp"} :
          /\ job' = [NoJob EXCEPT !.at = a, !.done = {}]
          /\ a = "idle" \/ job.at = "idle"
    BY <1>6, EmptyForms DEF StartPass, StartRecheck, Stop, PassOver
  <2>2. PICK a \in {"idle", "take", "stamp"} :
          /\ job' = [NoJob EXCEPT !.at = a, !.done = {}]
          /\ a = "idle" \/ job.at = "idle"
    BY <2>1
  <2>3. HandFits' /\ job'.at = a
    <3>1. a \in {"idle", "take", "stamp"} /\ {} \in SUBSET Media
      OBVIOUS
    <3> DEFINE d == {}
    <3>2. job' = [NoJob EXCEPT !.at = a, !.done = d] /\ d \in SUBSET Media
      BY <2>2
    <3>3. a = "stamp" => d = {}
      OBVIOUS
    <3> HIDE DEF d
    <3>4. QED
      BY <3>1, <3>2, <3>3, EmptyFits
  <2>4. QED
    BY <2>2, <2>3 DEF Nearer
<1>7. CASE Send \/ SendFails \/ Retry \/ EditProfile \/ MoveDate \/ SetUsable \/ Evidence
           \/ UserStacks \/ UserDissolves \/ UserDeletes \/ UserUploads
  <2>1. job' = job
    BY <1>7 DEF Send, SendFails, Retry, EditProfile, MoveDate, SetUsable, Evidence,
         UserStacks, UserDissolves, UserDeletes, UserUploads, Touch
  <2>2. QED
    BY <1>1, <2>1
<1>8. CASE UNCHANGED vars
  BY <1>1, <1>8 DEF vars
<1>9. QED
  BY <1>2, <1>3, <1>4, <1>5, <1>6, <1>7, <1>8 DEF Next, Pass

\* Whatever changes a running job takes it nearer to its end, and it always
\* has a next step: with finitely many media, a pass or a recheck takes a
\* bounded number of steps.
THEOREM PassRunsDown == Spec => []HandFits /\ PassAdvances
<1>1. Init => HandFits
  BY NoJobType DEF Init, HandFits, Comparing, InHand, Grouped
<1>2. IInv /\ HandFits /\ [Next]_vars => HandFits'
  BY PassStep
<1>3. IInv /\ HandFits /\ [Next]_vars => [job.at # "idle" => job' = job \/ Nearer]_vars
  BY PassStep
<1>4. QED
  BY <1>1, <1>2, <1>3, Inductive, PTL DEF Spec, PassAdvances
=============================================================================
