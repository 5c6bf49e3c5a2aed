---------------------------- MODULE UploadsProofs ----------------------------
(***************************************************************************)
(* Uploads for any media, libraries, urls and bounds: its inductive        *)
(* invariant, and the safety properties it gives.                          *)
(***************************************************************************)
EXTENDS Uploads, TLAPS

USE DEF vars, destination, catalog, server

-----------------------------------------------------------------------------
(* Values                                                                  *)

\* Which states are in which of the sets the code names.
LEMMA StateNames ==
  /\ Active \subseteq InFlight /\ InFlight \subseteq States
  /\ Claimable \subseteq States
  /\ Waiting \in InFlight /\ Waiting \notin Active /\ Waiting \notin Claimable
  /\ Claimable \cap InFlight = {}
  /\ "pending" \in Claimable /\ "needs_recheck" \in Claimable
  /\ {"absent", "complete", "failed"} \subseteq States
  /\ {"absent", "complete", "failed"} \cap InFlight = {}
  /\ {"absent", "complete", "failed"} \cap Claimable = {}
  /\ {"checking", "uploading", "asset_known", "tagging", "fixing_datetime"}
       \subseteq Active
  BY DEF States, Claimable, InFlight, Active, Waiting

\* The values every variable starts from have their types.
LEMMA Constants ==
  /\ Foreign \in Dates /\ NoAsset \in Asset /\ Absent \in Record /\ NoJob \in Job
  /\ 1 \in 1..MaxRevisions /\ 0 \in 0..MaxRecords /\ Ids = (0..MaxRecords) \ {0}
<1> USE UploadsAssumption
<1>1. Foreign \in Dates
  BY DEF Foreign, Dates
<1>2. NoAsset \in Asset
  BY <1>1 DEF NoAsset, Asset
<1>3. Absent \in Record
  BY StateNames DEF Absent, Record
<1>4. "none" \in Goals /\ "idle" \in PCs /\ "absent" \in States /\ 0 \in 0..MaxRecords
  BY StateNames DEF Goals, PCs
<1>5. NoJob \in Job
  BY <1>1, <1>4 DEF NoJob, Job
<1>6. QED
  BY <1>1, <1>2, <1>3, <1>4, <1>5 DEF Ids

\* The fields of a row and of the worker's variables.
LEMMA RowType ==
  ASSUME NEW row \in Record
  PROVE  /\ row.media \in Media \cup {NoMedia} /\ row.epoch \in Nat
         /\ row.state \in States /\ row.valid \in BOOLEAN /\ row.token \in Nat
         /\ row.live \in BOOLEAN /\ row.rev \in Nat
         /\ row.first \in {"none", "accept", "reject"}
         /\ row.origin \in {"unknown", "pre_existing", "created_by_us"}
         /\ row.asset \in Nat /\ row.attempts \in Nat
         /\ row.ending \in {"none", "plain", "same", "written", "rejected"}
  BY DEF Record

\* The fields of the job the worker runs.
LEMMA JobType ==
  ASSUME TypeOK
  PROVE  /\ job.kind \in {"none", "send", "approve", "recheck"} /\ job.pc \in PCs
         /\ job.lease \in BOOLEAN /\ job.cancelled \in BOOLEAN
         /\ job.mine \in 0..MaxRecords /\ job.expect \in States
         /\ job.goal \in Goals /\ job.rev \in Nat /\ job.touched \in BOOLEAN
         /\ job.date \in Dates /\ job.verified \in SUBSET (1..MaxRevisions)
         /\ job.reply \in {"none", "accept", "reject", "created", "duplicate", "same"}
         /\ job.asset \in Nat
         /\ job.seen \in SUBSET [row : Ids, had : Nat, has : Nat]
         /\ job.swapped \in BOOLEAN /\ job.late \in BOOLEAN
         /\ job.exit \in {"none", "done", "cancel", "lease", "claim", "target",
                          "server", "key", "file"}
  BY DEF TypeOK, Job

\* The row in hand, with its revision, is one of the rows.
LEMMA MineType ==
  ASSUME TypeOK, job.mine # 0
  PROVE  job.mine \in Ids /\ Mine \in Record
  BY JobType, Constants DEF TypeOK, Mine

\* A capture date is one of the dates the server can be told.
LEMMA CapturedType == ASSUME TypeOK, NEW m \in Media PROVE captured[m] \in Dates
  BY DEF TypeOK, Dates

\* What a job with a row in hand can look up: its library, its asset, its key.
LEMMA HandType ==
  ASSUME TypeOK, RowsFilled, InHand, KeysKept, job.kind # "recheck",
         job.pc \in HandPCs
  PROVE  /\ job.mine \in Ids /\ Mine \in Record /\ Mine.media \in Media
         /\ job.rev \in 1..MaxRevisions /\ job.rev \in keys
         /\ Server \in Libraries /\ There \in Asset
         /\ Mine.state \in Active /\ Mine.rev = job.rev /\ Mine.token = serial
<1>1. job.mine \in Ids /\ Mine \in Record
  BY MineType DEF InHand
<1>2. Mine.state \in Active /\ Mine.rev = job.rev /\ Mine.token = serial
  BY DEF InHand
<1>3. Mine.media \in Media
  BY <1>1, <1>2, StateNames DEF RowsFilled, Mine
<1>4. job.rev \in keys /\ job.rev \in 1..MaxRevisions
  BY <1>1, <1>2, StateNames DEF KeysKept, KeyInUseIsKept, Mine, TypeOK
<1>5. Server \in Libraries
  BY <1>4 DEF Server, TypeOK, Revision
<1>6. There \in Asset
  BY <1>3, <1>5 DEF There, TypeOK
<1>7. QED
  BY <1>1, <1>2, <1>3, <1>4, <1>5, <1>6

-----------------------------------------------------------------------------
(* What keeps the invariant                                                *)

\* The rest of the invariant, once the types are known.
Rest == /\ PcFits
        /\ RowsFilled
        /\ InHand
        /\ FirstAnswer
        /\ KeysKept
        /\ OneRecordPerPair
        /\ Wired => NothingLeftBehind

SameHand == /\ job'.kind = job.kind /\ job'.pc = job.pc /\ job'.mine = job.mine
            /\ job'.expect = job.expect /\ job'.goal = job.goal
            /\ job'.rev = job.rev /\ job'.seen = job.seen
            /\ job'.reply = job.reply

SameRows == UNCHANGED <<records, current, keys, serial>>

\* Rows that change in the background: none comes into a job's hands or
\* leaves them, none becomes valid or in flight.
Gentle ==
    \A r \in Ids :
        /\ records[r].state # "absent" =>
              records'[r].state # "absent" /\ records'[r].media = records[r].media
        /\ records[r].state = "absent" => records'[r].state = "absent"
        /\ records[r].state \in Active =>
              /\ records'[r].state = records[r].state
              /\ records'[r].token = records[r].token
              /\ records'[r].first = records[r].first
        /\ records'[r].state \in Active => records[r].state \in Active
        /\ records'[r].state \in InFlight => records[r].state \in InFlight
        /\ records'[r].rev = records[r].rev
        /\ records'[r].valid => /\ records[r].valid
                                /\ records'[r].media = records[r].media
                                /\ records'[r].epoch = records[r].epoch

\* Nothing of what the invariant is about changes.
LEMMA Elsewhere ==
  ASSUME IInv, SameHand, SameRows
  PROVE  Rest'
<1> USE DEF IInv, SameHand, SameRows
<1>1. PcFits'
  BY DEF PcFits
<1>2. RowsFilled'
  BY DEF RowsFilled
<1>3. InHand'
  BY DEF InHand, Mine
<1>4. KeysKept'
  BY DEF KeysKept, KeyInUseIsKept
<1>5. OneRecordPerPair'
  BY DEF OneRecordPerPair
<1>6. Wired => NothingLeftBehind'
  BY DEF NothingLeftBehind, Holding
<1>7. FirstAnswer'
  BY DEF FirstAnswer, Mine
<1>8. QED
  BY <1>1, <1>2, <1>3, <1>4, <1>5, <1>6, <1>7 DEF Rest

\* Rows change in the background.
LEMMA Background ==
  ASSUME IInv, SameHand, Gentle, serial' = serial, KeysKept'
  PROVE  Rest'
<1> USE DEF IInv, SameHand
<1>1. PcFits'
  BY DEF PcFits
<1>2. RowsFilled'
  <2>1. \A s \in job.seen : s.row \in Ids
    BY JobType
  <2>2. QED
    BY <2>1 DEF RowsFilled, Gentle
<1>3. InHand'
  <2>1. job.mine # 0 => job.mine \in Ids
    BY MineType
  <2>2. job.mine # 0 => /\ Mine.state # "absent" => Mine'.state # "absent"
                        /\ Mine'.rev = Mine.rev
                        /\ Mine.state \in Active => /\ Mine'.state = Mine.state
                                                    /\ Mine'.token = Mine.token
                                                    /\ Mine'.first = Mine.first
    BY <2>1 DEF Gentle, Mine
  <2>3. job.pc = "approving" => job.mine # 0
    BY JobType DEF PcFits, InHand, SendPCs, RecheckPCs
  <2>4. QED
    BY <2>2, <2>3 DEF InHand
<1>4. OneRecordPerPair'
  BY DEF OneRecordPerPair, Gentle
<1>5. Wired => NothingLeftBehind'
  BY DEF NothingLeftBehind, Holding, Gentle
<1>6. FirstAnswer'
  <2>1. job.mine # 0 => job.mine \in Ids
    BY MineType
  <2>2. job.kind = "send" /\ job.pc \in HandPCs => job.mine # 0 /\ Mine.state \in Active
    BY DEF InHand
  <2>3. QED
    BY <2>1, <2>2 DEF FirstAnswer, Gentle, Mine
<1>7. QED
  BY <1>1, <1>2, <1>3, <1>4, <1>5, <1>6 DEF Rest

\* The worker goes on with the row it has in hand.
LEMMA InHandStep ==
  ASSUME IInv, SameRows, job.kind # "recheck", job.pc \in HandPCs,
         job'.kind = job.kind, job'.mine = job.mine, job'.expect = job.expect,
         job'.rev = job.rev, job'.seen = job.seen, job'.pc \in HandPCs, PcFits', FirstAnswer'
  PROVE  Rest'
<1> USE DEF IInv, SameRows
<1>1. RowsFilled'
  BY DEF RowsFilled
<1>2. InHand'
  BY DEF InHand, Mine, HandPCs, SendPCs
<1>3. KeysKept'
  BY DEF KeysKept, KeyInUseIsKept
<1>4. OneRecordPerPair'
  BY DEF OneRecordPerPair
<1>5. Wired => NothingLeftBehind'
  BY DEF NothingLeftBehind, Holding, HandPCs, SendPCs
<1>6. QED
  BY <1>1, <1>2, <1>3, <1>4, <1>5 DEF Rest

\* The worker has no row in hand, before and after.
LEMMA EmptyHandStep ==
  ASSUME IInv, UNCHANGED <<records, current, keys>>, ~Holding, ~Holding',
         PcFits', InHand', FirstAnswer', \A s \in job'.seen : records[s.row].state # "absent"
  PROVE  Rest'
<1> USE DEF IInv
<1>1. RowsFilled'
  BY DEF RowsFilled
<1>2. KeysKept'
  BY DEF KeysKept, KeyInUseIsKept
<1>3. OneRecordPerPair'
  BY DEF OneRecordPerPair
<1>4. Wired => NothingLeftBehind'
  BY DEF NothingLeftBehind
<1>5. QED
  BY <1>1, <1>2, <1>3, <1>4 DEF Rest

\* The worker writes the row it has in hand, or takes one in hand, and goes on.
LEMMA Written ==
  ASSUME IInv, UNCHANGED <<current, keys, serial>>, NEW r \in Ids, NEW row \in Record,
         records' = [records EXCEPT ![r] = row],
         row.media = records[r].media, row.epoch = records[r].epoch,
         row.valid => records[r].valid, records[r].state # "absent",
         row.state \in Active, row.token = serial, row.rev \in keys,
         Holding => job.mine = r, job'.kind \in {"send", "approve"},
         job'.mine = r, job'.expect = row.state, job'.rev = row.rev,
         job'.pc \in HandPCs, job'.seen = job.seen, PcFits', FirstAnswer'
  PROVE  Rest'
<1> USE DEF IInv
<1>1. /\ records'[r] = row
      /\ \A k \in Ids : k # r => records'[k] = records[k]
  BY DEF TypeOK
<1>2. row.state # "absent" /\ row.media \in Media
  BY StateNames DEF RowsFilled
<1>3. RowsFilled'
  <2>1. \A s \in job.seen : s.row \in Ids
    BY JobType
  <2>2. QED
    BY <1>1, <1>2, <2>1 DEF RowsFilled
<1>4. InHand'
  BY <1>1, <1>2, Constants DEF InHand, Mine, HandPCs, SendPCs
<1>5. KeysKept'
  BY <1>1 DEF KeysKept, KeyInUseIsKept
<1>6. OneRecordPerPair'
  BY <1>1 DEF OneRecordPerPair
<1>7. Wired => NothingLeftBehind'
  BY <1>1, Constants DEF NothingLeftBehind, Holding, HandPCs, SendPCs
<1>8. QED
  BY <1>3, <1>4, <1>5, <1>6, <1>7 DEF Rest

\* The worker lets go of its row, which is no longer active.
LEMMA LetGo ==
  ASSUME IInv, UNCHANGED <<current, keys, serial>>, job.mine # 0, NEW row \in Record,
         records' = [records EXCEPT ![job.mine] = row],
         row.media = Mine.media, row.epoch = Mine.epoch,
         row.valid => Mine.valid, Mine.state # "absent",
         row.state \notin Active, row.state # "absent",
         row.state \in InFlight => row.rev \in keys,
         job'.mine = 0, job'.seen = {}, job'.kind \in {"none", "send"},
         job'.kind = "none" => job'.pc = "idle",
         job'.kind = "send" => job'.pc = "head", job'.reply = "none"
  PROVE  Rest'
<1> USE DEF IInv
<1>1. /\ job.mine \in Ids /\ records'[job.mine] = row
      /\ \A k \in Ids : k # job.mine => records'[k] = records[k]
  BY MineType DEF TypeOK
<1>2. PcFits'
  BY DEF PcFits, SendPCs, GuardPCs
<1>3. RowsFilled'
  BY <1>1 DEF RowsFilled, Mine
<1>4. InHand'
  BY DEF InHand, HandPCs, SendPCs
<1>5. KeysKept'
  BY <1>1 DEF KeysKept, KeyInUseIsKept
<1>6. OneRecordPerPair'
  BY <1>1 DEF OneRecordPerPair, Mine
<1>7. Wired => NothingLeftBehind'
  BY <1>1 DEF NothingLeftBehind, Holding
<1>8. FirstAnswer'
  BY DEF FirstAnswer, HandPCs, SendPCs
<1>9. QED
  BY <1>2, <1>3, <1>4, <1>5, <1>6, <1>7, <1>8 DEF Rest

-----------------------------------------------------------------------------
(* How the worker moves                                                    *)

Exits == {"none", "done", "cancel", "lease", "claim", "target", "server", "key",
          "file"}

\* A step within a job that has a row in hand.
HandKept == /\ job' \in Job
            /\ job'.kind = job.kind /\ job'.mine = job.mine
            /\ job'.expect = job.expect /\ job'.rev = job.rev
            /\ job'.seen = job.seen /\ job'.pc \in HandPCs
            /\ PcFits' /\ FirstAnswer'

\* Which job may be where.
LEMMA WhoIsWhere ==
  ASSUME TypeOK, PcFits
  PROVE  /\ job.pc \in {"head", "claiming", "claimed", "refusing", "known", "planning",
                        "retrying", "failing"} => job.kind = "send"
         /\ job.pc \in {"asked", "approving", "reading"} => job.kind = "approve"
         /\ job.pc \in {"starting", "comparing", "stamping"} => job.kind = "recheck"
         /\ job.pc \in {"prepare", "request", "commit", "leaving"} => job.kind # "recheck"
  BY JobType DEF PcFits, SendPCs, ApprovePCs, RecheckPCs

\* Goto keeps the hand, where the job may be at that place.
LEMMA GotoKeeps ==
  ASSUME IInv, records' = records, job.kind # "recheck", job.pc \in HandPCs,
         NEW p \in HandPCs \cap SendPCs, Goto(p),
         p \in GuardPCs => job.pc \in GuardPCs,
         p \notin GuardPCs => job.kind = "send"
  PROVE  HandKept
<1> USE DEF IInv, Goto
<1>1. p \in PCs
  BY DEF HandPCs, SendPCs, PCs
<1>2. job \in Job
  BY DEF TypeOK
<1>3. /\ job' \in Job /\ job'.pc = p
      /\ job'.kind = job.kind /\ job'.mine = job.mine
      /\ job'.expect = job.expect /\ job'.rev = job.rev
      /\ job'.seen = job.seen /\ job'.goal = job.goal /\ job'.reply = job.reply
  BY <1>1, <1>2 DEF Job
<1>4. p # "head" /\ p # "claiming"
  BY DEF HandPCs, SendPCs
<1>5. PcFits'
  BY <1>3, JobType DEF PcFits, HandPCs, SendPCs, ApprovePCs, GuardPCs
<1>6. FirstAnswer'
  BY <1>3, <1>4 DEF FirstAnswer, Mine
<1>7. QED
  BY <1>3, <1>5, <1>6 DEF HandKept

\* Leave keeps the hand.
LEMMA LeaveKeeps ==
  ASSUME IInv, records' = records, job.kind # "recheck", job.pc \in HandPCs,
         NEW why \in Exits, Leave(why)
  PROVE  HandKept
<1> USE DEF IInv
<1>1. job' = [job EXCEPT !.pc = "leaving", !.exit = why]
  BY DEF Leave
<1>2. job \in Job /\ "leaving" \in PCs
  BY DEF TypeOK, PCs
<1>3. /\ job' \in Job /\ job'.pc = "leaving"
      /\ job'.kind = job.kind /\ job'.mine = job.mine
      /\ job'.expect = job.expect /\ job'.rev = job.rev
      /\ job'.seen = job.seen /\ job'.goal = job.goal /\ job'.reply = job.reply
  BY <1>1, <1>2 DEF Job, Exits
<1>4. PcFits'
  BY <1>3, JobType DEF PcFits, HandPCs, SendPCs, ApprovePCs, GuardPCs
<1>5. FirstAnswer'
  BY <1>3 DEF FirstAnswer, Mine, GuardPCs
<1>6. QED
  BY <1>3, <1>4, <1>5 DEF HandKept, HandPCs, SendPCs

\* A reply to a request keeps the hand.
LEMMA ReplyKeeps ==
  ASSUME IInv, records' = records, job.kind # "recheck", job.pc = "request",
         NEW r \in {"none", "accept", "reject", "created", "duplicate", "same"},
         NEW id \in Nat, Reply(r, id),
         job.kind = "approve" => r = "none",
         r \in {"created", "duplicate"} => job.goal = "send"
  PROVE  HandKept
<1> USE DEF IInv, Reply
<1>1. job \in Job /\ "commit" \in PCs
  BY DEF TypeOK, PCs
<1>2. /\ job' \in Job /\ job'.pc = "commit"
      /\ job'.kind = job.kind /\ job'.mine = job.mine
      /\ job'.expect = job.expect /\ job'.rev = job.rev
      /\ job'.seen = job.seen /\ job'.goal = job.goal /\ job'.reply = r
  BY <1>1 DEF Job
<1>3. PcFits'
  BY <1>2, JobType DEF PcFits, SendPCs, ApprovePCs, GuardPCs
<1>4. FirstAnswer'
  BY <1>2 DEF FirstAnswer, Mine, GuardPCs, HandPCs, SendPCs
<1>5. QED
  BY <1>2, <1>3, <1>4 DEF HandKept, HandPCs, SendPCs

\* The guard of the next request keeps the hand.
LEMMA GuardKeeps ==
  ASSUME IInv, records' = records, job.kind # "recheck", job.pc \in HandPCs,
         job' \in Job, job'.pc = "prepare",
         job'.kind = job.kind, job'.mine = job.mine, job'.expect = job.expect,
         job'.rev = job.rev, job'.seen = job.seen,
         job'.goal \notin {"recheck", "send"},
         job'.goal = "approve" <=> job.kind = "approve",
         \/ job'.reply = job.reply
         \/ job.kind = "send" /\ Mine.first # "none"
         \/ job.kind = "send" /\ job'.reply \notin {"created", "duplicate"}
  PROVE  HandKept
<1> USE DEF IInv
<1>1. PcFits'
  BY JobType DEF PcFits, SendPCs, ApprovePCs, GuardPCs, HandPCs
<1>2. FirstAnswer'
  BY DEF FirstAnswer, Mine, GuardPCs, HandPCs, SendPCs
<1>3. QED
  BY <1>1, <1>2 DEF HandKept, HandPCs, SendPCs

\* The whole invariant after a step that keeps the hand.
LEMMA HandKeptSafe ==
  ASSUME IInv, SameRows, job.kind # "recheck", job.pc \in HandPCs, HandKept
  PROVE  Rest'
  BY InHandStep DEF HandKept

\* A budget that is spent stays a budget.
LEMMA SpendType ==
  ASSUME TypeOK, NEW e \in Expenses, Spend(e)
  PROVE  budget' \in [Expenses -> Nat]
  BY DEF TypeOK, Spend

\* A step of the worker with a row in hand that leaves the rows alone.
LEMMA QuietStep ==
  ASSUME IInv, Worker(<<records, serial, behind>>),
         remote' \in [Libraries -> [Media -> Asset]], assets' \in 0..MaxAssets,
         mistaken' \in SUBSET (Libraries \X Media), budget' \in [Expenses -> Nat],
         job.kind # "recheck", job.pc \in HandPCs, HandKept
  PROVE  IInv'
<1>1. TypeOK'
  BY DEF IInv, TypeOK, Worker, HandKept
<1>2. SameRows
  BY DEF SameRows, Worker
<1>3. QED
  BY <1>1, <1>2, HandKeptSafe DEF Rest, IInv

-----------------------------------------------------------------------------
(* Steps with a row in hand                                                *)

\* An answer about a row to a library that is not its own is on record.
LEMMA StraysType ==
  ASSUME IInv, NEW l \in Libraries, Mine.media \in Media, UNCHANGED mistaken \/ Strays(l)
  PROVE  mistaken' \in SUBSET (Libraries \X Media)
<1>1. mistaken \in SUBSET (Libraries \X Media)
  BY DEF IInv, TypeOK
<1>2. <<l, Mine.media>> \in Libraries \X Media
  OBVIOUS
<1>3. QED
  BY <1>1, <1>2 DEF Strays

\* A step of the worker that writes no row.
LEMMA StillStep ==
  ASSUME IInv, Still, job.kind # "recheck", job.pc \in HandPCs, HandKept
  PROVE  IInv'
  BY QuietStep DEF Still, Worker, IInv, TypeOK

\* check_eligibility after the claim.
LEMMA CheckClaimedSafe == ASSUME IInv, CheckClaimed PROVE IInv'
<1> USE DEF IInv
<1>1. job.pc = "claimed" /\ job.pc \in HandPCs /\ job.kind = "send"
  BY WhoIsWhere DEF CheckClaimed, HandPCs, SendPCs
<1>2. records' = records
  BY DEF CheckClaimed, Still, Worker
<1>3. CASE Goto("refusing")
  BY <1>1, <1>2, <1>3, GotoKeeps, StillStep DEF CheckClaimed, HandPCs, SendPCs, GuardPCs
<1>4. CASE Leave("key")
  BY <1>1, <1>2, <1>4, LeaveKeeps, StillStep DEF CheckClaimed, Exits
<1>5. CASE job' = [job EXCEPT !.pc = "prepare", !.goal = "check",
                               !.date = captured[Mine.media]]
  <2>1. captured[Mine.media] \in Dates /\ job \in Job
    BY <1>1, HandType, CapturedType DEF TypeOK
  <2>2. "prepare" \in PCs /\ "check" \in Goals
    BY DEF PCs, Goals
  <2>3. /\ job' \in Job /\ job'.pc = "prepare" /\ job'.goal = "check"
        /\ job'.kind = job.kind /\ job'.mine = job.mine /\ job'.expect = job.expect
        /\ job'.rev = job.rev /\ job'.seen = job.seen /\ job'.reply = job.reply
    BY <1>5, <2>1, <2>2 DEF Job
  <2>4. /\ job'.goal \notin {"recheck", "send"}
        /\ job'.goal = "approve" <=> job.kind = "approve"
    BY <1>1, <2>3
  <2>5. HandKept
    BY <1>1, <1>2, <2>3, <2>4, GuardKeeps
  <2>6. QED
    BY <1>1, <2>5, StillStep DEF CheckClaimed
<1>6. QED
  BY <1>3, <1>4, <1>5 DEF CheckClaimed

\* A guard that fails leaves, or refuses; an approval never looks at the rules.
LEMMA StoppedKeeps ==
  ASSUME IInv, records' = records, job.kind # "recheck", job.pc \in GuardPCs,
         Stopped
  PROVE  HandKept
<1> USE DEF IInv
<1>1. job.pc \in HandPCs
  BY DEF GuardPCs, HandPCs, SendPCs
<1>2. CASE Goto("refusing") /\ Verify
  <2>1. job.kind = "send"
    BY <1>2, JobType, <1>1 DEF PcFits, Verify, HandPCs, SendPCs
  <2>2. QED
    BY <1>1, <1>2, <2>1, GotoKeeps DEF GuardPCs, HandPCs, SendPCs
<1>3. CASE Leave(NoLease) \/ Leave("claim")
  BY <1>1, <1>3, LeaveKeeps DEF NoLease, Exits
<1>4. QED
  BY <1>2, <1>3 DEF Stopped

\* The first half of a guard.
LEMMA PrepareSafe == ASSUME IInv, Prepare PROVE IInv'
<1> USE DEF IInv
<1>1. job.pc \in GuardPCs /\ job.pc \in HandPCs /\ job.kind # "recheck"
  BY WhoIsWhere DEF Prepare, GuardPCs, HandPCs, SendPCs
<1>2. records' = records
  BY DEF Prepare, Still, Worker
<1>3. CASE Goto("preflight")
  BY <1>1, <1>2, <1>3, GotoKeeps, StillStep DEF Prepare, GuardPCs, HandPCs, SendPCs
<1>4. CASE Stopped
  BY <1>1, <1>2, <1>4, StoppedKeeps, StillStep DEF Prepare
<1>5. QED
  BY <1>3, <1>4 DEF Prepare

\* The second half of a guard, before the request goes out.
LEMMA ReassureSafe == ASSUME IInv, Reassure PROVE IInv'
<1> USE DEF IInv
<1>1. job.pc \in GuardPCs /\ job.pc \in HandPCs /\ job.kind # "recheck"
  BY JobType DEF Reassure, GuardPCs, HandPCs, SendPCs, PcFits
<1>2. records' = records
  BY DEF Reassure, Still, Worker
<1>3. CASE Stopped
  BY <1>1, <1>2, <1>3, StoppedKeeps, StillStep DEF Reassure
<1>4. CASE Leave("key")
  BY <1>1, <1>2, <1>4, LeaveKeeps, StillStep DEF Reassure, Exits
<1>5. CASE job' = [job EXCEPT !.pc = IF job.goal = "adopt" THEN "commit"
                                                           ELSE "request",
                              !.touched = TRUE, !.late = FALSE]
  <2>1. job \in Job /\ {"commit", "request"} \subseteq PCs
    BY DEF TypeOK, PCs
  <2>2. /\ job' \in Job /\ job'.pc \in {"commit", "request"} /\ job'.goal = job.goal
        /\ job'.kind = job.kind /\ job'.mine = job.mine /\ job'.expect = job.expect
        /\ job'.rev = job.rev /\ job'.seen = job.seen /\ job'.reply = job.reply
    BY <1>5, <2>1 DEF Job
  <2>3. PcFits'
    BY <1>1, <2>2, JobType DEF PcFits, SendPCs, ApprovePCs, GuardPCs
  <2>4. FirstAnswer'
    BY <1>1, <1>2, <2>2 DEF FirstAnswer, Mine, GuardPCs, HandPCs, SendPCs
  <2>5. HandKept
    BY <2>2, <2>3, <2>4 DEF HandKept, HandPCs, SendPCs
  <2>6. QED
    BY <1>1, <2>5, StillStep DEF Reassure
<1>6. QED
  BY <1>3, <1>4, <1>5 DEF Reassure

-----------------------------------------------------------------------------
(* Steps without a row in hand                                             *)

\* The job ends; it had no row to give back.
LEMMA DoneSafe ==
  ASSUME IInv, Worker(<<records, serial, server>>), budget' \in [Expenses -> Nat],
         ~Holding, NEW why \in Exits, Done(why)
  PROVE  IInv'
<1> USE DEF IInv
<1>1. job' = [NoJob EXCEPT !.exit = why]
  BY DEF Done
<1>2. /\ job' \in Job /\ job'.kind = "none" /\ job'.pc = "idle" /\ job'.mine = 0
      /\ job'.seen = {} /\ job'.reply = "none"
  BY <1>1, Constants DEF NoJob, Job, Exits
<1>3. TypeOK'
  BY <1>2 DEF TypeOK, Worker
<1>4. PcFits' /\ InHand' /\ FirstAnswer' /\ ~Holding'
  BY <1>2 DEF PcFits, InHand, FirstAnswer, Holding, HandPCs, SendPCs, GuardPCs
<1>5. QED
  BY <1>2, <1>3, <1>4, EmptyHandStep DEF Rest, Worker

\* A recheck goes on: it has a revision, and the rows it asked about.
LEMMA RecheckGoes ==
  ASSUME IInv, Worker(<<records, serial, server>>), budget' \in [Expenses -> Nat],
         job.kind = "recheck", job' \in Job, job'.kind = "recheck", job'.mine = 0,
         job'.pc \in RecheckPCs, job'.rev \in 1..MaxRevisions, job'.goal = "recheck",
         \A s \in job'.seen : records[s.row].state # "absent"
  PROVE  IInv'
<1> USE DEF IInv
<1>1. TypeOK'
  BY DEF TypeOK, Worker
<1>2. job.mine = 0
  BY DEF InHand
<1>3. PcFits' /\ InHand' /\ FirstAnswer' /\ ~Holding'
  BY DEF PcFits, InHand, FirstAnswer, Holding, RecheckPCs
<1>4. QED
  BY <1>1, <1>2, <1>3, EmptyHandStep DEF Rest, Worker, Holding

\* A recheck never holds a row.
LEMMA RecheckHandless ==
  ASSUME IInv, job.kind = "recheck"
  PROVE  job.mine = 0 /\ ~Holding
  BY DEF IInv, InHand, Holding

\* assert_target, with and without the cache.
LEMMA PreflightSafe == ASSUME IInv, Preflight PROVE IInv'
<1> USE DEF IInv
<1>1. job.pc = "preflight" /\ job.pc \in GuardPCs /\ job.pc \in HandPCs
  BY DEF Preflight, GuardPCs, HandPCs, SendPCs
<1>2. Still /\ records' = records
  BY DEF Preflight, Still, Worker
<1>3. job \in Job /\ "reassure" \in PCs
  BY DEF TypeOK, PCs
<1>4. CASE Leave("target")
  <2>1. CASE job.kind = "recheck"
    <3>1. Worker(<<records, serial, server>>) /\ budget' \in [Expenses -> Nat]
      BY <1>2 DEF Still, Worker, TypeOK
    <3>2. Done("target") /\ ~Holding
      BY <1>4, <2>1, RecheckHandless DEF Leave
    <3>3. QED
      BY <3>1, <3>2, DoneSafe DEF Exits
  <2>2. CASE job.kind # "recheck"
    BY <1>1, <1>2, <1>4, <2>2, LeaveKeeps, StillStep DEF Exits
  <2>3. QED
    BY <2>1, <2>2
<1>5. CASE job.rev \in 1..MaxRevisions
           /\ (Goto("reassure") \/ job' = [job EXCEPT !.pc = "reassure",
                 !.swapped = FALSE, !.verified = @ \cup {job.rev}])
  <2>1. /\ job' \in Job /\ job'.pc = "reassure" /\ job'.kind = job.kind
        /\ job'.mine = job.mine /\ job'.expect = job.expect /\ job'.goal = job.goal
        /\ job'.rev = job.rev /\ job'.seen = job.seen /\ job'.reply = job.reply
    <3>1. CASE Goto("reassure")
      BY <1>3, <3>1 DEF Job, Goto
    <3>2. CASE job' = [job EXCEPT !.pc = "reassure", !.swapped = FALSE,
                                  !.verified = job.verified \cup {job.rev}]
      <4>1. job.verified \cup {job.rev} \in SUBSET (1..MaxRevisions)
        BY <1>5, JobType
      <4>2. QED
        BY <1>3, <3>2, <4>1 DEF Job
    <3>3. QED
      BY <1>5, <3>1, <3>2
  <2>2. CASE job.kind = "recheck"
    <3>1. job.goal = "recheck" /\ job.mine = 0
      BY <1>1, <2>2, RecheckHandless DEF PcFits
    <3>2. \A s \in job'.seen : records[s.row].state # "absent"
      BY <2>1 DEF RowsFilled
    <3>3. QED
      BY <1>2, <1>5, <2>1, <2>2, <3>1, <3>2, RecheckGoes
         DEF RecheckPCs, Still, Worker, TypeOK
  <2>3. CASE job.kind # "recheck"
    <3>1. PcFits'
      BY <1>1, <2>1, <2>3, JobType DEF PcFits, SendPCs, ApprovePCs, GuardPCs
    <3>2. FirstAnswer'
      BY <1>1, <1>2, <2>1, <2>3 DEF FirstAnswer, Mine, GuardPCs, HandPCs, SendPCs
    <3>3. HandKept
      BY <2>1, <3>1, <3>2 DEF HandKept, HandPCs, SendPCs
    <3>4. QED
      BY <1>1, <1>2, <2>3, <3>3, StillStep
  <2>4. QED
    BY <2>2, <2>3
<1>6. job.rev \in 1..MaxRevisions
  <2>1. CASE job.kind = "recheck"
    BY <1>1, <2>1 DEF PcFits
  <2>2. CASE job.kind # "recheck"
    BY <1>1, <2>2, HandType
  <2>3. QED
    BY <2>1, <2>2
<1>7. QED
  BY <1>4, <1>5, <1>6 DEF Preflight

\* assert_target that gets no answer.
LEMMA PreflightFailsSafe == ASSUME IInv, PreflightFails PROVE IInv'
<1> USE DEF IInv
<1>1. job.pc \in HandPCs /\ Leave("target") /\ records' = records
  BY DEF PreflightFails, HandPCs, SendPCs, Worker
<1>2. budget' \in [Expenses -> Nat]
  BY SpendType DEF PreflightFails, Expenses
<1>3. CASE job.kind = "recheck"
  BY <1>1, <1>2, <1>3, RecheckHandless, DoneSafe DEF PreflightFails, Leave, Exits
<1>4. CASE job.kind # "recheck"
  <2>1. HandKept
    BY <1>1, <1>4, LeaveKeeps DEF Exits
  <2>2. QED
    BY <1>1, <1>2, <1>4, <2>1, QuietStep DEF PreflightFails, Worker, TypeOK
<1>5. QED
  BY <1>3, <1>4

-----------------------------------------------------------------------------
(* The requests to the server                                              *)

\* The guard in front of a request belongs to a send or an approval.
LEMMA RequestHand ==
  ASSUME IInv, job.pc = "request"
  PROVE  /\ job.pc \in HandPCs /\ job.pc \in GuardPCs /\ job.kind \in {"send", "approve"}
         /\ job.kind # "recheck" /\ (job.goal = "approve" <=> job.kind = "approve")
         /\ job \in Job
<1>1. job.pc \in HandPCs /\ job.pc \in GuardPCs /\ job \in Job
  BY DEF IInv, TypeOK, HandPCs, SendPCs, GuardPCs
<1>2. job.kind \in {"send", "approve"}
  BY JobType, WhoIsWhere DEF IInv, PcFits
<1>3. QED
  BY <1>1, <1>2 DEF IInv, PcFits

\* An answer that is lost keeps the hand.
LEMMA LostKeeps ==
  ASSUME IInv, records' = records, job.pc = "request", Raises
  PROVE  HandKept
<1>1. CASE Leave("server")
  BY <1>1, RequestHand, LeaveKeeps DEF Exits
<1>2. CASE job.goal = "observe" /\ Reply("none", 0)
  BY <1>2, RequestHand, ReplyKeeps
<1>3. CASE job.goal # "approve" /\ (Goto("retrying") \/ Goto("failing"))
  <2>1. job.kind = "send"
    BY <1>3, RequestHand
  <2>2. QED
    BY <1>3, <2>1, RequestHand, GotoKeeps DEF HandPCs, SendPCs, GuardPCs
<1>4. QED
  BY <1>1, <1>2, <1>3 DEF Raises

\* A request whose answer is lost.
LEMMA LostSafe == ASSUME IInv, Lost PROVE IInv'
<1>1. budget' \in [Expenses -> Nat]
  BY SpendType DEF Lost, AnswerLost, Expenses, IInv
<1>2. HandKept
  BY LostKeeps DEF Lost, AnswerLost, Worker
<1>3. QED
  BY <1>1, <1>2, RequestHand, QuietStep DEF Lost, AnswerLost, Worker, IInv, TypeOK

\* The guard before the adoption of what is there.
LEMMA AdoptKeeps ==
  ASSUME IInv, records' = records, job.pc = "request", job.kind = "send",
         NEW r \in {"reject", "duplicate"}, NEW id \in Nat,
         job' = [job EXCEPT !.pc = "prepare", !.goal = "adopt",
                            !.reply = r, !.asset = id],
         r = "duplicate" => job.goal = "send"
  PROVE  HandKept
<1>1. job \in Job /\ "prepare" \in PCs /\ "adopt" \in Goals
  BY RequestHand DEF PCs, Goals
<1>2. /\ job' \in Job /\ job'.pc = "prepare" /\ job'.goal = "adopt" /\ job'.reply = r
      /\ job'.kind = job.kind /\ job'.mine = job.mine /\ job'.expect = job.expect
      /\ job'.rev = job.rev /\ job'.seen = job.seen
  BY <1>1 DEF Job
<1>3. /\ job'.goal \notin {"recheck", "send"}
      /\ job'.goal = "approve" <=> job.kind = "approve"
  BY <1>2
<1>4. r = "duplicate" => Mine.first # "none"
  BY RequestHand DEF IInv, FirstAnswer
<1>5. QED
  BY <1>2, <1>3, <1>4, RequestHand, GuardKeeps

\* bulk_upload_check.
LEMMA AskCheckSafe == ASSUME IInv, AskCheck PROVE IInv'
<1>1. /\ job.pc = "request" /\ job.goal = "check" /\ records' = records
      /\ Worker(<<records, serial, behind, remote, assets, budget>>)
  BY DEF AskCheck, At, Worker
<1>2. job.kind = "send"
  BY <1>1, RequestHand
<1>3. There.id \in Nat /\ Server \in Libraries /\ Mine.media \in Media
  BY <1>1, RequestHand, HandType DEF IInv, Asset
<1>4. HandKept
  <2>1. CASE Reply("accept", 0)
    BY <1>1, <1>2, <2>1, RequestHand, ReplyKeeps
  <2>2. CASE Reply("reject", There.id)
    BY <1>1, <1>2, <1>3, <2>2, RequestHand, ReplyKeeps
  <2>3. CASE job' = [job EXCEPT !.pc = "prepare", !.goal = "adopt",
                                !.reply = "reject", !.asset = There.id]
    BY <1>1, <1>2, <1>3, <2>3, AdoptKeeps
  <2>4. QED
    BY <2>1, <2>2, <2>3 DEF AskCheck
<1>5. mistaken' \in SUBSET (Libraries \X Media)
  BY <1>3, StraysType DEF AskCheck
<1>6. QED
  BY <1>1, <1>4, <1>5, RequestHand, QuietStep DEF Worker, IInv, TypeOK

\* The upload, whether the server has the file or not.
LEMMA SendBytesSafe == ASSUME IInv, SendBytes PROVE IInv'
<1>1. /\ job.pc = "request" /\ job.goal = "send" /\ records' = records
      /\ Worker(<<records, serial, behind>>)
  BY DEF SendBytes, At, Worker
<1>2. job.kind = "send"
  BY <1>1, RequestHand
<1>3. /\ There.id \in Nat /\ Server \in Libraries /\ Mine.media \in Media
      /\ assets \in 0..MaxAssets /\ remote \in [Libraries -> [Media -> Asset]]
      /\ budget \in [Expenses -> Nat]
  BY <1>1, RequestHand, HandType DEF IInv, Asset, TypeOK
<1>4. AnswerLost => HandKept /\ budget' \in [Expenses -> Nat]
  BY <1>1, LostKeeps, SpendType DEF AnswerLost, Expenses, IInv
<1>5. HandKept /\ budget' \in [Expenses -> Nat]
  <2>1. CASE AnswerLost
    BY <1>4, <2>1
  <2>2. CASE UNCHANGED budget /\ job' = [job EXCEPT !.pc = "prepare", !.goal = "adopt",
                                      !.reply = "duplicate", !.asset = There.id]
    BY <1>1, <1>2, <1>3, <2>2, AdoptKeeps
  <2>3. CASE Reply("created", assets + 1) /\ UNCHANGED budget
    <3>1. assets + 1 \in Nat
      BY <1>3, UploadsAssumption
    <3>2. QED
      BY <1>1, <1>2, <1>3, <2>3, <3>1, RequestHand, ReplyKeeps
  <2>4. QED
    BY <2>1, <2>2, <2>3 DEF SendBytes
<1>6. remote' \in [Libraries -> [Media -> Asset]] /\ assets' \in 0..MaxAssets
  <2>1. CASE UNCHANGED <<remote, assets>>
    BY <1>3, <2>1
  <2>2. CASE /\ assets < MaxAssets /\ assets' = assets + 1
             /\ remote' = [remote EXCEPT ![Server][Mine.media] =
                             [id |-> assets + 1, ours |-> TRUE, date |-> Foreign]]
    <3>1. assets' \in 0..MaxAssets /\ assets + 1 \in Nat
      BY <1>3, <2>2, UploadsAssumption
    <3>2. [id |-> assets + 1, ours |-> TRUE, date |-> Foreign] \in Asset
      BY <3>1, Constants DEF Asset
    <3>3. QED
      BY <1>3, <2>2, <3>1, <3>2
  <2>3. QED
    BY <2>1, <2>2 DEF SendBytes
<1>7. mistaken' \in SUBSET (Libraries \X Media)
  <2>1. revisions[job.rev].user \in Libraries
    BY <1>1, RequestHand, HandType DEF IInv, TypeOK, Revision
  <2>2. UNCHANGED mistaken \/ Strays(revisions[job.rev].user)
    BY DEF SendBytes
  <2>3. QED
    BY <1>3, <2>1, <2>2, StraysType
<1>8. QED
  BY <1>1, <1>2, <1>5, <1>6, <1>7, RequestHand, QuietStep

\* A library file that cannot be read.
LEMMA FileUnreadableSafe == ASSUME IInv, FileUnreadable PROVE IInv'
<1>1. job.pc = "request" /\ records' = records /\ Leave("file")
  BY DEF FileUnreadable, At, Worker
<1>2. HandKept
  BY <1>1, RequestHand, LeaveKeeps DEF Exits
<1>3. budget' \in [Expenses -> Nat]
  BY SpendType DEF FileUnreadable, Expenses, IInv
<1>4. QED
  BY <1>1, <1>2, <1>3, RequestHand, QuietStep DEF FileUnreadable, Worker, IInv, TypeOK

\* The next guard of the same row.
LEMMA GuardedKeeps ==
  ASSUME IInv, records' = records, job.kind = "send", job.pc \in HandPCs,
         NEW g \in Goals \ {"recheck", "send", "approve"}, Guarded(g)
  PROVE  HandKept
<1>1. job \in Job /\ "prepare" \in PCs
  BY DEF IInv, TypeOK, PCs
<1>2. /\ job' \in Job /\ job'.pc = "prepare" /\ job'.goal = g /\ job'.reply = job.reply
      /\ job'.kind = job.kind /\ job'.mine = job.mine /\ job'.expect = job.expect
      /\ job'.rev = job.rev /\ job'.seen = job.seen
  BY <1>1 DEF Guarded, Job
<1>3. /\ job'.goal \notin {"recheck", "send"}
      /\ job'.goal = "approve" <=> job.kind = "approve"
  BY <1>2
<1>4. QED
  BY <1>2, <1>3, GuardKeeps

\* Tags.
LEMMA TagSafe == ASSUME IInv, FindTag \/ CreateTag \/ TagAssets PROVE IInv'
<1>1. /\ job.pc = "request" /\ job.goal \in {"find", "create", "tag"}
      /\ records' = records /\ Still
  BY DEF FindTag, CreateTag, TagAssets, At, Still, Worker
<1>2. job.kind = "send"
  BY <1>1, RequestHand
<1>3. HandKept
  <2>1. \A g \in {"create", "tag"} : Guarded(g) => HandKept
    BY <1>1, <1>2, RequestHand, GuardedKeeps DEF Goals
  <2>2. CASE TagAssets
    BY <1>1, <1>2, <2>2, RequestHand, GotoKeeps DEF TagAssets, HandPCs, SendPCs, GuardPCs
  <2>3. QED
    BY <2>1, <2>2 DEF FindTag, CreateTag
<1>4. QED
  BY <1>1, <1>3, RequestHand, StillStep

\* The date that is read before it is changed.
LEMMA ObserveSafe == ASSUME IInv, Observe PROVE IInv'
<1>1. job.pc = "request" /\ job.goal = "observe" /\ records' = records /\ Still
  BY DEF Observe, At, Still, Worker
<1>2. job.kind = "send"
  BY <1>1, RequestHand
<1>3. Mine.asset \in Nat
  BY <1>1, RequestHand, HandType, RowType DEF IInv
<1>4. HandKept
  BY <1>1, <1>2, <1>3, RequestHand, ReplyKeeps DEF Observe
<1>5. QED
  BY <1>1, <1>4, RequestHand, StillStep

\* The date that is written, by a sender or by an approval.
LEMMA PutDateSafe == ASSUME IInv, PutDate PROVE IInv'
<1>1. /\ job.pc = "request" /\ job.goal \in {"fix", "approve"} /\ records' = records
      /\ Worker(<<records, serial, behind, assets, mistaken>>)
  BY DEF PutDate, At, Worker
<1>2. /\ Server \in Libraries /\ Mine.media \in Media /\ There \in Asset
      /\ remote \in [Libraries -> [Media -> Asset]] /\ job.date \in Dates
      /\ budget \in [Expenses -> Nat] /\ assets \in 0..MaxAssets
  BY <1>1, RequestHand, HandType, JobType DEF IInv, TypeOK
<1>3. HandKept /\ budget' \in [Expenses -> Nat]
  <2>1. CASE AnswerLost
    BY <1>1, <2>1, LostKeeps, SpendType DEF AnswerLost, Expenses, IInv
  <2>2. CASE Reply("none", 0) /\ UNCHANGED budget
    BY <1>1, <1>2, <2>2, RequestHand, ReplyKeeps
  <2>3. CASE Leave("server") /\ UNCHANGED budget
    BY <1>1, <1>2, <2>3, RequestHand, LeaveKeeps DEF Exits
  <2>4. CASE job.goal # "approve" /\ Goto("failing") /\ UNCHANGED budget
    <3>1. job.kind = "send"
      BY <1>1, <2>4, RequestHand
    <3>2. QED
      BY <1>1, <1>2, <2>4, <3>1, RequestHand, GotoKeeps DEF HandPCs, SendPCs, GuardPCs
  <2>5. QED
    BY <2>1, <2>2, <2>3, <2>4 DEF PutDate
<1>4. remote' \in [Libraries -> [Media -> Asset]]
  <2>1. [There EXCEPT !.date = job.date] \in Asset
    BY <1>2 DEF Asset
  <2>2. \/ remote' = remote
        \/ remote' = [remote EXCEPT ![Server][Mine.media] =
                         [remote[Server][Mine.media] EXCEPT !.date = job.date]]
    BY DEF PutDate
  <2>3. QED
    BY <1>2, <2>1, <2>2 DEF There
<1>5. QED
  BY <1>1, <1>2, <1>3, <1>4, RequestHand, QuietStep DEF Worker, IInv, TypeOK

-----------------------------------------------------------------------------
(* The other steps that leave the rows alone                               *)

\* The decision that a date has to be looked at first.
LEMMA AskDateSafe == ASSUME IInv, AskDate PROVE IInv'
<1>1. /\ job.pc \in HandPCs /\ job.kind = "send" /\ records' = records /\ Still
      /\ Guarded("observe")
  BY WhoIsWhere DEF AskDate, IInv, HandPCs, SendPCs, Still, Worker, TypeOK
<1>2. HandKept
  BY <1>1, GuardedKeeps DEF Goals
<1>3. QED
  BY <1>1, <1>2, StillStep

\* An approval reads the date it will write.
LEMMA ApproveReadsDateSafe == ASSUME IInv, ApproveReadsDate PROVE IInv'
<1>1. /\ job.pc \in HandPCs /\ job.kind = "approve" /\ records' = records /\ Still
      /\ job \in Job
  BY WhoIsWhere DEF ApproveReadsDate, IInv, HandPCs, Still, Worker, TypeOK
<1>2. "prepare" \in PCs /\ "approve" \in Goals /\ captured[Mine.media] \in Dates
  BY <1>1, HandType, CapturedType DEF PCs, Goals, IInv, TypeOK
<1>3. /\ job' \in Job /\ job'.pc = "prepare" /\ job'.goal = "approve"
      /\ job'.kind = job.kind /\ job'.mine = job.mine /\ job'.expect = job.expect
      /\ job'.rev = job.rev /\ job'.seen = job.seen /\ job'.reply = job.reply
  BY <1>1, <1>2 DEF ApproveReadsDate, Job
<1>4. /\ job'.goal \notin {"recheck", "send"}
      /\ job'.goal = "approve" <=> job.kind = "approve"
  BY <1>1, <1>3
<1>5. HandKept
  BY <1>1, <1>3, <1>4, GuardKeeps
<1>6. QED
  BY <1>1, <1>5, StillStep

\* A commit that finds lease or claim gone.
LEMMA CommitFailsSafe == ASSUME IInv, CommitFails PROVE IInv'
<1>1. job.pc \in HandPCs /\ job.kind # "recheck" /\ records' = records /\ Still
  BY WhoIsWhere DEF CommitFails, IInv, HandPCs, SendPCs, Still, Worker
<1>2. HandKept
  BY <1>1, LeaveKeeps DEF CommitFails, NoLease, Exits
<1>3. QED
  BY <1>1, <1>2, StillStep

-----------------------------------------------------------------------------
(* Commits that go on                                                      *)

\* A row that is written while it stays in hand.
LEMMA GoesSafe ==
  ASSUME IInv, Worker(<<serial, server, budget>>), job.mine # 0,
         NEW row \in Record, NEW p \in HandPCs, NEW g \in Goals, NEW e \in Active,
         Goes(row, p, g, e), Mine.state # "absent",
         row.media = Mine.media, row.epoch = Mine.epoch, row.valid = Mine.valid,
         row.state = e, row.token = serial, row.rev = job.rev, job.rev \in keys,
         \/ /\ job.kind = "send" /\ p \in SendPCs
            /\ p \in GuardPCs => g \notin {"recheck", "approve"}
            /\ (\/ job.reply \in {"created", "duplicate"}
                \/ p \in GuardPCs /\ g = "send") => row.first # "none"
         \/ job.kind = "approve" /\ p = "reading"
  PROVE  IInv'
<1> USE DEF IInv
<1>1. job.mine \in Ids /\ job \in Job /\ records \in [Ids -> Record]
  BY MineType DEF TypeOK
<1>2. p \in PCs /\ e \in States
  BY StateNames DEF HandPCs, SendPCs, PCs
<1>3. /\ job' \in Job /\ job'.pc = p /\ job'.goal = g /\ job'.expect = e
      /\ job'.kind = job.kind /\ job'.mine = job.mine /\ job'.rev = job.rev
      /\ job'.seen = job.seen /\ job'.reply = job.reply
  BY <1>1, <1>2 DEF Goes, Job
<1>4. records' = [records EXCEPT ![job.mine] = row] /\ records' \in [Ids -> Record]
  BY <1>1 DEF Goes
<1>5. TypeOK'
  BY <1>3, <1>4 DEF TypeOK, Worker
<1>6. PcFits'
  BY <1>3 DEF PcFits, ApprovePCs, GuardPCs
<1>7. Mine' = row
  BY <1>1, <1>3, <1>4 DEF Mine
<1>8. FirstAnswer'
  BY <1>3, <1>7 DEF FirstAnswer, HandPCs, SendPCs, GuardPCs
<1>9. Holding => job.mine = job.mine
  OBVIOUS
<1>10. UNCHANGED <<current, keys, serial>>
  BY DEF Worker
<1>11. Rest'
  BY <1>1, <1>3, <1>4, <1>6, <1>8, <1>10, Written DEF Mine
<1>12. QED
  BY <1>5, <1>11 DEF Rest

\* What a commit knows of the row: it is the worker's.
LEMMA CommitHand ==
  ASSUME IInv, NEW p \in {"commit", "known", "planning"}, Commits(p)
  PROVE  /\ job.pc \in HandPCs /\ job.kind \in {"send", "approve"} /\ job.kind # "recheck"
         /\ job.mine # 0 /\ job.mine \in Ids /\ Mine \in Record
         /\ Mine.state \in Active /\ Mine.state # "absent" /\ Mine.token = serial
         /\ Mine.rev = job.rev /\ job.rev \in keys
         /\ (p # "commit" => job.kind = "send")
         /\ (p = "commit" => (job.goal = "approve" <=> job.kind = "approve"))
<1>1. job.pc \in HandPCs
  BY DEF Commits, HandPCs, SendPCs
<1>2. job.kind \in {"send", "approve"} /\ (p # "commit" => job.kind = "send")
  BY JobType, WhoIsWhere DEF Commits, IInv, PcFits
<1>3. p = "commit" => (job.goal = "approve" <=> job.kind = "approve")
  BY DEF Commits, IInv, PcFits, GuardPCs
<1>4. QED
  BY <1>1, <1>2, <1>3, HandType, StateNames DEF IInv, InHand

\* The first answer is an answer of the check.
LEMMA FirstType ==
  ASSUME IInv, job.mine # 0, job.kind = "send", job.pc = "commit",
         job.reply \in {"accept", "reject", "created", "duplicate"}
  PROVE  First \in {"accept", "reject"}
<1>1. Mine.first \in {"none", "accept", "reject"}
  BY MineType, RowType DEF IInv
<1>2. job.reply \in {"created", "duplicate"} => Mine.first # "none"
  BY DEF IInv, FirstAnswer, HandPCs, SendPCs
<1>3. QED
  BY <1>1, <1>2 DEF First

\* The commits that go on with the row, one lemma for each.
LEMMA BeginUploadingSafe == ASSUME IInv, BeginUploading PROVE IInv'
<1> DEFINE row == [Mine EXCEPT !.state = "uploading", !.first = First]
<1>1. Commits("commit") /\ job.reply = "accept" /\ Worker(<<serial, server, budget>>)
  BY DEF BeginUploading, Steps
<1>2. job.kind = "send"
  BY <1>1, CommitHand DEF IInv, FirstAnswer
<1>3. First \in {"accept", "reject"}
  BY <1>1, <1>2, CommitHand, FirstType DEF Commits
<1>4. row \in Record /\ row.state = "uploading" /\ row.first # "none"
      /\ row.media = Mine.media /\ row.epoch = Mine.epoch /\ row.valid = Mine.valid
      /\ row.token = Mine.token /\ row.rev = Mine.rev
  BY <1>1, <1>3, CommitHand, StateNames DEF Record
<1>5. "prepare" \in HandPCs /\ "prepare" \in SendPCs /\ "send" \in Goals
      /\ "uploading" \in Active
  BY StateNames DEF HandPCs, SendPCs, Goals
<1>6. Goes(row, "prepare", "send", "uploading")
  BY DEF BeginUploading
<1> HIDE DEF row
<1>7. QED
  BY <1>1, <1>2, <1>4, <1>5, <1>6, CommitHand, GoesSafe

\* The asset is known, and whose it is.
LEMMA AssetKnownSafe == ASSUME IInv, AssetKnown PROVE IInv'
<1> DEFINE row == [Mine EXCEPT !.state = "asset_known", !.first = First,
                               !.asset = job.asset, !.origin = OriginNow]
<1>1. /\ Commits("commit") /\ job.reply \in {"created", "duplicate", "reject"}
      /\ Worker(<<serial, server, budget>>)
  BY DEF AssetKnown, Steps
<1>2. job.kind = "send"
  BY <1>1, CommitHand DEF IInv, FirstAnswer
<1>3. First \in {"accept", "reject"}
  BY <1>1, <1>2, CommitHand, FirstType DEF Commits
<1>4. OriginNow \in {"unknown", "pre_existing", "created_by_us"} /\ job.asset \in Nat
  BY JobType DEF OriginNow, IInv
<1>5. row \in Record /\ row.state = "asset_known" /\ row.first # "none"
      /\ row.media = Mine.media /\ row.epoch = Mine.epoch /\ row.valid = Mine.valid
      /\ row.token = Mine.token /\ row.rev = Mine.rev
  BY <1>1, <1>3, <1>4, CommitHand, StateNames DEF Record
<1>6. "known" \in HandPCs /\ "known" \in SendPCs /\ "none" \in Goals
      /\ "asset_known" \in Active /\ "known" \notin GuardPCs
  BY StateNames DEF HandPCs, SendPCs, Goals, GuardPCs
<1>7. Goes(row, "known", "none", "asset_known")
  BY DEF AssetKnown
<1> HIDE DEF row
<1>8. QED
  BY <1>1, <1>2, <1>5, <1>6, <1>7, CommitHand, GoesSafe

\* Tagging begins, with or without tags.
LEMMA BeginTaggingSafe == ASSUME IInv, BeginTagging PROVE IInv'
<1> DEFINE row == [Mine EXCEPT !.state = "tagging"]
<1>1. Commits("known") /\ Worker(<<serial, server, budget>>) /\ job.pc = "known"
  BY DEF BeginTagging, Steps, Commits
<1>2. job.kind = "send"
  BY <1>1, CommitHand
<1>3. row \in Record /\ row.state = "tagging" /\ row.first = Mine.first
      /\ row.media = Mine.media /\ row.epoch = Mine.epoch /\ row.valid = Mine.valid
      /\ row.token = Mine.token /\ row.rev = Mine.rev
  BY <1>1, CommitHand, StateNames DEF Record
<1>4. job.reply \in {"created", "duplicate"} => Mine.first # "none"
  BY <1>1, <1>2, CommitHand DEF IInv, FirstAnswer
<1>5. {"prepare", "planning"} \subseteq HandPCs \cap SendPCs /\ {"find", "tag"} \subseteq Goals
      /\ "tagging" \in Active
  BY StateNames DEF HandPCs, SendPCs, Goals
<1>6. PICK p \in {"prepare", "planning"} :
        \E g \in {"find", "tag"} : Goes(row, p, g, "tagging")
  BY DEF BeginTagging
<1> HIDE DEF row
<1>7. QED
  BY <1>1, <1>2, <1>3, <1>4, <1>5, <1>6, CommitHand, GoesSafe

\* The date of an asset of ours is written without an approval.
LEMMA BeginFixingSafe == ASSUME IInv, BeginFixing PROVE IInv'
<1> DEFINE row == [Mine EXCEPT !.state = "fixing_datetime"]
<1>1. Commits("planning") /\ Worker(<<serial, server, budget>>) /\ job.pc = "planning"
  BY DEF BeginFixing, Steps, Commits
<1>2. job.kind = "send"
  BY <1>1, CommitHand
<1>3. row \in Record /\ row.state = "fixing_datetime" /\ row.first = Mine.first
      /\ row.media = Mine.media /\ row.epoch = Mine.epoch /\ row.valid = Mine.valid
      /\ row.token = Mine.token /\ row.rev = Mine.rev
  BY <1>1, CommitHand, StateNames DEF Record
<1>4. job.reply \in {"created", "duplicate"} => Mine.first # "none"
  BY <1>1, <1>2, CommitHand DEF IInv, FirstAnswer
<1>5. "prepare" \in HandPCs /\ "prepare" \in SendPCs /\ "fix" \in Goals
      /\ "fixing_datetime" \in Active
  BY StateNames DEF HandPCs, SendPCs, Goals
<1>6. Goes(row, "prepare", "fix", "fixing_datetime")
  BY DEF BeginFixing
<1> HIDE DEF row
<1>7. QED
  BY <1>1, <1>2, <1>3, <1>4, <1>5, <1>6, CommitHand, GoesSafe

\* claim_next takes a row that nobody has.
LEMMA ClaimSafe == ASSUME IInv, NEW r \in Ids, Claim(r) PROVE IInv'
<1> USE DEF IInv
<1> DEFINE row == [records[r] EXCEPT !.state = "checking", !.token = serial,
                                     !.live = TRUE, !.rev = current]
<1>1. /\ records[r] \in Record /\ records \in [Ids -> Record] /\ serial \in Nat
      /\ current \in Nat /\ job \in Job /\ current \in keys
  BY DEF TypeOK, KeysKept
<1>2. records[r].state # "absent" /\ job.pc = "claiming" /\ job.kind = "send"
      /\ job.reply = "none"
  BY StateNames, WhoIsWhere DEF Claim, CanClaim, FirstAnswer
<1>3. /\ row \in Record /\ row.state = "checking" /\ row.token = serial
      /\ row.rev = current /\ row.media = records[r].media
      /\ row.epoch = records[r].epoch /\ row.valid = records[r].valid
  BY <1>1, StateNames DEF Record
<1>4. records' = [records EXCEPT ![r] = row] /\ records' \in [Ids -> Record]
  BY <1>1, <1>3 DEF Claim
<1>5. "claimed" \in PCs /\ "checking" \in States /\ "checking" \in Active
      /\ r \in 0..MaxRecords /\ "claimed" \in HandPCs /\ "claimed" \in SendPCs
      /\ "claimed" \notin GuardPCs
  BY StateNames, Constants DEF PCs, HandPCs, SendPCs, GuardPCs
<1>6. /\ job' \in Job /\ job'.pc = "claimed" /\ job'.mine = r /\ job'.expect = "checking"
      /\ job'.rev = current /\ job'.kind = "send" /\ job'.seen = job.seen
      /\ job'.reply = "none"
  BY <1>1, <1>2, <1>5 DEF Claim, Job
<1> HIDE DEF row
<1>7. TypeOK'
  BY <1>1, <1>3, <1>4, <1>6 DEF TypeOK, Claim, Worker
<1>8. PcFits' /\ FirstAnswer' /\ ~Holding
  BY <1>2, <1>5, <1>6 DEF PcFits, FirstAnswer, Holding
<1>9. UNCHANGED <<current, keys, serial>>
  BY DEF Claim, Worker
<1> HIDE DEF IInv
<1>10. Rest'
  <2>1. /\ row.valid => records[r].valid
        /\ row.state \in Active /\ row.rev \in keys
        /\ Holding => job.mine = r
        /\ job'.kind \in {"send", "approve"} /\ job'.expect = row.state
        /\ job'.rev = row.rev /\ job'.pc \in HandPCs
    BY <1>1, <1>3, <1>5, <1>6, <1>8
  <2>2. QED
    BY <1>2, <1>3, <1>4, <1>6, <1>8, <1>9, <2>1, Written
<1>11. QED
  BY <1>7, <1>10 DEF Rest, IInv

\* claim_for_approval takes the row it waits for, with its revision.
LEMMA ApproveClaimsSafe == ASSUME IInv, ApproveClaims PROVE IInv'
<1> USE DEF IInv
<1> DEFINE row == [Mine EXCEPT !.state = "fixing_datetime", !.token = serial,
                               !.live = TRUE]
<1>1. job.pc = "approving" /\ job.kind = "approve" /\ job.mine # 0 /\ Mine.rev = job.rev
  BY WhoIsWhere DEF ApproveClaims, InHand
<1>2. Worker(<<serial, server, budget>>)
  BY DEF ApproveClaims, Steps
<1>3. job.mine \in Ids /\ Mine \in Record /\ serial \in Nat
  BY <1>1, MineType DEF TypeOK
<1>4. CASE /\ Mine.state = Waiting
           /\ Goes(row, "reading", "none", "fixing_datetime")
  <2>1. Mine.state \in InFlight /\ Mine.state # "absent"
    BY <1>4, StateNames
  <2>2. job.rev \in keys
    BY <1>1, <1>3, <2>1 DEF KeysKept, KeyInUseIsKept, Mine
  <2>3. /\ row \in Record /\ row.state = "fixing_datetime" /\ row.token = serial
        /\ row.media = Mine.media /\ row.epoch = Mine.epoch /\ row.valid = Mine.valid
        /\ row.rev = Mine.rev
    BY <1>3, StateNames DEF Record
  <2>4. "reading" \in HandPCs /\ "none" \in Goals /\ "fixing_datetime" \in Active
    BY StateNames DEF HandPCs, Goals
  <2> HIDE DEF row
  <2>5. QED
    BY <1>1, <1>2, <1>4, <2>1, <2>2, <2>3, <2>4, GoesSafe
<1>5. CASE Done("done") /\ UNCHANGED records
  <2>1. ~Holding
    BY <1>1 DEF Holding
  <2>2. Worker(<<records, serial, server>>) /\ budget' \in [Expenses -> Nat]
    BY <1>2, <1>5 DEF Worker, TypeOK
  <2>3. QED
    BY <1>5, <2>1, <2>2, DoneSafe DEF Exits
<1>6. QED
  BY <1>4, <1>5 DEF ApproveClaims

-----------------------------------------------------------------------------
(* Steps that let the row go                                               *)

\* A step that gives the row up.
LEMMA LetGoSafe ==
  ASSUME IInv, Worker(<<serial, server, budget>>), job.mine # 0,
         NEW row \in Record, records' = [records EXCEPT ![job.mine] = row],
         row.media = Mine.media, row.epoch = Mine.epoch, row.valid => Mine.valid,
         Mine.state # "absent", row.state \notin Active, row.state # "absent",
         row.state \in InFlight => row.rev \in keys,
         (job.kind = "send" /\ Again) \/ \E why \in Exits : Done(why)
  PROVE  IInv'
<1> USE DEF IInv
<1>1. job.mine \in Ids /\ job \in Job /\ records \in [Ids -> Record]
  BY MineType DEF TypeOK
<1>2. /\ job' \in Job /\ job'.mine = 0 /\ job'.seen = {} /\ job'.kind \in {"none", "send"}
      /\ job'.kind = "none" => job'.pc = "idle"
      /\ job'.kind = "send" => job'.pc = "head"
      /\ job'.reply = "none"
  <2>1. CASE job.kind = "send" /\ Again
    <3>1. "head" \in PCs
      BY DEF PCs
    <3>2. job' \in Job
      BY <1>1, <2>1, <3>1, Constants DEF Again, Job
    <3>3. QED
      BY <1>1, <2>1, <3>2 DEF Again, NoJob
  <2>2. ASSUME NEW why \in Exits, Done(why)
        PROVE  <1>2!:
    BY <2>2, Constants DEF Done, NoJob, Job, Exits
  <2>3. QED
    BY <2>1, <2>2
<1>3. TypeOK'
  BY <1>1, <1>2 DEF TypeOK, Worker
<1>4. UNCHANGED <<current, keys, serial>>
  BY DEF Worker
<1>5. Rest'
  BY <1>2, <1>4, LetGo
<1>6. QED
  BY <1>3, <1>5 DEF Rest

\* The row in hand is one that has been written, and its key is kept.
LEMMA HandRow ==
  ASSUME IInv, job.kind # "recheck", job.pc \in HandPCs
  PROVE  /\ job.mine # 0 /\ job.mine \in Ids /\ Mine \in Record /\ Mine.state # "absent"
         /\ Mine.rev \in keys
  BY HandType, StateNames DEF IInv, InHand

\* Free in another state gives the claim up and changes nothing else.
LEMMA FreeRow ==
  ASSUME IInv, job.mine # 0, NEW s \in States
  PROVE  /\ Free(job.mine, s) \in Record /\ Free(job.mine, s).state = s
         /\ Free(job.mine, s).media = Mine.media /\ Free(job.mine, s).epoch = Mine.epoch
         /\ Free(job.mine, s).valid = Mine.valid /\ Free(job.mine, s).rev = Mine.rev
         /\ Free(job.mine, s).attempts = Mine.attempts
<1>1. Mine \in Record /\ Mine.attempts \in Nat
  BY MineType, RowType DEF IInv
<1>2. Free(job.mine, s) = [Mine EXCEPT !.state = s, !.token = 0, !.live = FALSE]
  BY DEF Free, Mine
<1>3. [Mine EXCEPT !.state = s, !.token = 0, !.live = FALSE] \in Record
  BY <1>1 DEF Record
<1>4. QED
  BY <1>1, <1>2, <1>3, RowType

\* States that are neither active nor absent.
LEMMA RestingStates ==
  /\ {"pending", "needs_recheck", "complete", "failed", Waiting} \subseteq States
  /\ \A s \in {"pending", "needs_recheck", "complete", "failed", Waiting} :
        s \notin Active /\ s # "absent"
  BY DEF States, Claimable, InFlight, Active, Waiting

\* finish_owned: the row is final, or waits for its approval.
LEMMA EndsSafe ==
  ASSUME IInv, Steps, job.kind # "recheck", job.pc \in HandPCs,
         NEW s \in {"complete", Waiting},
         NEW e \in {"none", "plain", "same", "written", "rejected"},
         Ends(s, e)
  PROVE  IInv'
<1> DEFINE row == [Free(job.mine, s) EXCEPT !.ending = e]
<1>1. /\ Free(job.mine, s) \in Record /\ Free(job.mine, s).state = s
      /\ Free(job.mine, s).media = Mine.media /\ Free(job.mine, s).epoch = Mine.epoch
      /\ Free(job.mine, s).valid = Mine.valid /\ Free(job.mine, s).rev = Mine.rev
  BY HandRow, FreeRow, RestingStates
<1>2. /\ row \in Record /\ row.state = s /\ row.media = Mine.media
      /\ row.epoch = Mine.epoch /\ row.valid = Mine.valid /\ row.rev = Mine.rev
  BY <1>1 DEF Record
<1>3. job.kind \in {"send", "approve"}
  BY JobType DEF IInv, PcFits, HandPCs, SendPCs
<1>4. records' = [records EXCEPT ![job.mine] = row]
  BY DEF Ends
<1>5. (job.kind = "send" /\ Again) \/ \E why \in Exits : Done(why)
  BY <1>3 DEF Ends, Exits
<1>6. s \notin Active /\ s # "absent"
  BY RestingStates
<1> HIDE DEF row
<1>7. QED
  BY <1>2, <1>4, <1>5, <1>6, HandRow, LetGoSafe DEF Steps

\* The three ways to finish a row.
LEMMA FinishSafe == ASSUME IInv, FinishPlain \/ FinishObserved \/ FinishWritten PROVE IInv'
<1>1. CASE FinishPlain
  BY <1>1, CommitHand, EndsSafe DEF FinishPlain
<1>2. CASE FinishObserved
  BY <1>2, CommitHand, EndsSafe DEF FinishObserved
<1>3. CASE FinishWritten
  BY <1>3, CommitHand, EndsSafe DEF FinishWritten
<1>4. QED
  BY <1>1, <1>2, <1>3

\* A row whose rule no longer holds is invalidated and given up.
LEMMA RefuseSafe == ASSUME IInv, Refuse PROVE IInv'
<1> DEFINE row == [Free(job.mine, "pending") EXCEPT !.valid = FALSE]
<1>1. job.kind = "send" /\ job.kind # "recheck" /\ job.pc \in HandPCs
  BY WhoIsWhere DEF Refuse, IInv, HandPCs, SendPCs
<1>2. /\ row \in Record /\ row.state = "pending" /\ row.media = Mine.media
      /\ row.epoch = Mine.epoch /\ row.valid = FALSE /\ row.rev = Mine.rev
  <2>1. /\ Free(job.mine, "pending") \in Record
        /\ Free(job.mine, "pending").state = "pending"
        /\ Free(job.mine, "pending").media = Mine.media
        /\ Free(job.mine, "pending").epoch = Mine.epoch
        /\ Free(job.mine, "pending").rev = Mine.rev
    BY <1>1, HandRow, FreeRow, RestingStates
  <2>2. QED
    BY <2>1 DEF Record
<1>3. /\ records' = [records EXCEPT ![job.mine] = row] /\ Again
      /\ Worker(<<serial, server, budget>>)
  BY DEF Refuse
<1> HIDE DEF row
<1>4. QED
  BY <1>1, <1>2, <1>3, HandRow, RestingStates, LetGoSafe

\* A counted attempt.
LEMMA CountedSafe ==
  ASSUME IInv, Worker(<<serial, server, budget>>), job.kind = "send",
         job.pc \in HandPCs, NEW s \in {"failed", "pending"}, Again,
         records' = [records EXCEPT ![job.mine] = Counted(Free(job.mine, s))]
  PROVE  IInv'
<1> DEFINE row == Counted(Free(job.mine, s))
<1>1. /\ Free(job.mine, s) \in Record /\ Free(job.mine, s).state = s
      /\ Free(job.mine, s).media = Mine.media /\ Free(job.mine, s).epoch = Mine.epoch
      /\ Free(job.mine, s).valid = Mine.valid /\ Free(job.mine, s).rev = Mine.rev
      /\ Free(job.mine, s).attempts \in Nat
  BY HandRow, FreeRow, RestingStates, RowType
<1>2. /\ row \in Record /\ row.state = s /\ row.media = Mine.media
      /\ row.epoch = Mine.epoch /\ row.valid = Mine.valid /\ row.rev = Mine.rev
  BY <1>1 DEF Counted, Record
<1>3. s \notin Active /\ s # "absent"
  BY RestingStates
<1>4. records' = [records EXCEPT ![job.mine] = row]
  OBVIOUS
<1> HIDE DEF row
<1>5. QED
  BY <1>2, <1>3, <1>4, HandRow, LetGoSafe

\* An attempt that failed and may be repeated.
LEMMA RetriesSafe == ASSUME IInv, Retries PROVE IInv'
<1>1. job.kind = "send" /\ job.pc \in HandPCs
  BY WhoIsWhere DEF Retries, IInv, HandPCs, SendPCs
<1>2. QED
  BY <1>1, CountedSafe DEF Retries, Steps

\* An attempt that failed for good.
LEMMA FailsSafe == ASSUME IInv, Fails PROVE IInv'
<1>1. job.kind = "send" /\ job.kind # "recheck" /\ job.pc \in HandPCs
  BY WhoIsWhere DEF Fails, IInv, HandPCs, SendPCs
<1>2. CASE /\ records' = [records EXCEPT ![job.mine] = Counted(Free(job.mine, "failed"))]
           /\ Again
  BY <1>1, <1>2, CountedSafe DEF Fails, Steps
<1>3. CASE Leave("claim") /\ UNCHANGED records
  <2>1. HandKept
    BY <1>1, <1>3, LeaveKeeps DEF Exits
  <2>2. Still
    BY <1>3 DEF Fails, Steps, Still, Worker
  <2>3. QED
    BY <1>1, <2>1, <2>2, StillStep
<1>4. QED
  BY <1>2, <1>3 DEF Fails

\* The finally clauses give back what is in hand.
LEMMA ReleaseSafe == ASSUME IInv, Release PROVE IInv'
<1> DEFINE to == IF job.kind = "approve" THEN Waiting
                 ELSE IF job.touched THEN "needs_recheck" ELSE "pending"
<1>1. job.kind # "recheck" /\ job.pc \in HandPCs
  BY WhoIsWhere DEF Release, IInv, HandPCs, SendPCs
<1>2. to \in States /\ to \notin Active /\ to # "absent"
  BY RestingStates
<1>3. /\ records' = [records EXCEPT ![job.mine] = Free(job.mine, to)]
      /\ Done(job.exit) /\ Worker(<<serial, server, budget>>)
  BY DEF Release, Steps
<1>4. job.exit \in Exits
  BY JobType DEF IInv, Exits
<1> HIDE DEF to
<1>5. /\ Free(job.mine, to) \in Record /\ Free(job.mine, to).state = to
      /\ Free(job.mine, to).media = Mine.media /\ Free(job.mine, to).epoch = Mine.epoch
      /\ Free(job.mine, to).valid = Mine.valid /\ Free(job.mine, to).rev = Mine.rev
  BY <1>1, <1>2, HandRow, FreeRow
<1>6. QED
  BY <1>1, <1>2, <1>3, <1>4, <1>5, HandRow, LetGoSafe

-----------------------------------------------------------------------------
(* Before and after a row is in hand                                       *)

\* The end of a job that holds no row writes nothing.
LEMMA StillDone ==
  ASSUME IInv, Still, ~Holding, NEW why \in Exits, Done(why)
  PROVE  IInv'
<1>1. Worker(<<records, serial, server>>) /\ budget' \in [Expenses -> Nat]
  BY DEF Still, Worker, IInv, TypeOK
<1>2. QED
  BY <1>1, DoneSafe

\* The head of the loop, and a claim that finds nothing.
LEMMA HeadSafe == ASSUME IInv, Head \/ ClaimNothing PROVE IInv'
<1> USE DEF IInv
<1>1. /\ job.pc \in {"head", "claiming"} /\ job.kind = "send" /\ ~Holding /\ Still
      /\ job.reply = "none" /\ job \in Job
  BY WhoIsWhere DEF Head, ClaimNothing, Holding, FirstAnswer, TypeOK
<1>2. CASE \E why \in Exits : Done(why)
  BY <1>1, <1>2, StillDone
<1>3. CASE Goto("claiming")
  <2>1. "claiming" \in PCs
    BY DEF PCs
  <2>2. /\ job' \in Job /\ job'.pc = "claiming" /\ job'.kind = "send"
        /\ job'.mine = job.mine /\ job'.seen = job.seen /\ job'.reply = "none"
    BY <1>1, <1>3, <2>1 DEF Goto, Job
  <2>3. TypeOK'
    BY <1>1, <2>2 DEF TypeOK, Still, Worker
  <2>4. job.mine = 0
    BY <1>1 DEF InHand, HandPCs, SendPCs, ApprovePCs
  <2>5. PcFits' /\ InHand' /\ FirstAnswer' /\ ~Holding'
    BY <2>2, <2>4 DEF PcFits, InHand, FirstAnswer, Holding, HandPCs, SendPCs, GuardPCs
  <2>6. \A x \in job'.seen : records[x.row].state # "absent"
    BY <2>2 DEF RowsFilled
  <2>7. QED
    BY <1>1, <2>3, <2>5, <2>6, EmptyHandStep DEF Rest, Still, Worker
<1>4. QED
  BY <1>2, <1>3 DEF Head, ClaimNothing, Exits

\* An approval reads its row before it claims it.
LEMMA ApproveReadsSafe == ASSUME IInv, ApproveReads PROVE IInv'
<1> USE DEF IInv
<1>1. /\ job.pc = "asked" /\ job.kind = "approve" /\ ~Holding /\ Still
      /\ job.reply = "none" /\ job \in Job /\ job.mine # 0 /\ Mine.state # "absent"
  BY WhoIsWhere DEF ApproveReads, Holding, FirstAnswer, TypeOK, InHand
<1>2. CASE Done("done")
  BY <1>1, <1>2, StillDone DEF Exits
<1>3. CASE job' = [job EXCEPT !.pc = "approving", !.rev = Mine.rev]
  <2>1. "approving" \in PCs /\ Mine.rev \in Nat
    BY <1>1, MineType, RowType DEF PCs
  <2>2. /\ job' \in Job /\ job'.pc = "approving" /\ job'.kind = "approve"
        /\ job'.mine = job.mine /\ job'.seen = job.seen /\ job'.reply = "none"
        /\ job'.rev = Mine.rev
    BY <1>1, <1>3, <2>1 DEF Job
  <2>3. TypeOK'
    BY <1>1, <2>2 DEF TypeOK, Still, Worker
  <2>4. Mine' = Mine
    BY <1>1, <2>2 DEF Mine, Still, Worker
  <2>5. PcFits' /\ InHand' /\ FirstAnswer' /\ ~Holding'
    BY <1>1, <2>2, <2>4 DEF PcFits, InHand, FirstAnswer, Holding, HandPCs, SendPCs,
       ApprovePCs, GuardPCs
  <2>6. \A x \in job'.seen : records[x.row].state # "absent"
    BY <2>2 DEF RowsFilled
  <2>7. QED
    BY <1>1, <2>3, <2>5, <2>6, EmptyHandStep DEF Rest, Still, Worker
<1>4. QED
  BY <1>2, <1>3 DEF ApproveReads

\* A job begins with an empty hand, or with the row it is asked about.
LEMMA BeginSafe ==
  ASSUME IInv,
         \/ StartSend
         \/ StartRecheck
         \/ \E r \in Ids : StartApprove(r)
  PROVE  IInv'
<1> USE DEF IInv
<1>1. PICK kind \in {"send", "approve", "recheck"}, pc \in {"head", "asked", "starting"},
            r \in 0..MaxRecords :
         /\ Begin(kind, pc, r)
         /\ kind = "send" => pc = "head" /\ r = 0
         /\ kind = "recheck" => pc = "starting" /\ r = 0
         /\ kind = "approve" => pc = "asked" /\ r # 0 /\ records[r].state # "absent"
  BY Constants DEF StartSend, StartRecheck, StartApprove
<1>2. pc \in PCs
  BY DEF PCs
<1>3. /\ job' \in Job /\ job'.kind = kind /\ job'.pc = pc /\ job'.mine = r
      /\ job'.seen = {} /\ job'.reply = "none" /\ job'.goal = "none"
  <2>1. job' = [NoJob EXCEPT !.kind = kind, !.pc = pc, !.lease = TRUE, !.mine = r]
    BY <1>1 DEF Begin
  <2>2. job' \in Job
    BY <1>2, <2>1, Constants DEF Job
  <2>3. QED
    BY <2>1, <2>2 DEF NoJob
<1>4. budget' \in [Expenses -> Nat] /\ serial' \in Nat
  <2>1. Spend("job") /\ serial' = serial + 1 /\ serial \in Nat
    BY <1>1 DEF Begin, TypeOK
  <2>2. "job" \in Expenses
    BY DEF Expenses
  <2>3. QED
    BY <2>1, <2>2, SpendType
<1>5. TypeOK'
  BY <1>1, <1>3, <1>4 DEF TypeOK, Begin, Worker
<1>6. job.kind = "none" /\ job.pc = "idle" /\ ~Holding
  BY <1>1 DEF Begin, PcFits, Holding
<1>7. PcFits' /\ FirstAnswer' /\ ~Holding'
  BY <1>1, <1>3 DEF PcFits, FirstAnswer, Holding, HandPCs, SendPCs, ApprovePCs,
     RecheckPCs, GuardPCs
<1>8. InHand'
  BY <1>1, <1>3 DEF InHand, Mine, HandPCs, SendPCs, ApprovePCs, Begin, Worker
<1>9. UNCHANGED <<records, current, keys>>
  BY <1>1 DEF Begin, Worker
<1>10. QED
  BY <1>3, <1>5, <1>6, <1>7, <1>8, <1>9, EmptyHandStep DEF Rest

-----------------------------------------------------------------------------
(* The recheck                                                             *)

\* The steps of a recheck before its stamp.
LEMMA RecheckSafe ==
  ASSUME IInv, RecheckStarts \/ RecheckLists \/ RecheckCompares
  PROVE  IInv'
<1> USE DEF IInv
<1>1. job.kind = "recheck" /\ Still /\ job \in Job /\ ~Holding /\ job.mine = 0
  <2>1. job.kind = "recheck"
    <3>1. CASE RecheckLists
      BY <3>1, JobType DEF RecheckLists, PcFits, SendPCs, ApprovePCs, GuardPCs
    <3>2. CASE RecheckStarts \/ RecheckCompares
      BY <3>2, WhoIsWhere DEF RecheckStarts, RecheckCompares
    <3>3. QED
      BY <3>1, <3>2
  <2>2. QED
    BY <2>1, RecheckHandless DEF RecheckStarts, RecheckLists, RecheckCompares, TypeOK
<1>2. /\ Worker(<<records, serial, server>>) /\ budget' \in [Expenses -> Nat]
  BY <1>1 DEF Still, Worker, TypeOK
<1>3. CASE \E why \in Exits : Done(why)
  BY <1>1, <1>3, StillDone
<1>4. CASE job' = [job EXCEPT !.pc = "preflight", !.goal = "recheck", !.rev = current]
  <2>1. /\ "preflight" \in PCs /\ "preflight" \in RecheckPCs /\ "recheck" \in Goals
        /\ current \in Nat /\ current \in 1..MaxRevisions
    BY UploadsAssumption DEF PCs, RecheckPCs, Goals, TypeOK
  <2>2. /\ job' \in Job /\ job'.kind = "recheck" /\ job'.mine = 0
        /\ job'.pc = "preflight" /\ job'.rev = current /\ job'.goal = "recheck"
        /\ job'.seen = job.seen
    BY <1>1, <1>4, <2>1 DEF Job
  <2>3. \A x \in job'.seen : records[x.row].state # "absent"
    BY <2>2 DEF RowsFilled
  <2>4. QED
    BY <1>1, <1>2, <2>1, <2>2, <2>3, RecheckGoes
<1>5. CASE RecheckLists /\ ~\E why \in Exits : Done(why)
  <2>1. PICK rows \in SUBSET Ids :
          /\ \A r \in rows : records[r].state = "complete"
          /\ job' = [job EXCEPT !.pc = "comparing",
                        !.seen = {[row |-> r, had |-> records[r].asset, has |-> 0] :
                                    r \in rows}]
    <3> DEFINE rows == {r \in Ids : /\ records[r].epoch = revisions[job.rev].epoch
                                    /\ records[r].state = "complete"
                                    /\ records[r].valid}
    <3>1. job' = [job EXCEPT !.pc = "comparing",
                        !.seen = {[row |-> r, had |-> records[r].asset, has |-> 0] :
                                    r \in rows}]
      BY <1>5 DEF RecheckLists, Exits
    <3>2. rows \in SUBSET Ids /\ \A r \in rows : records[r].state = "complete"
      OBVIOUS
    <3> HIDE DEF rows
    <3>3. QED
      BY <3>1, <3>2
  <2> DEFINE seen == {[row |-> r, had |-> records[r].asset, has |-> 0] : r \in rows}
  <2>2. seen \in SUBSET [row : Ids, had : Nat, has : Nat]
    <3>1. \A r \in Ids : records[r].asset \in Nat
      BY RowType DEF TypeOK
    <3>2. QED
      BY <3>1
  <2>3. \A x \in seen : records[x.row].state # "absent"
    BY <2>1
  <2>4. "comparing" \in PCs /\ "comparing" \in RecheckPCs
    BY DEF PCs, RecheckPCs
  <2>5. job' = [job EXCEPT !.pc = "comparing", !.seen = seen]
    BY <2>1
  <2> HIDE DEF seen
  <2>6. /\ job' \in Job /\ job'.kind = "recheck" /\ job'.mine = 0 /\ job'.seen = seen
        /\ job'.pc = "comparing" /\ job'.rev = job.rev /\ job'.goal = job.goal
    BY <1>1, <2>2, <2>4, <2>5 DEF Job
  <2>7. job.goal = "recheck" /\ job.rev \in 1..MaxRevisions
    BY <1>1, <1>5 DEF RecheckLists, PcFits
  <2>8. QED
    BY <1>1, <1>2, <2>3, <2>4, <2>6, <2>7, RecheckGoes
<1>6. CASE RecheckCompares /\ ~\E why \in Exits : Done(why)
  <2> DEFINE seen == {[x EXCEPT !.has = remote[Server][records[x.row].media].id] :
                        x \in job.seen}
  <2>1. job.pc = "comparing" /\ job.rev \in 1..MaxRevisions /\ job.goal = job.goal
    BY <1>1, <1>6 DEF RecheckCompares, PcFits
  <2>2. job' = [job EXCEPT !.pc = "stamping", !.seen = seen]
    BY <1>6 DEF RecheckCompares, Exits, NoLease
  <2>3. \A x \in job.seen : /\ x \in [row : Ids, had : Nat, has : Nat]
                            /\ remote[Server][records[x.row].media].id \in Nat
    <3>1. Server \in Libraries
      BY <2>1 DEF Server, TypeOK, Revision
    <3>2. \A x \in job.seen : /\ x \in [row : Ids, had : Nat, has : Nat]
                              /\ records[x.row].media \in Media
      BY JobType DEF RowsFilled
    <3>3. QED
      BY <3>1, <3>2 DEF TypeOK, Asset
  <2>4. /\ seen \in SUBSET [row : Ids, had : Nat, has : Nat]
        /\ \A x \in seen : \E y \in job.seen : x.row = y.row
    BY <2>3
  <2>5. \A x \in seen : records[x.row].state # "absent"
    BY <2>4 DEF RowsFilled
  <2>6. "stamping" \in PCs /\ "stamping" \in RecheckPCs
    BY DEF PCs, RecheckPCs
  <2> HIDE DEF seen
  <2>7. /\ job' \in Job /\ job'.kind = "recheck" /\ job'.mine = 0 /\ job'.seen = seen
        /\ job'.pc = "stamping" /\ job'.rev = job.rev /\ job'.goal = job.goal
        /\ job'.reply = job.reply
    BY <1>1, <2>2, <2>4, <2>6 DEF Job
  <2>8. TypeOK'
    BY <1>2, <2>7 DEF TypeOK, Worker
  <2>9. PcFits' /\ InHand' /\ FirstAnswer' /\ ~Holding'
    BY <1>1, <2>1, <2>6, <2>7 DEF PcFits, InHand, FirstAnswer, Holding, GuardPCs
  <2>10. QED
    BY <1>1, <1>2, <2>5, <2>7, <2>8, <2>9, EmptyHandStep DEF Rest, Worker
<1>7. QED
  BY <1>3, <1>4, <1>5, <1>6 DEF RecheckStarts, RecheckLists, RecheckCompares, NoLease, Exits

\* stamp_many on one batch: assets and invalidations only.
LEMMA RecheckStampsSafe == ASSUME IInv, RecheckStamps PROVE IInv'
<1> USE DEF IInv
<1>1. job.kind = "recheck" /\ ~Holding /\ job.mine = 0
  BY WhoIsWhere, RecheckHandless DEF RecheckStamps
<1>2. PICK why \in Exits : Done(why)
  BY DEF RecheckStamps, NoLease, Exits
<1>3. /\ job' \in Job /\ job'.kind = "none" /\ job'.pc = "idle" /\ job'.mine = 0
      /\ job'.seen = {} /\ job'.reply = "none"
  BY <1>2, Constants DEF Done, NoJob, Job, Exits
<1>4. \A r \in Ids : /\ records'[r] \in Record
                     /\ records'[r].state = records[r].state
                     /\ records'[r].media = records[r].media
                     /\ records'[r].epoch = records[r].epoch
                     /\ records'[r].rev = records[r].rev
                     /\ records'[r].valid => records[r].valid
  <2> SUFFICES ASSUME NEW r \in Ids
               PROVE  /\ records'[r] \in Record
                      /\ records'[r].state = records[r].state
                      /\ records'[r].media = records[r].media
                      /\ records'[r].epoch = records[r].epoch
                      /\ records'[r].rev = records[r].rev
                      /\ records'[r].valid => records[r].valid
    OBVIOUS
  <2>1. records[r] \in Record
    BY DEF TypeOK
  <2>2. \/ records'[r] = records[r]
        \/ \E x \in job.seen :
              records'[r] = [records[r] EXCEPT !.asset = x.has,
                                !.valid = @ /\ x.has # 0,
                                !.ending = IF x.has = x.had THEN @ ELSE "none"]
    <3>1. CASE Leased /\ \E x \in job.seen : /\ x.row = r
                                            /\ records[r].state = "complete"
                                            /\ records[r].asset = x.had
      <4> DEFINE x == CHOOSE x \in job.seen : x.row = r
      <4>1. x \in job.seen
        BY <3>1
      <4>2. records'[r] = [records[r] EXCEPT !.asset = x.has, !.valid = @ /\ x.has # 0,
                              !.ending = IF x.has = x.had THEN @ ELSE "none"]
        BY <3>1 DEF RecheckStamps
      <4> HIDE DEF x
      <4>3. QED
        BY <4>1, <4>2
    <3>2. CASE ~(Leased /\ \E x \in job.seen : /\ x.row = r
                                            /\ records[r].state = "complete"
                                            /\ records[r].asset = x.had)
      BY <3>2 DEF RecheckStamps
    <3>3. QED
      BY <3>1, <3>2
  <2>3. ASSUME NEW x \in job.seen,
               records'[r] = [records[r] EXCEPT !.asset = x.has,
                                 !.valid = @ /\ x.has # 0,
                                 !.ending = IF x.has = x.had THEN @ ELSE "none"]
        PROVE  /\ records'[r] \in Record
               /\ records'[r].state = records[r].state
               /\ records'[r].media = records[r].media
               /\ records'[r].epoch = records[r].epoch
               /\ records'[r].rev = records[r].rev
               /\ records'[r].valid => records[r].valid
    <3>1. x.has \in Nat
      BY JobType
    <3>2. /\ records[r].valid \in BOOLEAN
          /\ records[r].ending \in {"none", "plain", "same", "written", "rejected"}
      BY <2>1, RowType
    <3>3. QED
      BY <2>1, <2>3, <3>1, <3>2 DEF Record
  <2>4. QED
    BY <2>1, <2>2, <2>3
<1>5. records' \in [Ids -> Record]
  <2>1. records' = [r \in Ids |-> records'[r]]
    BY DEF RecheckStamps
  <2>2. QED
    BY <1>4, <2>1
<1>6. Worker(<<serial, server, budget>>)
  BY DEF RecheckStamps, Steps
<1>7. TypeOK'
  BY <1>3, <1>5, <1>6 DEF TypeOK, Worker
<1>8. PcFits' /\ InHand' /\ FirstAnswer'
  BY <1>3 DEF PcFits, InHand, FirstAnswer, HandPCs, SendPCs, GuardPCs
<1>9. RowsFilled'
  BY <1>3, <1>4 DEF RowsFilled
<1>10. KeysKept'
  BY <1>4, <1>6 DEF KeysKept, KeyInUseIsKept, Worker
<1>11. OneRecordPerPair'
  BY <1>4 DEF OneRecordPerPair
<1>12. Wired => NothingLeftBehind'
  BY <1>1, <1>4 DEF NothingLeftBehind
<1>13. QED
  BY <1>7, <1>8, <1>9, <1>10, <1>11, <1>12

-----------------------------------------------------------------------------
(* Requests and the outside world, with no effect on rows                  *)

\* A flag of the job is set; nothing else of it changes.
LEMMA FlagSet ==
  ASSUME TypeOK, NEW b \in BOOLEAN,
         \/ job' = job
         \/ job' = [job EXCEPT !.late = b]
         \/ job' = [job EXCEPT !.swapped = b]
         \/ job' = [job EXCEPT !.lease = b]
         \/ job' = [job EXCEPT !.cancelled = b]
  PROVE  job' \in Job /\ SameHand
<1> USE DEF TypeOK, Job, SameHand
<1>1. CASE job' = job
  BY <1>1
<1>2. CASE job' = [job EXCEPT !.late = b]
  BY <1>2
<1>3. CASE job' = [job EXCEPT !.swapped = b]
  BY <1>3
<1>4. CASE job' = [job EXCEPT !.lease = b]
  BY <1>4
<1>5. CASE job' = [job EXCEPT !.cancelled = b]
  BY <1>5
<1>6. QED
  BY <1>1, <1>2, <1>3, <1>4, <1>5

\* The history of a guard that was overtaken is no part of the hand.
LEMMA SpoilType == ASSUME TypeOK, job' = Spoil PROVE job' \in Job /\ SameHand
  BY FlagSet DEF Spoil

\* Every step that spends has a budget to spend.
LEMMA SpendTypes ==
  ASSUME TypeOK,
         \/ Spend("toggle") \/ Spend("edit") \/ Spend("move") \/ Spend("group")
         \/ Spend("outside") \/ Spend("swap") \/ Spend("expiry") \/ Spend("restart")
  PROVE  budget' \in [Expenses -> Nat]
  BY SpendType DEF Expenses

\* What changes is outside the rows and the keys.
LEMMA ElsewhereSafe ==
  ASSUME IInv, TypeOK', SameHand, SameRows
  PROVE  IInv'
  BY Elsewhere DEF Rest, IInv

\* A destination is switched off or on.
LEMMA ToggleSafe == ASSUME IInv, Toggle PROVE IInv'
<1>1. job' \in Job /\ SameHand /\ budget' \in [Expenses -> Nat] /\ enabled' \in BOOLEAN
  BY SpoilType, SpendTypes DEF Toggle, IInv, TypeOK
<1>2. TypeOK' /\ SameRows
  BY <1>1 DEF Toggle, IInv, TypeOK, SameRows
<1>3. QED
  BY <1>1, <1>2, ElsewhereSafe

\* An original becomes a member of a group.
LEMMA CreateGroupSafe == ASSUME IInv, NEW m \in Media, CreateGroup(m) PROVE IInv'
<1>1. job' \in Job /\ SameHand /\ budget' \in [Expenses -> Nat]
  BY SpoilType, SpendTypes DEF CreateGroup, IInv
<1>2. TypeOK' /\ SameRows
  BY <1>1 DEF CreateGroup, IInv, TypeOK, SameRows
<1>3. QED
  BY <1>1, <1>2, ElsewhereSafe

\* A cancel, and a lease that runs out.
LEMMA CancelSafe == ASSUME IInv, Cancel \/ LeaseExpires PROVE IInv'
<1>1. job' \in Job /\ SameHand
  BY FlagSet DEF Cancel, LeaseExpires, IInv
<1>2. budget' \in [Expenses -> Nat]
  BY SpendTypes DEF Cancel, LeaseExpires, IInv, TypeOK
<1>3. TypeOK' /\ SameRows
  BY <1>1, <1>2 DEF Cancel, LeaseExpires, IInv, TypeOK, SameRows
<1>4. QED
  BY <1>1, <1>3, ElsewhereSafe

\* The first half of a reject.
LEMMA RejectReadsSafe == ASSUME IInv, NEW r \in Ids, RejectReads(r) PROVE IInv'
<1>1. TypeOK' /\ SameRows /\ SameHand
  BY DEF RejectReads, IInv, TypeOK, SameRows, SameHand
<1>2. QED
  BY <1>1, ElsewhereSafe

\* Other clients of the library.
LEMMA OthersSafe ==
  ASSUME IInv, NEW l \in Libraries, NEW m \in Media,
         OtherUploads(l, m) \/ OtherDeletes(l, m)
  PROVE  IInv'
<1>1. /\ remote \in [Libraries -> [Media -> Asset]] /\ assets \in 0..MaxAssets
      /\ budget' \in [Expenses -> Nat]
  BY SpendTypes DEF OtherUploads, OtherDeletes, IInv, TypeOK
<1>2. remote' \in [Libraries -> [Media -> Asset]] /\ assets' \in 0..MaxAssets
  <2>1. CASE OtherUploads(l, m)
    <3>1. /\ assets + 1 \in Nat /\ assets' \in 0..MaxAssets
          /\ [at |-> 0, tz |-> 0] \in Dates
      BY <1>1, <2>1, UploadsAssumption DEF OtherUploads, Dates
    <3>2. PICK d \in {Foreign, [at |-> 0, tz |-> 0]} :
            remote' = [remote EXCEPT ![l][m] =
                         [id |-> assets + 1, ours |-> FALSE, date |-> d]]
      BY <2>1 DEF OtherUploads
    <3>3. [id |-> assets + 1, ours |-> FALSE, date |-> d] \in Asset
      BY <3>1, <3>2, Constants DEF Asset
    <3>4. QED
      BY <1>1, <3>1, <3>2, <3>3
  <2>2. CASE OtherDeletes(l, m)
    BY <1>1, <2>2, Constants DEF OtherDeletes
  <2>3. QED
    BY <2>1, <2>2
<1>3. mistaken' \in SUBSET (Libraries \X Media)
  <2>1. <<l, m>> \in Libraries \X Media /\ mistaken \in SUBSET (Libraries \X Media)
    BY DEF IInv, TypeOK
  <2>2. QED
    BY <2>1 DEF OtherUploads, OtherDeletes
<1>4. TypeOK' /\ SameRows /\ SameHand
  BY <1>1, <1>2, <1>3 DEF OtherUploads, OtherDeletes, IInv, TypeOK, SameRows, SameHand
<1>5. QED
  BY <1>4, ElsewhereSafe

\* Another library behind the same url.
LEMMA SwapSafe == ASSUME IInv, NEW u \in Urls, Swap(u) PROVE IInv'
<1>1. behind' \in [Urls -> Libraries] /\ budget' \in [Expenses -> Nat]
  BY SpendTypes DEF Swap, IInv, TypeOK
<1>2. job' \in Job /\ SameHand
  BY FlagSet DEF Swap, IInv
<1>3. TypeOK' /\ SameRows
  BY <1>1, <1>2 DEF Swap, IInv, TypeOK, SameRows
<1>4. QED
  BY <1>2, <1>3, ElsewhereSafe

\* The keys that are not wanted go.
LEMMA PurgeSafe == ASSUME IInv, Purge PROVE IInv'
<1> USE DEF IInv
<1>1. TypeOK' /\ SameHand /\ serial' = serial /\ records' = records
  BY DEF Purge, TypeOK, SameHand
<1>2. Gentle
  BY <1>1 DEF Gentle
<1>3. KeysKept'
  BY DEF Purge, KeysKept, KeyInUseIsKept, Wanted
<1>4. QED
  BY <1>1, <1>2, <1>3, Background DEF Rest

-----------------------------------------------------------------------------
(* Requests and the outside world, with an effect on rows                  *)

\* Rows change in the background, and keys are not taken away.
LEMMA GentleSafe ==
  ASSUME IInv, TypeOK', SameHand, Gentle, UNCHANGED <<serial, current, keys>>
  PROVE  IInv'
<1>1. KeysKept'
  BY DEF Gentle, IInv, KeysKept, KeyInUseIsKept
<1>2. QED
  BY <1>1, Background DEF Rest, IInv

\* The same for one row whose state changes between states nobody holds.
LEMMA OneRowSafe ==
  ASSUME IInv, NEW r \in Ids, NEW row \in Record, records' = [records EXCEPT ![r] = row],
         UNCHANGED <<destination, catalog, job, serial, server>>,
         budget' \in [Expenses -> Nat], rejecting' \in SUBSET Ids,
         row.media = records[r].media, row.epoch = records[r].epoch,
         row.rev = records[r].rev, row.valid = records[r].valid,
         \/ /\ row.state = records[r].state /\ row.token = records[r].token
            /\ row.first = records[r].first
         \/ /\ records[r].state \notin Active /\ records[r].state # "absent"
            /\ row.state \notin InFlight /\ row.state # "absent"
  PROVE  IInv'
<1>1. TypeOK' /\ SameHand /\ UNCHANGED <<serial, current, keys>>
  BY DEF IInv, TypeOK, SameHand
<1>2. /\ records'[r] = row
      /\ \A k \in Ids : k # r => records'[k] = records[k]
  BY DEF IInv, TypeOK
<1>3. Gentle
  BY <1>2, StateNames DEF Gentle
<1>4. QED
  BY <1>1, <1>3, GentleSafe

\* A freed row is the row without its claim.
LEMMA RowFree ==
  ASSUME TypeOK, NEW r \in Ids, NEW s \in States
  PROVE  /\ Free(r, s) \in Record /\ Free(r, s).state = s
         /\ Free(r, s).media = records[r].media /\ Free(r, s).epoch = records[r].epoch
         /\ Free(r, s).valid = records[r].valid /\ Free(r, s).rev = records[r].rev
<1>1. records[r] \in Record
  BY DEF TypeOK
<1>2. Free(r, s) = [records[r] EXCEPT !.state = s, !.token = 0, !.live = FALSE]
  BY DEF Free
<1>3. [records[r] EXCEPT !.state = s, !.token = 0, !.live = FALSE] \in Record
  BY <1>1 DEF Record
<1>4. QED
  BY <1>1, <1>2, <1>3, RowType

\* A failed row waits again.
LEMMA PendingAgain ==
  ASSUME IInv, NEW r \in Ids, records[r].state = "failed",
         records' = [records EXCEPT ![r] = Free(r, "pending")],
         UNCHANGED <<destination, catalog, rejecting, job, serial, server, budget>>
  PROVE  IInv'
<1>1. /\ "pending" \in States /\ "pending" \notin InFlight /\ "pending" # "absent"
      /\ "failed" \notin Active /\ "failed" # "absent"
  BY DEF States, Claimable, InFlight, Active, Waiting
<1>2. budget' \in [Expenses -> Nat] /\ rejecting' \in SUBSET Ids
  BY DEF IInv, TypeOK
<1>3. QED
  BY <1>1, <1>2, RowFree, OneRowSafe DEF IInv

\* POST /uploads/{id}/retry.
LEMMA RetrySafe == ASSUME IInv, NEW r \in Ids, Retry(r) PROVE IInv'
  BY PendingAgain DEF Retry

\* The second half of a reject, whether or not the row still waits.
LEMMA RejectSettlesSafe == ASSUME IInv, NEW r \in Ids, RejectSettles(r) PROVE IInv'
<1> DEFINE row == [records[r] EXCEPT !.state = "complete", !.ending = "rejected"]
<1>1. records[r] \in Record /\ records \in [Ids -> Record]
  BY DEF IInv, TypeOK
<1>2. budget' \in [Expenses -> Nat] /\ rejecting' \in SUBSET Ids
  BY DEF RejectSettles, IInv, TypeOK
<1>3. CASE records[r].state = Waiting
  <2>1. /\ row \in Record /\ row.state = "complete" /\ row.media = records[r].media
        /\ row.epoch = records[r].epoch /\ row.valid = records[r].valid
        /\ row.rev = records[r].rev
    BY <1>1, StateNames DEF Record
  <2>2. records' = [records EXCEPT ![r] = row]
    BY <1>1, <1>3 DEF RejectSettles
  <2>3. /\ Waiting \notin Active /\ Waiting # "absent"
        /\ "complete" \notin InFlight /\ "complete" # "absent"
    BY DEF InFlight, Active, Waiting
  <2> HIDE DEF row
  <2>4. QED
    BY <1>2, <1>3, <2>1, <2>2, <2>3, OneRowSafe DEF RejectSettles
<1>4. CASE records[r].state # Waiting
  <2>1. TypeOK' /\ SameRows /\ SameHand
    BY <1>2, <1>4 DEF RejectSettles, IInv, TypeOK, SameRows, SameHand
  <2>2. QED
    BY <2>1, ElsewhereSafe
<1>5. QED
  BY <1>3, <1>4

\* A claim runs out: token and state stay.
LEMMA ClaimExpiresSafe == ASSUME IInv, NEW r \in Ids, ClaimExpires(r) PROVE IInv'
<1> DEFINE row == [records[r] EXCEPT !.live = FALSE]
<1>1. records[r] \in Record /\ records \in [Ids -> Record]
  BY DEF IInv, TypeOK
<1>2. budget' \in [Expenses -> Nat] /\ rejecting' \in SUBSET Ids
  BY SpendTypes DEF ClaimExpires, IInv, TypeOK
<1>3. /\ row \in Record /\ row.state = records[r].state /\ row.media = records[r].media
      /\ row.epoch = records[r].epoch /\ row.valid = records[r].valid
      /\ row.rev = records[r].rev /\ row.token = records[r].token
      /\ row.first = records[r].first
  BY <1>1 DEF Record
<1>4. records' = [records EXCEPT ![r] = row]
  BY <1>1 DEF ClaimExpires
<1> HIDE DEF row
<1>5. QED
  BY <1>2, <1>3, <1>4, OneRowSafe DEF ClaimExpires
\* A job's row is written, so it is not the next row to be inserted.
LEMMA HandIsWritten ==
  ASSUME IInv, job.mine # 0
  PROVE  job.mine \in Ids /\ Mine.state # "absent"
<1>1. job.mine \in Ids
  BY MineType DEF IInv
<1>2. CASE job.kind = "approve"
  BY <1>1, <1>2 DEF IInv, InHand
<1>3. CASE job.kind = "send"
  <2>1. job.pc \in HandPCs
    BY <1>3 DEF IInv, PcFits, InHand, SendPCs, ApprovePCs, HandPCs
  <2>2. QED
    BY <1>1, <1>3, <2>1, StateNames DEF IInv, InHand
<1>4. QED
  BY <1>2, <1>3 DEF IInv, InHand

\* A new row takes a place that is empty; the pair had no valid row.
LEMMA InsertSafe ==
  ASSUME IInv, NEW m \in Media, NEW r \in Ids, records[r].state = "absent",
         Existing(m) = {}, records' = [records EXCEPT ![r] = NewRecord(m)],
         UNCHANGED <<destination, catalog, rejecting, job, serial, server, budget>>
  PROVE  IInv'
<1> USE DEF IInv
<1>1. Epoch \in Nat
  BY DEF Epoch, TypeOK, Revision
<1>2. /\ NewRecord(m) \in Record /\ NewRecord(m).media = m
      /\ NewRecord(m).epoch = Epoch /\ NewRecord(m).state = "pending"
  BY <1>1, StateNames, UploadsAssumption DEF NewRecord, Absent, Record
<1>3. /\ records'[r] = NewRecord(m)
      /\ \A k \in Ids : k # r => records'[k] = records[k]
  BY DEF TypeOK
<1>4. TypeOK'
  BY <1>2 DEF TypeOK
<1>5. job.mine # r /\ \A s \in job.seen : s.row \in Ids /\ s.row # r
  BY HandIsWritten, JobType DEF Mine, RowsFilled, Ids
<1>6. job.mine # 0 => Mine' = Mine
  BY <1>3, <1>5, HandIsWritten DEF Mine
<1>7. PcFits'
  BY DEF PcFits
<1>8. RowsFilled'
  BY <1>2, <1>3, <1>5 DEF RowsFilled
<1>9. InHand'
  <2>1. job.pc = "approving" => job.mine # 0
    BY WhoIsWhere DEF InHand
  <2>2. QED
    BY <1>6, <2>1 DEF InHand
<1>10. FirstAnswer'
  BY <1>6 DEF FirstAnswer, InHand
<1>11. KeysKept'
  BY <1>2, <1>3, StateNames DEF KeysKept, KeyInUseIsKept
<1>12. OneRecordPerPair'
  <2>1. Epoch' = Epoch
    BY DEF Epoch
  <2>2. \A k \in Ids : ~(/\ records[k].valid /\ records[k].media = m
                         /\ records[k].epoch = Epoch)
    BY DEF Existing
  <2>3. QED
    BY <1>2, <1>3, <2>2 DEF OneRecordPerPair
<1>13. Wired => NothingLeftBehind'
  BY <1>2, <1>3, StateNames DEF NothingLeftBehind, Holding
<1>14. QED
  BY <1>4, <1>7, <1>8, <1>9, <1>10, <1>11, <1>12, <1>13

\* create_pairs for one media.
LEMMA CreatePairSafe == ASSUME IInv, NEW m \in Media, CreatePair(m) PROVE IInv'
<1>1. CASE /\ Existing(m) = {}
           /\ \E r \in Ids : /\ Next1(r)
                             /\ records' = [records EXCEPT ![r] = NewRecord(m)]
  BY <1>1, InsertSafe DEF CreatePair, Next1
<1>2. CASE \E r \in Existing(m) :
             /\ records[r].state = "failed"
             /\ records' = [records EXCEPT ![r] = Free(r, "pending")]
  BY <1>2, PendingAgain DEF CreatePair, Existing
<1>3. QED
  BY <1>1, <1>2 DEF CreatePair

\* Rows that told an older date are to be looked at again.
LEMMA RequeueGentle ==
  ASSUME IInv, NEW m \in Media, records' = Requeue(m)
  PROVE  records' \in [Ids -> Record] /\ Gentle
<1>1. \A r \in Ids : records[r] \in Record
  BY DEF IInv, TypeOK
<1>2. \A r \in Ids :
        \/ records'[r] = records[r]
        \/ /\ records[r].state = "complete"
           /\ records'[r] = [records[r] EXCEPT !.state = "needs_recheck"]
  BY DEF Requeue
<1>3. \A row \in Record : /\ [row EXCEPT !.state = "needs_recheck"] \in Record
                          /\ [row EXCEPT !.state = "needs_recheck"].state = "needs_recheck"
                          /\ [row EXCEPT !.state = "needs_recheck"].media = row.media
                          /\ [row EXCEPT !.state = "needs_recheck"].epoch = row.epoch
                          /\ [row EXCEPT !.state = "needs_recheck"].valid = row.valid
                          /\ [row EXCEPT !.state = "needs_recheck"].rev = row.rev
  BY StateNames DEF Record
<1>4. ASSUME NEW r \in Ids PROVE records'[r] \in Record
  <2>1. records[r] \in Record
    BY <1>1
  <2>2. CASE records'[r] = records[r]
    BY <2>1, <2>2
  <2>3. CASE records'[r] = [records[r] EXCEPT !.state = "needs_recheck"]
    BY <1>3, <2>1, <2>3
  <2>4. QED
    BY <1>2, <2>2, <2>3
<1>5. records' \in [Ids -> Record]
  BY <1>4 DEF Requeue
<1>6. Gentle
  <2>1. {"complete", "needs_recheck"} \cap InFlight = {} /\ Active \subseteq InFlight
        /\ "absent" \notin Active
    BY DEF InFlight, Active, Waiting
  <2> SUFFICES ASSUME NEW r \in Ids
               PROVE  /\ records[r].state # "absent" =>
                            /\ records'[r].state # "absent"
                            /\ records'[r].media = records[r].media
                      /\ records[r].state = "absent" => records'[r].state = "absent"
                      /\ records[r].state \in Active =>
                            /\ records'[r].state = records[r].state
                            /\ records'[r].token = records[r].token
                            /\ records'[r].first = records[r].first
                      /\ records'[r].state \in Active => records[r].state \in Active
                      /\ records'[r].state \in InFlight => records[r].state \in InFlight
                      /\ records'[r].rev = records[r].rev
                      /\ records'[r].valid => /\ records[r].valid
                                              /\ records'[r].media = records[r].media
                                              /\ records'[r].epoch = records[r].epoch
    BY DEF Gentle
  <2>2. CASE records'[r] = records[r]
    BY <2>2
  <2>3. CASE /\ records[r].state = "complete"
             /\ records'[r] = [records[r] EXCEPT !.state = "needs_recheck"]
    BY <1>1, <1>3, <2>1, <2>3
  <2>4. QED
    BY <1>2, <2>2, <2>3
<1>7. QED
  BY <1>5, <1>6

\* The capture dates of the catalogue.
Captures == [at : 0..1, tz : 0..1]

\* A capture date moves, by a zone override or a recomputation.
LEMMA MoveSafe ==
  ASSUME IInv, NEW m \in Media, ZoneOverride(m) \/ Recompute(m)
  PROVE  IInv'
<1>1. records' \in [Ids -> Record] /\ Gentle
  BY RequeueGentle DEF ZoneOverride, Recompute
<1>2. budget' \in [Expenses -> Nat]
  BY SpendTypes DEF ZoneOverride, Recompute, IInv
<1>3. captured' \in [Media -> Captures]
  <2>1. captured \in [Media -> Captures]
    BY DEF IInv, TypeOK, Captures
  <2>2. CASE ZoneOverride(m)
    <3>1. captured' = [captured EXCEPT ![m] = [captured[m] EXCEPT !.tz = 1 - captured[m].tz]]
      BY <2>1, <2>2 DEF ZoneOverride
    <3>2. captured[m] \in Captures /\ [captured[m] EXCEPT !.tz = 1 - captured[m].tz] \in Captures
      BY <2>1 DEF Captures
    <3>3. QED
      BY <2>1, <3>1, <3>2
  <2>3. CASE Recompute(m)
    <3>1. captured' = [captured EXCEPT ![m] = [captured[m] EXCEPT !.at = 1 - captured[m].at]]
      BY <2>1, <2>3 DEF Recompute
    <3>2. captured[m] \in Captures /\ [captured[m] EXCEPT !.at = 1 - captured[m].at] \in Captures
      BY <2>1 DEF Captures
    <3>3. QED
      BY <2>1, <3>1, <3>2
  <2>4. QED
    BY <2>2, <2>3
<1>4. TypeOK' /\ SameHand /\ UNCHANGED <<serial, current, keys>>
  BY <1>1, <1>2, <1>3 DEF Captures, ZoneOverride, Recompute, IInv, TypeOK, SameHand
<1>5. QED
  BY <1>1, <1>4, GentleSafe
\* What is no longer to be sent becomes invalid; nothing else of it changes.
LEMMA InvalidatedGentle ==
  ASSUME IInv, records' = [r \in Ids |-> records'[r]],
         \A r \in Ids : \/ records'[r] = records[r]
                        \/ records'[r] = [records[r] EXCEPT !.valid = FALSE]
  PROVE  records' \in [Ids -> Record] /\ Gentle
<1>1. \A row \in Record : /\ [row EXCEPT !.valid = FALSE] \in Record
                          /\ [row EXCEPT !.valid = FALSE].valid = FALSE
                          /\ [row EXCEPT !.valid = FALSE].state = row.state
                          /\ [row EXCEPT !.valid = FALSE].media = row.media
                          /\ [row EXCEPT !.valid = FALSE].token = row.token
                          /\ [row EXCEPT !.valid = FALSE].first = row.first
                          /\ [row EXCEPT !.valid = FALSE].rev = row.rev
  BY DEF Record
<1>2. ASSUME NEW r \in Ids
      PROVE  /\ records'[r] \in Record
             /\ records'[r].state = records[r].state
             /\ records'[r].media = records[r].media
             /\ records'[r].token = records[r].token
             /\ records'[r].first = records[r].first
             /\ records'[r].rev = records[r].rev
             /\ records'[r].valid => records'[r] = records[r]
  <2>1. records[r] \in Record
    BY DEF IInv, TypeOK
  <2>2. CASE records'[r] = records[r]
    BY <2>1, <2>2
  <2>3. CASE records'[r] = [records[r] EXCEPT !.valid = FALSE]
    BY <1>1, <2>1, <2>3
  <2>4. QED
    BY <2>2, <2>3
<1>3. records' \in [Ids -> Record]
  BY <1>2
<1>4. Gentle
  BY <1>2 DEF Gentle
<1>5. QED
  BY <1>3, <1>4

\* A group is edited or discarded.
LEMMA EditGroupSafe == ASSUME IInv, NEW m \in Media, EditGroup(m) PROVE IInv'
<1>1. /\ records' = [r \in Ids |-> records'[r]]
      /\ \A r \in Ids : \/ records'[r] = records[r]
                        \/ records'[r] = [records[r] EXCEPT !.valid = FALSE]
  BY DEF EditGroup
<1>2. records' \in [Ids -> Record] /\ Gentle
  BY <1>1, InvalidatedGentle
<1>3. budget' \in [Expenses -> Nat] /\ basis' \in SUBSET Media
  BY SpendTypes DEF EditGroup, IInv, TypeOK
<1>4. TypeOK' /\ SameHand /\ UNCHANGED <<serial, current, keys>>
  BY <1>2, <1>3 DEF EditGroup, IInv, TypeOK, SameHand
<1>5. QED
  BY <1>2, <1>4, GentleSafe

\* The new revision has its key, and the old ones keep theirs for now.
LEMMA EditDestinationSafe ==
  ASSUME IInv, NEW u \in Urls, NEW same \in BOOLEAN, EditDestination(u, same)
  PROVE  IInv'
<1> DEFINE next == NextEpoch(behind[u], u, same)
<1>1. /\ records' = [r \in Ids |-> records'[r]]
      /\ \A r \in Ids : \/ records'[r] = records[r]
                        \/ records'[r] = [records[r] EXCEPT !.valid = FALSE]
  BY DEF EditDestination
<1>2. records' \in [Ids -> Record] /\ Gentle
  BY <1>1, InvalidatedGentle
<1>3. budget' \in [Expenses -> Nat] /\ job' \in Job /\ SameHand
  BY SpendTypes, SpoilType DEF EditDestination, IInv
<1>4. revisions' \in [1..MaxRevisions -> Revision]
  <2>1. Epoch \in Nat
    BY DEF Epoch, IInv, TypeOK, Revision
  <2>2. next \in Nat
    BY <2>1 DEF NextEpoch
  <2>3. [url |-> u, user |-> behind[u], epoch |-> next] \in Revision
    BY <2>2 DEF Revision, IInv, TypeOK
  <2>4. revisions' = [revisions EXCEPT ![current + 1] =
                        [url |-> u, user |-> behind[u], epoch |-> next]]
    BY DEF EditDestination
  <2>5. QED
    BY <2>3, <2>4 DEF IInv, TypeOK
<1>5. /\ current' \in 1..MaxRevisions /\ current' \in keys' /\ keys \subseteq keys'
      /\ keys' \in SUBSET (1..MaxRevisions) /\ purging' \in BOOLEAN
  BY DEF EditDestination, IInv, TypeOK
<1>6. TypeOK' /\ serial' = serial
  BY <1>2, <1>3, <1>4, <1>5 DEF EditDestination, IInv, TypeOK
<1>7. KeysKept'
  BY <1>2, <1>5 DEF KeysKept, KeyInUseIsKept, IInv, Gentle
<1>8. QED
  BY <1>2, <1>3, <1>6, <1>7, Background DEF Rest, IInv

-----------------------------------------------------------------------------
(* A restart                                                               *)

\* What the reconciler makes of a row is held by nobody.
LEMMA SettledRow ==
  ASSUME TypeOK, NEW r \in Ids, NEW stale \in SUBSET Ids
  PROVE  /\ Settled(r, stale) \in Record
         /\ Settled(r, stale).state \notin Active
         /\ Settled(r, stale).state \in InFlight => records[r].state \in InFlight
         /\ Settled(r, stale).state # "absent" => records[r].state # "absent"
         /\ Settled(r, stale).media = records[r].media
         /\ Settled(r, stale).epoch = records[r].epoch
         /\ Settled(r, stale).rev = records[r].rev
         /\ Settled(r, stale).valid => records[r].valid
<1> DEFINE row == IF records[r].state \in Active THEN Free(r, "needs_recheck")
                  ELSE records[r]
           ok  == /\ records[r].valid
                  /\ records[r].state # "complete" =>
                       /\ records[r].epoch = Epoch
                       /\ ~(records[r].media \notin basis /\ r \in stale)
<1>1. records[r] \in Record
  BY DEF TypeOK
<1>2. /\ row \in Record /\ row.media = records[r].media /\ row.epoch = records[r].epoch
      /\ row.rev = records[r].rev
      /\ row.state = IF records[r].state \in Active THEN "needs_recheck"
                     ELSE records[r].state
  <2>1. CASE records[r].state \in Active
    BY <2>1, RowFree, StateNames
  <2>2. CASE records[r].state \notin Active
    BY <1>1, <2>2
  <2>3. QED
    BY <2>1, <2>2
<1>3. ok \in BOOLEAN /\ (ok => records[r].valid)
  OBVIOUS
<1>4. Settled(r, stale) = [row EXCEPT !.valid = ok]
  BY DEF Settled
<1> HIDE DEF row, ok
<1>5. /\ [row EXCEPT !.valid = ok] \in Record
      /\ [row EXCEPT !.valid = ok].state = row.state
      /\ [row EXCEPT !.valid = ok].media = row.media
      /\ [row EXCEPT !.valid = ok].epoch = row.epoch
      /\ [row EXCEPT !.valid = ok].rev = row.rev
      /\ [row EXCEPT !.valid = ok].valid = ok
  BY <1>2, <1>3 DEF Record
<1>6. "needs_recheck" \notin InFlight /\ Active \subseteq InFlight /\ "absent" \notin Active
  BY DEF InFlight, Active, Waiting
<1>7. QED
  BY <1>2, <1>3, <1>4, <1>5, <1>6

\* A restart, with the reconciler wired and without.
LEMMA RestartSafe == ASSUME IInv, Restart PROVE IInv'
<1> USE DEF IInv
<1>1. /\ job' \in Job /\ job'.kind = "none" /\ job'.pc = "idle" /\ job'.mine = 0
      /\ job'.seen = {} /\ job'.reply = "none"
  BY Constants DEF Restart, NoJob
<1>2. budget' \in [Expenses -> Nat]
  BY SpendTypes DEF Restart
<1>3. PcFits' /\ InHand' /\ FirstAnswer'
  BY <1>1 DEF PcFits, InHand, FirstAnswer, HandPCs, SendPCs, GuardPCs
<1>4. CASE Wired
  <2>1. PICK stale \in SUBSET Ids : records' = [r \in Ids |-> Settled(r, stale)]
    BY <1>4 DEF Restart
  <2>2. \A r \in Ids :
          /\ records'[r] \in Record
          /\ records'[r].state \notin Active
          /\ records'[r].state \in InFlight => records[r].state \in InFlight
          /\ records'[r].state # "absent" => records[r].state # "absent"
          /\ records'[r].media = records[r].media
          /\ records'[r].epoch = records[r].epoch
          /\ records'[r].rev = records[r].rev
          /\ records'[r].valid => records[r].valid
    BY <2>1, SettledRow
  <2>3. records' \in [Ids -> Record]
    BY <2>1, <2>2
  <2>4. keys' = {v \in keys : Wanted(v, records')} /\ current' = current
    BY <1>4 DEF Restart
  <2>5. TypeOK'
    BY <1>1, <1>2, <2>3, <2>4 DEF Restart, TypeOK
  <2>6. RowsFilled'
    BY <1>1, <2>2 DEF RowsFilled
  <2>7. KeysKept'
    BY <2>2, <2>4 DEF KeysKept, KeyInUseIsKept, Wanted
  <2>8. OneRecordPerPair'
    BY <2>2 DEF OneRecordPerPair
  <2>9. NothingLeftBehind'
    BY <2>2 DEF NothingLeftBehind
  <2>10. QED
    BY <1>3, <2>5, <2>6, <2>7, <2>8, <2>9
<1>5. CASE ~Wired
  <2>1. UNCHANGED <<records, keys, current>>
    BY <1>5 DEF Restart
  <2>2. TypeOK'
    BY <1>1, <1>2, <2>1 DEF Restart, TypeOK
  <2>3. RowsFilled' /\ KeysKept' /\ OneRecordPerPair'
    BY <1>1, <2>1 DEF RowsFilled, KeysKept, KeyInUseIsKept, OneRecordPerPair
  <2>4. QED
    BY <1>3, <1>5, <2>2, <2>3
<1>6. QED
  BY <1>4, <1>5

-----------------------------------------------------------------------------
(* The invariant                                                           *)

\* The invariant holds at first ...
LEMMA InitSafe == ASSUME Init PROVE IInv
<1>1. \A r \in Ids : records[r] = Absent
  BY DEF Init
<1>2. /\ Absent.state = "absent" /\ Absent.valid = FALSE
      /\ "absent" \notin InFlight /\ "absent" \notin Active
  BY DEF Absent, InFlight, Active, Waiting
<1>3. /\ job = NoJob /\ NoJob.kind = "none" /\ NoJob.pc = "idle" /\ NoJob.mine = 0
      /\ NoJob.seen = {} /\ NoJob.reply = "none"
  BY DEF Init, NoJob
<1>4. TypeOK
  <2>1. records \in [Ids -> Record] /\ job \in Job /\ current \in 1..MaxRevisions
    BY Constants DEF Init
  <2>2. revisions \in [1..MaxRevisions -> Revision] /\ behind \in [Urls -> Libraries]
    BY DEF Init, Revision
  <2>3. remote \in [Libraries -> [Media -> Asset]] /\ assets \in 0..MaxAssets
    BY Constants, UploadsAssumption DEF Init
  <2>4. captured \in [Media -> [at : 0..1, tz : 0..1]]
    BY DEF Init
  <2>5. budget \in [Expenses -> Nat] /\ keys \in SUBSET (1..MaxRevisions)
    BY Constants, UploadsAssumption DEF Init
  <2>6. QED
    BY <2>1, <2>2, <2>3, <2>4, <2>5 DEF Init, TypeOK
<1>5. PcFits /\ InHand /\ FirstAnswer
  BY <1>3 DEF PcFits, InHand, FirstAnswer, HandPCs, SendPCs, GuardPCs
<1>6. RowsFilled
  BY <1>1, <1>2, <1>3 DEF RowsFilled
<1>7. KeysKept
  BY <1>1, <1>2 DEF Init, KeysKept, KeyInUseIsKept
<1>8. OneRecordPerPair /\ NothingLeftBehind
  BY <1>1, <1>2 DEF OneRecordPerPair, NothingLeftBehind
<1>9. QED
  BY <1>4, <1>5, <1>6, <1>7, <1>8 DEF IInv
\* ... and every step keeps it.
LEMMA NextSafe == ASSUME IInv, [Next]_vars PROVE IInv'
<1>1. CASE \E m \in Media : \/ CreatePair(m) \/ ZoneOverride(m) \/ CreateGroup(m)
                            \/ EditGroup(m) \/ Recompute(m)
  BY <1>1, CreatePairSafe, MoveSafe, CreateGroupSafe, EditGroupSafe
<1>2. CASE \E r \in Ids : Retry(r) \/ RejectReads(r) \/ RejectSettles(r) \/ ClaimExpires(r)
  BY <1>2, RetrySafe, RejectReadsSafe, RejectSettlesSafe, ClaimExpiresSafe
<1>3. CASE \E u \in Urls, same \in BOOLEAN : EditDestination(u, same)
  BY <1>3, EditDestinationSafe
<1>4. CASE Purge \/ Toggle \/ Cancel \/ LeaseExpires \/ Restart
  BY <1>4, PurgeSafe, ToggleSafe, CancelSafe, RestartSafe
<1>5. CASE \/ \E l \in Libraries, m \in Media : OtherUploads(l, m) \/ OtherDeletes(l, m)
           \/ \E u \in Urls : Swap(u)
  BY <1>5, OthersSafe, SwapSafe
<1>6. CASE StartSend \/ StartRecheck \/ \E r \in Ids : StartApprove(r)
  BY <1>6, BeginSafe
<1>7. CASE \/ Head \/ ClaimNothing \/ CheckClaimed \/ Refuse
           \/ \E r \in Ids : Claim(r)
  BY <1>7, HeadSafe, CheckClaimedSafe, RefuseSafe, ClaimSafe
<1>8. CASE \/ AskCheck \/ SendBytes \/ FileUnreadable
           \/ FindTag \/ CreateTag \/ TagAssets \/ Observe
  BY <1>8, AskCheckSafe, SendBytesSafe, FileUnreadableSafe, TagSafe, ObserveSafe
<1>9. CASE \/ BeginUploading \/ AssetKnown \/ BeginTagging \/ FinishPlain
           \/ BeginFixing \/ AskDate \/ FinishObserved \/ FinishWritten
  BY <1>9, BeginUploadingSafe, AssetKnownSafe, BeginTaggingSafe, FinishSafe,
     BeginFixingSafe, AskDateSafe
<1>10. CASE Fails \/ Retries \/ CommitFails \/ Release
  BY <1>10, FailsSafe, RetriesSafe, CommitFailsSafe, ReleaseSafe
<1>11. CASE Approves
  BY <1>11, ApproveReadsSafe, ApproveClaimsSafe, ApproveReadsDateSafe DEF Approves
<1>12. CASE Rechecks
  BY <1>12, RecheckSafe, RecheckStampsSafe DEF Rechecks
<1>13. CASE Prepare \/ Preflight \/ PreflightFails \/ Reassure \/ Lost \/ PutDate
  BY <1>13, PrepareSafe, PreflightSafe, PreflightFailsSafe, ReassureSafe, LostSafe,
     PutDateSafe
<1>14. CASE UNCHANGED vars
  <2>1. TypeOK' /\ SameHand /\ SameRows
    BY <1>14 DEF IInv, TypeOK, SameHand, SameRows
  <2>2. QED
    BY <2>1, ElsewhereSafe
<1>15. QED
  BY <1>1, <1>2, <1>3, <1>4, <1>5, <1>6, <1>7, <1>8, <1>9, <1>10, <1>11, <1>12,
     <1>13, <1>14
     DEF Next, Requests, World, Starts, Working, Sends, Shared

\* The rows, the keys and the hand of the worker always fit together.
THEOREM Inductive == Spec => []IInv
  BY InitSafe, NextSafe, PTL DEF Spec

-----------------------------------------------------------------------------
(* What follows                                                            *)

\* Every variable keeps its type.
THEOREM TypeCorrect == Spec => []TypeOK
<1>1. IInv => TypeOK
  BY DEF IInv
<1>2. QED
  BY <1>1, Inductive, PTL

\* One media has one valid row in an epoch, whatever requests and edits race.
THEOREM OneRecord == Spec => []OneRecordPerPair
<1>1. IInv => OneRecordPerPair
  BY DEF IInv
<1>2. QED
  BY <1>1, Inductive, PTL

\* The row in hand stays as the job left it, through every request, zone
\* change, edit and recomputation in between.
THEOREM OwnRow == Spec => []OwnRowStays
<1>1. IInv => OwnRowStays
  <2>1. ASSUME IInv, Holding PROVE job.kind # "recheck" /\ job.pc \in HandPCs
    BY <2>1 DEF IInv, Holding, InHand, ApprovePCs, HandPCs, SendPCs
  <2>2. QED
    BY <2>1 DEF IInv, OwnRowStays, InHand
<1>2. QED
  BY <1>1, Inductive, PTL

\* The key a row in flight was sent with is not purged, in a restart or by an
\* edit.
THEOREM KeysSafe == Spec => []KeyInUseIsKept
<1>1. IInv => KeyInUseIsKept
  BY DEF IInv, KeysKept
<1>2. QED
  BY <1>1, Inductive, PTL

\* With the reconciler wired, no end of a job and no restart leaves a row
\* behind that nobody can claim.
THEOREM LeftBehind == Wired /\ Spec => []NothingLeftBehind
<1>1. SUFFICES ASSUME Wired PROVE Spec => []NothingLeftBehind
  OBVIOUS
<1>2. IInv => NothingLeftBehind
  BY <1>1 DEF IInv
<1>3. QED
  BY <1>2, Inductive, PTL
=============================================================================
