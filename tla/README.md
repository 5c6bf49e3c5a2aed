# A verification of mediaferry

mediaferry takes photos and videos from camera cards into a library on a NAS,
joins split videos, and uploads the result to Immich servers. This directory
holds TLA+ specifications of its core, the TLC configurations that check them
on small instances, and proofs for TLAPS. Every definition is a translation of
the code in `src/`; `PROJECT.json` names the lines each one stands for.

## 1. Inventory

Paths are relative to `src/app/src/mediaferry/` unless they start with `src/`.

| Component | State | Operations | Correct when |
|---|---|---|---|
| JobRunner, job table (`jobs/runner.py`, `db/jobs.py`) | rows of `job` (status, lease token, lease expiry), `_current`, `_stopping` | enqueue, claim, heartbeat, fenced effect, request cancel, settle, reap, sweep, stop | a job ends exactly once, never under its handler, and nothing fenced follows an acknowledged cancel |
| Data root (`single_instance.py`, `__main__.py`, `api/app.py`) | the flock, the lifespan | start, sweep, orderly stop, crash | one process sweeps and works at a time |
| ArtifactPublisher (`adapters/publisher.py`) | rows of `artifact_staging`, staging files, library files, `media_file` | stage (steps 1-7), link, adopt, fsync, unlink, commit (8-11), discard, resume | verified bytes are never lost, library files never replaced, the catalogue tells what is on disk |
| Importer (`jobs/importer.py`), Scanner (`jobs/scan.py`) | rows of `source_entry`, the pending entries of a run | scan, sweep of vanished entries, import of one entry, abort, failure | each file of a card is imported once, whatever is interrupted |
| Reconciler (`jobs/reconcile.py`) | none of its own | sweep of jobs, recovery of staging rows, merges and uploads, missing marks, clearing of staging directories | after startup the tables and the disk agree again |
| Upload records (`db/uploads.py`, `jobs/uploader.py`, `core/uploads/decisions.py`) | rows of `upload_record` (state, claim, epoch), assets at Immich | create pairs, claim, prepare side effect, send, settle, retry, invalidate | a file is on a destination once, and never after a rejection or a change of the destination's identity |
| Approvals, recheck, preflight (`jobs/approvals.py`, `jobs/recheck.py`, `jobs/preflight.py`) | the same rows | approve, reject, look again | what a person decided is not undone by a pass that was under way |
| Destinations, credentials (`db/destinations.py`, `db/credentials.py`) | revisions, `target_epoch`, keys | create, revise, archive, purge superseded keys | a record is settled only against the identity it was made for |
| GroupDetector, Merger (`jobs/detect_groups.py`, `jobs/merger.py`, `db/merges.py`) | rows of `merge_group` and its members, `derived/` | detect, create, regroup, discard, adopt, merge, recover | a merged video stands for exactly its members, also after a crash |
| Media catalogue (`db/media.py`, `db/selection.py`, `api/routes_media.py`) | rows of `media_file` | delete derived, select, list | nothing refers to a file that is gone; the list shows the stacks that are made |
| Stacker (`jobs/stacker.py`, `core/uploads/stacking.py`) | stack columns of `upload_record`, `copresent_key`, stacks at Immich | mark copresence, pair, stack, adopt, refuse, reopen | what is recorded is there, nobody else's stack is taken apart, no refusal outlives its reason |
| Volumes, watcher (`jobs/volumes.py`, `jobs/watcher.py`) | rows of `volume_instance` and `volume_presence`, the watcher's token | refresh, probe, select, open, tick | a job reads the card it was started for; a card that stays in is counted, an approved one imported, a copy never by itself |
| MountBroker, DeviceMonitor (`src/mountd`), BrokerClient (`adapters/broker_client.py`) | handles per connection, epoch and generation of the list | list, open, close, disconnect, restart | no mount outlives its client, none is shared |
| Capture zone, recomputation (`db/capture_zone.py`, `jobs/recompute.py`, `core/timestamps.py`) | capture date, revision and zone of each media file, the page a recomputation has read | tell files and videos in another zone, recompute in pages, inherit, send again | a date fits its revision and its place, a video its first part, the library what was sent to it |
| Profiles (`db/profiles.py`, `core/profiles`) | append-only revisions | match a volume, revise | a volume is handled by the revision it matched |
| Reset (`db/reset.py`) | all tables, the trees | reset | refused while anything is live; nothing new is lost |
| Settings, sessions, login; HTTP routes, event stream; thumbnails; migrations; web client | single rows, caches | | pure I/O or single statements, see section 14 |

How they interact: the API and the watcher enqueue jobs; one worker loop runs
one handler at a time in a thread with a database connection of its own; the
handler reaches the table only through its `JobContext` (lease, cancel). The
import and the merge hand files to the publisher, whose catalogue rows the
uploader and, after it, the stack pass read; detection and merges work on the same rows. Two
`VolumeService` objects, the API's and the watcher's, ask the broker over connections of
their own and share nothing but the database. At startup, before the worker and HTTP exist, the reconciler
repairs what the last process left. Users' requests run between any two
statements of a handler.

What is hard here: every transaction boundary is a point where a user's
request, a stop, a lease expiry or a crash can interleave; files and rows are
made durable by different calls; answers of Immich are lost; cards, library and
destinations change under a running job. `PROJECT.json` lists these hazards
at the lines where they bite, each with the properties that would catch it.

## 2. Plan

1. `JobQueue` with its promise `JobLifecycle`, and proofs. *Done.*
2. `ArtifactPublisher` (publisher, importer, scanner, recovery) with its promise
   `Publication`, and proofs. *Done.*
3. `Uploads`: records, claims, side effects at Immich, approvals, recheck, epochs,
   keys, startup. *Modelled and checked*; types, `OneRecordPerPair`, `OwnRowStays`,
   `KeyInUseIsKept`, `NothingLeftBehind`, `RightLibrary`, `SendsOnlyEligible`,
   `DateFollowsCapture`, `NoUnapprovedRewrite` and that a job runs down *proved*.
4. `MergeGroups`: groups, the merge job, its publication, deletion of the result,
   recovery. *Done*; types, `MergedIsComplete`, `NothingStuck`, `EveryVideoHasAnOwner` and
   `OutputIsStable` *proved*, `OfferedFitsItsParts` where losses and errors do not meet.
5. `StackPairs` and `Stacks`: copresence, pairing, the stack pass and the comparison of a
   recheck. *Done*; types, `RecordIsTrue`, `ForeignStackKept`, that a pass runs down, and
   under hypotheses on rules and cards `ListingAgrees`, `NothingDisappears` and
   `NoPairForgotten` *proved*.
6. `MountBroker` and `Volumes`: the broker with its clients, the two services, the
   watcher. *Done*; types, `OpenedIsSelected`, `NothingLeaks` and, where the broker may
   mount every card, `TwinsWait` *proved*.
7. `CaptureTimes`: zones, recomputations in pages, videos that inherit, sends that write
   dates back. *Done*; types and all three properties *proved*.
8. Left: the trees of a reset, the pure algorithms (grouping, decision tables, profile
   matching) against reference definitions.

The order follows what is lost when a part is wrong: files first, then the
copies at Immich, then derived files, then convenience. Bounds: two or three
actors of each kind, one crash, one fault of each class; everything stated in
the guards.

## 3. The job queue

`JobQueue.tla` models the job table and the worker loop. Each method of
`JobStore` is one SQLite statement or one `BEGIN IMMEDIATE` transaction and hence
one action; each `await` of `run_forever`, `_run_one` and `stop` separates two
actions (`PCs` names the points). Several processes may be started on one data
root; `Start` is `hold_data_root`, `Sweep` the reconciler's first statement. Time
is what is left of each lease (`Tick`). A handler is any sequence of heartbeats
(`Heartbeat`) and effects in a transaction with `assert_lease`
(`FencedEffect`), returning or raising at any time. Database errors are
distinguished by where they occur: in `_settle` and `_reap` they are swallowed
(`SettleFault`, `ReapFault`), elsewhere in the loop they end the worker's task
(`LoopFault`).

`JobLifecycle.tla` is the same thing as the rest of the program sees it, without
leases or processes; `JobQueue` implements it under `phase <- status`,
`executing <- the job whose handler runs`.

`Reset` is the effect of `db/reset.py` on the job table; it happens whenever no
job is live, which allows more than the code's further refusals do.

| Run | Shows |
|---|---|
| `job_queue` | two jobs, one of an unknown type, two processes, two crashes or stops, leases of two ticks, one error in a settlement and one elsewhere in the loop: nobody ends a held job, the leases fence the table, the closing event follows the settlement, `JobLifecycle` is implemented, and every accepted job ends |

Two processes are enough for contention, two jobs for order and for a late
holder next to a new claim; `LeaseTicks = 2` separates a fresh, an expiring and an
expired lease. Nothing is symmetric, because a liveness property is checked. Deadlock is not checked because the bounded environment may stop.

Fairness: `compose.yaml` has `restart: unless-stopped`, so some
process eventually starts; threads of `asyncio.to_thread` end; a handler ends
(it is bounded by its input and its timeouts); time passes; the reap interval comes
round (strong fairness of `Reap`, which other steps enable and disable). Users,
crashes and errors get none. `EveryJobEnds` excuses behaviours with an error outside
`_settle` and `_reap` (`loopFaults`): after one of those the worker is dead until the
process restarts, which nothing guarantees.

## 4. Import and publication

`ArtifactPublisher.tla` models the publisher with the importer, the scanner and
the recovery that drive it. One action is one transaction or one system call;
between any two the process may crash (`Crash`) or the power may go
(`PowerLoss`). The file system has two faces: `disk` and `tmp` are what a process
sees, `saved`, `savedTmp` and `savedFolders` what survives; a directory entry is
durable once its directory was fsynced, and a folder once its own parent was,
which the code never does for a new library folder. The power itself is external;
the database is durable at commit (`synchronous = FULL`, `db/connection.py:49`).

- `StartScan` ... `EndScan`: `Scanner.scan`, with `_reconcile_entry` as `ScanFile`
  and `_sweep_vanished` as `ForgetEntry`.
- `StartImport`, `PickEntry`, `EndImport`, `PublishAborts`, `PublishFails`,
  `PublishInterrupted`: `Importer.run` with every exception path.
- `InsertRow`, `OpenFile`, `CopyFile`, `SyncFile`, `StageRow`: steps 1 to 7, with
  `Discard` for `_discard_writing`. `Link`, `Reuse`, `NextCandidate`, `SyncFolder`,
  `Unlink`, `SyncStaging`, `Adopt`, `Commit`: steps 8 to 11. Recovery
  (`RecoverStaged`) walks the same actions with no entry in hand.
- `SwapCard` and `Intrude` are other people: the card comes back different, a
  library file is placed or removed. They are external.

`PublishAborts` carries an `ImportAborted` too: a copy that ended early because of
a cancel. Names are sequences (`Candidate` is `candidate_paths`); two entries can
share a folder and a candidate, which `publisher_promise` uses.

`Publication.tla` is the promise: an artifact is prepared, then dropped or staged;
staged it can only be published; publishing adds to the catalogue.

| Run | Shows |
|---|---|
| `publisher` | one path, two contents and stamps, two rows, one crash, one change of the card, one library file placed or removed by others: no verified byte is lost, nothing is catalogued that is not durable, nothing is replaced, the same file gets the same name, recovery gives up only what was taken away |
| `publisher_promise` | two paths with colliding names, one crash, one error: nothing is published after a cancel, and `Publication` is implemented |

Bounds: two rows are an interrupted and a repeated publication, or two paths at
once; three names are the wanted one, the stamped one and the first
numbered one; `MaxCrashes = 1` includes a crash at any step and the whole
recovery, `MaxFaults = 1` an error at any step including recovery. `Symmetric`
permutes rows and contents, which nothing distinguishes; stamps are ordered
and stay apart. `SameFileSameName` is stated without faults and removals,
because both legitimately give a file a second name; its proof asks for durable folders,
because one that a power loss takes frees all its names.

Liveness of publication is not stated: it would need a restart after every error
of the job, which only a user gives.

## 5. Uploads

`Uploads.tla` models one destination with everything that moves its upload
records. A step is one transaction of `db/uploads.py`, or one request to the
server with what it does there; requests of users, the outside world and a crash
come between any two. The worker runs one job at a time, which `JobQueue`
promises.

- State: `records` (the rows, with claim and epoch), `revisions`, `current`, `keys`,
  `enabled` (the destination), `basis` and `captured` (what the catalogue says of a
  media file: whether it may be sent, and its date), `job` (the worker's local
  variables: where it is, the row in hand, the state it left it in, the revision and
  the date it has read, the preflight cache, the last reply), `remote` (what each
  Immich library holds).
- `Requests`: creating pairs, retry, reject in its two steps, an edit of the
  destination and the purge of keys after it, the switch, zone changes, merge groups
  that take a file out of the selection, cancel.
- `Head` ... `Retries` are `Uploader.run`, `_one` and `_steps`; `Guarded` enters
  `_guard`, whose three looks are `Prepare`, `Preflight`, `Reassure`; a tag is found,
  created if need be and put on the asset (`FindTag`, `CreateTag`, `TagAssets`), each
  request behind a guard of its own, and one tag stands for all; `Approves` and `Rechecks` are
  `ApprovalService.approve` and `Rechecker.run`; `Release` the `finally` clauses.
- `World` is everybody else: another client that uploads or deletes the same file,
  another library behind a url, a lease or claim that runs out, a restart of the
  process with what `Reconciler._settle_uploads` does (under `Wired`).
- Every answer may be lost, before or after it took effect (`Lost`, `AnswerLost`).

| Run | Shows |
|---|---|
| `uploads` | create, retry, edit, switch, merge groups, cancel, expiry and restart against two jobs, and zone changes, recomputation, reject, other clients and a lost answer against an upload or an approval: no pair twice, no row left behind, no byte sent under a rule that did not hold at the last look, the date of a complete row is the date of now, the worker's row stays its own |
| `uploads_targets` | two libraries and two urls, edits, a swap, approvals, a lost answer, another client who deletes and uploads: requests go to the library of the row's epoch, keys in use stay, and the date of an asset somebody else stored changes by an approval only, or where it took the place of one of ours (`mistaken`) |
| `uploads_live` | two media, a profile that writes no dates, a lost answer, a group edit, the switch: every upload job ends |
| `uploads_unwired` | violation: without `Wired`, which is how `api/app.py` builds the reconciler, a crash leaves a row nobody claims |

The exceptions in the properties are histories. `late` says that a file ceased to be
eligible after the last look at it (`SendsOnlyEligible`). `mistaken` holds the places in a
library where what somebody else stored may pass for ours: an asset of ours was deleted
there (`OtherDeletes`), or an answer about the record came from another library than the
preflight had seen behind the url (`Strays`). The bounds of `uploads_targets` afford both,
and `NoUnapprovedRewrite` says that nowhere else a foreign date is rewritten unasked.
`ForeignDatesKept` is the statement of `src/docs/design.md:1354-1357`, without the history;
the code does not keep it (section 11).

The passing runs take `Wired = TRUE`: what the code does when
the reconciler is given the repositories, which its own tests do.

Bounds. `Budget` gives how often each kind of event may happen in a behaviour
(jobs, faults, expiries, switches, edits, moves of a date, groups, other clients,
swaps, restarts); an initial state chooses one of the run's set `Budgets`, and each names only the
events that race each other, once or twice each. One media file is enough where
rows are compared with themselves over time, two rows are an invalidated one and its
successor; two media are taken where one record can hold up another. Two
attempts tell a retry from a failure. Libraries and urls are symmetric.
A lease or claim may expire at any step, which covers that the beats of
`with_lease_pulse` keep the lease alive but not the claim. Deadlock is not checked:
the budgets run out.

Fairness (`uploads_live`): the worker's thread runs on, `WF_vars(Working)`. Users,
faults and restarts get none.

Left out: several destinations (their rows never meet), the queue of jobs (`StartSend`,
`StartApprove`, `StartRecheck`: a queued job begins), progress, `remote_checked_at`, the trash flag,
how many tags there are, the pass of the stacker (section 8). Archiving is the switch
turned off. A library file that is missing leaves the selection like a member of a
group does. A recheck that finds another asset in the place of ours takes it over with the
date it has (`db/uploads.py:760-767`): nobody has written that date, so the row stops
claiming to have done so (`ending`). A recomputation is one atomic step between jobs (its steps are in `CaptureTimes`). The preflight cache
lives as long as the job: its time limit only makes `preflight` look more often.

## 6. Split videos and their merges

`MergeGroups.tla` models the groups with everything that reads or writes them. A step is
one transaction, or one system call where the result is published; jobs run one at a
time; requests of users come between any two steps, and an edit that reads the profile's
revision before its transaction (`_digest_of`) is two steps, `ComputeDigest` and
`CreateManual` or `Regroup`.

- State: `groups` (with members, `superseded_by_id`, verdict, digest and output), `videos`
  (derived media files), `files` (the tree `derived/`), `rows` (staging rows of merges),
  `upload` (the valid record of each media file, as `Uploads` moves it), `revision`,
  `job`, `request`, `unlinking` (a deletion after its commit and before its `unlink`).
- `StartDetect`, `SaveDetected`: `GroupDetector` with `save_detected`. `StartMerge` ...
  `MarkMerged`: `Merger.run` with each way out of it and `publish_prepared`, whose steps 8
  to 11 are `Link`, with the names of a collision, and `Commit`.
- `Restart`, `DiscardWriting`, `ResumeLinking`, `ResumeCommit`, `ResumeFails`,
  `SettleMerges`: what `Reconciler.run` does for merges.
- `Offers` is `SelectionService.selectable`, `Counted` the clause the dashboard counts with.

Run `merges`: three parts of one recording, of which users also join the first and the
last, which gives the merged file the same name; two merges, two edits, and beside them
detection and a saved profile, or an error and two restarts, or uploads and a deletion,
or a lost file and a restart. What is offered as a video is made of the parts its group
has now, under today's rules, and none of them is offered beside it; a merged group is
complete and keeps its video; no group is left merging with nothing that would end it; no
video loses its last group. Two restarts are needed to interrupt a recovery; three
groups are an old one, its successor and a competitor.

Out of this model: how a group is detected (any chain of neighbours), ffmpeg and probes
(any verdict; two different files may come of the same inputs), an error in `mark_merged`
after the commit, and files of other people in `derived/`.

## 7. Cards, volumes and the broker

`MountBroker.tla` is `mountd` with the connections of its clients, `Volumes.tla` the two
`VolumeService` objects, the watcher, the rows they share and the job that opens a card.
The hardware moves by itself (`Insert`, `Remove`): a card enters or leaves a node between
any two steps, and two cards may have one identity. The broker learns of it only when
it looks (`Observed`: the generation grows when two looks differ). `Open` is its first
look, `Mount` the mount command, which takes whatever is behind the node then, `Verify`
the second look. `RefreshList` ... `RefreshAborts` are `VolumeService.refresh` with its three
passes; `Tick`, `InvalidateGone`, `EnqueueReady` a round of the watcher; `Look` and `Choose`
the routes that select a card; `Claim` ... `Release` the job that runs.

Run `volumes`: two nodes, two copies of a known card and a card the profile recognises
only after an edit. Seven initial states (`MCStarts`) combine cards that are in, rows the
last process left and events: up to three moves, a mount error, a restart of either
process, an edit, an approval, a look of the screen, an idle connection. A card that is
read has the identity that was asked for; no handle stays behind; copies are not imported
by themselves, if no card is refused and the screen does not look in between; a card that stays in is counted and, if approved, imported, whatever
happened before.

Fairness: `WF_vars(WatcherStep)`. The watcher is a task of the application that polls for
ever and goes on after an exception (`jobs/watcher.py`); the broker's part of a call it
waits for belongs to the step. Screen, job and users get none. The two liveness properties
excuse a behaviour in which the screen looked or a mount failed (`Undisturbed`):
`volumes.py:184` ends a refresh at the first card that is refused, and `watcher.py:121` has
remembered the token by then. `EveryCardIsCounted` in section 11 is the statement without
the excuse.

Limits of the code that the properties respect: an exchange of two copies that nobody
observed in between cannot be noticed; a card that is exchanged and put back within one
mount call escapes both looks of the broker, so that `OpenedIsSelected` excuses it
(`Move` notes it in `spent`, and it ends `Undisturbed` as well); it takes four half-moves, one
more than any initial state of the run affords, and the proof covers it; a copy that the screen's
refresh reflects while the watcher's verdict is still `high` breaks `TwinsWait`, which is
why it too is stated for `Undisturbed`. A row the broker no longer lists as it is does not
count there: a refresh that ends early may leave such a row live, and the import queued for
it finds no card. The rows an initial state starts with are those of a broker that is gone
(`epoch = 0`). A verdict carries the revision current when it is
written, not the one it was made with. The digest a volume is remembered by is of the
names below the scan roots of the profile that matched, or below `DCIM` if none did
(`Listed`): a card is listed differently once it is recognised, and once an edit moves the
roots. Then a trusted card of which nothing was published yet falls to `low` and is
imported only after it was seen once more, so that `TrustedIsImported` speaks of cards
that every revision lists as they are remembered.

Abstractions: `AUTO_IMPORT` is `trusted`; one profile; the names on a card stand for the
card, so that one a camera has written to is another; cards without a UUID, and the
`detect_groups` job after an import, stay out; one request of the screen at a time; the
order in which cards are probed and jobs claimed is arbitrary; the restart of the broker
is one step; only the API's connection is idle long enough to be dropped.

## 8. Stacks

`StackPairs.tla` says which files are one shot: `source_entry` with the mark a scan leaves
(`copresent_key`), cards whose files are shot, replaced, scanned to the end or half, and
imported; the rule of the stack pass (`Group`, `core/uploads/stacking.py`) and the same
rule in SQL for the list of photos (`MembersOf`, `Hidden`, `api/routes_media.py`).

`Stacks.tla` is the pass that follows an upload (`jobs/stacker.py`) and the comparison a
recheck makes (`jobs/recheck.py`). `Take` reads a record, its rule and its group; `Guard` is
`_guard` before every request; `Look`, `Find`, `Post`, `Put`, `ReadBack` are the requests;
`Record` is `mark_stacked`, `Refuse` `mark_skipped`. `Stop` ends the job at any step: an
unreachable server, a lost lease, a cancel, a crash. `Stamp`, `Groups`, `Compare`, `Reopen`
are the recheck, which without complete records goes to the stacks at once. Between any two of them requests come (`Retry`, `EditProfile`, `MoveDate`,
`SetUsable`), scans (`Evidence`) and other users of the library (`UserStacks`,
`UserDissolves`, `UserDeletes`, `UserUploads`). What the server does with stacks is taken
from the double the project tests against (`src/app/tests/fake_immich.py:328-346`).

| Run | Shows |
|---|---|
| `stacks` | six worlds: one or two cards with the JPG and the RAW of a shot; two passes under a request and an act of others, under a scan, under two requests; one under a scan and a request; one pass over a JPG that is on two cards; the cards alone. What is recorded is a stack of the library; a pair that could be stacked is not left refused (two passes over a shared JPG and rules of three extensions excluded: section 11); nobody's stack is changed that stood when the record was taken; the list declares the stacks the pass makes and hides no file for good; every pass and recheck ends |
| `stacks_retry` | violation: a retry takes one record out of a stack and leaves the other, which then can never be stacked again by a pass |

The exceptions in the properties are histories: `touched` are stacks other users changed
(`RecordIsTrue` then waits for the recheck), `fresh` those since the record was taken
(`docs/design.md:1615-1630` accepts the absorption between `GET` and `POST`), `torn` those
the retry of `stacks_retry` broke, `late` records whose evidence came after the refusal.

Fairness: `WF_vars(Pass \/ Recheck)`: the worker's thread runs on. Bounds: a group of
two files has every case of the pass but the order within it; assets and stacks share a
counter, so that no id comes twice; two passes are one that is interrupted and the one
that picks up; one act of another user between any two steps.

Abstractions: one destination; records in any order, each read as it is when its turn
comes (their ids are those of the sending requests; the code goes forward by id in
batches, so that a batch may hold a record that has changed, which `Take` reads again); the reads of `_one` are one step, as are a sending, and the bulk check with
its stamps; one profile; a `POST` of a process whose lease has run out is not modelled.

## 9. Capture dates

`CaptureTimes.tla` models how the capture date of a media file comes about and where it
goes. A date is an instant and the zone its wall clock is told in. The originals are the
parts of one take under one profile; `Clock` is what the camera's clock said, `Defs` the
revisions of the profile with the zone of that clock and whether dates are written back.
A step is one transaction or one request; jobs run one at a time; requests come between
any two steps.

- State: `media` (date, revision, given zone, and whether a card entry still has the
  name), `group` (the newest group of the parts), `staged`, `records`, `written` (the
  date we last put into the library), `revision`, `job` with the page it has read.
- `ZoneOverride` is `apply_zone_override`: videos stand for their members (`Chosen`), busy
  files refuse the request (`Busy`), the video is told what its first part says
  (`Inherited`), what was sent goes back to be sent (`Requeued`).
- `StartRecompute` ... `EndRecompute` are `Recomputer.run`: originals first, videos after
  them, each in pages; `ReadPage` reads rows outside of any transaction, `WritePage` writes
  what was resolved from them, `InheritPage` resolves and writes in one transaction.
  `StopRecompute` ends it between any two steps.
- `SaveDetected` and `CreateManual` make a group, `Supersede` replaces it by one of the same
  parts, `Discard` ends it without a successor; the latter two share what `_assert_editable`
  refuses and what is invalidated (`EditGroup`). `StartMerge` ... `MarkMerged` are the merge
  as far as dates go, `PublishInterrupted`, `Restart`, `Resume`, `SettleMerges` its
  interruption and recovery.
- `Claim`, `PutDate`, `FinishPlain`, `FinishWritten`, `FailSend` are a send: the date is read
  at the claim and written later, or, where none is to be written, the record is completed
  at once (`FinishPlain`).

Run `capture`: two parts, two zones, three revisions (the camera's zone is corrected, then
the profile stops writing dates), pages of one file, two groups. Six budgets: two edits and
two zones around a recomputation that may stop and a file whose name is forgotten; two edits
and a zone around a recomputation, with a send and a restart; two merges, one interrupted,
with a stop and a restart; and a merge beside a zone, a recomputation and a send, beside a
recomputation and two sends, and beside a zone and two sends, one of which may fail. Every original has the date its revision and place make of it;
a complete record has the date of the catalogue in the library; a video in force follows
its first part.

Two parts and pages of one file put something between the pages of a pass; two groups are
a video that is out of force and one that replaces it; three revisions are one a row was
resolved under, one a job was asked for with and one that is current.

The exceptions in the properties are histories. `passing` are originals whose zone was
recorded without moving the date between their page and its write (`PlaceIsKept` in section
11 is the statement without it). `mute` are records whose medium moved under a revision that
writes no dates (`NeverWrittenStays`). `behind` is a video a recomputation or a resumed
publication left with another date than its first part: the first pass moves the part alone
until the second has come to the video, and if it is cancelled in between the video stays
behind; a recovery publishes the date the merge had read before; a second merge that finds
the catalogue row of the same name takes it with its old date (`adapters/publisher.py:494`).

Abstractions: one clock for all originals; the groups of the parts have the same members
and the same members make the same file; a group that was discarded may be made again at
once, where the code first wants its discarded row deleted (`MergeGroups` has that); a request that changes nothing is left out; the
default rule of the profile; only assets of our own (approvals are in `Uploads`). Deadlock is
not checked: the budgets run out. Liveness is not stated: a recomputation ends because a
pass reads each row once.

## 10. What is proved

The proofs, in eight modules, follow one argument: an inductive invariant `IInv` (checked by
TLC as an invariant before it was proved; `TypeOK` and `IInv` are proved and therefore in no
run), one lemma per action or kind of action that it is preserved, and one for stuttering;
the listed theorems follow by PTL. A further invariant that a property needs is proved on top
of `IInv` in the same way, with a theorem of its own. They hold for every value
of the constants that the named assumptions allow (`JobQueueAssumption`,
`PublisherAssumption`, `UploadsAssumption`, `MergeAssumption`, `StacksAssumption`, `StackPairsAssumption`,
`BrokerAssumption`, `VolumesAssumption`, `CaptureTimesAssumption`: types of the bounds, distinctness of the
null values).

`JobQueueProofs.tla`: `OwnedRowIsLive` is not inductive by itself. A sweep is
harmless only because no other process is up (`OnlyTheHolderIsUp`); a WHERE
clause on a token reaches one row only because tokens are unique and below
`nextToken` (`TableIsFenced`); the closing event needs the failure to be on
record while it is being written (`FailureIsWritten`); and a job is handed over
once because claimed implies never handed (`HandedOnce`). `Refinement` shows that
every step is a step of `JobLifecycle` or a stutter.

`ArtifactPublisherProofs.tla`: the safety of staged bytes rests on where they are at
each step (`BytesAreSomewhere`), on which row and entry the process has in hand
(`InHand`, `RowsAreFilled`), and `NothingAfterCancel` on a staged row of the job
being in hand or the job having failed (`StagedIsAccountedFor`). `Refinement` to
`Publication` has the hypothesis `OwnLibrary`: nobody else writes to the library
and its folders exist; without it the findings above are counterexamples.
`LibraryImmutable` needs no hypothesis. `SameFileSameName` is about the whole history of a
name; what makes it inductive (`SteadyNames`) is why a row may move on to its next
candidate: another file durably has the name (`SkippedForAReason`), which stays so
(`DurableStays`). That the file is durable, not just visible, holds because at most one row
is past the point of no return and unfinished (`OneStaged`), so that the only link a power
loss can undo is that row's own (`OnlyItsLinkIsUnsynced`), and this one it would not pass
over. `SameName` has the hypothesis `FoldersKnown`: no library folder is new.

`UploadsProofs.tla`: `OwnRowStays` and `NothingLeftBehind` need to know which steps
have a row in hand at all, which job may be at which step (`PcFits`), and that the
row in hand carries the job's number and revision and an active state (`InHand`):
requests act on rows that are not active, and a restart ends the job with them.
`RowsFilled` keeps an insert from taking a row that a job or a recheck has read.
`KeyInUseIsKept` is inductive once the current revision has its key (`KeysKept`); the
row an approval is about to claim keeps the revision it was read with because nobody
but a claim changes it. `FirstAnswer` gives the first verdict of the server a value when
the origin of an asset is told from it. The lemmas of the first half say what keeps the invariant:
a step that leaves rows alone (`Elsewhere`), rows that change in the background
(`Background`, with `Gentle` saying what others may do to a row), a row that is
written in hand (`Written`) and one that is let go (`LetGo`); the actions are cases of
these. `LeftBehind` has the hypothesis `Wired`: without it `uploads_unwired` is the
counterexample. The inductive invariant has `Wired` in front of that one conjunct, so
the other theorems hold for the program as `api/app.py` builds it, too.

`UploadSendsProofs.tla` adds three parts to that invariant, each inductive given it.
`TargetsFit`: a row carries a revision of its own epoch and none to come (`RevisionsFit`), and
what the preflight cache holds is no newer than the revision the job is at, so that only a
swap can have made it wrong (`VerifiedFits`); an edit that makes a new revision is harmless
to a job whose row keeps the old one. `SendsOnlyEligible` is inductive beside the invariant:
what could make the media ineligible between the last look and the first byte sets `late`.
`DatesFit` is what `DateFollowsCapture` needs: an asset id is given out once (`AssetsFit`) and a
recheck looks at a row once (`SeenFits`), or a row could be settled with the date of another
asset; nobody waits for a date that the profile does not write (`DatesAreWanted`); the date a
job has read is the catalogue's as long as it will be believed (`DateInHand`), because whatever
moves a date sends a row that is complete back and is noticed by one that is in hand; and once the
request has arrived the asset has that date (`DateArrived`). `AssetNew`, `AssetDated`, `RowKept`,
`RowNew` and `JobStays` say what the requests and the others leave alone.
`ApprovedOnly` has no hypothesis about the world: what other clients and urls do to it is in
the history `mistaken`. Outside the places it holds, a row that says `created_by_us` names an
asset that is ours, in the library of the row's epoch (`OriginsFit`), which is one library
whatever revision the row carries (`EpochsFit`); a created answer is of
the asset in hand (`CreatedFits`), and what a job is told of an asset of ours, and has in hand
until it is committed, is ours (`ReplyOurs`, `HandOurs`); and the row in hand while a job fixes
a date says `created_by_us` (`FixesOurs`), so that what it writes to is what that row names.
`RecordsRunDown` is the part of `EveryUploadJobEnds` that needs no fairness. Every step of the worker
ends the job, is further on with the record in hand (`Phases`, and within one `Places`), or
lets the record go (`SetDown`) such that this job claims it again only with an attempt more, and
never with the last one; requests, expiries and other users leave a job where it is. It rests on
which answer a job can have at which commit (`StepsFit`).

`MergeGroupsProofs.tla`: nothing in the code says that a group has one staging row at most,
that it has no output before that row is published and the row's name afterwards
(`RowFits`), yet the four properties rest on it: a commit takes over the video of a name, and
only because names are unique (`NamesFit`) and a group's rows carry its own ends is the video
it takes over the one the group has already. A group that can be merged therefore has no
output and no row (`StatusFits`), which every way out of the job must restore (`JobEnds`). At
most one group in force has a given video, because two would share their first part
(`OwnerInForce`): the owner `CHOOSE` finds is that group (a least element of `Pointing`, from the
well-foundedness of the naturals), and deleting the video discards it. `NothingStuck`
needs to know in whose hands a merging group is while a job or the recovery is at work
(`MergingFits`, `WritingFits`). The lemmas on the tables say what a new status, a new group, a
new row, a commit and a deletion leave (`StatusTables` ... `DeleteTables`); the actions are cases of
these.

`OfferedFits` is about files, and files outlive their groups: an interrupted row is resumed by
any later start, whatever has become of the group. `Sound` says that the file under the name of a
group in force is made of its members (`FilesFit`) and that digests, revisions and files follow
each other (`RevsFit`), for one of two reasons. Either every file that was published is there
(`Intact`), so that linking at a taken name fails (`EEXIST`) and an old row can come to lie nowhere; or the job and
the recovery leave nothing behind: at most one publication is unfinished (`OneWaits`), it is resumed
before anything else happens, and no other file claims its name (`NoRival`, `Orderly`). The
theorem's hypothesis `Separate` says that one of the two holds of every budget: it has no error
inside a publication (`fault`), or neither a lost file nor a deleted video. Crashes,
restarts, edits, saves and uploads are unlimited in both. All budgets of `merges` satisfy it, and
the hypothesis cannot be dropped: section 11 shows what happens with an error and a loss, or an
error and a deletion.

`StacksProofs.tla`: `RecordIsTrue` has to survive every step between the stack at the
server and its record. Stacks are disjoint and their ids are their own (`StacksFit`); an asset
belongs to one media file (`AssetsFit`), so that the assets of a group name its files; once
the first guard has passed no file of the group is in a recorded stack, unless the
records moved and the job will find out (`GroupIsFree`); what the job remembers of the server
was there when it looked, or others have touched it since (`LookIsFair`, `PostIsClear`); the
stack in hand consists of the group's assets (`PutIsOurs`), is recorded nowhere
(`StackIsUnrecorded`) and has the right primary when it is recorded (`RecordIsReady`). The
lemmas of the first part say what a loss of assets and a new stack leave of the others
(`WithoutIsFit`, `StackedIsFit`, `StackedKeeps`). `ForeignSafe` follows from two of the
conjuncts: `POST` absorbs only stacks led by an asset the job saw free, and `PUT` changes the
stack in hand alone. The two theorems on the list of photos compare a query with a
function, state by state; the only invariant they need is that a content is of the extension
its path has (`EntriesFit`). Their hypotheses are what they are for. `ListingTrue` wants one file
per name and extension on a card (`OneFilePerName`: with two, the last row decides in
`core/uploads/stacking.py:120-124` and any row in SQL) and enabled rules that name every extension
there are media of (`RulesAreWhole`: of a removed extension, SQL calls two files ambiguous).
`ListedSomewhere` wants rules of at most two extensions (`ShortRules`); section 11 shows three.

`NoneForgotten` has both, and that no content is on two cards (`Apart`); section 11 has a
counterexample without `ShortRules` and one without `Apart`. Then "one scan has met both and a
rule names both" (`Joined`) is all the local rules ask besides both being sent, and it is
inductive that of two such records that are refused one had its evidence late
(`RefusedApart`). A refusal is decided when the record is taken and written later: what was
missing then is missing still, because nothing is sent while a pass runs, or is evidence that came
late, or an edit has moved the revision and the write does nothing (`RefusalIsFair`); and one that is sent later has no refusal yet, so that the pass that takes it finds
the refused partner ready for the two to be a group. `PassRunsDown` is the part of `PassEnds` that needs no fairness: whatever
changes a running job ends it, is done with a record more, is further on in `Stages`, or
leaves one answer less to ask for, and the records to ask are never used up early (`HandFits`).
With finitely many media a pass and a recheck have a bounded number of steps; fairness is
needed only for each of them to be taken.

`VolumesProofs.tla`: `OpenedIsSelected` is about cards, the broker compares identities.
What carries it is `MountFits`: as long as a mounted tree shows another card than the
listed one, the node does not show the listed one, so that the second look refuses; only
the exchange that `Exchanged` describes breaks it. A call belongs to whoever waits for it
(`CallFits`), and a job that opens keeps the API's service out of its connection
(`JobFits`), so that a job never takes the answer to a probe. `NothingLeaks` follows from
`HandleFits`: a handle is there for an answer that is under way or for the job that runs.
`ServiceMoves` says what a step of a service that waits for nothing leaves alone; most
actions of a refresh are cases of it. `TwinsWait` is about two lists that are read at two
times. No row and no list is ahead of the broker: each is past, or one of its views of now
(`RowsCurrent`). While nothing disturbs the watcher, the rows that are live while it judges
are those of the list it judges (`OneList`), a volume that was refused is past
(`RefusedIsPast`), and a row of an identity that two have is low, or past, or still to be
judged, or will be listed again (`TwinsLow`); only the first two are left when imports are
queued. It needs `AllAllowed`, that the broker may mount every card: a
refusal ends the refresh between remembering the token and judging the pair. Nodes, cards, identities, revisions and initial
states are arbitrary; the two clients are those of the program.

`CaptureTimesProofs.tla`: none of the three properties is inductive. A recomputation writes
what it made of an older reading, so the date of every row it has in hand must still be the
date it read (`PageIsFresh`), which holds because what would move one is refused; the
instant of an original must be its revision's even where the zone is not (`InstantsStay`),
so that the next zone that is given repairs it. `SentIsTold` needs that a record in hand
keeps its medium's date (`SendInHand`) and that a row of the catalogue that appears has no
record yet (`RecordsAreOfMedia`). `VideosFollow` needs that what is staged is of an older group
or of one that is merging (`StagedFits`), that the merge of a group nobody edited has the date
its first part still has (`MergeInHand`), and how far the second pass has come (`PassFits`).

Not proved, only model-checked: the liveness properties `EveryJobEnds`, `EveryUploadJobEnds`,
`CardIsCounted`, `TrustedIsImported` and `PassEnds`. Liveness under fairness, ENABLED, and
induction over data are outside the prover's reach. Every invariant and every
action property of the passing runs is a theorem; those with hypotheses beyond the assumptions
on the constants are `NothingLeftBehind`, `OfferedFitsItsParts`, `TwinsWait`,
`ListingAgrees`, `NothingDisappears`, `NoPairForgotten`, `SameFileSameName` and the refinement to
`Publication`, each named above with what happens without it. The runs check them as they
are, by constants that satisfy the hypothesis or by bounds that keep its counterexample out.

## 11. Disagreements found

The two violation runs check statements that a comment makes and TLC refutes;
`PROJECT.json` quotes them. The modules state further properties that the code does not
keep; TLC refutes each of them when it takes the place of the properties of the
configuration given here, with the changes given here.

| Property | Configuration | What happens |
|---|---|---|
| `StopReachesTheHandler` | `job_queue` | `stop()` looks at `_current`, which is set only after `await to_thread(connect)` (`jobs/runner.py:134-138`); arriving in between it cancels nothing, and the handler runs to its end, against the docstring at `:52-53` |
| `CancelIsNotFailure` | `publisher` | a cancel noticed in fsync or ffprobe (`core/lease_pulse.py:74`) reaches `except Exception` of `Importer.run` and fails the job, against `api/jobs_wiring.py:116-119` |
| `CatalogueTellsTheBytes` | `publisher` | `_commit` reuses the row of a name whose file was removed (`adapters/publisher.py:494`) with its old SHA-1, against `src/docs/design.md:583` |
| `InterruptedEntriesRunAgain` | `publisher` | an entry whose import died before its row was staged stays `importing` and is skipped by `PENDING_CLAUSE`, against `src/app/tests/test_crash_consistency.py:64-65` |
| `PublishedSurvivesPowerLoss` | `publisher`, `KnownFolders <- MCNoFolders`, no swaps, no intrusions | a new library folder is made at `adapters/publisher.py:445` and its parent never fsynced, which `:226-228` does for staging; `:460` says what is lost then |
| `OnePublicationPerEntry` | `publisher`, `MaxCrashes = 0`, `MaxFaults = 1`, no swaps, no intrusions | after `PublishInterrupted` a scan finds the entry `importing` and makes it new (`jobs/scan.py:213`): the file is published again beside the staged row, against `adapters/publisher.py:76-79` |
| `NothingStranded` | `uploads`, `Budgets <- MCStranded` | `requeue_sent` has no condition on the epoch (`db/capture_zone.py:259-263`): a complete row of an old epoch becomes one that waits for ever, against `db/uploads.py:693-695` |
| `ClaimedRunsOn` | `uploads`, `Budgets <- MCEdit` | an edit invalidates the record a job has claimed (`db/destinations.py:321-330`); `src/docs/design.md:681` says it runs to its end on its revision |
| `PairsAreIndependent` | `uploads_live`, `Budgets <- MCPairs` | an OSError of the library file is none of the errors `_one` handles (`jobs/uploader.py:260-279`): the job ends, its record stays first in line, against `db/uploads.py:4-5` |
| `EveryClaimIsEnabled` | `uploads`, `Budgets <- MCDisabled` | `claim_for_approval` looks at the record only (`db/uploads.py:629-645`), so an approval writes to a destination that was disabled, against `src/docs/design.md:1753-1759` |
| `ForeignDatesKept` | `uploads_targets` as it is, or `uploads`, `Budgets <- MCReplaced`, `MaxAssets = 3`, `MaxRecords = 1`, one url | `created_by_us` is kept (`jobs/uploader.py:339`) although our asset was deleted and somebody else uploaded the file: its date is rewritten without approval, against `src/docs/design.md:1354-1357` |
| `ForeignDatesKept` | `uploads`, `Budgets <- MCSwapped`, `Libraries <- MCLibraries` | a row we created is claimed again, and after the preflight's answer another library comes up behind the url: the answer is cached for the job (`jobs/preflight.py:62-64`), the check finds the asset somebody else has there, the row keeps `created_by_us` (`jobs/uploader.py:339`), and the date of that asset is rewritten |
| `CountedCanBeSent` | `merges`, `Budgets <- MCSaved` | the profile is saved between `_digest_of` and the transaction: the group has the new revision and the old digest, is counted and can never be sent; `db/selection.py:65-70` and `db/merges.py:269-273` say it cannot be |
| `DeletedStaysDeleted` | `merges`, `Budgets <- MCDeleted` | `delete_derived` leaves the published staging row; the next start selects it (`jobs/reconcile.py:158-164`) and inserts the media row again, without its file, which `db/media.py:136-138` means to rule out |
| `OfferedFitsItsParts` | `merges`, `Budgets <- MCOlder` | a merge is interrupted by an error, its group edited between the same two ends, and the process stops in the merge of the new group. The next start resumes the second row before the first (the query at `jobs/reconcile.py:158-164` has no order, and after an error the first waits for another start), and the second's file is lost: the name is free, the first row is linked there and takes over the catalogue row (`adapters/publisher.py:494`), and the new group is offered with the file of the one it replaced. An error and a deletion do the same: `delete_derived` removes the file after its transaction (`db/media.py:166-168`), by then the file of a new merge of the same name |
| `PlaceIsKept` | `capture`, `Budgets <- MCPlace` | a zone that is recorded without moving the date is not looked at for being busy (`db/capture_zone.py:97-101`): between the reading and the writing of a page it is accepted, the row keeps the new zone and gets the date of the old one, against `jobs/recompute.py:181` and `src/docs/design.md:311-317` |
| `NeverWrittenStays` | `capture`, `Defs <- MCLateDefs`, `Budgets <- MCLate` | whether dates are written back is asked of the revision the date was resolved under (`db/capture_zone.py:179`), the uploader asks the current one (`jobs/uploader.py:257`): the library keeps the old date we wrote, against `db/capture_zone.py:245-247` |
| `OnlyTheGoneIsDetached` | `volumes`, `Starts <- MCLooking` | `refresh` takes its list before its transaction (`jobs/volumes.py:161`): the older list of one service detaches a card the other has just written, the case its comment at `:163-167` describes |
| `EveryCardIsCounted` | `volumes`, `Starts <- MCForeign`, `Allowed = {"a"}` | a filesystem the broker refuses ends the refresh (`jobs/volumes.py:184`) and the token is remembered already (`jobs/watcher.py:121`): the card listed after it is never judged; `jobs/volumes.py:3` and `src/docs/design.md:860` judge each volume for itself. A mount error, or a card pulled and put back within one mount, has the same effect |
| `TwinsWait` | `volumes`, `Starts <- MCForeignTwins`, `Allowed = {"a"}`, a third node `"n3"` | the copy of a trusted card and a stick of another filesystem are put in: the stick ends the refresh before the two copies are judged (`jobs/volumes.py:184`), the token is remembered already (`jobs/watcher.py:121`), and the next tick queues imports of both with the confidence `high` of before, against `src/docs/design.md:555` |
| `NothingDisappears` | `stacks_retry`, `Exts`, `Paths`, `Media`, `Kind`, `Rules`, `Worlds <- MCThree...` (`MCThreeExts`, ..., `MCThree`) | a rule of three extensions and two cards that share the file of the second one: the file of the third is hidden behind it, and it is hidden itself, so that no tile leads there, which the comment at `api/routes_media.py:80-83` means to rule out |
| `NoPairForgotten` | `stacks_retry`, `Worlds <- MCSharedTwice` | a RAW is refused because its JPG is not there yet; the pass that follows the JPG's upload finds it ambiguous, as it is on two cards, and refuses it without opening the RAW, for which the two are a pair: "not now" (`db/uploads.py:1004-1005`) is for ever |
| `NoPairForgotten` | `stacks_retry` with the `MCThree...` of above, `Worlds <- MCThreeLost` | a rule of three extensions and one shot in all three: another user has uploaded one of the files, so that the group is refused; he deletes it, and a recheck takes its record back (`Stamp`). The other two are a pair by themselves and stay refused: a record that is gone opens the stack it was in, not the refusals it was the reason for |
| `SameFromEveryMember` | `stacks_retry`, `Worlds <- MCShared` | the same JPG on two cards with different RAW files: the RAW has a partner, the JPG is ambiguous, against `core/uploads/stacking.py:159` and `src/docs/design.md:1506-1507` |
| `PartnersHaveMet` | `stacks_retry`, `Worlds <- MCShared` | an entry that waits for its import keeps its mark (`jobs/scan.py:226-227`) when the file at its path is exchanged: two files are partners that no scan has met together, against `src/docs/design.md:440-443` |
| `NoEvidenceIgnored` | `stacks_retry`, `Worlds <- MCScanned` | a pair refused because no scan had met it is met by a later one, and nothing opens the refusal; 9.11 of `src/docs/design.md` has refusals mean "not now" (`db/uploads.py:1004-1005`) |

Two more, seen while modelling and not stated: the two cases that the hypotheses of
`ListingTrue` rule out (two files of one name in two cases on a case-sensitive card, and a rule
that was narrowed: section 10), in which `ListingAgrees` would fail.

## 12. Abstractions

Files are contents and stamps, so `quick_fingerprint`, which samples a file, is
exact here. Formats, metadata and thumbnails are left out. Not enough space and
the errors at the very start of an import change no state and are left out.
SQLite is external: a statement or immediate transaction is one durable step. Each
model is of one component with the promises of its neighbours in place of their
code: jobs one at a time (`JobQueue`) in all of them, publication at the grain of
`Publication` in `MergeGroups`, the states of an upload record in `MergeGroups` and
`Stacks`, an import as one step in `StackPairs`. What sections 3 to 9 name as left out
is left out on purpose; nothing else of the mapped lines is.

## 13. Mutants

Definitions whose comment starts with "Fault:" are plausible bugs of the code,
used to show that each property can fail; the specifications do not use them.

## 14. Not modelled

- Settings, sessions and login: single statements on single rows. Thumbnails can be made
  again. Fingerprint, manifest, EXIF and ffprobe read bytes. The web client renders what
  the server says. Migrations run before anything else.
- The other HTTP routes call one repository method each; the event stream reads only.
- The filters and pages of the list of photos, of uploads and of orphans: queries without
  state, of which only the stacks of the list are modelled.
- Immich itself beyond the requests `adapters/immich.py` makes of it, and ffmpeg.
- The emptying of the trees after a reset, which happens when the job table is open again
  (`db/reset.py:145`).
