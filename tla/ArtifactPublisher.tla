------------------------- MODULE ArtifactPublisher -------------------------
(***************************************************************************)
(* How files get from a card into the library: the publication protocol    *)
(* (adapters/publisher.py), the import and the scan that drive it          *)
(* (jobs/importer.py, jobs/scan.py), and the recovery at startup           *)
(* (jobs/reconcile.py).                                                    *)
(*                                                                         *)
(* One process, and in it one job at a time: JobQueue shows both.  Every   *)
(* statement or transaction of the database is one action and durable when *)
(* it commits (synchronous = FULL); every system call on a file is one     *)
(* action, and a directory entry survives a power loss only after its      *)
(* directory was fsynced.  Between any two of them the process may crash.  *)
(*                                                                         *)
(* A file on the card is what is in it and the stamp of its modification   *)
(* time.  A name in the library is a sequence: the folder, the stem, then  *)
(* the suffixes of a collision.  quick_fingerprint compares whole contents *)
(* here; that it samples them is left out.                                 *)
(***************************************************************************)
EXTENDS Naturals, Sequences, FiniteSets

CONSTANTS Entries,      \* relative paths on the card (source_entry)
          Slots,        \* artifact_staging ids (new_id)
          Contents,     \* what a file can contain (size and SHA-1)
          Stamps,       \* modification times
          Base,         \* library_rel_path of each entry
          KnownFolders, \* library folders that exist and are durable
          Partial,      \* a file that is still being written
          Nothing,
          MaxTries,     \* bound: names tried for one artifact
          MaxCrashes,   \* bound: crashes and power losses
          MaxFaults,    \* bound: OSErrors
          MaxSwaps,     \* bound: changes of the card
          MaxIntrusions \* bound: library files placed or removed by others

\* candidate_paths: the wanted path, then with the stamp, then also with the
\* hash, then numbered.
Candidate(e, t, c, k) == IF k = 1 THEN Base[e]
                         ELSE IF k = 2 THEN Append(Base[e], <<t>>)
                         ELSE Append(Base[e], <<t, c, k>>)

Tries   == 1..MaxTries
Names   == {Candidate(e, t, c, k) :
                e \in Entries, t \in Stamps, c \in Contents, k \in Tries}
Folder(n) == Head(n)
Folders == {Folder(n) : n \in Names}
Files   == [bytes : Contents, stamp : Stamps]

ASSUME PublisherAssumption ==
    /\ Stamps \subseteq Nat \ {Nothing}
    /\ \A e \in Entries : Len(Base[e]) > 0
    /\ KnownFolders \subseteq Folders
    /\ Nothing \notin Contents \cup {Partial} \cup Entries \cup Slots
                        \cup Names \cup Files
    /\ Partial \notin Contents
    /\ MaxTries \in Nat \ {0}
    /\ {MaxCrashes, MaxFaults, MaxSwaps, MaxIntrusions} \subseteq Nat

VARIABLES
    \* source_entry: state, the file it was recorded for, media_file_id.
    entry, recorded, mediaOf,
    \* artifact_staging: state, source_entry_id, stamp, content_sha1, and how
    \* far final_rel_path has moved along the candidates.
    rowState, rowEntry, rowStamp, rowBytes, rowTry,
    \* media_file: the SHA-1 recorded for a rel_path; missing_at.
    catalog, missing,
    \* The data root as running processes see it, and what is durable of it.
    disk, saved, savedFolders, tmp, savedTmp,
    \* The card, and the library names somebody else removed a file from.
    card, removed,
    \* The process: where it is, the row and the entry in hand, what is left to
    \* do, the rows of this job, and how the job stands.
    pc, slot, at, todo, mine, cancelling, expired, anyFailed, outcome,
    \* Rows this startup could not finish, and those it gave up as lost.
    reported, lost,
    crashes, faults, swaps, intrusions

sources  == <<entry, recorded, mediaOf>>
rows     == <<rowState, rowEntry, rowStamp, rowBytes, rowTry>>
media    == <<catalog, missing>>
library  == <<disk, saved, savedFolders>>
staging  == <<tmp, savedTmp>>
outside  == <<card, removed>>
signals  == <<cancelling, expired>>
job      == <<mine, anyFailed, outcome>>
recovery == <<reported, lost>>
bounds   == <<crashes, faults, swaps, intrusions>>
vars     == <<sources, rows, media, library, staging, outside, pc, slot, at,
              todo, signals, job, recovery, bounds>>

-----------------------------------------------------------------------------
EntryStates == {"none", "seen", "importing", "published", "failed"}
RowStates   == {"free", "writing", "staged", "published", "gone"}
Unfinished  == {"writing", "staged"}
Outcomes    == {"none", "succeeded", "cancelled", "failed", "interrupted"}

BeforeStaged == {"copying",  \* the writing row exists, the file may
                 "copied",   \* the bytes are written
                 "durable"}  \* and fsynced, with their directory
AfterStaged  == {"linking", "linked", "synced", "unlinked", "committing"}
Importing    == {"next",     \* at the head of the loop over the entries
                 "marked"}   \* the entry is importing, it has no row yet
                    \cup BeforeStaged \cup AfterStaged

\* Recovery walks AfterStaged too, with no entry in hand.
PCs == {"down", "recovering", "idle", "scanning", "sweeping"} \cup Importing
JobRuns == \/ pc \in {"scanning", "sweeping", "next", "marked"} \cup BeforeStaged
           \/ pc \in AfterStaged /\ at # Nothing

RowName(s) == Candidate(rowEntry[s], rowStamp[s], rowBytes[s], rowTry[s])

TypeOK ==
    /\ entry \in [Entries -> EntryStates]
    /\ recorded \in [Entries -> Files \cup {Nothing}]
    /\ mediaOf \in [Entries -> Names \cup {Nothing}]
    /\ rowState \in [Slots -> RowStates]
    /\ rowEntry \in [Slots -> Entries \cup {Nothing}]
    /\ rowStamp \in [Slots -> Stamps \cup {Nothing}]
    /\ rowBytes \in [Slots -> Contents \cup {Nothing}]
    /\ rowTry \in [Slots -> Tries]
    /\ catalog \in [Names -> Contents \cup {Nothing}]
    /\ missing \in SUBSET Names
    /\ disk \in [Names -> Contents \cup {Nothing}]
    /\ saved \in [Names -> Contents \cup {Nothing}]
    /\ savedFolders \in SUBSET Folders
    /\ tmp \in [Slots -> Contents \cup {Partial, Nothing}]
    /\ savedTmp \in [Slots -> Contents \cup {Partial, Nothing}]
    /\ card \in [Entries -> Files \cup {Nothing}]
    /\ removed \in SUBSET Names
    /\ pc \in PCs
    /\ slot \in Slots \cup {Nothing}
    /\ at \in Entries \cup {Nothing}
    /\ todo \in SUBSET Entries
    /\ mine \in SUBSET Slots
    /\ cancelling \in BOOLEAN
    /\ expired \in BOOLEAN
    /\ anyFailed \in BOOLEAN
    /\ outcome \in Outcomes
    /\ reported \in SUBSET Slots
    /\ lost \in SUBSET Slots
    /\ crashes \in Nat
    /\ faults \in Nat
    /\ swaps \in Nat
    /\ intrusions \in Nat

Init ==
    /\ entry = [e \in Entries |-> "none"]
    /\ recorded = [e \in Entries |-> Nothing]
    /\ mediaOf = [e \in Entries |-> Nothing]
    /\ rowState = [s \in Slots |-> "free"]
    /\ rowEntry = [s \in Slots |-> Nothing]
    /\ rowStamp = [s \in Slots |-> Nothing]
    /\ rowBytes = [s \in Slots |-> Nothing]
    /\ rowTry = [s \in Slots |-> 1]
    /\ catalog = [n \in Names |-> Nothing]
    /\ missing = {}
    /\ disk = [n \in Names |-> Nothing]
    /\ saved = [n \in Names |-> Nothing]
    /\ savedFolders = KnownFolders
    /\ tmp = [s \in Slots |-> Nothing]
    /\ savedTmp = [s \in Slots |-> Nothing]
    /\ card \in [Entries -> Files]
    /\ removed = {}
    /\ pc = "idle"
    /\ slot = Nothing
    /\ at = Nothing
    /\ todo = {}
    /\ mine = {}
    /\ cancelling = FALSE
    /\ expired = FALSE
    /\ anyFailed = FALSE
    /\ outcome = "none"
    /\ reported = {}
    /\ lost = {}
    /\ crashes = 0
    /\ faults = 0
    /\ swaps = 0
    /\ intrusions = 0

-----------------------------------------------------------------------------
(* Jobs and what happens around them.                                      *)

\* The card is changed while no job has it open: it comes back with another
\* file under the same path, or without it.
SwapCard(e) ==
    /\ pc \in {"idle", "down"}
    /\ swaps < MaxSwaps
    /\ swaps' = swaps + 1
    /\ \E f \in (Files \cup {Nothing}) \ {card[e]} : card' = [card EXCEPT ![e] = f]
    /\ UNCHANGED <<sources, rows, media, library, staging, removed, pc, slot, at,
                   todo, signals, job, recovery, crashes, faults, intrusions>>

\* Somebody removes a library file on the NAS, or puts one there.
Intrude(n, c) ==
    /\ disk[n] # c
    /\ disk[n] = Nothing \/ c = Nothing
    /\ intrusions < MaxIntrusions
    /\ intrusions' = intrusions + 1
    /\ disk' = [disk EXCEPT ![n] = c]
    /\ saved' = [saved EXCEPT ![n] = c]
    /\ removed' = IF c = Nothing THEN removed \cup {n} ELSE removed
    /\ UNCHANGED <<sources, rows, media, savedFolders, staging, card, pc, slot, at,
                   todo, signals, job, recovery, crashes, faults, swaps>>

UserCancel ==
    /\ JobRuns
    /\ ~cancelling
    /\ cancelling' = TRUE
    /\ UNCHANGED <<sources, rows, media, library, staging, outside, pc, slot, at,
                   todo, expired, job, recovery, bounds>>

\* A heartbeat came too late; an expired lease is never revived.
LeaseExpires ==
    /\ JobRuns
    /\ ~expired
    /\ expired' = TRUE
    /\ UNCHANGED <<sources, rows, media, library, staging, outside, pc, slot, at,
                   todo, cancelling, job, recovery, bounds>>

BeginJob(where, entries) ==
    /\ pc = "idle"
    /\ pc' = where
    /\ todo' = entries
    /\ mine' = {}
    /\ cancelling' = FALSE
    /\ expired' = FALSE
    /\ anyFailed' = FALSE
    /\ outcome' = "none"

EndJob(result) ==
    /\ pc' = "idle"
    /\ outcome' = result
    /\ slot' = Nothing
    /\ at' = Nothing
    /\ todo' = {}

\* JobStore.finish_claimed
GoodEnding == IF cancelling THEN "cancelled" ELSE "succeeded"

-----------------------------------------------------------------------------
(* The scan                                                                *)

StartScan ==
    /\ BeginJob("scanning", Entries)
    /\ UNCHANGED <<sources, rows, media, library, staging, outside, slot, at,
                   recovery, bounds>>

\* The states _reconcile_entry leaves as they are: already imported, or the
\* same bytes with an older time.
Recognised(e) ==
    /\ entry[e] # "none"
    /\ recorded[e].bytes = card[e].bytes
    /\ \/ recorded[e].stamp = card[e].stamp /\ entry[e] = "published"
       \/ card[e].stamp < recorded[e].stamp

\* Fault: the entry keeps the media_file of what it was before.
ScanFileKeepsMedia(e) ==
    /\ pc = "scanning"
    /\ e \in todo
    /\ ~cancelling /\ ~expired
    /\ todo' = todo \ {e}
    /\ IF card[e] = Nothing \/ Recognised(e)
       THEN UNCHANGED sources
       ELSE /\ entry' = [entry EXCEPT ![e] = "seen"]
            /\ recorded' = [recorded EXCEPT ![e] = card[e]]
            /\ UNCHANGED mediaOf
    /\ UNCHANGED <<rows, media, library, staging, outside, pc, slot, at,
                   signals, job, recovery, bounds>>

ScanFile(e) ==
    /\ pc = "scanning"
    /\ e \in todo
    /\ ~cancelling /\ ~expired
    /\ todo' = todo \ {e}
    /\ IF card[e] = Nothing \/ Recognised(e)
       THEN UNCHANGED sources
       ELSE /\ entry' = [entry EXCEPT ![e] = "seen"]
            /\ recorded' = [recorded EXCEPT ![e] = card[e]]
            /\ mediaOf' = [mediaOf EXCEPT ![e] = Nothing]
    /\ UNCHANGED <<rows, media, library, staging, outside, pc, slot, at,
                   signals, job, recovery, bounds>>

\* _sweep_vanished: waiting entries the card no longer has, unless a staging
\* row of any state refers to them.
Vanished(e) ==
    /\ card[e] = Nothing
    /\ entry[e] \in {"seen", "failed"}
    /\ \A s \in Slots : rowEntry[s] = e => rowState[s] = "gone"

\* Only a scan that has seen everything sweeps; it looks once more whether it
\* was cancelled, and not again.
BeginSweep ==
    /\ pc = "scanning"
    /\ todo = {}
    /\ ~cancelling
    /\ pc' = "sweeping"
    /\ UNCHANGED <<sources, rows, media, library, staging, outside, slot, at,
                   todo, signals, job, recovery, bounds>>

ForgetEntry(e) ==
    /\ pc = "sweeping"
    /\ Vanished(e)
    /\ entry' = [entry EXCEPT ![e] = "none"]
    /\ recorded' = [recorded EXCEPT ![e] = Nothing]
    /\ UNCHANGED <<mediaOf, rows, media, library, staging, outside, pc, slot, at,
                   todo, signals, job, recovery, bounds>>

\* A lost lease, like a card that is pulled, raises out of the handler.
EndScan ==
    /\ pc \in {"scanning", "sweeping"}
    /\ \/ pc = "scanning" /\ cancelling /\ EndJob("cancelled")
       \/ expired /\ EndJob("failed")
       \/ /\ pc = "sweeping"
          /\ \A e \in Entries : ~Vanished(e)
          /\ EndJob(GoodEnding)
    /\ UNCHANGED <<sources, rows, media, library, staging, outside,
                   signals, mine, anyFailed, recovery, bounds>>

-----------------------------------------------------------------------------
(* The import, up to the point of no return                                *)

To(where) == pc' = where

\* PENDING_CLAUSE, read once when the job starts.
Pending == {e \in Entries : entry[e] \in {"seen", "failed"}}

StartImport ==
    /\ BeginJob("next", Pending)
    /\ UNCHANGED <<sources, rows, media, library, staging, outside, slot, at,
                   recovery, bounds>>

\* The loop looks at the cancel, beats, and marks the entry.
PickEntry(e) ==
    /\ pc = "next"
    /\ e \in todo
    /\ ~cancelling /\ ~expired
    /\ todo' = todo \ {e}
    /\ at' = e
    /\ entry' = [entry EXCEPT ![e] = "importing"]
    /\ To("marked")
    /\ UNCHANGED <<recorded, mediaOf, rows, media, library, staging, outside, slot,
                   signals, job, recovery, bounds>>

\* The beat at the head of the loop is outside the try.
EndImport ==
    /\ pc = "next"
    /\ \/ /\ todo = {} \/ cancelling
          /\ EndJob(IF anyFailed THEN "failed" ELSE GoodEnding)
       \/ /\ todo # {} /\ ~cancelling /\ expired
          /\ EndJob("failed")
    /\ UNCHANGED <<sources, rows, media, library, staging, outside,
                   signals, mine, anyFailed, recovery, bounds>>

\* Step 1: the writing row.
InsertRow(s) ==
    /\ pc = "marked"
    /\ rowState[s] = "free"
    /\ rowState' = [rowState EXCEPT ![s] = "writing"]
    /\ rowEntry' = [rowEntry EXCEPT ![s] = at]
    /\ rowStamp' = [rowStamp EXCEPT ![s] = recorded[at].stamp]
    /\ slot' = s
    /\ mine' = mine \cup {s}
    /\ To("copying")
    /\ UNCHANGED <<sources, rowBytes, rowTry, media, library, staging, outside, at,
                   todo, signals, anyFailed, outcome, recovery, bounds>>

\* Step 2: the staging file is opened, then filled from the card.
OpenFile ==
    /\ pc = "copying"
    /\ tmp[slot] = Nothing
    /\ tmp' = [tmp EXCEPT ![slot] = Partial]
    /\ UNCHANGED <<sources, rows, media, library, savedTmp, outside, pc, slot, at,
                   todo, signals, job, recovery, bounds>>

CopyFile ==
    /\ pc = "copying"
    /\ tmp[slot] = Partial
    /\ card[at] # Nothing
    /\ tmp' = [tmp EXCEPT ![slot] = card[at].bytes]
    /\ To("copied")
    /\ UNCHANGED <<sources, rows, media, library, savedTmp, outside, slot, at,
                   todo, signals, job, recovery, bounds>>

\* Fault: the file is fsynced, its directory is not.
SyncFileOnly ==
    /\ pc = "copied"
    /\ To("durable")
    /\ UNCHANGED <<sources, rows, media, library, staging, outside, slot, at,
                   todo, signals, job, recovery, bounds>>

\* Steps 3 to 6: fsync of the file and of its directory, then the metadata.
SyncFile ==
    /\ pc = "copied"
    /\ savedTmp' = [savedTmp EXCEPT ![slot] = tmp[slot]]
    /\ To("durable")
    /\ UNCHANGED <<sources, rows, media, library, tmp, outside, slot, at,
                   todo, signals, job, recovery, bounds>>

\* Step 7: the lease is looked at in the transaction that stages the row.
StageRow ==
    /\ pc = "durable"
    /\ ~cancelling /\ ~expired
    /\ rowState' = [rowState EXCEPT ![slot] = "staged"]
    /\ rowBytes' = [rowBytes EXCEPT ![slot] = tmp[slot]]
    /\ To("linking")
    /\ UNCHANGED <<sources, rowEntry, rowStamp, rowTry, media, library, staging,
                   outside, slot, at, todo, signals, job, recovery, bounds>>

\* _discard_writing removes the file and the row; it swallows its own errors,
\* so that either may stay behind.  cost: the errors that led here.
Discard(cost) ==
    /\ \E file, row \in BOOLEAN :
          /\ faults' = faults + cost + (IF file /\ row THEN 0 ELSE 1)
          /\ tmp' = IF file THEN [tmp EXCEPT ![slot] = Nothing] ELSE tmp
          /\ rowState' = IF row THEN [rowState EXCEPT ![slot] = "gone"] ELSE rowState
    /\ faults' <= MaxFaults
    /\ slot' = Nothing
    /\ UNCHANGED <<rowEntry, rowStamp, rowBytes, rowTry, savedTmp>>

\* CopyCancelled at a chunk boundary, or PublishAborted by step 7: the entry
\* goes back to seen.  A cancel ends the loop, a lost lease fails the job.
PublishAborts ==
    /\ \/ pc = "copying" /\ cancelling
       \/ pc = "durable" /\ (cancelling \/ expired)
    /\ Discard(0)
    /\ entry' = [entry EXCEPT ![at] = "seen"]
    /\ pc' = IF cancelling THEN "next" ELSE "idle"
    /\ outcome' = IF cancelling THEN outcome ELSE "failed"
    /\ todo' = IF cancelling THEN todo ELSE {}
    /\ at' = Nothing
    /\ UNCHANGED <<recorded, mediaOf, media, library, outside, mine, anyFailed,
                   signals, recovery, crashes, swaps, intrusions>>

\* Any other exception marks the entry failed and takes the next one; errors
\* of a card that is gone end the loop.  Next to errors of the file system
\* these are a file missing on the card, a lease lost in a heartbeat, and a
\* lease or a cancel met while fsync or ffprobe were waited for.
PublishFails ==
    /\ \/ pc = "copying" /\ (expired \/ card[at] = Nothing) /\ Discard(0)
       \/ pc \in {"copied", "durable"} /\ (expired \/ cancelling) /\ Discard(0)
       \/ pc \in BeforeStaged /\ Discard(1)
    /\ entry' = [entry EXCEPT ![at] = "failed"]
    /\ anyFailed' = TRUE
    /\ todo' \in {todo, {}}
    /\ at' = Nothing
    /\ To("next")
    /\ UNCHANGED <<recorded, mediaOf, media, library, outside, mine, outcome,
                   signals, recovery, crashes, swaps, intrusions>>

-----------------------------------------------------------------------------
(* From staged to published: _finish, in the import and at startup         *)

\* Fault: os.replace in the place of os.link.
LinkReplaces ==
    /\ pc = "linking"
    /\ tmp[slot] # Nothing
    /\ disk' = [disk EXCEPT ![RowName(slot)] = tmp[slot]]
    /\ To("linked")
    /\ UNCHANGED <<sources, rows, media, saved, savedFolders, staging, outside,
                   slot, at, todo, signals, job, recovery, bounds>>

\* Step 8: os.link does not replace.
Link ==
    /\ pc = "linking"
    /\ tmp[slot] # Nothing
    /\ disk[RowName(slot)] = Nothing
    /\ disk' = [disk EXCEPT ![RowName(slot)] = tmp[slot]]
    /\ To("linked")
    /\ UNCHANGED <<sources, rows, media, saved, savedFolders, staging, outside,
                   slot, at, todo, signals, job, recovery, bounds>>

\* EEXIST, and the file there has the recorded size and SHA-1.
Reuse ==
    /\ pc = "linking"
    /\ tmp[slot] # Nothing
    /\ disk[RowName(slot)] = rowBytes[slot]
    /\ To("linked")
    /\ UNCHANGED <<sources, rows, media, library, staging, outside,
                   slot, at, todo, signals, job, recovery, bounds>>

\* Fault: a name that is taken is never looked into.
NextCandidateAlways ==
    /\ pc = "linking"
    /\ tmp[slot] # Nothing
    /\ disk[RowName(slot)] # Nothing
    /\ rowTry[slot] < MaxTries
    /\ rowTry' = [rowTry EXCEPT ![slot] = @ + 1]
    /\ UNCHANGED <<sources, rowState, rowEntry, rowStamp, rowBytes, media, library,
                   staging, outside, pc, slot, at, todo, signals, job, recovery, bounds>>

\* EEXIST with other content: the next candidate is recorded, then tried.
NextCandidate ==
    /\ pc = "linking"
    /\ tmp[slot] # Nothing
    /\ disk[RowName(slot)] \notin {Nothing, rowBytes[slot]}
    /\ rowTry[slot] < MaxTries
    /\ rowTry' = [rowTry EXCEPT ![slot] = @ + 1]
    /\ UNCHANGED <<sources, rowState, rowEntry, rowStamp, rowBytes, media, library,
                   staging, outside, pc, slot, at, todo, signals, job, recovery, bounds>>

FolderSynced(f) == saved' = [n \in Names |-> IF Folder(n) = f THEN disk[n] ELSE saved[n]]

\* Fault: step 9 is left out.
SyncFolderSkipped ==
    /\ pc = "linked"
    /\ To("synced")
    /\ UNCHANGED <<sources, rows, media, library, staging, outside,
                   slot, at, todo, signals, job, recovery, bounds>>

\* Step 9: fsync of the folder the file was linked into.
SyncFolder ==
    /\ pc = "linked"
    /\ FolderSynced(Folder(RowName(slot)))
    /\ To("synced")
    /\ UNCHANGED <<sources, rows, media, disk, savedFolders, staging, outside,
                   slot, at, todo, signals, job, recovery, bounds>>

\* Step 10: the staging file is unlinked, then its directory fsynced.
Unlink ==
    /\ pc = "synced"
    /\ tmp' = [tmp EXCEPT ![slot] = Nothing]
    /\ To("unlinked")
    /\ UNCHANGED <<sources, rows, media, library, savedTmp, outside,
                   slot, at, todo, signals, job, recovery, bounds>>

SyncStaging ==
    /\ pc = "unlinked"
    /\ savedTmp' = [savedTmp EXCEPT ![slot] = Nothing]
    /\ To("committing")
    /\ UNCHANGED <<sources, rows, media, library, tmp, outside,
                   slot, at, todo, signals, job, recovery, bounds>>

\* _adopt_published_final: the staging file is gone, the final one is right.
Adopt ==
    /\ pc = "linking"
    /\ tmp[slot] = Nothing
    /\ disk[RowName(slot)] = rowBytes[slot]
    /\ FolderSynced(Folder(RowName(slot)))
    /\ To("committing")
    /\ UNCHANGED <<sources, rows, media, disk, savedFolders, staging, outside,
                   slot, at, todo, signals, job, recovery, bounds>>

\* The media_file row of a rel_path is taken as it is when there is one.
Catalogued(n, c) == [catalog EXCEPT ![n] = IF @ = Nothing THEN c ELSE @]

\* Step 11.
Commit ==
    /\ pc = "committing"
    /\ LET n == RowName(slot)
           e == rowEntry[slot]
       IN /\ catalog' = Catalogued(n, rowBytes[slot])
          /\ entry' = [entry EXCEPT ![e] = "published"]
          /\ mediaOf' = [mediaOf EXCEPT ![e] = n]
    /\ rowState' = [rowState EXCEPT ![slot] = "published"]
    /\ pc' = IF at = Nothing THEN "recovering" ELSE "next"
    /\ slot' = Nothing
    /\ at' = Nothing
    /\ UNCHANGED <<recorded, rowEntry, rowStamp, rowBytes, rowTry, missing, library,
                   staging, outside, todo, signals, job, recovery, bounds>>

\* Fault: a publication that is to be resumed is taken for one that aborted.
PublishInterruptedQuietly ==
    /\ pc \in AfterStaged
    /\ at # Nothing
    /\ faults < MaxFaults
    /\ faults' = faults + 1
    /\ EndJob(GoodEnding)
    /\ UNCHANGED <<sources, rows, media, library, staging, outside, signals, mine,
                   anyFailed, recovery, crashes, swaps, intrusions>>

\* PublishInterrupted: the job fails, the row and the entry stay as they are.
PublishInterrupted ==
    /\ pc \in AfterStaged
    /\ at # Nothing
    /\ faults < MaxFaults
    /\ faults' = faults + 1
    /\ EndJob("failed")
    /\ UNCHANGED <<sources, rows, media, library, staging, outside, signals, mine,
                   anyFailed, recovery, crashes, swaps, intrusions>>

-----------------------------------------------------------------------------
(* The process stops and starts again                                      *)

Stops ==
    /\ pc # "down"
    /\ crashes < MaxCrashes
    /\ crashes' = crashes + 1
    /\ pc' = "down"
    /\ outcome' = IF JobRuns THEN "interrupted" ELSE outcome
    /\ slot' = Nothing
    /\ at' = Nothing
    /\ todo' = {}

Crash ==
    /\ Stops
    /\ UNCHANGED <<sources, rows, media, library, staging, outside,
                   signals, mine, anyFailed, recovery, faults, swaps, intrusions>>

\* What was not fsynced may be lost, and what was unlinked may be back; a
\* folder whose own entry was never fsynced may be lost with all it holds.
PowerLoss ==
    /\ Stops
    /\ \E gone \in SUBSET (Folders \ savedFolders) :
       \E undone \in SUBSET {n \in Names : disk[n] # saved[n]} :
       \E back \in SUBSET {s \in Slots : tmp[s] # savedTmp[s]} :
          LET after == [n \in Names |-> IF Folder(n) \in gone THEN Nothing
                                        ELSE IF n \in undone THEN saved[n] ELSE disk[n]]
          IN /\ disk' = after
             /\ saved' = after
             /\ savedFolders' = savedFolders \cup
                    {Folder(n) : n \in {m \in Names : after[m] # Nothing}}
             /\ tmp' = [s \in Slots |-> IF s \in back THEN savedTmp[s] ELSE tmp[s]]
             /\ savedTmp' = tmp'
    /\ UNCHANGED <<sources, rows, media, outside,
                   signals, mine, anyFailed, recovery, faults, swaps, intrusions>>

\* Reconciler.run, step by step.
Boot ==
    /\ pc = "down"
    /\ pc' = "recovering"
    /\ outcome' = "none"
    /\ mine' = {}
    /\ reported' = {}
    /\ lost' = {}
    /\ UNCHANGED <<sources, rows, media, library, staging, outside, slot, at,
                   todo, signals, anyFailed, bounds>>

ToRecover == {s \in Slots : rowState[s] \in Unfinished} \ reported

\* Fault: whatever is unfinished is discarded.
RecoverDiscards(s) ==
    /\ pc = "recovering"
    /\ s \in ToRecover
    /\ rowState' = [rowState EXCEPT ![s] = "gone"]
    /\ tmp' = [tmp EXCEPT ![s] = Nothing]
    /\ UNCHANGED <<sources, rowEntry, rowStamp, rowBytes, rowTry, media, library,
                   savedTmp, outside, pc, slot, at, todo, signals, job, recovery, bounds>>

RecoverWriting(s) ==
    /\ pc = "recovering"
    /\ s \in ToRecover
    /\ rowState[s] = "writing"
    /\ rowState' = [rowState EXCEPT ![s] = "gone"]
    /\ tmp' = [tmp EXCEPT ![s] = Nothing]
    /\ UNCHANGED <<sources, rowEntry, rowStamp, rowBytes, rowTry, media, library,
                   savedTmp, outside, pc, slot, at, todo, signals, job, recovery, bounds>>

RecoverStaged(s) ==
    /\ pc = "recovering"
    /\ s \in ToRecover
    /\ rowState[s] = "staged"
    /\ slot' = s
    /\ To("linking")
    /\ UNCHANGED <<sources, rows, media, library, staging, outside, at,
                   todo, signals, job, recovery, bounds>>

\* StagingLost, or an OSError: the row stays, the next one is taken.
RecoveryFails ==
    /\ pc \in AfterStaged \ {"committing"}
    /\ at = Nothing
    /\ \/ /\ pc = "linking"
          /\ tmp[slot] = Nothing
          /\ disk[RowName(slot)] # rowBytes[slot]
          /\ lost' = lost \cup {slot}
          /\ UNCHANGED faults
       \/ /\ faults < MaxFaults
          /\ faults' = faults + 1
          /\ UNCHANGED lost
    /\ reported' = reported \cup {slot}
    /\ slot' = Nothing
    /\ To("recovering")
    /\ UNCHANGED <<sources, rows, media, library, staging, outside, at,
                   todo, signals, job, crashes, swaps, intrusions>>

\* _sync_missing; then the staging directories nothing refers to are removed.
FinishRecovery ==
    /\ pc = "recovering"
    /\ ToRecover = {}
    /\ missing' = {n \in Names : catalog[n] # Nothing /\ disk[n] = Nothing}
    /\ tmp' = [s \in Slots |-> IF rowState[s] \in Unfinished THEN tmp[s] ELSE Nothing]
    /\ To("idle")
    /\ UNCHANGED <<sources, rows, catalog, library, savedTmp, outside, slot, at,
                   todo, signals, job, recovery, bounds>>

-----------------------------------------------------------------------------
ScanStep    == StartScan \/ BeginSweep \/ EndScan
                    \/ \E e \in Entries : ScanFile(e) \/ ForgetEntry(e)
ImportStep  == \/ StartImport \/ EndImport
               \/ \E e \in Entries : PickEntry(e)
               \/ \E s \in Slots : InsertRow(s)
               \/ OpenFile \/ CopyFile \/ SyncFile \/ StageRow
               \/ PublishAborts \/ PublishFails
FinishStep  == \/ Link \/ Reuse \/ NextCandidate \/ SyncFolder \/ Unlink
               \/ SyncStaging \/ Adopt \/ Commit \/ PublishInterrupted
StartupStep == \/ Crash \/ PowerLoss \/ Boot
               \/ \E s \in Slots : RecoverWriting(s) \/ RecoverStaged(s)
               \/ RecoveryFails \/ FinishRecovery
Environment == \/ \E e \in Entries : SwapCard(e)
               \/ \E n \in Names, c \in Contents \cup {Nothing} : Intrude(n, c)
               \/ UserCancel \/ LeaseExpires

Next == ScanStep \/ ImportStep \/ FinishStep \/ StartupStep \/ Environment

Spec == Init /\ [][Next]_vars
-----------------------------------------------------------------------------
(* Properties                                                              *)

\* The name is in a folder that was durable from the start, and nobody else
\* removed a file from it: only then can the library be held to anything.
Trusted(n) == Folder(n) \in KnownFolders /\ n \notin removed

InLibrary(n, c) == disk[n] = c /\ saved[n] = c

\* Past the point of no return the verified bytes exist durably, in staging
\* or in the library, whatever crash or power loss comes between two steps.
StagedIsSafe ==
    \A s \in Slots : rowState[s] = "staged" =>
        \/ tmp[s] = rowBytes[s] /\ savedTmp[s] = rowBytes[s]
        \/ Trusted(RowName(s)) => InLibrary(RowName(s), rowBytes[s])

\* What the catalogue records is durably in the library and was never
\* replaced by another import of the same path.
CatalogueIsOnDisk ==
    \A n \in Names : (catalog[n] # Nothing /\ Trusted(n)) => InLibrary(n, catalog[n])

\* An entry shown as imported names a catalogued file that came from a row of
\* its own, and only such an entry names one.
ImportedEntriesAreCatalogued ==
    \A e \in Entries :
        IF entry[e] = "published"
        THEN \E s \in Slots : /\ rowState[s] = "published"
                              /\ rowEntry[s] = e
                              /\ mediaOf[e] = RowName(s)
                              /\ Trusted(RowName(s)) => catalog[RowName(s)] = rowBytes[s]
        ELSE mediaOf[e] = Nothing

\* No file of a job that ended as cancelled is published afterwards.
NothingAfterCancel ==
    outcome = "cancelled" => \A s \in mine : rowState[s] # "staged"

\* Recovery gives a row up only when its file was taken away from outside.
NothingIsLost == \A s \in lost : ~Trusted(RowName(s))

-----------------------------------------------------------------------------
(* What makes the safety properties inductive                              *)

\* The row and the entry in hand are those the process counter speaks of, and
\* what is left to import is waiting.
InHand ==
    /\ pc \in BeforeStaged => slot \in Slots /\ rowState[slot] = "writing"
    /\ pc \in AfterStaged => slot \in Slots /\ rowState[slot] = "staged"
    /\ pc \notin BeforeStaged \cup AfterStaged => slot = Nothing
    /\ pc \in {"marked"} \cup BeforeStaged => at # Nothing
    /\ pc \notin Importing \ {"next"} => at = Nothing
    /\ at # Nothing =>
          /\ entry[at] = "importing" /\ at \notin todo
          /\ pc # "marked" => rowEntry[slot] = at
    /\ pc # "scanning" => todo \subseteq Pending
    /\ (pc \notin {"scanning", "next"} /\ at = Nothing) => todo = {}

\* A row has its columns when its state says so, and refers to an entry.
RowsAreFilled ==
    /\ \A e \in Entries : entry[e] = "none" <=> recorded[e] = Nothing
    /\ \A s \in Slots : rowState[s] # "free" => rowEntry[s] # Nothing
                                              /\ rowStamp[s] # Nothing
    /\ \A s \in Slots : rowState[s] \in {"staged", "published"}
                            => rowBytes[s] # Nothing
    /\ \A s \in Slots : rowState[s] \notin {"free", "gone"}
                            => entry[rowEntry[s]] # "none"

Kept(s) == Trusted(RowName(s)) => InLibrary(RowName(s), rowBytes[s])

\* Where the bytes of a row are while it goes from one directory to the other.
BytesAreSomewhere ==
    /\ \A n \in Names : saved[n] \in {Nothing, disk[n]}
    /\ KnownFolders \subseteq savedFolders
    /\ pc \in {"copied", "durable"} => tmp[slot] \in Contents
    /\ pc = "durable" => savedTmp[slot] = tmp[slot]
    /\ pc = "linked" => \/ ~Trusted(RowName(slot))
                        \/ disk[RowName(slot)] = rowBytes[slot]
    /\ pc \in {"synced", "unlinked", "committing"} => Kept(slot)
    /\ pc \in {"unlinked", "committing"} => tmp[slot] = Nothing
    /\ \A s \in Slots : rowState[s] = "staged" =>
          \/ tmp[s] = rowBytes[s] /\ savedTmp[s] = rowBytes[s]
          \/ tmp[s] = Nothing /\ savedTmp[s] \in {Nothing, rowBytes[s]} /\ Kept(s)

\* A staged row of this job is in hand, or the job has failed.
StagedIsAccountedFor ==
    /\ \A s \in mine : rowState[s] = "staged" =>
                            slot = s \/ outcome \in {"failed", "interrupted"}
    /\ JobRuns => outcome = "none"
    /\ (pc \in {"recovering"} \cup AfterStaged /\ at = Nothing) =>
                            mine = {} /\ outcome = "none"
    /\ \A s \in lost : s \in reported /\ rowState[s] = "staged"
    /\ pc \in AfterStaged => slot \notin lost

IInv == /\ TypeOK
        /\ InHand
        /\ RowsAreFilled
        /\ BytesAreSomewhere
        /\ CatalogueIsOnDisk
        /\ ImportedEntriesAreCatalogued
        /\ StagedIsAccountedFor
        /\ NothingIsLost

-----------------------------------------------------------------------------
\* The same file of the card is published under one name, also when it was
\* interrupted and done again; an artifact that an I/O error left staged may
\* find its name free again after a power loss.
SameFileSameName ==
    \A s, r \in Slots :
        /\ faults = 0 /\ removed = {}
        /\ rowState[s] = "published" /\ rowState[r] = "published"
        /\ rowEntry[s] = rowEntry[r]
        /\ rowStamp[s] = rowStamp[r]
        /\ rowBytes[s] = rowBytes[r]
        => RowName(s) = RowName(r)

\* The protocol implements what Publication promises.
Promise == INSTANCE Publication WITH phase <- rowState, bytes <- rowBytes,
                                     shelf <- catalog
ImplementsPublication == Promise!Spec

\* No file of the library is ever replaced, also not one that somebody else
\* put there: the library is immutable (design.md 9.3).
NeverReplaced == [][\A n \in Names : disk[n] # Nothing
                                        => disk'[n] \in {disk[n], Nothing}]_vars

\* A user's cancel is not recorded as a failure (jobs_wiring.py, run_merge;
\* design.md 9.9): the job failed for another reason, or it did not fail.
CancelIsNotFailure ==
    (cancelling /\ outcome = "failed") =>
        expired \/ faults # 0 \/ \E e \in Entries : card[e] = Nothing

\* fsync of the folder is what keeps a publication through a power loss
\* (publisher.py, step 9).
PublishedSurvivesPowerLoss ==
    \A n \in Names : catalog[n] # Nothing => disk[n] = catalog[n]

\* A file whose publication will be resumed is not imported a second time
\* (publisher.py, PublishInterrupted).
OnePublicationPerEntry ==
    \A s, r \in Slots : (/\ rowState[s] = "staged"
                         /\ rowState[r] = "staged"
                         /\ rowEntry[s] = rowEntry[r]) => s = r

\* Between jobs, the recorded SHA-1 is that of the file under the recorded
\* name (design.md, quick_fingerprint: computed in the copy, kept in media_file).
CatalogueTellsTheBytes ==
    pc = "idle" => \A n \in Names : (catalog[n] # Nothing /\ disk[n] # Nothing)
                        => disk[n] = catalog[n]

\* When a writing row is discarded its caller runs again (design.md 9.6): an
\* entry that is left importing has a row that will be resumed.
InterruptedEntriesRunAgain ==
    pc = "idle" => \A e \in Entries : entry[e] = "importing" =>
        \E s \in Slots : rowEntry[s] = e /\ rowState[s] \in Unfinished
=============================================================================
