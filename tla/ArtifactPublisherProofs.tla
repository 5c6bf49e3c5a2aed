----------------------- MODULE ArtifactPublisherProofs -----------------------
(***************************************************************************)
(* ArtifactPublisher for any card, library, number of rows and bounds: its *)
(* inductive invariant, the safety properties it gives, and that the       *)
(* protocol implements Publication.                                        *)
(***************************************************************************)
EXTENDS ArtifactPublisher, TLAPS

USE DEF vars, sources, rows, media, library, staging, outside, signals, job,
        recovery, bounds, To

\* The sets the process counter and the columns range over.
USE DEF PCs, Importing, BeforeStaged, AfterStaged, EntryStates, RowStates,
        Unfinished, Outcomes

-----------------------------------------------------------------------------
\* A candidate is a name, and its folder one of the folders.
LEMMA CandidateIsName ==
  ASSUME NEW e \in Entries, NEW t \in Stamps, NEW c \in Contents, NEW k \in Tries
  PROVE  Candidate(e, t, c, k) \in Names /\ Folder(Candidate(e, t, c, k)) \in Folders
  BY DEF Names, Folders

\* Nothing is neither a file nor a name nor anything else a variable holds.
LEMMA NothingIsNothing ==
  /\ Nothing \notin Contents /\ Nothing # Partial /\ Partial \notin Contents
  /\ Nothing \notin Entries /\ Nothing \notin Slots /\ Nothing \notin Names
  /\ Nothing \notin Files /\ Nothing \notin Stamps
  BY PublisherAssumption DEF Files

\* The name a row stands for.
LEMMA RowNameIsName ==
  ASSUME TypeOK, RowsAreFilled, NEW s \in Slots,
         rowState[s] \in {"staged", "published"}
  PROVE  /\ RowName(s) \in Names /\ Folder(RowName(s)) \in Folders
         /\ rowEntry[s] \in Entries /\ rowBytes[s] \in Contents
<1>1. rowEntry[s] \in Entries /\ rowStamp[s] \in Stamps /\ rowBytes[s] \in Contents
  BY DEF TypeOK, RowsAreFilled
<1>2. rowTry[s] \in Tries
  BY DEF TypeOK
<1>3. QED
  BY <1>1, <1>2, CandidateIsName DEF RowName

-----------------------------------------------------------------------------
\* The initial states are well typed.
LEMMA TypeInit == Init => TypeOK
<1> SUFFICES ASSUME Init PROVE TypeOK
  OBVIOUS
<1> USE PublisherAssumption DEF Init
<1>1. 1 \in Tries
  BY DEF Tries
<1>2. /\ rowState \in [Slots -> RowStates] /\ rowTry \in [Slots -> Tries]
      /\ rowEntry \in [Slots -> Entries \cup {Nothing}]
      /\ rowStamp \in [Slots -> Stamps \cup {Nothing}]
      /\ rowBytes \in [Slots -> Contents \cup {Nothing}]
      /\ tmp \in [Slots -> Contents \cup {Partial, Nothing}]
      /\ savedTmp \in [Slots -> Contents \cup {Partial, Nothing}]
  BY <1>1
<1>3. /\ entry \in [Entries -> EntryStates]
      /\ recorded \in [Entries -> Files \cup {Nothing}]
      /\ mediaOf \in [Entries -> Names \cup {Nothing}]
      /\ card \in [Entries -> Files \cup {Nothing}]
  OBVIOUS
<1>4. /\ catalog \in [Names -> Contents \cup {Nothing}]
      /\ disk \in [Names -> Contents \cup {Nothing}]
      /\ saved \in [Names -> Contents \cup {Nothing}]
      /\ savedFolders \in SUBSET Folders
  OBVIOUS
<1>5. QED
  BY <1>2, <1>3, <1>4 DEF TypeOK

\* Every step keeps the type of every variable.
LEMMA TypeNext == IInv /\ [Next]_vars => TypeOK'
<1> SUFFICES ASSUME TypeOK, InHand, RowsAreFilled, BytesAreSomewhere, [Next]_vars
             PROVE  TypeOK'
  BY DEF IInv
<1> USE PublisherAssumption DEF TypeOK
<1>1. ASSUME NEW e \in Entries, SwapCard(e) PROVE TypeOK'
  BY <1>1 DEF SwapCard
<1>2. ASSUME NEW n \in Names, NEW c \in Contents \cup {Nothing}, Intrude(n, c)
      PROVE  TypeOK'
  BY <1>2 DEF Intrude
<1>3. CASE UserCancel \/ LeaseExpires
  <2>1. CASE UserCancel
    BY <2>1 DEF UserCancel
  <2>2. CASE LeaseExpires
    BY <2>2 DEF LeaseExpires
  <2>3. QED
    BY <1>3, <2>1, <2>2
<1>4. CASE StartScan
  BY <1>4 DEF StartScan, BeginJob
<1>5. ASSUME NEW e \in Entries, ScanFile(e) PROVE TypeOK'
  <2>1. /\ entry' \in [Entries -> EntryStates]
        /\ recorded' \in [Entries -> Files \cup {Nothing}]
        /\ mediaOf' \in [Entries -> Names \cup {Nothing}]
    <3>1. CASE card[e] = Nothing \/ Recognised(e)
      BY <1>5, <3>1 DEF ScanFile
    <3>2. CASE ~(card[e] = Nothing \/ Recognised(e))
      <4>1. card[e] \in Files
        BY <3>2
      <4>2. /\ entry' = [entry EXCEPT ![e] = "seen"]
            /\ recorded' = [recorded EXCEPT ![e] = card[e]]
            /\ mediaOf' = [mediaOf EXCEPT ![e] = Nothing]
        BY <1>5, <3>2 DEF ScanFile
      <4>3. QED
        BY <4>1, <4>2
    <3>3. QED
      BY <3>1, <3>2
  <2>2. todo' \in SUBSET Entries
    BY <1>5 DEF ScanFile
  <2>3. QED
    BY <1>5, <2>1, <2>2 DEF ScanFile
<1>6. ASSUME NEW e \in Entries, ForgetEntry(e) PROVE TypeOK'
  BY <1>6 DEF ForgetEntry
<1>7. CASE BeginSweep
  BY <1>7 DEF BeginSweep
<1>8. CASE EndScan
  BY <1>8 DEF EndScan, EndJob, GoodEnding
<1>9. CASE StartImport
  BY <1>9 DEF StartImport, BeginJob, Pending
<1>10. CASE EndImport
  BY <1>10 DEF EndImport, EndJob, GoodEnding
<1>11. ASSUME NEW e \in Entries, PickEntry(e) PROVE TypeOK'
  BY <1>11 DEF PickEntry
<1>12. ASSUME NEW s \in Slots, InsertRow(s) PROVE TypeOK'
  <2>1. at \in Entries
    BY <1>12 DEF InsertRow, InHand
  <2>2. recorded[at] \in Files
    BY <1>12, <2>1 DEF InsertRow, InHand, RowsAreFilled
  <2>3. recorded[at].stamp \in Stamps
    BY <2>2 DEF Files
  <2>4. QED
    BY <1>12, <2>1, <2>3 DEF InsertRow
<1>13. CASE OpenFile
  BY <1>13 DEF OpenFile
<1>14. CASE CopyFile
  <2>1. at \in Entries /\ card[at] \in Files
    BY <1>14 DEF CopyFile, InHand
  <2>2. card[at].bytes \in Contents
    BY <2>1 DEF Files
  <2>3. QED
    BY <1>14, <2>2 DEF CopyFile
<1>15. CASE SyncFile
  BY <1>15 DEF SyncFile, InHand
<1>16. CASE StageRow
  BY <1>16 DEF StageRow, InHand, BytesAreSomewhere
<1>17. ASSUME NEW cost \in {0, 1}, Discard(cost)
       PROVE  /\ tmp' \in [Slots -> Contents \cup {Partial, Nothing}]
              /\ rowState' \in [Slots -> RowStates]
              /\ faults' \in Nat
              /\ slot' = Nothing
              /\ UNCHANGED <<rowEntry, rowStamp, rowBytes, rowTry, savedTmp>>
  <2>1. PICK file \in BOOLEAN, row \in BOOLEAN :
          /\ faults' = faults + cost + (IF file /\ row THEN 0 ELSE 1)
          /\ tmp' = IF file THEN [tmp EXCEPT ![slot] = Nothing] ELSE tmp
          /\ rowState' = IF row THEN [rowState EXCEPT ![slot] = "gone"] ELSE rowState
    BY <1>17 DEF Discard
  <2>2. faults' \in Nat
    BY <2>1
  <2>3. QED
    BY <1>17, <2>1, <2>2 DEF Discard
<1>18. CASE PublishAborts
  BY <1>17, <1>18 DEF PublishAborts
<1>19. CASE PublishFails
  BY <1>17, <1>19 DEF PublishFails
<1>20. CASE Link
  <2>1. slot \in Slots /\ tmp[slot] \in Contents
    BY <1>20 DEF Link, InHand, BytesAreSomewhere, RowsAreFilled
  <2>2. QED
    BY <1>20, <2>1 DEF Link
<1>21. CASE Reuse
  BY <1>21 DEF Reuse
<1>22. CASE NextCandidate
  BY <1>22 DEF NextCandidate, Tries, InHand
<1>23. CASE SyncFolder
  BY <1>23 DEF SyncFolder, FolderSynced
<1>24. CASE Unlink
  BY <1>24 DEF Unlink
<1>25. CASE SyncStaging
  BY <1>25 DEF SyncStaging
<1>26. CASE Adopt
  BY <1>26 DEF Adopt, FolderSynced
<1>27. CASE Commit
  <2>1. RowName(slot) \in Names /\ rowBytes[slot] \in Contents
    BY <1>27, RowNameIsName DEF Commit, InHand
  <2>2. QED
    BY <1>27, <2>1 DEF Commit, Catalogued
<1>28. CASE PublishInterrupted
  BY <1>28 DEF PublishInterrupted, EndJob
<1>29. CASE Crash
  BY <1>29 DEF Crash, Stops
<1>30. CASE PowerLoss
  <2>1. PICK gone \in SUBSET (Folders \ savedFolders),
             undone \in SUBSET {n \in Names : disk[n] # saved[n]},
             back \in SUBSET {s \in Slots : tmp[s] # savedTmp[s]} :
          LET after == [n \in Names |-> IF Folder(n) \in gone THEN Nothing
                                        ELSE IF n \in undone THEN saved[n] ELSE disk[n]]
          IN /\ disk' = after
             /\ saved' = after
             /\ savedFolders' = savedFolders \cup
                    {Folder(n) : n \in {m \in Names : after[m] # Nothing}}
             /\ tmp' = [s \in Slots |-> IF s \in back THEN savedTmp[s] ELSE tmp[s]]
             /\ savedTmp' = tmp'
    BY <1>30 DEF PowerLoss
  <2>2. savedFolders' \in SUBSET Folders
    BY <2>1 DEF Folders
  <2>3. disk' \in [Names -> Contents \cup {Nothing}] /\ saved' = disk'
    BY <2>1
  <2>4. tmp' \in [Slots -> Contents \cup {Partial, Nothing}] /\ savedTmp' = tmp'
    BY <2>1
  <2>5. Stops /\ UNCHANGED <<sources, rows, media, outside, signals, mine,
                             anyFailed, recovery, faults, swaps, intrusions>>
    BY <1>30 DEF PowerLoss
  <2>6. QED
    BY <2>2, <2>3, <2>4, <2>5 DEF Stops
<1>31. CASE Boot
  BY <1>31 DEF Boot
<1>32. ASSUME NEW s \in Slots, RecoverWriting(s) \/ RecoverStaged(s) PROVE TypeOK'
  BY <1>32 DEF RecoverWriting, RecoverStaged
<1>33. CASE RecoveryFails
  BY <1>33 DEF RecoveryFails, InHand
<1>34. CASE FinishRecovery
  BY <1>34 DEF FinishRecovery
<1>35. CASE UNCHANGED vars
  BY <1>35
<1>36. QED
  BY <1>1, <1>2, <1>3, <1>4, <1>5, <1>6, <1>7, <1>8, <1>9, <1>10, <1>11, <1>12,
     <1>13, <1>14, <1>15, <1>16, <1>18, <1>19, <1>20, <1>21, <1>22, <1>23, <1>24,
     <1>25, <1>26, <1>27, <1>28, <1>29, <1>30, <1>31, <1>32, <1>33, <1>34, <1>35
     DEF Next, ScanStep, ImportStep, FinishStep, StartupStep, Environment

-----------------------------------------------------------------------------
\* What Discard does to the row in hand, whichever of its two steps fail.
LEMMA DiscardedRow ==
  ASSUME TypeOK, slot \in Slots, rowState[slot] = "writing",
         NEW cost \in {0, 1}, Discard(cost)
  PROVE  /\ slot' = Nothing
         /\ rowState'[slot] \in {"writing", "gone"}
         /\ \A s \in Slots : s # slot => rowState'[s] = rowState[s] /\ tmp'[s] = tmp[s]
         /\ UNCHANGED <<rowEntry, rowStamp, rowBytes, rowTry, savedTmp>>
  BY DEF Discard, TypeOK

\* The ways the copy of an entry ends before it is staged.
LEMMA CopyEnding ==
  ASSUME PublishAborts \/ PublishFails
  PROVE  /\ pc \in BeforeStaged
         /\ \E cost \in {0, 1} : Discard(cost)
         /\ \E state \in {"seen", "failed"} : entry' = [entry EXCEPT ![at] = state]
         /\ at' = Nothing
         /\ \/ pc' = "next" /\ outcome' = outcome /\ todo' \in {todo, {}}
            \/ pc' = "idle" /\ outcome' = "failed" /\ todo' = {}
         /\ UNCHANGED <<recorded, mediaOf, media, library, outside, mine, lost, reported>>
<1>1. CASE PublishAborts
  BY <1>1 DEF PublishAborts
<1>2. CASE PublishFails
  BY <1>2 DEF PublishFails
<1>3. QED
  BY <1>1, <1>2

\* The process keeps hold of what its counter says it has in hand.
LEMMA InHandNext == IInv /\ [Next]_vars => InHand'
<1> SUFFICES ASSUME TypeOK, InHand, RowsAreFilled, [Next]_vars PROVE InHand'
  BY DEF IInv
<1> USE NothingIsNothing DEF TypeOK, InHand, Pending
<1>1. ASSUME NEW e \in Entries, SwapCard(e) PROVE InHand'
  BY <1>1 DEF SwapCard
<1>2. ASSUME NEW n \in Names, NEW c \in Contents \cup {Nothing}, Intrude(n, c)
      PROVE  InHand'
  BY <1>2 DEF Intrude
<1>3. CASE UserCancel \/ LeaseExpires
  BY <1>3 DEF UserCancel, LeaseExpires
<1>4. CASE StartScan
  BY <1>4 DEF StartScan, BeginJob
<1>5. ASSUME NEW e \in Entries, ScanFile(e) PROVE InHand'
  BY <1>5 DEF ScanFile
<1>6. ASSUME NEW e \in Entries, ForgetEntry(e) PROVE InHand'
  BY <1>6 DEF ForgetEntry
<1>7. CASE BeginSweep
  BY <1>7 DEF BeginSweep
<1>8. CASE EndScan
  BY <1>8 DEF EndScan, EndJob
<1>9. CASE StartImport
  BY <1>9 DEF StartImport, BeginJob
<1>10. CASE EndImport
  BY <1>10 DEF EndImport, EndJob
<1>11. ASSUME NEW e \in Entries, PickEntry(e) PROVE InHand'
  BY <1>11 DEF PickEntry
<1>12. ASSUME NEW s \in Slots, InsertRow(s) PROVE InHand'
  BY <1>12 DEF InsertRow
<1>13. CASE OpenFile \/ CopyFile \/ SyncFile
  BY <1>13 DEF OpenFile, CopyFile, SyncFile
<1>14. CASE StageRow
  BY <1>14 DEF StageRow
<1>15. CASE PublishAborts \/ PublishFails
  <2>1. slot' = Nothing /\ at' = Nothing /\ todo' \subseteq todo
    BY <1>15, CopyEnding, DiscardedRow
  <2>2. at \in Entries /\ at \notin todo
    BY <1>15, CopyEnding
  <2>3. todo' \subseteq Pending'
    BY <1>15, <2>1, <2>2, CopyEnding
  <2>4. pc' = "next" \/ (pc' = "idle" /\ todo' = {})
    BY <1>15, CopyEnding
  <2>5. QED
    BY <2>1, <2>3, <2>4
<1>16. CASE Link \/ Reuse \/ NextCandidate \/ SyncFolder \/ Unlink \/ SyncStaging
            \/ Adopt
  BY <1>16 DEF Link, Reuse, NextCandidate, SyncFolder, Unlink, SyncStaging, Adopt
<1>17. CASE Commit
  <2>1. slot \in Slots /\ rowState[slot] = "staged" /\ rowEntry[slot] \in Entries
    BY <1>17 DEF Commit, RowsAreFilled
  <2>2. todo \subseteq Pending'
    BY <1>17, <2>1 DEF Commit
  <2>3. QED
    BY <1>17, <2>2 DEF Commit
<1>18. CASE PublishInterrupted
  BY <1>18 DEF PublishInterrupted, EndJob
<1>19. CASE Crash \/ PowerLoss
  <2>1. Stops /\ UNCHANGED <<entry, rowState, rowEntry>>
    BY <1>19 DEF Crash, PowerLoss
  <2>2. QED
    BY <2>1 DEF Stops
<1>20. CASE Boot
  BY <1>20 DEF Boot
<1>21. ASSUME NEW s \in Slots, RecoverWriting(s) \/ RecoverStaged(s) PROVE InHand'
  BY <1>21 DEF RecoverWriting, RecoverStaged
<1>22. CASE RecoveryFails \/ FinishRecovery
  BY <1>22 DEF RecoveryFails, FinishRecovery
<1>23. CASE UNCHANGED vars
  BY <1>23
<1>24. QED
  BY <1>1, <1>2, <1>3, <1>4, <1>5, <1>6, <1>7, <1>8, <1>9, <1>10, <1>11, <1>12,
     <1>13, <1>14, <1>15, <1>16, <1>17, <1>18, <1>19, <1>20, <1>21, <1>22, <1>23
     DEF Next, ScanStep, ImportStep, FinishStep, StartupStep, Environment

-----------------------------------------------------------------------------
\* Columns that are filled stay filled.
LEMMA RowsNext == IInv /\ [Next]_vars => RowsAreFilled'
<1> SUFFICES ASSUME TypeOK, InHand, RowsAreFilled, BytesAreSomewhere, [Next]_vars
             PROVE  RowsAreFilled'
  BY DEF IInv
<1> USE NothingIsNothing DEF TypeOK, RowsAreFilled
<1>1. ASSUME UNCHANGED <<entry, recorded, rows>> PROVE RowsAreFilled'
  BY <1>1
<1>2. ASSUME NEW e \in Entries, ScanFile(e) PROVE RowsAreFilled'
  <2>1. CASE card[e] = Nothing \/ Recognised(e)
    BY <1>2, <2>1 DEF ScanFile
  <2>2. CASE ~(card[e] = Nothing \/ Recognised(e))
    BY <1>2, <2>2 DEF ScanFile
  <2>3. QED
    BY <2>1, <2>2
<1>3. ASSUME NEW e \in Entries, ForgetEntry(e) PROVE RowsAreFilled'
  BY <1>3 DEF ForgetEntry, Vanished
<1>4. ASSUME NEW e \in Entries, PickEntry(e) PROVE RowsAreFilled'
  BY <1>4 DEF PickEntry, InHand, Pending
<1>5. ASSUME NEW s \in Slots, InsertRow(s) PROVE RowsAreFilled'
  <2>1. at \in Entries /\ recorded[at] \in Files
    BY <1>5 DEF InsertRow, InHand
  <2>2. recorded[at].stamp \in Stamps
    BY <2>1 DEF Files
  <2>3. QED
    BY <1>5, <2>1, <2>2 DEF InsertRow
<1>6. CASE StageRow
  BY <1>6 DEF StageRow, InHand, BytesAreSomewhere
<1>7. CASE PublishAborts \/ PublishFails
  <2>1. slot \in Slots /\ rowState[slot] = "writing" /\ at \in Entries
        /\ entry[at] = "importing"
    BY <1>7, CopyEnding DEF InHand
  <2>2. /\ rowState'[slot] \in {"writing", "gone"}
        /\ \A s \in Slots : s # slot => rowState'[s] = rowState[s]
        /\ UNCHANGED <<rowEntry, rowStamp, rowBytes>>
    BY <1>7, <2>1, CopyEnding, DiscardedRow
  <2>3. recorded' = recorded
        /\ \E state \in {"seen", "failed"} : entry' = [entry EXCEPT ![at] = state]
    BY <1>7, CopyEnding
  <2>4. QED
    BY <2>1, <2>2, <2>3
<1>8. CASE NextCandidate
  BY <1>8 DEF NextCandidate
<1>9. CASE Commit
  <2>1. slot \in Slots /\ rowState[slot] = "staged" /\ rowEntry[slot] \in Entries
    BY <1>9 DEF Commit, InHand
  <2>2. entry[rowEntry[slot]] # "none"
    BY <2>1
  <2>3. QED
    BY <1>9, <2>1, <2>2 DEF Commit
<1>10. ASSUME NEW s \in Slots, RecoverWriting(s) PROVE RowsAreFilled'
  BY <1>10 DEF RecoverWriting
<1>11. CASE \/ StartScan \/ BeginSweep \/ EndScan \/ StartImport \/ EndImport
            \/ OpenFile \/ CopyFile \/ SyncFile
  BY <1>1, <1>11 DEF StartScan, BeginSweep, EndScan, StartImport, EndImport,
                     OpenFile, CopyFile, SyncFile
<1>12. CASE \/ Link \/ Reuse \/ SyncFolder \/ Unlink \/ SyncStaging \/ Adopt
            \/ PublishInterrupted
  BY <1>1, <1>12 DEF Link, Reuse, SyncFolder, Unlink, SyncStaging, Adopt,
                     PublishInterrupted
<1>13. CASE \/ Crash \/ PowerLoss \/ Boot \/ (\E s \in Slots : RecoverStaged(s))
            \/ RecoveryFails \/ FinishRecovery
  BY <1>1, <1>13 DEF Crash, PowerLoss, Boot, RecoverStaged, RecoveryFails,
                     FinishRecovery
<1>14. CASE Environment
  BY <1>1, <1>14 DEF Environment, SwapCard, Intrude, UserCancel, LeaseExpires
<1>15. CASE UNCHANGED vars
  BY <1>1, <1>15
<1>16. QED
  BY <1>2, <1>3, <1>4, <1>5, <1>6, <1>7, <1>8, <1>9, <1>10, <1>11, <1>12, <1>13,
     <1>14, <1>15 DEF Next, ScanStep, ImportStep, FinishStep, StartupStep

-----------------------------------------------------------------------------
\* A row whose columns stay and whose file others at most took away is kept.
LEMMA KeptStays ==
  ASSUME NEW s \in Slots, Kept(s),
         UNCHANGED <<rowEntry[s], rowStamp[s], rowBytes[s], rowTry[s]>>,
         removed \subseteq removed',
         \/ RowName(s) \in removed'
         \/ ~InLibrary(RowName(s), rowBytes[s])
         \/ disk'[RowName(s)] = rowBytes[s] /\ saved'[RowName(s)] = rowBytes[s]
  PROVE  Kept(s)' /\ RowName(s)' = RowName(s)
<1>1. RowName(s)' = RowName(s)
  BY DEF RowName
<1>2. QED
  BY <1>1 DEF Kept, Trusted, InLibrary

\* The clauses of BytesAreSomewhere about the row in hand, and about all rows.
BytesInHand ==
    /\ pc \in {"copied", "durable"} => tmp[slot] \in Contents
    /\ pc = "durable" => savedTmp[slot] = tmp[slot]
    /\ pc = "linked" => \/ ~Trusted(RowName(slot))
                        \/ disk[RowName(slot)] = rowBytes[slot]
    /\ pc \in {"synced", "unlinked", "committing"} => Kept(slot)
    /\ pc \in {"unlinked", "committing"} => tmp[slot] = Nothing

StagedBytes(s) ==
    \/ tmp[s] = rowBytes[s] /\ savedTmp[s] = rowBytes[s]
    \/ tmp[s] = Nothing /\ savedTmp[s] \in {Nothing, rowBytes[s]} /\ Kept(s)

\* Every step leaves the bytes of the staged rows somewhere safe.
LEMMA BytesNext == IInv /\ [Next]_vars => BytesAreSomewhere'
<1> SUFFICES ASSUME TypeOK, InHand, RowsAreFilled, BytesAreSomewhere, [Next]_vars
             PROVE  BytesAreSomewhere'
  BY DEF IInv
<1> USE NothingIsNothing DEF TypeOK
<1> DEFINE Plain == {"down", "recovering", "idle", "scanning", "sweeping", "next",
                     "marked", "copying", "linking"}
<1>1. ASSUME UNCHANGED <<rows, library, staging, removed, pc, slot>>
      PROVE  BytesAreSomewhere'
  BY <1>1 DEF BytesAreSomewhere, Kept, Trusted, InLibrary, RowName
<1>2. ASSUME UNCHANGED <<rows, library, staging, removed>>, pc' \in Plain
      PROVE  BytesAreSomewhere'
  BY <1>2 DEF BytesAreSomewhere, Kept, Trusted, InLibrary, RowName
<1>3. ASSUME NEW n \in Names, NEW c \in Contents \cup {Nothing}, Intrude(n, c)
      PROVE  BytesAreSomewhere'
  <2>1. /\ \A m \in Names \ {n} : disk'[m] = disk[m] /\ saved'[m] = saved[m]
        /\ disk'[n] = c /\ saved'[n] = c /\ removed \subseteq removed'
        /\ disk[n] = Nothing \/ n \in removed'
        /\ UNCHANGED <<rows, savedFolders, staging, pc, slot>>
    BY <1>3 DEF Intrude
  <2>2. ASSUME NEW s \in Slots, rowState[s] \in {"staged"}, Kept(s) PROVE Kept(s)'
    <3>1. RowName(s) \in Names /\ rowBytes[s] # Nothing
      BY <2>2, RowNameIsName
    <3>2. QED
      BY <2>1, <2>2, <3>1, KeptStays DEF InLibrary
  <2>3. \A s \in Slots : rowState'[s] = "staged" => StagedBytes(s)'
    BY <2>1, <2>2 DEF StagedBytes, BytesAreSomewhere
  <2>4. CASE pc \in {"linked", "synced", "unlinked", "committing"}
    <3>1. slot \in Slots /\ rowState[slot] = "staged" /\ slot' = slot
      BY <2>1, <2>4 DEF InHand
    <3>2. RowName(slot) \in Names /\ rowBytes[slot] # Nothing
          /\ RowName(slot)' = RowName(slot)
      BY <2>1, <3>1, RowNameIsName DEF RowName
    <3>3. BytesInHand'
      BY <2>1, <2>2, <2>4, <3>1, <3>2
         DEF BytesInHand, BytesAreSomewhere, Trusted, Kept
    <3>4. QED
      BY <2>1, <2>3, <3>3 DEF BytesInHand, StagedBytes, BytesAreSomewhere
  <2>5. CASE pc \notin {"linked", "synced", "unlinked", "committing"}
    BY <2>1, <2>3, <2>5 DEF StagedBytes, BytesAreSomewhere
  <2>6. QED
    BY <2>4, <2>5
<1>4. ASSUME NEW s \in Slots, InsertRow(s) PROVE BytesAreSomewhere'
  <2>1. /\ \A r \in Slots \ {s} : /\ rowState'[r] = rowState[r]
                                 /\ rowEntry'[r] = rowEntry[r]
                                 /\ rowStamp'[r] = rowStamp[r]
        /\ rowState'[s] = "writing" /\ pc' = "copying"
        /\ UNCHANGED <<rowBytes, rowTry, library, staging, removed>>
    BY <1>4 DEF InsertRow
  <2>2. \A r \in Slots \ {s} : Kept(r) => Kept(r)'
    BY <2>1, KeptStays DEF InLibrary
  <2>3. QED
    BY <2>1, <2>2 DEF BytesAreSomewhere
<1>5. CASE OpenFile \/ CopyFile \/ SyncFile
  <2>1. /\ slot \in Slots /\ rowState[slot] = "writing" /\ slot' = slot
        /\ \A r \in Slots \ {slot} : tmp'[r] = tmp[r] /\ savedTmp'[r] = savedTmp[r]
        /\ UNCHANGED <<rows, library, removed>>
    BY <1>5 DEF OpenFile, CopyFile, SyncFile, InHand
  <2>2. \A r \in Slots : Kept(r) => Kept(r)'
    BY <2>1, KeptStays DEF InLibrary
  <2>3. \A r \in Slots : rowState'[r] = "staged" => StagedBytes(r)'
    BY <2>1, <2>2 DEF StagedBytes, BytesAreSomewhere
  <2>4. CASE OpenFile
    BY <2>1, <2>3, <2>4 DEF OpenFile, StagedBytes, BytesAreSomewhere
  <2>5. CASE CopyFile
    <3>1. card[at] \in Files
      BY <2>5 DEF CopyFile, InHand
    <3>2. tmp'[slot] \in Contents
      BY <2>1, <2>5, <3>1 DEF CopyFile, Files
    <3>3. QED
      BY <2>1, <2>3, <2>5, <3>2 DEF CopyFile, StagedBytes, BytesAreSomewhere
  <2>6. CASE SyncFile
    BY <2>1, <2>3, <2>6 DEF SyncFile, StagedBytes, BytesAreSomewhere
  <2>7. QED
    BY <1>5, <2>4, <2>5, <2>6
<1>6. CASE StageRow
  <2>1. /\ slot \in Slots /\ rowState[slot] = "writing"
        /\ \A r \in Slots \ {slot} : /\ rowState'[r] = rowState[r]
                                    /\ rowBytes'[r] = rowBytes[r]
        /\ rowBytes'[slot] = tmp[slot] /\ pc' = "linking"
        /\ UNCHANGED <<rowEntry, rowStamp, rowTry, library, staging, removed>>
    BY <1>6 DEF StageRow, InHand
  <2>2. \A r \in Slots \ {slot} : Kept(r) => Kept(r)'
    BY <2>1, KeptStays DEF InLibrary
  <2>3. savedTmp[slot] = tmp[slot]
    BY <1>6 DEF StageRow, BytesAreSomewhere
  <2>4. QED
    BY <2>1, <2>2, <2>3 DEF BytesAreSomewhere
<1>7. CASE PublishAborts \/ PublishFails
  <2>1. slot \in Slots /\ rowState[slot] = "writing"
    BY <1>7, CopyEnding DEF InHand
  <2>2. /\ rowState'[slot] \in {"writing", "gone"}
        /\ \A r \in Slots \ {slot} : rowState'[r] = rowState[r] /\ tmp'[r] = tmp[r]
        /\ UNCHANGED <<rowEntry, rowStamp, rowBytes, rowTry, savedTmp>>
    BY <1>7, <2>1, CopyEnding, DiscardedRow
  <2>3. pc' \in {"next", "idle"} /\ UNCHANGED <<library, removed>>
    BY <1>7, CopyEnding
  <2>4. \A r \in Slots : Kept(r) => Kept(r)'
    BY <2>2, <2>3, KeptStays DEF InLibrary
  <2>5. QED
    BY <2>2, <2>3, <2>4 DEF BytesAreSomewhere
<1>8. CASE Link
  <2>1. /\ slot \in Slots /\ rowState[slot] = "staged" /\ RowName(slot) \in Names
        /\ rowBytes[slot] # Nothing
    BY <1>8, RowNameIsName DEF Link, InHand
  <2>2. tmp[slot] = rowBytes[slot]
    BY <1>8, <2>1 DEF Link, BytesAreSomewhere
  <2>3. /\ disk[RowName(slot)] = Nothing /\ disk'[RowName(slot)] = rowBytes[slot]
        /\ \A m \in Names \ {RowName(slot)} : disk'[m] = disk[m]
        /\ pc' = "linked" /\ slot' = slot
        /\ UNCHANGED <<rows, saved, savedFolders, staging, removed>>
    BY <1>8, <2>1, <2>2 DEF Link
  <2>4. \A n \in Names : saved'[n] \in {Nothing, disk'[n]}
    BY <2>3 DEF BytesAreSomewhere
  <2>5. ASSUME NEW r \in Slots, rowState[r] \in {"staged"}, Kept(r) PROVE Kept(r)'
    <3>1. RowName(r) \in Names /\ rowBytes[r] # Nothing
      BY <2>5, RowNameIsName
    <3>2. QED
      BY <2>3, <2>5, <3>1, KeptStays DEF InLibrary
  <2>6. RowName(slot)' = RowName(slot)
    BY <2>3 DEF RowName
  <2>7. QED
    BY <2>3, <2>4, <2>5, <2>6 DEF BytesAreSomewhere
<1>9. CASE Reuse
  BY <1>9 DEF Reuse, BytesAreSomewhere, Kept, Trusted, InLibrary, RowName
<1>10. CASE NextCandidate
  <2>1. /\ slot \in Slots /\ rowState[slot] = "staged" /\ tmp[slot] # Nothing
        /\ \A r \in Slots \ {slot} : rowTry'[r] = rowTry[r]
        /\ pc' = "linking"
        /\ UNCHANGED <<rowState, rowEntry, rowStamp, rowBytes, library, staging, removed>>
    BY <1>10 DEF NextCandidate, InHand
  <2>2. \A r \in Slots \ {slot} : Kept(r) => Kept(r)'
    BY <2>1, KeptStays DEF InLibrary
  <2>3. QED
    BY <2>1, <2>2 DEF BytesAreSomewhere
<1>11. CASE SyncFolder \/ Adopt
  <2>1. /\ slot \in Slots /\ rowState[slot] = "staged" /\ RowName(slot) \in Names
        /\ rowBytes[slot] \in Contents
    BY <1>11, RowNameIsName DEF SyncFolder, Adopt, InHand
  <2>2. /\ \A n \in Names : saved'[n] = disk[n] \/ saved'[n] = saved[n]
        /\ saved'[RowName(slot)] = disk[RowName(slot)]
    BY <1>11, <2>1 DEF SyncFolder, Adopt, FolderSynced
  <2>3. /\ slot' = slot /\ disk' = disk
        /\ UNCHANGED <<rows, savedFolders, staging, removed>>
    BY <1>11 DEF SyncFolder, Adopt
  <2>4. \A n \in Names : saved'[n] \in {Nothing, disk'[n]}
    BY <2>2, <2>3 DEF BytesAreSomewhere
  <2>5. ASSUME NEW r \in Slots, rowState[r] \in {"staged"}, Kept(r) PROVE Kept(r)'
    <3>1. RowName(r) \in Names
      BY <2>5, RowNameIsName
    <3>2. QED
      BY <2>2, <2>3, <2>5, <3>1, KeptStays DEF InLibrary
  <2>6. RowName(slot)' = RowName(slot)
    BY <2>3 DEF RowName
  <2>7. CASE SyncFolder
    <3>1. Trusted(RowName(slot)) => /\ disk'[RowName(slot)] = rowBytes[slot]
                                    /\ saved'[RowName(slot)] = rowBytes[slot]
      BY <2>2, <2>3, <2>7 DEF SyncFolder, BytesAreSomewhere, InLibrary
    <3>2. Kept(slot)'
      BY <2>3, <2>6, <3>1 DEF Kept, Trusted, InLibrary
    <3>3. QED
      BY <2>3, <2>4, <2>5, <2>7, <3>2 DEF SyncFolder, BytesAreSomewhere
  <2>8. CASE Adopt
    <3>1. Kept(slot)'
      BY <2>2, <2>3, <2>6, <2>8 DEF Adopt, Kept, InLibrary
    <3>2. QED
      BY <2>3, <2>4, <2>5, <2>8, <3>1 DEF Adopt, BytesAreSomewhere
  <2>9. QED
    BY <1>11, <2>7, <2>8
<1>12. CASE Unlink \/ SyncStaging
  <2>1. /\ slot \in Slots /\ rowState[slot] = "staged" /\ Kept(slot)
        /\ tmp'[slot] = Nothing /\ savedTmp'[slot] \in {savedTmp[slot], Nothing}
        /\ savedTmp[slot] \in {Nothing, rowBytes[slot]}
        /\ \A r \in Slots \ {slot} : tmp'[r] = tmp[r] /\ savedTmp'[r] = savedTmp[r]
        /\ UNCHANGED <<rows, library, removed, slot>>
        /\ pc' \in {"unlinked", "committing"}
    BY <1>12 DEF Unlink, SyncStaging, InHand, BytesAreSomewhere
  <2>2. \A r \in Slots : Kept(r) => Kept(r)'
    BY <2>1, KeptStays DEF InLibrary
  <2>3. QED
    BY <2>1, <2>2 DEF BytesAreSomewhere
<1>13. CASE Commit
  <2>1. /\ \A r \in Slots : rowState'[r] = "staged" => rowState[r] = "staged"
        /\ pc' \in {"recovering", "next"}
        /\ UNCHANGED <<rowEntry, rowStamp, rowBytes, rowTry, library, staging, removed>>
    BY <1>13 DEF Commit
  <2>2. \A r \in Slots : Kept(r) => Kept(r)'
    BY <2>1, KeptStays DEF InLibrary
  <2>3. QED
    BY <2>1, <2>2 DEF BytesAreSomewhere
<1>14. CASE PowerLoss
  <2>1. PICK gone \in SUBSET (Folders \ savedFolders),
             undone \in SUBSET {n \in Names : disk[n] # saved[n]},
             back \in SUBSET {s \in Slots : tmp[s] # savedTmp[s]} :
          LET after == [n \in Names |-> IF Folder(n) \in gone THEN Nothing
                                        ELSE IF n \in undone THEN saved[n] ELSE disk[n]]
          IN /\ disk' = after
             /\ saved' = after
             /\ savedFolders' = savedFolders \cup
                    {Folder(n) : n \in {m \in Names : after[m] # Nothing}}
             /\ tmp' = [s \in Slots |-> IF s \in back THEN savedTmp[s] ELSE tmp[s]]
             /\ savedTmp' = tmp'
    BY <1>14 DEF PowerLoss
  <2>2. pc' = "down" /\ UNCHANGED <<rows, removed>>
    BY <1>14 DEF PowerLoss, Stops
  <2>3. savedFolders \subseteq savedFolders' /\ saved' = disk'
    BY <2>1
  <2>4. ASSUME NEW n \in Names, NEW c, Folder(n) \in KnownFolders, InLibrary(n, c)
        PROVE  InLibrary(n, c)'
    <3>1. Folder(n) \notin gone /\ n \notin undone
      BY <2>4 DEF BytesAreSomewhere, InLibrary
    <3>2. QED
      BY <2>1, <2>4, <3>1 DEF InLibrary
  <2>5. ASSUME NEW s \in Slots, rowState[s] \in {"staged"}, Kept(s) PROVE Kept(s)'
    <3>1. RowName(s) \in Names /\ RowName(s)' = RowName(s)
      BY <2>2, <2>5, RowNameIsName DEF RowName
    <3>2. QED
      BY <2>2, <2>4, <2>5, <3>1 DEF Kept, Trusted, InLibrary
  <2>6. \A s \in Slots : tmp'[s] \in {tmp[s], savedTmp[s]} /\ savedTmp'[s] = tmp'[s]
    BY <2>1
  <2>7. \A s \in Slots : rowState'[s] = "staged" => StagedBytes(s)'
    BY <2>2, <2>5, <2>6 DEF BytesAreSomewhere, StagedBytes
  <2>8. QED
    BY <2>2, <2>3, <2>7 DEF BytesAreSomewhere, StagedBytes
<1>15. CASE (\E s \in Slots : RecoverWriting(s)) \/ FinishRecovery
  <2>1. /\ \A r \in Slots : rowState'[r] = "staged" =>
                               rowState[r] = "staged" /\ tmp'[r] = tmp[r]
        /\ UNCHANGED <<rowEntry, rowStamp, rowBytes, rowTry, library, savedTmp, removed>>
        /\ pc' \in {"recovering", "idle"}
    BY <1>15 DEF RecoverWriting, FinishRecovery
  <2>2. \A r \in Slots : Kept(r) => Kept(r)'
    BY <2>1, KeptStays DEF InLibrary
  <2>3. QED
    BY <2>1, <2>2 DEF BytesAreSomewhere
<1>16. CASE ScanStep \/ StartImport \/ EndImport \/ (\E e \in Entries : PickEntry(e))
  <2>1. pc' \in Plain /\ UNCHANGED <<rows, library, staging, removed>>
    BY <1>16 DEF ScanStep, StartScan, BeginSweep, EndScan, ScanFile, ForgetEntry,
                 StartImport, EndImport, PickEntry, BeginJob, EndJob
  <2>2. QED
    BY <1>2, <2>1
<1>17. CASE PublishInterrupted \/ Crash \/ Boot \/ RecoveryFails
            \/ \E s \in Slots : RecoverStaged(s)
  <2>1. pc' \in Plain /\ UNCHANGED <<rows, library, staging, removed>>
    BY <1>17 DEF PublishInterrupted, Crash, Stops, Boot, RecoveryFails,
                 RecoverStaged, EndJob
  <2>2. QED
    BY <1>2, <2>1
<1>18. CASE \/ (\E e \in Entries : SwapCard(e)) \/ UserCancel \/ LeaseExpires
            \/ UNCHANGED vars
  BY <1>1, <1>18 DEF SwapCard, UserCancel, LeaseExpires
<1>19. QED
  BY <1>3, <1>4, <1>5, <1>6, <1>7, <1>8, <1>9, <1>10, <1>11, <1>12, <1>13, <1>14,
     <1>15, <1>16, <1>17, <1>18
     DEF Next, ImportStep, FinishStep, StartupStep, Environment

-----------------------------------------------------------------------------
\* A committed file is the one the catalogue has, if the name can be trusted.
LEMMA CommittedIsCatalogued ==
  ASSUME TypeOK, InHand, RowsAreFilled, BytesAreSomewhere, CatalogueIsOnDisk, Commit
  PROVE  /\ slot \in Slots /\ rowState[slot] = "staged" /\ rowEntry[slot] \in Entries
         /\ RowName(slot) \in Names /\ rowBytes[slot] \in Contents
         /\ Kept(slot)
         /\ Trusted(RowName(slot)) => catalog'[RowName(slot)] = rowBytes[slot]
         /\ \A n \in Names : catalog[n] # Nothing => catalog'[n] = catalog[n]
         /\ \A n \in Names \ {RowName(slot)} : catalog'[n] = catalog[n]
<1>1. slot \in Slots /\ rowState[slot] = "staged" /\ Kept(slot)
  BY DEF Commit, InHand, BytesAreSomewhere
<1>2. /\ RowName(slot) \in Names /\ rowBytes[slot] \in Contents
      /\ rowEntry[slot] \in Entries
  BY <1>1, RowNameIsName
<1>3. catalog' = [catalog EXCEPT ![RowName(slot)] =
                                    IF @ = Nothing THEN rowBytes[slot] ELSE @]
  BY DEF Commit, Catalogued
<1>4. CASE catalog[RowName(slot)] = Nothing
  BY <1>1, <1>2, <1>3, <1>4 DEF TypeOK
<1>5. CASE catalog[RowName(slot)] # Nothing
  <2>1. Trusted(RowName(slot)) => catalog[RowName(slot)] = rowBytes[slot]
    BY <1>1, <1>2, <1>5 DEF Kept, CatalogueIsOnDisk, InLibrary
  <2>2. QED
    BY <1>1, <1>2, <1>3, <1>5, <2>1 DEF TypeOK
<1>6. QED
  BY <1>4, <1>5

\* What the catalogue records stays in the library.
LEMMA CatalogueNext == IInv /\ [Next]_vars => CatalogueIsOnDisk'
<1> SUFFICES ASSUME TypeOK, InHand, RowsAreFilled, BytesAreSomewhere,
                    CatalogueIsOnDisk, [Next]_vars
             PROVE  CatalogueIsOnDisk'
  BY DEF IInv
<1> USE NothingIsNothing DEF TypeOK
<1>1. ASSUME catalog' = catalog, removed \subseteq removed',
             \A n \in Names : \A c : (Trusted(n) /\ c # Nothing /\ InLibrary(n, c)) =>
                \/ n \in removed'
                \/ disk'[n] = c /\ saved'[n] = c
      PROVE  CatalogueIsOnDisk'
  BY <1>1 DEF CatalogueIsOnDisk, Trusted, InLibrary
<1>2. ASSUME UNCHANGED <<catalog, disk, saved, removed>> PROVE CatalogueIsOnDisk'
  BY <1>2 DEF CatalogueIsOnDisk, Trusted, InLibrary
<1>3. ASSUME NEW n \in Names, NEW c \in Contents \cup {Nothing}, Intrude(n, c)
      PROVE  CatalogueIsOnDisk'
  BY <1>1, <1>3 DEF Intrude, InLibrary
<1>4. CASE Link
  BY <1>1, <1>4 DEF Link, InLibrary
<1>5. CASE SyncFolder \/ Adopt
  BY <1>1, <1>5 DEF SyncFolder, Adopt, FolderSynced, InLibrary
<1>6. CASE Commit
  <2>1. UNCHANGED <<disk, saved, removed>>
    BY <1>6 DEF Commit
  <2>2. \A n \in Names : (catalog'[n] # Nothing /\ Trusted(n)) => InLibrary(n, catalog'[n])
    BY <1>6, CommittedIsCatalogued DEF CatalogueIsOnDisk, Kept
  <2>3. QED
    BY <2>1, <2>2 DEF CatalogueIsOnDisk, Trusted, InLibrary
<1>7. CASE PowerLoss
  <2>1. PICK gone \in SUBSET (Folders \ savedFolders),
             undone \in SUBSET {n \in Names : disk[n] # saved[n]},
             back \in SUBSET {s \in Slots : tmp[s] # savedTmp[s]} :
          LET after == [n \in Names |-> IF Folder(n) \in gone THEN Nothing
                                        ELSE IF n \in undone THEN saved[n] ELSE disk[n]]
          IN /\ disk' = after
             /\ saved' = after
             /\ savedFolders' = savedFolders \cup
                    {Folder(n) : n \in {m \in Names : after[m] # Nothing}}
             /\ tmp' = [s \in Slots |-> IF s \in back THEN savedTmp[s] ELSE tmp[s]]
             /\ savedTmp' = tmp'
    BY <1>7 DEF PowerLoss
  <2>2. catalog' = catalog /\ removed' = removed
    BY <1>7 DEF PowerLoss
  <2>3. ASSUME NEW n \in Names, NEW c, Trusted(n), InLibrary(n, c)
        PROVE  disk'[n] = c /\ saved'[n] = c
    <3>1. Folder(n) \notin gone /\ n \notin undone
      BY <2>3 DEF BytesAreSomewhere, InLibrary, Trusted
    <3>2. QED
      BY <2>1, <2>3, <3>1 DEF InLibrary
  <2>4. QED
    BY <1>1, <2>2, <2>3
<1>8. CASE ScanStep
  BY <1>2, <1>8 DEF ScanStep, StartScan, BeginSweep, EndScan, ScanFile, ForgetEntry
<1>9. CASE ImportStep
  <2>1. CASE PublishAborts \/ PublishFails
    BY <1>2, <2>1, CopyEnding
  <2>2. CASE ~(PublishAborts \/ PublishFails)
    BY <1>2, <1>9, <2>2 DEF ImportStep, StartImport, EndImport, PickEntry, InsertRow,
                            OpenFile, CopyFile, SyncFile, StageRow
  <2>3. QED
    BY <2>1, <2>2
<1>10. CASE \/ Reuse \/ NextCandidate \/ Unlink \/ SyncStaging \/ PublishInterrupted
  BY <1>2, <1>10 DEF Reuse, NextCandidate, Unlink, SyncStaging, PublishInterrupted
<1>11. CASE \/ Crash \/ Boot \/ RecoveryFails \/ FinishRecovery
            \/ \E s \in Slots : RecoverWriting(s) \/ RecoverStaged(s)
  BY <1>2, <1>11 DEF Crash, Boot, RecoverWriting, RecoverStaged, RecoveryFails,
                     FinishRecovery
<1>12. CASE \/ (\E e \in Entries : SwapCard(e)) \/ UserCancel \/ LeaseExpires
            \/ UNCHANGED vars
  BY <1>2, <1>12 DEF SwapCard, UserCancel, LeaseExpires
<1>13. QED
  BY <1>3, <1>4, <1>5, <1>6, <1>7, <1>8, <1>9, <1>10, <1>11, <1>12
     DEF Next, FinishStep, StartupStep, Environment

-----------------------------------------------------------------------------
\* The published row an imported entry came from.
CameFrom(e, s) == /\ rowState[s] = "published"
                  /\ rowEntry[s] = e
                  /\ mediaOf[e] = RowName(s)
                  /\ Trusted(RowName(s)) => catalog[RowName(s)] = rowBytes[s]

\* Entries name catalogued files exactly while they are published.
LEMMA EntriesNext == IInv /\ [Next]_vars => ImportedEntriesAreCatalogued'
<1> SUFFICES ASSUME TypeOK, InHand, RowsAreFilled, BytesAreSomewhere,
                    CatalogueIsOnDisk, ImportedEntriesAreCatalogued, [Next]_vars
             PROVE  ImportedEntriesAreCatalogued'
  BY DEF IInv
<1> USE NothingIsNothing DEF TypeOK
<1>1. ASSUME \A s \in Slots : rowState[s] = "published" =>
                /\ rowState'[s] = "published"
                /\ UNCHANGED <<rowEntry[s], rowStamp[s], rowBytes[s], rowTry[s]>>,
             \A n \in Names : catalog[n] # Nothing => catalog'[n] = catalog[n],
             removed \subseteq removed',
             \A e \in Entries : IF entry'[e] = "published"
                                THEN entry[e] = "published" /\ mediaOf'[e] = mediaOf[e]
                                ELSE mediaOf'[e] = Nothing
      PROVE  ImportedEntriesAreCatalogued'
  <2>1. ASSUME NEW e \in Entries, NEW s \in Slots, mediaOf'[e] = mediaOf[e], CameFrom(e, s)
        PROVE  CameFrom(e, s)'
    <3>1. RowName(s)' = RowName(s) /\ RowName(s) \in Names /\ rowBytes[s] # Nothing
      BY <1>1, <2>1, RowNameIsName DEF RowName, CameFrom
    <3>2. QED
      BY <1>1, <2>1, <3>1 DEF CameFrom, Trusted
  <2>2. QED
    BY <1>1, <2>1 DEF ImportedEntriesAreCatalogued, CameFrom
<1>2. ASSUME UNCHANGED <<entry, mediaOf, catalog, rows>>, removed \subseteq removed'
      PROVE  ImportedEntriesAreCatalogued'
  BY <1>1, <1>2 DEF ImportedEntriesAreCatalogued
<1>3. ASSUME NEW e \in Entries, ScanFile(e) PROVE ImportedEntriesAreCatalogued'
  <2>1. CASE card[e] = Nothing \/ Recognised(e)
    BY <1>2, <1>3, <2>1 DEF ScanFile
  <2>2. CASE ~(card[e] = Nothing \/ Recognised(e))
    <3>1. /\ entry' = [entry EXCEPT ![e] = "seen"]
          /\ mediaOf' = [mediaOf EXCEPT ![e] = Nothing]
          /\ UNCHANGED <<rows, catalog, removed>>
      BY <1>3, <2>2 DEF ScanFile
    <3>2. QED
      BY <1>1, <3>1 DEF ImportedEntriesAreCatalogued
  <2>3. QED
    BY <2>1, <2>2
<1>4. ASSUME NEW e \in Entries, ForgetEntry(e) \/ PickEntry(e)
      PROVE  ImportedEntriesAreCatalogued'
  <2>1. /\ entry[e] # "published"
        /\ entry' = [entry EXCEPT ![e] = "none"] \/ entry' = [entry EXCEPT ![e] = "importing"]
        /\ UNCHANGED <<mediaOf, rows, catalog, removed>>
    BY <1>4 DEF ForgetEntry, Vanished, PickEntry, InHand, Pending
  <2>2. QED
    BY <1>1, <2>1 DEF ImportedEntriesAreCatalogued
<1>5. ASSUME NEW s \in Slots, InsertRow(s) PROVE ImportedEntriesAreCatalogued'
  <2>1. /\ rowState[s] = "free"
        /\ \A r \in Slots \ {s} : /\ rowState'[r] = rowState[r]
                                 /\ rowEntry'[r] = rowEntry[r]
                                 /\ rowStamp'[r] = rowStamp[r]
        /\ UNCHANGED <<entry, mediaOf, rowBytes, rowTry, catalog, removed>>
    BY <1>5 DEF InsertRow
  <2>2. QED
    BY <1>1, <2>1 DEF ImportedEntriesAreCatalogued
<1>6. CASE StageRow
  <2>1. /\ slot \in Slots /\ rowState[slot] = "writing"
        /\ \A r \in Slots \ {slot} : /\ rowState'[r] = rowState[r]
                                    /\ rowBytes'[r] = rowBytes[r]
        /\ UNCHANGED <<entry, mediaOf, rowEntry, rowStamp, rowTry, catalog, removed>>
    BY <1>6 DEF StageRow, InHand
  <2>2. QED
    BY <1>1, <2>1 DEF ImportedEntriesAreCatalogued
<1>7. CASE PublishAborts \/ PublishFails
  <2>1. slot \in Slots /\ rowState[slot] = "writing" /\ at \in Entries
        /\ entry[at] = "importing"
    BY <1>7, CopyEnding DEF InHand
  <2>2. /\ \A r \in Slots \ {slot} : rowState'[r] = rowState[r]
        /\ UNCHANGED <<rowEntry, rowStamp, rowBytes, rowTry>>
    BY <1>7, <2>1, CopyEnding, DiscardedRow
  <2>3. \E state \in {"seen", "failed"} : entry' = [entry EXCEPT ![at] = state]
    BY <1>7, CopyEnding
  <2>4. UNCHANGED <<mediaOf, catalog, removed>>
    BY <1>7, CopyEnding
  <2>5. QED
    BY <1>1, <2>1, <2>2, <2>3, <2>4 DEF ImportedEntriesAreCatalogued
<1>8. CASE NextCandidate
  <2>1. /\ slot \in Slots /\ rowState[slot] = "staged"
        /\ \A r \in Slots \ {slot} : rowTry'[r] = rowTry[r]
        /\ UNCHANGED <<entry, mediaOf, rowState, rowEntry, rowStamp, rowBytes, catalog,
                       removed>>
    BY <1>8 DEF NextCandidate, InHand
  <2>2. QED
    BY <1>1, <2>1 DEF ImportedEntriesAreCatalogued
<1>9. CASE Commit
  <2>1. /\ slot \in Slots /\ rowState[slot] = "staged" /\ rowEntry[slot] \in Entries
        /\ Trusted(RowName(slot)) => catalog'[RowName(slot)] = rowBytes[slot]
        /\ \A n \in Names : catalog[n] # Nothing => catalog'[n] = catalog[n]
    BY <1>9, CommittedIsCatalogued
  <2>2. /\ entry' = [entry EXCEPT ![rowEntry[slot]] = "published"]
        /\ mediaOf' = [mediaOf EXCEPT ![rowEntry[slot]] = RowName(slot)]
        /\ rowState' = [rowState EXCEPT ![slot] = "published"]
        /\ UNCHANGED <<rowEntry, rowStamp, rowBytes, rowTry, removed>>
    BY <1>9 DEF Commit
  <2>3. \A s \in Slots : RowName(s)' = RowName(s)
    BY <2>2 DEF RowName
  <2>4. ASSUME NEW e \in Entries, NEW s \in Slots, e = rowEntry[slot], s = slot
        PROVE  CameFrom(e, s)'
    BY <2>1, <2>2, <2>3, <2>4 DEF CameFrom, Trusted
  <2>5. ASSUME NEW e \in Entries \ {rowEntry[slot]}, NEW s \in Slots, CameFrom(e, s)
        PROVE  CameFrom(e, s)'
    <3>1. RowName(s) \in Names /\ rowBytes[s] # Nothing
      BY <2>5, RowNameIsName DEF CameFrom
    <3>2. QED
      BY <2>1, <2>2, <2>3, <2>5, <3>1 DEF CameFrom, Trusted
  <2>6. ASSUME NEW e \in Entries
        PROVE  IF entry'[e] = "published" THEN \E s \in Slots : CameFrom(e, s)'
                                          ELSE mediaOf'[e] = Nothing
    <3>1. CASE e = rowEntry[slot]
      BY <2>1, <2>2, <2>4, <3>1
    <3>2. CASE e # rowEntry[slot]
      BY <2>1, <2>2, <2>5, <3>2 DEF ImportedEntriesAreCatalogued, CameFrom
    <3>3. QED
      BY <3>1, <3>2
  <2>7. QED
    BY <2>6 DEF ImportedEntriesAreCatalogued, CameFrom
<1>10. ASSUME NEW s \in Slots, RecoverWriting(s) PROVE ImportedEntriesAreCatalogued'
  <2>1. /\ rowState[s] = "writing"
        /\ \A r \in Slots \ {s} : rowState'[r] = rowState[r]
        /\ UNCHANGED <<entry, mediaOf, rowEntry, rowStamp, rowBytes, rowTry, catalog,
                       removed>>
    BY <1>10 DEF RecoverWriting
  <2>2. QED
    BY <1>1, <2>1 DEF ImportedEntriesAreCatalogued
<1>11. CASE \/ StartScan \/ BeginSweep \/ EndScan \/ StartImport \/ EndImport
            \/ OpenFile \/ CopyFile \/ SyncFile
  BY <1>2, <1>11 DEF StartScan, BeginSweep, EndScan, StartImport, EndImport,
                     OpenFile, CopyFile, SyncFile
<1>12. CASE \/ Link \/ Reuse \/ SyncFolder \/ Unlink \/ SyncStaging \/ Adopt
            \/ PublishInterrupted
  BY <1>2, <1>12 DEF Link, Reuse, SyncFolder, Unlink, SyncStaging, Adopt,
                     PublishInterrupted
<1>13. CASE \/ Crash \/ PowerLoss \/ Boot \/ (\E s \in Slots : RecoverStaged(s))
            \/ RecoveryFails \/ FinishRecovery
  BY <1>2, <1>13 DEF Crash, PowerLoss, Boot, RecoverStaged, RecoveryFails,
                     FinishRecovery
<1>14. CASE Environment
  BY <1>2, <1>14 DEF Environment, SwapCard, Intrude, UserCancel, LeaseExpires
<1>15. CASE UNCHANGED vars
  BY <1>2, <1>15
<1>16. QED
  BY <1>3, <1>4, <1>5, <1>6, <1>7, <1>8, <1>9, <1>10, <1>11, <1>12, <1>13, <1>14,
     <1>15 DEF Next, ScanStep, ImportStep, FinishStep, StartupStep

-----------------------------------------------------------------------------
\* A staged row of the job is in hand or the job has failed.
LEMMA AccountNext == IInv /\ [Next]_vars => StagedIsAccountedFor'
<1> SUFFICES ASSUME TypeOK, InHand, RowsAreFilled, StagedIsAccountedFor, [Next]_vars
             PROVE  StagedIsAccountedFor'
  BY DEF IInv
<1> USE NothingIsNothing DEF TypeOK, InHand, StagedIsAccountedFor, JobRuns
<1>1. CASE UNCHANGED <<rowState, pc, slot, at, job, recovery>>
  BY <1>1
<1>2. CASE StartScan \/ StartImport
  BY <1>2 DEF StartScan, StartImport, BeginJob
<1>3. CASE BeginSweep
  BY <1>3 DEF BeginSweep
<1>4. CASE EndScan \/ EndImport
  BY <1>4 DEF EndScan, EndImport, EndJob
<1>5. ASSUME NEW e \in Entries, PickEntry(e) PROVE StagedIsAccountedFor'
  BY <1>5 DEF PickEntry
<1>6. ASSUME NEW s \in Slots, InsertRow(s) PROVE StagedIsAccountedFor'
  BY <1>6 DEF InsertRow
<1>7. CASE OpenFile \/ CopyFile \/ SyncFile
  BY <1>7 DEF OpenFile, CopyFile, SyncFile
<1>8. CASE StageRow
  BY <1>8 DEF StageRow
<1>9. CASE PublishAborts \/ PublishFails
  <2>1. slot \in Slots /\ rowState[slot] = "writing" /\ pc \in BeforeStaged
    BY <1>9, CopyEnding
  <2>2. /\ rowState'[slot] \in {"writing", "gone"} /\ slot' = Nothing
        /\ \A s \in Slots : s # slot => rowState'[s] = rowState[s]
    BY <1>9, <2>1, CopyEnding, DiscardedRow
  <2>3. \/ pc' = "next" /\ outcome' = outcome
        \/ pc' = "idle" /\ outcome' = "failed"
    BY <1>9, CopyEnding
  <2>4. UNCHANGED <<mine, lost, reported>>
    BY <1>9, CopyEnding
  <2>5. outcome = "none"
    BY <2>1
  <2>6. QED
    BY <2>1, <2>2, <2>3, <2>4, <2>5
<1>10. CASE \/ Link \/ Reuse \/ NextCandidate \/ SyncFolder \/ Unlink \/ SyncStaging
            \/ Adopt
  BY <1>10 DEF Link, Reuse, NextCandidate, SyncFolder, Unlink, SyncStaging, Adopt
<1>11. CASE Commit
  BY <1>11 DEF Commit
<1>12. CASE PublishInterrupted
  BY <1>12 DEF PublishInterrupted, EndJob
<1>13. CASE Crash \/ PowerLoss
  <2>1. Stops /\ UNCHANGED <<rowState, mine, lost, reported>>
    BY <1>13 DEF Crash, PowerLoss
  <2>2. QED
    BY <2>1 DEF Stops
<1>14. CASE Boot
  BY <1>14 DEF Boot
<1>15. ASSUME NEW s \in Slots, RecoverWriting(s) PROVE StagedIsAccountedFor'
  BY <1>15 DEF RecoverWriting
<1>16. ASSUME NEW s \in Slots, RecoverStaged(s) PROVE StagedIsAccountedFor'
  BY <1>16 DEF RecoverStaged, ToRecover
<1>17. CASE RecoveryFails
  BY <1>17 DEF RecoveryFails
<1>18. CASE FinishRecovery
  BY <1>18 DEF FinishRecovery
<1>19. CASE Environment \/ UNCHANGED vars
  BY <1>1, <1>19 DEF Environment, SwapCard, Intrude, UserCancel, LeaseExpires
<1>20. ASSUME NEW e \in Entries, ScanFile(e) \/ ForgetEntry(e)
       PROVE  StagedIsAccountedFor'
  BY <1>1, <1>20 DEF ScanFile, ForgetEntry
<1>21. QED
  BY <1>2, <1>3, <1>4, <1>5, <1>6, <1>7, <1>8, <1>9, <1>10, <1>11, <1>12, <1>13,
     <1>14, <1>15, <1>16, <1>17, <1>18, <1>19, <1>20
     DEF Next, ScanStep, ImportStep, FinishStep, StartupStep

-----------------------------------------------------------------------------
\* A row is given up only when somebody took its file away.
LEMMA LostNext == IInv /\ [Next]_vars => NothingIsLost'
<1> SUFFICES ASSUME TypeOK, InHand, RowsAreFilled, BytesAreSomewhere,
                    StagedIsAccountedFor, NothingIsLost, [Next]_vars
             PROVE  NothingIsLost'
  BY DEF IInv
<1> USE DEF TypeOK
<1>1. ASSUME lost' = lost, removed \subseteq removed',
             \A s \in lost : UNCHANGED <<rowEntry[s], rowStamp[s], rowBytes[s], rowTry[s]>>
      PROVE  NothingIsLost'
  BY <1>1 DEF NothingIsLost, Trusted, RowName
<1>2. ASSUME UNCHANGED <<lost, removed, rowEntry, rowStamp, rowBytes, rowTry>>
      PROVE  NothingIsLost'
  BY <1>1, <1>2
<1>3. ASSUME NEW s \in Slots, InsertRow(s) PROVE NothingIsLost'
  BY <1>1, <1>3 DEF InsertRow, StagedIsAccountedFor
<1>4. CASE StageRow
  BY <1>1, <1>4 DEF StageRow, InHand, StagedIsAccountedFor
<1>5. CASE NextCandidate
  BY <1>1, <1>5 DEF NextCandidate, InHand, StagedIsAccountedFor
<1>6. CASE PublishAborts \/ PublishFails
  <2>1. UNCHANGED <<rowEntry, rowStamp, rowBytes, rowTry>>
    BY <1>6, CopyEnding, DiscardedRow DEF InHand
  <2>2. QED
    BY <1>2, <1>6, <2>1, CopyEnding
<1>7. CASE Boot
  BY <1>7 DEF Boot, NothingIsLost
<1>8. CASE RecoveryFails
  <2>1. UNCHANGED <<rows, removed>>
    BY <1>8 DEF RecoveryFails
  <2>2. CASE lost' = lost
    BY <1>2, <2>1, <2>2
  <2>3. CASE /\ pc = "linking" /\ tmp[slot] = Nothing
             /\ disk[RowName(slot)] # rowBytes[slot]
             /\ lost' = lost \cup {slot}
    <3>1. slot \in Slots /\ rowState[slot] = "staged" /\ rowBytes[slot] # Nothing
      BY <2>3 DEF InHand, RowsAreFilled
    <3>2. Kept(slot)
      BY <2>3, <3>1 DEF BytesAreSomewhere
    <3>3. ~Trusted(RowName(slot))
      BY <2>3, <3>2 DEF Kept, InLibrary
    <3>4. QED
      BY <2>1, <2>3, <3>3 DEF NothingIsLost, Trusted, RowName
  <2>4. QED
    BY <1>8, <2>2, <2>3 DEF RecoveryFails
<1>9. CASE ScanStep
  BY <1>2, <1>9 DEF ScanStep, StartScan, BeginSweep, EndScan, ScanFile, ForgetEntry
<1>10. CASE \/ StartImport \/ EndImport \/ OpenFile \/ CopyFile \/ SyncFile
            \/ \E e \in Entries : PickEntry(e)
  BY <1>2, <1>10 DEF StartImport, EndImport, PickEntry, OpenFile, CopyFile, SyncFile
<1>11. CASE \/ Link \/ Reuse \/ SyncFolder \/ Unlink \/ SyncStaging \/ Adopt \/ Commit
            \/ PublishInterrupted
  BY <1>2, <1>11 DEF Link, Reuse, SyncFolder, Unlink, SyncStaging, Adopt, Commit,
                     PublishInterrupted
<1>12. CASE \/ Crash \/ PowerLoss \/ FinishRecovery
            \/ \E s \in Slots : RecoverWriting(s) \/ RecoverStaged(s)
  BY <1>2, <1>12 DEF Crash, PowerLoss, RecoverWriting, RecoverStaged, FinishRecovery
<1>13. CASE Environment \/ UNCHANGED vars
  BY <1>1, <1>13 DEF Environment, SwapCard, Intrude, UserCancel, LeaseExpires
<1>14. QED
  BY <1>3, <1>4, <1>5, <1>6, <1>7, <1>8, <1>9, <1>10, <1>11, <1>12, <1>13
     DEF Next, ImportStep, FinishStep, StartupStep

-----------------------------------------------------------------------------
\* The initial states satisfy the rest of the invariant.
LEMMA SafeInit == Init => IInv
<1> SUFFICES ASSUME Init PROVE IInv
  OBVIOUS
<1>1. TypeOK
  BY TypeInit
<1>2. InHand /\ RowsAreFilled /\ StagedIsAccountedFor
  BY NothingIsNothing DEF Init, InHand, RowsAreFilled, StagedIsAccountedFor, JobRuns
<1>3. BytesAreSomewhere
  BY DEF Init, BytesAreSomewhere
<1>4. CatalogueIsOnDisk /\ ImportedEntriesAreCatalogued /\ NothingIsLost
  BY DEF Init, CatalogueIsOnDisk, ImportedEntriesAreCatalogued, NothingIsLost
<1>5. QED
  BY <1>1, <1>2, <1>3, <1>4 DEF IInv

\* The strengthened invariant holds in every reachable state.
THEOREM Inductive == Spec => []IInv
<1>1. IInv /\ [Next]_vars => IInv'
  BY TypeNext, InHandNext, RowsNext, BytesNext, CatalogueNext, EntriesNext,
     AccountNext, LostNext DEF IInv
<1>2. QED
  BY <1>1, SafeInit, PTL DEF Spec

\* Every variable keeps its type.
THEOREM TypeCorrect == Spec => []TypeOK
  BY Inductive, PTL DEF IInv

\* Past the point of no return the verified bytes are durable in staging or
\* in the library, whatever stops the publisher between two system calls.
THEOREM StagedSafe == Spec => []StagedIsSafe
<1>1. IInv => StagedIsSafe
  BY DEF IInv, BytesAreSomewhere, StagedIsSafe, Kept
<1>2. QED
  BY <1>1, Inductive, PTL

\* The file the catalogue records is durably in the library.
THEOREM CatalogueSafe == Spec => []CatalogueIsOnDisk
  BY Inductive, PTL DEF IInv

\* An entry shown as imported names a catalogued file of a row of its own.
THEOREM EntriesSafe == Spec => []ImportedEntriesAreCatalogued
  BY Inductive, PTL DEF IInv

\* A job that ended as cancelled leaves nothing behind that will be published.
THEOREM CancelSafe == Spec => []NothingAfterCancel
<1>1. IInv => NothingAfterCancel
  BY NothingIsNothing
     DEF IInv, TypeOK, InHand, StagedIsAccountedFor, JobRuns, NothingAfterCancel
<1>2. QED
  BY <1>1, Inductive, PTL

\* Recovery gives up only what somebody else took away.
THEOREM RecoverySafe == Spec => []NothingIsLost
  BY Inductive, PTL DEF IInv

-----------------------------------------------------------------------------
\* No step, a power loss included, replaces a file of the library.
LEMMA NoStepReplaces ==
  ASSUME IInv, [Next]_vars, NEW n \in Names, disk[n] # Nothing
  PROVE  disk'[n] \in {disk[n], Nothing}
<1> USE DEF IInv, TypeOK
<1>1. CASE disk' = disk
  BY <1>1
<1>2. ASSUME NEW m \in Names, NEW c \in Contents \cup {Nothing}, Intrude(m, c)
      PROVE  disk'[n] \in {disk[n], Nothing}
  BY <1>2 DEF Intrude
<1>3. CASE Link
  BY <1>3 DEF Link
<1>4. CASE PowerLoss
  <2>1. PICK gone \in SUBSET (Folders \ savedFolders),
             undone \in SUBSET {m \in Names : disk[m] # saved[m]},
             back \in SUBSET {s \in Slots : tmp[s] # savedTmp[s]} :
          LET after == [m \in Names |-> IF Folder(m) \in gone THEN Nothing
                                        ELSE IF m \in undone THEN saved[m] ELSE disk[m]]
          IN /\ disk' = after
             /\ saved' = after
             /\ savedFolders' = savedFolders \cup
                    {Folder(m) : m \in {k \in Names : after[k] # Nothing}}
             /\ tmp' = [s \in Slots |-> IF s \in back THEN savedTmp[s] ELSE tmp[s]]
             /\ savedTmp' = tmp'
    BY <1>4 DEF PowerLoss
  <2>2. disk'[n] \in {Nothing, saved[n], disk[n]}
    BY <2>1
  <2>3. QED
    BY <2>2 DEF BytesAreSomewhere
<1>5. CASE ScanStep
  BY <1>1, <1>5 DEF ScanStep, StartScan, BeginSweep, EndScan, ScanFile, ForgetEntry
<1>6. CASE ImportStep
  <2>1. CASE PublishAborts \/ PublishFails
    BY <1>1, <2>1, CopyEnding
  <2>2. CASE ~(PublishAborts \/ PublishFails)
    BY <1>1, <1>6, <2>2 DEF ImportStep, StartImport, EndImport, PickEntry, InsertRow,
                            OpenFile, CopyFile, SyncFile, StageRow
  <2>3. QED
    BY <2>1, <2>2
<1>7. CASE \/ Reuse \/ NextCandidate \/ SyncFolder \/ Unlink \/ SyncStaging \/ Adopt
           \/ Commit \/ PublishInterrupted
  BY <1>1, <1>7 DEF Reuse, NextCandidate, SyncFolder, Unlink, SyncStaging, Adopt,
                    Commit, PublishInterrupted
<1>8. CASE \/ Crash \/ Boot \/ RecoveryFails \/ FinishRecovery
           \/ \E s \in Slots : RecoverWriting(s) \/ RecoverStaged(s)
  BY <1>1, <1>8 DEF Crash, Boot, RecoverWriting, RecoverStaged, RecoveryFails,
                    FinishRecovery
<1>9. CASE \/ (\E e \in Entries : SwapCard(e)) \/ UserCancel \/ LeaseExpires
           \/ UNCHANGED vars
  BY <1>1, <1>9 DEF SwapCard, UserCancel, LeaseExpires
<1>10. QED
  BY <1>2, <1>3, <1>4, <1>5, <1>6, <1>7, <1>8, <1>9
     DEF Next, FinishStep, StartupStep, Environment

\* The library is immutable: the file under a name is never another one.
THEOREM LibraryImmutable == Spec => NeverReplaced
<1>1. IInv /\ [Next]_vars => [\A n \in Names : disk[n] # Nothing
                                        => disk'[n] \in {disk[n], Nothing}]_vars
  BY NoStepReplaces
<1>2. QED
  BY <1>1, Inductive, PTL DEF Spec, NeverReplaced

-----------------------------------------------------------------------------
\* What Publication asks for is promised when the folders exist and nobody else
\* writes into them; without that a name can be reused with other bytes.
OwnLibrary == KnownFolders = Folders /\ MaxIntrusions = 0

NothingRemoved == removed = {} /\ intrusions \in Nat

LEMMA RemovedNext ==
  ASSUME OwnLibrary, NothingRemoved, [Next]_vars
  PROVE  NothingRemoved'
<1> USE DEF NothingRemoved
<1>1. CASE UNCHANGED <<removed, intrusions>>
  BY <1>1
<1>2. ASSUME NEW n \in Names, NEW c \in Contents \cup {Nothing}, Intrude(n, c)
      PROVE  FALSE
  BY <1>2 DEF Intrude, OwnLibrary
<1>3. CASE ScanStep
  BY <1>1, <1>3 DEF ScanStep, StartScan, BeginSweep, EndScan, ScanFile, ForgetEntry
<1>4. CASE ImportStep
  BY <1>1, <1>4 DEF ImportStep, StartImport, EndImport, PickEntry, InsertRow, OpenFile,
                    CopyFile, SyncFile, StageRow, PublishAborts, PublishFails
<1>5. CASE FinishStep
  BY <1>1, <1>5 DEF FinishStep, Link, Reuse, NextCandidate, SyncFolder, Unlink,
                    SyncStaging, Adopt, Commit, PublishInterrupted
<1>6. CASE StartupStep
  BY <1>1, <1>6 DEF StartupStep, Crash, PowerLoss, Stops, Boot, RecoverWriting,
                    RecoverStaged, RecoveryFails, FinishRecovery
<1>7. CASE \/ (\E e \in Entries : SwapCard(e)) \/ UserCancel \/ LeaseExpires
           \/ UNCHANGED vars
  BY <1>1, <1>7 DEF SwapCard, UserCancel, LeaseExpires
<1>8. QED
  BY <1>2, <1>3, <1>4, <1>5, <1>6, <1>7 DEF Next, Environment

LEMMA RemovedNever == OwnLibrary /\ Spec => []NothingRemoved
<1>1. Init => NothingRemoved
  BY DEF Init, NothingRemoved
<1>2. OwnLibrary /\ NothingRemoved /\ [Next]_vars => NothingRemoved'
  BY RemovedNext
<1>3. OwnLibrary => (Spec => []NothingRemoved)
  <2>1. SUFFICES ASSUME OwnLibrary PROVE Spec => []NothingRemoved
    OBVIOUS
  <2>2. NothingRemoved /\ [Next]_vars => NothingRemoved'
    BY <1>2, <2>1
  <2>3. QED
    BY <1>1, <2>2, PTL DEF Spec
<1>4. QED
  BY <1>3

\* Each step of the publisher is one of the promise, or changes none of its
\* state.
LEMMA StepKeepsPromise ==
  ASSUME IInv, NothingRemoved, OwnLibrary, [Next]_vars
  PROVE  [Promise!Next]_(Promise!vars)
<1> USE NothingIsNothing DEF IInv, TypeOK, Promise!vars
<1>1. CASE UNCHANGED <<rowState, rowBytes, catalog>>
  BY <1>1
<1>2. ASSUME NEW s \in Slots, InsertRow(s) PROVE Promise!Next
  <2>1. Promise!Prepare(s)
    BY <1>2 DEF InsertRow, Promise!Prepare, Promise!Move
  <2>2. QED
    BY <2>1 DEF Promise!Next
<1>3. CASE StageRow
  <2>1. slot \in Slots /\ rowState[slot] = "writing" /\ tmp[slot] \in Contents
    BY <1>3 DEF StageRow, InHand, BytesAreSomewhere
  <2>2. Promise!Stage(slot)
    BY <1>3, <2>1 DEF StageRow, Promise!Stage, Promise!Move
  <2>3. QED
    BY <2>1, <2>2 DEF Promise!Next
<1>4. CASE PublishAborts \/ PublishFails
  <2>1. slot \in Slots /\ rowState[slot] = "writing"
    BY <1>4, CopyEnding DEF InHand
  <2>2. PICK cost \in {0, 1} : Discard(cost)
    BY <1>4, CopyEnding
  <2>3. UNCHANGED <<rowBytes, catalog>>
    BY <1>4, <2>2, CopyEnding DEF Discard
  <2>4. CASE rowState' = rowState
    BY <1>1, <2>3, <2>4
  <2>5. CASE rowState' = [rowState EXCEPT ![slot] = "gone"]
    <3>1. Promise!Drop(slot)
      BY <2>1, <2>3, <2>5 DEF Promise!Drop, Promise!Move
    <3>2. QED
      BY <2>1, <3>1 DEF Promise!Next
  <2>6. QED
    BY <2>2, <2>4, <2>5 DEF Discard
<1>5. CASE Commit
  <2>1. /\ slot \in Slots /\ rowState[slot] = "staged" /\ Kept(slot)
        /\ RowName(slot) \in Names /\ rowBytes[slot] \in Contents
        /\ Folder(RowName(slot)) \in Folders
    BY <1>5, CommittedIsCatalogued, RowNameIsName
  <2>2. Trusted(RowName(slot))
    BY <2>1 DEF Trusted, OwnLibrary, NothingRemoved
  <2>3. catalog[RowName(slot)] \in {Nothing, rowBytes[slot]}
    BY <2>1, <2>2 DEF Kept, CatalogueIsOnDisk, InLibrary
  <2>4. catalog' = [catalog EXCEPT ![RowName(slot)] = rowBytes[slot]]
    BY <1>5, <2>1, <2>3 DEF Commit, Catalogued
  <2>5. Promise!Publish(slot)
    BY <1>5, <2>1, <2>3, <2>4 DEF Commit, Promise!Publish, Promise!Move
  <2>6. QED
    BY <2>1, <2>5 DEF Promise!Next
<1>6. ASSUME NEW s \in Slots, RecoverWriting(s) PROVE Promise!Next
  <2>1. Promise!Drop(s)
    BY <1>6 DEF RecoverWriting, Promise!Drop, Promise!Move
  <2>2. QED
    BY <2>1 DEF Promise!Next
<1>7. CASE ScanStep
  BY <1>1, <1>7 DEF ScanStep, StartScan, BeginSweep, EndScan, ScanFile, ForgetEntry
<1>8. CASE \/ StartImport \/ EndImport \/ OpenFile \/ CopyFile \/ SyncFile
           \/ \E e \in Entries : PickEntry(e)
  BY <1>1, <1>8 DEF StartImport, EndImport, PickEntry, OpenFile, CopyFile, SyncFile
<1>9. CASE \/ Link \/ Reuse \/ NextCandidate \/ SyncFolder \/ Unlink \/ SyncStaging
           \/ Adopt \/ PublishInterrupted
  BY <1>1, <1>9 DEF Link, Reuse, NextCandidate, SyncFolder, Unlink, SyncStaging, Adopt,
                    PublishInterrupted
<1>10. CASE \/ Crash \/ PowerLoss \/ Boot \/ RecoveryFails \/ FinishRecovery
            \/ \E s \in Slots : RecoverStaged(s)
  BY <1>1, <1>10 DEF Crash, PowerLoss, Boot, RecoverStaged, RecoveryFails,
                     FinishRecovery
<1>11. CASE Environment \/ UNCHANGED vars
  BY <1>1, <1>11 DEF Environment, SwapCard, Intrude, UserCancel, LeaseExpires
<1>12. QED
  BY <1>2, <1>3, <1>4, <1>5, <1>6, <1>7, <1>8, <1>9, <1>10, <1>11
     DEF Next, ImportStep, FinishStep, StartupStep

\* The publisher, with the job, the scan and the recovery around it, keeps the
\* promise of Publication.
THEOREM Refinement == OwnLibrary /\ Spec => ImplementsPublication
<1>1. Init => Promise!Init
  BY DEF Init, Promise!Init
<1>2. OwnLibrary => (Spec => Promise!Spec)
  <2>1. SUFFICES ASSUME OwnLibrary PROVE Spec => Promise!Spec
    OBVIOUS
  <2>2. IInv /\ NothingRemoved /\ [Next]_vars => [Promise!Next]_(Promise!vars)
    BY <2>1, StepKeepsPromise
  <2>3. Spec => []NothingRemoved
    BY <2>1, RemovedNever
  <2>4. QED
    BY <1>1, <2>2, <2>3, Inductive, PTL DEF Spec, Promise!Spec
<1>3. QED
  BY <1>2 DEF ImplementsPublication

-----------------------------------------------------------------------------
(* One name for one file, when nothing fails but the process and the power *)

FoldersKnown == KnownFolders = Folders

\* What SameFileSameName supposes of the past: no I/O error, and nobody took
\* a file of the library away.
Undisturbed == faults = 0 /\ removed = {}

\* At most one row is past the point of no return and unfinished, and then the
\* process is down or busy with it; recovery leaves none behind.
OneStaged ==
    /\ \A s, r \in Slots : rowState[s] = "staged" /\ rowState[r] = "staged" => s = r
    /\ \A s \in Slots : rowState[s] = "staged"
                            => pc \in {"down", "recovering"} \cup AfterStaged
    /\ reported = {}

\* Only the file that row has linked can still vanish in a power loss.
OnlyItsLinkIsUnsynced ==
    \A n \in Names : saved[n] # disk[n] =>
        \E s \in Slots : /\ rowState[s] = "staged"
                         /\ n = RowName(s) /\ disk[n] = rowBytes[s]

\* The j-th name of a row, durably taken by another file.
Taken(s, j) == saved[Candidate(rowEntry[s], rowStamp[s], rowBytes[s], j)]
                   \notin {Nothing, rowBytes[s]}

\* A row has moved past a name only because another file durably has it.
SkippedForAReason ==
    /\ \A s \in Slots : rowState[s] \in {"free", "writing"} => rowTry[s] = 1
    /\ \A s \in Slots : rowState[s] \in {"staged", "published"} =>
          \A j \in Tries : j < rowTry[s] => Taken(s, j)

PublishedStays ==
    \A s \in Slots : rowState[s] = "published" => saved[RowName(s)] = rowBytes[s]

Steady == OneStaged /\ OnlyItsLinkIsUnsynced /\ SkippedForAReason /\ PublishedStays

SteadyNames == Undisturbed => Steady

\* The card's and the rows' columns that fix which names a row may take.
SameColumns(s) == UNCHANGED <<rowEntry[s], rowStamp[s], rowBytes[s], rowTry[s]>>

DurableStays == \A n \in Names : saved[n] # Nothing => saved'[n] = saved[n]

\* What a row has passed over is still there after a step that keeps the row
\* and loses no durable file.
LEMMA TakenStays ==
  ASSUME TypeOK, RowsAreFilled, DurableStays, NEW s \in Slots, NEW j \in Tries,
         rowState[s] \in {"staged", "published"}, SameColumns(s), Taken(s, j)
  PROVE  Taken(s, j)'
<1>1. rowEntry[s] \in Entries /\ rowStamp[s] \in Stamps /\ rowBytes[s] \in Contents
  BY RowNameIsName DEF TypeOK, RowsAreFilled
<1>2. Candidate(rowEntry[s], rowStamp[s], rowBytes[s], j) \in Names
  BY <1>1, CandidateIsName
<1>3. QED
  BY <1>2 DEF Taken, SameColumns, DurableStays

\* A file that no step of this kind could lose.
LEMMA PublishedRowStays ==
  ASSUME TypeOK, RowsAreFilled, DurableStays, NEW s \in Slots,
         rowState[s] \in {"staged", "published"}, SameColumns(s),
         saved[RowName(s)] = rowBytes[s]
  PROVE  saved'[RowName(s)'] = rowBytes'[s]
<1>1. RowName(s)' = RowName(s) /\ RowName(s) \in Names /\ rowBytes[s] \in Contents
  BY RowNameIsName DEF RowName, SameColumns
<1>2. rowBytes[s] # Nothing
  BY <1>1, NothingIsNothing
<1>3. QED
  BY <1>1, <1>2 DEF SameColumns, DurableStays

\* A step that starts, drops or keeps rows keeps the reasons and the files of
\* those that are finished.
LEMMA ReasonsStay ==
  ASSUME TypeOK, RowsAreFilled, DurableStays, SkippedForAReason, PublishedStays,
         \A s \in Slots : /\ rowState'[s] \in {"staged", "published"} =>
                                rowState[s] = rowState'[s] /\ SameColumns(s)
                          /\ rowState'[s] \in {"free", "writing"} =>
                                /\ rowState[s] \in {"free", "writing"}
                                /\ rowTry'[s] = rowTry[s]
  PROVE  SkippedForAReason' /\ PublishedStays'
<1>1. ASSUME NEW s \in Slots, rowState'[s] \in {"staged", "published"},
             NEW j \in Tries, j < rowTry'[s]
      PROVE  Taken(s, j)'
  <2>1. rowState[s] = rowState'[s] /\ SameColumns(s) /\ j < rowTry[s]
    BY <1>1 DEF SameColumns
  <2>2. Taken(s, j)
    BY <1>1, <2>1 DEF SkippedForAReason
  <2>3. QED
    BY <1>1, <2>1, <2>2, TakenStays
<1>2. ASSUME NEW s \in Slots, rowState'[s] = "published"
      PROVE  (saved[RowName(s)] = rowBytes[s])'
  <2>1. rowState[s] = "published" /\ SameColumns(s)
    BY <1>2
  <2>2. saved[RowName(s)] = rowBytes[s]
    BY <2>1 DEF PublishedStays
  <2>3. QED
    BY <2>1, <2>2, PublishedRowStays
<1>3. QED
  BY <1>1, <1>2 DEF SkippedForAReason, PublishedStays

\* Nobody links or unlinks: what is unsynced was so before, for the same row.
LEMMA LinksStay ==
  ASSUME OnlyItsLinkIsUnsynced,
         \A n \in Names : saved'[n] # disk'[n] =>
                                saved[n] # disk[n] /\ disk'[n] = disk[n],
         \A s \in Slots : rowState[s] = "staged" =>
                                rowState'[s] = "staged" /\ SameColumns(s)
  PROVE  OnlyItsLinkIsUnsynced'
<1> SUFFICES ASSUME NEW n \in Names, saved'[n] # disk'[n]
             PROVE  \E s \in Slots : /\ rowState'[s] = "staged"
                                     /\ n = RowName(s)' /\ disk'[n] = rowBytes'[s]
  BY DEF OnlyItsLinkIsUnsynced
<1>1. PICK s \in Slots : rowState[s] = "staged" /\ n = RowName(s) /\ disk[n] = rowBytes[s]
  BY DEF OnlyItsLinkIsUnsynced
<1>2. rowState'[s] = "staged" /\ SameColumns(s)
  BY <1>1
<1>3. RowName(s)' = RowName(s)
  BY <1>2 DEF RowName, SameColumns
<1>4. QED
  BY <1>1, <1>2, <1>3 DEF SameColumns

\* A step of an undisturbed past had one too, and the same files are durable.
LEMMA UndisturbedBefore ==
  ASSUME IInv, FoldersKnown, [Next]_vars, Undisturbed'
  PROVE  Undisturbed /\ DurableStays
<1> USE NothingIsNothing DEF IInv, TypeOK, Undisturbed
<1>1. CASE UNCHANGED <<faults, removed, saved>>
  BY <1>1 DEF DurableStays
<1>2. ASSUME NEW n \in Names, NEW c \in Contents \cup {Nothing}, Intrude(n, c)
      PROVE  Undisturbed /\ DurableStays
  <2>1. faults' = faults /\ removed \subseteq removed'
    BY <1>2 DEF Intrude
  <2>2. c # Nothing
    BY <1>2 DEF Intrude
  <2>3. disk[n] = Nothing /\ saved[n] = Nothing
    BY <1>2, <2>2 DEF Intrude, BytesAreSomewhere
  <2>4. QED
    BY <1>2, <2>1, <2>3 DEF Intrude, DurableStays
<1>3. CASE SyncFolder \/ Adopt
  <2>1. faults' = faults /\ removed' = removed
    BY <1>3 DEF SyncFolder, Adopt
  <2>2. \A n \in Names : saved'[n] \in {saved[n], disk[n]}
    BY <1>3 DEF SyncFolder, Adopt, FolderSynced
  <2>3. QED
    BY <2>1, <2>2 DEF DurableStays, BytesAreSomewhere
<1>4. CASE PowerLoss
  <2>1. PICK gone \in SUBSET (Folders \ savedFolders),
             undone \in SUBSET {n \in Names : disk[n] # saved[n]},
             back \in SUBSET {s \in Slots : tmp[s] # savedTmp[s]} :
          LET after == [n \in Names |-> IF Folder(n) \in gone THEN Nothing
                                        ELSE IF n \in undone THEN saved[n] ELSE disk[n]]
          IN /\ disk' = after
             /\ saved' = after
             /\ savedFolders' = savedFolders \cup
                    {Folder(n) : n \in {m \in Names : after[m] # Nothing}}
             /\ tmp' = [s \in Slots |-> IF s \in back THEN savedTmp[s] ELSE tmp[s]]
             /\ savedTmp' = tmp'
    BY <1>4 DEF PowerLoss
  <2>2. gone = {}
    BY <2>1 DEF FoldersKnown, BytesAreSomewhere
  <2>3. faults' = faults /\ removed' = removed
    BY <1>4 DEF PowerLoss
  <2>4. QED
    BY <2>1, <2>2, <2>3 DEF DurableStays, BytesAreSomewhere
<1>5. CASE PublishAborts \/ PublishFails
  <2>1. removed' = removed /\ saved' = saved
    BY <1>5, CopyEnding
  <2>2. PICK cost \in {0, 1} : Discard(cost)
    BY <1>5, CopyEnding
  <2>3. PICK file \in BOOLEAN, row \in BOOLEAN :
            faults' = faults + cost + (IF file /\ row THEN 0 ELSE 1)
    BY <2>2 DEF Discard
  <2>4. faults = 0
    BY <2>3
  <2>5. QED
    BY <2>1, <2>4 DEF DurableStays
<1>6. CASE PublishInterrupted \/ RecoveryFails
  BY <1>6 DEF PublishInterrupted, RecoveryFails, DurableStays
<1>7. CASE ScanStep
  BY <1>1, <1>7 DEF ScanStep, StartScan, BeginSweep, EndScan, ScanFile, ForgetEntry
<1>8. CASE \/ StartImport \/ EndImport \/ OpenFile \/ CopyFile \/ SyncFile \/ StageRow
           \/ (\E e \in Entries : PickEntry(e)) \/ \E s \in Slots : InsertRow(s)
  BY <1>1, <1>8 DEF StartImport, EndImport, PickEntry, InsertRow, OpenFile, CopyFile,
                    SyncFile, StageRow
<1>9. CASE Link \/ Reuse \/ NextCandidate \/ Unlink \/ SyncStaging \/ Commit
  BY <1>1, <1>9 DEF Link, Reuse, NextCandidate, Unlink, SyncStaging, Commit
<1>10. CASE \/ Crash \/ Boot \/ FinishRecovery
            \/ \E s \in Slots : RecoverWriting(s) \/ RecoverStaged(s)
  BY <1>1, <1>10 DEF Crash, Boot, RecoverWriting, RecoverStaged, FinishRecovery
<1>11. CASE \/ (\E e \in Entries : SwapCard(e)) \/ UserCancel \/ LeaseExpires
            \/ UNCHANGED vars
  BY <1>1, <1>11 DEF SwapCard, UserCancel, LeaseExpires
<1>12. QED
  BY <1>2, <1>3, <1>4, <1>5, <1>6, <1>7, <1>8, <1>9, <1>10, <1>11
     DEF Next, ImportStep, FinishStep, StartupStep, Environment

\* The rows a step leaves past the point of no return, and how it leaves them.
LEMMA OneStagedStays ==
  ASSUME OneStaged, reported' = {},
         \A s \in Slots : rowState'[s] = "staged" => rowState[s] = "staged",
         pc' \in {"down", "recovering"} \cup AfterStaged
            \/ \A s \in Slots : rowState'[s] # "staged"
  PROVE  OneStaged'
  BY DEF OneStaged

\* Steps that neither link nor stage nor finish a row.
LEMMA SteadyStays ==
  ASSUME IInv, DurableStays,
         Steady, reported' = {},
         pc' \in {"down", "recovering"} \cup AfterStaged
            \/ \A s \in Slots : rowState[s] # "staged",
         \A n \in Names : saved'[n] # disk'[n] =>
                                saved[n] # disk[n] /\ disk'[n] = disk[n],
         \A s \in Slots :
            /\ rowState[s] = "staged" <=> rowState'[s] = "staged"
            /\ rowState'[s] \in {"staged", "published"} =>
                  rowState[s] = rowState'[s] /\ SameColumns(s)
            /\ rowState'[s] \in {"free", "writing"} =>
                  rowState[s] \in {"free", "writing"} /\ rowTry'[s] = rowTry[s]
  PROVE  Steady'
<1>1. OneStaged'
  BY OneStagedStays DEF Steady
<1>2. OnlyItsLinkIsUnsynced'
  BY LinksStay DEF Steady
<1>3. SkippedForAReason' /\ PublishedStays'
  BY ReasonsStay DEF IInv, Steady
<1>4. QED
  BY <1>1, <1>2, <1>3 DEF Steady

\* Nobody but the row in hand is staged while a publication is carried out.
LEMMA StagedInHand ==
  ASSUME TypeOK, InHand, OneStaged, pc \in AfterStaged
  PROVE  /\ slot \in Slots /\ rowState[slot] = "staged"
         /\ \A s \in Slots : rowState[s] = "staged" => s = slot
  BY DEF InHand, OneStaged

\* Staging: the row has its first name, and none is unsynced.
LEMMA SteadyStageRow ==
  ASSUME IInv, Steady, DurableStays, StageRow
  PROVE  Steady'
<1> USE DEF IInv
<1>1. /\ slot \in Slots /\ rowState[slot] = "writing" /\ pc = "durable"
      /\ pc' = "linking" /\ rowState'[slot] = "staged"
      /\ \A s \in Slots \ {slot} : rowState'[s] = rowState[s] /\ rowBytes'[s] = rowBytes[s]
      /\ UNCHANGED <<rowEntry, rowStamp, rowTry, disk, saved, reported>>
  BY DEF StageRow, InHand, TypeOK
<1>2. \A s \in Slots : rowState[s] # "staged"
  BY <1>1 DEF Steady, OneStaged
<1>3. OneStaged'
  BY <1>1, <1>2 DEF Steady, OneStaged
<1>4. OnlyItsLinkIsUnsynced'
  BY <1>1, <1>2 DEF Steady, OnlyItsLinkIsUnsynced
<1>5. rowTry'[slot] = 1 /\ \A j \in Tries : ~(j < rowTry'[slot])
  BY <1>1 DEF Steady, SkippedForAReason, Tries
<1>6. ASSUME NEW s \in Slots, rowState'[s] \in {"staged", "published"},
             NEW j \in Tries, j < rowTry'[s]
      PROVE  Taken(s, j)'
  <2>1. s # slot
    BY <1>5, <1>6
  <2>2. rowState[s] \in {"staged", "published"} /\ SameColumns(s) /\ j < rowTry[s]
    BY <1>1, <1>6, <2>1 DEF SameColumns
  <2>3. Taken(s, j)
    BY <1>6, <2>2 DEF Steady, SkippedForAReason
  <2>4. QED
    BY <2>2, <2>3, TakenStays
<1>7. SkippedForAReason'
  BY <1>1, <1>6 DEF Steady, SkippedForAReason
<1>8. PublishedStays'
  BY <1>1, PublishedRowStays DEF Steady, PublishedStays, SameColumns
<1>9. QED
  BY <1>3, <1>4, <1>7, <1>8 DEF Steady

\* Linking: the one file that is not yet durable is that of the row in hand.
LEMMA SteadyLink ==
  ASSUME IInv, Steady, DurableStays, Link
  PROVE  Steady'
<1> USE DEF IInv
<1>1. slot \in Slots /\ rowState[slot] = "staged" /\ RowName(slot) \in Names
  BY RowNameIsName DEF Link, InHand
<1>2. tmp[slot] = rowBytes[slot]
  BY <1>1 DEF Link, BytesAreSomewhere
<1>3. /\ disk'[RowName(slot)] = rowBytes[slot]
      /\ \A m \in Names \ {RowName(slot)} : disk'[m] = disk[m]
      /\ pc = "linking" /\ pc' = "linked"
      /\ UNCHANGED <<rows, saved, reported>>
  BY <1>1, <1>2 DEF Link, TypeOK
<1>4. \A s \in Slots : SameColumns(s) /\ rowState'[s] = rowState[s]
                       /\ RowName(s)' = RowName(s)
  BY <1>3 DEF SameColumns, RowName
<1>5. OneStaged'
  BY <1>3, OneStagedStays DEF Steady, OneStaged
<1>6. ASSUME NEW n \in Names, saved'[n] # disk'[n]
      PROVE  \E s \in Slots : /\ rowState'[s] = "staged"
                              /\ n = RowName(s)' /\ disk'[n] = rowBytes'[s]
  <2>1. CASE n = RowName(slot)
    BY <1>1, <1>3, <1>4, <2>1
  <2>2. CASE n # RowName(slot)
    <3>1. saved[n] # disk[n] /\ disk'[n] = disk[n]
      BY <1>3, <1>6, <2>2
    <3>2. PICK s \in Slots : rowState[s] = "staged" /\ n = RowName(s)
                             /\ disk[n] = rowBytes[s]
      BY <3>1 DEF Steady, OnlyItsLinkIsUnsynced
    <3>3. QED
      BY <1>3, <1>4, <3>1, <3>2
  <2>3. QED
    BY <2>1, <2>2
<1>7. OnlyItsLinkIsUnsynced'
  BY <1>6 DEF OnlyItsLinkIsUnsynced
<1>8. SkippedForAReason' /\ PublishedStays'
  BY <1>3, <1>4, ReasonsStay DEF Steady
<1>9. QED
  BY <1>5, <1>7, <1>8 DEF Steady

\* Passing over a name: the other file that has it is durable.
LEMMA SteadyNextCandidate ==
  ASSUME IInv, Steady, DurableStays, NextCandidate
  PROVE  Steady'
<1> USE DEF IInv
<1>1. /\ slot \in Slots /\ rowState[slot] = "staged"
      /\ \A s \in Slots : rowState[s] = "staged" => s = slot
  BY StagedInHand DEF Steady, NextCandidate
<1>2. /\ RowName(slot) \in Names /\ rowTry[slot] \in Tries
      /\ disk[RowName(slot)] \notin {Nothing, rowBytes[slot]}
  BY <1>1, RowNameIsName DEF NextCandidate, TypeOK
<1>3. /\ rowTry'[slot] = rowTry[slot] + 1
      /\ \A s \in Slots \ {slot} : rowTry'[s] = rowTry[s]
      /\ pc' = "linking"
      /\ UNCHANGED <<rowState, rowEntry, rowStamp, rowBytes, disk, saved, reported>>
  BY <1>1 DEF NextCandidate, TypeOK
<1>4. \A n \in Names : saved[n] = disk[n]
  <2>1. SUFFICES ASSUME NEW n \in Names, saved[n] # disk[n] PROVE FALSE
    OBVIOUS
  <2>2. n = RowName(slot) /\ disk[n] = rowBytes[slot]
    BY <1>1, <2>1 DEF Steady, OnlyItsLinkIsUnsynced
  <2>3. QED
    BY <1>2, <2>2
<1>5. OneStaged'
  BY <1>3, OneStagedStays DEF Steady, OneStaged
<1>6. OnlyItsLinkIsUnsynced'
  BY <1>3, <1>4 DEF OnlyItsLinkIsUnsynced
<1>7. ASSUME NEW s \in Slots, rowState'[s] \in {"staged", "published"},
             NEW j \in Tries, j < rowTry'[s]
      PROVE  Taken(s, j)'
  <2>1. CASE j < rowTry[s]
    <3>1. Taken(s, j)
      BY <1>3, <1>7, <2>1 DEF Steady, SkippedForAReason
    <3>2. QED
      BY <1>3, <3>1 DEF Taken
  <2>2. CASE ~(j < rowTry[s])
    <3>1. s = slot /\ j = rowTry[s]
      BY <1>2, <1>3, <1>7, <2>2 DEF Tries
    <3>2. Taken(s, j)
      BY <1>2, <1>4, <3>1 DEF Taken, RowName
    <3>3. QED
      BY <1>3, <3>2 DEF Taken
  <2>3. QED
    BY <2>1, <2>2
<1>8. SkippedForAReason'
  BY <1>1, <1>3, <1>7 DEF Steady, SkippedForAReason
<1>9. \A s \in Slots : rowState[s] = "published" => SameColumns(s)
  BY <1>1, <1>3 DEF SameColumns
<1>10. PublishedStays'
  BY <1>3, <1>9, PublishedRowStays DEF Steady, PublishedStays
<1>11. QED
  BY <1>5, <1>6, <1>8, <1>10 DEF Steady

\* Committing: the published file is durable, so nothing is left unsynced.
LEMMA SteadyCommit ==
  ASSUME IInv, FoldersKnown, Undisturbed, Steady, DurableStays, Commit
  PROVE  Steady'
<1> USE DEF IInv
<1>1. /\ slot \in Slots /\ rowState[slot] = "staged"
      /\ RowName(slot) \in Names /\ Folder(RowName(slot)) \in Folders
      /\ Kept(slot)
      /\ \A s \in Slots : rowState[s] = "staged" => s = slot
  BY CommittedIsCatalogued, RowNameIsName, StagedInHand DEF Steady, Commit
<1>2. InLibrary(RowName(slot), rowBytes[slot])
  BY <1>1 DEF Kept, Trusted, FoldersKnown, Undisturbed
<1>3. /\ rowState'[slot] = "published"
      /\ \A s \in Slots \ {slot} : rowState'[s] = rowState[s]
      /\ UNCHANGED <<rowEntry, rowStamp, rowBytes, rowTry, disk, saved, reported>>
  BY <1>1 DEF Commit, TypeOK
<1>4. \A s \in Slots : SameColumns(s) /\ RowName(s)' = RowName(s)
  BY <1>3 DEF SameColumns, RowName
<1>5. \A n \in Names : saved[n] = disk[n]
  BY <1>1, <1>2 DEF Steady, OnlyItsLinkIsUnsynced, InLibrary
<1>6. OneStaged'
  BY <1>1, <1>3 DEF Steady, OneStaged
<1>7. OnlyItsLinkIsUnsynced'
  BY <1>3, <1>5 DEF OnlyItsLinkIsUnsynced
<1>8. ASSUME NEW s \in Slots, rowState'[s] \in {"staged", "published"},
             NEW j \in Tries, j < rowTry'[s]
      PROVE  Taken(s, j)'
  <2>1. rowState[s] \in {"staged", "published"} /\ j < rowTry[s]
    BY <1>1, <1>3, <1>8
  <2>2. Taken(s, j)
    BY <1>8, <2>1 DEF Steady, SkippedForAReason
  <2>3. QED
    BY <1>4, <2>1, <2>2, TakenStays
<1>9. SkippedForAReason'
  BY <1>1, <1>3, <1>8 DEF Steady, SkippedForAReason
<1>10. PublishedStays'
  BY <1>1, <1>2, <1>3, <1>4 DEF Steady, PublishedStays, InLibrary
<1>11. QED
  BY <1>6, <1>7, <1>9, <1>10 DEF Steady

\* The step that brings a row in, drops one, or touches none of what Steady
\* speaks of, does not disturb it.
LEMMA SteadyNext ==
  ASSUME IInv, FoldersKnown, SteadyNames, [Next]_vars
  PROVE  SteadyNames'
<1> SUFFICES ASSUME Undisturbed' PROVE Steady'
  BY DEF SteadyNames
<1>1. Undisturbed /\ DurableStays
  BY UndisturbedBefore
<1>2. Steady
  BY <1>1 DEF SteadyNames
<1> USE DEF IInv
<1>3. ASSUME UNCHANGED <<rows, disk, saved, reported>>,
             pc' \in {"down", "recovering"} \cup AfterStaged
                \/ pc \notin {"down", "recovering"} \cup AfterStaged
      PROVE  Steady'
  <2>1. reported' = {}
    BY <1>2, <1>3 DEF Steady, OneStaged
  <2>2. pc' \in {"down", "recovering"} \cup AfterStaged
           \/ \A s \in Slots : rowState[s] # "staged"
    BY <1>2, <1>3 DEF Steady, OneStaged
  <2>3. QED
    BY <1>1, <1>2, <1>3, <2>1, <2>2, SteadyStays DEF SameColumns
<1>4. ASSUME UNCHANGED <<rows, disk, saved, reported, pc>> PROVE Steady'
  BY <1>3, <1>4
<1>5. ASSUME NEW n \in Names, NEW c \in Contents \cup {Nothing}, Intrude(n, c)
      PROVE  Steady'
  <2>1. /\ \A m \in Names \ {n} : disk'[m] = disk[m] /\ saved'[m] = saved[m]
        /\ disk'[n] = saved'[n]
        /\ UNCHANGED <<rows, reported, pc>>
    BY <1>5 DEF Intrude, TypeOK
  <2>2. reported' = {}
    BY <1>2, <2>1 DEF Steady, OneStaged
  <2>3. pc' \in {"down", "recovering"} \cup AfterStaged
           \/ \A s \in Slots : rowState[s] # "staged"
    BY <1>2, <2>1 DEF Steady, OneStaged
  <2>4. QED
    BY <1>1, <1>2, <2>1, <2>2, <2>3, SteadyStays DEF SameColumns
<1>6. ASSUME NEW s \in Slots, InsertRow(s) PROVE Steady'
  <2>1. /\ rowState[s] = "free" /\ rowState'[s] = "writing"
        /\ \A r \in Slots \ {s} : /\ rowState'[r] = rowState[r]
                                 /\ rowEntry'[r] = rowEntry[r]
                                 /\ rowStamp'[r] = rowStamp[r]
        /\ pc = "marked" /\ UNCHANGED <<rowBytes, rowTry, disk, saved, reported>>
    BY <1>6 DEF InsertRow, TypeOK
  <2>2. reported' = {} /\ \A r \in Slots : rowState[r] # "staged"
    BY <1>2, <2>1 DEF Steady, OneStaged
  <2>3. QED
    BY <1>1, <1>2, <2>1, <2>2, SteadyStays DEF SameColumns
<1>7. CASE PublishAborts \/ PublishFails
  <2>1. slot \in Slots /\ rowState[slot] = "writing" /\ pc \in BeforeStaged
    BY <1>7, CopyEnding DEF InHand
  <2>2. /\ rowState'[slot] \in {"writing", "gone"}
        /\ \A r \in Slots \ {slot} : rowState'[r] = rowState[r]
        /\ UNCHANGED <<rowEntry, rowStamp, rowBytes, rowTry>>
    BY <1>7, <2>1, CopyEnding, DiscardedRow
  <2>3. UNCHANGED <<disk, saved, reported>>
    BY <1>7, CopyEnding
  <2>4. reported' = {} /\ \A r \in Slots : rowState[r] # "staged"
    BY <1>2, <2>1, <2>3 DEF Steady, OneStaged
  <2>5. QED
    BY <1>1, <1>2, <2>1, <2>2, <2>3, <2>4, SteadyStays DEF SameColumns
<1>8. ASSUME NEW s \in Slots, RecoverWriting(s) PROVE Steady'
  <2>1. /\ rowState[s] = "writing" /\ rowState'[s] = "gone"
        /\ \A r \in Slots \ {s} : rowState'[r] = rowState[r]
        /\ pc' = "recovering"
        /\ UNCHANGED <<rowEntry, rowStamp, rowBytes, rowTry, disk, saved, reported>>
    BY <1>8 DEF RecoverWriting, TypeOK
  <2>2. reported' = {}
    BY <1>2, <2>1 DEF Steady, OneStaged
  <2>3. QED
    BY <1>1, <1>2, <2>1, <2>2, SteadyStays DEF SameColumns
<1>9. CASE StageRow
  BY <1>1, <1>2, <1>9, SteadyStageRow
<1>10. CASE Link
  BY <1>1, <1>2, <1>10, SteadyLink
<1>11. CASE NextCandidate
  BY <1>1, <1>2, <1>11, SteadyNextCandidate
<1>12. CASE Commit
  BY <1>1, <1>2, <1>12, SteadyCommit
<1>13. CASE SyncFolder \/ Adopt
  <2>1. /\ \A n \in Names : saved'[n] = disk[n] \/ saved'[n] = saved[n]
        /\ pc' \in AfterStaged
        /\ UNCHANGED <<rows, disk, reported>>
    BY <1>13 DEF SyncFolder, Adopt, FolderSynced
  <2>2. reported' = {}
    BY <1>2, <2>1 DEF Steady, OneStaged
  <2>3. QED
    BY <1>1, <1>2, <2>1, <2>2, SteadyStays DEF SameColumns
<1>14. CASE PowerLoss
  <2>1. pc' = "down" /\ saved' = disk' /\ UNCHANGED <<rows, reported>>
    BY <1>14 DEF PowerLoss, Stops
  <2>2. reported' = {}
    BY <1>2, <2>1 DEF Steady, OneStaged
  <2>3. QED
    BY <1>1, <1>2, <2>1, <2>2, SteadyStays DEF SameColumns
<1>15. CASE Boot
  <2>1. pc' = "recovering" /\ reported' = {} /\ UNCHANGED <<rows, disk, saved>>
    BY <1>15 DEF Boot
  <2>2. QED
    BY <1>1, <1>2, <2>1, SteadyStays DEF SameColumns
<1>16. CASE RecoveryFails
  <2>1. faults = 0 /\ faults' = 0
    BY <1>1 DEF Undisturbed
  <2>2. pc = "linking" /\ tmp[slot] = Nothing /\ disk[RowName(slot)] # rowBytes[slot]
    BY <1>16, <2>1 DEF RecoveryFails
  <2>3. /\ slot \in Slots /\ rowState[slot] = "staged" /\ rowBytes[slot] \in Contents
        /\ Folder(RowName(slot)) \in Folders
    BY <2>2, RowNameIsName DEF InHand
  <2>4. Kept(slot)
    BY <2>2, <2>3, NothingIsNothing DEF BytesAreSomewhere
  <2>5. QED
    BY <1>1, <2>2, <2>3, <2>4 DEF Kept, Trusted, InLibrary, FoldersKnown, Undisturbed
<1>17. CASE FinishRecovery
  <2>1. /\ reported = {} /\ pc = "recovering"
        /\ UNCHANGED <<rows, disk, saved, reported>>
    BY <1>2, <1>17 DEF FinishRecovery, Steady, OneStaged
  <2>2. \A s \in Slots : rowState[s] # "staged"
    BY <1>17, <2>1 DEF FinishRecovery, ToRecover
  <2>3. QED
    BY <1>1, <1>2, <2>1, <2>2, SteadyStays DEF SameColumns
<1>18. CASE PublishInterrupted
  BY <1>1, <1>18 DEF PublishInterrupted, Undisturbed
<1>19. CASE ScanStep
  BY <1>3, <1>19 DEF ScanStep, StartScan, BeginSweep, EndScan, ScanFile, ForgetEntry,
                     BeginJob
<1>20. CASE \/ StartImport \/ EndImport \/ OpenFile \/ CopyFile \/ SyncFile
            \/ \E e \in Entries : PickEntry(e)
  BY <1>3, <1>20 DEF StartImport, EndImport, PickEntry, OpenFile, CopyFile, SyncFile,
                     BeginJob
<1>21. CASE \/ Reuse \/ Unlink \/ SyncStaging \/ Crash
            \/ \E s \in Slots : RecoverStaged(s)
  BY <1>3, <1>21 DEF Reuse, Unlink, SyncStaging, Crash, Stops, RecoverStaged
<1>22. CASE \/ (\E e \in Entries : SwapCard(e)) \/ UserCancel \/ LeaseExpires
            \/ UNCHANGED vars
  BY <1>4, <1>22 DEF SwapCard, UserCancel, LeaseExpires
<1>23. QED
  BY <1>5, <1>6, <1>7, <1>8, <1>9, <1>10, <1>11, <1>12, <1>13, <1>14, <1>15, <1>16,
     <1>17, <1>18, <1>19, <1>20, <1>21, <1>22
     DEF Next, ImportStep, FinishStep, StartupStep, Environment

\* With durable folders, and until an I/O error or a removal from outside: one
\* row is carried through at a time, nothing but the link of that row can be
\* lost, and a name is passed over only for another file that is durably there.
THEOREM NamesInductive == ASSUME FoldersKnown PROVE Spec => []SteadyNames
<1>1. Init => SteadyNames
  BY DEF Init, SteadyNames, Steady, OneStaged, OnlyItsLinkIsUnsynced,
         SkippedForAReason, PublishedStays
<1>2. IInv /\ SteadyNames /\ [Next]_vars => SteadyNames'
  BY SteadyNext
<1>3. QED
  BY <1>1, <1>2, Inductive, PTL DEF Spec

\* Two rows published with the same entry, stamp and bytes have the same name:
\* the one further along would have passed over a name that holds its own file.
LEMMA NoTwoNames ==
  ASSUME IInv, Steady, NEW s \in Slots, NEW r \in Slots,
         rowState[s] = "published", rowState[r] = "published",
         rowEntry[s] = rowEntry[r], rowStamp[s] = rowStamp[r], rowBytes[s] = rowBytes[r]
  PROVE  ~(rowTry[s] < rowTry[r])
<1> SUFFICES ASSUME rowTry[s] < rowTry[r] PROVE FALSE
  OBVIOUS
<1>1. rowTry[s] \in Tries
  BY DEF IInv, TypeOK
<1>2. Taken(r, rowTry[s])
  BY <1>1 DEF Steady, SkippedForAReason
<1>3. saved[RowName(s)] = rowBytes[s]
  BY DEF Steady, PublishedStays
<1>4. QED
  BY <1>2, <1>3 DEF Taken, RowName

\* A file of the card that was imported, interrupted and imported again is
\* published under one name, whatever stops the process in between.
THEOREM SameName == ASSUME FoldersKnown PROVE Spec => []SameFileSameName
<1>1. IInv /\ SteadyNames => SameFileSameName
  <2> SUFFICES ASSUME IInv, SteadyNames, NEW s \in Slots, NEW r \in Slots,
                      faults = 0, removed = {},
                      rowState[s] = "published", rowState[r] = "published",
                      rowEntry[s] = rowEntry[r], rowStamp[s] = rowStamp[r],
                      rowBytes[s] = rowBytes[r]
               PROVE  RowName(s) = RowName(r)
    BY DEF SameFileSameName
  <2>1. Steady
    BY DEF SteadyNames, Undisturbed
  <2>2. ~(rowTry[s] < rowTry[r]) /\ ~(rowTry[r] < rowTry[s])
    BY <2>1, NoTwoNames
  <2>3. rowTry[s] = rowTry[r]
    BY <2>2 DEF IInv, TypeOK, Tries
  <2>4. QED
    BY <2>3 DEF RowName
<1>2. QED
  BY <1>1, Inductive, NamesInductive, PTL
=============================================================================
