------------------------ MODULE SettingsStore_proofs ------------------------
(***************************************************************************)
(* The settings store for every size of a settings value, every set of     *)
(* accepted units and every time-out: types, the stored and current        *)
(* settings, the backup, and the restore.                                  *)
(***************************************************************************)
EXTENDS SettingsStore, SequenceTheorems, TLAPS

(* The inductive invariant has one part for each owner of state: the       *)
(* settings and their sector, the backup being read, the restore.          *)
StoreInv ==
    /\ powered \in BOOLEAN /\ settings_saved \in BOOLEAN
    /\ page \in Page
    /\ CurrentIsValid
    /\ SavedIsStored

(* The host's checksum is that of the snapshot it is reading.              *)
BackupInv ==
    /\ backup_snapshot \in Settings \cup {NoValue}
    /\ announced = backup_snapshot
    /\ download \subseteq (1 .. SIZE) \X Unit
    /\ BackupIsOneValue

(* A restore that is still active was heard from its first unit on.        *)
RestoreInv ==
    /\ restore_active \in BOOLEAN
    /\ restore_staging \in Chunk \cup {NoValue}
    /\ restore_crc \in Settings \cup {NoValue}
    /\ elapsed \in 0 .. CLOCK
    /\ heard \in Chunk \cup {NoValue, Broken}
    /\ restore_active => heard = restore_staging

IInv == StoreInv /\ BackupInv /\ RestoreInv

-----------------------------------------------------------------------------
(* The defaults are valid, and valid settings are settings.                *)
LEMMA DefaultsValid == Defaults \in Valid /\ Valid \subseteq Settings
BY SettingsAssumption DEF Defaults, Valid, Settings, Unit

(* A whole value is a chunk like any other.                                *)
LEMMA SettingsAreChunks == Settings \subseteq Chunk
<1>1. SIZE \in 1 .. SIZE
    BY SettingsAssumption
<1>2. QED
    BY <1>1 DEF Settings, Chunk

(* Appending a chunk that fits gives a chunk.                              *)
LEMMA AppendChunk ==
    ASSUME NEW s \in Chunk \cup {NoValue}, NEW units \in Chunk, fits(Len(s), units)
    PROVE  s \o units \in Chunk
<1>1. PICK n \in 1 .. SIZE : units \in [1 .. n -> Unit]
    BY DEF Chunk
<1>2. PICK k \in 0 .. SIZE : s \in [1 .. k -> Unit]
    <2>1. CASE s = NoValue
        BY <2>1, SettingsAssumption DEF NoValue
    <2>2. CASE s \in Chunk
        BY <2>2, SettingsAssumption DEF Chunk
    <2>3. QED
        BY <2>1, <2>2
<1>3. k \in Nat /\ n \in Nat /\ SIZE \in Nat
    BY SettingsAssumption
<1>4. s \in Seq(Unit) /\ units \in Seq(Unit) /\ Len(s) = k /\ Len(units) = n
    BY <1>1, <1>2, <1>3
<1>5. s \o units \in Seq(Unit) /\ Len(s \o units) = k + n
    BY <1>4
<1>6. s \o units \in [1 .. k + n -> Unit]
    BY <1>5, LenProperties
<1>7. k + n \in 1 .. SIZE
    BY <1>3, <1>4 DEF fits
<1>8. QED
    BY <1>6, <1>7 DEF Chunk

(* What a save leaves in the sector is a page.                             *)
LEMMA PageTypes ==
    /\ NoRecord \in Page
    /\ \A s \in Settings : Record(s) \in Page
BY DEF NoRecord, Record, Page

LEMMA InvImplies ==
    IInv => TypeOK /\ CurrentIsValid /\ SavedIsStored /\ BackupIsOneValue
<1>1. CurrentIsValid => current_settings \in Settings
    BY DefaultsValid DEF CurrentIsValid
<1>2. QED
    BY <1>1, Zenon DEF IInv, StoreInv, BackupInv, RestoreInv, TypeOK

-----------------------------------------------------------------------------
(* What each group of steps keeps.                                         *)

(* Without power there is nothing but the sector.                          *)
LEMMA PowerOffKeeps ==
    ASSUME PowerOff, page' \in Page
    PROVE  IInv'
<1>1. StoreInv'
    BY DefaultsValid, Zenon DEF PowerOff, StoreInv, CurrentIsValid, SavedIsStored
<1>2. BackupInv'
    BY DEF PowerOff, BackupInv, BackupIsOneValue
<1>3. 0 \in 0 .. CLOCK
    BY SettingsAssumption
<1>4. RestoreInv'
    BY <1>3, Zenon DEF PowerOff, RestoreInv
<1>5. QED
    BY <1>1, <1>2, <1>4 DEF IInv

(* A save cut short leaves a page.                                         *)
LEMMA CutShortKeeps ==
    ASSUME IInv, NEW s \in Settings, SaveCutShort(s)
    PROVE  IInv'
<1>1. page' \in Page
    BY PageTypes, Zenon DEF SaveCutShort, Stored, NotStored, IInv, StoreInv
<1>2. QED
    BY <1>1, PowerOffKeeps DEF SaveCutShort

LEMMA StoreUnchanged ==
    ASSUME StoreInv, UNCHANGED <<ramVars, page>>, powered' = powered
    PROVE  StoreInv'
BY DEF StoreInv, CurrentIsValid, SavedIsStored, ramVars, Record

LEMMA BackupUnchanged ==
    ASSUME BackupInv, UNCHANGED backupVars
    PROVE  BackupInv'
BY DEF BackupInv, BackupIsOneValue, backupVars

LEMMA RestoreUnchanged ==
    ASSUME RestoreInv, UNCHANGED restoreVars
    PROVE  RestoreInv'
BY DEF RestoreInv, restoreVars

LEMMA AbandonKeeps ==
    ASSUME abandon_restore
    PROVE  RestoreInv'
<1>1. 0 \in 0 .. CLOCK
    BY SettingsAssumption
<1>2. QED
    BY <1>1, Zenon DEF abandon_restore, no_restore, RestoreInv

LEMMA KeepRestoreKeeps ==
    ASSUME RestoreInv, keep_restore
    PROVE  RestoreInv'
BY RestoreUnchanged, AbandonKeeps DEF keep_restore

(* A valid value put in place, saved and stored or neither.                *)
LEMMA StoredKeeps ==
    ASSUME StoreInv, Command, current_settings' \in Valid,
           \/ settings_saved' = TRUE /\ Stored(current_settings')
           \/ settings_saved' = FALSE /\ NotStored
           \/ settings_saved' = FALSE /\ UNCHANGED page
    PROVE  StoreInv'
<1>1. page' \in Page
    BY PageTypes, DefaultsValid, Zenon DEF Stored, NotStored, StoreInv
<1>2. SavedIsStored'
    BY DEF SavedIsStored, Stored, Record
<1>3. QED
    BY <1>1, <1>2, Zenon DEF StoreInv, CurrentIsValid, Command

-----------------------------------------------------------------------------
(* Steps.                                                                  *)

LEMMA SetKeeps == ASSUME IInv, Set PROVE IInv'
<1>1. StoreInv'
    BY StoredKeeps, Zenon DEF IInv, Set, flight_settings_set, usable
<1>2. QED
    BY <1>1, BackupUnchanged, RestoreUnchanged DEF IInv, Set

LEMMA SaveKeeps == ASSUME IInv, Save PROVE IInv'
<1>1. CASE SaveCutShort(current_settings)
    BY <1>1, CutShortKeeps, DefaultsValid DEF IInv, StoreInv, CurrentIsValid
<1>2. CASE ~ SaveCutShort(current_settings)
    <2>1. current_settings' \in Valid
        BY <1>2 DEF IInv, StoreInv, CurrentIsValid, Save
    <2>2. StoreInv'
        BY <1>2, <2>1, StoredKeeps, Zenon DEF IInv, Save
    <2>3. QED
        BY <1>2, <2>2, BackupUnchanged, RestoreUnchanged DEF IInv, Save
<1>3. QED
    BY <1>1, <1>2

LEMMA MenuSaveKeeps == ASSUME IInv, MenuSave PROVE IInv'
<1>1. PICK s \in Valid :
        \/ /\ Command
           /\ current_settings' = s
           /\ settings_saved' \in BOOLEAN
           /\ IF settings_saved' THEN Stored(s) ELSE NotStored
           /\ UNCHANGED <<backupVars, restoreVars>>
        \/ powered /\ SaveCutShort(s)
    BY DEF MenuSave
<1>2. CASE SaveCutShort(s)
    BY <1>2, CutShortKeeps, DefaultsValid
<1>3. CASE ~ SaveCutShort(s)
    <2>1. StoreInv'
        BY <1>1, <1>3, StoredKeeps, Zenon DEF IInv
    <2>2. QED
        BY <1>1, <1>3, <2>1, BackupUnchanged, RestoreUnchanged DEF IInv
<1>4. QED
    BY <1>2, <1>3

(* Backup commands leave the sector alone, and these the settings too.     *)
LEMMA CommandKeepsStore ==
    ASSUME IInv, BackupCommand, UNCHANGED ramVars
    PROVE  StoreInv'
<1>1. powered' = powered /\ page' = page
    BY DEF BackupCommand, Command, IInv, StoreInv
<1>2. QED
    BY <1>1, StoreUnchanged DEF IInv

LEMMA GetInfoKeeps == ASSUME IInv, GetInfo PROVE IInv'
<1>1. StoreInv'
    BY CommandKeepsStore DEF GetInfo
<1>2. current_settings \in Settings
    BY DefaultsValid DEF IInv, StoreInv, CurrentIsValid
<1>3. BackupInv'
    BY <1>2 DEF GetInfo, BackupInv, BackupIsOneValue
<1>4. RestoreInv'
    BY KeepRestoreKeeps DEF IInv, GetInfo
<1>5. QED
    BY <1>1, <1>3, <1>4 DEF IInv

LEMMA GetChunkKeeps == ASSUME IInv, GetChunk PROVE IInv'
<1>1. StoreInv'
    BY CommandKeepsStore DEF GetChunk
<1>2. RestoreInv'
    BY KeepRestoreKeeps DEF IInv, GetChunk
<1>3. BackupInv'
    <2>1. CASE UNCHANGED download
        BY <2>1, BackupUnchanged DEF IInv, GetChunk, backupVars
    <2>2. CASE backup_snapshot # NoValue
               /\ \E i \in 1 .. SIZE :
                     download' = download \cup {<<i, snapshot_unit(i)>>}
        <3>1. PICK i \in 1 .. SIZE : download' = download \cup {<<i, backup_snapshot[i]>>}
            BY <2>2 DEF snapshot_unit
        <3>2. backup_snapshot \in Settings /\ announced = backup_snapshot
            BY <2>2 DEF IInv, BackupInv
        <3>3. backup_snapshot[i] \in Unit
            BY <3>1, <3>2 DEF Settings
        <3>4. announced' = announced /\ backup_snapshot' = backup_snapshot
            BY DEF GetChunk
        <3>5. BackupIsOneValue'
            BY <2>2, <3>1, <3>2, <3>4 DEF IInv, BackupInv, BackupIsOneValue
        <3>6. QED
            BY <3>1, <3>2, <3>3, <3>4, <3>5 DEF IInv, BackupInv
    <2>3. QED
        BY <2>1, <2>2 DEF GetChunk
<1>4. QED
    BY <1>1, <1>2, <1>3 DEF IInv

LEMMA AbandoningKeeps ==
    ASSUME IInv, abandon_restore, BackupCommand, UNCHANGED <<ramVars, backupVars>>
    PROVE  IInv'
BY CommandKeepsStore, BackupUnchanged, AbandonKeeps DEF IInv

LEMMA RestoreBeginKeeps == ASSUME IInv, RestoreBegin PROVE IInv'
<1>1. StoreInv' /\ BackupInv'
    BY CommandKeepsStore, BackupUnchanged DEF IInv, RestoreBegin
<1>2. 0 \in 0 .. CLOCK
    BY SettingsAssumption
<1>3. RestoreInv'
    BY <1>2, Zenon DEF RestoreBegin, RestoreInv
<1>4. QED
    BY <1>1, <1>3 DEF IInv

LEMMA RestoreChunkKeeps == ASSUME IInv, RestoreChunk PROVE IInv'
<1>1. CASE abandon_restore
    BY <1>1, AbandoningKeeps DEF RestoreChunk
<1>2. CASE ~ abandon_restore
    <2>1. PICK offset \in 0 .. SIZE, units \in Chunk :
            /\ in_sequence(offset) /\ fits(offset, units)
            /\ restore_staging' = restore_staging \o units
            /\ heard' = heard \o units
            /\ elapsed' = 0
            /\ UNCHANGED <<restore_active, restore_crc>>
        BY <1>2, Zenon DEF RestoreChunk
    <2>2. heard = restore_staging
        BY <2>1 DEF in_sequence, still_active, IInv, RestoreInv
    <2>3. restore_staging' \in Chunk /\ heard' = restore_staging'
        <3>1. fits(Len(restore_staging), units)
            BY <2>1 DEF in_sequence
        <3>2. restore_staging \o units \in Chunk
            BY <2>1, <3>1, AppendChunk DEF IInv, RestoreInv
        <3>3. QED
            BY <2>1, <2>2, <3>2
    <2>4. 0 \in 0 .. CLOCK
        BY SettingsAssumption
    <2>5. RestoreInv'
        BY <2>1, <2>3, <2>4, Zenon DEF IInv, RestoreInv
    <2>6. StoreInv' /\ BackupInv'
        BY CommandKeepsStore, BackupUnchanged DEF IInv, RestoreChunk
    <2>7. QED
        BY <2>5, <2>6 DEF IInv
<1>3. QED
    BY <1>1, <1>2

LEMMA RestoreCommitKeeps == ASSUME IInv, RestoreCommit PROVE IInv'
<1>1. CASE BackupCommand /\ ~restorable /\ abandon_restore /\ UNCHANGED <<ramVars, backupVars>>
    BY <1>1, AbandoningKeeps
<1>2. CASE /\ Command /\ restorable
           /\ Stored(restore_staging)
           /\ current_settings' = restore_staging /\ settings_saved' = TRUE
           /\ abandon_restore /\ UNCHANGED backupVars
    <2>1. StoreInv'
        BY <1>2, StoredKeeps, Zenon DEF IInv, restorable, usable
    <2>2. QED
        BY <1>2, <2>1, BackupUnchanged, AbandonKeeps DEF IInv
<1>3. QED
    BY <1>1, <1>2 DEF RestoreCommit

LEMMA RestoreFailureKeeps ==
    ASSUME IInv, RestoreSaveFails \/ RestoreCutShort
    PROVE  IInv'
<1>1. CASE RestoreSaveFails
    <2>1. StoreInv'
        BY <1>1, StoredKeeps, Zenon DEF IInv, RestoreSaveFails, flight_settings_set, usable
    <2>2. QED
        BY <1>1, <2>1, BackupUnchanged, AbandonKeeps DEF IInv, RestoreSaveFails
<1>2. CASE RestoreCutShort
    BY <1>2, CutShortKeeps, DefaultsValid DEF RestoreCutShort, restorable, usable
<1>3. QED
    BY <1>1, <1>2

LEMMA NewClientKeeps == ASSUME IInv, NewClient PROVE IInv'
<1>1. StoreInv'
    BY StoreUnchanged DEF IInv, StoreInv, NewClient, Command
<1>2. BackupInv'
    BY DEF NewClient, new_client, BackupInv, BackupIsOneValue
<1>3. RestoreInv'
    BY AbandonKeeps DEF NewClient, new_client
<1>4. QED
    BY <1>1, <1>2, <1>3 DEF IInv

LEMMA TimeKeeps == ASSUME IInv, TimePasses PROVE IInv'
<1>1. StoreInv' /\ BackupInv'
    BY StoreUnchanged, BackupUnchanged DEF IInv, TimePasses
<1>2. elapsed' \in 0 .. CLOCK
    BY SettingsAssumption DEF IInv, RestoreInv, TimePasses
<1>3. RestoreInv'
    BY <1>2, Zenon DEF IInv, RestoreInv, TimePasses
<1>4. QED
    BY <1>1, <1>3 DEF IInv

LEMMA PowerLossKeeps == ASSUME IInv, PowerLoss PROVE IInv'
BY PowerOffKeeps DEF IInv, StoreInv, PowerLoss

LEMMA PowerUpKeeps == ASSUME IInv, PowerUp PROVE IInv'
<1>1. current_settings' \in Valid
    BY DefaultsValid DEF PowerUp, flight_settings_init, usable
<1>2. SavedIsStored'
    <2>1. CASE settings_saved' = FALSE
        BY <2>1 DEF SavedIsStored
    <2>2. CASE settings_saved' # FALSE
        <3>1. page.kind = "current" /\ current_settings' = page.settings /\ page' = page
            BY <2>2 DEF PowerUp, flight_settings_init
        <3>2. page = Record(page.settings)
            BY <3>1 DEF IInv, StoreInv, Page, Record
        <3>3. QED
            BY <3>1, <3>2 DEF SavedIsStored, Record
    <2>3. QED
        BY <2>1, <2>2
<1>3. StoreInv'
    BY <1>1, <1>2 DEF IInv, StoreInv, CurrentIsValid, PowerUp, flight_settings_init
<1>4. QED
    BY <1>3, BackupUnchanged, RestoreUnchanged DEF IInv, PowerUp

-----------------------------------------------------------------------------
LEMMA InitHolds == Init => IInv
<1>1. 0 \in 0 .. CLOCK
    BY SettingsAssumption
<1>2. ASSUME Init PROVE StoreInv /\ BackupInv /\ RestoreInv
    <2>1. StoreInv
        BY <1>2, DefaultsValid, Zenon DEF Init, StoreInv, CurrentIsValid, SavedIsStored
    <2>2. BackupInv
        BY <1>2 DEF Init, BackupInv, BackupIsOneValue
    <2>3. RestoreInv
        BY <1>1, <1>2, Zenon DEF Init, RestoreInv
    <2>4. QED
        BY <2>1, <2>2, <2>3
<1>3. QED
    BY <1>2 DEF IInv

LEMMA NextKeeps == IInv /\ [Next]_vars => IInv'
<1>1. SUFFICES ASSUME IInv, [Next]_vars PROVE IInv'
    OBVIOUS
<1>2. CASE Set \/ Save \/ MenuSave
    BY <1>1, <1>2, SetKeeps, SaveKeeps, MenuSaveKeeps
<1>3. CASE GetInfo \/ GetChunk
    BY <1>1, <1>3, GetInfoKeeps, GetChunkKeeps
<1>4. CASE BackupBusy \/ RestoreCancel
    BY <1>1, <1>4, AbandoningKeeps DEF BackupBusy, RestoreCancel, BackupCommand
<1>5. CASE RestoreBegin \/ RestoreChunk \/ RestoreCommit
    BY <1>1, <1>5, RestoreBeginKeeps, RestoreChunkKeeps, RestoreCommitKeeps
<1>6. CASE RestoreSaveFails \/ RestoreCutShort
    BY <1>1, <1>6, RestoreFailureKeeps
<1>7. CASE NewClient \/ TimePasses \/ PowerLoss \/ PowerUp
    BY <1>1, <1>7, NewClientKeeps, TimeKeeps, PowerLossKeeps, PowerUpKeeps
<1>8. CASE UNCHANGED vars
    <2>1. powered' = powered /\ UNCHANGED <<ramVars, page>>
             /\ UNCHANGED backupVars /\ UNCHANGED restoreVars
        BY <1>8 DEF vars
    <2>2. QED
        BY <1>1, <2>1, StoreUnchanged, BackupUnchanged, RestoreUnchanged DEF IInv
<1>9. QED
    BY <1>1, <1>2, <1>3, <1>4, <1>5, <1>6, <1>7, <1>8, Zenon DEF Next

(* The inductive invariant holds in every reachable state.                 *)
THEOREM StoreInvariance == Spec => []IInv
BY InitHolds, NextKeeps, PTL DEF Spec

(* Every variable keeps to its type; the staging area is never overrun     *)
(* (settings_backup_protocol.h:93-97).                                     *)
THEOREM StoreTypes == Spec => []TypeOK
BY StoreInvariance, InvImplies, PTL

(* Whatever is in the sector, the settings in use are ones the validators  *)
(* accept (flight_settings.c:940-987, 994-1035).                           *)
THEOREM CurrentValid == Spec => []CurrentIsValid
BY StoreInvariance, InvImplies, PTL

(* Settings reported as saved are the ones the next power-up loads         *)
(* (flight_settings.c:981, 1038, 1083).                                    *)
THEOREM SavedStored == Spec => []SavedIsStored
BY StoreInvariance, InvImplies, PTL

(* All chunks a host reads after one GET_SETTINGS_INFO belong to the value *)
(* whose checksum it was given (settings_backup_protocol.h:42-70).         *)
THEOREM BackupConsistent == Spec => []BackupIsOneValue
BY StoreInvariance, InvImplies, PTL

(* A restore stores what one uninterrupted transfer delivered, or nothing  *)
(* (settings_backup_protocol.h:77-127).                                    *)
THEOREM RestoreAtomic == Spec => RestoreIsOneTransfer
<1>1. ASSUME IInv, RestoreCommit \/ RestoreCutShort
      PROVE  page' \in {page, NoRecord, Record(heard)}
    <2>1. CASE BackupCommand
        BY <2>1 DEF BackupCommand
    <2>2. CASE restorable /\ (Stored(restore_staging) \/ NotStored)
        <3>1. heard = restore_staging
            BY <1>1, <2>2 DEF restorable, still_active, IInv, RestoreInv
        <3>2. QED
            BY <2>2, <3>1 DEF Stored, NotStored
    <2>3. QED
        BY <1>1, <2>1, <2>2 DEF RestoreCommit, RestoreCutShort, SaveCutShort
<1>2. IInv /\ [Next]_vars =>
        [page' \notin {page, NoRecord, Record(heard)} =>
            ~ (RestoreCommit \/ RestoreCutShort)]_vars
    BY <1>1
<1>3. QED
    BY <1>2, StoreInvariance, PTL DEF Spec, RestoreIsOneTransfer

=============================================================================
