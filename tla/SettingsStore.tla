---------------------------- MODULE SettingsStore ----------------------------
(***************************************************************************)
(* storage/flight_settings.c and protocol/settings_backup_protocol.h: the  *)
(* settings in RAM, the record of them in one erasable flash sector, and   *)
(* the transfer by which a host reads a backup or restores one.  Commands  *)
(* are handled one at a time by the loop, but between two of them the host *)
(* may restart, time may pass and power may fail; power may also fail      *)
(* inside a save, between the erase and the last word.  The pilot may arm  *)
(* or move the ARM switch at any time, so any backup command may be        *)
(* answered BUSY; every command that writes settings is refused in flight. *)
(*                                                                         *)
(* Data abstraction.  A settings value is a sequence of SIZE units, which  *)
(* the host transfers in chunks; every range check is the one question     *)
(* whether some unit is INVALID.  A checksum tells any two values apart.   *)
(* What a transfer that is not active any more left in the staging area is *)
(* never read (BEGIN clears it) and is forgotten at once.                  *)
(***************************************************************************)
EXTENDS Integers, Sequences

CONSTANTS
    SIZE,        \* units of a settings value
    GOOD,        \* units the validators accept
    INVALID,     \* a unit they refuse
    DEFAULT,     \* the unit of the default settings
    TIMEOUT,     \* SETTINGS_BACKUP_TIMEOUT_US
    CLOCK        \* the microsecond counter wraps here; bound: no host waits longer

ASSUME SettingsAssumption ==
    /\ SIZE \in Nat \ {0}
    /\ TIMEOUT \in Nat /\ CLOCK \in Nat /\ TIMEOUT + 1 < CLOCK
    /\ DEFAULT \in GOOD /\ INVALID \notin GOOD

VARIABLES
    powered,
    current_settings, settings_saved,
    page,                 \* the flash sector
    backup_snapshot,      \* NoValue: backup_snapshot_ready is false
    restore_active, restore_staging, restore_crc,
    elapsed,              \* since restore_activity_us, while a restore is active
    announced, download,  \* the host: INFO's checksum, the units fetched since
    heard                 \* history: the units delivered since BEGIN, or Broken

ramVars == <<current_settings, settings_saved>>
restoreVars == <<restore_active, restore_staging, restore_crc, elapsed, heard>>
backupVars == <<backup_snapshot, announced, download>>

vars == <<powered, ramVars, page, backupVars, restoreVars>>

-----------------------------------------------------------------------------
Unit == GOOD \cup {INVALID}
Settings == [1 .. SIZE -> Unit]
Valid == [1 .. SIZE -> GOOD]
Defaults == [i \in 1 .. SIZE |-> DEFAULT]
NoValue == <<>>
Broken == <<FALSE>>

(* The sector holds no usable record (erased, torn, foreign, or older than *)
(* version 27), one of version 27, or one of the current version.          *)
Page == [kind : {"none"}, settings : {NoValue}]
          \cup [kind : {"previous", "current"}, settings : Settings]
NoRecord == [kind |-> "none", settings |-> NoValue]
Record(s) == [kind |-> "current", settings |-> s]

Chunk == UNION {[1 .. n -> Unit] : n \in 1 .. SIZE}

TypeOK ==
    /\ powered \in BOOLEAN
    /\ current_settings \in Settings /\ settings_saved \in BOOLEAN
    /\ page \in Page
    /\ backup_snapshot \in Settings \cup {NoValue}
    /\ announced \in Settings \cup {NoValue}
    /\ download \subseteq (1 .. SIZE) \X Unit
    /\ restore_active \in BOOLEAN
    /\ restore_staging \in Chunk \cup {NoValue}
    /\ restore_crc \in Settings \cup {NoValue}
    /\ elapsed \in 0 .. CLOCK
    /\ heard \in Chunk \cup {NoValue, Broken}

-----------------------------------------------------------------------------
(* flight_settings.c.                                                      *)

LoadsUnchecked(s) == s # NoValue

usable(s) == s \in Valid

(* flight_settings_init: a record of the current version counts as saved,  *)
(* one of version 27 is migrated in RAM only.                              *)
flight_settings_init ==
    /\ current_settings' = IF usable(page.settings) THEN page.settings ELSE Defaults
    /\ settings_saved' = (page.kind = "current" /\ usable(page.settings))

StaysSaved(s) ==
    s \in Valid /\ current_settings' = s /\ UNCHANGED settings_saved

flight_settings_set(s) ==
    usable(s) /\ current_settings' = s /\ settings_saved' = FALSE

(* RAM is empty without power, and so is the host's side of a transfer.    *)
PowerOff ==
    /\ powered' = FALSE
    /\ current_settings' = Defaults /\ settings_saved' = FALSE
    /\ backup_snapshot' = NoValue /\ announced' = NoValue /\ download' = {}
    /\ restore_active' = FALSE /\ restore_staging' = NoValue
    /\ restore_crc' = NoValue /\ elapsed' = 0 /\ heard' = Broken

(* flight_settings_save erases the sector and programs it word by word.    *)
(* When that stops half way nothing that reads as a record is left.        *)
Stored(s) == page' = Record(s)
NotStored == page' \in {page, NoRecord}
SaveCutShort(s) == PowerOff /\ (Stored(s) \/ NotStored)

-----------------------------------------------------------------------------
(* SET_ commands, SAVE_SETTINGS and the tuning menu.                       *)

Command == powered /\ powered' = TRUE

Set ==
    /\ Command
    /\ \E s \in Settings : flight_settings_set(s)
    /\ UNCHANGED <<page, backupVars, restoreVars>>

Save ==
    \/ /\ Command
       /\ settings_saved' \in BOOLEAN
       /\ IF settings_saved' THEN Stored(current_settings) ELSE NotStored
       /\ UNCHANGED <<current_settings, backupVars, restoreVars>>
    \/ powered /\ SaveCutShort(current_settings)

(* close_menu: the edited settings are set and saved in one go.            *)
MenuSave ==
    \E s \in Valid :
       \/ /\ Command
          /\ current_settings' = s
          /\ settings_saved' \in BOOLEAN
          /\ IF settings_saved' THEN Stored(s) ELSE NotStored
          /\ UNCHANGED <<backupVars, restoreVars>>
       \/ powered /\ SaveCutShort(s)

-----------------------------------------------------------------------------
(* settings_backup_process.                                                *)

expired == elapsed % CLOCK > TIMEOUT

(* What every backup command does first.                                   *)
still_active == restore_active /\ ~expired

no_restore ==
    /\ restore_active' = FALSE /\ restore_staging' = NoValue
    /\ restore_crc' = NoValue /\ elapsed' = 0

abandon_restore == no_restore /\ heard' = Broken

keep_restore ==
    IF still_active THEN UNCHANGED restoreVars ELSE abandon_restore

(* Armed, ARM switch on or a test running: answered BUSY, whatever it is.  *)
BackupBusy ==
    /\ Command
    /\ abandon_restore
    /\ UNCHANGED <<ramVars, page, backupVars>>

BackupCommand ==
    /\ Command
    /\ UNCHANGED page

GetInfo ==
    /\ BackupCommand
    /\ backup_snapshot' = current_settings
    /\ announced' = current_settings /\ download' = {}
    /\ keep_restore
    /\ UNCHANGED ramVars

ReadsLive(i) == current_settings[i]

snapshot_unit(i) == backup_snapshot[i]

(* A chunk; without a snapshot the answer is an error.                     *)
GetChunk ==
    /\ BackupCommand
    /\ \/ backup_snapshot = NoValue /\ UNCHANGED download
       \/ /\ backup_snapshot # NoValue
          /\ \E i \in 1 .. SIZE : download' = download \cup {<<i, snapshot_unit(i)>>}
    /\ keep_restore
    /\ UNCHANGED <<ramVars, backup_snapshot, announced>>

(* CANCEL, a BEGIN for another board or layout, an unknown RESTORE_ line.  *)
RestoreCancel ==
    /\ BackupCommand
    /\ abandon_restore
    /\ UNCHANGED <<ramVars, backupVars>>

RestoreBegin ==
    /\ BackupCommand
    /\ restore_active' = TRUE /\ restore_staging' = NoValue
    /\ restore_crc' \in Settings
    /\ elapsed' = 0 /\ heard' = NoValue
    /\ UNCHANGED <<ramVars, backupVars>>

OnlyOffsetFits(offset, units) == offset < SIZE

fits(offset, units) == offset + Len(units) <= SIZE

in_sequence(offset) == still_active /\ offset = Len(restore_staging)

(* Any other chunk (out of sequence, too long, not in hex, too late) ends  *)
(* the restore.                                                            *)
RestoreChunk ==
    /\ BackupCommand
    /\ UNCHANGED <<ramVars, backupVars>>
    /\ \/ abandon_restore
       \/ \E offset \in 0 .. SIZE, units \in Chunk :
             /\ in_sequence(offset) /\ fits(offset, units)
             /\ restore_staging' = restore_staging \o units
             /\ heard' = heard \o units
             /\ elapsed' = 0
             /\ UNCHANGED <<restore_active, restore_crc>>

(* Complete, with the announced checksum, and with valid values.           *)
restorable ==
    still_active /\ restore_staging = restore_crc /\ usable(restore_staging)

RestoreCommit ==
    \/ BackupCommand /\ ~restorable
       /\ abandon_restore /\ UNCHANGED <<ramVars, backupVars>>
    \/ /\ Command /\ restorable
       /\ Stored(restore_staging)
       /\ current_settings' = restore_staging /\ settings_saved' = TRUE
       /\ abandon_restore /\ UNCHANGED backupVars

(* The save failed: the settings before are set again, unsaved.            *)
RestoreSaveFails ==
    /\ Command /\ restorable
    /\ NotStored
    /\ flight_settings_set(current_settings)
    /\ abandon_restore /\ UNCHANGED backupVars

RestoreCutShort ==
    powered /\ restorable /\ SaveCutShort(restore_staging)

KeepsTransfer ==
    /\ heard' = Broken
    /\ UNCHANGED <<backupVars, restore_active, restore_staging, restore_crc, elapsed>>

(* HELLO and BYE.                                                          *)
new_client ==
    /\ abandon_restore
    /\ backup_snapshot' = NoValue /\ announced' = NoValue /\ download' = {}

NewClient ==
    /\ Command
    /\ new_client
    /\ UNCHANGED <<ramVars, page>>

-----------------------------------------------------------------------------
(* The rest of the world.                                                  *)

TimePasses ==
    /\ powered /\ restore_active /\ elapsed < CLOCK
    /\ elapsed' = elapsed + 1
    /\ UNCHANGED <<powered, ramVars, page, backupVars, restore_active,
                   restore_staging, restore_crc, heard>>

PowerLoss == powered /\ PowerOff /\ UNCHANGED page

PowerUp ==
    /\ ~powered /\ powered' = TRUE
    /\ flight_settings_init
    /\ UNCHANGED <<page, backupVars, restoreVars>>

Init ==
    /\ powered = FALSE
    /\ current_settings = Defaults /\ settings_saved = FALSE
    /\ page \in Page
    /\ backup_snapshot = NoValue /\ announced = NoValue /\ download = {}
    /\ restore_active = FALSE /\ restore_staging = NoValue
    /\ restore_crc = NoValue /\ elapsed = 0 /\ heard = Broken

Next ==
    \/ Set \/ Save \/ MenuSave
    \/ BackupBusy \/ GetInfo \/ GetChunk
    \/ RestoreCancel \/ RestoreBegin \/ RestoreChunk
    \/ RestoreCommit \/ RestoreSaveFails \/ RestoreCutShort
    \/ NewClient
    \/ TimePasses \/ PowerLoss \/ PowerUp

Spec == Init /\ [][Next]_vars

-----------------------------------------------------------------------------
(* Safety.                                                                 *)

(* Whatever the sector held at power-up, an older layout or a record some  *)
(* other validator wrote, the settings that fly are ones the validators    *)
(* accept (flight_settings.c:940-987, 994-1035).                           *)
CurrentIsValid == current_settings \in Valid

(* Settings reported as saved are in the sector, word for word, and the    *)
(* next power-up loads them (flight_settings.c:981, 1038, 1083).           *)
SavedIsStored ==
    powered /\ settings_saved =>
        page = Record(current_settings)

(* "GET_SETTINGS_INFO captures a consistent full settings snapshot"        *)
(* (README.md:252): whatever is set between two chunks, what the host has  *)
(* fetched belongs to the value whose checksum it was given.               *)
BackupIsOneValue == \A u \in download : announced # NoValue /\ u[2] = announced[u[1]]

(* What a restore leaves in the sector was delivered in order by one       *)
(* transfer that nothing interrupted: no HELLO, BYE, cancel, refused or    *)
(* late command or power loss since its BEGIN (README.md:254).             *)
RestoreIsOneTransfer ==
    [][page' \notin {page, NoRecord, Record(heard)} =>
          ~ (RestoreCommit \/ RestoreCutShort)]_vars

(* README.md:254: "Partial, corrupt, expired or incompatible transfers     *)
(* never reach settings application."                                      *)
ExpiredNeverApplied ==
    [][RestoreCommit /\ restorable => elapsed <= TIMEOUT]_vars
=============================================================================
