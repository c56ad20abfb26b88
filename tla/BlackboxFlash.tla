---------------------------- MODULE BlackboxFlash ----------------------------
(***************************************************************************)
(* storage/blackbox_flash.c: the flight recorder on a NOR flash chip.      *)
(* One bank holds the retained flight, the other is blank or being         *)
(* written; a flight is committed by programming the last bytes of its     *)
(* header, and only then is the older bank erased.  The driver issues one  *)
(* chip operation at a time and polls it from the main loop, so power may  *)
(* fail, or the SPI bus report an error, around any of them.               *)
(*                                                                         *)
(* Data abstraction.  Addresses and lengths are counted in slots: a record *)
(* is RECORD_SLOTS of them, a page PAGE_SLOTS, an erase block BLOCK_SLOTS. *)
(* A cell holds the serial number of the slot that was programmed into it, *)
(* or BLANK, or BAD when a program was torn or hit a cell in use.  A       *)
(* header is blank, open (begun, not committed), valid, or dirty.          *)
(***************************************************************************)
EXTENDS Integers

CONSTANTS
    RECORD_SLOTS, PAGE_SLOTS, BLOCK_SLOTS, BANK_SLOTS,
    QUEUE_RECORDS,
    BLANK_ERASE_CAN_TEAR, \* an interrupted erase can spoil a block that was blank
    MAX_FLIGHTS        \* bound: flight ids beyond it are not explored

ASSUME GeometryAssumption ==
    /\ RECORD_SLOTS \in Nat \ {0} /\ PAGE_SLOTS \in Nat \ {0}
    /\ BLOCK_SLOTS \in Nat \ {0} /\ QUEUE_RECORDS \in Nat \ {0}
    /\ MAX_FLIGHTS \in Nat \ {0} /\ BLANK_ERASE_CAN_TEAR \in BOOLEAN
    /\ BANK_SLOTS \in Nat /\ BANK_SLOTS >= RECORD_SLOTS
    /\ BANK_SLOTS % BLOCK_SLOTS = 0 /\ BLOCK_SLOTS % PAGE_SLOTS = 0

VARIABLES
    phase,         \* "idle", "issue" (inside blackbox_sd_update), "suspended" (a
                   \* passthrough session: the loop leaves before the update) or "off"
    state, available, recording, finalise_pending, retain_pending,
    operation,     \* with operation_waiting: "NONE" when nothing is under way
    erase_active, clear_second_pending, start_pending,
    retained_bank, write_bank, erase_bank,
    erase_block,   \* erase_address
    next_flight_id, record_count,
    queue, queue_read, queue_write, queue_count,
    record_program_offset, program_length,
    header, cells, \* the chip
    flight,        \* flight_log.c: "logging" while a qualified flight records
    committed      \* history: id of the newest committed flight, 0 if none

chip == <<header, cells>>
eraseVars == <<erase_active, clear_second_pending, erase_bank, erase_block>>
queueVars == <<queue, queue_read, queue_write, queue_count,
               record_program_offset, program_length>>
stopVars == <<finalise_pending, retain_pending>>
bankVars == <<retained_bank, write_bank, next_flight_id>>

vars == <<phase, state, available, recording, stopVars, operation, eraseVars,
          start_pending, bankVars, record_count, queueVars, chip, flight, committed>>

-----------------------------------------------------------------------------
Bank == {0, 1}
NO_BANK == 2                        \* 0xFF
Slot == 0 .. BANK_SLOTS - 1
LAST_BLOCK == (BANK_SLOTS \div BLOCK_SLOTS) - 1
MAXIMUM == BANK_SLOTS \div RECORD_SLOTS

BLANK == -1
BAD == -2

BlankHeader == [kind |-> "blank", id |-> 0, count |-> 0]
DirtyHeader == [kind |-> "dirty", id |-> 0, count |-> 0]
BlankCells == [s \in Slot |-> BLANK]

header_valid(b) == header[b].kind = "valid"
header_erased(b) == header[b].kind = "blank"

TypeOK ==
    /\ phase \in {"idle", "issue", "suspended", "off"}
    /\ state \in {"INITIALIZING", "READY", "RECORDING", "ERROR"}
    /\ available \in BOOLEAN /\ recording \in BOOLEAN
    /\ finalise_pending \in BOOLEAN /\ retain_pending \in BOOLEAN
    /\ operation \in {"NONE", "HEADER", "RECORD", "FINAL", "ERASE"}
    /\ erase_active \in BOOLEAN /\ clear_second_pending \in BOOLEAN
    /\ start_pending \in BOOLEAN
    /\ retained_bank \in Bank \cup {NO_BANK} /\ write_bank \in Bank
    /\ erase_bank \in Bank /\ erase_block \in 0 .. LAST_BLOCK
    /\ next_flight_id \in 1 .. MAX_FLIGHTS + 1
    /\ record_count \in 0 .. MAXIMUM /\ queue_count \in 0 .. QUEUE_RECORDS
    /\ record_count + queue_count <= MAXIMUM
    /\ queue \in [0 .. QUEUE_RECORDS - 1 -> 0 .. MAXIMUM]
    /\ queue_read \in 0 .. QUEUE_RECORDS - 1
    /\ queue_write \in 0 .. QUEUE_RECORDS - 1
    /\ record_program_offset \in 0 .. RECORD_SLOTS - 1
    /\ program_length \in 0 .. PAGE_SLOTS
    /\ header \in [Bank -> [kind : {"blank", "open", "valid", "dirty"},
                            id : 0 .. MAX_FLIGHTS, count : 0 .. MAXIMUM]]
    /\ cells \in [Bank -> [Slot -> Slot \cup {BLANK, BAD}]]
    /\ flight \in {"none", "logging"}
    /\ committed \in 0 .. MAX_FLIGHTS

-----------------------------------------------------------------------------
(* The chip.  An operation that is interrupted, by a power loss or after a *)
(* bus error, may have done nothing, everything, or have left its target   *)
(* torn.                                                                   *)

Outcome == {"nothing", "torn", "everything"}

(* Programming only clears bits: a cell in use is spoilt.                  *)
Programmed(old, new) == IF old = BLANK THEN new ELSE BAD

HeaderProgram(outcome) ==
    /\ header' =
          CASE outcome = "nothing" -> header
            [] outcome = "torn" -> [header EXCEPT ![write_bank] = DirtyHeader]
            [] OTHER -> [header EXCEPT ![write_bank] =
                           IF header_erased(write_bank)
                           THEN [kind |-> "open", id |-> next_flight_id - 1, count |-> 0]
                           ELSE DirtyHeader]
    /\ UNCHANGED <<cells, committed>>

(* The slot that the queue holds at distance k from the read position.     *)
queued_slot(k) ==
    LET pos == record_program_offset + k
    IN  queue[(queue_read + (pos \div RECORD_SLOTS)) % QUEUE_RECORDS] * RECORD_SLOTS
          + (pos % RECORD_SLOTS)

record_address == record_count * RECORD_SLOTS + record_program_offset

ProgramRange(length) == record_address .. record_address + length - 1

RecordProgram(length, outcome) ==
    /\ cells' = [cells EXCEPT ![write_bank] =
          [s \in Slot |->
              IF outcome = "nothing" \/ s \notin ProgramRange(length) THEN @[s]
              ELSE IF outcome = "torn" THEN BAD
              ELSE Programmed(@[s], queued_slot(s - record_address))]]
    /\ UNCHANGED <<header, committed>>

CountForgotten == 0

(* The six bytes of a commit: the count of records, flags, the valid byte. *)
final_count == record_count

(* The valid byte is the last of the six: a torn program leaves it open.   *)
FinalProgram(outcome) ==
    /\ IF outcome = "everything" /\ header[write_bank].kind = "open"
       THEN /\ header' = [header EXCEPT ![write_bank] =
                             [@ EXCEPT !.kind = "valid", !.count = final_count]]
            /\ committed' = header[write_bank].id
       ELSE UNCHANGED <<header, committed>>
    /\ UNCHANGED cells

(* Erasing what is blank already is harmless when torn, unless the chip    *)
(* programs a block before it erases it.                                   *)
EraseTears(blank) == ~blank \/ BLANK_ERASE_CAN_TEAR

BlockErase(outcome) ==
    /\ header' =
          IF erase_block # 0 \/ outcome = "nothing" THEN header
          ELSE [header EXCEPT ![erase_bank] =
                   IF outcome = "torn" /\ EraseTears(header_erased(erase_bank))
                   THEN DirtyHeader ELSE BlankHeader]
    /\ cells' = [cells EXCEPT ![erase_bank] =
          [s \in Slot |->
              IF outcome = "nothing" \/ s \div BLOCK_SLOTS # erase_block THEN @[s]
              ELSE IF outcome = "torn" /\ EraseTears(@[s] = BLANK) THEN BAD ELSE BLANK]]
    /\ UNCHANGED committed

Effect(op, length, outcome) ==
    \/ op = "NONE" /\ UNCHANGED <<chip, committed>>
    \/ op = "HEADER" /\ HeaderProgram(outcome)
    \/ op = "RECORD" /\ RecordProgram(length, outcome)
    \/ op = "FINAL" /\ FinalProgram(outcome)
    \/ op = "ERASE" /\ BlockErase(outcome)

-----------------------------------------------------------------------------
(* Helpers.                                                                *)

is_busy ==
    erase_active \/ operation # "NONE" \/ finalise_pending \/ queue_count > 0

ErasesHeaderOnly(b) ==
    /\ erase_active' = TRUE /\ erase_bank' = b /\ erase_block' = 0
    /\ state' = "INITIALIZING"

(* Erase backwards: the block with the header goes last.                   *)
prepare_bank(b) ==
    /\ erase_active' = TRUE /\ erase_bank' = b /\ erase_block' = LAST_BLOCK
    /\ state' = "INITIALIZING"

fail == state' = "ERROR" /\ operation' = "NONE"

(* write_enable, the status check or the transfer failed.  A program may   *)
(* have reached the chip in part, an erase command did or did not.         *)
StartFails(op, length) ==
    /\ fail
    /\ \E outcome \in IF op = "ERASE" THEN Outcome \ {"torn"} ELSE Outcome :
           Effect(op, length, outcome)

empty_queue ==
    /\ queue_read' = 0 /\ queue_write' = 0 /\ queue_count' = 0
    /\ record_program_offset' = 0 /\ program_length' = 0
    /\ UNCHANGED queue

(* The header of the new flight; the chip gets it when the program ends.   *)
begin_recording ==
    /\ next_flight_id <= MAX_FLIGHTS
    /\ next_flight_id' = next_flight_id + 1
    /\ record_count' = 0
    /\ finalise_pending' = FALSE

BeginOk ==
    /\ operation' = "HEADER" /\ recording' = TRUE /\ state' = "RECORDING"
    /\ UNCHANGED <<chip, committed>>

(* A failed start spoils the header page at most.                          *)
BeginFails ==
    /\ fail
    /\ header' \in {header, [header EXCEPT ![write_bank] = DirtyHeader]}
    /\ UNCHANGED <<recording, cells, committed>>

-----------------------------------------------------------------------------
(* blackbox_sd_update: first the operation under way.                      *)

Polling == phase = "idle" /\ available /\ state # "ERROR"

(* Busy until the deadline, or no answer: the recorder gives up.           *)
OperationTimeout ==
    /\ Polling /\ operation # "NONE"
    /\ \E outcome \in Outcome : Effect(operation, program_length, outcome)
    /\ fail
    /\ UNCHANGED <<phase, available, recording, stopVars, eraseVars, start_pending,
                   bankVars, record_count, queueVars, flight>>

Done(op) ==
    /\ Polling /\ operation = op
    /\ Effect(op, program_length, "everything")
    /\ UNCHANGED <<available, flight>>

HeaderDone ==
    /\ Done("HEADER")
    /\ operation' = "NONE" /\ phase' = "issue"
    /\ UNCHANGED <<state, recording, stopVars, eraseVars, start_pending, bankVars,
                   record_count, queueVars>>

OffsetForgotten == 0

(* How much of the record at the front is on the chip already.             *)
offset_after_program == (record_program_offset + program_length) % RECORD_SLOTS

(* The bytes just programmed leave the queue, whole records first.         *)
RecordDone ==
    /\ Done("RECORD")
    /\ operation' = "NONE" /\ phase' = "issue"
    /\ LET records == (record_program_offset + program_length) \div RECORD_SLOTS
       IN  /\ record_program_offset' = offset_after_program
           /\ queue_read' = (queue_read + records) % QUEUE_RECORDS
           /\ queue_count' = queue_count - records
           /\ record_count' = record_count + records
    /\ program_length' = 0
    /\ UNCHANGED <<state, recording, stopVars, eraseVars, start_pending, bankVars,
                   queue, queue_write>>

(* The flight is committed; the bank of the older one becomes free, once   *)
(* it is erased.  write_bank still names the bank just committed.          *)
FinalDone ==
    /\ Done("FINAL")
    /\ operation' = "NONE" /\ phase' = "issue"
    /\ recording' = FALSE
    /\ retained_bank' = write_bank
    /\ LET other == 1 - write_bank
       IN  \/ prepare_bank(other) /\ UNCHANGED write_bank
           \/ /\ retained_bank = NO_BANK /\ header_erased(other)
              /\ write_bank' = other /\ state' = "READY"
              /\ UNCHANGED <<erase_active, erase_bank, erase_block>>
    /\ UNCHANGED <<stopVars, clear_second_pending, start_pending, next_flight_id,
                   record_count, queueVars>>

BlockDone ==
    /\ Done("ERASE") /\ erase_block > 0
    /\ erase_block' = erase_block - 1
    /\ operation' = "NONE" /\ phase' = "issue"
    /\ UNCHANGED <<state, recording, stopVars, erase_active, clear_second_pending,
                   erase_bank, start_pending, bankVars, record_count, queueVars>>

FirstBankCleared ==
    /\ Done("ERASE") /\ erase_block = 0 /\ clear_second_pending /\ erase_bank = 0
    /\ clear_second_pending' = FALSE
    /\ prepare_bank(1)
    /\ operation' = "NONE" /\ phase' = "issue"
    /\ UNCHANGED <<recording, stopVars, start_pending, bankVars, record_count, queueVars>>

BankErased ==
    /\ Polling /\ operation = "ERASE" /\ erase_block = 0
    /\ ~(clear_second_pending /\ erase_bank = 0)
    /\ erase_active' = FALSE
    /\ write_bank' = erase_bank
    /\ UNCHANGED <<available, flight, clear_second_pending, erase_bank, erase_block,
                   retained_bank>>

BankReady ==
    /\ BankErased /\ ~start_pending
    /\ Effect("ERASE", 0, "everything")
    /\ state' = "READY" /\ operation' = "NONE" /\ phase' = "issue"
    /\ UNCHANGED <<recording, stopVars, start_pending, next_flight_id, record_count,
                   queueVars>>

(* The flight that was waiting for this bank begins in the same call.      *)
BankReadyForFlight ==
    /\ BankErased /\ start_pending
    /\ start_pending' = FALSE
    /\ begin_recording /\ empty_queue
    /\ phase' = "idle"
    /\ cells' = [cells EXCEPT ![erase_bank] =
          [s \in Slot |-> IF s \div BLOCK_SLOTS = 0 THEN BLANK ELSE @[s]]]
    /\ UNCHANGED <<retain_pending, committed>>
    /\ \/ /\ header' = [header EXCEPT ![erase_bank] = BlankHeader]
          /\ operation' = "HEADER" /\ recording' = TRUE /\ state' = "RECORDING"
       \/ /\ header' \in {[header EXCEPT ![erase_bank] = h] : h \in {BlankHeader, DirtyHeader}}
          /\ fail
          /\ UNCHANGED recording

-----------------------------------------------------------------------------
(* ... then the next one.                                                  *)

Issuing ==
    /\ phase = "issue" \/ (Polling /\ operation = "NONE")
    /\ phase' = "idle"
    /\ UNCHANGED <<available, start_pending, bankVars, record_count, queue, queue_read,
                   queue_write, queue_count, record_program_offset, flight>>

Issue(op, length) ==
    \/ operation' = op /\ UNCHANGED <<state, chip, committed>>
    \/ StartFails(op, length)

IssueErase ==
    /\ Issuing /\ erase_active
    /\ Issue("ERASE", 0)
    /\ UNCHANGED <<recording, stopVars, eraseVars, program_length>>

page_remaining == PAGE_SLOTS - (record_address % PAGE_SLOTS)

queued_bytes == queue_count * RECORD_SLOTS - record_program_offset

OnlyFullPages == queue_count > 0 /\ queued_bytes >= page_remaining

(* A full page, or, once the flight has ended, whatever is left.           *)
page_due == queue_count > 0 /\ (queued_bytes >= page_remaining \/ finalise_pending)

IssueRecord ==
    /\ Issuing /\ ~erase_active /\ page_due
    /\ LET length == IF queued_bytes < page_remaining THEN queued_bytes
                                                      ELSE page_remaining
       IN  program_length' = length /\ Issue("RECORD", length)
    /\ UNCHANGED <<recording, stopVars, eraseVars>>

DiscardFlight ==
    /\ Issuing /\ ~erase_active /\ queue_count = 0 /\ finalise_pending /\ ~retain_pending
    /\ finalise_pending' = FALSE /\ recording' = FALSE
    /\ prepare_bank(write_bank)
    /\ UNCHANGED <<retain_pending, operation, clear_second_pending, program_length,
                   chip, committed>>

IssueFinal ==
    /\ Issuing /\ ~erase_active /\ queue_count = 0 /\ finalise_pending /\ retain_pending
    /\ \/ operation' = "FINAL" /\ finalise_pending' = FALSE
          /\ UNCHANGED <<state, chip, committed>>
       \/ StartFails("FINAL", 0) /\ UNCHANGED finalise_pending
    /\ UNCHANGED <<recording, retain_pending, eraseVars, program_length>>

IssueNothing ==
    /\ phase = "issue" /\ Issuing /\ ~erase_active
    /\ IF queue_count > 0 THEN ~page_due ELSE ~finalise_pending
    /\ UNCHANGED <<state, recording, stopVars, operation, eraseVars, program_length,
                   chip, committed>>

Update ==
    \/ OperationTimeout \/ HeaderDone \/ RecordDone \/ FinalDone
    \/ BlockDone \/ FirstBankCleared \/ BankReady \/ BankReadyForFlight
    \/ IssueErase \/ IssueRecord \/ DiscardFlight \/ IssueFinal \/ IssueNothing

-----------------------------------------------------------------------------
(* The calls of flight_log.c.                                              *)

start_accepted == state = "READY" /\ ~erase_active /\ write_bank # retained_bank

(* A bank erase may finish while this same armed flight is running.        *)
start_deferred == erase_active /\ write_bank # retained_bank

(* The flight qualifies.  Arming takes a gyro calibration, far longer than *)
(* the last page programs of the flight before: its commit is over.        *)
StartAccepted ==
    /\ phase = "idle" /\ flight = "none" /\ start_accepted
    /\ flight' = "logging"
    /\ start_pending' = FALSE
    /\ begin_recording /\ empty_queue
    /\ BeginOk \/ BeginFails
    /\ UNCHANGED <<phase, available, retain_pending, eraseVars, retained_bank, write_bank>>

commit_over == state = "ERROR" \/ (~finalise_pending /\ operation # "FINAL")

StartRejected ==
    /\ phase = "idle" /\ flight = "none" /\ ~start_accepted /\ commit_over
    /\ flight' = "logging"
    /\ start_pending' = (start_pending \/ (available /\ start_deferred))
    /\ UNCHANGED <<phase, state, available, recording, stopVars, operation, eraseVars,
                   bankVars, record_count, queueVars, chip, committed>>

OnlyQueueFull == queue_count >= QUEUE_RECORDS

no_room == record_count + queue_count >= MAXIMUM \/ queue_count >= QUEUE_RECORDS

(* A record that finds the queue or the bank full is dropped.              *)
Append ==
    /\ phase = "idle" /\ flight = "logging"
    /\ recording /\ ~finalise_pending /\ ~no_room
    /\ queue' = [queue EXCEPT ![queue_write] = record_count + queue_count]
    /\ queue_write' = (queue_write + 1) % QUEUE_RECORDS
    /\ queue_count' = queue_count + 1
    /\ UNCHANGED <<phase, state, available, recording, stopVars, operation, eraseVars,
                   start_pending, bankVars, record_count, queue_read,
                   record_program_offset, program_length, chip, flight, committed>>

StillDeferred == start_pending

(* A deferred start dies with the flight it was for.                       *)
deferred_after_stop == start_pending /\ recording

(* flight_log_stop of a qualified flight.                                  *)
Stop ==
    /\ phase = "idle" /\ flight = "logging"
    /\ flight' = "none"
    /\ start_pending' = deferred_after_stop
    /\ IF recording
       THEN retain_pending' = (record_count + queue_count > 0) /\ finalise_pending' = TRUE
       ELSE UNCHANGED stopVars
    /\ UNCHANGED <<phase, state, available, recording, operation, eraseVars, bankVars,
                   record_count, queueVars, chip, committed>>

-----------------------------------------------------------------------------
(* The host's commands, refused while armed.                               *)

Clear ==
    /\ phase = "idle" /\ flight = "none" /\ ~recording /\ ~is_busy
    /\ retained_bank' = NO_BANK /\ record_count' = 0 /\ next_flight_id' = 1
    /\ clear_second_pending' = TRUE
    /\ prepare_bank(0)
    /\ committed' = 0
    /\ UNCHANGED <<phase, available, recording, stopVars, operation, start_pending,
                   write_bank, queueVars, chip, flight>>

TestAllowed ==
    /\ phase = "idle" /\ flight = "none"
    /\ state = "READY" /\ ~recording /\ ~is_busy /\ write_bank # retained_bank

(* The pattern goes into the header page, so the bank reads as not erased. *)
WriteTest ==
    /\ TestAllowed
    /\ header' \in {header, [header EXCEPT ![write_bank] = DirtyHeader]}
    /\ prepare_bank(write_bank)
    /\ UNCHANGED <<phase, available, recording, stopVars, operation, clear_second_pending,
                   start_pending, bankVars, record_count, queueVars, cells, flight,
                   committed>>

(* A flight of one record, begun and ended in one call.                    *)
SessionTest ==
    /\ TestAllowed
    /\ next_flight_id <= MAX_FLIGHTS /\ next_flight_id' = next_flight_id + 1
    /\ record_count' = 0 /\ start_pending' = FALSE
    /\ queue_read' = 0 /\ record_program_offset' = 0 /\ program_length' = 0
    /\ \/ /\ BeginOk
          /\ queue' = [queue EXCEPT ![0] = 0]
          /\ queue_write' = 1 % QUEUE_RECORDS /\ queue_count' = 1
          /\ finalise_pending' = TRUE /\ retain_pending' = TRUE
       \/ /\ BeginFails
          /\ queue_write' = 0 /\ queue_count' = 0
          /\ UNCHANGED <<queue, stopVars>>
    /\ UNCHANGED <<phase, available, eraseVars, retained_bank, write_bank, flight>>

-----------------------------------------------------------------------------
(* A passthrough session: refused while armed, but not while the recorder  *)
(* is busy.  It lasts as long as the host likes, and the loop then calls   *)
(* neither this driver nor flight control (main.c:127-131).                *)

Suspension(from, to) ==
    /\ phase = from /\ phase' = to
    /\ UNCHANGED <<state, available, recording, stopVars, operation, eraseVars, start_pending,
                   bankVars, record_count, queueVars, chip, flight, committed>>

esc_passthrough_begin == flight = "none" /\ Suspension("idle", "suspended")

esc_passthrough_end == Suspension("suspended", "idle")

Passthrough == esc_passthrough_begin \/ esc_passthrough_end

-----------------------------------------------------------------------------
(* Power.  What RAM held is gone: everything restarts from static storage. *)

Forget ==
    /\ recording' = FALSE /\ finalise_pending' = FALSE /\ retain_pending' = FALSE
    /\ operation' = "NONE" /\ clear_second_pending' = FALSE /\ start_pending' = FALSE
    /\ queue_read' = 0 /\ queue_write' = 0 /\ queue_count' = 0
    /\ queue' = [i \in 0 .. QUEUE_RECORDS - 1 |-> 0]
    /\ record_program_offset' = 0 /\ program_length' = 0

NoErase == erase_active' = FALSE /\ erase_bank' = 0 /\ erase_block' = 0

NoFlight ==
    /\ retained_bank' = NO_BANK /\ write_bank' = 0
    /\ next_flight_id' = 1 /\ record_count' = 0

PowerLoss ==
    /\ phase # "off"
    /\ phase' = "off" /\ flight' = "none"
    /\ state' = "ERROR" /\ available' = FALSE
    /\ Forget /\ NoErase /\ NoFlight
    /\ \E outcome \in Outcome : Effect(operation, program_length, outcome)

IgnoresFlightId ==
    IF header_valid(0) THEN 0 ELSE IF header_valid(1) THEN 1 ELSE NO_BANK

(* blackbox_sd_init: which bank holds the flight to keep.                  *)
BootBank ==
    IF header_valid(1) /\ (~header_valid(0) \/ header[1].id > header[0].id) THEN 1
    ELSE IF header_valid(0) THEN 0 ELSE NO_BANK

BootCandidate ==
    IF BootBank = NO_BANK
    THEN IF ~header_erased(0) /\ header_erased(1) THEN 1 ELSE 0
    ELSE 1 - BootBank

Booting ==
    /\ ~available
    /\ phase = "off" \/ (phase = "idle" /\ flight = "none" /\ state = "ERROR")
    /\ phase' = "idle"
    /\ Forget
    /\ UNCHANGED <<chip, committed, flight>>

(* init, or the probe that a status command makes in the ERROR state, has  *)
(* found the chip and read both headers.                                   *)
PowerUp ==
    /\ Booting /\ available' = TRUE
    /\ retained_bank' = BootBank
    /\ next_flight_id' = IF BootBank = NO_BANK THEN 1 ELSE header[BootBank].id + 1
    /\ record_count' = IF BootBank = NO_BANK THEN 0 ELSE header[BootBank].count
    /\ IF header_erased(BootCandidate)
       THEN write_bank' = BootCandidate /\ state' = "READY" /\ NoErase
       ELSE write_bank' = 0 /\ prepare_bank(BootCandidate)

(* No chip (a probe may find it later), or its headers can not be read.    *)
PowerUpFails ==
    /\ Booting /\ available' \in BOOLEAN
    /\ state' = "ERROR" /\ NoErase /\ NoFlight

-----------------------------------------------------------------------------
(* A chip as the factory or some other firmware left it.                   *)
Init ==
    /\ phase = "off" /\ state = "ERROR" /\ available = FALSE
    /\ recording = FALSE /\ finalise_pending = FALSE /\ retain_pending = FALSE
    /\ operation = "NONE"
    /\ erase_active = FALSE /\ erase_bank = 0 /\ erase_block = 0
    /\ clear_second_pending = FALSE /\ start_pending = FALSE
    /\ retained_bank = NO_BANK /\ write_bank = 0
    /\ next_flight_id = 1 /\ record_count = 0
    /\ queue = [i \in 0 .. QUEUE_RECORDS - 1 |-> 0]
    /\ queue_read = 0 /\ queue_write = 0 /\ queue_count = 0
    /\ record_program_offset = 0 /\ program_length = 0
    /\ header \in [Bank -> {BlankHeader, DirtyHeader}]
    /\ cells = [b \in Bank |-> IF header_erased(b) THEN BlankCells
                                                   ELSE [s \in Slot |-> BAD]]
    /\ flight = "none" /\ committed = 0

Flight == StartAccepted \/ StartRejected \/ Append \/ Stop

Host == Clear \/ WriteTest \/ SessionTest \/ Passthrough

Next == Update \/ Flight \/ Host \/ PowerLoss \/ PowerUp \/ PowerUpFails

Spec == Init /\ [][Next]_vars

(* The main loop calls blackbox_sd_update again and again, except in a     *)
(* passthrough session: it need not end, and disables Update while it lasts*)
FairSpec == Spec /\ WF_vars(Update)

-----------------------------------------------------------------------------
(* Safety.                                                                 *)

(* An erased header proves the whole bank is ready (comment at line 221),  *)
(* whenever the power failed: blocks are erased backwards, and the header  *)
(* is the first page a flight or the write test programs.                  *)
BlankHeaderMeansBlankBank ==
    \A b \in Bank : header_erased(b) => cells[b] = BlankCells

(* No program meets a cell in use: page splitting, partial records and the *)
(* choice of the bank never address a byte twice between two erases, and   *)
(* no program runs over the end of its page, where the chip would wrap.    *)
NeverOverprograms ==
    /\ operation = "HEADER" => header_erased(write_bank)
    /\ operation = "RECORD" =>
           \A s \in ProgramRange(program_length) :
               /\ s \in Slot /\ cells[write_bank][s] = BLANK
               /\ s \div PAGE_SLOTS = record_address \div PAGE_SLOTS
    /\ operation = "FINAL" => header[write_bank].kind = "open"

Complete(b) ==
    \A s \in 0 .. header[b].count * RECORD_SLOTS - 1 : cells[b][s] = s

(* Once committed, the newest flight survives every crash, bus error and   *)
(* later flight that is not committed itself, with each of its records in  *)
(* place, and is the one the next power-up retains, until a clear.         *)
NewestFlightSurvives ==
    committed # 0 =>
        /\ BootBank # NO_BANK
        /\ header[BootBank].id = committed
        /\ Complete(BootBank)

(* What the recorder keeps, seen from outside.                             *)
kept_flight ==
    IF committed = 0 THEN [id |-> 0, count |-> 0, whole |-> TRUE]
    ELSE [id |-> header[BootBank].id, count |-> header[BootBank].count,
          whole |-> Complete(BootBank)]

records_taken == IF recording THEN record_count + queue_count ELSE 0

Archive == INSTANCE FlightArchive
               WITH kept <- kept_flight, taken <- records_taken, Id <- 1 .. MAX_FLIGHTS

(* The recorder implements FlightArchive: however the queue, the partial   *)
(* programs, the erases, errors and power losses interleave, what the next *)
(* power-up retains changes in one step, to a later flight with as many    *)
(* records as blackbox_sd_append accepted, each in place.                  *)
ArchiveSpec == Archive!Spec

(* A start deferred by an erase belongs to the flight that is in the air,  *)
(* and the erase that will serve it is still to come.                      *)
DeferredStartIsCurrent ==
    start_pending => flight = "logging" /\ erase_active /\ erase_bank # retained_bank

(* The comment at line 580: "A bank erase may finish while this same armed *)
(* flight is running."  The driver that becomes ready during a flight it   *)
(* turned away records the rest of it.                                     *)
EraseEndsInRecording ==
    flight = "logging" /\ phase = "idle" => state # "READY"

-----------------------------------------------------------------------------
(* Liveness, under FairSpec.                                               *)

(* With no flight going on the driver comes to rest: the queue drains, the *)
(* flight is committed or discarded and the banks are erased, unless the   *)
(* chip fails, the power does, another flight begins, or the host begins a *)
(* passthrough session in the middle.  A session only delays it: the same  *)
(* is promised again from its end on.                                      *)
DriverSettles ==
    available /\ phase = "idle" /\ flight = "none" /\ is_busy ~>
        \/ ~is_busy \/ state = "ERROR"
        \/ phase \in {"off", "suspended"} \/ flight = "logging"
=============================================================================
