------------------------- MODULE BlackboxFlash_proofs -------------------------
(***************************************************************************)
(* The flash recorder for every geometry of chip and queue: its types, its *)
(* control state, and, for chips on which erasing a blank block is         *)
(* harmless, that no byte is programmed twice, that the newest committed   *)
(* flight survives, and that the recorder implements FlightArchive.        *)
(***************************************************************************)
EXTENDS BlackboxFlash, TLAPS

(* What the driver is doing.                                               *)
ModeInv ==
    /\ phase = "off" => state = "ERROR"
    /\ phase = "issue" => operation = "NONE" /\ state # "ERROR"
    /\ state = "ERROR" => operation = "NONE"
    /\ state = "READY" => ~recording /\ ~erase_active /\ operation = "NONE"
    /\ state = "INITIALIZING" => erase_active
    /\ state = "RECORDING" => recording /\ ~erase_active
    /\ erase_active => state \in {"INITIALIZING", "ERROR"} /\ ~recording
    /\ operation = "ERASE" => erase_active
    /\ operation \in {"HEADER", "RECORD", "FINAL"} => state = "RECORDING"
    /\ recording => state \in {"RECORDING", "ERROR"}

(* Which bank it does it to: never to that of the retained flight.         *)
BankInv ==
    /\ recording => write_bank # retained_bank
    /\ erase_active => erase_bank # retained_bank
    /\ clear_second_pending => erase_active /\ erase_bank = 0 /\ retained_bank = NO_BANK

(* The end of a flight, and the flight that follows at once.               *)
StopInv ==
    /\ finalise_pending => recording /\ operation # "FINAL"
    /\ finalise_pending /\ flight = "logging" => state = "ERROR"
    /\ queue_count > 0 => recording
    /\ operation = "FINAL" => queue_count = 0 /\ flight = "none"
    /\ DeferredStartIsCurrent

ControlInv == ModeInv /\ BankInv /\ StopInv

ModeTypeOK ==
    /\ phase \in {"idle", "issue", "suspended", "off"}
    /\ state \in {"INITIALIZING", "READY", "RECORDING", "ERROR"}
    /\ available \in BOOLEAN /\ recording \in BOOLEAN
    /\ finalise_pending \in BOOLEAN /\ retain_pending \in BOOLEAN
    /\ operation \in {"NONE", "HEADER", "RECORD", "FINAL", "ERASE"}
    /\ erase_active \in BOOLEAN /\ clear_second_pending \in BOOLEAN
    /\ start_pending \in BOOLEAN /\ flight \in {"none", "logging"}

BankTypeOK ==
    /\ retained_bank \in Bank \cup {NO_BANK} /\ write_bank \in Bank
    /\ erase_bank \in Bank /\ erase_block \in 0 .. LAST_BLOCK

QueueTypeOK ==
    /\ record_count \in 0 .. MAXIMUM /\ queue_count \in 0 .. QUEUE_RECORDS
    /\ record_count + queue_count <= MAXIMUM
    /\ queue \in [0 .. QUEUE_RECORDS - 1 -> 0 .. MAXIMUM]
    /\ queue_read \in 0 .. QUEUE_RECORDS - 1 /\ queue_write \in 0 .. QUEUE_RECORDS - 1
    /\ record_program_offset \in 0 .. RECORD_SLOTS - 1
    /\ program_length \in 0 .. PAGE_SLOTS

HeaderTypeOK ==
    /\ next_flight_id \in 1 .. MAX_FLIGHTS + 1 /\ committed \in 0 .. MAX_FLIGHTS
    /\ header \in [Bank -> [kind : {"blank", "open", "valid", "dirty"},
                            id : 0 .. MAX_FLIGHTS, count : 0 .. MAXIMUM]]

CellTypeOK == cells \in [Bank -> [Slot -> Slot \cup {BLANK, BAD}]]

LEMMA TypeParts ==
    /\ TypeOK <=> ModeTypeOK /\ BankTypeOK /\ QueueTypeOK /\ HeaderTypeOK /\ CellTypeOK
    /\ TypeOK' <=> (ModeTypeOK /\ BankTypeOK /\ QueueTypeOK /\ HeaderTypeOK /\ CellTypeOK)'
BY DEF TypeOK, ModeTypeOK, BankTypeOK, QueueTypeOK, HeaderTypeOK, CellTypeOK

-----------------------------------------------------------------------------
(* The control state.                                                      *)

Driver == ModeTypeOK /\ BankTypeOK /\ queue_count \in Nat /\ ControlInv

LEMMA UpdateControl == Driver /\ Update => ControlInv'
<1> USE DEF Driver, ModeTypeOK, BankTypeOK, ControlInv, ModeInv, BankInv, StopInv,
            DeferredStartIsCurrent, Bank, NO_BANK, fail, eraseVars, stopVars, bankVars
<1> SUFFICES ASSUME Driver, Update PROVE ControlInv'
    OBVIOUS
<1>1. CASE OperationTimeout
    BY <1>1 DEF OperationTimeout, Polling, queueVars
<1>2. CASE HeaderDone
    BY <1>2 DEF HeaderDone, Done, Polling, queueVars
<1>3. CASE RecordDone
    BY <1>3 DEF RecordDone, Done, Polling
<1>4. CASE FinalDone
    BY <1>4 DEF FinalDone, Done, Polling, prepare_bank, queueVars
<1>5. CASE BlockDone
    BY <1>5 DEF BlockDone, Done, Polling, queueVars
<1>6. CASE FirstBankCleared
    BY <1>6 DEF FirstBankCleared, Done, Polling, prepare_bank, queueVars
<1>7. CASE BankReady
    BY <1>7 DEF BankReady, BankErased, Polling, queueVars
<1>8. CASE BankReadyForFlight
    BY <1>8 DEF BankReadyForFlight, BankErased, Polling, begin_recording, empty_queue
<1>9. CASE IssueErase
    BY <1>9 DEF IssueErase, Issuing, Issue, Polling, StartFails
<1>10. CASE IssueRecord
    BY <1>10 DEF IssueRecord, Issuing, Issue, Polling, StartFails, page_due
<1>11. CASE DiscardFlight
    BY <1>11 DEF DiscardFlight, Issuing, Polling, prepare_bank
<1>12. CASE IssueFinal
    BY <1>12 DEF IssueFinal, Issuing, Polling, StartFails
<1>13. CASE IssueNothing
    BY <1>13 DEF IssueNothing, Issuing, Polling
<1>14. QED
    BY <1>1, <1>2, <1>3, <1>4, <1>5, <1>6, <1>7, <1>8, <1>9, <1>10, <1>11, <1>12, <1>13
        DEF Update

(* A passthrough session suspends the driver and changes nothing else.     *)
LEMMA SessionKeeps ==
    ASSUME Passthrough
    PROVE  /\ {phase, phase'} \subseteq {"idle", "suspended"}
           /\ UNCHANGED <<state, available, recording, stopVars, operation, eraseVars,
                          start_pending, bankVars, record_count, queueVars, chip, flight,
                          committed>>
BY DEF Passthrough, esc_passthrough_begin, esc_passthrough_end, Suspension

LEMMA CallsControl == Driver /\ (Flight \/ Host) => ControlInv'
<1> USE DEF Driver, ModeTypeOK, BankTypeOK, ControlInv, ModeInv, BankInv, StopInv,
            DeferredStartIsCurrent, Bank, NO_BANK, fail, eraseVars, stopVars, bankVars
<1> SUFFICES ASSUME Driver, Flight \/ Host PROVE ControlInv'
    OBVIOUS
<1>1. CASE StartAccepted
    BY <1>1 DEF StartAccepted, start_accepted, begin_recording, empty_queue, BeginOk, BeginFails
<1>2. CASE StartRejected
    BY <1>2 DEF StartRejected, commit_over, start_deferred, queueVars
<1>3. CASE Append
    BY <1>3 DEF Append
<1>4. CASE Stop
    BY <1>4 DEF Stop, deferred_after_stop, queueVars
<1>5. CASE Clear
    BY <1>5 DEF Clear, is_busy, prepare_bank, queueVars
<1>6. CASE WriteTest
    BY <1>6 DEF WriteTest, TestAllowed, is_busy, prepare_bank, queueVars
<1>7. CASE SessionTest
    BY <1>7 DEF SessionTest, TestAllowed, is_busy, BeginOk, BeginFails
<1>8. CASE Passthrough
    BY <1>8, SessionKeeps DEF queueVars
<1>9. QED
    BY <1>1, <1>2, <1>3, <1>4, <1>5, <1>6, <1>7, <1>8 DEF Flight, Host

LEMMA PowerControl == Driver /\ (PowerLoss \/ PowerUp \/ PowerUpFails) => ControlInv'
<1> USE DEF Driver, ModeTypeOK, BankTypeOK, ControlInv, ModeInv, BankInv, StopInv,
            DeferredStartIsCurrent, Bank, NO_BANK
<1> SUFFICES ASSUME Driver, PowerLoss \/ PowerUp \/ PowerUpFails PROVE ControlInv'
    OBVIOUS
<1>1. CASE PowerLoss
    BY <1>1 DEF PowerLoss, Forget, NoErase, NoFlight
<1>2. CASE PowerUp
    <2>1. BootBank \in {0, 1, NO_BANK} /\ BootCandidate \in Bank /\ BootCandidate # BootBank
        BY DEF BootBank, BootCandidate
    <2>2. QED
        BY <1>2, <2>1 DEF PowerUp, Booting, Forget, NoErase, prepare_bank
<1>3. CASE PowerUpFails
    BY <1>3 DEF PowerUpFails, Booting, Forget, NoErase, NoFlight
<1>4. QED
    BY <1>1, <1>2, <1>3

LEMMA InitControl == Init => ControlInv
BY DEF Init, ControlInv, ModeInv, BankInv, StopInv, DeferredStartIsCurrent, NO_BANK

LEMMA ControlKept == ControlInv /\ UNCHANGED vars => ControlInv'
BY DEF ControlInv, ModeInv, BankInv, StopInv, DeferredStartIsCurrent, vars, stopVars,
       eraseVars, bankVars, queueVars

-----------------------------------------------------------------------------
(* The queue and the addresses.                                            *)

LEMMA Geometry ==
    /\ RECORD_SLOTS \in Nat /\ RECORD_SLOTS > 0 /\ PAGE_SLOTS \in Nat /\ PAGE_SLOTS > 0
    /\ BLOCK_SLOTS \in Nat /\ BLOCK_SLOTS > 0 /\ QUEUE_RECORDS \in Nat /\ QUEUE_RECORDS > 0
    /\ MAX_FLIGHTS \in Nat /\ MAX_FLIGHTS > 0
    /\ BANK_SLOTS \in Nat /\ BANK_SLOTS > 0
BY GeometryAssumption

LEMMA Division ==
    ASSUME NEW a \in Nat, NEW n \in Nat, n > 0
    PROVE  /\ a \div n \in Nat /\ a % n \in 0 .. n - 1
           /\ a = n * (a \div n) + (a % n)
OBVIOUS

LEMMA DivisionIsUnique ==
    ASSUME NEW n \in Nat, n > 0, NEW q \in Nat, NEW r \in 0 .. n - 1
    PROVE  (n * q + r) \div n = q /\ (n * q + r) % n = r
OBVIOUS

LEMMA Step ==
    ASSUME NEW n \in Nat, n > 0, NEW p \in Nat, NEW q \in Nat
    PROVE  /\ n * p \in Nat /\ n * p = p * n /\ n * (p + q) = n * p + n * q
           /\ p < q => n * p + n <= n * q
           /\ p <= q => n * p <= n * q
OBVIOUS

LEMMA Wraps ==
    ASSUME NEW a \in Nat, NEW b \in Nat, a < QUEUE_RECORDS, b <= QUEUE_RECORDS
    PROVE  (a + b) % QUEUE_RECORDS
             = IF a + b < QUEUE_RECORDS THEN a + b ELSE a + b - QUEUE_RECORDS
BY Geometry

LEMMA BankFits ==
    /\ MAXIMUM \in Nat /\ MAXIMUM > 0
    /\ \A m \in 0 .. MAXIMUM : RECORD_SLOTS * m <= BANK_SLOTS
<1>1. MAXIMUM \in Nat /\ RECORD_SLOTS * MAXIMUM <= BANK_SLOTS
    <2>1. /\ MAXIMUM \in Nat /\ BANK_SLOTS % RECORD_SLOTS >= 0
          /\ BANK_SLOTS = RECORD_SLOTS * MAXIMUM + (BANK_SLOTS % RECORD_SLOTS)
        BY Geometry, Division DEF MAXIMUM
    <2>2. RECORD_SLOTS * MAXIMUM \in Nat /\ BANK_SLOTS % RECORD_SLOTS \in Nat
        BY <2>1, Geometry, Step, Division
    <2>3. QED
        BY <2>1, <2>2
<1>2. MAXIMUM > 0
    BY GeometryAssumption, Geometry DEF MAXIMUM
<1>3. ASSUME NEW m \in 0 .. MAXIMUM PROVE RECORD_SLOTS * m <= BANK_SLOTS
    <2>1. RECORD_SLOTS * m <= RECORD_SLOTS * MAXIMUM
        BY <1>1, Step, Geometry
    <2>2. RECORD_SLOTS * m \in Nat /\ RECORD_SLOTS * MAXIMUM \in Nat
        BY <1>1, Step, Geometry
    <2>3. QED
        BY <1>1, <2>1, <2>2, Geometry
<1>4. QED
    BY <1>1, <1>2, <1>3

(* Program no more than is queued, and nothing beyond the page.            *)
Due(length) ==
    /\ record_program_offset + length <= RECORD_SLOTS * queue_count
    /\ (record_address % PAGE_SLOTS) + length <= PAGE_SLOTS

(* The queue holds the records that follow those on the chip.              *)
QueueInv ==
    /\ record_program_offset <= RECORD_SLOTS * queue_count
    /\ operation = "RECORD" => Due(program_length)
    /\ queue_write = (queue_read + queue_count) % QUEUE_RECORDS
    /\ \A i \in 0 .. queue_count - 1 :
         queue[(queue_read + i) % QUEUE_RECORDS] = record_count + i

LEMMA QueueFacts ==
    ASSUME QueueTypeOK
    PROVE  /\ record_count \in Nat /\ queue_count \in Nat /\ queue_count <= QUEUE_RECORDS
           /\ record_count + queue_count <= MAXIMUM
           /\ queue_read \in Nat /\ queue_read < QUEUE_RECORDS
           /\ queue_write \in Nat /\ queue_write < QUEUE_RECORDS
           /\ record_program_offset \in Nat /\ record_program_offset < RECORD_SLOTS
           /\ program_length \in Nat /\ program_length <= PAGE_SLOTS
           /\ RECORD_SLOTS * queue_count \in Nat /\ RECORD_SLOTS * record_count \in Nat
           /\ record_address = RECORD_SLOTS * record_count + record_program_offset
           /\ record_address \in Nat
           /\ RECORD_SLOTS * record_count + RECORD_SLOTS * queue_count <= BANK_SLOTS
<1>1. /\ record_count \in Nat /\ queue_count \in Nat /\ queue_count <= QUEUE_RECORDS
      /\ record_count + queue_count <= MAXIMUM
      /\ queue_read \in Nat /\ queue_read < QUEUE_RECORDS
      /\ queue_write \in Nat /\ queue_write < QUEUE_RECORDS
      /\ record_program_offset \in Nat /\ record_program_offset < RECORD_SLOTS
      /\ program_length \in Nat /\ program_length <= PAGE_SLOTS
    BY Geometry, BankFits DEF QueueTypeOK
<1>2. /\ RECORD_SLOTS * queue_count \in Nat /\ RECORD_SLOTS * record_count \in Nat
      /\ RECORD_SLOTS * record_count = record_count * RECORD_SLOTS
      /\ RECORD_SLOTS * (record_count + queue_count)
           = RECORD_SLOTS * record_count + RECORD_SLOTS * queue_count
    BY <1>1, Step, Geometry
<1>3. RECORD_SLOTS * (record_count + queue_count) <= BANK_SLOTS
    BY <1>1, BankFits
<1>4. QED
    BY <1>1, <1>2, <1>3 DEF record_address

(* What is programmed at an address is the slot of that number.            *)
LEMMA QueuedSlot ==
    ASSUME QueueTypeOK, QueueInv,
           NEW k \in Nat, record_program_offset + k < RECORD_SLOTS * queue_count
    PROVE  queued_slot(k) = record_address + k /\ record_address + k \in Slot
<1> DEFINE pos == record_program_offset + k
           i == pos \div RECORD_SLOTS
           rest == pos % RECORD_SLOTS
<1>1. pos \in Nat
    BY QueueFacts
<1> HIDE DEF pos
<1>2. i \in Nat /\ rest \in 0 .. RECORD_SLOTS - 1 /\ pos = RECORD_SLOTS * i + rest
    BY <1>1, Geometry, Division
<1> HIDE DEF i, rest
<1>3. i < queue_count
    <2>1. CASE queue_count <= i
        <3>1. RECORD_SLOTS * queue_count <= RECORD_SLOTS * i
            BY <1>2, <2>1, QueueFacts, Geometry, Step
        <3>2. RECORD_SLOTS * i \in Nat
            BY <1>2, Geometry, Step
        <3>3. QED
            BY <1>2, <3>1, <3>2, QueueFacts, Geometry DEF pos
    <2>2. QED
        BY <1>2, <2>1, QueueFacts
<1>4. queue[(queue_read + i) % QUEUE_RECORDS] = record_count + i
    BY <1>2, <1>3, QueueFacts DEF QueueInv
<1>5. queued_slot(k) = queue[(queue_read + i) % QUEUE_RECORDS] * RECORD_SLOTS + rest
    BY DEF queued_slot, pos, i, rest
<1>6. /\ RECORD_SLOTS * (record_count + i) = RECORD_SLOTS * record_count + RECORD_SLOTS * i
      /\ RECORD_SLOTS * (record_count + i) = (record_count + i) * RECORD_SLOTS
      /\ RECORD_SLOTS * i \in Nat
    BY <1>2, QueueFacts, Geometry, Step
<1>7. queued_slot(k) = RECORD_SLOTS * record_count + pos
    BY <1>2, <1>4, <1>5, <1>6, QueueFacts, Geometry
<1>8. RECORD_SLOTS * record_count + pos = record_address + k
    BY QueueFacts, Geometry DEF pos
<1>9. record_address + k \in Slot
    BY QueueFacts, Geometry DEF Slot
<1>10. QED
    BY <1>7, <1>8, <1>9

-----------------------------------------------------------------------------
(* The chip.                                                               *)

Headers == [Bank -> [kind : {"blank", "open", "valid", "dirty"},
                     id : 0 .. MAX_FLIGHTS, count : 0 .. MAXIMUM]]
Cells == [Bank -> [Slot -> Slot \cup {BLANK, BAD}]]

Typed == BankTypeOK /\ QueueTypeOK /\ HeaderTypeOK /\ CellTypeOK /\ QueueInv

LEMMA HeaderValues ==
    /\ BlankHeader \in [kind : {"blank", "open", "valid", "dirty"},
                        id : 0 .. MAX_FLIGHTS, count : 0 .. MAXIMUM]
    /\ DirtyHeader \in [kind : {"blank", "open", "valid", "dirty"},
                        id : 0 .. MAX_FLIGHTS, count : 0 .. MAXIMUM]
    /\ BlankHeader.kind = "blank" /\ DirtyHeader.kind = "dirty"
    /\ BlankCells \in [Slot -> Slot \cup {BLANK, BAD}]
BY Geometry, BankFits DEF BlankHeader, DirtyHeader, BlankCells

(* HeaderProgram, on a bank whose header is erased.                        *)
LEMMA HeaderEffect ==
    ASSUME Typed, NEW outcome \in Outcome, HeaderProgram(outcome)
    PROVE  /\ header' \in Headers /\ cells' = cells /\ committed' = committed
           /\ header'[1 - write_bank] = header[1 - write_bank]
           /\ header'[write_bank].kind = "valid" => header' = header
           /\ outcome = "everything" /\ header_erased(write_bank)
                => /\ header'[write_bank].kind = "open"
                   /\ header'[write_bank].id = next_flight_id - 1
<1> DEFINE opened == [kind |-> "open", id |-> next_flight_id - 1, count |-> 0]
           h == IF header_erased(write_bank) THEN opened ELSE DirtyHeader
<1>1. write_bank \in Bank /\ 1 - write_bank \in Bank /\ 1 - write_bank # write_bank
      /\ header \in Headers
    BY DEF Typed, BankTypeOK, HeaderTypeOK, Bank, Headers
<1>2. opened \in [kind : {"blank", "open", "valid", "dirty"},
                  id : 0 .. MAX_FLIGHTS, count : 0 .. MAXIMUM]
    BY Geometry, BankFits DEF Typed, HeaderTypeOK
<1>3. opened.kind = "open" /\ opened.id = next_flight_id - 1
    OBVIOUS
<1>4. h.kind # "valid" /\ h \in [kind : {"blank", "open", "valid", "dirty"},
                                 id : 0 .. MAX_FLIGHTS, count : 0 .. MAXIMUM]
    BY <1>2, HeaderValues
<1>5. header' = header \/ header' = [header EXCEPT ![write_bank] = DirtyHeader]
      \/ header' = [header EXCEPT ![write_bank] = h]
    BY DEF HeaderProgram
<1>6. outcome = "everything" => header' = [header EXCEPT ![write_bank] = h]
    BY DEF HeaderProgram
<1>7. header_erased(write_bank) => h = opened
    OBVIOUS
<1>8. cells' = cells /\ committed' = committed
    BY DEF HeaderProgram
<1> HIDE DEF h, opened
<1>9. QED
    BY <1>1, <1>3, <1>4, <1>5, <1>6, <1>7, <1>8, HeaderValues DEF Headers

(* RecordProgram of slots that are queued.                                 *)
LEMMA RecordEffect ==
    ASSUME Typed, NEW length \in Nat, Due(length),
           NEW outcome \in Outcome, RecordProgram(length, outcome)
    PROVE  /\ cells' \in Cells /\ header' = header /\ committed' = committed
           /\ cells'[1 - write_bank] = cells[1 - write_bank]
           /\ outcome = "everything" =>
                \A s \in Slot :
                    cells'[write_bank][s] =
                        IF record_address <= s /\ s < record_address + length
                        THEN Programmed(cells[write_bank][s], s) ELSE cells[write_bank][s]
<1> DEFINE new(s) == IF outcome = "nothing" \/ s \notin ProgramRange(length)
                     THEN cells[write_bank][s]
                     ELSE IF outcome = "torn" THEN BAD
                     ELSE Programmed(cells[write_bank][s], queued_slot(s - record_address))
           bank == [s \in Slot |-> new(s)]
<1>1. write_bank \in Bank /\ 1 - write_bank \in Bank /\ 1 - write_bank # write_bank
      /\ cells \in Cells
    BY DEF Typed, BankTypeOK, CellTypeOK, Bank, Cells
<1>2. cells' = [cells EXCEPT ![write_bank] = bank] /\ header' = header /\ committed' = committed
    BY <1>1 DEF RecordProgram, Cells
<1>3. ASSUME NEW s \in Slot, s \in ProgramRange(length)
      PROVE  queued_slot(s - record_address) = s
    <2>1. s - record_address \in Nat /\ s = record_address + (s - record_address)
          /\ s - record_address < length
        BY <1>3, QueueFacts, Geometry DEF Slot, ProgramRange, Typed
    <2>2. record_program_offset + (s - record_address) < RECORD_SLOTS * queue_count
        BY <2>1, QueueFacts, Geometry DEF Due, Typed
    <2> DEFINE k == s - record_address
    <2>3. k \in Nat /\ record_program_offset + k < RECORD_SLOTS * queue_count
        BY <2>1, <2>2
    <2> HIDE DEF k
    <2>4. queued_slot(k) = record_address + k
        BY <2>3, QueuedSlot DEF Typed
    <2>5. QED
        BY <2>1, <2>4 DEF k
<1>4. ASSUME NEW s \in Slot
      PROVE  s \in ProgramRange(length) <=> record_address <= s /\ s < record_address + length
    BY QueueFacts, Geometry DEF Slot, ProgramRange, Typed
<1>5. ASSUME NEW s \in Slot PROVE new(s) \in Slot \cup {BLANK, BAD}
    BY <1>1, <1>3 DEF Cells, Programmed
<1>6. bank \in [Slot -> Slot \cup {BLANK, BAD}]
    BY <1>5
<1>7. ASSUME outcome = "everything", NEW s \in Slot
      PROVE  bank[s] = IF record_address <= s /\ s < record_address + length
                       THEN Programmed(cells[write_bank][s], s) ELSE cells[write_bank][s]
    BY <1>3, <1>4, <1>7
<1> HIDE DEF bank
<1>8. /\ cells'[write_bank] = bank /\ cells'[1 - write_bank] = cells[1 - write_bank]
      /\ cells' \in Cells
    BY <1>1, <1>2, <1>6 DEF Cells
<1>9. QED
    BY <1>2, <1>7, <1>8

(* FinalProgram.                                                           *)
LEMMA FinalEffect ==
    ASSUME Typed, NEW outcome \in Outcome, FinalProgram(outcome)
    PROVE  /\ header' \in Headers /\ cells' = cells /\ committed' \in 0 .. MAX_FLIGHTS
           /\ header'[1 - write_bank] = header[1 - write_bank]
           /\ \/ header' = header /\ committed' = committed
              \/ /\ header[write_bank].kind = "open" /\ header'[write_bank].kind = "valid"
                 /\ header'[write_bank].id = header[write_bank].id
                 /\ header'[write_bank].count = record_count
                 /\ committed' = header[write_bank].id
           /\ outcome = "everything" /\ header[write_bank].kind = "open"
                => header'[write_bank].kind = "valid"
<1> DEFINE h == [header[write_bank] EXCEPT !.kind = "valid", !.count = record_count]
<1>1. write_bank \in Bank /\ 1 - write_bank \in Bank /\ 1 - write_bank # write_bank
      /\ header \in Headers /\ record_count \in 0 .. MAXIMUM
    BY DEF Typed, BankTypeOK, HeaderTypeOK, QueueTypeOK, Bank, Headers
<1>2. /\ header[write_bank] \in [kind : {"blank", "open", "valid", "dirty"},
                                 id : 0 .. MAX_FLIGHTS, count : 0 .. MAXIMUM]
      /\ header[write_bank].id \in 0 .. MAX_FLIGHTS
    BY <1>1 DEF Headers
<1>3. /\ h \in [kind : {"blank", "open", "valid", "dirty"},
                id : 0 .. MAX_FLIGHTS, count : 0 .. MAXIMUM]
      /\ h.kind = "valid" /\ h.id = header[write_bank].id /\ h.count = record_count
    BY <1>1, <1>2
<1>4. /\ cells' = cells
      /\ IF outcome = "everything" /\ header[write_bank].kind = "open"
         THEN header' = [header EXCEPT ![write_bank] = h] /\ committed' = header[write_bank].id
         ELSE header' = header /\ committed' = committed
    BY <1>1 DEF FinalProgram, final_count, Headers
<1>5. committed \in 0 .. MAX_FLIGHTS
    BY DEF Typed, HeaderTypeOK
<1> HIDE DEF h
<1>6. [header EXCEPT ![write_bank] = h] \in Headers
      /\ [header EXCEPT ![write_bank] = h][write_bank] = h
      /\ [header EXCEPT ![write_bank] = h][1 - write_bank] = header[1 - write_bank]
    BY <1>1, <1>3 DEF Headers
<1>7. QED
    BY <1>1, <1>2, <1>3, <1>4, <1>5, <1>6

(* BlockErase: the block under erasure, and the header with the first.     *)
LEMMA EraseEffect ==
    ASSUME Typed, NEW outcome \in Outcome, BlockErase(outcome)
    PROVE  /\ header' \in Headers /\ cells' \in Cells /\ committed' = committed
           /\ header'[1 - erase_bank] = header[1 - erase_bank]
           /\ cells'[1 - erase_bank] = cells[1 - erase_bank]
           /\ header'[erase_bank].kind = "valid" => header' = header
           /\ \A s \in Slot : s \div BLOCK_SLOTS # erase_block
                                => cells'[erase_bank][s] = cells[erase_bank][s]
           /\ ~BLANK_ERASE_CAN_TEAR =>
                \A s \in Slot : cells[erase_bank][s] = BLANK => cells'[erase_bank][s] = BLANK
           /\ erase_block # 0 => header' = header
           /\ outcome = "everything" =>
                /\ \A s \in Slot : s \div BLOCK_SLOTS = erase_block
                                     => cells'[erase_bank][s] = BLANK
                /\ erase_block = 0 => header'[erase_bank].kind = "blank"
           /\ ~BLANK_ERASE_CAN_TEAR /\ header'[erase_bank].kind = "blank" =>
                \/ header_erased(erase_bank)
                \/ erase_block = 0 /\ outcome = "everything"
<1> DEFINE h == IF outcome = "torn" /\ EraseTears(header_erased(erase_bank))
                THEN DirtyHeader ELSE BlankHeader
           new(s) == IF outcome = "nothing" \/ s \div BLOCK_SLOTS # erase_block
                     THEN cells[erase_bank][s]
                     ELSE IF outcome = "torn" /\ EraseTears(cells[erase_bank][s] = BLANK)
                          THEN BAD ELSE BLANK
           bank == [s \in Slot |-> new(s)]
<1>1. erase_bank \in Bank /\ 1 - erase_bank \in Bank /\ 1 - erase_bank # erase_bank
      /\ cells \in Cells /\ header \in Headers
    BY DEF Typed, BankTypeOK, CellTypeOK, HeaderTypeOK, Bank, Cells, Headers
<1>2. cells' = [cells EXCEPT ![erase_bank] = bank] /\ committed' = committed
    BY <1>1 DEF BlockErase, Cells
<1>3. header' = IF erase_block # 0 \/ outcome = "nothing" THEN header
                ELSE [header EXCEPT ![erase_bank] = h]
    BY DEF BlockErase
<1>4. /\ h \in [kind : {"blank", "open", "valid", "dirty"},
                id : 0 .. MAX_FLIGHTS, count : 0 .. MAXIMUM]
      /\ h.kind # "valid"
      /\ outcome = "everything" => h.kind = "blank"
      /\ h.kind = "blank" /\ ~BLANK_ERASE_CAN_TEAR
           => header_erased(erase_bank) \/ outcome # "torn"
    BY HeaderValues DEF EraseTears
<1>5. ASSUME NEW s \in Slot PROVE new(s) \in Slot \cup {BLANK, BAD}
    BY <1>1 DEF Cells
<1>6. bank \in [Slot -> Slot \cup {BLANK, BAD}]
    BY <1>5
<1>7. ASSUME NEW s \in Slot
      PROVE  /\ s \div BLOCK_SLOTS # erase_block => bank[s] = cells[erase_bank][s]
             /\ ~BLANK_ERASE_CAN_TEAR /\ cells[erase_bank][s] = BLANK => bank[s] = BLANK
             /\ outcome = "everything" /\ s \div BLOCK_SLOTS = erase_block => bank[s] = BLANK
    BY DEF EraseTears
<1> HIDE DEF bank, h
<1>8. /\ cells'[erase_bank] = bank /\ cells'[1 - erase_bank] = cells[1 - erase_bank]
      /\ cells' \in Cells
    BY <1>1, <1>2, <1>6 DEF Cells
<1>9. /\ header' \in Headers /\ header'[1 - erase_bank] = header[1 - erase_bank]
      /\ header'[erase_bank] = IF erase_block # 0 \/ outcome = "nothing"
                               THEN header[erase_bank] ELSE h
    BY <1>1, <1>3, <1>4 DEF Headers
<1>10. outcome \in {"nothing", "torn", "everything"}
    BY DEF Outcome
<1>11. header'[erase_bank].kind = "valid" => header' = header
    BY <1>3, <1>4, <1>9
<1>12. outcome = "everything" /\ erase_block = 0 => header'[erase_bank].kind = "blank"
    BY <1>4, <1>9
<1>13. ~BLANK_ERASE_CAN_TEAR /\ header'[erase_bank].kind = "blank" =>
           \/ header_erased(erase_bank)
           \/ erase_block = 0 /\ outcome = "everything"
    BY <1>4, <1>9, <1>10 DEF header_erased
<1>14. QED
    BY <1>2, <1>3, <1>7, <1>8, <1>9, <1>11, <1>12, <1>13

LEMMA EffectTypes ==
    ASSUME Typed, NEW op, NEW length, op = "RECORD" => length \in Nat /\ Due(length),
           NEW outcome \in Outcome, Effect(op, length, outcome)
    PROVE  header' \in Headers /\ cells' \in Cells /\ committed' \in 0 .. MAX_FLIGHTS
<1>1. header \in Headers /\ cells \in Cells /\ committed \in 0 .. MAX_FLIGHTS
    BY DEF Typed, HeaderTypeOK, CellTypeOK, Headers, Cells
<1>2. CASE op = "NONE" /\ UNCHANGED <<chip, committed>>
    BY <1>1, <1>2 DEF chip
<1>3. CASE op = "HEADER" /\ HeaderProgram(outcome)
    BY <1>1, <1>3, HeaderEffect
<1>4. CASE op = "RECORD" /\ RecordProgram(length, outcome)
    BY <1>1, <1>4, RecordEffect
<1>5. CASE op = "FINAL" /\ FinalProgram(outcome)
    BY <1>1, <1>5, FinalEffect
<1>6. CASE op = "ERASE" /\ BlockErase(outcome)
    BY <1>1, <1>6, EraseEffect
<1>7. QED
    BY <1>2, <1>3, <1>4, <1>5, <1>6 DEF Effect

-----------------------------------------------------------------------------
(* The queue, step by step.                                                *)

QueueOK == QueueTypeOK /\ QueueInv

LEMMA QueueUnmoved ==
    ASSUME QueueOK,
           UNCHANGED <<record_count, queue, queue_read, queue_write, queue_count,
                       record_program_offset>>,
           program_length' \in 0 .. PAGE_SLOTS,
           operation' = "RECORD" => Due(program_length')
    PROVE  QueueOK'
<1>1. record_address' = record_address
    BY DEF record_address
<1>2. QueueTypeOK'
    BY DEF QueueOK, QueueTypeOK
<1>3. QueueInv'
    BY <1>1 DEF QueueOK, QueueInv, Due
<1>4. QED
    BY <1>2, <1>3 DEF QueueOK

LEMMA QueueEmpty ==
    ASSUME QueueOK, record_count' \in 0 .. MAXIMUM, operation' # "RECORD",
           queue' \in [0 .. QUEUE_RECORDS - 1 -> 0 .. MAXIMUM],
           queue_read' = 0, queue_write' = 0, queue_count' = 0,
           record_program_offset' = 0, program_length' = 0
    PROVE  QueueOK'
<1>1. QueueTypeOK'
    <2>1. 0 \in 0 .. QUEUE_RECORDS - 1 /\ 0 \in 0 .. QUEUE_RECORDS
        BY Geometry
    <2>2. 0 \in 0 .. RECORD_SLOTS - 1 /\ 0 \in 0 .. PAGE_SLOTS
        BY Geometry
    <2>3. record_count' + 0 <= MAXIMUM
        <3>1. \A count \in 0 .. MAXIMUM : count + 0 <= MAXIMUM
            BY BankFits
        <3>2. QED
            BY <3>1
    <2>4. QED
        BY <2>1, <2>2, <2>3 DEF QueueTypeOK
<1>2. (0 + 0) % QUEUE_RECORDS = 0
    BY Geometry, Wraps
<1>3. RECORD_SLOTS * 0 = 0
    BY Geometry
<1>4. QueueInv'
    BY <1>2, <1>3 DEF QueueInv
<1>5. QED
    BY <1>1, <1>4 DEF QueueOK

(* Whole records leave the queue; of the next, what was programmed counts. *)
LEMMA ProgramMoves ==
    ASSUME QueueOK, NEW length \in Nat, Due(length)
    PROVE  LET records == (record_program_offset + length) \div RECORD_SLOTS
               rest == (record_program_offset + length) % RECORD_SLOTS
           IN  /\ records \in Nat /\ records <= queue_count /\ rest \in 0 .. RECORD_SLOTS - 1
               /\ rest <= RECORD_SLOTS * (queue_count - records)
               /\ (record_count + records) * RECORD_SLOTS + rest = record_address + length
<1> DEFINE pos == record_program_offset + length
           records == pos \div RECORD_SLOTS
           rest == pos % RECORD_SLOTS
<1>1. pos \in Nat /\ pos <= RECORD_SLOTS * queue_count
      /\ record_address + length = RECORD_SLOTS * record_count + pos
    <2>1. /\ record_program_offset \in Nat /\ RECORD_SLOTS * record_count \in Nat
          /\ record_address = RECORD_SLOTS * record_count + record_program_offset
        BY QueueFacts DEF QueueOK
    <2>2. record_program_offset + length <= RECORD_SLOTS * queue_count
        BY DEF Due
    <2>3. QED
        BY <2>1, <2>2
<1> HIDE DEF pos
<1>2. /\ records \in Nat /\ rest \in 0 .. RECORD_SLOTS - 1
      /\ pos = RECORD_SLOTS * records + rest
    BY <1>1, Geometry, Division
<1> HIDE DEF records, rest
<1>3. /\ queue_count \in Nat /\ record_count \in Nat /\ RECORD_SLOTS * queue_count \in Nat
      /\ RECORD_SLOTS * record_count \in Nat /\ RECORD_SLOTS * records \in Nat
    BY <1>2, QueueFacts, Geometry, Step DEF QueueOK
<1>4. records <= queue_count
    <2>1. CASE queue_count < records
        <3>1. RECORD_SLOTS * queue_count + RECORD_SLOTS <= RECORD_SLOTS * records
            BY <1>2, <1>3, <2>1, Geometry, Step
        <3>2. QED
            BY <1>1, <1>2, <1>3, <3>1, Geometry
    <2>2. QED
        BY <1>2, <1>3, <2>1
<1>5. RECORD_SLOTS * queue_count
        = RECORD_SLOTS * records + RECORD_SLOTS * (queue_count - records)
    <2> DEFINE left == queue_count - records
    <2>1. left \in Nat /\ queue_count = records + left
        BY <1>2, <1>3, <1>4
    <2> HIDE DEF left
    <2>2. RECORD_SLOTS * (records + left) = RECORD_SLOTS * records + RECORD_SLOTS * left
        BY <1>2, <2>1, Geometry, Step
    <2>3. QED
        BY <2>1, <2>2 DEF left
<1>6. rest <= RECORD_SLOTS * (queue_count - records)
    <2> DEFINE left == RECORD_SLOTS * (queue_count - records)
    <2>1. left \in Nat
        BY <1>2, <1>3, <1>4, Geometry, Step
    <2> HIDE DEF left
    <2>2. RECORD_SLOTS * queue_count = RECORD_SLOTS * records + left
        BY <1>5 DEF left
    <2>3. rest <= left
        BY <1>1, <1>2, <1>3, <2>1, <2>2, Geometry
    <2>4. QED
        BY <2>3 DEF left
<1>7. (record_count + records) * RECORD_SLOTS = RECORD_SLOTS * record_count + RECORD_SLOTS * records
    BY <1>2, <1>3, Geometry, Step
<1>8. (record_count + records) * RECORD_SLOTS + rest = record_address + length
    BY <1>1, <1>2, <1>3, <1>7, Geometry
<1>9. QED
    BY <1>2, <1>4, <1>6, <1>8 DEF pos, records, rest

(* The position of the record that is i behind the front.                  *)
LEMMA Behind ==
    ASSUME QueueOK, NEW n \in Nat, NEW i \in Nat, n + i <= QUEUE_RECORDS
    PROVE  (((queue_read + n) % QUEUE_RECORDS) + i) % QUEUE_RECORDS
             = (queue_read + (n + i)) % QUEUE_RECORDS
<1> DEFINE at == (queue_read + n) % QUEUE_RECORDS
<1>1. /\ queue_read \in Nat /\ queue_read < QUEUE_RECORDS
      /\ n <= QUEUE_RECORDS /\ i <= QUEUE_RECORDS
    BY QueueFacts, Geometry DEF QueueOK
<1>2. at = IF queue_read + n < QUEUE_RECORDS THEN queue_read + n ELSE queue_read + n - QUEUE_RECORDS
    BY <1>1, Wraps
<1>3. at \in Nat /\ at < QUEUE_RECORDS
    BY <1>1, <1>2, Geometry
<1> HIDE DEF at
<1>4. (at + i) % QUEUE_RECORDS
        = IF at + i < QUEUE_RECORDS THEN at + i ELSE at + i - QUEUE_RECORDS
    BY <1>1, <1>3, Wraps
<1>5. n + i \in Nat /\ n + i <= QUEUE_RECORDS
    BY <1>1, Geometry
<1>6. (queue_read + (n + i)) % QUEUE_RECORDS
        = IF queue_read + (n + i) < QUEUE_RECORDS THEN queue_read + (n + i)
          ELSE queue_read + (n + i) - QUEUE_RECORDS
    BY <1>1, <1>5, Wraps
<1>7. (at + i) % QUEUE_RECORDS = (queue_read + (n + i)) % QUEUE_RECORDS
    BY <1>1, <1>2, <1>3, <1>4, <1>6, Geometry
<1>8. QED
    BY <1>7 DEF at

LEMMA QueueTaken ==
    ASSUME QueueOK, operation = "RECORD", RecordDone
    PROVE  QueueOK'
<1> DEFINE n == (record_program_offset + program_length) \div RECORD_SLOTS
           left == queue_count - n
<1>1. /\ record_program_offset' = (record_program_offset + program_length) % RECORD_SLOTS
      /\ queue_read' = (queue_read + n) % QUEUE_RECORDS /\ queue_count' = left
      /\ record_count' = record_count + n /\ program_length' = 0
      /\ queue' = queue /\ queue_write' = queue_write /\ operation' = "NONE"
    BY DEF RecordDone, offset_after_program
<1>2. Due(program_length) /\ program_length \in Nat
    BY QueueFacts DEF QueueOK, QueueInv
<1>3. /\ n \in Nat /\ n <= queue_count /\ record_program_offset' \in 0 .. RECORD_SLOTS - 1
      /\ record_program_offset' <= RECORD_SLOTS * left
    BY <1>1, <1>2, ProgramMoves
<1> HIDE DEF n
<1>4. /\ record_count \in Nat /\ queue_count \in Nat /\ queue_count <= QUEUE_RECORDS
      /\ record_count + queue_count <= MAXIMUM
      /\ queue_read \in Nat /\ queue_read < QUEUE_RECORDS
    BY QueueFacts DEF QueueOK
<1>5. left \in Nat /\ left + n = queue_count
    BY <1>3, <1>4
<1>6. (queue_read + n) % QUEUE_RECORDS \in 0 .. QUEUE_RECORDS - 1
    BY <1>3, <1>4, Geometry, Division
<1>7. QueueTypeOK'
    <2>1. /\ record_count' \in 0 .. MAXIMUM /\ queue_count' \in 0 .. QUEUE_RECORDS
          /\ record_count' + queue_count' <= MAXIMUM
        <3>1. MAXIMUM \in Nat
            BY BankFits
        <3>2. QED
            BY <1>1, <1>3, <1>4, <1>5, <3>1, Geometry
    <2>2. program_length' \in 0 .. PAGE_SLOTS
        BY <1>1, Geometry
    <2>3. QED
        BY <1>1, <1>3, <1>6, <2>1, <2>2 DEF QueueOK, QueueTypeOK
<1>8. QueueInv'
    <2>1. ASSUME NEW i \in 0 .. left
          PROVE  (queue_read' + i) % QUEUE_RECORDS = (queue_read + (n + i)) % QUEUE_RECORDS
        <3>1. i \in Nat /\ n + i <= QUEUE_RECORDS
            BY <1>3, <1>4, <1>5, Geometry
        <3>2. QED
            BY <1>1, <1>3, <3>1, Behind
    <2>2. queue_write' = (queue_read' + queue_count') % QUEUE_RECORDS
        <3>1. left \in 0 .. left /\ n + left = queue_count
            BY <1>3, <1>4, <1>5
        <3>2. (queue_read' + left) % QUEUE_RECORDS = (queue_read + queue_count) % QUEUE_RECORDS
            BY <2>1, <3>1
        <3>3. QED
            BY <1>1, <3>2 DEF QueueOK, QueueInv
    <2>3. ASSUME NEW i \in 0 .. left - 1
          PROVE  queue[(queue_read' + i) % QUEUE_RECORDS] = record_count' + i
        <3>1. n + i \in 0 .. queue_count - 1 /\ i \in 0 .. left
            BY <1>3, <1>4, <1>5
        <3>2. queue[(queue_read + (n + i)) % QUEUE_RECORDS] = record_count + (n + i)
            BY <3>1 DEF QueueOK, QueueInv
        <3>3. (queue_read' + i) % QUEUE_RECORDS = (queue_read + (n + i)) % QUEUE_RECORDS
            BY <2>1, <3>1
        <3>4. record_count' + i = record_count + (n + i)
            BY <1>1, <1>3, <1>4, <1>5
        <3>5. QED
            BY <3>2, <3>3, <3>4
    <2> HIDE DEF left
    <2>4. QED
        BY <1>1, <1>3, <2>2, <2>3 DEF QueueInv
<1>9. QED
    BY <1>7, <1>8 DEF QueueOK

LEMMA QueueGrows ==
    ASSUME QueueOK, Append
    PROVE  QueueOK'
<1>1. /\ queue' = [queue EXCEPT ![queue_write] = record_count + queue_count]
      /\ queue_write' = (queue_write + 1) % QUEUE_RECORDS /\ queue_count' = queue_count + 1
      /\ queue_read' = queue_read /\ record_count' = record_count /\ operation' = operation
      /\ record_program_offset' = record_program_offset /\ program_length' = program_length
    BY DEF Append
<1>2. ~no_room
    BY DEF Append
<1>3. /\ record_count \in Nat /\ queue_count \in Nat /\ MAXIMUM \in Nat
      /\ queue_read \in Nat /\ queue_read < QUEUE_RECORDS
      /\ queue_write \in Nat /\ queue_write < QUEUE_RECORDS
    BY QueueFacts, BankFits DEF QueueOK
<1>4. record_count + queue_count < MAXIMUM /\ queue_count < QUEUE_RECORDS
    BY <1>2, <1>3, Geometry DEF no_room
<1>5. QueueTypeOK'
    <2>1. queue_write' \in 0 .. QUEUE_RECORDS - 1
        BY <1>1, <1>3, Geometry, Division
    <2>2. record_count + queue_count \in 0 .. MAXIMUM
        BY <1>3, <1>4
    <2>3. queue' \in [0 .. QUEUE_RECORDS - 1 -> 0 .. MAXIMUM]
        BY <1>1, <2>2 DEF QueueOK, QueueTypeOK
    <2>4. queue_count' \in 0 .. QUEUE_RECORDS /\ record_count' + queue_count' <= MAXIMUM
        BY <1>1, <1>3, <1>4, Geometry
    <2>5. QED
        BY <1>1, <2>1, <2>3, <2>4 DEF QueueOK, QueueTypeOK
<1>6. /\ RECORD_SLOTS * queue_count \in Nat /\ RECORD_SLOTS * queue_count' \in Nat
      /\ RECORD_SLOTS * queue_count <= RECORD_SLOTS * queue_count'
    BY <1>1, <1>3, Geometry, Step
<1>7. record_address' = record_address
    BY <1>1 DEF record_address
<1>8. /\ record_program_offset' <= RECORD_SLOTS * queue_count'
      /\ operation' = "RECORD" => Due(program_length)'
    <2>1. record_program_offset \in Nat /\ program_length \in Nat
        BY QueueFacts DEF QueueOK
    <2>2. record_program_offset' <= RECORD_SLOTS * queue_count'
        BY <1>1, <1>6, <2>1 DEF QueueOK, QueueInv
    <2>3. operation = "RECORD"
            => record_program_offset + program_length <= RECORD_SLOTS * queue_count'
        BY <1>6, <2>1 DEF QueueOK, QueueInv, Due
    <2>4. QED
        BY <1>1, <1>7, <2>2, <2>3 DEF QueueOK, QueueInv, Due
<1>9. ASSUME NEW i \in 0 .. queue_count
      PROVE  (queue_read + i) % QUEUE_RECORDS
               = IF queue_read + i < QUEUE_RECORDS THEN queue_read + i
                 ELSE queue_read + i - QUEUE_RECORDS
    <2>1. i \in Nat /\ i <= QUEUE_RECORDS
        BY <1>3, <1>4, Geometry
    <2>2. QED
        BY <1>3, <2>1, Wraps
<1>10. queue_write = (queue_read + queue_count) % QUEUE_RECORDS
    BY DEF QueueOK, QueueInv
<1>11. queue_write' = (queue_read' + queue_count') % QUEUE_RECORDS
    <2>1. queue_count + 1 \in Nat /\ queue_count + 1 <= QUEUE_RECORDS /\ 1 <= QUEUE_RECORDS
        BY <1>3, <1>4, Geometry
    <2>2. 1 \in Nat /\ queue_count + 1 = queue_count'
        BY <1>1
    <2>3. (((queue_read + queue_count) % QUEUE_RECORDS) + 1) % QUEUE_RECORDS
            = (queue_read + (queue_count + 1)) % QUEUE_RECORDS
        BY <1>3, <2>1, <2>2, Behind
    <2>4. QED
        BY <1>1, <1>10, <2>3
<1>12. ASSUME NEW i \in 0 .. queue_count
       PROVE  queue'[(queue_read + i) % QUEUE_RECORDS] = record_count + i
    <2>1. queue \in [0 .. QUEUE_RECORDS - 1 -> 0 .. MAXIMUM] /\ queue_write \in 0 .. QUEUE_RECORDS - 1
        BY DEF QueueOK, QueueTypeOK
    <2>2. CASE i = queue_count
        BY <1>1, <1>10, <2>1, <2>2
    <2>3. CASE i # queue_count
        <3>1. i \in 0 .. queue_count - 1 /\ queue_count \in 0 .. queue_count
            BY <1>3, <2>3
        <3>2. (queue_read + i) % QUEUE_RECORDS # queue_write
            BY <1>3, <1>4, <1>9, <1>10, <3>1, Geometry
        <3>3. (queue_read + i) % QUEUE_RECORDS \in 0 .. QUEUE_RECORDS - 1
            BY <1>3, <3>1, Geometry, Division
        <3>4. queue[(queue_read + i) % QUEUE_RECORDS] = record_count + i
            BY <3>1 DEF QueueOK, QueueInv
        <3>5. QED
            BY <1>1, <2>1, <3>2, <3>3, <3>4
    <2>4. QED
        BY <2>2, <2>3
<1>13. \A i \in 0 .. queue_count' - 1 :
          queue'[(queue_read' + i) % QUEUE_RECORDS] = record_count' + i
    <2>1. queue_count' - 1 = queue_count
        BY <1>1, <1>3
    <2>2. QED
        BY <1>1, <1>12, <2>1
<1>14. QueueInv'
    BY <1>8, <1>11, <1>13 DEF QueueInv
<1>15. QED
    BY <1>5, <1>14 DEF QueueOK

-----------------------------------------------------------------------------
(* Types, step by step.                                                    *)

Sound == TypeOK /\ ControlInv /\ QueueInv

LEMMA SoundParts ==
    ASSUME Sound
    PROVE  /\ ModeTypeOK /\ BankTypeOK /\ QueueTypeOK /\ HeaderTypeOK /\ CellTypeOK
           /\ Typed /\ QueueOK /\ Driver
           /\ header \in Headers /\ cells \in Cells /\ committed \in 0 .. MAX_FLIGHTS
           /\ next_flight_id \in 1 .. MAX_FLIGHTS + 1
<1>1. /\ ModeTypeOK /\ BankTypeOK /\ QueueTypeOK /\ HeaderTypeOK /\ CellTypeOK
      /\ QueueInv /\ ControlInv
    BY TypeParts DEF Sound
<1>2. queue_count \in Nat
    BY <1>1, QueueFacts
<1>3. QED
    BY <1>1, <1>2 DEF Typed, QueueOK, Driver, HeaderTypeOK, CellTypeOK, Headers, Cells

LEMMA Assemble ==
    ASSUME ModeTypeOK', BankTypeOK', next_flight_id' \in 1 .. MAX_FLIGHTS + 1,
           header' \in Headers, cells' \in Cells, committed' \in 0 .. MAX_FLIGHTS, QueueOK'
    PROVE  TypeOK' /\ QueueInv'
<1>1. HeaderTypeOK' /\ CellTypeOK'
    BY DEF HeaderTypeOK, CellTypeOK, Headers, Cells
<1>2. QED
    BY <1>1, TypeParts DEF QueueOK

LEMMA LastBlock ==
    /\ LAST_BLOCK \in Nat
    /\ \A s \in Slot : s \in Nat /\ s \div BLOCK_SLOTS \in 0 .. LAST_BLOCK
<1> DEFINE blocks == BANK_SLOTS \div BLOCK_SLOTS
<1>1. /\ blocks \in Nat /\ BANK_SLOTS = BLOCK_SLOTS * blocks
    <2>1. BANK_SLOTS % BLOCK_SLOTS = 0
        BY GeometryAssumption
    <2>2. /\ blocks \in Nat /\ BANK_SLOTS = BLOCK_SLOTS * blocks + (BANK_SLOTS % BLOCK_SLOTS)
        BY Geometry, Division
    <2>3. BLOCK_SLOTS * blocks \in Nat
        BY <2>2, Geometry, Step
    <2>4. QED
        BY <2>1, <2>2, <2>3
<1>2. LAST_BLOCK = blocks - 1
    BY DEF LAST_BLOCK
<1> HIDE DEF blocks
<1>3. blocks # 0
    BY <1>1, Geometry
<1>4. ASSUME NEW s \in Slot PROVE s \in Nat /\ s \div BLOCK_SLOTS \in 0 .. blocks - 1
    <2> DEFINE b == s \div BLOCK_SLOTS
    <2>1. s \in Nat /\ s < BANK_SLOTS
        BY Geometry DEF Slot
    <2>2. b \in Nat /\ s % BLOCK_SLOTS \in Nat /\ s = BLOCK_SLOTS * b + (s % BLOCK_SLOTS)
        BY <2>1, Geometry, Division
    <2> HIDE DEF b
    <2>3. CASE blocks <= b
        <3>1. BLOCK_SLOTS * blocks <= BLOCK_SLOTS * b /\ BLOCK_SLOTS * b \in Nat
            BY <1>1, <2>2, <2>3, Geometry, Step
        <3>2. QED
            BY <1>1, <2>1, <2>2, <3>1
    <2>4. CASE b < blocks
        BY <1>1, <2>1, <2>2, <2>4 DEF b
    <2>5. QED
        BY <1>1, <2>2, <2>3, <2>4
<1>5. QED
    BY <1>1, <1>2, <1>3, <1>4

LEMMA DueWhenIssued ==
    ASSUME Sound
    PROVE  LET length == IF queued_bytes < page_remaining THEN queued_bytes ELSE page_remaining
           IN  length \in Nat /\ length \in 0 .. PAGE_SLOTS /\ Due(length)
<1> USE SoundParts
<1>1. /\ record_address \in Nat /\ record_program_offset \in Nat /\ queue_count \in Nat
      /\ RECORD_SLOTS * queue_count \in Nat
      /\ RECORD_SLOTS * queue_count = queue_count * RECORD_SLOTS
      /\ record_program_offset <= RECORD_SLOTS * queue_count
    BY QueueFacts, Step, Geometry DEF QueueInv, Sound
<1>2. record_address % PAGE_SLOTS \in 0 .. PAGE_SLOTS - 1
    BY <1>1, Division, Geometry
<1>3. queued_bytes \in Nat /\ record_program_offset + queued_bytes = RECORD_SLOTS * queue_count
    BY <1>1 DEF queued_bytes
<1>4. page_remaining \in 0 .. PAGE_SLOTS
      /\ (record_address % PAGE_SLOTS) + page_remaining = PAGE_SLOTS
    BY <1>2, Geometry DEF page_remaining
<1>5. QED
    BY <1>1, <1>2, <1>3, <1>4, Geometry DEF Due

LEMMA UpdateTypes == Sound /\ Update => TypeOK' /\ QueueInv'
<1> SUFFICES ASSUME Sound, Update PROVE TypeOK' /\ QueueInv'
    OBVIOUS
<1> USE SoundParts DEF fail, eraseVars, stopVars, bankVars
<1>0. /\ "everything" \in Outcome /\ 0 \in 0 .. PAGE_SLOTS /\ 0 \in Bank /\ 1 \in Bank
      /\ 1 - write_bank \in Bank
    BY Geometry DEF Outcome, Bank, BankTypeOK
<1>10. LAST_BLOCK \in 0 .. LAST_BLOCK
    BY LastBlock
<1>1. ASSUME NEW op, op # "RECORD", Effect(op, program_length, "everything")
             \/ Effect(op, 0, "everything")
      PROVE  header' \in Headers /\ cells' \in Cells /\ committed' \in 0 .. MAX_FLIGHTS
    BY <1>0, <1>1, EffectTypes
<1>2. CASE OperationTimeout
    <2>1. header' \in Headers /\ cells' \in Cells /\ committed' \in 0 .. MAX_FLIGHTS
        <3>1. operation = "RECORD" => program_length \in Nat /\ Due(program_length)
            BY QueueFacts DEF QueueInv, Sound
        <3>2. PICK outcome \in Outcome : Effect(operation, program_length, outcome)
            BY <1>2 DEF OperationTimeout
        <3>3. QED
            BY <3>1, <3>2, EffectTypes
    <2>2. QueueOK'
        BY <1>2, QueueUnmoved DEF OperationTimeout, queueVars, QueueTypeOK
    <2>3. ModeTypeOK' /\ BankTypeOK' /\ next_flight_id' \in 1 .. MAX_FLIGHTS + 1
        BY <1>2 DEF OperationTimeout, ModeTypeOK, BankTypeOK
    <2>4. QED
        BY <2>1, <2>2, <2>3, Assemble
<1>3. CASE HeaderDone
    <2>1. header' \in Headers /\ cells' \in Cells /\ committed' \in 0 .. MAX_FLIGHTS
        BY <1>1, <1>3 DEF HeaderDone, Done
    <2>2. QueueOK'
        BY <1>3, QueueUnmoved DEF HeaderDone, queueVars, QueueTypeOK
    <2>3. ModeTypeOK' /\ BankTypeOK' /\ next_flight_id' \in 1 .. MAX_FLIGHTS + 1
        BY <1>3 DEF HeaderDone, Done, ModeTypeOK, BankTypeOK
    <2>4. QED
        BY <2>1, <2>2, <2>3, Assemble
<1>4. CASE RecordDone
    <2>1. header' \in Headers /\ cells' \in Cells /\ committed' \in 0 .. MAX_FLIGHTS
        <3>1. program_length \in Nat /\ Due(program_length)
            BY <1>4, QueueFacts DEF QueueInv, Sound, RecordDone, Done
        <3>2. QED
            BY <1>0, <1>4, <3>1, EffectTypes DEF RecordDone, Done
    <2>2. QueueOK'
        BY <1>4, QueueTaken DEF RecordDone, Done
    <2>3. ModeTypeOK' /\ BankTypeOK' /\ next_flight_id' \in 1 .. MAX_FLIGHTS + 1
        BY <1>4 DEF RecordDone, Done, ModeTypeOK, BankTypeOK
    <2>4. QED
        BY <2>1, <2>2, <2>3, Assemble
<1>5. CASE FinalDone
    <2>1. header' \in Headers /\ cells' \in Cells /\ committed' \in 0 .. MAX_FLIGHTS
        BY <1>1, <1>5 DEF FinalDone, Done
    <2>2. QueueOK'
        BY <1>5, QueueUnmoved DEF FinalDone, queueVars, QueueTypeOK
    <2>3. ModeTypeOK' /\ BankTypeOK' /\ next_flight_id' \in 1 .. MAX_FLIGHTS + 1
        BY <1>0, <1>5, <1>10 DEF FinalDone, Done, prepare_bank, ModeTypeOK, BankTypeOK
    <2>4. QED
        BY <2>1, <2>2, <2>3, Assemble
<1>6. CASE BlockDone
    <2>1. header' \in Headers /\ cells' \in Cells /\ committed' \in 0 .. MAX_FLIGHTS
        BY <1>1, <1>6 DEF BlockDone, Done
    <2>2. QueueOK'
        BY <1>6, QueueUnmoved DEF BlockDone, queueVars, QueueTypeOK
    <2>3. ModeTypeOK' /\ BankTypeOK' /\ next_flight_id' \in 1 .. MAX_FLIGHTS + 1
        BY <1>6, LastBlock DEF BlockDone, Done, ModeTypeOK, BankTypeOK
    <2>4. QED
        BY <2>1, <2>2, <2>3, Assemble
<1>7. CASE FirstBankCleared
    <2>1. header' \in Headers /\ cells' \in Cells /\ committed' \in 0 .. MAX_FLIGHTS
        BY <1>1, <1>7 DEF FirstBankCleared, Done
    <2>2. QueueOK'
        BY <1>7, QueueUnmoved DEF FirstBankCleared, queueVars, QueueTypeOK
    <2>3. ModeTypeOK' /\ BankTypeOK' /\ next_flight_id' \in 1 .. MAX_FLIGHTS + 1
        BY <1>0, <1>7, <1>10 DEF FirstBankCleared, Done, prepare_bank, ModeTypeOK, BankTypeOK
    <2>4. QED
        BY <2>1, <2>2, <2>3, Assemble
<1>8. CASE BankReady
    <2>1. header' \in Headers /\ cells' \in Cells /\ committed' \in 0 .. MAX_FLIGHTS
        BY <1>1, <1>8 DEF BankReady
    <2>2. QueueOK'
        BY <1>8, QueueUnmoved DEF BankReady, queueVars, QueueTypeOK
    <2>3. ModeTypeOK' /\ BankTypeOK' /\ next_flight_id' \in 1 .. MAX_FLIGHTS + 1
        BY <1>8 DEF BankReady, BankErased, ModeTypeOK, BankTypeOK
    <2>4. QED
        BY <2>1, <2>2, <2>3, Assemble
<1>9. CASE BankReadyForFlight
    <2>1. header' \in Headers
        BY <1>9, HeaderValues DEF BankReadyForFlight, Headers, BankTypeOK
    <2>2. cells' \in Cells
        <3> DEFINE bank == [s \in Slot |-> IF s \div BLOCK_SLOTS = 0 THEN BLANK
                                                                     ELSE cells[erase_bank][s]]
        <3>1. bank \in [Slot -> Slot \cup {BLANK, BAD}]
            BY DEF Cells, BankTypeOK
        <3>2. cells' = [cells EXCEPT ![erase_bank] = bank]
            BY <1>9 DEF BankReadyForFlight, Cells, BankTypeOK
        <3> HIDE DEF bank
        <3>3. QED
            BY <3>1, <3>2 DEF Cells
    <2>3. QueueOK'
        <3>1. 0 \in 0 .. MAXIMUM
            BY BankFits
        <3>2. QED
            BY <1>9, <3>1, QueueEmpty DEF BankReadyForFlight, empty_queue, begin_recording,
                                          QueueTypeOK
    <2>4. ModeTypeOK' /\ BankTypeOK'
        BY <1>9 DEF BankReadyForFlight, BankErased, begin_recording, ModeTypeOK, BankTypeOK
    <2>5. next_flight_id' \in 1 .. MAX_FLIGHTS + 1 /\ committed' \in 0 .. MAX_FLIGHTS
        BY <1>9, Geometry DEF BankReadyForFlight, begin_recording
    <2>6. QED
        BY <2>1, <2>2, <2>3, <2>4, <2>5, Assemble
<1>11. CASE IssueErase
    <2>1. header' \in Headers /\ cells' \in Cells /\ committed' \in 0 .. MAX_FLIGHTS
        BY <1>11, EffectTypes DEF IssueErase, Issue, StartFails, chip
    <2>2. QueueOK'
        BY <1>11, QueueUnmoved DEF IssueErase, Issuing, Issue, StartFails, QueueTypeOK
    <2>3. ModeTypeOK' /\ BankTypeOK' /\ next_flight_id' \in 1 .. MAX_FLIGHTS + 1
        BY <1>11 DEF IssueErase, Issuing, Issue, StartFails, ModeTypeOK, BankTypeOK
    <2>4. QED
        BY <2>1, <2>2, <2>3, Assemble
<1>12. CASE IssueRecord
    <2> DEFINE length == IF queued_bytes < page_remaining THEN queued_bytes ELSE page_remaining
    <2>1. length \in 0 .. PAGE_SLOTS /\ Due(length)
        BY DueWhenIssued
    <2>2. program_length' = length /\ Issue("RECORD", length)
        BY <1>12 DEF IssueRecord
    <2> HIDE DEF length
    <2>3. header' \in Headers /\ cells' \in Cells /\ committed' \in 0 .. MAX_FLIGHTS
        BY <2>1, <2>2, EffectTypes, Geometry DEF Issue, StartFails, chip
    <2>4. QueueOK'
        BY <1>12, <2>1, <2>2, QueueUnmoved DEF IssueRecord, Issuing
    <2>5. ModeTypeOK' /\ BankTypeOK' /\ next_flight_id' \in 1 .. MAX_FLIGHTS + 1
        BY <1>12, <2>2 DEF IssueRecord, Issuing, Issue, StartFails, ModeTypeOK, BankTypeOK
    <2>6. QED
        BY <2>3, <2>4, <2>5, Assemble
<1>13. CASE DiscardFlight
    <2>1. header' \in Headers /\ cells' \in Cells /\ committed' \in 0 .. MAX_FLIGHTS
        BY <1>13 DEF DiscardFlight, chip
    <2>2. QueueOK'
        BY <1>13, QueueUnmoved DEF DiscardFlight, Issuing, QueueTypeOK, QueueOK, QueueInv
    <2>3. ModeTypeOK' /\ BankTypeOK' /\ next_flight_id' \in 1 .. MAX_FLIGHTS + 1
        BY <1>10, <1>13 DEF DiscardFlight, Issuing, prepare_bank, ModeTypeOK, BankTypeOK
    <2>4. QED
        BY <2>1, <2>2, <2>3, Assemble
<1>14. CASE IssueFinal
    <2>1. header' \in Headers /\ cells' \in Cells /\ committed' \in 0 .. MAX_FLIGHTS
        BY <1>14, EffectTypes DEF IssueFinal, StartFails, chip
    <2>2. QueueOK'
        BY <1>14, QueueUnmoved DEF IssueFinal, Issuing, StartFails, QueueTypeOK
    <2>3. ModeTypeOK' /\ BankTypeOK' /\ next_flight_id' \in 1 .. MAX_FLIGHTS + 1
        BY <1>14 DEF IssueFinal, Issuing, StartFails, ModeTypeOK, BankTypeOK
    <2>4. QED
        BY <2>1, <2>2, <2>3, Assemble
<1>15. CASE IssueNothing
    <2>1. header' \in Headers /\ cells' \in Cells /\ committed' \in 0 .. MAX_FLIGHTS
        BY <1>15 DEF IssueNothing, chip
    <2>2. QueueOK'
        BY <1>15, QueueUnmoved DEF IssueNothing, Issuing, QueueTypeOK, QueueOK, QueueInv
    <2>3. ModeTypeOK' /\ BankTypeOK' /\ next_flight_id' \in 1 .. MAX_FLIGHTS + 1
        BY <1>15 DEF IssueNothing, Issuing, ModeTypeOK, BankTypeOK
    <2>4. QED
        BY <2>1, <2>2, <2>3, Assemble
<1>16. QED
    BY <1>2, <1>3, <1>4, <1>5, <1>6, <1>7, <1>8, <1>9, <1>11, <1>12, <1>13, <1>14, <1>15
        DEF Update

LEMMA HeaderSpoilt ==
    ASSUME HeaderTypeOK, write_bank \in Bank,
           header' \in {header, [header EXCEPT ![write_bank] = DirtyHeader]}
    PROVE  header' \in Headers
BY HeaderValues DEF HeaderTypeOK, Headers

(* A flight that begins, or fails to.                                      *)
LEMMA BeginTypes ==
    ASSUME Sound, begin_recording, BeginOk \/ BeginFails
    PROVE  /\ header' \in Headers /\ cells' \in Cells /\ committed' \in 0 .. MAX_FLIGHTS
           /\ operation' \in {"NONE", "HEADER"} /\ recording' \in BOOLEAN
           /\ state' \in {"RECORDING", "ERROR"} /\ finalise_pending' = FALSE
           /\ next_flight_id' \in 1 .. MAX_FLIGHTS + 1
<1> USE SoundParts
<1>1. header' \in Headers
    BY HeaderSpoilt DEF BeginOk, BeginFails, chip, BankTypeOK
<1>2. cells' \in Cells /\ committed' \in 0 .. MAX_FLIGHTS
    BY DEF BeginOk, BeginFails, chip
<1>3. /\ operation' \in {"NONE", "HEADER"} /\ recording' \in BOOLEAN
      /\ state' \in {"RECORDING", "ERROR"} /\ finalise_pending' = FALSE
    BY DEF BeginOk, BeginFails, fail, begin_recording, ModeTypeOK
<1>4. next_flight_id' \in 1 .. MAX_FLIGHTS + 1
    BY Geometry DEF begin_recording
<1>5. QED
    BY <1>1, <1>2, <1>3, <1>4

LEMMA CallsTypes == Sound /\ (Flight \/ Host) => TypeOK' /\ QueueInv'
<1> SUFFICES ASSUME Sound, Flight \/ Host PROVE TypeOK' /\ QueueInv'
    OBVIOUS
<1> USE SoundParts DEF fail, eraseVars, stopVars, bankVars
<1>0. 0 \in 0 .. MAXIMUM
    BY BankFits
<1>1. CASE StartAccepted
    <2>1. begin_recording /\ (BeginOk \/ BeginFails)
        BY <1>1 DEF StartAccepted
    <2>2. QueueOK'
        BY <1>0, <1>1, <2>1, BeginTypes, QueueEmpty
            DEF StartAccepted, empty_queue, begin_recording, QueueTypeOK
    <2>3. ModeTypeOK' /\ BankTypeOK'
        BY <1>1, <2>1, BeginTypes DEF StartAccepted, ModeTypeOK, BankTypeOK
    <2>4. QED
        BY <2>1, <2>2, <2>3, BeginTypes, Assemble
<1>2. CASE StartRejected
    <2>1. QueueOK'
        BY <1>2, QueueUnmoved DEF StartRejected, queueVars, QueueTypeOK, QueueOK, QueueInv
    <2>2. /\ ModeTypeOK' /\ BankTypeOK' /\ next_flight_id' \in 1 .. MAX_FLIGHTS + 1
          /\ header' \in Headers /\ cells' \in Cells /\ committed' \in 0 .. MAX_FLIGHTS
        BY <1>2 DEF StartRejected, start_deferred, chip, ModeTypeOK, BankTypeOK
    <2>3. QED
        BY <2>1, <2>2, Assemble
<1>3. CASE Append
    <2>1. QueueOK'
        BY <1>3, QueueGrows DEF Append
    <2>2. /\ ModeTypeOK' /\ BankTypeOK' /\ next_flight_id' \in 1 .. MAX_FLIGHTS + 1
          /\ header' \in Headers /\ cells' \in Cells /\ committed' \in 0 .. MAX_FLIGHTS
        BY <1>3 DEF Append, chip, ModeTypeOK, BankTypeOK
    <2>3. QED
        BY <2>1, <2>2, Assemble
<1>4. CASE Stop
    <2>1. QueueOK'
        BY <1>4, QueueUnmoved DEF Stop, queueVars, QueueTypeOK, QueueOK, QueueInv
    <2>2. /\ ModeTypeOK' /\ BankTypeOK' /\ next_flight_id' \in 1 .. MAX_FLIGHTS + 1
          /\ header' \in Headers /\ cells' \in Cells /\ committed' \in 0 .. MAX_FLIGHTS
        <3>1. retain_pending' \in BOOLEAN /\ finalise_pending' \in BOOLEAN
            <4> DEFINE some == record_count + queue_count > 0
            <4>1. some \in BOOLEAN
                OBVIOUS
            <4>2. IF recording THEN retain_pending' = some /\ finalise_pending' = TRUE
                               ELSE UNCHANGED <<finalise_pending, retain_pending>>
                BY <1>4 DEF Stop
            <4> HIDE DEF some
            <4>3. QED
                BY <4>1, <4>2 DEF ModeTypeOK
        <3>2. start_pending' \in BOOLEAN /\ flight' = "none"
            BY <1>4 DEF Stop, deferred_after_stop, ModeTypeOK
        <3>3. ModeTypeOK'
            BY <1>4, <3>1, <3>2 DEF Stop, ModeTypeOK
        <3>4. QED
            BY <1>4, <3>3 DEF Stop, chip, BankTypeOK
    <2>3. QED
        BY <2>1, <2>2, Assemble
<1>5. CASE Clear
    <2>1. queue_count = 0 /\ operation' # "RECORD" /\ record_count' = 0
        BY <1>5, QueueFacts DEF Clear, is_busy
    <2>2. QueueTypeOK'
        <3>1. queue_count' <= MAXIMUM
            BY <1>5, <2>1, BankFits DEF Clear, queueVars
        <3>2. record_count' + queue_count' <= MAXIMUM
            BY <1>5, <2>1, <3>1 DEF Clear, queueVars
        <3>3. QED
            BY <1>0, <1>5, <2>1, <3>2 DEF Clear, queueVars, QueueTypeOK
    <2>3. QueueInv'
        BY <1>5, <2>1 DEF Clear, queueVars, QueueInv, QueueOK
    <2>4. /\ ModeTypeOK' /\ BankTypeOK' /\ next_flight_id' \in 1 .. MAX_FLIGHTS + 1
          /\ header' \in Headers /\ cells' \in Cells /\ committed' \in 0 .. MAX_FLIGHTS
        <3>1. LAST_BLOCK \in 0 .. LAST_BLOCK
            BY LastBlock
        <3>2. ModeTypeOK'
            BY <1>5 DEF Clear, prepare_bank, ModeTypeOK
        <3>3. BankTypeOK'
            BY <1>5, <3>1 DEF Clear, prepare_bank, BankTypeOK, Bank
        <3>4. QED
            BY <1>5, <3>2, <3>3, Geometry DEF Clear, chip
    <2>5. QED
        BY <2>2, <2>3, <2>4, Assemble DEF QueueOK
<1>6. CASE WriteTest
    <2>1. QueueOK'
        BY <1>6, QueueUnmoved DEF WriteTest, queueVars, QueueTypeOK, QueueOK, QueueInv
    <2>2. header' \in Headers
        BY <1>6, HeaderSpoilt DEF WriteTest, BankTypeOK
    <2>3. /\ ModeTypeOK' /\ BankTypeOK' /\ next_flight_id' \in 1 .. MAX_FLIGHTS + 1
          /\ cells' \in Cells /\ committed' \in 0 .. MAX_FLIGHTS
        <3>1. LAST_BLOCK \in 0 .. LAST_BLOCK
            BY LastBlock
        <3>2. QED
            BY <1>6, <3>1 DEF WriteTest, prepare_bank, ModeTypeOK, BankTypeOK
    <2>4. QED
        BY <2>1, <2>2, <2>3, Assemble
<1>7. CASE SessionTest
    <2>1. header' \in Headers
        BY <1>7, HeaderSpoilt DEF SessionTest, BeginOk, BeginFails, chip, BankTypeOK
    <2>2. ModeTypeOK' /\ BankTypeOK'
        BY <1>7 DEF SessionTest, BeginOk, BeginFails, ModeTypeOK, BankTypeOK
    <2>3. /\ next_flight_id' \in 1 .. MAX_FLIGHTS + 1
          /\ cells' \in Cells /\ committed' \in 0 .. MAX_FLIGHTS
        BY <1>7, Geometry DEF SessionTest, BeginOk, BeginFails, chip
    <2>4. CASE BeginFails /\ queue_write' = 0 /\ queue_count' = 0 /\ UNCHANGED queue
        <3>1. QueueOK'
            BY <1>0, <1>7, <2>4, QueueEmpty DEF SessionTest, BeginFails, QueueTypeOK
        <3>2. QED
            BY <2>1, <2>2, <2>3, <3>1, Assemble
    <2>5. CASE /\ BeginOk /\ queue' = [queue EXCEPT ![0] = 0]
               /\ queue_write' = 1 % QUEUE_RECORDS /\ queue_count' = 1
        <3>1. /\ queue' \in [0 .. QUEUE_RECORDS - 1 -> 0 .. MAXIMUM] /\ queue'[0] = 0
            <4>1. 0 \in 0 .. QUEUE_RECORDS - 1
                BY Geometry
            <4>2. QED
                BY <1>0, <2>5, <4>1 DEF QueueTypeOK
        <3>2. /\ record_count' = 0 /\ queue_read' = 0 /\ record_program_offset' = 0
              /\ program_length' = 0 /\ operation' = "HEADER"
            BY <1>7, <2>5 DEF SessionTest, BeginOk
        <3>3. QueueTypeOK'
            <4>1. /\ 1 \in 0 .. QUEUE_RECORDS /\ 0 \in 0 .. QUEUE_RECORDS - 1
                  /\ 0 \in 0 .. RECORD_SLOTS - 1 /\ 0 \in 0 .. PAGE_SLOTS
                BY Geometry
            <4>2. 1 % QUEUE_RECORDS \in 0 .. QUEUE_RECORDS - 1
                BY Geometry, Division
            <4>3. 0 + 1 <= MAXIMUM
                BY BankFits
            <4>4. QED
                BY <1>0, <2>5, <3>1, <3>2, <4>1, <4>2, <4>3 DEF QueueTypeOK
        <3>4. QueueInv'
            <4>1. (0 + 1) % QUEUE_RECORDS = 1 % QUEUE_RECORDS /\ 0 <= RECORD_SLOTS * 1
                BY Geometry
            <4>2. (0 + 0) % QUEUE_RECORDS = 0
                BY Geometry, Wraps
            <4>3. \A i \in 0 .. queue_count' - 1 :
                      queue'[(queue_read' + i) % QUEUE_RECORDS] = record_count' + i
                BY <2>5, <3>1, <3>2, <4>2
            <4>4. QED
                BY <2>5, <3>2, <4>1, <4>3 DEF QueueInv
        <3>5. QED
            BY <2>1, <2>2, <2>3, <3>3, <3>4, Assemble DEF QueueOK
    <2>6. QED
        BY <1>7, <2>4, <2>5 DEF SessionTest
<1>8. CASE Passthrough
    <2>1. QueueOK'
        BY <1>8, SessionKeeps, QueueUnmoved DEF queueVars, QueueTypeOK, QueueOK, QueueInv
    <2>2. /\ ModeTypeOK' /\ BankTypeOK' /\ next_flight_id' \in 1 .. MAX_FLIGHTS + 1
          /\ header' \in Headers /\ cells' \in Cells /\ committed' \in 0 .. MAX_FLIGHTS
        BY <1>8, SessionKeeps DEF stopVars, eraseVars, bankVars, chip, ModeTypeOK, BankTypeOK
    <2>3. QED
        BY <2>1, <2>2, Assemble
<1>9. QED
    BY <1>1, <1>2, <1>3, <1>4, <1>5, <1>6, <1>7, <1>8 DEF Flight, Host

LEMMA PowerTypes ==
    Sound /\ (PowerLoss \/ PowerUp \/ PowerUpFails) => TypeOK' /\ QueueInv'
<1> SUFFICES ASSUME Sound, PowerLoss \/ PowerUp \/ PowerUpFails PROVE TypeOK' /\ QueueInv'
    OBVIOUS
<1> USE SoundParts
<1>0. 0 \in 0 .. MAXIMUM /\ LAST_BLOCK \in 0 .. LAST_BLOCK /\ 0 \in 0 .. LAST_BLOCK
    BY BankFits, LastBlock
<1>1. ASSUME Forget, record_count' \in 0 .. MAXIMUM PROVE QueueOK'
    <2>1. queue' \in [0 .. QUEUE_RECORDS - 1 -> 0 .. MAXIMUM]
        BY <1>0, <1>1 DEF Forget
    <2>2. QED
        BY <1>1, <2>1, QueueEmpty DEF Forget
<1>2. ASSUME Forget, phase' \in {"idle", "off"}, state' \in {"INITIALIZING", "READY", "ERROR"},
             available' \in BOOLEAN, erase_active' \in BOOLEAN, flight' \in {"none", "logging"}
      PROVE  ModeTypeOK'
    BY <1>2 DEF Forget, ModeTypeOK
<1>3. NoErase => erase_active' \in BOOLEAN /\ erase_bank' \in Bank /\ erase_block' \in 0 .. LAST_BLOCK
    BY <1>0 DEF NoErase, Bank
<1>4. NoFlight => /\ retained_bank' \in Bank \cup {NO_BANK} /\ write_bank' \in Bank
                  /\ next_flight_id' \in 1 .. MAX_FLIGHTS + 1 /\ record_count' \in 0 .. MAXIMUM
    BY <1>0, Geometry DEF NoFlight, Bank
<1>5. CASE PowerLoss
    <2>1. header' \in Headers /\ cells' \in Cells /\ committed' \in 0 .. MAX_FLIGHTS
        <3>1. operation = "RECORD" => program_length \in Nat /\ Due(program_length)
            BY QueueFacts DEF QueueInv, Sound
        <3>2. PICK outcome \in Outcome : Effect(operation, program_length, outcome)
            BY <1>5 DEF PowerLoss
        <3>3. QED
            BY <3>1, <3>2, EffectTypes
    <2>2. Forget /\ NoErase /\ NoFlight
        BY <1>5 DEF PowerLoss
    <2>3. ModeTypeOK'
        BY <1>2, <1>3, <1>5, <2>2 DEF PowerLoss
    <2>4. QED
        BY <1>1, <1>3, <1>4, <2>1, <2>2, <2>3, Assemble DEF BankTypeOK
<1>6. ASSUME Booting
      PROVE  /\ Forget /\ phase' = "idle" /\ flight' \in {"none", "logging"}
             /\ header' \in Headers /\ cells' \in Cells /\ committed' \in 0 .. MAX_FLIGHTS
    BY <1>6 DEF Booting, chip, ModeTypeOK
<1>7. CASE PowerUp
    <2>1. /\ BootBank \in {0, 1, NO_BANK} /\ BootCandidate \in Bank
          /\ BootBank = NO_BANK \/ (BootBank \in Bank /\ header[BootBank].kind = "valid")
        <3>1. BootBank \in {0, 1, NO_BANK} /\ BootCandidate \in Bank
            BY DEF BootBank, BootCandidate, Bank, NO_BANK
        <3>2. BootBank = NO_BANK \/ (BootBank \in {0, 1} /\ header_valid(BootBank))
            BY DEF BootBank, NO_BANK
        <3>3. header_valid(BootBank) => header[BootBank].kind = "valid"
            BY Zenon DEF header_valid
        <3>4. Bank = {0, 1}
            BY DEF Bank
        <3>5. QED
            BY <3>1, <3>2, <3>3, <3>4
    <2>2. Booting /\ available' = TRUE /\ retained_bank' = BootBank
        BY <1>7 DEF PowerUp
    <2>3. next_flight_id' \in 1 .. MAX_FLIGHTS + 1 /\ record_count' \in 0 .. MAXIMUM
        <3>1. CASE BootBank = NO_BANK
            BY <1>0, <1>7, <3>1, Geometry DEF PowerUp
        <3>2. CASE BootBank # NO_BANK
            <4>1. header[BootBank].id \in 0 .. MAX_FLIGHTS /\ header[BootBank].count \in 0 .. MAXIMUM
                BY <2>1, <3>2 DEF Headers
            <4>2. next_flight_id' = header[BootBank].id + 1 /\ record_count' = header[BootBank].count
                BY <1>7, <3>2 DEF PowerUp
            <4>3. QED
                BY <4>1, <4>2, Geometry
        <3>3. QED
            BY <3>1, <3>2
    <2>4. /\ state' \in {"INITIALIZING", "READY"} /\ erase_active' \in BOOLEAN
          /\ write_bank' \in Bank /\ erase_bank' \in Bank /\ erase_block' \in 0 .. LAST_BLOCK
        <3>1. CASE header_erased(BootCandidate)
            BY <1>3, <1>7, <2>1, <3>1 DEF PowerUp
        <3>2. CASE ~header_erased(BootCandidate)
            BY <1>0, <1>7, <2>1, <3>2 DEF PowerUp, prepare_bank, Bank
        <3>3. QED
            BY <3>1, <3>2
    <2>5. ModeTypeOK'
        BY <1>2, <1>6, <2>2, <2>4
    <2>6. BankTypeOK'
        BY <2>1, <2>2, <2>4 DEF BankTypeOK, Bank
    <2>7. QED
        BY <1>1, <1>6, <2>2, <2>3, <2>5, <2>6, Assemble
<1>8. CASE PowerUpFails
    <2>1. Booting /\ NoErase /\ NoFlight /\ available' \in BOOLEAN /\ state' = "ERROR"
        BY <1>8 DEF PowerUpFails
    <2>2. ModeTypeOK'
        BY <1>2, <1>3, <1>6, <2>1
    <2>3. QED
        BY <1>1, <1>3, <1>4, <1>6, <2>1, <2>2, Assemble DEF BankTypeOK
<1>9. QED
    BY <1>5, <1>7, <1>8

LEMMA InitSound == Init => Sound
<1> SUFFICES ASSUME Init PROVE Sound
    OBVIOUS
<1> USE DEF Init
<1>1. /\ 0 \in 0 .. MAXIMUM /\ 0 + 0 <= MAXIMUM /\ 0 \in 0 .. LAST_BLOCK
    BY BankFits, LastBlock
<1>2. /\ 0 \in 0 .. QUEUE_RECORDS /\ 0 \in 0 .. QUEUE_RECORDS - 1 /\ 0 \in 0 .. RECORD_SLOTS - 1
      /\ 0 \in 0 .. PAGE_SLOTS /\ 0 \in 0 .. MAX_FLIGHTS /\ 1 \in 1 .. MAX_FLIGHTS + 1
    BY Geometry
<1>3. ModeTypeOK
    BY DEF ModeTypeOK
<1>4. BankTypeOK
    BY <1>1 DEF BankTypeOK, Bank
<1>5. queue \in [0 .. QUEUE_RECORDS - 1 -> 0 .. MAXIMUM]
    BY <1>1
<1>6. QueueTypeOK
    BY <1>1, <1>2, <1>5 DEF QueueTypeOK
<1>7. HeaderTypeOK
    BY <1>2, HeaderValues DEF HeaderTypeOK
<1>8. CellTypeOK
    <2>1. BlankCells \in [Slot -> Slot \cup {BLANK, BAD}]
        BY HeaderValues
    <2>2. [s \in Slot |-> BAD] \in [Slot -> Slot \cup {BLANK, BAD}]
        OBVIOUS
    <2>3. QED
        BY <2>1, <2>2 DEF CellTypeOK
<1>9. QueueInv
    <2>1. (0 + 0) % QUEUE_RECORDS = 0 /\ 0 <= RECORD_SLOTS * 0
        BY Wraps, Geometry
    <2>2. QED
        BY <2>1 DEF QueueInv
<1>10. QED
    BY <1>3, <1>4, <1>6, <1>7, <1>8, <1>9, InitControl, TypeParts DEF Sound

LEMMA NextSound == Sound /\ [Next]_vars => Sound'
<1> SUFFICES ASSUME Sound, [Next]_vars PROVE Sound'
    OBVIOUS
<1> USE SoundParts
<1>1. CASE Update
    BY <1>1, UpdateTypes, UpdateControl DEF Sound
<1>2. CASE Flight \/ Host
    BY <1>2, CallsTypes, CallsControl DEF Sound
<1>3. CASE PowerLoss \/ PowerUp \/ PowerUpFails
    BY <1>3, PowerTypes, PowerControl DEF Sound
<1>4. CASE UNCHANGED vars
    <2>1. ControlInv'
        BY <1>4, ControlKept DEF Driver
    <2>2. QueueOK'
        BY <1>4, QueueUnmoved DEF vars, queueVars, QueueTypeOK, QueueOK, QueueInv
    <2>3. /\ ModeTypeOK' /\ BankTypeOK' /\ next_flight_id' \in 1 .. MAX_FLIGHTS + 1
          /\ header' \in Headers /\ cells' \in Cells /\ committed' \in 0 .. MAX_FLIGHTS
        BY <1>4 DEF vars, stopVars, eraseVars, bankVars, chip, ModeTypeOK, BankTypeOK
    <2>4. QED
        BY <2>1, <2>2, <2>3, Assemble DEF Sound
<1>5. QED
    BY <1>1, <1>2, <1>3, <1>4 DEF Next

(* Whatever the chip, the calls and the power do, the driver's mode, banks *)
(* and queue stay together, and the queue holds the records that follow    *)
(* those on the chip.                                                      *)
THEOREM FlashSound == Spec => []Sound
BY InitSound, NextSound, PTL DEF Spec

(* Every variable of the flash recorder keeps its type: no bank index, no  *)
(* queue position and no program length leaves its range.                  *)
THEOREM FlashTypes == Spec => []TypeOK
<1>1. Sound => TypeOK
    BY DEF Sound
<1>2. QED
    BY <1>1, FlashSound, PTL

(* A start deferred by an erase belongs to the flight in the air.          *)
THEOREM DeferredSafety == Spec => []DeferredStartIsCurrent
<1>1. Sound => DeferredStartIsCurrent
    BY DEF Sound, ControlInv, StopInv
<1>2. QED
    BY <1>1, FlashSound, PTL

-----------------------------------------------------------------------------
(* What is on the chip, where an interrupted erase leaves blank cells      *)
(* blank.                                                                  *)

Blank(data, b) == \A s \in Slot : data[b][s] = BLANK
BlankAbove(data, b, block) == \A s \in Slot : s \div BLOCK_SLOTS > block => data[b][s] = BLANK
Filled(data, b, address) == \A s \in Slot : data[b][s] = IF s < address THEN s ELSE BLANK

BlankHeaders(headers, data) == \A b \in Bank : headers[b].kind = "blank" => Blank(data, b)

(* Blocks are erased from the last to the first.                           *)
EraseInv == erase_active => BlankAbove(cells, erase_bank, erase_block)

(* The bank that is written, or can be, and how far.                       *)
OpenInv ==
    /\ state = "READY" => header[write_bank].kind = "blank"
    /\ state = "RECORDING" =>
         /\ operation = "HEADER" => header[write_bank].kind = "blank"
         /\ operation # "HEADER" => /\ header[write_bank].kind = "open"
                                    /\ header[write_bank].id = next_flight_id - 1
         /\ Filled(cells, write_bank, record_address)

DataInv == BlankHeaders(header, cells) /\ EraseInv /\ OpenInv

LEMMA BankPair ==
    ASSUME NEW b \in Bank
    PROVE  /\ 1 - b \in Bank /\ 1 - b # b
           /\ \A other \in Bank : other = b \/ other = 1 - b
BY DEF Bank

LEMMA BlankBanks ==
    ASSUME cells \in Cells, BlankHeaders(header, cells)
    PROVE  BlankHeaderMeansBlankBank
<1>1. ASSUME NEW b \in Bank, Blank(cells, b)
      PROVE  cells[b] = BlankCells
    <2>1. cells[b] \in [Slot -> Slot \cup {BLANK, BAD}]
        BY DEF Cells
    <2>2. QED
        BY <1>1, <2>1 DEF Blank, BlankCells
<1>2. QED
    BY <1>1 DEF BlankHeaderMeansBlankBank, BlankHeaders, header_erased

(* A header spoilt, or no longer blank, promises nothing.                  *)
LEMMA BlankHeadersKept ==
    ASSUME BlankHeaders(header, cells), cells' = cells,
           \A b \in Bank : header'[b].kind = "blank" => header[b].kind = "blank"
    PROVE  BlankHeaders(header', cells')
BY DEF BlankHeaders, Blank

LEMMA BlankIsAbove ==
    /\ \A b \in Bank : BlankAbove(cells', b, LAST_BLOCK)
    /\ \A b \in Bank : Blank(cells', b) => Filled(cells', b, 0)
    /\ \A b \in Bank : Blank(cells, b) => Filled(cells, b, 0)
<1>1. \A s \in Slot : ~(s \div BLOCK_SLOTS > LAST_BLOCK)
    <2>1. ASSUME NEW s \in Slot PROVE ~(s \div BLOCK_SLOTS > LAST_BLOCK)
        <3>1. s \div BLOCK_SLOTS \in 0 .. LAST_BLOCK /\ LAST_BLOCK \in Nat
            BY LastBlock
        <3>2. QED
            BY <3>1
    <2>2. QED
        BY <2>1
<1>2. \A s \in Slot : ~(s < 0)
    BY Geometry DEF Slot
<1>3. \A b \in Bank : BlankAbove(cells', b, LAST_BLOCK)
    BY <1>1 DEF BlankAbove
<1>4. \A b \in Bank : Blank(cells', b) => Filled(cells', b, 0)
    BY <1>2 DEF Blank, Filled
<1>5. \A b \in Bank : Blank(cells, b) => Filled(cells, b, 0)
    BY <1>2 DEF Blank, Filled
<1>6. QED
    BY <1>3, <1>4, <1>5

(* A block erased for certain extends the blank end of the bank.           *)
LEMMA EraseAdvances ==
    ASSUME Sound, DataInv, erase_active, BlockErase("everything")
    PROVE  /\ BlankAbove(cells', erase_bank, erase_block - 1)
           /\ erase_block = 0 => Blank(cells', erase_bank) /\ header'[erase_bank].kind = "blank"
<1> USE SoundParts
<1>1. "everything" \in Outcome
    BY DEF Outcome
<1>2. /\ \A s \in Slot : s \div BLOCK_SLOTS # erase_block
                            => cells'[erase_bank][s] = cells[erase_bank][s]
      /\ \A s \in Slot : s \div BLOCK_SLOTS = erase_block => cells'[erase_bank][s] = BLANK
      /\ erase_block = 0 => header'[erase_bank].kind = "blank"
    BY <1>1, EraseEffect
<1>3. BlankAbove(cells, erase_bank, erase_block)
    BY DEF DataInv, EraseInv
<1>4. erase_block \in Nat
    BY LastBlock DEF BankTypeOK
<1>5. ASSUME NEW s \in Slot, s \div BLOCK_SLOTS > erase_block - 1
      PROVE  cells'[erase_bank][s] = BLANK
    <2>1. s \div BLOCK_SLOTS \in Nat
        <3>1. s \div BLOCK_SLOTS \in 0 .. LAST_BLOCK
            BY LastBlock
        <3>2. QED
            BY <3>1
    <2>2. s \div BLOCK_SLOTS = erase_block \/ s \div BLOCK_SLOTS > erase_block
        BY <1>4, <1>5, <2>1
    <2>3. CASE s \div BLOCK_SLOTS = erase_block
        BY <1>2, <2>3
    <2>4. CASE s \div BLOCK_SLOTS > erase_block
        BY <1>2, <1>3, <1>4, <2>1, <2>4 DEF BlankAbove
    <2>5. QED
        BY <2>2, <2>3, <2>4
<1>6. BlankAbove(cells', erase_bank, erase_block - 1)
    BY <1>5 DEF BlankAbove
<1>7. ASSUME erase_block = 0 PROVE Blank(cells', erase_bank)
    <2>1. ASSUME NEW s \in Slot PROVE cells'[erase_bank][s] = BLANK
        <3>1. s \div BLOCK_SLOTS \in 0 .. LAST_BLOCK
            BY LastBlock
        <3>2. s \div BLOCK_SLOTS > erase_block - 1
            BY <1>7, <3>1
        <3>3. QED
            BY <1>5, <3>2
    <2>2. QED
        BY <2>1 DEF Blank
<1>8. QED
    BY <1>2, <1>6, <1>7

(* Where the erase was interrupted the blank end is still blank.           *)
LEMMA EraseKeeps ==
    ASSUME Sound, DataInv, ~BLANK_ERASE_CAN_TEAR, erase_active,
           NEW outcome \in Outcome, BlockErase(outcome)
    PROVE  BlankHeaders(header', cells') /\ BlankAbove(cells', erase_bank, erase_block)
<1> USE SoundParts
<1>1. /\ header'[1 - erase_bank] = header[1 - erase_bank]
      /\ cells'[1 - erase_bank] = cells[1 - erase_bank]
      /\ \A s \in Slot : cells[erase_bank][s] = BLANK => cells'[erase_bank][s] = BLANK
      /\ header'[erase_bank].kind = "blank" =>
            header_erased(erase_bank) \/ (erase_block = 0 /\ outcome = "everything")
    BY EraseEffect
<1>2. BlankAbove(cells', erase_bank, erase_block)
    BY <1>1 DEF DataInv, EraseInv, BlankAbove
<1>3. erase_bank \in Bank
    BY DEF BankTypeOK
<1>4. ASSUME header'[erase_bank].kind = "blank" PROVE Blank(cells', erase_bank)
    <2>1. CASE header[erase_bank].kind = "blank"
        BY <1>1, <1>3, <2>1 DEF DataInv, BlankHeaders, Blank
    <2>2. CASE erase_block = 0 /\ outcome = "everything"
        BY <2>2, EraseAdvances
    <2>3. QED
        BY <1>1, <1>4, <2>1, <2>2 DEF header_erased
<1>5. ASSUME NEW b \in Bank, header'[b].kind = "blank" PROVE Blank(cells', b)
    <2>1. CASE b = erase_bank
        BY <1>4, <1>5, <2>1
    <2>2. CASE b = 1 - erase_bank
        BY <1>1, <1>5, <2>2 DEF DataInv, BlankHeaders, Blank
    <2>3. QED
        BY <1>3, <2>1, <2>2, BankPair
<1>6. QED
    BY <1>2, <1>5 DEF BlankHeaders

(* Whatever an operation did before it was interrupted, an erased header   *)
(* still proves its bank blank.                                            *)
LEMMA EffectBlank ==
    ASSUME Sound, DataInv, ~BLANK_ERASE_CAN_TEAR,
           NEW op, NEW length, NEW outcome \in Outcome, Effect(op, length, outcome),
           op = "RECORD" => length \in Nat /\ Due(length) /\ header[write_bank].kind = "open",
           op \in {"HEADER", "RECORD", "FINAL"} => ~erase_active,
           op = "ERASE" => erase_active
    PROVE  /\ BlankHeaders(header', cells')
           /\ erase_active => BlankAbove(cells', erase_bank, erase_block)
<1> USE SoundParts
<1>1. BlankHeaders(header, cells) /\ EraseInv /\ write_bank \in Bank
    BY DEF DataInv, BankTypeOK
<1>2. CASE op = "NONE" /\ UNCHANGED <<chip, committed>>
    BY <1>1, <1>2 DEF chip, EraseInv
<1>3. CASE op = "HEADER" /\ HeaderProgram(outcome)
    <2>1. ASSUME NEW b \in Bank, header'[b].kind = "blank" PROVE header[b].kind = "blank"
        <3>1. CASE outcome = "nothing"
            BY <1>3, <2>1, <3>1 DEF HeaderProgram
        <3>2. CASE outcome # "nothing" /\ b = write_bank
            BY <1>1, <1>3, <2>1, <3>2, HeaderValues DEF HeaderProgram, Headers
        <3>3. CASE b # write_bank
            BY <1>1, <1>3, <2>1, <3>3, HeaderEffect, BankPair
        <3>4. QED
            BY <3>1, <3>2, <3>3
    <2>2. cells' = cells
        BY <1>3, HeaderEffect
    <2>3. QED
        BY <1>1, <1>3, <2>1, <2>2, BlankHeadersKept
<1>4. CASE op = "RECORD" /\ RecordProgram(length, outcome)
    <2>1. /\ header' = header /\ cells'[1 - write_bank] = cells[1 - write_bank]
        BY <1>4, RecordEffect
    <2>2. ASSUME NEW b \in Bank, header'[b].kind = "blank" PROVE Blank(cells', b)
        <3>1. b = 1 - write_bank
            BY <1>1, <1>4, <2>1, <2>2, BankPair
        <3>2. Blank(cells, b)
            BY <1>1, <2>1, <2>2 DEF BlankHeaders
        <3>3. QED
            BY <2>1, <3>1, <3>2 DEF Blank
    <2>3. QED
        BY <1>4, <2>2 DEF BlankHeaders
<1>5. CASE op = "FINAL" /\ FinalProgram(outcome)
    <2>1. /\ cells' = cells /\ header'[1 - write_bank] = header[1 - write_bank]
          /\ header' = header \/ header'[write_bank].kind = "valid"
        BY <1>5, FinalEffect
    <2>2. \A b \in Bank : header'[b].kind = "blank" => header[b].kind = "blank"
        BY <1>1, <2>1, BankPair
    <2>3. QED
        BY <1>1, <1>5, <2>1, <2>2, BlankHeadersKept
<1>6. CASE op = "ERASE" /\ BlockErase(outcome)
    BY <1>6, EraseKeeps
<1>7. QED
    BY <1>2, <1>3, <1>4, <1>5, <1>6 DEF Effect

LEMMA DataParts ==
    ASSUME BlankHeaders(header', cells'),
           erase_active' => BlankAbove(cells', erase_bank', erase_block'),
           state' = "READY" => header'[write_bank'].kind = "blank",
           state' = "RECORDING" =>
               /\ operation' = "HEADER" => header'[write_bank'].kind = "blank"
               /\ operation' # "HEADER" => /\ header'[write_bank'].kind = "open"
                                           /\ header'[write_bank'].id = next_flight_id' - 1
               /\ Filled(cells', write_bank', record_address')
    PROVE  DataInv'
<1>1. EraseInv'
    BY DEF EraseInv, BlankAbove
<1>2. OpenInv'
    BY DEF OpenInv, Filled
<1>3. BlankHeaders(header, cells)'
    BY DEF BlankHeaders, Blank
<1>4. QED
    BY <1>1, <1>2, <1>3 DEF DataInv

LEMMA Modes ==
    ASSUME Sound
    PROVE  /\ operation \in {"HEADER", "RECORD", "FINAL"}
                => state = "RECORDING" /\ ~erase_active /\ recording
           /\ operation = "ERASE" => erase_active
           /\ erase_active => state \in {"INITIALIZING", "ERROR"} /\ ~recording
           /\ state = "READY" => ~erase_active /\ operation = "NONE" /\ ~recording
           /\ state = "RECORDING" => ~erase_active /\ recording
           /\ queue_count > 0 \/ finalise_pending => recording
           /\ recording => state \in {"RECORDING", "ERROR"} /\ write_bank # retained_bank
           /\ phase = "issue" => operation = "NONE" /\ state # "ERROR"
           /\ erase_active => erase_bank # retained_bank
           /\ clear_second_pending => erase_active /\ erase_bank = 0 /\ retained_bank = NO_BANK
BY DEF Sound, ControlInv, ModeInv, BankInv, StopInv

(* The operation under way, however it ends.                               *)
LEMMA OperationBlank ==
    ASSUME Sound, DataInv, ~BLANK_ERASE_CAN_TEAR,
           NEW outcome \in Outcome, Effect(operation, program_length, outcome)
    PROVE  /\ BlankHeaders(header', cells')
           /\ erase_active => BlankAbove(cells', erase_bank, erase_block)
<1>1. operation = "RECORD" => program_length \in Nat /\ Due(program_length)
                              /\ header[write_bank].kind = "open"
    <2>1. program_length \in Nat
        BY SoundParts, QueueFacts
    <2>2. operation = "RECORD" => state = "RECORDING"
        BY Modes
    <2>3. QED
        BY <2>1, <2>2 DEF Sound, QueueInv, DataInv, OpenInv
<1>2. /\ operation \in {"HEADER", "RECORD", "FINAL"} => ~erase_active
      /\ operation = "ERASE" => erase_active
    BY Modes
<1>3. QED
    BY <1>1, <1>2, EffectBlank

LEMMA ChipKeptBlank ==
    ASSUME DataInv, UNCHANGED chip
    PROVE  /\ BlankHeaders(header', cells')
           /\ erase_active => BlankAbove(cells', erase_bank, erase_block)
BY DEF DataInv, EraseInv, chip

(* A step that leaves the chip and the flight on it alone.                 *)
LEMMA OpenKept ==
    ASSUME Sound, DataInv, UNCHANGED <<chip, state, write_bank, next_flight_id,
                                       record_count, record_program_offset,
                                       erase_active, erase_bank, erase_block>>,
           operation' = "HEADER" <=> operation = "HEADER"
    PROVE  DataInv'
<1>1. record_address' = record_address /\ header' = header /\ cells' = cells
    BY DEF record_address, chip
<1>2. QED
    BY <1>1, ChipKeptBlank, DataParts DEF DataInv, OpenInv

(* The operation that comes next, or fails to.                             *)
LEMMA IssueData ==
    ASSUME Sound, DataInv, ~BLANK_ERASE_CAN_TEAR, Issuing,
           UNCHANGED <<erase_active, erase_bank, erase_block>>,
           NEW op, op \in {"RECORD", "FINAL"} => recording, op = "ERASE" => erase_active,
           op \in {"RECORD", "FINAL", "ERASE"},
           NEW length, op = "RECORD" => length \in Nat /\ Due(length),
           \/ operation' = op /\ UNCHANGED <<state, chip>>
           \/ StartFails(op, length)
    PROVE  DataInv'
<1>1. operation = "NONE" /\ state # "ERROR"
    BY Modes DEF Issuing, Polling
<1>2. CASE operation' = op /\ UNCHANGED <<state, chip>>
    BY <1>1, <1>2, OpenKept DEF Issuing, bankVars
<1>3. CASE StartFails(op, length)
    <2>1. state' = "ERROR"
        BY <1>3 DEF StartFails, fail
    <2>2. PICK outcome \in Outcome : Effect(op, length, outcome)
        BY <1>3 DEF StartFails
    <2>3. op = "RECORD" => length \in Nat /\ Due(length) /\ header[write_bank].kind = "open"
        BY <1>1, Modes DEF DataInv, OpenInv
    <2>4. op \in {"HEADER", "RECORD", "FINAL"} => ~erase_active
        BY <1>1, Modes
    <2>5. /\ BlankHeaders(header', cells')
          /\ erase_active => BlankAbove(cells', erase_bank, erase_block)
        BY <2>2, <2>3, <2>4, EffectBlank
    <2>6. QED
        BY <2>1, <2>5, DataParts
<1>4. QED
    BY <1>2, <1>3

LEMMA RecordData ==
    ASSUME Sound, DataInv, RecordDone
    PROVE  /\ header' = header /\ record_address' = record_address + program_length
           /\ Filled(cells', write_bank, record_address')
<1> USE SoundParts
<1>1. /\ operation = "RECORD" /\ Effect("RECORD", program_length, "everything")
      /\ record_program_offset' = (record_program_offset + program_length) % RECORD_SLOTS
      /\ record_count'
            = record_count + ((record_program_offset + program_length) \div RECORD_SLOTS)
    BY DEF RecordDone, Done, offset_after_program
<1>2. program_length \in Nat /\ Due(program_length) /\ record_address \in Nat
    BY <1>1, QueueFacts DEF Sound, QueueInv
<1>3. record_address' = record_address + program_length
    BY <1>1, <1>2, ProgramMoves DEF record_address
<1>4. Filled(cells, write_bank, record_address)
    BY <1>1, Modes DEF DataInv, OpenInv
<1>5. RecordProgram(program_length, "everything") /\ "everything" \in Outcome
    BY <1>1 DEF Effect, Outcome
<1>6. /\ header' = header
      /\ \A s \in Slot :
           cells'[write_bank][s] =
              IF record_address <= s /\ s < record_address + program_length
              THEN Programmed(cells[write_bank][s], s) ELSE cells[write_bank][s]
    BY <1>2, <1>5, RecordEffect
<1>7. ASSUME NEW s \in Slot
      PROVE  cells'[write_bank][s] = IF s < record_address' THEN s ELSE BLANK
    <2>1. s \in Nat
        BY LastBlock
    <2>2. cells[write_bank][s] = IF s < record_address THEN s ELSE BLANK
        BY <1>4 DEF Filled
    <2>3. CASE record_address <= s /\ s < record_address + program_length
        <3>1. cells[write_bank][s] = BLANK
            BY <1>2, <2>1, <2>2, <2>3
        <3>2. Programmed(cells[write_bank][s], s) = s
            BY <3>1 DEF Programmed
        <3>3. QED
            BY <1>3, <1>6, <2>3, <3>2
    <2>4. CASE ~(record_address <= s /\ s < record_address + program_length)
        BY <1>2, <1>3, <1>6, <2>1, <2>2, <2>4
    <2>5. QED
        BY <2>3, <2>4
<1>8. QED
    BY <1>3, <1>6, <1>7 DEF Filled

LEMMA UpdateData == Sound /\ DataInv /\ ~BLANK_ERASE_CAN_TEAR /\ Update => DataInv'
<1> SUFFICES ASSUME Sound, DataInv, ~BLANK_ERASE_CAN_TEAR, Update PROVE DataInv'
    OBVIOUS
<1> USE SoundParts DEF eraseVars, stopVars, bankVars
<1>0. "everything" \in Outcome /\ 1 - write_bank \in Bank /\ 1 - write_bank # write_bank
    BY BankPair DEF Outcome, BankTypeOK
<1>1. CASE OperationTimeout
    BY <1>1, OperationBlank, DataParts DEF OperationTimeout, fail
<1>2. CASE HeaderDone
    <2>1. /\ operation = "HEADER" /\ operation' = "NONE" /\ HeaderProgram("everything")
          /\ Effect(operation, program_length, "everything")
          /\ UNCHANGED <<state, write_bank, next_flight_id, record_count,
                         record_program_offset, erase_active>>
        BY <1>2 DEF HeaderDone, Done, Effect, queueVars
    <2>2. state = "RECORDING" /\ ~erase_active
        BY <2>1, Modes
    <2>3. header[write_bank].kind = "blank" /\ Filled(cells, write_bank, record_address)
        BY <2>1, <2>2 DEF DataInv, OpenInv
    <2>4. /\ header'[write_bank].kind = "open" /\ header'[write_bank].id = next_flight_id - 1
          /\ cells' = cells
        BY <1>0, <2>1, <2>3, HeaderEffect DEF header_erased
    <2>5. record_address' = record_address
        BY <2>1 DEF record_address
    <2>6. BlankHeaders(header', cells')
        BY <1>0, <2>1, OperationBlank
    <2>7. QED
        BY <2>1, <2>2, <2>3, <2>4, <2>5, <2>6, DataParts
<1>3. CASE RecordDone
    <2>1. /\ operation = "RECORD" /\ operation' = "NONE"
          /\ Effect(operation, program_length, "everything")
          /\ UNCHANGED <<state, write_bank, next_flight_id, erase_active>>
        BY <1>3 DEF RecordDone, Done
    <2>2. state = "RECORDING" /\ ~erase_active
        BY <2>1, Modes
    <2>3. header[write_bank].kind = "open" /\ header[write_bank].id = next_flight_id - 1
        BY <2>1, <2>2 DEF DataInv, OpenInv
    <2>4. BlankHeaders(header', cells')
        BY <1>0, <2>1, OperationBlank
    <2>5. header' = header /\ Filled(cells', write_bank, record_address')
        BY <1>3, RecordData
    <2>6. QED
        BY <2>1, <2>2, <2>3, <2>4, <2>5, DataParts
<1>4. CASE FinalDone
    <2>1. /\ operation = "FINAL" /\ Effect(operation, program_length, "everything")
          /\ FinalProgram("everything")
        BY <1>4 DEF FinalDone, Done, Effect
    <2>2. BlankHeaders(header', cells') /\ header'[1 - write_bank] = header[1 - write_bank]
        BY <1>0, <2>1, OperationBlank, FinalEffect
    <2>3. ~erase_active
        BY <2>1, Modes
    <2>4. CASE prepare_bank(1 - write_bank)
        BY <1>0, <2>2, <2>4, DataParts, BlankIsAbove DEF prepare_bank
    <2>5. CASE /\ header_erased(1 - write_bank) /\ write_bank' = 1 - write_bank
               /\ state' = "READY" /\ UNCHANGED erase_active
        BY <2>2, <2>3, <2>5, DataParts DEF header_erased
    <2>6. QED
        BY <1>4, <2>4, <2>5 DEF FinalDone
<1>5. ASSUME operation = "ERASE", Effect("ERASE", program_length, "everything")
             \/ Effect("ERASE", 0, "everything")
      PROVE  /\ erase_active /\ state \in {"INITIALIZING", "ERROR"}
             /\ BlankHeaders(header', cells')
             /\ BlankAbove(cells', erase_bank, erase_block - 1)
             /\ erase_block = 0 => header'[erase_bank].kind = "blank"
    <2>1. BlockErase("everything")
        BY <1>5 DEF Effect
    <2>2. erase_active /\ state \in {"INITIALIZING", "ERROR"}
        BY <1>5, Modes
    <2>3. QED
        BY <1>0, <2>1, <2>2, EraseAdvances, EraseKeeps
<1>6. CASE BlockDone
    <2>1. /\ operation = "ERASE" /\ Effect("ERASE", program_length, "everything")
          /\ erase_block' = erase_block - 1
          /\ UNCHANGED <<state, erase_active, erase_bank>>
        BY <1>6 DEF BlockDone, Done
    <2>2. QED
        BY <1>5, <2>1, DataParts
<1>7. CASE FirstBankCleared
    <2>1. /\ operation = "ERASE" /\ Effect("ERASE", program_length, "everything")
          /\ prepare_bank(1)
        BY <1>7 DEF FirstBankCleared, Done
    <2>2. 1 \in Bank
        BY DEF Bank
    <2>3. QED
        BY <1>5, <2>1, <2>2, DataParts, BlankIsAbove DEF prepare_bank
<1>8. CASE BankReady
    <2>1. /\ operation = "ERASE" /\ Effect("ERASE", 0, "everything")
          /\ erase_block = 0 /\ erase_active' = FALSE /\ state' = "READY"
          /\ write_bank' = erase_bank
        BY <1>8 DEF BankReady, BankErased
    <2>2. QED
        BY <1>5, <2>1, DataParts
<1>9. CASE BankReadyForFlight
    <2>1. /\ operation = "ERASE" /\ erase_block = 0 /\ erase_active' = FALSE
          /\ write_bank' = erase_bank /\ erase_bank \in Bank
        BY <1>9 DEF BankReadyForFlight, BankErased, BankTypeOK
    <2>2. /\ record_count' = 0 /\ record_program_offset' = 0
        BY <1>9 DEF BankReadyForFlight, begin_recording, empty_queue
    <2>3. record_address' = 0
        BY <2>2, Geometry DEF record_address
    <2>4. /\ header'[1 - erase_bank] = header[1 - erase_bank]
          /\ cells'[1 - erase_bank] = cells[1 - erase_bank]
          /\ \A s \in Slot : cells'[erase_bank][s]
                               = IF s \div BLOCK_SLOTS = 0 THEN BLANK ELSE cells[erase_bank][s]
        BY <1>9, <2>1, BankPair DEF BankReadyForFlight, Cells, Headers
    <2>5. Blank(cells', erase_bank)
        <3>1. BlankAbove(cells, erase_bank, 0)
            BY <2>1, Modes DEF DataInv, EraseInv
        <3>2. ASSUME NEW s \in Slot PROVE cells'[erase_bank][s] = BLANK
            <4>1. s \div BLOCK_SLOTS = 0 \/ s \div BLOCK_SLOTS > 0
                <5>1. s \div BLOCK_SLOTS \in 0 .. LAST_BLOCK
                    BY LastBlock
                <5>2. QED
                    BY <5>1
            <4>2. QED
                BY <2>4, <3>1, <4>1 DEF BlankAbove
        <3>3. QED
            BY <3>2 DEF Blank
    <2>6. BlankHeaders(header', cells')
        <3>1. ASSUME NEW b \in Bank, header'[b].kind = "blank" PROVE Blank(cells', b)
            <4>1. CASE b = erase_bank
                BY <2>5, <4>1
            <4>2. CASE b = 1 - erase_bank
                BY <2>4, <3>1, <4>2 DEF DataInv, BlankHeaders, Blank
            <4>3. QED
                BY <2>1, <4>1, <4>2, BankPair
        <3>2. QED
            BY <3>1 DEF BlankHeaders
    <2>7. CASE /\ header' = [header EXCEPT ![erase_bank] = BlankHeader]
               /\ operation' = "HEADER"
        <3>1. header'[erase_bank].kind = "blank"
            BY <2>1, <2>7, HeaderValues DEF Headers
        <3>2. Filled(cells', erase_bank, 0)
            BY <2>1, <2>5, BlankIsAbove
        <3>3. state' = "RECORDING"
            BY <1>9, <2>7 DEF BankReadyForFlight, fail
        <3>4. QED
            BY <2>1, <2>3, <2>6, <2>7, <3>1, <3>2, <3>3, DataParts
    <2>8. CASE fail
        BY <2>1, <2>6, <2>8, DataParts DEF fail
    <2>9. QED
        BY <1>9, <2>7, <2>8 DEF BankReadyForFlight
<1>10. CASE IssueErase
    <2>1. /\ Issuing /\ erase_active
          /\ UNCHANGED <<erase_active, erase_bank, erase_block>>
          /\ \/ operation' = "ERASE" /\ UNCHANGED <<state, chip>>
             \/ StartFails("ERASE", 0)
        BY <1>10 DEF IssueErase, Issue
    <2>2. QED
        BY <2>1, IssueData
<1>11. CASE IssueRecord
    <2> DEFINE length == IF queued_bytes < page_remaining THEN queued_bytes ELSE page_remaining
    <2>1. length \in Nat /\ Due(length)
        BY DueWhenIssued
    <2>2. /\ Issuing /\ queue_count > 0
          /\ UNCHANGED <<erase_active, erase_bank, erase_block>>
          /\ \/ operation' = "RECORD" /\ UNCHANGED <<state, chip>>
             \/ StartFails("RECORD", length)
        BY <1>11 DEF IssueRecord, Issue, page_due
    <2> HIDE DEF length
    <2>3. recording
        BY <2>2, Modes
    <2>4. QED
        BY <2>1, <2>2, <2>3, IssueData
<1>12. CASE DiscardFlight
    <2>1. UNCHANGED chip /\ prepare_bank(write_bank) /\ write_bank \in Bank
        BY <1>12 DEF DiscardFlight, BankTypeOK
    <2>2. QED
        BY <2>1, ChipKeptBlank, DataParts, BlankIsAbove DEF prepare_bank
<1>13. CASE IssueFinal
    <2>1. /\ Issuing /\ finalise_pending
          /\ UNCHANGED <<erase_active, erase_bank, erase_block>>
          /\ \/ operation' = "FINAL" /\ UNCHANGED <<state, chip>>
             \/ StartFails("FINAL", 0)
        BY <1>13 DEF IssueFinal
    <2>2. recording
        BY <2>1, Modes
    <2>3. QED
        BY <2>1, <2>2, IssueData
<1>14. CASE IssueNothing
    BY <1>14, OpenKept DEF IssueNothing, Issuing
<1>15. QED
    BY <1>1, <1>2, <1>3, <1>4, <1>6, <1>7, <1>8, <1>9, <1>10, <1>11, <1>12, <1>13, <1>14
        DEF Update

(* A flight that begins in a blank bank.                                   *)
LEMMA BeginData ==
    ASSUME Sound, DataInv, state = "READY", UNCHANGED <<write_bank, erase_active>>,
           record_count' = 0, record_program_offset' = 0, BeginOk \/ BeginFails
    PROVE  DataInv'
<1> USE SoundParts
<1>1. record_address' = 0
    BY Geometry DEF record_address
<1>2. ~erase_active /\ header[write_bank].kind = "blank" /\ write_bank \in Bank
    BY Modes DEF DataInv, OpenInv, BankTypeOK
<1>3. CASE BeginOk
    <2>1. header' = header /\ cells' = cells /\ operation' = "HEADER" /\ state' = "RECORDING"
        BY <1>3 DEF BeginOk, chip
    <2>2. Filled(cells, write_bank, 0)
        BY <1>2, BlankIsAbove DEF DataInv, BlankHeaders
    <2>3. BlankHeaders(header', cells')
        BY <2>1 DEF DataInv
    <2>4. QED
        BY <1>1, <1>2, <2>1, <2>2, <2>3, DataParts
<1>4. CASE BeginFails
    <2>1. cells' = cells /\ state' = "ERROR"
          /\ header' \in {header, [header EXCEPT ![write_bank] = DirtyHeader]}
        BY <1>4 DEF BeginFails, fail
    <2>2. \A b \in Bank : header'[b].kind = "blank" => header[b].kind = "blank"
        BY <1>2, <2>1, HeaderValues DEF Headers
    <2>3. BlankHeaders(header', cells')
        BY <2>1, <2>2, BlankHeadersKept DEF DataInv
    <2>4. QED
        BY <1>2, <2>1, <2>3, DataParts
<1>5. QED
    BY <1>3, <1>4

LEMMA CallsData == Sound /\ DataInv /\ (Flight \/ Host) => DataInv'
<1> SUFFICES ASSUME Sound, DataInv, Flight \/ Host PROVE DataInv'
    OBVIOUS
<1> USE SoundParts DEF eraseVars, stopVars, bankVars
<1>1. CASE StartAccepted
    BY <1>1, BeginData DEF StartAccepted, start_accepted, begin_recording, empty_queue
<1>2. CASE StartRejected
    BY <1>2, OpenKept DEF StartRejected, queueVars
<1>3. CASE Append
    BY <1>3, OpenKept DEF Append
<1>4. CASE Stop
    BY <1>4, OpenKept DEF Stop, queueVars
<1>5. CASE Clear
    <2>1. UNCHANGED chip /\ prepare_bank(0) /\ 0 \in Bank
        BY <1>5 DEF Clear, Bank
    <2>2. QED
        BY <2>1, ChipKeptBlank, DataParts, BlankIsAbove DEF prepare_bank
<1>6. CASE WriteTest
    <2>1. /\ cells' = cells /\ prepare_bank(write_bank) /\ write_bank \in Bank
          /\ header' \in {header, [header EXCEPT ![write_bank] = DirtyHeader]}
        BY <1>6 DEF WriteTest, BankTypeOK
    <2>2. \A b \in Bank : header'[b].kind = "blank" => header[b].kind = "blank"
        BY <2>1, HeaderValues DEF Headers
    <2>3. BlankHeaders(header', cells')
        BY <2>1, <2>2, BlankHeadersKept DEF DataInv
    <2>4. QED
        BY <2>1, <2>3, DataParts, BlankIsAbove DEF prepare_bank
<1>7. CASE SessionTest
    BY <1>7, BeginData DEF SessionTest, TestAllowed
<1>8. CASE Passthrough
    BY <1>8, SessionKeeps, OpenKept DEF queueVars
<1>9. QED
    BY <1>1, <1>2, <1>3, <1>4, <1>5, <1>6, <1>7, <1>8 DEF Flight, Host

LEMMA PowerData ==
    Sound /\ DataInv /\ ~BLANK_ERASE_CAN_TEAR /\ (PowerLoss \/ PowerUp \/ PowerUpFails)
        => DataInv'
<1> SUFFICES ASSUME Sound, DataInv, ~BLANK_ERASE_CAN_TEAR, PowerLoss \/ PowerUp \/ PowerUpFails
             PROVE  DataInv'
    OBVIOUS
<1>1. CASE PowerLoss
    BY <1>1, OperationBlank, DataParts DEF PowerLoss, NoErase
<1>2. CASE PowerUp
    <2>1. UNCHANGED chip /\ BootCandidate \in Bank
        BY <1>2 DEF PowerUp, Booting, BootCandidate, BootBank, Bank, NO_BANK
    <2>2. BlankHeaders(header', cells') /\ header' = header
        BY <2>1, ChipKeptBlank DEF chip
    <2>3. CASE header_erased(BootCandidate)
        <3>1. write_bank' = BootCandidate /\ state' = "READY" /\ erase_active' = FALSE
            BY <1>2, <2>3 DEF PowerUp, NoErase
        <3>2. QED
            BY <2>2, <2>3, <3>1, DataParts DEF header_erased
    <2>4. CASE ~header_erased(BootCandidate)
        <3>1. prepare_bank(BootCandidate)
            BY <1>2, <2>4 DEF PowerUp
        <3>2. QED
            BY <2>1, <2>2, <3>1, DataParts, BlankIsAbove DEF prepare_bank
    <2>5. QED
        BY <2>3, <2>4
<1>3. CASE PowerUpFails
    BY <1>3, ChipKeptBlank, DataParts DEF PowerUpFails, Booting, NoErase
<1>4. QED
    BY <1>1, <1>2, <1>3

LEMMA InitData == Init => DataInv
<1> SUFFICES ASSUME Init PROVE DataInv
    OBVIOUS
<1>1. ASSUME NEW b \in Bank, header[b].kind = "blank" PROVE Blank(cells, b)
    BY <1>1 DEF Init, header_erased, BlankCells, Blank
<1>2. state = "ERROR" /\ ~erase_active
    BY DEF Init
<1>3. QED
    BY <1>1, <1>2 DEF DataInv, BlankHeaders, EraseInv, OpenInv

LEMMA NextData == Sound /\ DataInv /\ ~BLANK_ERASE_CAN_TEAR /\ [Next]_vars => DataInv'
<1> SUFFICES ASSUME Sound, DataInv, ~BLANK_ERASE_CAN_TEAR, [Next]_vars PROVE DataInv'
    OBVIOUS
<1>1. CASE UNCHANGED vars
    BY <1>1, OpenKept DEF vars, bankVars, eraseVars, queueVars
<1>2. QED
    BY <1>1, UpdateData, CallsData, PowerData DEF Next

LEMMA FlashData == ~BLANK_ERASE_CAN_TEAR => (Spec => []DataInv)
<1> SUFFICES ASSUME ~BLANK_ERASE_CAN_TEAR PROVE Spec => []DataInv
    OBVIOUS
<1>1. Init => DataInv
    BY InitData
<1>2. Sound /\ Sound' /\ DataInv /\ [Next]_vars => DataInv'
    BY NextData
<1>3. QED
    BY <1>1, <1>2, FlashSound, PTL DEF Spec

(* Where an interrupted erase leaves blank cells blank, an erased header   *)
(* proves the whole bank blank, whenever the power failed and whatever the *)
(* size of a bank: the driver erases the block with the header last and    *)
(* programs its page first (prepare_bank, blackbox_sd_start).              *)
THEOREM BlankBankSafety == ~BLANK_ERASE_CAN_TEAR => (Spec => []BlankHeaderMeansBlankBank)
<1>1. Sound /\ DataInv => BlankHeaderMeansBlankBank
    BY SoundParts, BlankBanks DEF DataInv
<1>2. QED
    BY <1>1, FlashSound, FlashData, PTL

LEMMA SamePage ==
    ASSUME NEW a \in Nat, NEW s \in Nat, NEW length \in Nat,
           (a % PAGE_SLOTS) + length <= PAGE_SLOTS, a <= s, s < a + length
    PROVE  s \div PAGE_SLOTS = a \div PAGE_SLOTS
<1> DEFINE page == a \div PAGE_SLOTS
           at == a % PAGE_SLOTS
           k == s - a
<1>1. page \in Nat /\ at \in Nat /\ a = PAGE_SLOTS * page + at /\ PAGE_SLOTS * page \in Nat
    BY Division, Geometry, Step
<1>2. at + length <= PAGE_SLOTS /\ k \in Nat /\ k < length /\ s = a + k
    OBVIOUS
<1> HIDE DEF page, at, k
<1>3. at + k \in 0 .. PAGE_SLOTS - 1 /\ s = PAGE_SLOTS * page + (at + k)
    BY <1>1, <1>2, Geometry
<1>4. (PAGE_SLOTS * page + (at + k)) \div PAGE_SLOTS = page
    BY <1>1, <1>3, DivisionIsUnique, Geometry
<1>5. QED
    BY <1>3, <1>4 DEF page

LEMMA DataNeverOverprograms == Sound /\ DataInv => NeverOverprograms
<1> SUFFICES ASSUME Sound, DataInv PROVE NeverOverprograms
    OBVIOUS
<1> USE SoundParts
<1>1. operation \in {"HEADER", "RECORD", "FINAL"} => state = "RECORDING"
    BY Modes
<1>2. operation = "HEADER" => header_erased(write_bank)
    BY <1>1 DEF DataInv, OpenInv, header_erased
<1>3. operation = "FINAL" => header[write_bank].kind = "open"
    BY <1>1 DEF DataInv, OpenInv
<1>4. ASSUME operation = "RECORD", NEW s \in ProgramRange(program_length)
      PROVE  /\ s \in Slot /\ cells[write_bank][s] = BLANK
             /\ s \div PAGE_SLOTS = record_address \div PAGE_SLOTS
    <2>1. /\ record_program_offset + program_length <= RECORD_SLOTS * queue_count
          /\ (record_address % PAGE_SLOTS) + program_length <= PAGE_SLOTS
        BY <1>4 DEF Sound, QueueInv, Due
    <2>2. /\ record_address \in Nat /\ program_length \in Nat /\ record_program_offset \in Nat
          /\ RECORD_SLOTS * queue_count \in Nat /\ RECORD_SLOTS * record_count \in Nat
          /\ record_address = RECORD_SLOTS * record_count + record_program_offset
          /\ RECORD_SLOTS * record_count + RECORD_SLOTS * queue_count <= BANK_SLOTS
        BY QueueFacts
    <2>3. s \in Nat /\ record_address <= s /\ s < record_address + program_length
        BY <2>2 DEF ProgramRange
    <2>4. s \in Slot
        BY <2>1, <2>2, <2>3, Geometry DEF Slot
    <2>5. cells[write_bank][s] = BLANK
        BY <1>1, <1>4, <2>2, <2>3, <2>4 DEF DataInv, OpenInv, Filled
    <2>6. s \div PAGE_SLOTS = record_address \div PAGE_SLOTS
        BY <2>1, <2>2, <2>3, SamePage
    <2>7. QED
        BY <2>4, <2>5, <2>6
<1>5. QED
    BY <1>2, <1>3, <1>4 DEF NeverOverprograms

(* No byte is programmed twice between two erases, and no program leaves   *)
(* its page, for every size of record, page, block, bank and queue         *)
(* (blackbox_sd_update, start_record_program).                             *)
THEOREM ProgramSafety == ~BLANK_ERASE_CAN_TEAR => (Spec => []NeverOverprograms)
BY DataNeverOverprograms, FlashSound, FlashData, PTL

-----------------------------------------------------------------------------
(* The flights on the chip.                                                *)

(* Flights are numbered upwards: a committed one is older than the next,   *)
(* and while a flight is written, older than that.                         *)
IdsInv ==
    state # "ERROR" /\ ~clear_second_pending =>
        \A b \in Bank : header[b].kind = "valid" /\ ~(erase_active /\ erase_bank = b)
                          => header[b].id < next_flight_id

OpenIsNewest ==
    state = "RECORDING" =>
        \A b \in Bank : header[b].kind = "valid" => header[b].id < next_flight_id - 1

(* The driver knows which bank to keep.                                    *)
RetainsNewest == committed # 0 /\ state # "ERROR" => retained_bank = BootBank

ArchiveInv == IdsInv /\ OpenIsNewest /\ RetainsNewest /\ NewestFlightSurvives

(* Steps that leave the retained flight alone and commit no other.         *)
Spared ==
    /\ retained_bank \in Bank => /\ header'[retained_bank] = header[retained_bank]
                                 /\ cells'[retained_bank] = cells[retained_bank]
    /\ \A b \in Bank : header'[b].kind = "valid" => header'[b] = header[b]
    /\ committed' = committed

Commits ==
    /\ header[write_bank].kind = "open" /\ header'[write_bank].kind = "valid"
    /\ header'[write_bank].id = header[write_bank].id
    /\ header'[write_bank].count = record_count
    /\ header'[1 - write_bank] = header[1 - write_bank]
    /\ cells' = cells /\ committed' = header[write_bank].id

LEMMA BootBankIs ==
    ASSUME header \in Headers
    PROVE  /\ BootBank = NO_BANK => \A b \in Bank : header[b].kind # "valid"
           /\ BootBank # NO_BANK =>
                /\ BootBank \in Bank /\ header[BootBank].kind = "valid"
                /\ \A b \in Bank : header[b].kind = "valid" => header[b].id <= header[BootBank].id
<1>1. /\ 0 \in Bank /\ 1 \in Bank /\ NO_BANK \notin Bank /\ NO_BANK # 0 /\ NO_BANK # 1
      /\ \A b \in Bank : b = 0 \/ b = 1
    BY DEF Bank, NO_BANK
<1>2. header[0].id \in Int /\ header[1].id \in Int
    BY <1>1, Geometry DEF Headers
<1>3. CASE header_valid(1) /\ (~header_valid(0) \/ header[1].id > header[0].id)
    <2>1. BootBank = 1
        BY <1>3 DEF BootBank
    <2>2. QED
        BY <1>1, <1>2, <1>3, <2>1 DEF header_valid
<1>4. CASE header_valid(0) /\ ~(header_valid(1) /\ (~header_valid(0) \/ header[1].id > header[0].id))
    <2>1. BootBank = 0
        BY <1>4 DEF BootBank
    <2>2. QED
        BY <1>1, <1>2, <1>4, <2>1 DEF header_valid
<1>5. CASE ~header_valid(0) /\ ~header_valid(1)
    <2>1. BootBank = NO_BANK
        BY <1>5 DEF BootBank
    <2>2. QED
        BY <1>1, <1>5, <2>1 DEF header_valid
<1>6. QED
    BY <1>3, <1>4, <1>5

LEMMA BootBankKept ==
    ASSUME header \in Headers, BootBank \in Bank, header'[BootBank] = header[BootBank],
           \A b \in Bank : header'[b].kind = "valid" => header'[b] = header[b]
    PROVE  BootBank' = BootBank
<1>1. 0 \in Bank /\ 1 \in Bank /\ NO_BANK \notin Bank /\ NO_BANK # 0 /\ NO_BANK # 1
    BY DEF Bank, NO_BANK
<1>2. BootBank = 0 \/ BootBank = 1
    BY DEF Bank
<1>3. header[BootBank].kind = "valid"
    BY <1>1, BootBankIs
<1>4. CASE BootBank = 0
    <2>1. ~(header_valid(1) /\ header[1].id > header[0].id)
        BY <1>1, <1>4 DEF BootBank
    <2>2. header'[0].kind = "valid" /\ header'[0] = header[0]
        BY <1>3, <1>4
    <2>3. ~(header'[1].kind = "valid" /\ header'[1].id > header'[0].id)
        BY <1>1, <2>1, <2>2 DEF header_valid
    <2>4. QED
        BY <1>4, <2>2, <2>3 DEF BootBank, header_valid
<1>5. CASE BootBank = 1
    <2>1. header_valid(1) /\ (~header_valid(0) \/ header[1].id > header[0].id)
        BY <1>1, <1>5 DEF BootBank
    <2>2. header'[1].kind = "valid" /\ header'[1] = header[1]
        BY <1>3, <1>5
    <2>3. header'[0].kind # "valid" \/ header'[1].id > header'[0].id
        BY <1>1, <2>1, <2>2 DEF header_valid
    <2>4. QED
        BY <1>5, <2>2, <2>3 DEF BootBank, header_valid
<1>6. QED
    BY <1>2, <1>4, <1>5

LEMMA BootBankIsNewest ==
    ASSUME header' \in Headers, NEW w \in Bank, header'[w].kind = "valid",
           header'[1 - w].kind = "valid" => header'[1 - w].id < header'[w].id
    PROVE  BootBank' = w
<1>1. header'[0].id \in Int /\ header'[1].id \in Int
    BY Geometry DEF Headers, Bank
<1>2. CASE w = 0
    BY <1>1, <1>2 DEF BootBank, header_valid
<1>3. CASE w = 1
    BY <1>1, <1>3 DEF BootBank, header_valid
<1>4. QED
    BY <1>2, <1>3 DEF Bank

LEMMA ArchiveParts ==
    ASSUME NewestFlightSurvives',
           state' # "ERROR" /\ ~clear_second_pending' =>
             \A b \in Bank : header'[b].kind = "valid" /\ ~(erase_active' /\ erase_bank' = b)
                               => header'[b].id < next_flight_id',
           state' = "RECORDING" =>
             \A b \in Bank : header'[b].kind = "valid" => header'[b].id < next_flight_id' - 1,
           committed' # 0 /\ state' # "ERROR" => retained_bank' = BootBank'
    PROVE  ArchiveInv'
BY DEF ArchiveInv, IdsInv, OpenIsNewest, RetainsNewest

(* The newest flight is where it was.                                      *)
LEMMA SparedSurvives ==
    ASSUME Sound, ArchiveInv, state # "ERROR", Spared
    PROVE  /\ NewestFlightSurvives'
           /\ committed' # 0 => retained_bank = BootBank'
<1>1. CASE committed' = 0
    BY <1>1 DEF NewestFlightSurvives
<1>2. CASE committed' # 0
    <2>1. /\ committed # 0 /\ committed' = committed /\ retained_bank = BootBank
          /\ BootBank # NO_BANK /\ header[BootBank].id = committed /\ Complete(BootBank)
        BY <1>2 DEF Spared, ArchiveInv, RetainsNewest, NewestFlightSurvives
    <2>2. header \in Headers
        BY SoundParts
    <2>3. BootBank \in Bank
        BY <2>1, <2>2, BootBankIs
    <2>4. header'[BootBank] = header[BootBank] /\ cells'[BootBank] = cells[BootBank]
        BY <2>1, <2>3 DEF Spared
    <2>5. BootBank' = BootBank
        BY <2>2, <2>3, <2>4, BootBankKept DEF Spared
    <2>6. Complete(BootBank)'
        BY <2>1, <2>4, <2>5 DEF Complete
    <2>7. QED
        BY <2>1, <2>4, <2>5, <2>6 DEF NewestFlightSurvives
<1>3. QED
    BY <1>1, <1>2

(* A chip that is left alone.                                              *)
LEMMA ChipSurvives ==
    ASSUME ArchiveInv, UNCHANGED <<chip, committed>>
    PROVE  NewestFlightSurvives' /\ BootBank' = BootBank
<1>1. BootBank' = BootBank
    BY DEF BootBank, header_valid, chip
<1>2. NewestFlightSurvives'
    BY <1>1 DEF ArchiveInv, NewestFlightSurvives, Complete, chip
<1>3. QED
    BY <1>1, <1>2

LEMMA SparedKeeps ==
    ASSUME Sound, ArchiveInv, state # "ERROR", Spared,
           UNCHANGED <<retained_bank, next_flight_id, clear_second_pending,
                       erase_active, erase_bank>>,
           state' = "RECORDING" => state = "RECORDING"
    PROVE  ArchiveInv'
<1>1. \A b \in Bank : header'[b].kind = "valid" => header'[b] = header[b]
    BY DEF Spared
<1>2. NewestFlightSurvives' /\ (committed' # 0 => retained_bank' = BootBank')
    BY SparedSurvives
<1>3. ~clear_second_pending' =>
        \A b \in Bank : header'[b].kind = "valid" /\ ~(erase_active' /\ erase_bank' = b)
                          => header'[b].id < next_flight_id'
    BY <1>1 DEF ArchiveInv, IdsInv
<1>4. state' = "RECORDING" =>
        \A b \in Bank : header'[b].kind = "valid" => header'[b].id < next_flight_id' - 1
    BY <1>1 DEF ArchiveInv, OpenIsNewest
<1>5. QED
    BY <1>2, <1>3, <1>4, ArchiveParts

LEMMA QuietKeeps ==
    ASSUME ArchiveInv,
           UNCHANGED <<chip, committed, state, retained_bank, next_flight_id,
                       clear_second_pending, erase_active, erase_bank>>
    PROVE  ArchiveInv'
<1>1. NewestFlightSurvives' /\ BootBank' = BootBank /\ header' = header
    BY ChipSurvives DEF chip
<1>2. QED
    BY <1>1, ArchiveParts DEF ArchiveInv, IdsInv, OpenIsNewest, RetainsNewest

(* The operations write to other banks, until a flight is committed.       *)
LEMMA EffectSpares ==
    ASSUME Sound, NEW op, NEW length, NEW outcome \in Outcome, Effect(op, length, outcome),
           op = "RECORD" => length \in Nat /\ Due(length),
           op \in {"HEADER", "RECORD", "FINAL"} => write_bank # retained_bank,
           op = "ERASE" => erase_bank # retained_bank
    PROVE  /\ Spared \/ (op = "FINAL" /\ Commits)
           /\ op = "FINAL" /\ outcome = "everything" /\ header[write_bank].kind = "open" => Commits
<1> USE SoundParts
<1>1. write_bank \in Bank /\ erase_bank \in Bank
    BY DEF BankTypeOK
<1>2. ASSUME NEW w \in Bank, retained_bank # w,
             header'[1 - w] = header[1 - w], cells'[1 - w] = cells[1 - w],
             header'[w].kind = "valid" => header' = header, committed' = committed
      PROVE  Spared
    <2>1. \A b \in Bank : b = w \/ b = 1 - w
        BY BankPair
    <2>2. retained_bank \in Bank => retained_bank = 1 - w
        BY <1>2, <2>1
    <2>3. \A b \in Bank : header'[b].kind = "valid" => header'[b] = header[b]
        BY <1>2, <2>1
    <2>4. QED
        BY <1>2, <2>2, <2>3 DEF Spared
<1>3. CASE op = "NONE" /\ UNCHANGED <<chip, committed>>
    BY <1>3 DEF Spared, chip
<1>4. CASE op = "HEADER" /\ HeaderProgram(outcome)
    BY <1>1, <1>2, <1>4, HeaderEffect
<1>5. CASE op = "RECORD" /\ RecordProgram(length, outcome)
    BY <1>1, <1>2, <1>5, RecordEffect
<1>6. CASE op = "FINAL" /\ FinalProgram(outcome)
    <2>1. /\ cells' = cells /\ header'[1 - write_bank] = header[1 - write_bank]
          /\ \/ header' = header /\ committed' = committed
             \/ /\ header[write_bank].kind = "open" /\ header'[write_bank].kind = "valid"
                /\ header'[write_bank].id = header[write_bank].id
                /\ header'[write_bank].count = record_count
                /\ committed' = header[write_bank].id
          /\ outcome = "everything" /\ header[write_bank].kind = "open"
               => header'[write_bank].kind = "valid"
        BY <1>6, FinalEffect
    <2>2. CASE header' = header /\ committed' = committed
        BY <1>1, <1>2, <1>6, <2>1, <2>2
    <2>3. CASE ~(header' = header /\ committed' = committed)
        BY <1>6, <2>1, <2>3 DEF Commits
    <2>4. QED
        BY <2>2, <2>3
<1>7. CASE op = "ERASE" /\ BlockErase(outcome)
    BY <1>1, <1>2, <1>7, EraseEffect
<1>8. QED
    BY <1>3, <1>4, <1>5, <1>6, <1>7 DEF Effect

(* The flight just committed is the newest, with each of its records.      *)
LEMMA CommitSurvives ==
    ASSUME Sound, DataInv, ArchiveInv, state = "RECORDING", operation # "HEADER", Commits,
           header' \in Headers
    PROVE  /\ NewestFlightSurvives' /\ BootBank' = write_bank
           /\ header'[write_bank].id < next_flight_id
<1> USE SoundParts
<1>1. /\ write_bank \in Bank /\ 1 - write_bank \in Bank /\ write_bank # NO_BANK
    BY BankPair DEF BankTypeOK, Bank, NO_BANK
<1>2. header[write_bank].id = next_flight_id - 1 /\ Filled(cells, write_bank, record_address)
    BY DEF DataInv, OpenInv
<1>3. /\ header'[write_bank].kind = "valid" /\ header'[write_bank].id = next_flight_id - 1
      /\ header'[write_bank].count = record_count /\ committed' = header'[write_bank].id
      /\ header'[1 - write_bank] = header[1 - write_bank] /\ cells' = cells
    BY <1>2 DEF Commits
<1>4. header'[1 - write_bank].kind = "valid" => header'[1 - write_bank].id < next_flight_id - 1
    BY <1>1, <1>3 DEF ArchiveInv, OpenIsNewest
<1>5. BootBank' = write_bank
    BY <1>1, <1>3, <1>4, BootBankIsNewest
<1>6. ASSUME NEW s \in 0 .. record_count * RECORD_SLOTS - 1
      PROVE  cells'[write_bank][s] = s
    <2>1. /\ record_address \in Nat /\ record_program_offset \in Nat
          /\ record_count \in Nat /\ RECORD_SLOTS * record_count \in Nat
          /\ RECORD_SLOTS * queue_count \in Nat
          /\ record_address = RECORD_SLOTS * record_count + record_program_offset
          /\ RECORD_SLOTS * record_count + RECORD_SLOTS * queue_count <= BANK_SLOTS
        BY QueueFacts
    <2>2. record_count * RECORD_SLOTS = RECORD_SLOTS * record_count
        BY <2>1, Step, Geometry
    <2>3. s \in Nat /\ s < RECORD_SLOTS * record_count
        BY <2>1, <2>2
    <2>4. s \in Slot /\ s < record_address
        BY <2>1, <2>3, Geometry DEF Slot
    <2>5. QED
        BY <1>2, <1>3, <2>4 DEF Filled
<1>7. Complete(BootBank)'
    BY <1>3, <1>5, <1>6 DEF Complete
<1>8. NewestFlightSurvives'
    BY <1>1, <1>3, <1>5, <1>7 DEF NewestFlightSurvives
<1>9. next_flight_id - 1 < next_flight_id
    BY Geometry
<1>10. QED
    BY <1>3, <1>5, <1>8, <1>9

(* The operation under way, however it ends.                               *)
LEMMA OperationArchive ==
    ASSUME Sound, DataInv, ArchiveInv,
           NEW outcome \in Outcome, Effect(operation, program_length, outcome)
    PROVE  /\ operation # "NONE" => state # "ERROR"
           /\ state # "ERROR" => Spared \/ (operation = "FINAL" /\ Commits)
           /\ NewestFlightSurvives'
<1> USE SoundParts
<1>1. /\ operation \in {"HEADER", "RECORD", "FINAL"} => write_bank # retained_bank
      /\ operation = "ERASE" => erase_bank # retained_bank
    BY Modes
<1>2. operation = "RECORD" => program_length \in Nat /\ Due(program_length)
    BY QueueFacts DEF Sound, QueueInv
<1>3. Spared \/ (operation = "FINAL" /\ Commits)
    BY <1>1, <1>2, EffectSpares
<1>4. operation # "NONE" => state # "ERROR"
    BY DEF Sound, ControlInv, ModeInv
<1>5. NewestFlightSurvives'
    <2>1. CASE operation = "NONE"
        <3>1. UNCHANGED <<chip, committed>>
            BY <2>1 DEF Effect
        <3>2. QED
            BY <3>1, ChipSurvives
    <2>2. CASE operation # "NONE" /\ Spared
        BY <1>4, <2>2, SparedSurvives
    <2>3. CASE operation = "FINAL" /\ Commits
        <3>1. header' \in Headers
            BY <1>2, EffectTypes
        <3>2. QED
            BY <2>3, <3>1, Modes, CommitSurvives
    <2>4. QED
        BY <1>3, <2>1, <2>2, <2>3
<1>6. QED
    BY <1>3, <1>4, <1>5

(* The operation that comes next, or fails to.                             *)
LEMMA IssueArchive ==
    ASSUME Sound, DataInv, ArchiveInv, Issuing,
           UNCHANGED <<clear_second_pending, erase_active, erase_bank>>,
           NEW op, op \in {"RECORD", "FINAL"} => recording, op = "ERASE" => erase_active,
           op \in {"RECORD", "FINAL", "ERASE"},
           NEW length, op = "RECORD" => length \in Nat /\ Due(length),
           \/ operation' = op /\ UNCHANGED <<state, chip, committed>>
           \/ StartFails(op, length)
    PROVE  ArchiveInv'
<1> USE SoundParts
<1>1. operation = "NONE" /\ state # "ERROR"
    BY Modes DEF Issuing, Polling
<1>2. CASE operation' = op /\ UNCHANGED <<state, chip, committed>>
    BY <1>1, <1>2, QuietKeeps DEF Issuing, bankVars
<1>3. CASE StartFails(op, length)
    <2>1. state' = "ERROR"
        BY <1>3 DEF StartFails, fail
    <2>2. PICK outcome \in Outcome : Effect(op, length, outcome)
        BY <1>3 DEF StartFails
    <2>3. /\ op \in {"HEADER", "RECORD", "FINAL"} => write_bank # retained_bank
          /\ op = "ERASE" => erase_bank # retained_bank
        BY Modes
    <2>4. Spared \/ (op = "FINAL" /\ Commits)
        BY <2>2, <2>3, EffectSpares
    <2>5. NewestFlightSurvives'
        <3>1. CASE Spared
            BY <1>1, <3>1, SparedSurvives
        <3>2. CASE op = "FINAL" /\ Commits
            <4>1. header' \in Headers /\ state = "RECORDING"
                BY <1>1, <2>2, <3>2, EffectTypes, Modes
            <4>2. QED
                BY <1>1, <3>2, <4>1, CommitSurvives
        <3>3. QED
            BY <2>4, <3>1, <3>2
    <2>6. QED
        BY <2>1, <2>5, ArchiveParts
<1>4. QED
    BY <1>2, <1>3

(* The last erase of a bank ends.                                          *)
LEMMA ErasedArchive ==
    ASSUME Sound, ArchiveInv, state # "ERROR", Spared, BankErased,
           UNCHANGED clear_second_pending, header'[erase_bank].kind # "valid"
    PROVE  /\ NewestFlightSurvives' /\ (committed' # 0 => retained_bank' = BootBank')
           /\ \A b \in Bank : header'[b].kind = "valid" => header'[b].id < next_flight_id
           /\ erase_active' = FALSE
<1>1. ~clear_second_pending /\ erase_active' = FALSE /\ retained_bank' = retained_bank
    BY Modes DEF BankErased
<1>2. \A b \in Bank : header'[b].kind = "valid" => header'[b].id < next_flight_id
    BY <1>1 DEF ArchiveInv, IdsInv, Spared
<1>3. QED
    BY <1>1, <1>2, SparedSurvives

LEMMA UpdateArchive == Sound /\ DataInv /\ ArchiveInv /\ Update => ArchiveInv'
<1> SUFFICES ASSUME Sound, DataInv, ArchiveInv, Update PROVE ArchiveInv'
    OBVIOUS
<1> USE SoundParts DEF eraseVars, stopVars, bankVars
<1>0. /\ "everything" \in Outcome
      /\ write_bank \in Bank /\ 1 - write_bank \in Bank /\ 1 - write_bank # write_bank
      /\ erase_bank \in Bank
    BY BankPair DEF Outcome, BankTypeOK
<1>1. CASE OperationTimeout
    BY <1>1, OperationArchive, ArchiveParts DEF OperationTimeout, fail
<1>2. ASSUME NEW op, op # "FINAL", op # "NONE", Done(op)
      PROVE  Spared /\ state # "ERROR" /\ operation = op
    <2>1. operation = op /\ Effect(operation, program_length, "everything")
        BY <1>2 DEF Done
    <2>2. QED
        BY <1>0, <1>2, <2>1, OperationArchive
<1>3. CASE HeaderDone
    BY <1>2, <1>3, SparedKeeps DEF HeaderDone
<1>4. CASE RecordDone
    BY <1>2, <1>4, SparedKeeps DEF RecordDone
<1>5. CASE FinalDone
    <2>1. /\ operation = "FINAL" /\ Effect("FINAL", program_length, "everything")
          /\ retained_bank' = write_bank /\ next_flight_id' = next_flight_id
          /\ state' \in {"INITIALIZING", "READY"}
        BY <1>5 DEF FinalDone, Done, prepare_bank
    <2>2. /\ state = "RECORDING" /\ write_bank # retained_bank
        BY <2>1, Modes
    <2>3. header[write_bank].kind = "open"
        BY <2>1, <2>2 DEF DataInv, OpenInv
    <2>4. Commits /\ header' \in Headers
        BY <1>0, <2>1, <2>2, <2>3, EffectSpares, EffectTypes
    <2>5. NewestFlightSurvives' /\ BootBank' = write_bank
          /\ header'[write_bank].id < next_flight_id
        BY <2>1, <2>2, <2>4, CommitSurvives
    <2>6. header'[1 - write_bank] = header[1 - write_bank]
        BY <2>4 DEF Commits
    <2>7. ASSUME NEW b \in Bank, header'[b].kind = "valid", ~(erase_active' /\ erase_bank' = b)
          PROVE  header'[b].id < next_flight_id'
        <3>1. CASE b = write_bank
            BY <2>1, <2>5, <3>1
        <3>2. CASE b = 1 - write_bank
            <4>1. ~prepare_bank(1 - write_bank)
                BY <2>7, <3>2 DEF prepare_bank
            <4>2. header[1 - write_bank].kind = "blank"
                BY <1>5, <4>1 DEF FinalDone, header_erased
            <4>3. QED
                BY <2>6, <2>7, <3>2, <4>2
        <3>3. QED
            BY <1>0, <3>1, <3>2, BankPair
    <2>8. QED
        BY <2>1, <2>5, <2>7, ArchiveParts
<1>6. CASE BlockDone
    BY <1>2, <1>6, SparedKeeps DEF BlockDone
<1>7. CASE FirstBankCleared
    <2>1. /\ Done("ERASE") /\ erase_block = 0 /\ erase_bank = 0
          /\ erase_active' = TRUE /\ erase_bank' = 1 /\ state' = "INITIALIZING"
          /\ retained_bank' = retained_bank
        BY <1>7 DEF FirstBankCleared, prepare_bank
    <2>2. Spared /\ state # "ERROR" /\ erase_active
        BY <1>2, <2>1, Modes
    <2>3. header'[0].kind = "blank"
        BY <2>1, <2>2, EraseAdvances DEF Done, Effect
    <2>4. \A b \in Bank : b = 0 \/ b = 1
        BY DEF Bank
    <2>5. NewestFlightSurvives' /\ (committed' # 0 => retained_bank' = BootBank')
        BY <2>1, <2>2, SparedSurvives
    <2>6. QED
        BY <2>1, <2>3, <2>4, <2>5, ArchiveParts
<1>8. CASE BankReady
    <2>1. /\ operation = "ERASE" /\ erase_block = 0 /\ BankErased
          /\ Effect("ERASE", 0, "everything") /\ state' = "READY"
          /\ UNCHANGED <<clear_second_pending, next_flight_id>>
        BY <1>8 DEF BankReady, BankErased
    <2>2. erase_active /\ erase_bank # retained_bank /\ state # "ERROR"
        BY <2>1, Modes DEF BankErased, Polling
    <2>3. Spared
        BY <1>0, <2>1, <2>2, EffectSpares
    <2>4. header'[erase_bank].kind = "blank"
        BY <2>1, <2>2, EraseAdvances DEF Effect
    <2>5. QED
        BY <2>1, <2>2, <2>3, <2>4, ErasedArchive, ArchiveParts
<1>9. CASE BankReadyForFlight
    <2>1. /\ operation = "ERASE" /\ BankErased /\ next_flight_id' = next_flight_id + 1
          /\ UNCHANGED <<clear_second_pending, committed>>
          /\ state' \in {"RECORDING", "ERROR"}
        BY <1>9 DEF BankReadyForFlight, BankErased, begin_recording, fail
    <2>2. erase_bank # retained_bank /\ state # "ERROR"
        BY <2>1, Modes DEF BankErased, Polling
    <2>3. /\ header'[1 - erase_bank] = header[1 - erase_bank]
          /\ cells'[1 - erase_bank] = cells[1 - erase_bank]
        BY <1>0, <1>9, BankPair DEF BankReadyForFlight, Cells, Headers
    <2>4. header'[erase_bank].kind # "valid"
        BY <1>0, <1>9, HeaderValues DEF BankReadyForFlight, Headers
    <2>5. Spared
        <3>1. \A b \in Bank : b = erase_bank \/ b = 1 - erase_bank
            BY <1>0, BankPair
        <3>2. retained_bank \in Bank => retained_bank = 1 - erase_bank
            BY <2>2, <3>1
        <3>3. QED
            BY <2>1, <2>3, <2>4, <3>1, <3>2 DEF Spared
    <2>6. /\ NewestFlightSurvives' /\ (committed' # 0 => retained_bank' = BootBank')
          /\ \A b \in Bank : header'[b].kind = "valid" => header'[b].id < next_flight_id
        BY <2>1, <2>2, <2>4, <2>5, ErasedArchive
    <2>7. ASSUME NEW b \in Bank, header'[b].kind = "valid"
          PROVE  header'[b].id < next_flight_id' /\ header'[b].id < next_flight_id' - 1
        <3>1. header'[b] = header[b] /\ header[b].id \in Int /\ next_flight_id \in Int
            BY <2>5, <2>7, Geometry DEF Spared, Headers
        <3>2. header'[b].id < next_flight_id
            BY <2>6, <2>7
        <3>3. QED
            BY <2>1, <3>1, <3>2
    <2>8. QED
        BY <2>6, <2>7, ArchiveParts
<1>10. CASE IssueErase
    BY <1>10, IssueArchive DEF IssueErase, Issue
<1>11. CASE IssueRecord
    <2> DEFINE length == IF queued_bytes < page_remaining THEN queued_bytes ELSE page_remaining
    <2>1. length \in Nat /\ Due(length)
        BY DueWhenIssued
    <2>2. /\ Issuing /\ queue_count > 0
          /\ UNCHANGED <<clear_second_pending, erase_active, erase_bank>>
          /\ \/ operation' = "RECORD" /\ UNCHANGED <<state, chip, committed>>
             \/ StartFails("RECORD", length)
        BY <1>11 DEF IssueRecord, Issue, page_due
    <2> HIDE DEF length
    <2>3. recording
        BY <2>2, Modes
    <2>4. QED
        BY <2>1, <2>2, <2>3, IssueArchive
<1>12. CASE DiscardFlight
    <2>1. /\ UNCHANGED <<chip, committed, retained_bank, next_flight_id>>
          /\ Issuing /\ finalise_pending /\ state' = "INITIALIZING"
        BY <1>12 DEF DiscardFlight, Issuing, prepare_bank
    <2>2. state = "RECORDING"
        BY <2>1, Modes DEF Issuing, Polling
    <2>3. NewestFlightSurvives' /\ BootBank' = BootBank
        BY <2>1, ChipSurvives
    <2>4. \A b \in Bank : header'[b].kind = "valid" => header'[b].id < next_flight_id'
        <3>1. ASSUME NEW b \in Bank, header[b].kind = "valid"
              PROVE  header[b].id < next_flight_id
            <4>1. header[b].id \in Int /\ next_flight_id \in Int
                BY Geometry DEF Headers
            <4>2. header[b].id < next_flight_id - 1
                BY <2>2, <3>1 DEF ArchiveInv, OpenIsNewest
            <4>3. QED
                BY <4>1, <4>2
        <3>2. QED
            BY <2>1, <3>1 DEF chip
    <2>5. QED
        BY <2>1, <2>2, <2>3, <2>4, ArchiveParts DEF ArchiveInv, RetainsNewest
<1>13. CASE IssueFinal
    <2>1. /\ Issuing /\ finalise_pending
          /\ UNCHANGED <<clear_second_pending, erase_active, erase_bank>>
          /\ \/ operation' = "FINAL" /\ UNCHANGED <<state, chip, committed>>
             \/ StartFails("FINAL", 0)
        BY <1>13 DEF IssueFinal
    <2>2. recording
        BY <2>1, Modes
    <2>3. QED
        BY <2>1, <2>2, IssueArchive
<1>14. CASE IssueNothing
    BY <1>14, QuietKeeps DEF IssueNothing, Issuing
<1>15. QED
    BY <1>1, <1>3, <1>4, <1>5, <1>6, <1>7, <1>8, <1>9, <1>10, <1>11, <1>12, <1>13, <1>14
        DEF Update

LEMMA SpoiltSpared ==
    ASSUME Sound, write_bank # retained_bank, cells' = cells, committed' = committed,
           header' \in {header, [header EXCEPT ![write_bank] = DirtyHeader]}
    PROVE  Spared
<1> USE SoundParts
<1>1. write_bank \in Bank
    BY DEF BankTypeOK
<1>2. \A b \in Bank : b # write_bank => header'[b] = header[b]
    BY <1>1 DEF Headers
<1>3. header'[write_bank].kind = "valid" => header' = header
    BY <1>1, HeaderValues DEF Headers
<1>4. QED
    BY <1>1, <1>2, <1>3 DEF Spared

LEMMA BeginArchive ==
    ASSUME Sound, ArchiveInv, state = "READY", write_bank # retained_bank,
           next_flight_id' = next_flight_id + 1, UNCHANGED retained_bank, BeginOk \/ BeginFails
    PROVE  ArchiveInv'
<1> USE SoundParts
<1>1. ~erase_active /\ ~clear_second_pending
    BY Modes
<1>2. Spared
    BY SpoiltSpared DEF BeginOk, BeginFails, chip, Spared
<1>3. NewestFlightSurvives' /\ (committed' # 0 => retained_bank' = BootBank')
    BY <1>2, SparedSurvives
<1>4. ASSUME NEW b \in Bank, header'[b].kind = "valid"
      PROVE  header'[b].id < next_flight_id' /\ header'[b].id < next_flight_id' - 1
    <2>1. header'[b] = header[b] /\ header[b].id \in Int /\ next_flight_id \in Int
        BY <1>2, <1>4, Geometry DEF Spared, Headers
    <2>2. header[b].id < next_flight_id
        BY <1>1, <1>4, <2>1 DEF ArchiveInv, IdsInv
    <2>3. QED
        BY <2>1, <2>2
<1>5. QED
    BY <1>3, <1>4, ArchiveParts

LEMMA CallsArchive == Sound /\ ArchiveInv /\ (Flight \/ Host) => ArchiveInv'
<1> SUFFICES ASSUME Sound, ArchiveInv, Flight \/ Host PROVE ArchiveInv'
    OBVIOUS
<1> USE SoundParts DEF eraseVars, stopVars, bankVars
<1>1. CASE StartAccepted
    BY <1>1, BeginArchive DEF StartAccepted, start_accepted, begin_recording
<1>2. CASE StartRejected
    BY <1>2, QuietKeeps DEF StartRejected
<1>3. CASE Append
    BY <1>3, QuietKeeps DEF Append
<1>4. CASE Stop
    BY <1>4, QuietKeeps DEF Stop
<1>5. CASE Clear
    <2>1. committed' = 0 /\ clear_second_pending' = TRUE /\ state' = "INITIALIZING"
        BY <1>5 DEF Clear, prepare_bank
    <2>2. NewestFlightSurvives'
        BY <2>1 DEF NewestFlightSurvives
    <2>3. QED
        BY <2>1, <2>2, ArchiveParts
<1>6. CASE WriteTest
    <2>1. /\ write_bank # retained_bank /\ state = "READY" /\ state' = "INITIALIZING"
          /\ UNCHANGED <<retained_bank, next_flight_id, clear_second_pending>>
          /\ cells' = cells /\ committed' = committed
          /\ header' \in {header, [header EXCEPT ![write_bank] = DirtyHeader]}
        BY <1>6 DEF WriteTest, TestAllowed, prepare_bank
    <2>2. Spared /\ ~erase_active
        BY <2>1, SpoiltSpared, Modes
    <2>3. NewestFlightSurvives' /\ (committed' # 0 => retained_bank' = BootBank')
        BY <2>1, <2>2, SparedSurvives
    <2>4. ~clear_second_pending' =>
            \A b \in Bank : header'[b].kind = "valid" => header'[b].id < next_flight_id'
        BY <2>1, <2>2 DEF ArchiveInv, IdsInv, Spared
    <2>5. QED
        BY <2>1, <2>3, <2>4, ArchiveParts
<1>7. CASE SessionTest
    BY <1>7, BeginArchive DEF SessionTest, TestAllowed
<1>8. CASE Passthrough
    BY <1>8, SessionKeeps, QuietKeeps
<1>9. QED
    BY <1>1, <1>2, <1>3, <1>4, <1>5, <1>6, <1>7, <1>8 DEF Flight, Host

LEMMA PowerArchive ==
    Sound /\ DataInv /\ ArchiveInv /\ (PowerLoss \/ PowerUp \/ PowerUpFails) => ArchiveInv'
<1> SUFFICES ASSUME Sound, DataInv, ArchiveInv, PowerLoss \/ PowerUp \/ PowerUpFails
             PROVE  ArchiveInv'
    OBVIOUS
<1> USE SoundParts
<1>1. CASE PowerLoss
    BY <1>1, OperationArchive, ArchiveParts DEF PowerLoss
<1>2. CASE PowerUp
    <2>1. UNCHANGED <<chip, committed>> /\ retained_bank' = BootBank
          /\ state' \in {"READY", "INITIALIZING"}
          /\ next_flight_id' = IF BootBank = NO_BANK THEN 1 ELSE header[BootBank].id + 1
        BY <1>2 DEF PowerUp, Booting, prepare_bank
    <2>2. NewestFlightSurvives' /\ BootBank' = BootBank /\ header' = header
        BY <2>1, ChipSurvives DEF chip
    <2>3. ASSUME NEW b \in Bank, header'[b].kind = "valid"
          PROVE  header'[b].id < next_flight_id'
        <3>1. BootBank \in Bank /\ header[b].id <= header[BootBank].id
              /\ BootBank # NO_BANK
            BY <2>2, <2>3, BootBankIs
        <3>2. header[b].id \in Int /\ header[BootBank].id \in Int
            BY <3>1, Geometry DEF Headers
        <3>3. QED
            BY <2>1, <2>2, <3>1, <3>2
    <2>4. QED
        BY <2>1, <2>2, <2>3, ArchiveParts
<1>3. CASE PowerUpFails
    BY <1>3, ChipSurvives, ArchiveParts DEF PowerUpFails, Booting
<1>4. QED
    BY <1>1, <1>2, <1>3

LEMMA InitArchive == Init => ArchiveInv
BY DEF Init, ArchiveInv, IdsInv, OpenIsNewest, RetainsNewest, NewestFlightSurvives

LEMMA FlashArchive == ~BLANK_ERASE_CAN_TEAR => (Spec => []ArchiveInv)
<1> SUFFICES ASSUME ~BLANK_ERASE_CAN_TEAR PROVE Spec => []ArchiveInv
    OBVIOUS
<1>1. Init => ArchiveInv
    BY InitArchive
<1>2. Sound /\ DataInv /\ ArchiveInv /\ [Next]_vars => ArchiveInv'
    <2> SUFFICES ASSUME Sound, DataInv, ArchiveInv, [Next]_vars PROVE ArchiveInv'
        OBVIOUS
    <2>1. CASE UNCHANGED vars
        BY <2>1, QuietKeeps DEF vars, chip, bankVars, eraseVars
    <2>2. QED
        BY <2>1, UpdateArchive, CallsArchive, PowerArchive DEF Next
<1>3. QED
    BY <1>1, <1>2, FlashSound, FlashData, PTL DEF Spec

(* The newest committed flight survives every power loss, bus error,       *)
(* discarded flight and test, complete, and is the one that the next       *)
(* power-up retains, until the host clears the log: for every number of    *)
(* flights and every geometry, where an interrupted erase leaves blank     *)
(* cells blank.                                                            *)
THEOREM ArchiveSafety == ~BLANK_ERASE_CAN_TEAR => (Spec => []NewestFlightSurvives)
<1>1. ArchiveInv => NewestFlightSurvives
    BY DEF ArchiveInv
<1>2. QED
    BY <1>1, FlashArchive, PTL

-----------------------------------------------------------------------------
(* The recorder implements FlightArchive.                                  *)

(* What is committed has a number and records.                             *)
KeptInv ==
    /\ state = "RECORDING" => next_flight_id > 1
    /\ finalise_pending /\ retain_pending => record_count + queue_count > 0
    /\ operation = "FINAL" => record_count > 0

LEMMA UpdateCounts == Sound /\ KeptInv /\ Update => KeptInv'
<1> SUFFICES ASSUME Sound, KeptInv, Update PROVE KeptInv'
    OBVIOUS
<1> USE SoundParts DEF KeptInv, eraseVars, stopVars, bankVars
<1>0. /\ queue_count \in Nat /\ record_count \in Nat /\ next_flight_id \in Nat
      /\ state = "READY" => ~finalise_pending
      /\ operation = "FINAL" => ~finalise_pending
      /\ erase_active => ~finalise_pending
    BY QueueFacts, Modes, Geometry DEF Sound, ControlInv, StopInv
<1>1. CASE OperationTimeout
    BY <1>0, <1>1 DEF OperationTimeout, fail, queueVars
<1>2. CASE HeaderDone
    BY <1>0, <1>2 DEF HeaderDone, queueVars
<1>3. CASE RecordDone
    <2>1. record_count' + queue_count' = record_count + queue_count
        <3> DEFINE n == (record_program_offset + program_length) \div RECORD_SLOTS
        <3>1. n \in Int
            BY QueueFacts, Geometry
        <3>2. queue_count' = queue_count - n /\ record_count' = record_count + n
            BY <1>3 DEF RecordDone
        <3> HIDE DEF n
        <3>3. QED
            BY <1>0, <3>1, <3>2
    <2>2. QED
        BY <1>0, <1>3, <2>1 DEF RecordDone
<1>4. CASE FinalDone
    BY <1>0, <1>4 DEF FinalDone, Done, prepare_bank, queueVars
<1>5. CASE BlockDone
    BY <1>0, <1>5 DEF BlockDone, queueVars
<1>6. CASE FirstBankCleared
    BY <1>0, <1>6 DEF FirstBankCleared, prepare_bank, queueVars
<1>7. CASE BankReady
    BY <1>0, <1>7 DEF BankReady, BankErased, queueVars
<1>8. CASE BankReadyForFlight
    BY <1>0, <1>8 DEF BankReadyForFlight, begin_recording, fail
<1>9. CASE IssueErase
    BY <1>0, <1>9 DEF IssueErase, Issuing, Issue, StartFails, fail
<1>10. CASE IssueRecord
    BY <1>0, <1>10 DEF IssueRecord, Issuing, Issue, StartFails, fail
<1>11. CASE DiscardFlight
    BY <1>0, <1>11, Modes DEF DiscardFlight, Issuing, prepare_bank, Polling
<1>12. CASE IssueFinal
    <2>1. /\ UNCHANGED <<next_flight_id, record_count, queue_count, retain_pending>>
          /\ queue_count = 0 /\ finalise_pending /\ retain_pending
          /\ \/ operation' = "FINAL" /\ finalise_pending' = FALSE /\ UNCHANGED state
             \/ operation' = "NONE" /\ state' = "ERROR" /\ UNCHANGED finalise_pending
        BY <1>12 DEF IssueFinal, Issuing, StartFails, fail
    <2>2. record_count > 0
        BY <1>0, <2>1
    <2>3. QED
        BY <1>0, <2>1, <2>2
<1>13. CASE IssueNothing
    BY <1>0, <1>13 DEF IssueNothing, Issuing
<1>14. QED
    BY <1>1, <1>2, <1>3, <1>4, <1>5, <1>6, <1>7, <1>8, <1>9, <1>10, <1>11, <1>12, <1>13
        DEF Update

LEMMA NextCounts == Sound /\ KeptInv /\ [Next]_vars => KeptInv'
<1> SUFFICES ASSUME Sound, KeptInv, [Next]_vars PROVE KeptInv'
    OBVIOUS
<1> USE SoundParts DEF KeptInv, eraseVars, stopVars, bankVars
<1>0. /\ queue_count \in Nat /\ record_count \in Nat /\ next_flight_id \in Nat
      /\ next_flight_id > 0
      /\ finalise_pending => recording
    BY QueueFacts, Geometry DEF Sound, ControlInv, StopInv
<1>1. CASE StartAccepted
    BY <1>0, <1>1 DEF StartAccepted, begin_recording, BeginOk, BeginFails, fail
<1>2. CASE StartRejected
    BY <1>2 DEF StartRejected, queueVars
<1>3. CASE Append
    BY <1>0, <1>3 DEF Append
<1>4. CASE Stop
    BY <1>0, <1>4 DEF Stop, queueVars
<1>5. CASE Clear
    BY <1>0, <1>5 DEF Clear, prepare_bank, is_busy
<1>6. CASE WriteTest
    BY <1>6 DEF WriteTest, prepare_bank, queueVars
<1>7. CASE SessionTest
    BY <1>0, <1>7 DEF SessionTest, TestAllowed, BeginOk, BeginFails, fail
<1>8. CASE Passthrough
    BY <1>8, SessionKeeps DEF queueVars
<1>9. CASE PowerLoss \/ PowerUp \/ PowerUpFails
    BY <1>9 DEF PowerLoss, PowerUp, PowerUpFails, Booting, Forget, prepare_bank
<1>10. CASE UNCHANGED vars
    BY <1>10 DEF vars, queueVars
<1>11. QED
    BY <1>1, <1>2, <1>3, <1>4, <1>5, <1>6, <1>7, <1>8, <1>9, <1>10, UpdateCounts
        DEF Next, Flight, Host

LEMMA FlashCounts == Spec => []KeptInv
<1>1. Init => KeptInv
    BY DEF Init, KeptInv
<1>2. QED
    BY <1>1, NextCounts, FlashSound, PTL DEF Spec

(* The retained flight, when nothing touches it.                           *)
LEMMA SparedIsKept ==
    ASSUME Sound, ArchiveInv, state # "ERROR", Spared
    PROVE  kept_flight' = kept_flight
<1>1. CASE committed' = 0
    BY <1>1 DEF Spared, kept_flight
<1>2. CASE committed' # 0
    <2>1. /\ committed # 0 /\ retained_bank = BootBank /\ BootBank # NO_BANK
          /\ Complete(BootBank)
        BY <1>2 DEF Spared, ArchiveInv, RetainsNewest, NewestFlightSurvives
    <2>2. BootBank \in Bank
        BY <2>1, SoundParts, BootBankIs
    <2>3. header'[BootBank] = header[BootBank] /\ BootBank' = BootBank
        BY <1>2, <2>1, <2>2, SparedSurvives DEF Spared
    <2>4. Complete(BootBank)'
        BY <1>2, SparedSurvives DEF NewestFlightSurvives
    <2>5. QED
        BY <1>2, <2>1, <2>3, <2>4 DEF kept_flight
<1>3. QED
    BY <1>1, <1>2

LEMMA ChipIsKept ==
    ASSUME UNCHANGED <<chip, committed>>
    PROVE  kept_flight' = kept_flight
BY DEF kept_flight, BootBank, header_valid, Complete, chip

(* A commit: a later number, as many records as were taken.                *)
LEMMA CommitIsKept ==
    ASSUME Sound, DataInv, ArchiveInv, KeptInv, state = "RECORDING", operation # "HEADER",
           queue_count = 0, record_count > 0, Commits, header' \in Headers
    PROVE  /\ recording /\ records_taken > 0
           /\ \E id \in 1 .. MAX_FLIGHTS :
                 id > kept_flight.id /\ kept_flight' = Archive!Kept(id, records_taken, TRUE)
<1> USE SoundParts
<1> DEFINE id == next_flight_id - 1
<1>1. recording /\ records_taken = record_count
    BY Modes, QueueFacts DEF records_taken
<1>2. id \in 1 .. MAX_FLIGHTS
    BY Geometry DEF KeptInv
<1>3. NewestFlightSurvives' /\ BootBank' = write_bank /\ write_bank \in Bank
    BY CommitSurvives DEF BankTypeOK
<1>4. /\ header'[write_bank].id = id /\ header'[write_bank].count = record_count
      /\ committed' = id
    BY DEF Commits, DataInv, OpenInv
<1>5. kept_flight' = [id |-> id, count |-> record_count, whole |-> TRUE]
    <2>1. committed' # 0
        BY <1>2, <1>4
    <2>2. Complete(BootBank)'
        BY <1>3, <2>1 DEF NewestFlightSurvives
    <2>3. QED
        BY <1>3, <1>4, <2>1, <2>2 DEF kept_flight
<1>6. id > kept_flight.id
    <2>1. CASE committed = 0
        BY <1>2, <2>1 DEF kept_flight
    <2>2. CASE committed # 0
        <3>1. kept_flight.id = header[BootBank].id /\ BootBank # NO_BANK
            BY <2>2 DEF kept_flight, ArchiveInv, NewestFlightSurvives
        <3>2. BootBank \in Bank /\ header[BootBank].kind = "valid"
            BY <3>1, BootBankIs
        <3>3. header[BootBank].id < id /\ header[BootBank].id \in Int
            BY <3>2, Geometry DEF ArchiveInv, OpenIsNewest, Headers
        <3>4. QED
            BY <1>2, <3>1, <3>3
    <2>3. QED
        BY <2>1, <2>2
<1> HIDE DEF id
<1>7. QED
    BY <1>1, <1>2, <1>5, <1>6 DEF Archive!Kept

Quiet == UNCHANGED <<kept_flight, recording, records_taken>>

CommitStep ==
    /\ recording /\ records_taken > 0
    /\ \E id \in 1 .. MAX_FLIGHTS :
          id > kept_flight.id /\ kept_flight' = Archive!Kept(id, records_taken, TRUE)
    /\ \/ recording' = FALSE /\ records_taken' = 0
       \/ UNCHANGED <<recording, records_taken>>

ArchiveStep == Archive!Next \/ Quiet

(* However the operation under way ends.                                   *)
LEMMA OperationKept ==
    ASSUME Sound, DataInv, ArchiveInv, KeptInv,
           NEW outcome \in Outcome, Effect(operation, program_length, outcome),
           \/ recording' = FALSE /\ records_taken' = 0
           \/ UNCHANGED <<recording, records_taken>>
    PROVE  /\ kept_flight' = kept_flight \/ CommitStep
           /\ operation # "FINAL" => kept_flight' = kept_flight
<1> USE SoundParts
<1>1. CASE operation = "NONE"
    BY <1>1, ChipIsKept DEF Effect
<1>2. CASE operation # "NONE" /\ Spared
    BY <1>2, OperationArchive, SparedIsKept
<1>3. CASE operation = "FINAL" /\ Commits
    <2>1. state = "RECORDING" /\ queue_count = 0 /\ record_count > 0
        BY <1>3, Modes DEF Sound, ControlInv, StopInv, KeptInv
    <2>2. header' \in Headers
        BY <1>3, EffectTypes
    <2>3. QED
        BY <1>3, <2>1, <2>2, CommitIsKept DEF CommitStep
<1>4. QED
    BY <1>1, <1>2, <1>3, OperationArchive

(* However the next operation fails to start.                              *)
LEMMA IssueKept ==
    ASSUME Sound, DataInv, ArchiveInv, KeptInv, Issuing, UNCHANGED recording,
           NEW op, op \in {"RECORD", "FINAL"} => recording, op = "ERASE" => erase_active,
           op \in {"RECORD", "FINAL", "ERASE"},
           op = "FINAL" => queue_count = 0 /\ record_count > 0,
           NEW length, op = "RECORD" => length \in Nat /\ Due(length),
           \/ operation' = op /\ UNCHANGED <<state, chip, committed>>
           \/ StartFails(op, length)
    PROVE  Quiet \/ CommitStep
<1> USE SoundParts
<1>1. operation = "NONE" /\ state # "ERROR"
    BY Modes DEF Issuing, Polling
<1>2. records_taken' = records_taken
    BY DEF Issuing, records_taken
<1>3. CASE UNCHANGED <<state, chip, committed>>
    BY <1>2, <1>3, ChipIsKept DEF Quiet
<1>4. CASE StartFails(op, length)
    <2>1. PICK outcome \in Outcome : Effect(op, length, outcome)
        BY <1>4 DEF StartFails
    <2>2. /\ op \in {"HEADER", "RECORD", "FINAL"} => write_bank # retained_bank
          /\ op = "ERASE" => erase_bank # retained_bank
        BY Modes
    <2>3. Spared \/ (op = "FINAL" /\ Commits)
        BY <2>1, <2>2, EffectSpares
    <2>4. CASE Spared
        BY <1>1, <1>2, <2>4, SparedIsKept DEF Quiet
    <2>5. CASE op = "FINAL" /\ Commits
        <3>1. header' \in Headers /\ state = "RECORDING"
            BY <1>1, <2>1, <2>5, EffectTypes, Modes
        <3>2. QED
            BY <1>1, <1>2, <2>5, <3>1, CommitIsKept DEF CommitStep
    <2>6. QED
        BY <2>3, <2>4, <2>5
<1>5. QED
    BY <1>3, <1>4

LEMMA UpdateSteps ==
    Sound /\ DataInv /\ ArchiveInv /\ KeptInv /\ Update => ArchiveStep
<1> SUFFICES ASSUME Sound, DataInv, ArchiveInv, KeptInv, Update PROVE ArchiveStep
    OBVIOUS
<1> USE SoundParts DEF eraseVars, stopVars, bankVars
<1>a. CommitStep => ArchiveStep
    BY DEF CommitStep, ArchiveStep, Archive!Next, Archive!Commit
<1>0. /\ "everything" \in Outcome /\ queue_count \in Nat /\ record_count \in Nat
      /\ erase_active => ~recording
    BY Modes, QueueFacts DEF Outcome
<1>1. CASE OperationTimeout
    <2>1. records_taken' = records_taken /\ recording' = recording
        BY <1>1 DEF OperationTimeout, records_taken, queueVars
    <2>2. kept_flight' = kept_flight \/ CommitStep
        BY <1>1, <2>1, OperationKept DEF OperationTimeout
    <2>3. QED
        BY <1>a, <2>1, <2>2 DEF ArchiveStep, Quiet
<1>2. ASSUME NEW op, Done(op), op # "FINAL", UNCHANGED <<recording, records_taken>>
      PROVE  ArchiveStep
    <2>1. operation = op /\ Effect(operation, program_length, "everything")
        BY <1>2 DEF Done
    <2>2. kept_flight' = kept_flight
        BY <1>0, <1>2, <2>1, OperationKept
    <2>3. QED
        BY <1>2, <2>2 DEF ArchiveStep, Quiet
<1>3. CASE HeaderDone
    BY <1>2, <1>3 DEF HeaderDone, records_taken, queueVars
<1>4. CASE RecordDone
    <2>1. record_count' + queue_count' = record_count + queue_count
        <3> DEFINE n == (record_program_offset + program_length) \div RECORD_SLOTS
        <3>1. n \in Int
            BY QueueFacts, Geometry
        <3>2. queue_count' = queue_count - n /\ record_count' = record_count + n
            BY <1>4 DEF RecordDone
        <3> HIDE DEF n
        <3>3. QED
            BY <1>0, <3>1, <3>2
    <2>2. Done("RECORD") /\ recording' = recording
        BY <1>4 DEF RecordDone
    <2>3. records_taken' = records_taken
        BY <2>1, <2>2 DEF records_taken
    <2>4. QED
        BY <1>2, <2>2, <2>3
<1>5. CASE FinalDone
    <2>1. /\ operation = "FINAL" /\ Effect("FINAL", program_length, "everything")
          /\ recording' = FALSE
        BY <1>5 DEF FinalDone, Done
    <2>2. records_taken' = 0
        BY <2>1 DEF records_taken
    <2>3. /\ state = "RECORDING" /\ write_bank # retained_bank /\ header[write_bank].kind = "open"
          /\ queue_count = 0 /\ record_count > 0
        BY <2>1, Modes DEF DataInv, OpenInv, Sound, ControlInv, StopInv, KeptInv
    <2>4. Commits /\ header' \in Headers
        BY <1>0, <2>1, <2>3, EffectSpares, EffectTypes
    <2>5. CommitStep
        BY <2>1, <2>2, <2>3, <2>4, CommitIsKept DEF CommitStep
    <2>6. QED
        BY <1>a, <2>5
<1>6. CASE BlockDone
    BY <1>2, <1>6 DEF BlockDone, records_taken, queueVars
<1>7. CASE FirstBankCleared
    BY <1>2, <1>7 DEF FirstBankCleared, records_taken, queueVars
<1>8. CASE BankReady
    <2>1. operation = "ERASE" /\ Effect("ERASE", 0, "everything")
        BY <1>8 DEF BankReady, BankErased
    <2>2. erase_active /\ erase_bank # retained_bank /\ state # "ERROR"
        BY <1>8, <2>1, Modes DEF BankReady, BankErased, Polling
    <2>3. Spared
        BY <1>0, <2>1, <2>2, EffectSpares
    <2>4. QED
        BY <1>8, <2>2, <2>3, SparedIsKept
           DEF BankReady, ArchiveStep, Quiet, records_taken, queueVars
<1>9. CASE BankReadyForFlight
    <2>1. /\ operation = "ERASE" /\ BankErased /\ committed' = committed
          /\ record_count' = 0 /\ queue_count' = 0
          /\ recording' = TRUE \/ UNCHANGED recording
        BY <1>9 DEF BankReadyForFlight, BankErased, begin_recording, empty_queue
    <2>2. erase_bank # retained_bank /\ state # "ERROR" /\ ~recording
        BY <2>1, Modes DEF BankErased, Polling
    <2>3. /\ header'[1 - erase_bank] = header[1 - erase_bank]
          /\ cells'[1 - erase_bank] = cells[1 - erase_bank]
        BY <1>0, <1>9, BankPair DEF BankReadyForFlight, Cells, Headers, BankTypeOK
    <2>4. header'[erase_bank].kind # "valid"
        BY <1>0, <1>9, HeaderValues DEF BankReadyForFlight, Headers, BankTypeOK
    <2>5. Spared
        <3>1. \A b \in Bank : b = erase_bank \/ b = 1 - erase_bank
            BY BankPair DEF BankTypeOK
        <3>2. retained_bank \in Bank => retained_bank = 1 - erase_bank
            BY <2>2, <3>1
        <3>3. QED
            BY <2>1, <2>3, <2>4, <3>1, <3>2 DEF Spared
    <2>6. kept_flight' = kept_flight
        BY <2>2, <2>5, SparedIsKept
    <2>7. records_taken = 0 /\ records_taken' = 0
        BY <2>1, <2>2 DEF records_taken
    <2>8. QED
        BY <2>1, <2>2, <2>6, <2>7 DEF ArchiveStep, Quiet, Archive!Next, Archive!Begin
<1>10. CASE IssueErase
    BY <1>a, <1>10, IssueKept DEF IssueErase, Issue, ArchiveStep
<1>11. CASE IssueRecord
    <2> DEFINE length == IF queued_bytes < page_remaining THEN queued_bytes ELSE page_remaining
    <2>1. length \in Nat /\ Due(length)
        BY DueWhenIssued
    <2>2. /\ Issuing /\ queue_count > 0 /\ UNCHANGED recording
          /\ \/ operation' = "RECORD" /\ UNCHANGED <<state, chip, committed>>
             \/ StartFails("RECORD", length)
        BY <1>11 DEF IssueRecord, Issue, page_due
    <2> HIDE DEF length
    <2>3. recording
        BY <2>2, Modes
    <2>4. QED
        BY <1>a, <2>1, <2>2, <2>3, IssueKept DEF ArchiveStep
<1>12. CASE DiscardFlight
    <2>1. /\ UNCHANGED <<chip, committed>> /\ finalise_pending /\ recording' = FALSE
        BY <1>12 DEF DiscardFlight
    <2>2. recording /\ records_taken' = 0 /\ kept_flight' = kept_flight
        BY <2>1, Modes, ChipIsKept DEF records_taken
    <2>3. QED
        BY <2>1, <2>2 DEF ArchiveStep, Archive!Next, Archive!Discard
<1>13. CASE IssueFinal
    <2>1. /\ Issuing /\ finalise_pending /\ retain_pending /\ queue_count = 0
          /\ UNCHANGED recording
          /\ \/ operation' = "FINAL" /\ UNCHANGED <<state, chip, committed>>
             \/ StartFails("FINAL", 0)
        BY <1>13 DEF IssueFinal
    <2>2. recording /\ record_count > 0
        BY <1>0, <2>1, Modes DEF KeptInv
    <2>3. QED
        BY <1>a, <2>1, <2>2, IssueKept DEF ArchiveStep
<1>14. CASE IssueNothing
    BY <1>14, ChipIsKept DEF IssueNothing, Issuing, ArchiveStep, Quiet, records_taken
<1>15. QED
    BY <1>1, <1>3, <1>4, <1>5, <1>6, <1>7, <1>8, <1>9, <1>10, <1>11, <1>12, <1>13, <1>14
        DEF Update

LEMMA BeginSteps ==
    ASSUME Sound, ArchiveInv, state = "READY", write_bank # retained_bank, record_count' = 0,
           \/ BeginOk /\ queue_count' \in {0, 1}
           \/ BeginFails
    PROVE  ArchiveStep
<1>1. ~recording /\ records_taken = 0
    BY SoundParts, Modes DEF records_taken, ModeTypeOK
<1>2. Spared
    BY SpoiltSpared DEF BeginOk, BeginFails, chip, Spared
<1>3. kept_flight' = kept_flight
    BY <1>2, SparedIsKept
<1>4. CASE BeginOk /\ queue_count' \in {0, 1}
    <2>1. recording' = TRUE
        BY <1>4 DEF BeginOk
    <2>2. records_taken' = 0 + queue_count'
        BY <2>1 DEF records_taken
    <2>3. records_taken' \in {0, 1}
        <3>1. \A n \in {0, 1} : 0 + n \in {0, 1}
            OBVIOUS
        <3>2. QED
            BY <1>4, <2>2, <3>1
    <2>4. QED
        BY <1>1, <1>3, <2>1, <2>3 DEF ArchiveStep, Archive!Next, Archive!Begin
<1>5. CASE BeginFails
    BY <1>1, <1>3, <1>5 DEF BeginFails, ArchiveStep, Quiet, records_taken
<1>6. QED
    BY <1>4, <1>5

LEMMA CallsSteps == Sound /\ ArchiveInv /\ (Flight \/ Host) => ArchiveStep
<1> SUFFICES ASSUME Sound, ArchiveInv, Flight \/ Host PROVE ArchiveStep
    OBVIOUS
<1> USE SoundParts DEF eraseVars, stopVars, bankVars
<1>0. queue_count \in Nat /\ record_count \in Nat
    BY QueueFacts
<1>1. CASE StartAccepted
    BY <1>1, BeginSteps DEF StartAccepted, start_accepted, begin_recording, empty_queue
<1>2. CASE StartRejected
    BY <1>2, ChipIsKept DEF StartRejected, ArchiveStep, Quiet, records_taken, queueVars
<1>3. CASE Append
    <2>1. /\ recording /\ UNCHANGED <<recording, record_count, chip, committed>>
          /\ queue_count' = queue_count + 1
        BY <1>3 DEF Append
    <2>2. records_taken' = records_taken + 1 /\ kept_flight' = kept_flight
        BY <1>0, <2>1, ChipIsKept DEF records_taken
    <2>3. QED
        BY <2>1, <2>2 DEF ArchiveStep, Archive!Next, Archive!Take
<1>4. CASE Stop
    BY <1>4, ChipIsKept DEF Stop, ArchiveStep, Quiet, records_taken, queueVars
<1>5. CASE Clear
    <2>1. ~recording /\ UNCHANGED recording /\ committed' = 0
        BY <1>5 DEF Clear
    <2>2. records_taken' = records_taken /\ kept_flight' = Archive!NOTHING
        BY <2>1 DEF records_taken, kept_flight, Archive!NOTHING, Archive!Kept
    <2>3. QED
        BY <2>1, <2>2 DEF ArchiveStep, Archive!Next, Archive!Clear
<1>6. CASE WriteTest
    <2>1. /\ write_bank # retained_bank /\ state = "READY"
          /\ UNCHANGED <<recording, record_count, queue_count>>
          /\ cells' = cells /\ committed' = committed
          /\ header' \in {header, [header EXCEPT ![write_bank] = DirtyHeader]}
        BY <1>6 DEF WriteTest, TestAllowed, queueVars
    <2>2. Spared
        BY <2>1, SpoiltSpared
    <2>3. kept_flight' = kept_flight
        BY <2>1, <2>2, SparedIsKept
    <2>4. QED
        BY <2>1, <2>3 DEF ArchiveStep, Quiet, records_taken
<1>7. CASE SessionTest
    BY <1>7, BeginSteps DEF SessionTest, TestAllowed
<1>8. CASE Passthrough
    BY <1>8, SessionKeeps, ChipIsKept DEF ArchiveStep, Quiet, records_taken, queueVars
<1>9. QED
    BY <1>1, <1>2, <1>3, <1>4, <1>5, <1>6, <1>7, <1>8 DEF Flight, Host

LEMMA PowerSteps ==
    Sound /\ DataInv /\ ArchiveInv /\ KeptInv /\ (PowerLoss \/ PowerUp \/ PowerUpFails)
        => ArchiveStep
<1> SUFFICES ASSUME Sound, DataInv, ArchiveInv, KeptInv,
                    PowerLoss \/ PowerUp \/ PowerUpFails
             PROVE  ArchiveStep
    OBVIOUS
<1>1. recording' = FALSE /\ records_taken' = 0
    BY DEF PowerLoss, PowerUp, PowerUpFails, Booting, Forget, records_taken
<1>2. kept_flight' = kept_flight \/ CommitStep
    <2>1. CASE PowerLoss
        BY <1>1, <2>1, OperationKept DEF PowerLoss
    <2>2. CASE PowerUp \/ PowerUpFails
        BY <2>2, ChipIsKept DEF PowerUp, PowerUpFails, Booting
    <2>3. QED
        BY <2>1, <2>2
<1>3. CASE CommitStep
    BY <1>3 DEF CommitStep, ArchiveStep, Archive!Next, Archive!Commit
<1>4. CASE kept_flight' = kept_flight /\ recording
    BY <1>1, <1>4 DEF ArchiveStep, Archive!Next, Archive!Discard
<1>5. CASE kept_flight' = kept_flight /\ ~recording
    BY <1>1, <1>5, SoundParts DEF ArchiveStep, Quiet, records_taken, ModeTypeOK
<1>6. QED
    BY <1>2, <1>3, <1>4, <1>5

(* What the recorder retains changes in one step, by the commit of a later *)
(* flight with every record that blackbox_sd_append accepted, or by a      *)
(* clear; every step of the driver, the calls, the chip and the power is   *)
(* one of FlightArchive or changes nothing there.  For every geometry and  *)
(* number of flights, where an interrupted erase leaves blank cells blank. *)
THEOREM ArchiveRefinement == ~BLANK_ERASE_CAN_TEAR => (Spec => ArchiveSpec)
<1> SUFFICES ASSUME ~BLANK_ERASE_CAN_TEAR PROVE Spec => ArchiveSpec
    OBVIOUS
<1>1. Init => Archive!Init
    BY DEF Init, Archive!Init, Archive!NOTHING, Archive!Kept, kept_flight, records_taken
<1>2. Sound /\ DataInv /\ ArchiveInv /\ KeptInv /\ [Next]_vars => [Archive!Next]_Archive!vars
    <2> SUFFICES ASSUME Sound, DataInv, ArchiveInv, KeptInv, [Next]_vars
                 PROVE  [Archive!Next]_Archive!vars
        OBVIOUS
    <2>1. CASE UNCHANGED vars
        <3>1. kept_flight' = kept_flight /\ records_taken' = records_taken
              /\ recording' = recording
            BY <2>1, ChipIsKept DEF vars, queueVars, records_taken
        <3>2. QED
            BY <3>1 DEF Archive!vars
    <2>2. CASE Next
        BY <2>2, UpdateSteps, CallsSteps, PowerSteps DEF Next, ArchiveStep, Quiet, Archive!vars
    <2>3. QED
        BY <2>1, <2>2
<1>3. QED
    BY <1>1, <1>2, FlashSound, FlashData, FlashArchive, FlashCounts, PTL
       DEF Spec, ArchiveSpec, Archive!Spec

=============================================================================
