---------------------------- MODULE FlightLog_proofs ----------------------------
(***************************************************************************)
(* Proofs about FlightLog and SdRecorder: what is kept of a flight is one  *)
(* flight, whole, for every size of card, queue, block, catalog and ring.  *)
(*                                                                         *)
(* Two arguments that share only the flight that goes on.  The recorder on *)
(* the card: a sector is found on the card below next_sector and in the    *)
(* queue from there on, so writing a block moves no sector; each flight of *)
(* the catalog in RAM, and the flight that is recorded, lies whole in the  *)
(* sectors so counted, and the flights of the catalog on the card lie below*)
(* next_sector, where nothing is written.  The ring: it holds the last     *)
(* records of the flight, in order from write_index.                       *)
(***************************************************************************)
EXTENDS FlightLog, SequenceTheorems, TLAPS

LEMMA Sizes ==
    /\ SECTORS \in Nat /\ SECTORS > 2
    /\ SD_QUEUE_BLOCKS \in Nat /\ SD_QUEUE_BLOCKS > 0
    /\ SD_RECORDS_PER_BLOCK \in Nat /\ SD_RECORDS_PER_BLOCK > 0
    /\ SD_CATALOG_FLIGHTS \in Nat /\ SD_CATALOG_FLIGHTS > 0
    /\ FLIGHT_LOG_CAPACITY \in Nat /\ FLIGHT_LOG_CAPACITY > 0
    /\ MAX_SAMPLES \in Nat /\ MAX_SAMPLES > 0
    /\ MAX_TAKES \in Nat
BY SdSizes, LogSizes

-----------------------------------------------------------------------------
(* The types of the card's side.                                           *)

Entry == [id : 1 .. MAX_TAKES + 1, start : Nat, blocks : Nat \ {0, 1}, records : Nat, take : Takes]
Flights == {f \in Seq(Entry) : Len(f) <= SD_CATALOG_FLIGHTS}
Catalog == [next_sector : 0 .. SECTORS, next_flight_id : Nat, flights : Flights]
Queues == {q \in Seq(Block) : Len(q) <= SD_QUEUE_BLOCKS}
Cache == [valid : BOOLEAN, sector : 0 .. SECTORS - 1, block : Block]
Layout == [valid : BOOLEAN, id : Nat, metadata : Nat]
Recorder ==
    [state : {"ABSENT", "READY", "RECORDING", "ERROR"}, enabled : BOOLEAN,
     next_sector : 0 .. SECTORS, flight_id : Takes, sequence : Nat, start : Nat,
     blocks : Nat, records : Nat, current : Nat, take : Takes, queue : Queues,
     write_state : {"IDLE", "block", "catalog"}, catalog_commit_pending : BOOLEAN,
     catalog : Catalog, cache : Cache, layout : Layout]
Card == [present : BOOLEAN, data : [0 .. SECTORS - 1 -> Block], catalog : Catalog]

Active(r) == r.state \in {"READY", "RECORDING"}

(* The sectors that a catalog gives its flights.                           *)
EndsBy(catalog, sector) ==
    \A i \in 1 .. Len(catalog.flights) :
        catalog.flights[i].start + catalog.flights[i].blocks <= sector

(* What sector s holds, or will hold when the queue is written.            *)
Placed(r, data, s) ==
    IF s < r.next_sector THEN data[s] ELSE r.queue[s - r.next_sector + 1]

(* b is block k of a flight: the first has no records, its metadata, and   *)
(* those after it are full until the last.                                 *)
FirstRecord(k) == IF k = 0 THEN 0 ELSE (k - 1) * SD_RECORDS_PER_BLOCK
IsBlock(b, id, take, k, count) ==
    /\ b.id = id /\ b.take = take /\ b.sequence = k
    /\ b.first = FirstRecord(k) /\ b.records = count
Count(e, k) ==
    IF k = 0 THEN 0
    ELSE IF k < e.blocks - 1 THEN SD_RECORDS_PER_BLOCK
    ELSE e.records - FirstRecord(e.blocks - 1)

OnCard(data, e) ==
    \A k \in 0 .. e.blocks - 1 : IsBlock(data[e.start + k], e.id, e.take, k, Count(e, k))
InPlace(r, data, e) ==
    \A k \in 0 .. e.blocks - 1 :
        IsBlock(Placed(r, data, e.start + k), e.id, e.take, k, Count(e, k))

-----------------------------------------------------------------------------
(* The inductive invariant of the recorder, of its RAM r, the card c, and  *)
(* the catalogs d that are disowned.                                       *)

WriteInv(r) ==
    /\ r.write_state = "block" => r.queue # <<>> /\ r.next_sector < SECTORS
    /\ Active(r) /\ r.write_state = "catalog" =>
         /\ r.queue = <<>> /\ r.catalog_commit_pending
         /\ r.catalog.next_sector = r.next_sector
    /\ r.catalog.next_flight_id # 0

(* The flight that is recorded.                                            *)
Recorded(r, data, blocks) ==
    \A k \in 0 .. blocks - 1 :
        IsBlock(Placed(r, data, r.start + k), r.flight_id, r.take, k,
                IF k = 0 THEN 0 ELSE SD_RECORDS_PER_BLOCK)
RecordingInv(r, data) ==
    r.state = "RECORDING" =>
        /\ ~r.catalog_commit_pending /\ ~r.cache.valid /\ ~r.layout.valid
        /\ r.flight_id = r.catalog.next_flight_id
        /\ r.sequence > 0 /\ r.blocks = r.sequence
        /\ r.start + r.sequence = r.next_sector + Len(r.queue)
        /\ r.records = FirstRecord(r.sequence)
        /\ Recorded(r, data, r.sequence)

(* The catalog in RAM and that on the card.                                *)
RamInv(r, data, d) ==
    Active(r) =>
        /\ EndsBy(r.catalog, r.next_sector + Len(r.queue))
        /\ "ram" \notin d =>
             \A i \in 1 .. Len(r.catalog.flights) : InPlace(r, data, r.catalog.flights[i])
CardInv(c, d) ==
    /\ EndsBy(c.catalog, c.catalog.next_sector)
    /\ "card" \notin d =>
         \A i \in 1 .. Len(c.catalog.flights) : OnCard(c.data, c.catalog.flights[i])

(* Blocks are written above the flights that the card's catalog lists.     *)
AboveInv(r, c, d) ==
    Active(r) /\ "card" \notin d /\ (r.queue # <<>> \/ ~r.catalog_commit_pending) =>
        EndsBy(c.catalog, r.next_sector)

(* What reads left behind is of use only while nothing is written.         *)
ReadInv(r, data, d) ==
    Active(r) =>
        /\ r.cache.valid =>
             /\ r.queue = <<>>
             /\ "ram" \notin d => r.cache.block \in {data[r.cache.sector], GARBAGE}
        /\ r.layout.valid =>
             /\ r.queue = <<>>
             /\ "ram" \notin d =>
                  \A i \in 1 .. Len(r.catalog.flights) :
                      r.catalog.flights[i].id = r.layout.id => r.layout.metadata = 1

RecorderInv(r, c, d) ==
    /\ WriteInv(r) /\ RecordingInv(r, c.data) /\ RamInv(r, c.data, d)
    /\ AboveInv(r, c, d) /\ ReadInv(r, c.data, d)

(* The recorder is as it should be, and so is the card.                    *)
Sound(r, c, d) == r \in Recorder /\ r.current < SD_RECORDS_PER_BLOCK /\ RecorderInv(r, c, d)
SoundCard(c, d) == c \in Card /\ CardInv(c, d) /\ d \subseteq {"card", "ram"}

(* The numbers of the flights stay within Takes.                           *)
IdInv ==
    /\ sd.catalog.next_flight_id <= log.take + (IF armed /\ log.recording THEN 1 ELSE 2)
    /\ card.catalog.next_flight_id <= log.take + 2
    /\ sd.state = "RECORDING" => armed /\ log.recording /\ log.qualified

(* The RAM of a recorder without power, or on a board that has none.       *)
IdleInv == ~powered \/ storage = "NONE" => sd = blackbox_sd_init

SdInv ==
    /\ Sound(sd, card, disowned) /\ SoundCard(card, disowned)
    /\ IdInv /\ IdleInv

-----------------------------------------------------------------------------
(* The ring in RAM and the flash sector.                                   *)

Ring ==
    [records : [Slots -> LogRecord], write_index : Slots,
     record_count : 0 .. FLIGHT_LOG_CAPACITY, using_flash : BOOLEAN,
     preserved_flash_count : 0 .. FLIGHT_LOG_CAPACITY, persist_pending : BOOLEAN,
     metadata : Takes]
Log == [recording : BOOLEAN, inhibited : BOOLEAN, qualified : BOOLEAN,
        take : Takes, samples : 0 .. MAX_SAMPLES]

RingTypes ==
    /\ log \in Log /\ log.take <= MAX_TAKES
    /\ storage \in {"SD", "NONE"} /\ powered \in BOOLEAN /\ armed \in BOOLEAN
    /\ ram \in Ring
    /\ flash \in [records : Seq(LogRecord), metadata : Takes]
    /\ Len(flash.records) <= FLIGHT_LOG_CAPACITY

(* Where the ring is not full it was filled from its first slot on.        *)
InOrder(r) == r.record_count < FLIGHT_LOG_CAPACITY => r.write_index = r.record_count

(* The end of one flight.                                                  *)
WholeRing(r) ==
    /\ InOrder(r) /\ r.record_count > 0
    /\ \A i \in 0 .. r.record_count - 1 :
         LET item == ram_record(r, i)
         IN  /\ item.take = r.metadata
             /\ item.n = ram_record(r, 0).n + i
             /\ item.stop = (i = r.record_count - 1)
WholeFlash ==
    \A i \in 1 .. Len(flash.records) :
        LET item == flash.records[i]
        IN  /\ item.take = flash.metadata
            /\ item.n = flash.records[1].n + i - 1
            /\ item.stop = (i = Len(flash.records))

FlightInv ==
    /\ log.recording => armed
    /\ armed => powered
    /\ log.qualified => log.samples > 0
    /\ armed /\ log.inhibited => ~log.recording
    /\ storage = "SD" => ram.record_count = 0 /\ ~ram.persist_pending /\ flash.records = <<>>

(* While a flight is recorded.                                             *)
FillingInv ==
    storage = "NONE" /\ log.recording =>
        /\ InOrder(ram) /\ ~ram.using_flash /\ ~ram.persist_pending
        /\ ram.metadata = log.take
        /\ ram.record_count <= log.samples
        /\ ram.record_count < FLIGHT_LOG_CAPACITY => ram.record_count = log.samples
        /\ \A i \in 0 .. ram.record_count - 1 :
             ram_record(ram, i) = [take |-> log.take, n |-> log.samples - ram.record_count + i + 1,
                                   stop |-> FALSE]
        /\ ram.preserved_flash_count > 0 => ram.preserved_flash_count = Len(flash.records)

(* And when none is.                                                       *)
KeptInv ==
    /\ WholeFlash
    /\ powered /\ ~log.recording =>
         /\ ram.using_flash => ram.record_count = Len(flash.records)
         /\ ~ram.using_flash /\ ram.record_count > 0 => WholeRing(ram)
    /\ powered /\ ram.persist_pending => ~ram.using_flash /\ ram.record_count > 0

RingInv == RingTypes /\ FlightInv /\ FillingInv /\ KeptInv

IInv == SdInv /\ RingInv /\ suspended \in BOOLEAN

-----------------------------------------------------------------------------
(* The ring.                                                               *)

LEMMA Wraps ==
    ASSUME NEW a \in Nat, NEW b \in Nat, a < FLIGHT_LOG_CAPACITY, b <= FLIGHT_LOG_CAPACITY
    PROVE  (a + b) % FLIGHT_LOG_CAPACITY
             = IF a + b < FLIGHT_LOG_CAPACITY THEN a + b ELSE a + b - FLIGHT_LOG_CAPACITY
BY Sizes

LEMMA SlotFacts == Slots = 0 .. FLIGHT_LOG_CAPACITY - 1 /\ 0 \in Slots
BY Sizes DEF Slots

slot(r, i) ==
    LET from == IF r.record_count = FLIGHT_LOG_CAPACITY THEN r.write_index ELSE 0
    IN  IF from + i < FLIGHT_LOG_CAPACITY THEN from + i ELSE from + i - FLIGHT_LOG_CAPACITY

LEMMA RingFields ==
    ASSUME NEW r \in Ring
    PROVE  /\ r.records \in [Slots -> LogRecord] /\ r.write_index \in Nat
           /\ r.write_index < FLIGHT_LOG_CAPACITY
           /\ r.record_count \in Nat /\ r.record_count <= FLIGHT_LOG_CAPACITY
BY Sizes, SlotFacts DEF Ring

LEMMA RamRecordAt ==
    ASSUME NEW r \in Ring, NEW i \in Nat, i < FLIGHT_LOG_CAPACITY
    PROVE  /\ ram_record(r, i) = r.records[slot(r, i)] /\ slot(r, i) \in Slots
           /\ ram_record(r, i) \in LogRecord
<1> DEFINE from == IF r.record_count = FLIGHT_LOG_CAPACITY THEN r.write_index ELSE 0
<1>1. from \in Nat /\ from < FLIGHT_LOG_CAPACITY
    BY RingFields, Sizes
<1> HIDE DEF from
<1>3. (from + i) % FLIGHT_LOG_CAPACITY
        = IF from + i < FLIGHT_LOG_CAPACITY THEN from + i ELSE from + i - FLIGHT_LOG_CAPACITY
    BY <1>1, Wraps, Sizes
<1>4. slot(r, i) = (from + i) % FLIGHT_LOG_CAPACITY
    BY <1>3 DEF slot, from
<1>5. ram_record(r, i) = r.records[(from + i) % FLIGHT_LOG_CAPACITY]
    BY DEF ram_record, from
<1>6. slot(r, i) \in Slots
    BY <1>1, <1>3, <1>4, SlotFacts, Sizes
<1>7. QED
    BY <1>4, <1>5, <1>6, RingFields

(* A record that is put becomes the last; when the ring is full the first  *)
(* is lost.                                                                *)
LEMMA PutRecord ==
    ASSUME NEW r \in Ring, InOrder(r), NEW item \in LogRecord
    PROVE  /\ put(r, item) \in Ring /\ InOrder(put(r, item))
           /\ put(r, item).record_count = IF r.record_count < FLIGHT_LOG_CAPACITY
                                          THEN r.record_count + 1 ELSE r.record_count
           /\ put(r, item).using_flash = r.using_flash
           /\ put(r, item).persist_pending = r.persist_pending
           /\ put(r, item).metadata = r.metadata
           /\ put(r, item).preserved_flash_count = r.preserved_flash_count
           /\ \A i \in 0 .. put(r, item).record_count - 1 :
                ram_record(put(r, item), i) =
                    IF i = put(r, item).record_count - 1 THEN item
                    ELSE ram_record(r, i + 1 + r.record_count - put(r, item).record_count)
<1> DEFINE p == put(r, item)
           next == IF r.write_index + 1 < FLIGHT_LOG_CAPACITY THEN r.write_index + 1 ELSE 0
           count == IF r.record_count < FLIGHT_LOG_CAPACITY THEN r.record_count + 1
                    ELSE r.record_count
<1>1. (r.write_index + 1) % FLIGHT_LOG_CAPACITY = next
    BY RingFields, Sizes, Wraps
<1>2. p = [r EXCEPT !.records[r.write_index] = item, !.write_index = next,
                    !.record_count = count]
    BY <1>1 DEF put
<1>3. /\ next \in Slots /\ count \in 0 .. FLIGHT_LOG_CAPACITY
    BY RingFields, SlotFacts, Sizes
<1> HIDE DEF next, count, p
<1>4. /\ p.write_index = next /\ p.record_count = count
      /\ p.using_flash = r.using_flash /\ p.persist_pending = r.persist_pending
      /\ p.metadata = r.metadata /\ p.preserved_flash_count = r.preserved_flash_count
      /\ p.records = [r.records EXCEPT ![r.write_index] = item]
    BY <1>2 DEF Ring
<1>5. p \in Ring
    BY <1>2, <1>3 DEF Ring
<1>6. InOrder(p)
    BY <1>4, RingFields, Sizes DEF InOrder, next, count
<1>7. ASSUME NEW i \in 0 .. count - 1
      PROVE  ram_record(p, i) = IF i = count - 1 THEN item
                                ELSE ram_record(r, i + 1 + r.record_count - count)
    <2>1. i \in Nat /\ i < FLIGHT_LOG_CAPACITY
        BY <1>3, Sizes
    <2>2. ram_record(p, i) = p.records[slot(p, i)] /\ slot(p, i) \in Slots
        BY <1>5, <2>1, RamRecordAt
    <2>3. CASE i = count - 1
        <3>1. slot(p, i) = r.write_index
            BY <1>4, <2>3, RingFields, Sizes DEF slot, InOrder, next, count
        <3>2. QED
            BY <1>4, <2>2, <2>3, <3>1, RingFields
    <2>4. CASE i # count - 1
        <3>1. i + 1 + r.record_count - count \in Nat
              /\ i + 1 + r.record_count - count < FLIGHT_LOG_CAPACITY
            BY <1>3, <2>4, RingFields, Sizes DEF count
        <3>2. ram_record(r, i + 1 + r.record_count - count)
                = r.records[slot(r, i + 1 + r.record_count - count)]
            BY <3>1, RamRecordAt
        <3>3. slot(p, i) = slot(r, i + 1 + r.record_count - count) /\ slot(p, i) # r.write_index
            <4>1. CASE r.record_count < FLIGHT_LOG_CAPACITY
                <5>1. r.write_index = r.record_count /\ count = r.record_count + 1
                    BY <4>1 DEF InOrder, count
                <5>2. slot(r, i + 1 + r.record_count - count) = i
                    BY <2>1, <4>1, <5>1, RingFields, Sizes DEF slot
                <5>3. i < r.record_count
                    BY <2>4, <5>1, RingFields
                <5>4. slot(p, i) = i
                    <6>1. next = IF count < FLIGHT_LOG_CAPACITY THEN count ELSE 0
                        BY <5>1 DEF next
                    <6>2. QED
                        BY <1>4, <2>1, <4>1, <5>1, <5>3, <6>1, RingFields, Sizes DEF slot
                <5>5. QED
                    BY <5>1, <5>2, <5>3, <5>4, RingFields
            <4>2. CASE r.record_count = FLIGHT_LOG_CAPACITY
                <5>1. count = FLIGHT_LOG_CAPACITY /\ i < FLIGHT_LOG_CAPACITY - 1
                    BY <2>1, <2>4, <4>2, Sizes DEF count
                <5>2. slot(p, i) = IF next + i < FLIGHT_LOG_CAPACITY THEN next + i
                                   ELSE next + i - FLIGHT_LOG_CAPACITY
                    BY <1>4, <5>1 DEF slot
                <5>3. slot(r, i + 1 + r.record_count - count)
                        = IF r.write_index + (i + 1) < FLIGHT_LOG_CAPACITY
                          THEN r.write_index + (i + 1)
                          ELSE r.write_index + (i + 1) - FLIGHT_LOG_CAPACITY
                    <6>1. i + 1 + r.record_count - count = i + 1
                        BY <2>1, <4>2, <5>1, Sizes
                    <6>2. QED
                        BY <4>2, <6>1 DEF slot
                <5>4. QED
                    BY <2>1, <5>1, <5>2, <5>3, RingFields, Sizes DEF next
            <4>3. QED
                BY <4>1, <4>2, RingFields, Sizes
        <3>4. QED
            BY <1>4, <2>2, <2>4, <3>2, <3>3, RingFields
    <2>5. QED
        BY <2>3, <2>4
<1>8. QED
    BY <1>4, <1>5, <1>6, <1>7 DEF p, count

-----------------------------------------------------------------------------
(* The steps that the ring and the flash sector see.                       *)

ringVars == <<storage, powered, armed, logVars>>

LEMMA RingKept == RingInv /\ UNCHANGED ringVars => RingInv'
<1> SUFFICES ASSUME RingInv, UNCHANGED ringVars PROVE RingInv'
    OBVIOUS
<1>1. UNCHANGED <<storage, powered, armed, log, ram, flash>>
    BY DEF ringVars, logVars
<1>2. RingTypes'
    BY <1>1 DEF RingInv, RingTypes
<1>3. FlightInv'
    BY <1>1 DEF RingInv, FlightInv
<1>4. FillingInv'
    BY <1>1 DEF RingInv, FillingInv, InOrder, ram_record
<1>5. KeptInv'
    BY <1>1 DEF RingInv, KeptInv, InOrder, ram_record, WholeRing, WholeFlash
<1>6. QED
    BY <1>2, <1>3, <1>4, <1>5 DEF RingInv

LEMMA TakesFacts == Takes = 0 .. MAX_TAKES + 1 /\ 0 \in Takes
BY Sizes DEF Takes

LEMMA BegunFields ==
    ASSUME NEW r \in Ring, NEW take \in Takes
    PROVE  /\ begun(r, take) \in Ring
           /\ begun(r, take).record_count = 0 /\ begun(r, take).write_index = 0
           /\ begun(r, take).metadata = take
           /\ ~begun(r, take).using_flash /\ ~begun(r, take).persist_pending
           /\ begun(r, take).preserved_flash_count = IF r.using_flash THEN r.record_count ELSE 0
<1> DEFINE kept == IF r.using_flash THEN r.record_count ELSE 0
<1>1. begun(r, take) = [r EXCEPT !.preserved_flash_count = kept, !.using_flash = FALSE,
                                 !.persist_pending = FALSE, !.write_index = 0,
                                 !.record_count = 0, !.metadata = take]
    BY DEF begun
<1>2. kept \in 0 .. FLIGHT_LOG_CAPACITY /\ 0 \in 0 .. FLIGHT_LOG_CAPACITY /\ 0 \in Slots
    BY SlotFacts, RingFields, Sizes
<1> HIDE DEF kept
<1>3. begun(r, take) \in Ring
    BY <1>1, <1>2 DEF Ring
<1>4. /\ begun(r, take).record_count = 0 /\ begun(r, take).write_index = 0
      /\ begun(r, take).metadata = take
      /\ begun(r, take).using_flash = FALSE /\ begun(r, take).persist_pending = FALSE
      /\ begun(r, take).preserved_flash_count = kept
    BY <1>1 DEF Ring
<1>5. QED
    BY <1>3, <1>4 DEF kept

LEMMA ArmKeepsRing ==
    ASSUME RingInv, powered, Arm, UNCHANGED <<storage, powered>>
    PROVE  RingInv'
<1> USE DEF RingInv
<1>1. CASE log.inhibited
    <2>1. UNCHANGED <<log, ram, flash>> /\ armed' = TRUE
        BY <1>1 DEF Arm, logVars
    <2>2. ~log.recording
        BY DEF Arm, FlightInv
    <2>3. RingTypes'
        BY <2>1 DEF RingTypes
    <2>4. FlightInv'
        BY <1>1, <2>1, <2>2 DEF FlightInv
    <2>5. FillingInv' /\ KeptInv'
        BY <2>1, <2>2 DEF FillingInv, KeptInv, WholeRing, WholeFlash, InOrder, ram_record
    <2>6. QED
        BY <2>3, <2>4, <2>5
<1>2. CASE ~log.inhibited
    <2> DEFINE take == log.take + 1
    <2>1. /\ log' = [log EXCEPT !.recording = TRUE, !.qualified = FALSE, !.take = take,
                               !.samples = 0]
          /\ ram' = IF storage = "NONE" THEN begun(ram, take) ELSE ram
          /\ flash' = flash /\ armed' = TRUE
        BY <1>2 DEF Arm
    <2>2. take \in Takes /\ take <= MAX_TAKES
        BY TakesFacts, Sizes DEF Arm, RingTypes, Log
    <2> HIDE DEF take
    <2>3. /\ log' \in Log /\ log'.take = take /\ log'.recording /\ ~log'.qualified
          /\ log'.samples = 0 /\ log'.inhibited = log.inhibited
        <3>1. log \in Log /\ 0 \in 0 .. MAX_SAMPLES
            BY Sizes DEF RingTypes
        <3>2. log' \in Log
            BY <2>1, <2>2, <3>1 DEF Log
        <3>3. /\ log'.take = take /\ log'.recording = TRUE /\ log'.qualified = FALSE
              /\ log'.samples = 0 /\ log'.inhibited = log.inhibited
            BY <2>1, <3>1 DEF Log
        <3>4. QED
            BY <3>2, <3>3
    <2>4. RingTypes'
        BY <2>1, <2>2, <2>3, BegunFields DEF RingTypes
    <2>5. FlightInv'
        BY <1>2, <2>1, <2>3 DEF FlightInv, RingTypes
    <2>6. FillingInv'
        <3>1. SUFFICES ASSUME storage = "NONE" PROVE FillingInv'
            BY DEF FillingInv
        <3>2. ram' = begun(ram, take)
            BY <2>1, <3>1
        <3>3. ~log.recording
            BY DEF Arm, FlightInv
        <3>4. ram.using_flash => ram.record_count = Len(flash.records)
            BY <3>3 DEF KeptInv
        <3>5. /\ ram'.record_count = 0 /\ ram'.write_index = 0 /\ ram'.metadata = take
              /\ ~ram'.using_flash /\ ~ram'.persist_pending
              /\ ram'.preserved_flash_count = IF ram.using_flash THEN ram.record_count ELSE 0
            BY <2>2, <3>2, BegunFields DEF RingTypes
        <3>6. InOrder(ram)'
            BY <3>5, Sizes DEF InOrder
        <3>7. QED
            BY <2>1, <2>3, <3>4, <3>5, <3>6, Sizes DEF FillingInv
    <2>7. KeptInv'
        BY <2>1, <2>2, <2>3, BegunFields DEF KeptInv, WholeFlash, FlightInv, RingTypes
    <2>8. QED
        BY <2>4, <2>5, <2>6, <2>7
<1>3. QED
    BY <1>1, <1>2

LEMMA RecordKeepsRing ==
    ASSUME RingInv, powered, NEW throttle \in BOOLEAN, flight_log_record(throttle),
           UNCHANGED <<storage, powered>>
    PROVE  RingInv'
<1> USE DEF RingInv
<1> DEFINE item == [take |-> log.take, n |-> log.samples + 1, stop |-> FALSE]
<1>1. /\ armed /\ log.recording /\ log.samples < MAX_SAMPLES /\ armed' = armed /\ flash' = flash
      /\ log' = [log EXCEPT !.qualified = @ \/ throttle, !.samples = @ + 1]
    BY DEF flight_log_record
<1>2. /\ log' \in Log /\ log'.samples = log.samples + 1 /\ log'.recording
      /\ log'.take = log.take /\ log'.inhibited = log.inhibited
    <2> DEFINE qualified == log.qualified \/ throttle
    <2>1. log \in Log /\ log.samples + 1 \in 0 .. MAX_SAMPLES
        BY <1>1, Sizes DEF RingTypes, Log
    <2>2. qualified \in BOOLEAN
        BY <2>1, Zenon DEF Log
    <2>3. log' = [log EXCEPT !.qualified = qualified, !.samples = @ + 1]
        BY <1>1
    <2> HIDE DEF qualified
    <2>4. log' \in Log
        BY <2>1, <2>2, <2>3 DEF Log
    <2>5. /\ log'.samples = log.samples + 1 /\ log'.recording = log.recording
          /\ log'.take = log.take /\ log'.inhibited = log.inhibited
        BY <2>1, <2>3 DEF Log
    <2>6. QED
        BY <1>1, <2>4, <2>5
<1>4. log.samples \in Nat /\ log.take \in Takes
    BY Sizes DEF RingTypes, Log
<1>3. item \in LogRecord
    <2>1. log.samples + 1 \in 0 .. MAX_SAMPLES + 1
        BY <1>1, <1>4, Sizes
    <2>2. QED
        BY <1>4, <2>1 DEF LogRecord
<1>5. FlightInv'
    <2>1. storage = "SD" => ram' = ram
        BY DEF flight_log_record
    <2>2. log'.samples > 0
        BY <1>2, <1>4
    <2>3. QED
        BY <1>1, <1>2, <2>1, <2>2 DEF FlightInv
<1>6. CASE storage = "NONE"
    <2>1. ram' = put(ram, item)
        BY <1>6 DEF flight_log_record
    <2> HIDE DEF item
    <2>2. InOrder(ram) /\ ram \in Ring
        BY <1>1, <1>6 DEF FillingInv, RingTypes
    <2>3. /\ ram' \in Ring /\ InOrder(ram')
          /\ ram'.record_count = IF ram.record_count < FLIGHT_LOG_CAPACITY
                                 THEN ram.record_count + 1 ELSE ram.record_count
          /\ ram'.using_flash = ram.using_flash
          /\ ram'.persist_pending = ram.persist_pending
          /\ ram'.metadata = ram.metadata
          /\ ram'.preserved_flash_count = ram.preserved_flash_count
          /\ \A i \in 0 .. ram'.record_count - 1 :
               ram_record(ram', i) =
                   IF i = ram'.record_count - 1 THEN item
                   ELSE ram_record(ram, i + 1 + ram.record_count - ram'.record_count)
        BY <1>3, <2>1, <2>2, PutRecord
    <2>4. RingTypes'
        BY <1>1, <1>2, <2>3 DEF RingTypes
    <2>5. /\ ~ram.using_flash /\ ~ram.persist_pending /\ ram.metadata = log.take
          /\ ram.record_count <= log.samples
          /\ ram.record_count < FLIGHT_LOG_CAPACITY => ram.record_count = log.samples
          /\ ram.preserved_flash_count > 0 => ram.preserved_flash_count = Len(flash.records)
        BY <1>1, <1>6 DEF FillingInv
    <2>6. ASSUME NEW i \in 0 .. ram'.record_count - 1
          PROVE  ram_record(ram', i) = [take |-> log.take,
                                        n |-> log'.samples - ram'.record_count + i + 1,
                                        stop |-> FALSE]
        <3>1. ram.record_count \in Nat /\ ram.record_count <= FLIGHT_LOG_CAPACITY
            BY <2>2, RingFields
        <3>2. CASE i = ram'.record_count - 1
            <4>1. log'.samples - ram'.record_count + i + 1 = log.samples + 1
                BY <1>2, <1>4, <2>3, <3>1, <3>2
            <4>2. QED
                BY <2>3, <3>2, <4>1 DEF item
        <3>3. CASE i # ram'.record_count - 1
            <4> DEFINE j == i + 1 + ram.record_count - ram'.record_count
            <4>1. j \in 0 .. ram.record_count - 1
                BY <2>3, <3>1, <3>3
            <4>2. ram_record(ram, j) = [take |-> log.take, n |-> log.samples - ram.record_count + j + 1,
                                        stop |-> FALSE]
                BY <1>1, <1>6, <4>1 DEF FillingInv
            <4>3. log.samples - ram.record_count + j + 1
                    = log'.samples - ram'.record_count + i + 1
                BY <1>2, <1>4, <2>3, <3>1
            <4>4. ram_record(ram', i) = ram_record(ram, j)
                BY <2>3, <3>3
            <4>5. QED
                BY <4>2, <4>3, <4>4
        <3>4. QED
            BY <3>2, <3>3
    <2>7. FillingInv'
        <3>1. /\ ram'.record_count <= log'.samples
              /\ ram'.record_count < FLIGHT_LOG_CAPACITY => ram'.record_count = log'.samples
            BY <1>2, <1>4, <2>2, <2>3, <2>5, RingFields, Sizes
        <3>2. QED
            BY <1>1, <1>2, <2>3, <2>5, <2>6, <3>1 DEF FillingInv, InOrder, ram_record
    <2>8. KeptInv'
        BY <1>1, <1>2, <2>3, <2>5 DEF KeptInv, WholeFlash
    <2>9. QED
        BY <1>5, <2>4, <2>7, <2>8
<1>7. CASE storage = "SD"
    <2>1. ram' = ram
        BY <1>7 DEF flight_log_record
    <2>2. QED
        BY <1>1, <1>2, <1>5, <1>7, <2>1 DEF RingTypes, FillingInv, KeptInv, WholeFlash, FlightInv
<1>8. QED
    BY <1>6, <1>7 DEF RingTypes

LEMMA DiscardedFields ==
    ASSUME NEW r \in Ring
    PROVE  /\ discarded(r) \in Ring
           /\ discarded(r).record_count = r.preserved_flash_count
           /\ discarded(r).persist_pending = FALSE
           /\ discarded(r).using_flash = (r.preserved_flash_count > 0)
<1> DEFINE kept == r.preserved_flash_count > 0
<1>1. discarded(r) = [r EXCEPT !.persist_pending = FALSE, !.write_index = 0,
                               !.record_count = r.preserved_flash_count, !.using_flash = kept]
    BY DEF discarded
<1>2. kept \in BOOLEAN
    OBVIOUS
<1> HIDE DEF kept
<1>3. discarded(r) \in Ring
    BY <1>1, <1>2, SlotFacts DEF Ring
<1>4. /\ discarded(r).record_count = r.preserved_flash_count
      /\ discarded(r).persist_pending = FALSE /\ discarded(r).using_flash = kept
    BY <1>1 DEF Ring
<1>5. QED
    BY <1>3, <1>4 DEF kept

(* The marker makes the ring whole.                                        *)
LEMMA EndedIsWhole ==
    ASSUME RingTypes, FillingInv, storage = "NONE", log.recording, ram.record_count > 0
    PROVE  /\ ended(ram) \in Ring /\ WholeRing(ended(ram))
           /\ ended(ram).using_flash = ram.using_flash /\ ended(ram).persist_pending = TRUE
<1> DEFINE last == ram_record(ram, ram.record_count - 1)
           item == [take |-> last.take, n |-> last.n + 1, stop |-> TRUE]
           p == put(ram, item)
           e == ended(ram)
<1>1. /\ InOrder(ram) /\ ram \in Ring /\ ram.metadata = log.take
      /\ ram.record_count \in Nat /\ ram.record_count <= FLIGHT_LOG_CAPACITY
      /\ log.samples \in Nat /\ log.samples <= MAX_SAMPLES /\ log.take \in Takes
    BY RingFields, Sizes DEF RingTypes, FillingInv, Log
<1>2. \A i \in 0 .. ram.record_count - 1 :
        ram_record(ram, i) = [take |-> log.take, n |-> log.samples - ram.record_count + i + 1,
                              stop |-> FALSE]
    BY DEF FillingInv
<1>3. item = [take |-> log.take, n |-> log.samples + 1, stop |-> TRUE]
    <2> HIDE DEF last
    <2>1. last = [take |-> log.take, n |-> log.samples, stop |-> FALSE]
        <3>1. ram.record_count - 1 \in 0 .. ram.record_count - 1
            BY <1>1
        <3>2. log.samples - ram.record_count + (ram.record_count - 1) + 1 = log.samples
            BY <1>1
        <3>3. QED
            BY <1>2, <3>1, <3>2 DEF last
    <2>2. QED
        BY <2>1
<1>4. item \in LogRecord
    <2>1. log.samples + 1 \in 0 .. MAX_SAMPLES + 1
        BY <1>1, Sizes
    <2>2. QED
        BY <1>1, <1>3, <2>1 DEF LogRecord
<1>5. e = [p EXCEPT !.persist_pending = TRUE]
    BY <1>1 DEF ended
<1> HIDE DEF item, last
<1>6. /\ p \in Ring /\ InOrder(p)
      /\ p.record_count = IF ram.record_count < FLIGHT_LOG_CAPACITY
                         THEN ram.record_count + 1 ELSE ram.record_count
      /\ p.using_flash = ram.using_flash /\ p.metadata = ram.metadata
      /\ \A i \in 0 .. p.record_count - 1 :
           ram_record(p, i) = IF i = p.record_count - 1 THEN item
                              ELSE ram_record(ram, i + 1 + ram.record_count - p.record_count)
    BY <1>1, <1>4, PutRecord
<1> HIDE DEF p, e
<1>7. /\ e \in Ring /\ e.record_count = p.record_count /\ e.using_flash = ram.using_flash
      /\ e.persist_pending = TRUE /\ e.metadata = log.take
      /\ e.write_index = p.write_index /\ e.records = p.records
    BY <1>1, <1>5, <1>6 DEF Ring
<1>8. ASSUME NEW i \in 0 .. p.record_count - 1
      PROVE  ram_record(e, i) = [take |-> log.take,
                                 n |-> log.samples - p.record_count + i + 2,
                                 stop |-> (i = p.record_count - 1)]
    <2>1. ram_record(e, i) = ram_record(p, i)
        BY <1>7 DEF ram_record
    <2>2. CASE i = p.record_count - 1
        <3>1. log.samples - p.record_count + i + 2 = log.samples + 1
            BY <1>1, <1>6, <2>2
        <3>2. QED
            BY <1>3, <1>6, <2>1, <2>2, <3>1
    <2>3. CASE i # p.record_count - 1
        <3> DEFINE j == i + 1 + ram.record_count - p.record_count
        <3>1. j \in 0 .. ram.record_count - 1
            BY <1>1, <1>6, <2>3
        <3>2. log.samples - ram.record_count + j + 1 = log.samples - p.record_count + i + 2
            BY <1>1, <1>6
        <3>3. ram_record(p, i) = ram_record(ram, j)
            BY <1>6, <2>3
        <3>4. ram_record(ram, j) = [take |-> log.take,
                                    n |-> log.samples - ram.record_count + j + 1, stop |-> FALSE]
            BY <1>2, <3>1
        <3>5. (i = p.record_count - 1) = FALSE
            BY <2>3
        <3>6. QED
            BY <2>1, <3>2, <3>3, <3>4, <3>5
    <2>4. QED
        BY <2>2, <2>3
<1>9. WholeRing(e)
    <2>1. InOrder(e) /\ e.record_count > 0
        BY <1>1, <1>6, <1>7, Sizes DEF InOrder
    <2>2. ram_record(e, 0).n = log.samples - p.record_count + 2
        <3>1. 0 \in 0 .. p.record_count - 1
            BY <1>1, <1>6, Sizes
        <3>2. log.samples - p.record_count + 0 + 2 = log.samples - p.record_count + 2
            BY <1>1, <1>6
        <3>3. QED
            BY <1>8, <3>1, <3>2
    <2>3. ASSUME NEW i \in 0 .. e.record_count - 1
          PROVE  /\ ram_record(e, i).take = e.metadata
                 /\ ram_record(e, i).n = ram_record(e, 0).n + i
                 /\ ram_record(e, i).stop = (i = e.record_count - 1)
        <3>1. i \in 0 .. p.record_count - 1
            BY <1>7
        <3>2. ram_record(e, i) = [take |-> log.take, n |-> log.samples - p.record_count + i + 2,
                                  stop |-> (i = p.record_count - 1)]
            BY <1>8, <3>1
        <3>3. ram_record(e, i).n = ram_record(e, 0).n + i
            <4>1. ram_record(e, i).n = log.samples - p.record_count + i + 2
                BY <3>2
            <4>2. QED
                BY <1>1, <1>6, <2>2, <3>1, <4>1
        <3>4. ram_record(e, i).take = e.metadata /\ ram_record(e, i).stop = (i = p.record_count - 1)
            BY <1>7, <3>2
        <3>5. QED
            BY <1>7, <3>3, <3>4
    <2>4. QED
        BY <2>1, <2>3 DEF WholeRing
<1>10. QED
    BY <1>7, <1>9 DEF e

LEMMA DisarmKeepsRing ==
    ASSUME RingInv, powered, Disarm, UNCHANGED <<storage, powered>>
    PROVE  RingInv'
<1> USE DEF RingInv
<1>1. /\ armed /\ armed' = FALSE /\ flash' = flash
      /\ log' = [log EXCEPT !.recording = FALSE, !.qualified = FALSE, !.samples = 0]
    BY DEF Disarm
<1>2. /\ log' \in Log /\ log'.samples = 0 /\ log'.recording = FALSE /\ log'.qualified = FALSE
      /\ log'.take = log.take
    <2>1. log \in Log /\ 0 \in 0 .. MAX_SAMPLES
        BY Sizes DEF RingTypes
    <2>2. QED
        BY <1>1, <2>1 DEF Log
<1>3. WholeFlash'
    BY <1>1 DEF KeptInv, WholeFlash
<1>4. CASE storage # "NONE" \/ ~log.recording
    <2>1. ram' = ram
        BY <1>4 DEF Disarm
    <2>2. FlightInv' /\ RingTypes'
        BY <1>1, <1>2, <2>1 DEF FlightInv, RingTypes
    <2>3. KeptInv'
        <3>1. CASE ~log.recording
            BY <1>1, <1>2, <1>3, <2>1, <3>1 DEF KeptInv, WholeRing, InOrder, ram_record
        <3>2. CASE storage # "NONE"
            <4>1. ram.record_count = 0 /\ ~ram.persist_pending /\ flash.records = <<>>
                BY <3>2 DEF RingTypes, FlightInv
            <4>2. Len(flash.records) = 0
                BY <4>1
            <4>3. QED
                BY <1>1, <1>2, <1>3, <2>1, <4>1, <4>2 DEF KeptInv
        <3>3. QED
            BY <1>4, <3>1, <3>2
    <2>4. QED
        BY <1>2, <2>2, <2>3 DEF FillingInv
<1>5. CASE storage = "NONE" /\ log.recording /\ ~log.qualified
    <2>1. ram' = discarded(ram)
        BY <1>5 DEF Disarm
    <2>2. ram.preserved_flash_count > 0 => ram.preserved_flash_count = Len(flash.records)
        BY <1>5 DEF FillingInv
    <2>3. /\ ram' \in Ring /\ ram'.record_count = ram.preserved_flash_count
          /\ ram'.persist_pending = FALSE /\ ram'.using_flash = (ram.preserved_flash_count > 0)
        BY <2>1, DiscardedFields DEF RingTypes
    <2>4. FlightInv' /\ RingTypes'
        BY <1>1, <1>2, <1>5, <2>3 DEF FlightInv, RingTypes
    <2>5. KeptInv'
        BY <1>1, <1>2, <1>3, <2>2, <2>3 DEF KeptInv
    <2>6. QED
        BY <1>2, <2>4, <2>5 DEF FillingInv
<1>6. CASE storage = "NONE" /\ log.recording /\ log.qualified
    <2>1. ram' = ended(ram)
        BY <1>6 DEF Disarm
    <2>2. ram.record_count > 0
        <3>1. log.samples > 0 /\ log.samples \in Nat
            BY <1>6, Sizes DEF FlightInv, RingTypes, Log
        <3>2. ram.record_count < FLIGHT_LOG_CAPACITY => ram.record_count = log.samples
            BY <1>6 DEF FillingInv
        <3>3. QED
            BY <3>1, <3>2, RingFields, Sizes DEF RingTypes
    <2>3. /\ ram' \in Ring /\ WholeRing(ram') /\ ~ram'.using_flash
        BY <1>6, <2>1, <2>2, EndedIsWhole DEF FillingInv
    <2>4. WholeRing(ram)'
        BY <2>3 DEF WholeRing, InOrder, ram_record
    <2>5. FlightInv' /\ RingTypes'
        BY <1>1, <1>2, <1>6, <2>3 DEF FlightInv, RingTypes
    <2>6. KeptInv'
        <3>1. ram'.record_count > 0
            BY <2>3 DEF WholeRing
        <3>2. QED
            BY <1>1, <1>2, <1>3, <2>3, <2>4, <3>1 DEF KeptInv
    <2>7. QED
        BY <1>2, <2>5, <2>6 DEF FillingInv
<1>7. QED
    BY <1>4, <1>5, <1>6 DEF RingTypes

LEMMA InhibitKeepsRing ==
    ASSUME RingInv, powered, NEW value \in BOOLEAN, flight_log_set_inhibited(value),
           UNCHANGED <<storage, powered>>
    PROVE  RingInv'
<1> USE DEF RingInv
<1>1. /\ ~armed /\ UNCHANGED <<armed, ram, flash>> /\ ~log.recording
    BY DEF flight_log_set_inhibited, FlightInv
<1>2. /\ log' \in Log /\ log'.recording = FALSE /\ log'.samples = log.samples
      /\ log'.take = log.take /\ log'.qualified = log.qualified
    <2> DEFINE goes_on == log.recording /\ ~value
    <2>1. goes_on = FALSE
        BY <1>1
    <2>2. log' = [log EXCEPT !.inhibited = value, !.recording = goes_on]
        BY DEF flight_log_set_inhibited
    <2> HIDE DEF goes_on
    <2>3. QED
        BY <2>1, <2>2 DEF RingTypes, Log
<1>3. RingTypes' /\ FlightInv' /\ FillingInv'
    BY <1>1, <1>2 DEF RingTypes, FlightInv, FillingInv
<1>4. KeptInv'
    BY <1>1, <1>2 DEF KeptInv, WholeFlash, WholeRing, InOrder, ram_record
<1>5. QED
    BY <1>3, <1>4

(* The image of a whole ring is a whole log.                               *)
WholeLog(records, metadata) ==
    \A i \in 1 .. Len(records) :
        LET item == records[i]
        IN  /\ item.take = metadata
            /\ item.n = records[1].n + i - 1
            /\ item.stop = (i = Len(records))

LEMMA ImageIsWhole ==
    ASSUME RingTypes, WholeRing(ram)
    PROVE  /\ image \in [records : Seq(LogRecord), metadata : Takes]
           /\ Len(image.records) = ram.record_count
           /\ WholeLog(image.records, image.metadata)
<1> DEFINE count == ram.record_count
           items == image.records
<1>1. ram \in Ring /\ count \in Nat /\ count > 0 /\ count <= FLIGHT_LOG_CAPACITY
    BY RingFields DEF RingTypes, WholeRing
<1>2. items = [i \in 1 .. count |-> ram_record(ram, i - 1)] /\ image.metadata = ram.metadata
    BY DEF image
<1>3. \A i \in 1 .. count : ram_record(ram, i - 1) \in LogRecord
    <2> SUFFICES ASSUME NEW i \in 1 .. count PROVE ram_record(ram, i - 1) \in LogRecord
        OBVIOUS
    <2>1. i - 1 \in Nat /\ i - 1 < FLIGHT_LOG_CAPACITY
        BY <1>1, Sizes
    <2>2. QED
        BY <1>1, <2>1, RamRecordAt
<1> HIDE DEF items
<1>4. items \in Seq(LogRecord) /\ Len(items) = count
    BY <1>1, <1>2, <1>3
<1>5. WholeLog(items, ram.metadata)
    <2>1. ASSUME NEW i \in 1 .. count
          PROVE  /\ items[i].take = ram.metadata /\ items[i].n = items[1].n + i - 1
                 /\ items[i].stop = (i = count)
        <3>1. /\ items[i] = ram_record(ram, i - 1) /\ items[1] = ram_record(ram, 0)
              /\ i - 1 \in 0 .. count - 1 /\ i \in Nat
            BY <1>1, <1>2
        <3>2. /\ ram_record(ram, i - 1).take = ram.metadata
              /\ ram_record(ram, i - 1).n = ram_record(ram, 0).n + (i - 1)
              /\ ram_record(ram, i - 1).stop = (i - 1 = count - 1)
            BY <3>1 DEF WholeRing
        <3>3. ram_record(ram, 0).n \in Nat
            BY <1>1, RamRecordAt, Sizes DEF LogRecord
        <3>4. (i - 1 = count - 1) = (i = count)
            BY <1>1, <3>1
        <3>5. QED
            BY <3>1, <3>2, <3>3, <3>4
    <2>2. QED
        BY <1>4, <2>1 DEF WholeLog
<1>6. image.metadata \in Takes
    BY <1>1, <1>2 DEF Ring
<1>7. QED
    BY <1>2, <1>4, <1>5, <1>6 DEF image, items

LEMMA PersistKeepsRing ==
    ASSUME RingInv, powered, flight_log_persist_if_ready, UNCHANGED <<storage, powered>>
    PROVE  RingInv'
<1> USE DEF RingInv
<1>1. /\ ram.persist_pending /\ ~log.recording /\ UNCHANGED <<armed, log>>
    BY DEF flight_log_persist_if_ready, MayPersist
<1>2. storage = "NONE" /\ ~ram.using_flash /\ WholeRing(ram)
    BY <1>1 DEF FlightInv, RingTypes, KeptInv
<1>3. CASE /\ flash' = image
           /\ ram' = [ram EXCEPT !.persist_pending = FALSE, !.using_flash = TRUE]
    <2>1. /\ ram' \in Ring /\ ram'.persist_pending = FALSE /\ ram'.using_flash = TRUE
          /\ ram'.record_count = ram.record_count
        BY <1>3 DEF RingTypes, Ring
    <2>2. /\ flash' \in [records : Seq(LogRecord), metadata : Takes]
          /\ Len(flash'.records) = ram.record_count
          /\ WholeLog(flash'.records, flash'.metadata)
        BY <1>2, <1>3, ImageIsWhole
    <2>3. WholeFlash'
        BY <2>2 DEF WholeFlash, WholeLog
    <2>4. RingTypes'
        BY <1>1, <2>1, <2>2, RingFields DEF RingTypes
    <2>5. QED
        BY <1>1, <1>2, <2>1, <2>2, <2>3, <2>4 DEF FlightInv, FillingInv, KeptInv
<1>4. CASE /\ flash' \in {flash, BAD_SECTOR}
           /\ ram' = [ram EXCEPT !.persist_pending = FALSE, !.using_flash = FALSE]
    <2>1. /\ ram' \in Ring /\ ram'.persist_pending = FALSE /\ ram'.using_flash = FALSE
          /\ ram'.record_count = ram.record_count /\ ram'.records = ram.records
          /\ ram'.write_index = ram.write_index /\ ram'.metadata = ram.metadata
        BY <1>4 DEF RingTypes, Ring
    <2>2. WholeRing(ram)'
        BY <1>2, <2>1 DEF WholeRing, InOrder, ram_record
    <2>3. /\ flash' \in [records : Seq(LogRecord), metadata : Takes]
          /\ Len(flash'.records) <= FLIGHT_LOG_CAPACITY /\ WholeFlash'
        <3>1. CASE flash' = flash
            BY <3>1 DEF RingTypes, KeptInv, WholeFlash
        <3>2. CASE flash' = BAD_SECTOR
            <4>1. flash'.records = <<>> /\ Len(flash'.records) = 0 /\ flash'.metadata = 0
                BY <3>2 DEF BAD_SECTOR
            <4>2. flash' \in [records : Seq(LogRecord), metadata : Takes]
                BY <3>2, EmptySeq, TakesFacts DEF BAD_SECTOR
            <4>3. WholeFlash'
                BY <4>1 DEF WholeFlash
            <4>4. QED
                BY <4>1, <4>2, <4>3, Sizes
        <3>3. QED
            BY <1>4, <3>1, <3>2
    <2>4. QED
        BY <1>1, <1>2, <2>1, <2>2, <2>3 DEF RingTypes, FlightInv, FillingInv, KeptInv
<1>5. QED
    BY <1>3, <1>4 DEF flight_log_persist_if_ready

LEMMA PowerLossKeepsRing ==
    ASSUME RingInv, PowerLoss
    PROVE  RingInv'
<1> USE DEF RingInv
<1>1. /\ powered' = FALSE /\ armed' = FALSE /\ storage' = storage /\ ram' = ram
      /\ log' = [log EXCEPT !.recording = FALSE, !.qualified = FALSE, !.samples = 0]
      /\ flash' \in IF MayPersist THEN {flash, BAD_SECTOR, image} ELSE {flash}
      /\ powered
    BY DEF PowerLoss
<1>2. /\ log' \in Log /\ log'.samples = 0 /\ log'.recording = FALSE /\ log'.qualified = FALSE
      /\ log'.take = log.take
    <2>1. log \in Log /\ 0 \in 0 .. MAX_SAMPLES
        BY Sizes DEF RingTypes
    <2>2. QED
        BY <1>1, <2>1 DEF Log
<1>3. /\ flash' \in [records : Seq(LogRecord), metadata : Takes]
      /\ Len(flash'.records) <= FLIGHT_LOG_CAPACITY /\ WholeFlash'
      /\ storage = "SD" => flash' = flash
    <2>1. CASE flash' = flash
        BY <2>1 DEF RingTypes, KeptInv, WholeFlash
    <2>2. ASSUME flash' # flash PROVE storage = "NONE" /\ WholeRing(ram)
        BY <1>1, <2>2 DEF MayPersist, FlightInv, RingTypes, KeptInv
    <2>3. CASE flash' # flash /\ flash' = BAD_SECTOR
        <3>1. flash'.records = <<>> /\ Len(flash'.records) = 0 /\ flash'.metadata = 0
            BY <2>3 DEF BAD_SECTOR
        <3>2. flash' \in [records : Seq(LogRecord), metadata : Takes]
            BY <2>3, EmptySeq, TakesFacts DEF BAD_SECTOR
        <3>3. WholeFlash'
            BY <3>1 DEF WholeFlash
        <3>4. QED
            BY <2>2, <2>3, <3>1, <3>2, <3>3, Sizes
    <2>4. CASE flash' # flash /\ flash' = image
        <3>1. /\ flash' \in [records : Seq(LogRecord), metadata : Takes]
              /\ Len(flash'.records) = ram.record_count
              /\ WholeLog(flash'.records, flash'.metadata)
            BY <2>2, <2>4, ImageIsWhole
        <3>2. WholeFlash'
            BY <3>1 DEF WholeFlash, WholeLog
        <3>3. QED
            BY <2>2, <2>4, <3>1, <3>2, RingFields DEF RingTypes
    <2>5. QED
        BY <1>1, <2>1, <2>3, <2>4
<1>4. RingTypes'
    BY <1>1, <1>2, <1>3 DEF RingTypes
<1>5. QED
    BY <1>1, <1>2, <1>3, <1>4 DEF FlightInv, FillingInv, KeptInv

LEMMA PowerUpKeepsRing ==
    ASSUME RingInv, PowerUp
    PROVE  RingInv'
<1> USE DEF RingInv
<1>1. /\ ~powered /\ powered' = TRUE /\ UNCHANGED <<storage, armed, flash>>
      /\ log' = [recording |-> FALSE, inhibited |-> FALSE, qualified |-> FALSE,
                 take |-> log.take, samples |-> 0]
    BY DEF PowerUp, flight_log_init
<1> DEFINE stored == flash.records # <<>>
<1>2. ram' = [records |-> [s \in Slots |-> NO_RECORD], write_index |-> 0,
              record_count |-> Len(flash.records), using_flash |-> stored,
              preserved_flash_count |-> 0, persist_pending |-> FALSE, metadata |-> 0]
    BY DEF PowerUp, flight_log_init
<1>3. stored \in BOOLEAN
    OBVIOUS
<1>4. flash.records \in Seq(LogRecord) /\ Len(flash.records) <= FLIGHT_LOG_CAPACITY
    BY DEF RingTypes
<1>5. Len(flash.records) \in 0 .. FLIGHT_LOG_CAPACITY /\ (stored <=> Len(flash.records) > 0)
    BY <1>4, EmptySeq, LenProperties, Sizes
<1>6. NO_RECORD \in LogRecord
    BY TakesFacts, Sizes DEF NO_RECORD, LogRecord
<1> HIDE DEF stored
<1>7. ram' \in Ring
    <2>1. [s \in Slots |-> NO_RECORD] \in [Slots -> LogRecord]
        BY <1>6
    <2>2. QED
        BY <1>2, <1>3, <1>5, <2>1, SlotFacts, TakesFacts, Sizes DEF Ring
<1>8. log' \in Log /\ log'.recording = FALSE /\ log'.qualified = FALSE /\ log'.take = log.take
    BY <1>1, Sizes DEF Log, RingTypes
<1>9. RingTypes'
    BY <1>1, <1>7, <1>8 DEF RingTypes
<1>10. ~armed
    BY <1>1 DEF FlightInv
<1>11. FlightInv'
    <2>1. storage = "SD" => Len(flash.records) = 0
        BY EmptySeq DEF FlightInv
    <2>2. QED
        BY <1>1, <1>2, <1>8, <1>10, <2>1 DEF FlightInv
<1>12. WholeFlash'
    BY <1>1 DEF KeptInv, WholeFlash
<1>13. FillingInv' /\ KeptInv'
    BY <1>1, <1>2, <1>5, <1>8, <1>12 DEF FillingInv, KeptInv
<1>14. QED
    BY <1>9, <1>11, <1>13

LEMMA RingInit == Init => RingInv
<1> SUFFICES ASSUME Init PROVE RingInv
    OBVIOUS
<1> USE DEF Init
<1>1. NO_RECORD \in LogRecord
    BY TakesFacts, Sizes DEF NO_RECORD, LogRecord
<1>2. flash.records = <<>> /\ Len(flash.records) = 0 /\ flash.metadata = 0
    BY DEF BAD_SECTOR
<1>3. flash \in [records : Seq(LogRecord), metadata : Takes]
    BY EmptySeq, TakesFacts DEF BAD_SECTOR
<1>4. ram \in Ring
    BY <1>1, SlotFacts, TakesFacts, Sizes DEF Ring
<1>5. log \in Log /\ log.take = 0 /\ log.recording = FALSE /\ log.qualified = FALSE
    BY TakesFacts, Sizes DEF Log
<1>6. ram.record_count = 0 /\ ram.using_flash = FALSE /\ ram.persist_pending = FALSE
    OBVIOUS
<1>7. powered \in BOOLEAN /\ armed \in BOOLEAN /\ storage \in {"SD", "NONE"} /\ ~armed
    BY Zenon
<1> HIDE DEF Init
<1>8. RingTypes
    BY <1>2, <1>3, <1>4, <1>5, <1>7, Sizes DEF RingTypes
<1>9. QED
    BY <1>2, <1>5, <1>6, <1>7, <1>8 DEF RingInv, FlightInv, FillingInv, KeptInv, WholeFlash

LEMMA NextKeepsRing == RingInv /\ [Next]_vars => RingInv'
<1> SUFFICES ASSUME RingInv, [Next]_vars PROVE RingInv'
    OBVIOUS
<1>1. CASE powered /\ Flight /\ UNCHANGED <<storage, powered>>
    BY <1>1, ArmKeepsRing, DisarmKeepsRing, RecordKeepsRing, InhibitKeepsRing DEF Flight
<1>2. CASE powered /\ flight_log_persist_if_ready /\ UNCHANGED <<storage, powered>>
    BY <1>2, PersistKeepsRing
<1>3. CASE UNCHANGED ringVars
    BY <1>3, RingKept
<1>4. CASE PowerLoss
    BY <1>4, PowerLossKeepsRing
<1>5. CASE PowerUp
    BY <1>5, PowerUpKeepsRing
<1>6. QED
    BY <1>1, <1>2, <1>3, <1>4, <1>5 DEF Next, running, SdUpdate, ringVars, vars

LEMMA RingImpliesWhole == RingInv => RamLogIsWhole
<1> SUFFICES ASSUME RingInv, powered, ~log.recording, ram.record_count > 0
             PROVE  LET items == GetFlightLog
                        final == items[Len(items)]
                    IN  /\ \A i \in 1 .. Len(items) :
                             /\ items[i].take = items[1].take /\ items[i].n = items[1].n + i - 1
                             /\ items[i].stop = (i = Len(items))
                        /\ flight_log_get_metadata = final.take
    BY DEF RamLogIsWhole, flight_log_is_available
<1> USE DEF RingInv
<1> DEFINE items == GetFlightLog
           count == ram.record_count
<1>1. ram \in Ring /\ count \in Nat /\ count > 0 /\ count <= FLIGHT_LOG_CAPACITY
    BY RingFields DEF RingTypes
<1>2. items = [i \in 1 .. count |-> flight_log_get(i - 1)]
    BY DEF GetFlightLog
<1> HIDE DEF items
<1>3. Len(items) = count
    BY <1>1, <1>2
<1> SUFFICES WholeLog(items, flight_log_get_metadata)
    <2>1. ASSUME WholeLog(items, flight_log_get_metadata)
          PROVE  /\ \A i \in 1 .. Len(items) :
                      /\ items[i].take = items[1].take /\ items[i].n = items[1].n + i - 1
                      /\ items[i].stop = (i = Len(items))
                 /\ flight_log_get_metadata = items[Len(items)].take
        <3>1. 1 \in 1 .. Len(items) /\ Len(items) \in 1 .. Len(items)
            BY <1>1, <1>3
        <3>2. QED
            BY <2>1, <3>1 DEF WholeLog
    <2>2. QED
        BY <2>1 DEF items
<1>4. CASE ram.using_flash
    <2>1. count = Len(flash.records) /\ flight_log_get_metadata = flash.metadata
        BY <1>4 DEF KeptInv, flight_log_get_metadata
    <2>2. \A i \in 1 .. count : items[i] = flash.records[i]
        <3>1. ASSUME NEW i \in 1 .. count PROVE items[i] = flash.records[i]
            <4>1. items[i] = flight_log_get(i - 1)
                BY <1>2
            <4>2. i - 1 < Len(flash.records) /\ (i - 1) + 1 = i
                BY <1>1, <2>1
            <4>3. QED
                BY <1>4, <4>1, <4>2 DEF flight_log_get
        <3>2. QED
            BY <3>1
    <2>3. WholeLog(flash.records, flash.metadata)
        BY DEF KeptInv, WholeFlash, WholeLog
    <2>4. 1 \in 1 .. count
        BY <1>1
    <2>5. QED
        BY <1>3, <2>1, <2>2, <2>3, <2>4 DEF WholeLog
<1>5. CASE ~ram.using_flash
    <2>1. WholeRing(ram) /\ flight_log_get_metadata = ram.metadata
        BY <1>5 DEF KeptInv, flight_log_get_metadata
    <2>2. items = image.records /\ image.metadata = ram.metadata
        BY <1>2, <1>5 DEF image, flight_log_get
    <2>3. QED
        BY <2>1, <2>2, ImageIsWhole
<1>6. QED
    BY <1>4, <1>5 DEF RingTypes, Ring

-----------------------------------------------------------------------------
(* The operators of the recorder.                                          *)

LEMMA RecorderFields ==
    ASSUME NEW r \in Recorder
    PROVE  /\ r.next_sector \in Nat /\ r.next_sector <= SECTORS
           /\ r.flight_id \in Takes /\ r.sequence \in Nat /\ r.start \in Nat
           /\ r.blocks \in Nat /\ r.records \in Nat /\ r.current \in Nat /\ r.take \in Takes
           /\ r.queue \in Seq(Block) /\ Len(r.queue) \in Nat /\ Len(r.queue) <= SD_QUEUE_BLOCKS
           /\ r.catalog \in Catalog /\ r.cache \in Cache /\ r.layout \in Layout
           /\ r.queue = <<>> <=> Len(r.queue) = 0
<1>1. r.queue \in Seq(Block) /\ Len(r.queue) <= SD_QUEUE_BLOCKS
    BY DEF Recorder, Queues
<1>2. r.queue = <<>> <=> Len(r.queue) = 0
    BY <1>1, EmptySeq
<1>3. Len(r.queue) \in Nat
    BY <1>1, LenProperties
<1>4. r.next_sector \in Nat /\ r.next_sector <= SECTORS
    BY Sizes DEF Recorder
<1>5. QED
    BY <1>1, <1>2, <1>3, <1>4 DEF Recorder

LEMMA CatalogFields ==
    ASSUME NEW c \in Catalog
    PROVE  /\ c.next_sector \in Nat /\ c.next_sector <= SECTORS /\ c.next_flight_id \in Nat
           /\ c.flights \in Seq(Entry) /\ Len(c.flights) \in Nat
           /\ Len(c.flights) <= SD_CATALOG_FLIGHTS
           /\ \A i \in 1 .. Len(c.flights) : c.flights[i] \in Entry
<1>1. c.flights \in Seq(Entry) /\ Len(c.flights) <= SD_CATALOG_FLIGHTS /\ c.next_flight_id \in Nat
    BY DEF Catalog, Flights
<1>2. c.next_sector \in Nat /\ c.next_sector <= SECTORS
    BY Sizes DEF Catalog
<1>3. QED
    BY <1>1, <1>2, LenProperties, ElementOfSeq

LEMMA EntryFields ==
    ASSUME NEW e \in Entry
    PROVE  /\ e.id \in Takes /\ e.id # 0 /\ e.start \in Nat /\ e.blocks \in Nat /\ e.blocks > 1
           /\ e.records \in Nat /\ e.take \in Takes
BY Sizes, TakesFacts DEF Entry

LEMMA FirstRecordFacts ==
    /\ FirstRecord(0) = 0 /\ FirstRecord(1) = 0
    /\ \A k \in Nat : k > 0 => FirstRecord(k + 1) = FirstRecord(k) + SD_RECORDS_PER_BLOCK
    /\ \A k \in Nat : FirstRecord(k) \in Nat
<1>1. FirstRecord(0) = 0 /\ FirstRecord(1) = 0
    BY Sizes DEF FirstRecord
<1>2. ASSUME NEW k \in Nat, k > 0
      PROVE  FirstRecord(k + 1) = FirstRecord(k) + SD_RECORDS_PER_BLOCK
    <2>1. FirstRecord(k + 1) = k * SD_RECORDS_PER_BLOCK
        BY <1>2 DEF FirstRecord
    <2>2. FirstRecord(k) = (k - 1) * SD_RECORDS_PER_BLOCK
        BY <1>2 DEF FirstRecord
    <2>3. k * SD_RECORDS_PER_BLOCK = (k - 1) * SD_RECORDS_PER_BLOCK + SD_RECORDS_PER_BLOCK
        BY Sizes
    <2>4. QED
        BY <2>1, <2>2, <2>3
<1>3. ASSUME NEW k \in Nat PROVE FirstRecord(k) \in Nat
    BY Sizes DEF FirstRecord
<1>4. QED
    BY <1>1, <1>2, <1>3

LEMMA RecordInBlock ==
    ASSUME NEW i \in Nat
    PROVE  /\ i \div SD_RECORDS_PER_BLOCK \in Nat
           /\ FirstRecord(1 + i \div SD_RECORDS_PER_BLOCK) + (i % SD_RECORDS_PER_BLOCK) = i
<1> DEFINE q == i \div SD_RECORDS_PER_BLOCK
<1>1. q \in Nat
    BY Sizes
<1>2. i = SD_RECORDS_PER_BLOCK * q + (i % SD_RECORDS_PER_BLOCK)
    BY Sizes
<1> HIDE DEF q
<1>3. FirstRecord(1 + q) = q * SD_RECORDS_PER_BLOCK
    BY <1>1 DEF FirstRecord
<1>4. q * SD_RECORDS_PER_BLOCK = SD_RECORDS_PER_BLOCK * q
    BY <1>1, Sizes
<1>5. i % SD_RECORDS_PER_BLOCK \in Nat /\ SD_RECORDS_PER_BLOCK * q \in Nat
    BY <1>1, Sizes
<1>6. FirstRecord(1 + q) + (i % SD_RECORDS_PER_BLOCK) = i
    BY <1>2, <1>3, <1>4, <1>5
<1>7. QED
    BY <1>1, <1>6 DEF q

(* A step that moves no sector of the flights moves no flight.             *)
SameBelow(r, data, r2, data2, limit) ==
    \A s \in Nat : s < limit => Placed(r2, data2, s) = Placed(r, data, s)

LEMMA FlightStays ==
    ASSUME NEW r, NEW data, NEW r2, NEW data2, NEW limit \in Nat, NEW e \in Entry,
           SameBelow(r, data, r2, data2, limit),
           e.start + e.blocks <= limit, InPlace(r, data, e)
    PROVE  InPlace(r2, data2, e)
<1>1. ASSUME NEW k \in 0 .. e.blocks - 1
      PROVE  Placed(r2, data2, e.start + k) = Placed(r, data, e.start + k)
    <2>1. e.start + k \in Nat /\ e.start + k < limit
        BY EntryFields
    <2>2. QED
        BY <2>1 DEF SameBelow
<1>2. QED
    BY <1>1 DEF InPlace

LEMMA QueuedFields ==
    ASSUME NEW r \in Recorder, NEW n \in 0 .. SD_RECORDS_PER_BLOCK, queue_has_room(r),
           r.sequence <= SECTORS + SD_QUEUE_BLOCKS
    PROVE  LET q == queued(r, n)
               b == [id |-> r.flight_id, take |-> r.take, sequence |-> r.sequence,
                     records |-> n, first |-> r.records]
           IN  /\ q \in Recorder /\ b \in Block
               /\ q.queue = Append(r.queue, b) /\ q.sequence = r.sequence + 1
               /\ q.blocks = r.blocks + 1 /\ q.records = r.records + n /\ q.current = 0
               /\ q.state = r.state /\ q.enabled = r.enabled /\ q.next_sector = r.next_sector
               /\ q.flight_id = r.flight_id /\ q.start = r.start /\ q.take = r.take
               /\ q.write_state = r.write_state
               /\ q.catalog_commit_pending = r.catalog_commit_pending
               /\ q.catalog = r.catalog /\ q.cache = r.cache /\ q.layout = r.layout
<1> DEFINE q == queued(r, n)
           b == [id |-> r.flight_id, take |-> r.take, sequence |-> r.sequence,
                 records |-> n, first |-> r.records]
<1>1. b \in Block
    <2>1. r.sequence \in 0 .. SECTORS + SD_QUEUE_BLOCKS
        BY RecorderFields, Sizes
    <2>2. QED
        BY <2>1, RecorderFields DEF Block
<1>2. q = [r EXCEPT !.queue = Append(r.queue, b), !.sequence = r.sequence + 1,
                    !.blocks = r.blocks + 1, !.records = r.records + n, !.current = 0]
    BY DEF queued
<1> HIDE DEF b
<1>3. Append(r.queue, b) \in Queues
    BY <1>1, RecorderFields, AppendProperties, Sizes DEF Queues, queue_has_room
<1>4. r.sequence + 1 \in Nat /\ r.blocks + 1 \in Nat /\ r.records + n \in Nat
    BY RecorderFields, Sizes
<1> HIDE DEF q
<1>5. q \in Recorder
    BY <1>2, <1>3, <1>4 DEF Recorder
<1>6. /\ q.queue = Append(r.queue, b) /\ q.sequence = r.sequence + 1
      /\ q.blocks = r.blocks + 1 /\ q.records = r.records + n /\ q.current = 0
      /\ q.state = r.state /\ q.enabled = r.enabled /\ q.next_sector = r.next_sector
      /\ q.flight_id = r.flight_id /\ q.start = r.start /\ q.take = r.take
      /\ q.write_state = r.write_state
      /\ q.catalog_commit_pending = r.catalog_commit_pending
      /\ q.catalog = r.catalog /\ q.cache = r.cache /\ q.layout = r.layout
    BY <1>2 DEF Recorder
<1>7. QED
    BY <1>1, <1>5, <1>6 DEF q, b

LEMMA PlacesFollow ==
    ASSUME NEW r \in Recorder, NEW q \in Recorder, NEW data, NEW b \in Block,
           q.queue = Append(r.queue, b), q.next_sector = r.next_sector
    PROVE  /\ SameBelow(r, data, q, data, r.next_sector + Len(r.queue))
           /\ Placed(q, data, r.next_sector + Len(r.queue)) = b
           /\ Len(q.queue) = Len(r.queue) + 1 /\ q.queue # <<>>
<1>1. /\ Len(q.queue) = Len(r.queue) + 1 /\ q.queue # <<>>
      /\ \A i \in 1 .. Len(r.queue) : q.queue[i] = r.queue[i]
      /\ q.queue[Len(r.queue) + 1] = b
    <2>1. r.queue \in Seq(Block) /\ Len(r.queue) \in Nat
        BY RecorderFields
    <2>2. /\ Append(r.queue, b) \in Seq(Block) /\ Len(Append(r.queue, b)) = Len(r.queue) + 1
          /\ \A i \in 1 .. Len(r.queue) : Append(r.queue, b)[i] = r.queue[i]
          /\ Append(r.queue, b)[Len(r.queue) + 1] = b
        BY <2>1, AppendProperties
    <2>3. q.queue # <<>>
        <3>1. q.queue = <<>> <=> Len(q.queue) = 0
            BY RecorderFields
        <3>2. QED
            BY <2>1, <2>2, <3>1
    <2>4. QED
        BY <2>2, <2>3
<1>2. ASSUME NEW s \in Nat, s < r.next_sector + Len(r.queue)
      PROVE  Placed(q, data, s) = Placed(r, data, s)
    <2>1. CASE s < r.next_sector
        BY <2>1 DEF Placed
    <2>2. CASE ~(s < r.next_sector)
        <3>1. s - r.next_sector + 1 \in 1 .. Len(r.queue)
            BY <1>2, <2>2, RecorderFields
        <3>2. q.queue[s - r.next_sector + 1] = r.queue[s - r.next_sector + 1]
            BY <1>1, <3>1
        <3>3. QED
            BY <2>2, <3>2 DEF Placed
    <2>3. QED
        BY <2>1, <2>2
<1>3. Placed(q, data, r.next_sector + Len(r.queue)) = b
    <2> DEFINE at == r.next_sector + Len(r.queue)
    <2>1. ~(at < q.next_sector) /\ at - q.next_sector + 1 = Len(r.queue) + 1
        BY RecorderFields
    <2> HIDE DEF at
    <2>2. Placed(q, data, at) = b
        BY <1>1, <2>1 DEF Placed
    <2>3. QED
        BY <2>2 DEF at
<1>4. QED
    BY <1>1, <1>2, <1>3 DEF SameBelow

LEMMA RamKept ==
    ASSUME NEW r \in Recorder, NEW data, NEW r2 \in Recorder, NEW data2, NEW d,
           Active(r), RamInv(r, data, d), r2.catalog = r.catalog,
           r.next_sector + Len(r.queue) <= r2.next_sector + Len(r2.queue),
           SameBelow(r, data, r2, data2, r.next_sector + Len(r.queue))
    PROVE  RamInv(r2, data2, d)
<1> DEFINE limit == r.next_sector + Len(r.queue)
           flight(i) == r.catalog.flights[i]
<1>1. limit \in Nat /\ r2.next_sector + Len(r2.queue) \in Nat
    BY RecorderFields
<1>2. \A i \in 1 .. Len(r.catalog.flights) :
        flight(i) \in Entry /\ flight(i).start + flight(i).blocks <= limit
    BY RecorderFields, CatalogFields DEF RamInv, EndsBy
<1>3. EndsBy(r2.catalog, r2.next_sector + Len(r2.queue))
    <2>1. ASSUME NEW i \in 1 .. Len(r.catalog.flights)
          PROVE  flight(i).start + flight(i).blocks <= r2.next_sector + Len(r2.queue)
        <3>1. flight(i).start + flight(i).blocks \in Nat
            BY <1>2, EntryFields
        <3>2. QED
            BY <1>1, <1>2, <3>1
    <2>2. QED
        BY <2>1 DEF EndsBy
<1>4. ASSUME "ram" \notin d, NEW i \in 1 .. Len(r.catalog.flights)
      PROVE  InPlace(r2, data2, flight(i))
    <2>1. InPlace(r, data, flight(i))
        BY <1>4 DEF RamInv
    <2> HIDE DEF flight
    <2>2. QED
        BY <1>1, <1>2, <2>1, FlightStays
<1>5. QED
    BY <1>3, <1>4 DEF RamInv

(* The recorder took a block of n records into its queue.                  *)
Taken(r, q, c, d, n) ==
    /\ q \in Recorder /\ q.current = 0 /\ q.state = "RECORDING"
    /\ q.catalog = r.catalog /\ q.flight_id = r.flight_id /\ q.take = r.take
    /\ q.start = r.start /\ q.sequence = r.sequence + 1 /\ q.blocks = q.sequence
    /\ q.start + q.sequence = q.next_sector + Len(q.queue)
    /\ q.records = r.records + n
    /\ WriteInv(q) /\ RamInv(q, c.data, d) /\ AboveInv(q, c, d)
    /\ ReadInv(q, c.data, d)
    /\ ~q.catalog_commit_pending /\ ~q.cache.valid /\ ~q.layout.valid
    /\ Recorded(q, c.data, r.sequence)
    /\ IsBlock(Placed(q, c.data, q.start + r.sequence), q.flight_id, q.take,
               r.sequence, n)

LEMMA BlocksFit ==
    ASSUME NEW start \in Nat, NEW blocks \in Nat, NEW sector \in Nat, NEW queued_blocks \in Nat,
           start + blocks = sector + queued_blocks,
           sector <= SECTORS, queued_blocks <= SD_QUEUE_BLOCKS
    PROVE  sector + queued_blocks \in Nat /\ blocks <= SECTORS + SD_QUEUE_BLOCKS
BY Sizes

LEMMA QueueKeeps ==
    ASSUME NEW r \in Recorder, NEW c \in Card, NEW d, NEW n \in 0 .. SD_RECORDS_PER_BLOCK,
           RecorderInv(r, c, d), r.state = "RECORDING", queue_has_room(r),
           NEW q, q = queued(r, n)
    PROVE  Taken(r, q, c, d, n)
<1> DEFINE b == [id |-> r.flight_id, take |-> r.take, sequence |-> r.sequence,
                 records |-> n, first |-> r.records]
           limit == r.next_sector + Len(r.queue)
<1> USE DEF RecorderInv
<1>1. /\ ~r.catalog_commit_pending /\ ~r.cache.valid /\ ~r.layout.valid
      /\ r.sequence > 0 /\ r.blocks = r.sequence /\ r.start + r.sequence = limit
      /\ r.records = FirstRecord(r.sequence)
      /\ Recorded(r, c.data, r.sequence)
    BY DEF RecordingInv
<1>2. Active(r) /\ limit \in Nat /\ r.sequence <= SECTORS + SD_QUEUE_BLOCKS
    <2>1. r.sequence \in Nat /\ r.start \in Nat
        BY RecorderFields
    <2>2. /\ r.next_sector \in Nat /\ r.next_sector <= SECTORS
          /\ Len(r.queue) \in Nat /\ Len(r.queue) <= SD_QUEUE_BLOCKS
        BY RecorderFields
    <2>3. Active(r)
        BY DEF Active
    <2>4. r.start + r.sequence = r.next_sector + Len(r.queue)
        BY <1>1
    <2>5. limit \in Nat /\ r.sequence <= SECTORS + SD_QUEUE_BLOCKS
        BY <2>1, <2>2, <2>4, BlocksFit
    <2>6. QED
        BY <2>3, <2>5
<1>3. /\ q \in Recorder /\ b \in Block
      /\ q.queue = Append(r.queue, b) /\ q.sequence = r.sequence + 1
      /\ q.blocks = r.blocks + 1 /\ q.records = r.records + n /\ q.current = 0
      /\ q.state = r.state /\ q.enabled = r.enabled /\ q.next_sector = r.next_sector
      /\ q.flight_id = r.flight_id /\ q.start = r.start /\ q.take = r.take
      /\ q.write_state = r.write_state
      /\ q.catalog_commit_pending = r.catalog_commit_pending
      /\ q.catalog = r.catalog /\ q.cache = r.cache /\ q.layout = r.layout
    BY <1>2, QueuedFields
<1> HIDE DEF limit
<1>4. b.id = r.flight_id /\ b.take = r.take /\ b.sequence = r.sequence
      /\ b.records = n /\ b.first = r.records
    OBVIOUS
<1> HIDE DEF b
<1>5. /\ SameBelow(r, c.data, q, c.data, limit) /\ Placed(q, c.data, limit) = b
      /\ Len(q.queue) = Len(r.queue) + 1 /\ q.queue # <<>>
    BY <1>3, PlacesFollow DEF limit
<1>6. RamInv(q, c.data, d)
    <2>1. r.next_sector + Len(r.queue) <= q.next_sector + Len(q.queue)
        BY <1>3, <1>5, RecorderFields
    <2>2. QED
        BY <1>2, <1>3, <1>5, <2>1, RamKept DEF limit
<1>7. WriteInv(q)
    BY <1>1, <1>2, <1>3, <1>5 DEF WriteInv, Active
<1>8. AboveInv(q, c, d) /\ ReadInv(q, c.data, d)
    BY <1>1, <1>2, <1>3 DEF AboveInv, ReadInv, Active
<1>9. Recorded(q, c.data, r.sequence)
    <2> SUFFICES ASSUME NEW k \in 0 .. r.sequence - 1
                 PROVE  IsBlock(Placed(q, c.data, q.start + k), q.flight_id, q.take, k,
                                IF k = 0 THEN 0 ELSE SD_RECORDS_PER_BLOCK)
        BY DEF Recorded
    <2>1. r.start + k \in Nat /\ r.start + k < limit
        BY <1>1, RecorderFields
    <2>2. Placed(q, c.data, r.start + k) = Placed(r, c.data, r.start + k)
        BY <1>5, <2>1 DEF SameBelow
    <2>3. QED
        BY <1>1, <1>3, <2>2 DEF Recorded
<1>10. IsBlock(Placed(q, c.data, q.start + r.sequence), q.flight_id, q.take, r.sequence, n)
    BY <1>1, <1>3, <1>4, <1>5 DEF IsBlock
<1>11. q.blocks = q.sequence /\ q.start + q.sequence = q.next_sector + Len(q.queue)
    <2>1. q.next_sector + Len(q.queue) = limit + 1
        <3>1. r.next_sector \in Nat /\ Len(r.queue) \in Nat
            BY RecorderFields
        <3>2. q.next_sector = r.next_sector /\ Len(q.queue) = Len(r.queue) + 1
            BY <1>3, <1>5
        <3>3. r.next_sector + (Len(r.queue) + 1) = r.next_sector + Len(r.queue) + 1
            BY <3>1
        <3>4. QED
            BY <3>2, <3>3 DEF limit
    <2>2. q.start + q.sequence = r.start + r.sequence + 1
        BY <1>3, RecorderFields
    <2>3. QED
        BY <1>1, <1>3, <2>1, <2>2
<1>12. QED
    BY <1>1, <1>3, <1>6, <1>7, <1>8, <1>9, <1>10, <1>11 DEF Taken

SameRecorder(r, q) ==
    /\ q.state = r.state /\ q.next_sector = r.next_sector /\ q.flight_id = r.flight_id
    /\ q.sequence = r.sequence /\ q.start = r.start /\ q.blocks = r.blocks
    /\ q.records = r.records /\ q.take = r.take /\ q.queue = r.queue
    /\ q.write_state = r.write_state /\ q.catalog_commit_pending = r.catalog_commit_pending
    /\ q.catalog = r.catalog /\ q.cache = r.cache /\ q.layout = r.layout

LEMMA SameRecorderKept ==
    ASSUME NEW r, NEW q, NEW c, NEW d, SameRecorder(r, q), RecorderInv(r, c, d)
    PROVE  RecorderInv(q, c, d)
<1> USE DEF SameRecorder, RecorderInv, Active
<1>1. \A s : Placed(q, c.data, s) = Placed(r, c.data, s)
    BY DEF Placed
<1>2. WriteInv(q)
    BY DEF WriteInv
<1>3. RecordingInv(q, c.data)
    BY <1>1 DEF RecordingInv, Recorded
<1>4. RamInv(q, c.data, d)
    BY <1>1 DEF RamInv, InPlace
<1>5. AboveInv(q, c, d)
    BY DEF AboveInv
<1>6. ReadInv(q, c.data, d)
    BY DEF ReadInv
<1>7. QED
    BY <1>2, <1>3, <1>4, <1>5, <1>6

LEMMA CurrentOnly ==
    ASSUME NEW r \in Recorder, NEW n \in Nat
    PROVE  LET q == [r EXCEPT !.current = n]
           IN  q \in Recorder /\ q.current = n /\ SameRecorder(r, q)
BY DEF Recorder, SameRecorder

LEMMA AppendKeeps ==
    ASSUME NEW r \in Recorder, NEW c \in Card, NEW d,
           RecorderInv(r, c, d), r.current < SD_RECORDS_PER_BLOCK
    PROVE  LET a == blackbox_sd_append(r)
           IN  /\ a \in Recorder /\ a.current < SD_RECORDS_PER_BLOCK
               /\ RecorderInv(a, c, d) /\ a.catalog = r.catalog /\ a.state = r.state
<1> DEFINE a == blackbox_sd_append(r)
           more == [r EXCEPT !.current = @ + 1]
<1>1. CASE r.state # "RECORDING"
    <2>1. a = r
        BY <1>1 DEF blackbox_sd_append
    <2>2. QED
        BY <2>1
<1>2. CASE r.state = "RECORDING"
    <2>1. a = IF more.current >= SD_RECORDS_PER_BLOCK THEN queue_current(more) ELSE more
        BY <1>2 DEF blackbox_sd_append
    <2> HIDE DEF a
    <2>2. r.current + 1 \in Nat
        BY RecorderFields
    <2>3. more \in Recorder /\ more.current = r.current + 1 /\ SameRecorder(r, more)
        BY <2>2, CurrentOnly
    <2> HIDE DEF more
    <2>4. RecorderInv(more, c, d) /\ more.state = "RECORDING" /\ more.catalog = r.catalog
        <3>1. more.state = "RECORDING" /\ more.catalog = r.catalog
            BY <1>2, <2>3 DEF SameRecorder
        <3>2. QED
            BY <2>3, <3>1, SameRecorderKept
    <2>5. CASE more.current < SD_RECORDS_PER_BLOCK
        <3>1. a = more
            BY <2>1, <2>3, <2>5, RecorderFields, Sizes
        <3>2. QED
            BY <1>2, <2>4, <2>3, <2>5, <3>1 DEF a
    <2>6. CASE ~(more.current < SD_RECORDS_PER_BLOCK)
        <3>1. more.current = SD_RECORDS_PER_BLOCK /\ more.current # 0
            BY <2>3, <2>6, RecorderFields, Sizes
        <3>2. a = queue_current(more)
            BY <2>1, <3>1, Sizes
        <3>3. CASE queue_has_room(more)
            <4>1. a = queued(more, SD_RECORDS_PER_BLOCK)
                BY <3>1, <3>2, <3>3 DEF queue_current
            <4>2. SD_RECORDS_PER_BLOCK \in 0 .. SD_RECORDS_PER_BLOCK
                BY Sizes
            <4>3. Taken(more, a, c, d, SD_RECORDS_PER_BLOCK)
                BY <2>3, <2>4, <3>3, <4>1, <4>2, QueueKeeps
            <4>4. /\ more.sequence > 0 /\ more.records = FirstRecord(more.sequence)
                  /\ more.flight_id = more.catalog.next_flight_id /\ more.sequence \in Nat
                BY <2>3, <2>4, RecorderFields DEF RecorderInv, RecordingInv
            <4>5. a.records = FirstRecord(a.sequence)
                BY <4>3, <4>4, FirstRecordFacts DEF Taken
            <4>6. Recorded(a, c.data, a.sequence)
                <5> SUFFICES ASSUME NEW k \in 0 .. a.sequence - 1
                             PROVE  IsBlock(Placed(a, c.data, a.start + k), a.flight_id, a.take,
                                            k, IF k = 0 THEN 0 ELSE SD_RECORDS_PER_BLOCK)
                    BY DEF Recorded
                <5>1. CASE k = more.sequence
                    BY <4>3, <4>4, <5>1 DEF Taken
                <5>2. CASE k # more.sequence
                    <6>1. k \in 0 .. more.sequence - 1
                        BY <4>3, <4>4, <5>2 DEF Taken
                    <6>2. QED
                        BY <4>3, <6>1 DEF Recorded, Taken
                <5>3. QED
                    BY <5>1, <5>2
            <4>7. a.flight_id = a.catalog.next_flight_id /\ a.sequence > 0
                BY <4>3, <4>4 DEF Taken
            <4>8. RecordingInv(a, c.data)
                BY <4>3, <4>5, <4>6, <4>7 DEF RecordingInv, Taken
            <4>9. QED
                BY <1>2, <2>4, <4>3, <4>8, Sizes DEF a, RecorderInv, Taken
        <3>4. CASE ~queue_has_room(more)
            <4>1. a = [more EXCEPT !.current = 0]
                BY <3>1, <3>2, <3>4 DEF queue_current
            <4>2. a \in Recorder /\ a.current = 0 /\ SameRecorder(more, a)
                BY <2>3, <4>1, CurrentOnly
            <4>3. RecorderInv(a, c, d) /\ a.catalog = r.catalog /\ a.state = r.state
                <5>1. a.catalog = r.catalog /\ a.state = r.state
                    BY <1>2, <2>4, <4>2 DEF SameRecorder
                <5>2. QED
                    BY <2>4, <4>2, <5>1, SameRecorderKept
            <4>4. QED
                BY <4>2, <4>3, Sizes DEF a
        <3>5. QED
            BY <3>3, <3>4
    <2>7. QED
        BY <2>5, <2>6
<1>3. QED
    BY <1>1, <1>2

LEMMA ConstantFacts ==
    /\ GARBAGE \in Block /\ NO_CACHE \in Cache /\ NO_LAYOUT \in Layout
    /\ NO_CACHE.valid = FALSE /\ NO_LAYOUT.valid = FALSE
    /\ EMPTY_CATALOG \in Catalog /\ EMPTY_CATALOG.flights = <<>> /\ Len(EMPTY_CATALOG.flights) = 0
    /\ EMPTY_CATALOG.next_flight_id = 1 /\ EMPTY_CATALOG.next_sector = 0
    /\ BAD_CATALOG \in Catalog /\ BAD_CATALOG.flights = <<>> /\ Len(BAD_CATALOG.flights) = 0
    /\ BAD_CATALOG.next_flight_id = 0 /\ BAD_CATALOG.next_sector = 0
<1>1. GARBAGE \in Block
    BY Sizes, TakesFacts DEF GARBAGE, Block
<1>2. NO_CACHE \in Cache
    BY <1>1, Sizes DEF NO_CACHE, Cache
<1>3. NO_LAYOUT \in Layout
    BY DEF NO_LAYOUT, Layout
<1>4. NO_CACHE.valid = FALSE /\ NO_LAYOUT.valid = FALSE
    BY DEF NO_CACHE, NO_LAYOUT
<1>5. <<>> \in Flights /\ Len(<<>>) = 0
    BY EmptySeq, Sizes DEF Flights
<1>6. /\ EMPTY_CATALOG \in Catalog /\ EMPTY_CATALOG.flights = <<>>
      /\ EMPTY_CATALOG.next_flight_id = 1 /\ EMPTY_CATALOG.next_sector = 0
    BY <1>5, Sizes DEF EMPTY_CATALOG, Catalog
<1>7. BAD_CATALOG = [next_sector |-> 0, next_flight_id |-> 0, flights |-> <<>>]
    BY DEF BAD_CATALOG, EMPTY_CATALOG
<1>8. /\ BAD_CATALOG \in Catalog /\ BAD_CATALOG.flights = <<>>
      /\ BAD_CATALOG.next_flight_id = 0 /\ BAD_CATALOG.next_sector = 0
    BY <1>5, <1>7, Sizes DEF Catalog
<1>9. QED
    BY <1>1, <1>2, <1>3, <1>4, <1>5, <1>6, <1>8

LEMMA StartKeeps ==
    ASSUME NEW r \in Recorder, NEW c \in Card, NEW d, NEW take \in Takes,
           RecorderInv(r, c, d), r.current < SD_RECORDS_PER_BLOCK,
           r.catalog.next_flight_id <= MAX_TAKES + 1
    PROVE  LET s == blackbox_sd_start(r, take)
           IN  /\ s \in Recorder /\ s.current < SD_RECORDS_PER_BLOCK
               /\ RecorderInv(s, c, d) /\ s.catalog = r.catalog
<1> DEFINE s == blackbox_sd_start(r, take)
<1>1. CASE \/ ~r.enabled \/ r.state # "READY" \/ r.write_state # "IDLE"
           \/ r.queue # <<>> \/ r.catalog_commit_pending
    <2>1. s = r
        BY <1>1 DEF blackbox_sd_start
    <2>2. QED
        BY <2>1
<1>2. CASE ~(\/ ~r.enabled \/ r.state # "READY" \/ r.write_state # "IDLE"
             \/ r.queue # <<>> \/ r.catalog_commit_pending) /\ r.next_sector >= SECTORS
    <2>1. s = [r EXCEPT !.state = "ERROR", !.enabled = FALSE]
        BY <1>2 DEF blackbox_sd_start
    <2> HIDE DEF s
    <2>2. /\ s \in Recorder /\ s.state = "ERROR" /\ s.current = r.current
          /\ s.catalog = r.catalog /\ s.write_state = r.write_state
        BY <2>1 DEF Recorder
    <2>3. s.write_state = "IDLE"
        BY <1>2, <2>2
    <2>4. RecorderInv(s, c, d)
        BY <2>2, <2>3 DEF RecorderInv, WriteInv, RecordingInv, RamInv, AboveInv, ReadInv, Active
    <2>5. QED
        BY <2>2, <2>4 DEF s
<1>3. CASE ~(\/ ~r.enabled \/ r.state # "READY" \/ r.write_state # "IDLE"
             \/ r.queue # <<>> \/ r.catalog_commit_pending) /\ ~(r.next_sector >= SECTORS)
    <2> DEFINE opened == [r EXCEPT !.flight_id = r.catalog.next_flight_id, !.sequence = 0,
                                  !.start = r.next_sector, !.blocks = 0, !.records = 0,
                                  !.current = 0, !.take = take]
               fresh == [opened EXCEPT !.cache = NO_CACHE, !.layout = NO_LAYOUT]
               q == queued(fresh, 0)
               b == [id |-> fresh.flight_id, take |-> fresh.take, sequence |-> fresh.sequence,
                     records |-> 0, first |-> fresh.records]
    <2>1. s = [q EXCEPT !.state = "RECORDING"]
        BY <1>3 DEF blackbox_sd_start, forget_reads
    <2>2. r.catalog.next_flight_id \in Takes /\ 0 \in Nat /\ r.next_sector \in Nat
        BY RecorderFields, CatalogFields, Sizes, TakesFacts
    <2> HIDE DEF s, q, b
    <2>3. /\ opened \in Recorder
          /\ opened.flight_id = r.catalog.next_flight_id /\ opened.sequence = 0
          /\ opened.start = r.next_sector /\ opened.blocks = 0 /\ opened.records = 0
          /\ opened.take = take /\ opened.next_sector = r.next_sector /\ opened.queue = r.queue
          /\ opened.state = r.state /\ opened.write_state = r.write_state
          /\ opened.catalog_commit_pending = r.catalog_commit_pending
          /\ opened.catalog = r.catalog
        BY <2>2 DEF Recorder
    <2> HIDE DEF opened
    <2>4. /\ fresh \in Recorder
          /\ fresh.flight_id = opened.flight_id /\ fresh.sequence = opened.sequence
          /\ fresh.start = opened.start /\ fresh.blocks = opened.blocks
          /\ fresh.records = opened.records /\ fresh.take = opened.take
          /\ fresh.next_sector = opened.next_sector /\ fresh.queue = opened.queue
          /\ fresh.state = opened.state /\ fresh.write_state = opened.write_state
          /\ fresh.catalog_commit_pending = opened.catalog_commit_pending
          /\ fresh.catalog = opened.catalog
          /\ fresh.cache = NO_CACHE /\ fresh.layout = NO_LAYOUT
        BY <2>3, ConstantFacts DEF Recorder
    <2> HIDE DEF fresh
    <2>5. /\ fresh.sequence <= SECTORS + SD_QUEUE_BLOCKS /\ queue_has_room(fresh)
          /\ 0 \in 0 .. SD_RECORDS_PER_BLOCK
        BY <1>3, <2>3, <2>4, RecorderFields, Sizes DEF queue_has_room
    <2>6. /\ q \in Recorder /\ b \in Block
          /\ q.queue = Append(fresh.queue, b) /\ q.sequence = fresh.sequence + 1
          /\ q.blocks = fresh.blocks + 1 /\ q.records = fresh.records + 0 /\ q.current = 0
          /\ q.state = fresh.state /\ q.next_sector = fresh.next_sector
          /\ q.flight_id = fresh.flight_id /\ q.start = fresh.start /\ q.take = fresh.take
          /\ q.write_state = fresh.write_state
          /\ q.catalog_commit_pending = fresh.catalog_commit_pending
          /\ q.catalog = fresh.catalog /\ q.cache = fresh.cache /\ q.layout = fresh.layout
        BY <2>4, <2>5, QueuedFields DEF q, b
    <2>7. /\ b.id = r.catalog.next_flight_id /\ b.take = take /\ b.sequence = 0
          /\ b.records = 0 /\ b.first = 0
        BY <2>3, <2>4 DEF b
    <2>8. /\ s \in Recorder /\ s.state = "RECORDING"
          /\ s.queue = Append(r.queue, b) /\ s.sequence = 1 /\ s.blocks = 1 /\ s.records = 0
          /\ s.current = 0 /\ s.next_sector = r.next_sector
          /\ s.flight_id = r.catalog.next_flight_id /\ s.start = r.next_sector
          /\ s.take = take /\ s.write_state = "IDLE" /\ ~s.catalog_commit_pending
          /\ s.catalog = r.catalog /\ s.cache = NO_CACHE /\ s.layout = NO_LAYOUT
        <3>1. /\ s \in Recorder /\ s.state = "RECORDING"
              /\ s.queue = q.queue /\ s.sequence = q.sequence /\ s.blocks = q.blocks
              /\ s.records = q.records /\ s.current = q.current
              /\ s.next_sector = q.next_sector /\ s.flight_id = q.flight_id
              /\ s.start = q.start /\ s.take = q.take /\ s.write_state = q.write_state
              /\ s.catalog_commit_pending = q.catalog_commit_pending
              /\ s.catalog = q.catalog /\ s.cache = q.cache /\ s.layout = q.layout
            BY <2>1, <2>6 DEF Recorder
        <3>2. s.sequence = 1 /\ s.blocks = 1 /\ s.records = 0
            BY <2>3, <2>4, <2>6, <3>1
        <3>3. ~s.catalog_commit_pending /\ s.write_state = "IDLE"
            BY <1>3, <2>3, <2>4, <2>6, <3>1
        <3>4. QED
            BY <2>3, <2>4, <2>6, <3>1, <3>2, <3>3
    <2> HIDE DEF s
    <2>9. /\ SameBelow(r, c.data, s, c.data, r.next_sector + Len(r.queue))
          /\ Placed(s, c.data, r.next_sector + Len(r.queue)) = b
          /\ Len(s.queue) = Len(r.queue) + 1 /\ s.queue # <<>>
        BY <2>6, <2>8, PlacesFollow
    <2>10. Len(r.queue) = 0 /\ r.next_sector + Len(r.queue) = r.next_sector
        BY <1>3, RecorderFields
    <2>11. WriteInv(s)
        BY <2>8 DEF WriteInv, RecorderInv
    <2>12. RecordingInv(s, c.data)
        <3>1. Recorded(s, c.data, 1)
            <4> SUFFICES ASSUME NEW k \in 0 .. 1 - 1
                         PROVE  IsBlock(Placed(s, c.data, s.start + k), s.flight_id, s.take, k,
                                        IF k = 0 THEN 0 ELSE SD_RECORDS_PER_BLOCK)
                BY DEF Recorded
            <4>1. k = 0 /\ s.start + k = r.next_sector
                BY <2>2, <2>8
            <4>2. Placed(s, c.data, s.start + k) = b
                BY <2>9, <2>10, <4>1
            <4>3. QED
                BY <2>7, <2>8, <4>1, <4>2, FirstRecordFacts DEF IsBlock
        <3>2. s.start + s.sequence = s.next_sector + Len(s.queue)
            BY <2>2, <2>8, <2>9, <2>10
        <3>3. QED
            BY <2>8, <3>1, <3>2, ConstantFacts, FirstRecordFacts DEF RecordingInv
    <2>13. RamInv(s, c.data, d)
        <3>1. Active(r) /\ RamInv(r, c.data, d)
            BY <1>3 DEF Active, RecorderInv
        <3>2. r.next_sector + Len(r.queue) <= s.next_sector + Len(s.queue)
            BY <2>2, <2>8, <2>9, <2>10
        <3>3. QED
            BY <2>8, <2>9, <3>1, <3>2, RamKept
    <2>14. AboveInv(s, c, d)
        BY <1>3, <2>8 DEF AboveInv, Active, RecorderInv
    <2>15. ReadInv(s, c.data, d)
        BY <2>8, ConstantFacts DEF ReadInv
    <2>16. QED
        BY <2>8, <2>11, <2>12, <2>13, <2>14, <2>15, Sizes DEF RecorderInv, s
<1>4. QED
    BY <1>1, <1>2, <1>3

(* The flight that q stops to record, as its catalog entry.                *)
Entered(q) ==
    [id |-> q.flight_id, start |-> q.start, blocks |-> q.blocks, records |-> q.records,
     take |-> q.take]

Finished(r, q, c, d) ==
    /\ q \in Recorder /\ q.current = 0 /\ q.state = "RECORDING"
    /\ q.catalog = r.catalog /\ q.flight_id = q.catalog.next_flight_id
    /\ WriteInv(q) /\ RamInv(q, c.data, d) /\ AboveInv(q, c, d)
    /\ ~q.catalog_commit_pending /\ ~q.cache.valid /\ ~q.layout.valid
    /\ q.start + q.blocks = q.next_sector + Len(q.queue)
    /\ q.records > 0 => q.blocks > 1 /\ InPlace(q, c.data, Entered(q))

LEMMA WholeBlocksFinish ==
    ASSUME NEW r \in Recorder, NEW c \in Card, NEW d, RecorderInv(r, c, d),
           r.state = "RECORDING", r.current = 0
    PROVE  Finished(r, r, c, d)
<1>1. /\ ~r.catalog_commit_pending /\ ~r.cache.valid /\ ~r.layout.valid
      /\ r.flight_id = r.catalog.next_flight_id
      /\ r.sequence > 0 /\ r.blocks = r.sequence /\ r.sequence \in Nat
      /\ r.start + r.sequence = r.next_sector + Len(r.queue)
      /\ r.records = FirstRecord(r.sequence)
      /\ Recorded(r, c.data, r.sequence)
    BY RecorderFields DEF RecorderInv, RecordingInv
<1>2. ASSUME r.records > 0 PROVE r.blocks > 1 /\ InPlace(r, c.data, Entered(r))
    <2>1. r.sequence > 1
        <3>1. FirstRecord(1) = 0
            BY FirstRecordFacts
        <3>2. QED
            BY <1>1, <1>2, <3>1
    <2>2. FirstRecord(r.sequence) - FirstRecord(r.sequence - 1) = SD_RECORDS_PER_BLOCK
        <3>1. r.sequence - 1 \in Nat /\ r.sequence - 1 > 0 /\ r.sequence - 1 + 1 = r.sequence
            BY <1>1, <2>1
        <3>2. FirstRecord(r.sequence) = FirstRecord(r.sequence - 1) + SD_RECORDS_PER_BLOCK
              /\ FirstRecord(r.sequence - 1) \in Nat
            BY <3>1, FirstRecordFacts
        <3>3. QED
            BY <3>2, Sizes
    <2> DEFINE e == Entered(r)
    <2>3. /\ e.id = r.flight_id /\ e.start = r.start /\ e.blocks = r.sequence
          /\ e.records = FirstRecord(r.sequence) /\ e.take = r.take
        BY <1>1 DEF Entered
    <2> HIDE DEF e
    <2>4. ASSUME NEW k \in 0 .. e.blocks - 1
          PROVE  IsBlock(Placed(r, c.data, e.start + k), e.id, e.take, k, Count(e, k))
        <3>1. Count(e, k) = IF k = 0 THEN 0 ELSE SD_RECORDS_PER_BLOCK
            BY <1>1, <2>1, <2>2, <2>3 DEF Count
        <3>2. k \in 0 .. r.sequence - 1
            BY <2>3
        <3>3. QED
            BY <1>1, <2>3, <3>1, <3>2 DEF Recorded
    <2>5. InPlace(r, c.data, e)
        BY <2>4 DEF InPlace
    <2>6. QED
        BY <1>1, <2>1, <2>5 DEF e
<1>3. QED
    BY <1>1, <1>2 DEF Finished, RecorderInv

LEMMA QueueCurrentFinishes ==
    ASSUME NEW r \in Recorder, NEW c \in Card, NEW d, RecorderInv(r, c, d),
           r.state = "RECORDING", r.current < SD_RECORDS_PER_BLOCK,
           NEW q, q = queue_current(r)
    PROVE  Finished(r, q, c, d)
<1>1. CASE r.current = 0
    BY <1>1, WholeBlocksFinish DEF queue_current
<1>2. CASE r.current # 0 /\ queue_has_room(r)
    <2>1. q = queued(r, r.current) /\ r.current \in 0 .. SD_RECORDS_PER_BLOCK
        BY <1>2, RecorderFields, Sizes DEF queue_current
    <2>2. Taken(r, q, c, d, r.current)
        BY <1>2, <2>1, QueueKeeps
    <2>3. /\ r.sequence > 0 /\ r.records = FirstRecord(r.sequence) /\ r.sequence \in Nat
          /\ r.flight_id = r.catalog.next_flight_id /\ r.records \in Nat /\ r.current \in Nat
        BY RecorderFields DEF RecorderInv, RecordingInv
    <2>4. q.blocks > 1
        BY <2>2, <2>3 DEF Taken
    <2> DEFINE e == Entered(q)
    <2>5. /\ e.id = q.flight_id /\ e.start = q.start /\ e.blocks = r.sequence + 1
          /\ e.records = r.records + r.current /\ e.take = q.take
        BY <2>2 DEF Entered, Taken
    <2> HIDE DEF e
    <2>6. ASSUME NEW k \in 0 .. e.blocks - 1
          PROVE  IsBlock(Placed(q, c.data, e.start + k), e.id, e.take, k, Count(e, k))
        <3>1. CASE k = r.sequence
            <4>1. Count(e, k) = r.current
                BY <2>3, <2>5, <3>1 DEF Count
            <4>2. QED
                BY <2>2, <2>5, <3>1, <4>1 DEF Taken
        <3>2. CASE k # r.sequence
            <4>1. k \in 0 .. r.sequence - 1
                BY <2>3, <2>5, <3>2
            <4>2. Count(e, k) = IF k = 0 THEN 0 ELSE SD_RECORDS_PER_BLOCK
                BY <2>3, <2>5, <4>1 DEF Count
            <4>3. QED
                BY <2>2, <2>5, <4>1, <4>2 DEF Recorded, Taken
        <3>3. QED
            BY <3>1, <3>2
    <2>7. InPlace(q, c.data, e)
        BY <2>6 DEF InPlace
    <2>8. QED
        BY <2>2, <2>3, <2>4, <2>7 DEF Finished, Taken, e
<1>3. CASE r.current # 0 /\ ~queue_has_room(r)
    <2>1. q = [r EXCEPT !.current = 0]
        BY <1>3 DEF queue_current
    <2>2. q \in Recorder /\ q.current = 0 /\ SameRecorder(r, q)
        BY <2>1, CurrentOnly
    <2>3. q.state = "RECORDING" /\ q.catalog = r.catalog
        BY <2>2 DEF SameRecorder
    <2>4. Finished(q, q, c, d)
        BY <2>2, <2>3, SameRecorderKept, WholeBlocksFinish
    <2>5. QED
        BY <2>3, <2>4 DEF Finished
<1>4. QED
    BY <1>1, <1>2, <1>3

(* The flights that stay in the catalog when one is added.                 *)
Staying(f) == IF Len(f) >= SD_CATALOG_FLIGHTS THEN Tail(f) ELSE f

Added(f, e, g) ==
    /\ g \in Flights /\ g[Len(g)] = e
    /\ \A i \in 1 .. Len(g) - 1 : \E j \in 1 .. Len(f) : g[i] = f[j]

LEMMA EntryAdded ==
    ASSUME NEW f \in Flights, NEW e \in Entry,
           NEW g, g = Append(Staying(f), e)
    PROVE  Added(f, e, g)
<1> DEFINE kept == Staying(f)
<1>1. f \in Seq(Entry) /\ Len(f) <= SD_CATALOG_FLIGHTS /\ Len(f) \in Nat
    BY LenProperties DEF Flights
<1>2. /\ kept \in Seq(Entry) /\ Len(kept) < SD_CATALOG_FLIGHTS
      /\ \A i \in 1 .. Len(kept) : \E j \in 1 .. Len(f) : kept[i] = f[j]
    <2>1. CASE Len(f) >= SD_CATALOG_FLIGHTS
        <3>1. f # <<>> /\ kept = Tail(f)
            BY <1>1, <2>1, EmptySeq, Sizes DEF Staying
        <3>2. /\ Tail(f) \in Seq(Entry) /\ Len(Tail(f)) = Len(f) - 1
              /\ \A i \in 1 .. Len(Tail(f)) : Tail(f)[i] = f[i + 1]
            BY <1>1, <3>1, HeadTailProperties
        <3>3. \A i \in 1 .. Len(Tail(f)) : i + 1 \in 1 .. Len(f)
            BY <1>1, <3>2
        <3>4. QED
            BY <1>1, <2>1, <3>1, <3>2, <3>3, Sizes
    <2>2. CASE ~(Len(f) >= SD_CATALOG_FLIGHTS)
        <3>1. kept = f
            BY <2>2 DEF Staying
        <3>2. QED
            BY <1>1, <2>2, <3>1, Sizes
    <2>3. QED
        BY <2>1, <2>2
<1> HIDE DEF kept
<1>3. g = Append(kept, e)
    BY DEF kept
<1>4. /\ g \in Seq(Entry) /\ Len(g) = Len(kept) + 1 /\ g[Len(kept) + 1] = e
      /\ \A i \in 1 .. Len(kept) : g[i] = kept[i]
    <2>1. kept \in Seq(Entry)
        BY <1>2
    <2>2. QED
        BY <1>3, <2>1, AppendProperties
<1>5. Len(kept) \in Nat
    BY <1>2, LenProperties
<1>6. Len(g) <= SD_CATALOG_FLIGHTS /\ Len(g) - 1 = Len(kept)
    BY <1>2, <1>4, <1>5, Sizes
<1>7. QED
    BY <1>2, <1>4, <1>6 DEF Flights, Added

(* What the recorder is when a flight has stopped.                         *)
Stopped(r, s, c, d) ==
    /\ s \in Recorder /\ s.current < SD_RECORDS_PER_BLOCK /\ RecorderInv(s, c, d)
    /\ s.state # "RECORDING"
    /\ s.catalog.next_flight_id
         <= r.catalog.next_flight_id + (IF r.state = "RECORDING" THEN 1 ELSE 0)

LEMMA FinishedStops ==
    ASSUME NEW r \in Recorder, NEW c \in Card, NEW d, r.state = "RECORDING",
           NEW q, Finished(r, q, c, d),
           NEW s, s = [q EXCEPT !.state = "READY"]
    PROVE  Stopped(r, s, c, d)
<1>1. q \in Recorder /\ ~q.cache.valid /\ ~q.layout.valid /\ q.state = "RECORDING"
    BY DEF Finished
<1>2. /\ s \in Recorder /\ s.state = "READY" /\ s.current = q.current /\ s.catalog = q.catalog
      /\ s.next_sector = q.next_sector /\ s.queue = q.queue /\ s.write_state = q.write_state
      /\ s.catalog_commit_pending = q.catalog_commit_pending
      /\ s.cache = q.cache /\ s.layout = q.layout
    BY <1>1 DEF Recorder
<1>3. Active(q) /\ Active(s)
    BY <1>1, <1>2 DEF Active
<1>4. WriteInv(s)
    BY <1>2, <1>3 DEF WriteInv, Finished
<1>5. RamInv(s, c.data, d)
    <2>1. \A x : Placed(s, c.data, x) = Placed(q, c.data, x)
        BY <1>2 DEF Placed
    <2>2. QED
        BY <1>2, <1>3, <2>1 DEF RamInv, InPlace, Finished
<1>6. AboveInv(s, c, d)
    BY <1>2, <1>3 DEF AboveInv, Finished
<1>7. ReadInv(s, c.data, d) /\ RecordingInv(s, c.data)
    BY <1>1, <1>2 DEF ReadInv, RecordingInv
<1>8. s.catalog.next_flight_id <= r.catalog.next_flight_id + 1
    BY <1>2, RecorderFields, CatalogFields DEF Finished
<1>9. QED
    BY <1>2, <1>4, <1>5, <1>6, <1>7, <1>8, Sizes DEF Stopped, RecorderInv, Finished

LEMMA EnteredStops ==
    ASSUME NEW r \in Recorder, NEW c \in Card, NEW d, r.state = "RECORDING",
           NEW q, Finished(r, q, c, d), q.records > 0,
           NEW s, s = [append_catalog_entry(q) EXCEPT !.state = "READY"]
    PROVE  Stopped(r, s, c, d)
<1> DEFINE e == Entered(q)
           f == q.catalog.flights
           g == Append(Staying(f), e)
           book == [q.catalog EXCEPT !.flights = g, !.next_flight_id = q.flight_id + 1]
           a == append_catalog_entry(q)
<1>1. /\ q \in Recorder /\ ~q.cache.valid /\ ~q.layout.valid /\ q.state = "RECORDING"
      /\ q.current = 0 /\ ~q.catalog_commit_pending /\ q.catalog = r.catalog
      /\ q.flight_id = q.catalog.next_flight_id /\ q.blocks > 1
      /\ q.start + q.blocks = q.next_sector + Len(q.queue)
      /\ WriteInv(q) /\ RamInv(q, c.data, d) /\ AboveInv(q, c, d)
      /\ InPlace(q, c.data, e)
    BY DEF Finished
<1>2. q.flight_id \in 1 .. MAX_TAKES + 1 /\ q.flight_id + 1 \in Nat
    <2>1. q.flight_id \in 0 .. MAX_TAKES + 1
        BY <1>1, RecorderFields, TakesFacts
    <2>2. q.flight_id # 0
        BY <1>1 DEF WriteInv
    <2>3. QED
        BY <2>1, <2>2, Sizes
<1>3. e \in Entry /\ e.start = q.start /\ e.blocks = q.blocks
    BY <1>1, <1>2, RecorderFields DEF Entered, Entry
<1> HIDE DEF e
<1>4. f \in Flights /\ q.catalog \in Catalog
    BY <1>1, RecorderFields DEF Catalog
<1>5. /\ g \in Flights /\ g[Len(g)] = e
      /\ \A i \in 1 .. Len(g) - 1 : \E j \in 1 .. Len(f) : g[i] = f[j]
    <2> HIDE DEF f, g
    <2>1. g = Append(Staying(f), e)
        BY DEF g
    <2>2. f \in Flights
        BY <1>4
    <2>3. e \in Entry
        BY <1>3
    <2>4. Added(f, e, g)
        BY <2>1, <2>2, <2>3, EntryAdded
    <2>5. QED
        BY <2>4 DEF Added
<1>6. a = [q EXCEPT !.catalog = book, !.catalog_commit_pending = TRUE]
    BY <1>4 DEF append_catalog_entry, Catalog, e, Entered, Staying
<1> HIDE DEF g, a
<1>7. book \in Catalog /\ book.flights = g /\ book.next_flight_id = q.flight_id + 1
    BY <1>2, <1>4, <1>5 DEF Catalog
<1> HIDE DEF book
<1>8. s = [q EXCEPT !.catalog = book, !.catalog_commit_pending = TRUE, !.state = "READY"]
    BY <1>1, <1>6 DEF a, Recorder
<1>9. /\ s \in Recorder /\ s.state = "READY" /\ s.current = 0 /\ s.catalog = book
      /\ s.next_sector = q.next_sector /\ s.queue = q.queue /\ s.write_state = q.write_state
      /\ s.catalog_commit_pending = TRUE /\ s.cache = q.cache /\ s.layout = q.layout
    <2>1. q \in Recorder /\ q.current = 0 /\ book \in Catalog
        BY <1>1, <1>7
    <2>2. s \in Recorder
        <3> DEFINE q1 == [q EXCEPT !.catalog = book]
                   q2 == [q1 EXCEPT !.catalog_commit_pending = TRUE]
        <3>1. q1 \in Recorder
            BY <2>1 DEF Recorder
        <3>2. q2 \in Recorder
            BY <3>1 DEF Recorder
        <3>3. [q2 EXCEPT !.state = "READY"] \in Recorder
            BY <3>2 DEF Recorder
        <3>4. s = [q2 EXCEPT !.state = "READY"]
            BY <1>8, <2>1 DEF Recorder
        <3>5. QED
            BY <3>3, <3>4
    <2>3. s.state = "READY" /\ s.catalog = book /\ s.catalog_commit_pending = TRUE
        BY <1>8, <2>1 DEF Recorder
    <2>4. /\ s.current = q.current /\ s.next_sector = q.next_sector /\ s.queue = q.queue
          /\ s.write_state = q.write_state /\ s.cache = q.cache /\ s.layout = q.layout
        BY <1>8, <2>1 DEF Recorder
    <2>5. QED
        BY <2>1, <2>2, <2>3, <2>4
<1>10. Active(q) /\ Active(s)
    BY <1>1, <1>9 DEF Active
<1>11. WriteInv(s)
    <2>1. q.write_state # "catalog"
        BY <1>1, <1>10 DEF WriteInv
    <2>2. s.catalog.next_flight_id # 0
        BY <1>2, <1>7, <1>9
    <2>3. QED
        BY <1>1, <1>9, <2>1, <2>2 DEF WriteInv
<1>12. RamInv(s, c.data, d)
    <2>1. Len(g) \in Nat
        BY <1>5, LenProperties DEF Flights
    <2>2. ASSUME NEW i \in 1 .. Len(g)
          PROVE  g[i].start + g[i].blocks <= q.next_sector + Len(q.queue)
        <3>1. CASE i = Len(g)
            BY <1>1, <1>3, <1>5, <3>1, RecorderFields
        <3>2. CASE i # Len(g)
            <4>1. i \in 1 .. Len(g) - 1
                BY <2>1, <3>2
            <4>2. PICK j \in 1 .. Len(f) : g[i] = f[j]
                BY <1>5, <4>1
            <4>3. QED
                BY <1>1, <1>10, <4>2 DEF RamInv, EndsBy
        <3>3. QED
            BY <3>1, <3>2
    <2>3. ASSUME "ram" \notin d, NEW i \in 1 .. Len(g)
          PROVE  InPlace(q, c.data, g[i])
        <3>1. CASE i = Len(g)
            BY <1>1, <1>5, <3>1
        <3>2. CASE i # Len(g)
            <4>1. i \in 1 .. Len(g) - 1
                BY <2>1, <3>2
            <4>2. PICK j \in 1 .. Len(f) : g[i] = f[j]
                BY <1>5, <4>1
            <4>3. QED
                BY <1>1, <1>10, <2>3, <4>2 DEF RamInv
        <3>3. QED
            BY <3>1, <3>2
    <2>4. \A x : Placed(s, c.data, x) = Placed(q, c.data, x)
        BY <1>9 DEF Placed
    <2>5. EndsBy(s.catalog, s.next_sector + Len(s.queue))
        BY <1>7, <1>9, <2>2 DEF EndsBy
    <2>6. ASSUME "ram" \notin d, NEW i \in 1 .. Len(s.catalog.flights)
          PROVE  InPlace(s, c.data, s.catalog.flights[i])
        <3>1. InPlace(q, c.data, g[i]) /\ s.catalog.flights[i] = g[i]
            BY <1>7, <1>9, <2>3, <2>6
        <3>2. QED
            BY <2>4, <3>1 DEF InPlace
    <2>7. QED
        BY <2>5, <2>6 DEF RamInv
<1>13. AboveInv(s, c, d)
    BY <1>1, <1>9, <1>10 DEF AboveInv
<1>14. ReadInv(s, c.data, d) /\ RecordingInv(s, c.data)
    BY <1>1, <1>9 DEF ReadInv, RecordingInv
<1>15. s.catalog.next_flight_id <= r.catalog.next_flight_id + 1
    BY <1>1, <1>2, <1>7, <1>9
<1>16. QED
    BY <1>9, <1>11, <1>12, <1>13, <1>14, <1>15, Sizes DEF Stopped, RecorderInv

LEMMA StopKeeps ==
    ASSUME NEW r \in Recorder, NEW c \in Card, NEW d, NEW retain \in BOOLEAN,
           RecorderInv(r, c, d), r.current < SD_RECORDS_PER_BLOCK,
           NEW s, s = blackbox_sd_stop(r, retain)
    PROVE  Stopped(r, s, c, d)
<1>1. CASE r.state # "RECORDING"
    <2>1. s = r
        BY <1>1 DEF blackbox_sd_stop
    <2>2. r.catalog.next_flight_id \in Nat
        BY RecorderFields, CatalogFields
    <2>3. QED
        BY <1>1, <2>1, <2>2 DEF Stopped
<1>2. CASE r.state = "RECORDING" /\ retain
    <2> DEFINE q == queue_current(r)
    <2>1. Finished(r, q, c, d)
        BY <1>2, QueueCurrentFinishes
    <2>2. s = [IF q.records > 0 THEN append_catalog_entry(q) ELSE q EXCEPT !.state = "READY"]
        BY <1>2 DEF blackbox_sd_stop
    <2> HIDE DEF q
    <2>3. CASE q.records > 0
        BY <1>2, <2>1, <2>2, <2>3, EnteredStops
    <2>4. CASE ~(q.records > 0)
        BY <1>2, <2>1, <2>2, <2>4, FinishedStops
    <2>5. QED
        BY <2>3, <2>4
<1>3. CASE r.state = "RECORDING" /\ ~retain
    <2> DEFINE q == [r EXCEPT !.current = 0]
    <2>1. s = [q EXCEPT !.state = "READY"]
        BY <1>3 DEF blackbox_sd_stop
    <2>2. q \in Recorder /\ q.current = 0 /\ SameRecorder(r, q)
        BY CurrentOnly
    <2> HIDE DEF q
    <2>3. q.state = "RECORDING" /\ q.catalog = r.catalog
        BY <1>3, <2>2 DEF SameRecorder
    <2>4. Finished(q, q, c, d)
        BY <2>2, <2>3, SameRecorderKept, WholeBlocksFinish
    <2>5. Finished(r, q, c, d)
        BY <2>3, <2>4 DEF Finished
    <2>6. QED
        BY <1>3, <2>1, <2>5, FinishedStops
<1>4. QED
    BY <1>1, <1>2, <1>3

-----------------------------------------------------------------------------
(* blackbox_sd_update.                                                     *)

(* A recorder that is absent or in error promises next to nothing.         *)
LEMMA InactiveIsSound ==
    ASSUME NEW r, NEW c, NEW d, ~Active(r),
           r.write_state = "IDLE" \/ (r.write_state = "block" => r.queue # <<>> /\ r.next_sector < SECTORS),
           r.catalog.next_flight_id # 0
    PROVE  RecorderInv(r, c, d)
BY DEF RecorderInv, WriteInv, RecordingInv, RamInv, AboveInv, ReadInv, Active

LEMMA ErrorIsSound ==
    ASSUME NEW r \in Recorder, NEW c, NEW d, r.current < SD_RECORDS_PER_BLOCK,
           r.catalog.next_flight_id # 0
    PROVE  /\ Sound(sd_error(r), c, d) /\ sd_error(r).catalog = r.catalog
           /\ sd_error(r).state # "RECORDING"
<1> DEFINE q == sd_error(r)
<1>1. /\ q \in Recorder /\ q.state = "ERROR" /\ q.write_state = "IDLE"
      /\ q.current = r.current /\ q.catalog = r.catalog
    BY DEF sd_error, Recorder
<1> HIDE DEF q
<1>2. ~Active(q)
    BY <1>1 DEF Active
<1>3. RecorderInv(q, c, d)
    BY <1>1, <1>2, InactiveIsSound
<1>4. QED
    BY <1>1, <1>3 DEF Sound, q

LEMMA AbsentIsSound ==
    ASSUME NEW r, NEW c, NEW d, NEW c2, NEW d2, Sound(r, c, d)
    PROVE  LET q == [r EXCEPT !.state = "ABSENT", !.enabled = FALSE]
           IN  Sound(q, c2, d2) /\ q.catalog = r.catalog /\ q.state = "ABSENT"
<1> DEFINE q == [r EXCEPT !.state = "ABSENT", !.enabled = FALSE]
<1>1. /\ q \in Recorder /\ q.state = "ABSENT" /\ q.write_state = r.write_state
      /\ q.current = r.current /\ q.catalog = r.catalog /\ q.queue = r.queue
      /\ q.next_sector = r.next_sector
    BY DEF Sound, Recorder
<1> HIDE DEF q
<1>2. ~Active(q) /\ WriteInv(r)
    BY <1>1 DEF Active, Sound, RecorderInv
<1>3. RecorderInv(q, c2, d2)
    BY <1>1, <1>2, InactiveIsSound DEF WriteInv
<1>4. QED
    BY <1>1, <1>3 DEF Sound, q

LEMMA BlockIssued ==
    ASSUME NEW r, NEW c, NEW d, Sound(r, c, d), r.queue # <<>>, r.next_sector < SECTORS
    PROVE  LET q == [r EXCEPT !.write_state = "block"]
           IN  Sound(q, c, d) /\ q.catalog = r.catalog /\ q.state = r.state
<1> DEFINE q == [r EXCEPT !.write_state = "block"]
<1>1. /\ q \in Recorder /\ q.write_state = "block" /\ q.current = r.current
      /\ q.state = r.state /\ q.next_sector = r.next_sector /\ q.flight_id = r.flight_id
      /\ q.sequence = r.sequence /\ q.start = r.start /\ q.blocks = r.blocks
      /\ q.records = r.records /\ q.take = r.take /\ q.queue = r.queue
      /\ q.catalog_commit_pending = r.catalog_commit_pending
      /\ q.catalog = r.catalog /\ q.cache = r.cache /\ q.layout = r.layout
    BY DEF Sound, Recorder
<1> HIDE DEF q
<1>2. \A s : Placed(q, c.data, s) = Placed(r, c.data, s)
    BY <1>1 DEF Placed
<1>3. RecorderInv(r, c, d)
    BY DEF Sound
<1>4. WriteInv(q)
    BY <1>1, <1>3 DEF WriteInv, RecorderInv
<1>5. RecordingInv(q, c.data)
    BY <1>1, <1>2, <1>3 DEF RecordingInv, Recorded, RecorderInv
<1>6. RamInv(q, c.data, d)
    BY <1>1, <1>2, <1>3 DEF RamInv, InPlace, RecorderInv, Active
<1>7. AboveInv(q, c, d) /\ ReadInv(q, c.data, d)
    BY <1>1, <1>3 DEF AboveInv, ReadInv, RecorderInv, Active
<1>8. QED
    BY <1>1, <1>4, <1>5, <1>6, <1>7 DEF Sound, RecorderInv, q

Stamped(r) == [r EXCEPT !.catalog.next_sector = r.next_sector]

LEMMA StampedFields ==
    ASSUME NEW r \in Recorder
    PROVE  LET q == Stamped(r)
           IN  /\ q \in Recorder /\ q.write_state = r.write_state /\ q.current = r.current
               /\ q.state = r.state /\ q.next_sector = r.next_sector /\ q.queue = r.queue
               /\ q.catalog_commit_pending = r.catalog_commit_pending
               /\ q.catalog.flights = r.catalog.flights
               /\ q.catalog.next_flight_id = r.catalog.next_flight_id
               /\ q.catalog.next_sector = r.next_sector
               /\ q.cache = r.cache /\ q.layout = r.layout
<1> DEFINE book == [r.catalog EXCEPT !.next_sector = r.next_sector]
           q == [r EXCEPT !.catalog = book]
<1>1. Stamped(r) = q
    BY DEF Stamped
<1>2. r.catalog \in Catalog /\ r.next_sector \in 0 .. SECTORS
    BY DEF Recorder
<1>3. /\ book \in Catalog /\ book.flights = r.catalog.flights
      /\ book.next_flight_id = r.catalog.next_flight_id /\ book.next_sector = r.next_sector
    BY <1>2 DEF Catalog
<1> HIDE DEF book
<1>4. /\ q \in Recorder /\ q.write_state = r.write_state /\ q.current = r.current
      /\ q.state = r.state /\ q.next_sector = r.next_sector /\ q.queue = r.queue
      /\ q.catalog_commit_pending = r.catalog_commit_pending /\ q.catalog = book
      /\ q.cache = r.cache /\ q.layout = r.layout
    BY <1>3 DEF Recorder
<1> HIDE DEF q
<1>5. QED
    BY <1>1, <1>3, <1>4

LEMMA CatalogIssued ==
    ASSUME NEW r, NEW c, NEW d, Sound(r, c, d), Active(r), r.queue = <<>>,
           r.catalog_commit_pending
    PROVE  LET q == [Stamped(r) EXCEPT !.write_state = "catalog"]
           IN  /\ Sound(q, c, d) /\ q.catalog.next_flight_id = r.catalog.next_flight_id
               /\ q.state = r.state
<1> DEFINE q == [Stamped(r) EXCEPT !.write_state = "catalog"]
<1>1. r \in Recorder /\ RecorderInv(r, c, d) /\ r.current < SD_RECORDS_PER_BLOCK
    BY DEF Sound
<1>2. /\ q \in Recorder /\ q.write_state = "catalog" /\ q.current = r.current
      /\ q.state = r.state /\ q.next_sector = r.next_sector /\ q.queue = r.queue
      /\ q.catalog_commit_pending = r.catalog_commit_pending
      /\ q.catalog.flights = r.catalog.flights
      /\ q.catalog.next_flight_id = r.catalog.next_flight_id
      /\ q.catalog.next_sector = r.next_sector
      /\ q.cache = r.cache /\ q.layout = r.layout
    <2> DEFINE t == Stamped(r)
    <2>1. /\ t \in Recorder /\ t.write_state = r.write_state /\ t.current = r.current
          /\ t.state = r.state /\ t.next_sector = r.next_sector /\ t.queue = r.queue
          /\ t.catalog_commit_pending = r.catalog_commit_pending
          /\ t.catalog.flights = r.catalog.flights
          /\ t.catalog.next_flight_id = r.catalog.next_flight_id
          /\ t.catalog.next_sector = r.next_sector
          /\ t.cache = r.cache /\ t.layout = r.layout
        BY <1>1, StampedFields
    <2> HIDE DEF t
    <2>2. q = [t EXCEPT !.write_state = "catalog"]
        BY DEF t
    <2> HIDE DEF q
    <2>3. /\ q \in Recorder /\ q.write_state = "catalog" /\ q.current = t.current
          /\ q.state = t.state /\ q.next_sector = t.next_sector /\ q.queue = t.queue
          /\ q.catalog_commit_pending = t.catalog_commit_pending /\ q.catalog = t.catalog
          /\ q.cache = t.cache /\ q.layout = t.layout
        BY <2>1, <2>2 DEF Recorder
    <2>4. QED
        BY <2>1, <2>3
<1> HIDE DEF q
<1>3. r.state # "RECORDING" /\ Active(q)
    BY <1>1, <1>2 DEF RecorderInv, RecordingInv, Active
<1>4. \A s : Placed(q, c.data, s) = Placed(r, c.data, s)
    BY <1>2 DEF Placed
<1>5. WriteInv(q)
    BY <1>1, <1>2, <1>3 DEF WriteInv, RecorderInv
<1>6. RecordingInv(q, c.data)
    BY <1>2, <1>3 DEF RecordingInv
<1>7. RamInv(q, c.data, d)
    BY <1>1, <1>2, <1>3, <1>4 DEF RamInv, InPlace, RecorderInv, EndsBy
<1>8. AboveInv(q, c, d)
    BY <1>1, <1>2, <1>3 DEF AboveInv, RecorderInv
<1>9. ReadInv(q, c.data, d)
    BY <1>1, <1>2, <1>3 DEF ReadInv, RecorderInv
<1>10. QED
    BY <1>1, <1>2, <1>5, <1>6, <1>7, <1>8, <1>9 DEF Sound, RecorderInv, q

LEMMA IssueKeeps ==
    ASSUME UpdateIssue, Sound(sd, card, disowned)
    PROVE  /\ Sound(sd', card, disowned)
           /\ sd'.catalog.next_flight_id = sd.catalog.next_flight_id
           /\ sd'.state \in {sd.state, "ERROR"}
<1>1. /\ sd \in Recorder /\ sd.current < SD_RECORDS_PER_BLOCK
      /\ sd.catalog.next_flight_id # 0 /\ Active(sd)
    BY DEF Sound, RecorderInv, WriteInv, UpdateIssue, Running, Active
<1>2. sd_error(sd).state = "ERROR" /\ sd_error(sd).catalog = sd.catalog
      /\ Sound(sd_error(sd), card, disowned)
    BY <1>1, ErrorIsSound DEF sd_error, Recorder
<1>3. /\ Stamped(sd) \in Recorder /\ Stamped(sd).current < SD_RECORDS_PER_BLOCK
      /\ Stamped(sd).catalog.next_flight_id = sd.catalog.next_flight_id
    BY <1>1, StampedFields
<1>4. /\ sd_error(Stamped(sd)).state = "ERROR"
      /\ sd_error(Stamped(sd)).catalog = Stamped(sd).catalog
      /\ Sound(sd_error(Stamped(sd)), card, disowned)
    <2> DEFINE t == Stamped(sd)
    <2> HIDE DEF t
    <2>1. t \in Recorder /\ t.current < SD_RECORDS_PER_BLOCK /\ t.catalog.next_flight_id # 0
        BY <1>1, <1>3 DEF t
    <2>2. sd_error(t).state = "ERROR"
        BY <2>1 DEF sd_error, Recorder
    <2>3. QED
        BY <2>1, <2>2, ErrorIsSound DEF t
<1>5. CASE /\ sd.queue # <<>> /\ sd.next_sector < SECTORS
           /\ sd' = [sd EXCEPT !.write_state = "block"]
    BY <1>5, BlockIssued
<1>6. CASE sd' = sd_error(sd)
    BY <1>2, <1>6
<1>7. CASE /\ sd.queue = <<>> /\ sd.catalog_commit_pending
           /\ sd' \in {sd_error(Stamped(sd)), [Stamped(sd) EXCEPT !.write_state = "catalog"]}
    <2>1. CASE sd' = sd_error(Stamped(sd))
        BY <1>3, <1>4, <2>1
    <2>2. CASE sd' = [Stamped(sd) EXCEPT !.write_state = "catalog"]
        BY <1>1, <1>7, <2>2, CatalogIssued
    <2>3. QED
        BY <1>7, <2>1, <2>2
<1>8. QED
    BY <1>5, <1>6, <1>7 DEF UpdateIssue, Stamped

(* What becomes of the disowned catalogs when a write leaves the card as c.*)
After(c) ==
    IF c.catalog = card.catalog THEN disowned
    ELSE IF c.catalog = BAD_CATALOG \/ "ram" \notin disowned THEN disowned \ {"card"}
    ELSE disowned \cup {"card"}

LEMMA AfterFacts ==
    ASSUME NEW c, disowned \subseteq {"card", "ram"}
    PROVE  /\ After(c) \subseteq {"card", "ram"}
           /\ "ram" \in After(c) <=> "ram" \in disowned
BY DEF After

LEMMA CardFields ==
    ASSUME NEW c \in Card
    PROVE  /\ c.data \in [0 .. SECTORS - 1 -> Block] /\ c.catalog \in Catalog
           /\ c.present \in BOOLEAN
BY DEF Card

LEMMA BlockPut ==
    ASSUME NEW c \in Card, NEW s \in 0 .. SECTORS - 1, NEW b \in Block
    PROVE  LET c2 == [c EXCEPT !.data[s] = b]
           IN
           /\ c2 \in Card /\ c2.catalog = c.catalog /\ c2.present = c.present
           /\ c2.data[s] = b
           /\ \A x \in 0 .. SECTORS - 1 : x # s => c2.data[x] = c.data[x]
<1> DEFINE more == [c.data EXCEPT ![s] = b]
           c2 == [c EXCEPT !.data[s] = b]
<1>1. c2 = [c EXCEPT !.data = more]
    OBVIOUS
<1> HIDE DEF c2
<1>2. /\ more \in [0 .. SECTORS - 1 -> Block] /\ more[s] = b
      /\ \A x \in 0 .. SECTORS - 1 : x # s => more[x] = c.data[x]
    BY CardFields
<1> HIDE DEF more
<1>3. c2 \in Card /\ c2.catalog = c.catalog /\ c2.present = c.present /\ c2.data = more
    BY <1>1, <1>2 DEF Card
<1>4. QED
    BY <1>2, <1>3 DEF c2

LEMMA CatalogPut ==
    ASSUME NEW c \in Card, NEW book \in Catalog, NEW c2, c2 = [c EXCEPT !.catalog = book]
    PROVE  c2 \in Card /\ c2.catalog = book /\ c2.present = c.present /\ c2.data = c.data
BY DEF Card

(* A block that is written, or half written, over sector s, above the      *)
(* flights that the card's catalog lists.                                  *)
LEMMA BlockOverFree ==
    ASSUME NEW c \in Card, NEW d, CardInv(c, d), NEW s \in 0 .. SECTORS - 1,
           "card" \notin d => EndsBy(c.catalog, s),
           NEW c2 \in Card, c2.catalog = c.catalog,
           \A x \in 0 .. SECTORS - 1 : x # s => c2.data[x] = c.data[x]
    PROVE  CardInv(c2, d)
<1>1. ASSUME "card" \notin d, NEW i \in 1 .. Len(c.catalog.flights)
      PROVE  OnCard(c2.data, c.catalog.flights[i])
    <2> DEFINE e == c.catalog.flights[i]
    <2>1. /\ e \in Entry /\ OnCard(c.data, e) /\ e.start + e.blocks <= s
        BY <1>1, CardFields, CatalogFields DEF CardInv, EndsBy
    <2> HIDE DEF e
    <2>2. ASSUME NEW k \in 0 .. e.blocks - 1
          PROVE  IsBlock(c2.data[e.start + k], e.id, e.take, k, Count(e, k))
        <3>1. e.start + k \in 0 .. SECTORS - 1 /\ e.start + k # s
            BY <2>1, EntryFields, Sizes
        <3>2. c2.data[e.start + k] = c.data[e.start + k]
            BY <3>1
        <3>3. QED
            BY <2>1, <3>2 DEF OnCard
    <2>3. QED
        BY <2>2 DEF OnCard, e
<1>2. QED
    BY <1>1 DEF CardInv

LEMMA PlacesUnderWrite ==
    ASSUME NEW r \in Recorder, NEW c \in Card, NEW c2 \in Card,
           \A x \in 0 .. SECTORS - 1 : x # r.next_sector => c2.data[x] = c.data[x],
           NEW s \in Nat
    PROVE  Placed(r, c2.data, s) = Placed(r, c.data, s)
<1>1. CASE s < r.next_sector
    <2>1. s \in 0 .. SECTORS - 1 /\ s # r.next_sector
        BY <1>1, RecorderFields, Sizes
    <2>2. QED
        BY <2>1 DEF Placed
<1>2. CASE ~(s < r.next_sector)
    BY <1>2 DEF Placed
<1>3. QED
    BY <1>1, <1>2

LEMMA SameUnderWrite ==
    ASSUME NEW r, NEW c \in Card, NEW d, NEW d2, NEW c2 \in Card, Sound(r, c, d), r.queue # <<>>,
           c2.catalog = c.catalog,
           \A x \in 0 .. SECTORS - 1 : x # r.next_sector => c2.data[x] = c.data[x],
           "ram" \in d2 <=> "ram" \in d, "card" \in d2 <=> "card" \in d
    PROVE  Sound(r, c2, d2)
<1>1. r \in Recorder /\ RecorderInv(r, c, d)
    BY DEF Sound
<1>2. \A s \in Nat : Placed(r, c2.data, s) = Placed(r, c.data, s)
    BY <1>1, PlacesUnderWrite
<1>3. RecordingInv(r, c2.data)
    <2>1. ASSUME NEW k \in 0 .. r.sequence - 1
          PROVE  Placed(r, c2.data, r.start + k) = Placed(r, c.data, r.start + k)
        <3>1. r.start + k \in Nat
            BY <1>1, RecorderFields
        <3>2. QED
            BY <1>2, <3>1
    <2>2. Recorded(r, c.data, r.sequence) => Recorded(r, c2.data, r.sequence)
        BY <2>1 DEF Recorded
    <2>3. QED
        BY <1>1, <2>2 DEF RecordingInv, RecorderInv
<1>4. RamInv(r, c2.data, d2)
    <2>1. ASSUME Active(r) PROVE RamInv(r, c2.data, d)
        <3>1. SameBelow(r, c.data, r, c2.data, r.next_sector + Len(r.queue))
            BY <1>2 DEF SameBelow
        <3>2. r.next_sector + Len(r.queue) <= r.next_sector + Len(r.queue)
            BY <1>1, RecorderFields
        <3>3. QED
            BY <1>1, <2>1, <3>1, <3>2, RamKept DEF RecorderInv
    <2>2. QED
        BY <2>1 DEF RamInv
<1>5. AboveInv(r, c2, d2)
    BY <1>1 DEF AboveInv, RecorderInv
<1>6. ReadInv(r, c2.data, d2)
    BY <1>1 DEF ReadInv, RecorderInv
<1>7. QED
    BY <1>1, <1>3, <1>4, <1>5, <1>6 DEF Sound, RecorderInv

LEMMA PlacedIsOnCard ==
    ASSUME NEW r \in Recorder, NEW data, NEW e \in Entry, e.start + e.blocks <= r.next_sector
    PROVE  InPlace(r, data, e) <=> OnCard(data, e)
<1>1. ASSUME NEW k \in 0 .. e.blocks - 1
      PROVE  Placed(r, data, e.start + k) = data[e.start + k]
    <2>1. e.start + k < r.next_sector
        BY EntryFields, RecorderFields
    <2>2. QED
        BY <2>1 DEF Placed
<1>2. QED
    BY <1>1 DEF InPlace, OnCard

(* The catalog that is being written.                                      *)
LEMMA CatalogInFlight ==
    ASSUME NEW r, NEW c, NEW d, Sound(r, c, d), Active(r), r.queue = <<>>
    PROVE  /\ EndsBy(r.catalog, r.next_sector)
           /\ "ram" \notin d =>
                \A i \in 1 .. Len(r.catalog.flights) : OnCard(c.data, r.catalog.flights[i])
<1>1. r \in Recorder /\ RamInv(r, c.data, d)
    BY DEF Sound, RecorderInv
<1>2. r.next_sector + Len(r.queue) = r.next_sector
    BY <1>1, RecorderFields
<1>3. EndsBy(r.catalog, r.next_sector)
    BY <1>1, <1>2 DEF RamInv
<1>4. ASSUME "ram" \notin d, NEW i \in 1 .. Len(r.catalog.flights)
      PROVE  OnCard(c.data, r.catalog.flights[i])
    <2> DEFINE e == r.catalog.flights[i]
    <2>1. e \in Entry /\ e.start + e.blocks <= r.next_sector /\ InPlace(r, c.data, e)
        BY <1>1, <1>3, <1>4, RecorderFields, CatalogFields DEF RamInv, EndsBy
    <2> HIDE DEF e
    <2>2. OnCard(c.data, e)
        BY <1>1, <2>1, PlacedIsOnCard
    <2>3. QED
        BY <2>2 DEF e
<1>5. QED
    BY <1>3, <1>4

LEMMA CatalogOver ==
    ASSUME Sound(sd, card, disowned), SoundCard(card, disowned), Active(sd),
           sd.write_state = "catalog", NEW book \in {sd.catalog, BAD_CATALOG},
           NEW c, c = [card EXCEPT !.catalog = book]
    PROVE  SoundCard(c, After(c)) /\ c.catalog = book /\ c.data = card.data
           /\ c.present = card.present
<1>1. /\ sd \in Recorder /\ card \in Card /\ sd.catalog \in Catalog
      /\ sd.queue = <<>> /\ sd.catalog.next_sector = sd.next_sector
      /\ disowned \subseteq {"card", "ram"} /\ CardInv(card, disowned)
    BY RecorderFields DEF Sound, SoundCard, RecorderInv, WriteInv
<1>2. c \in Card /\ c.catalog = book /\ c.present = card.present /\ c.data = card.data
    BY <1>1, ConstantFacts, CatalogPut
<1>3. CardInv(c, After(c))
    <2>1. CASE book = card.catalog
        BY <1>1, <1>2, <2>1 DEF CardInv, After
    <2>2. CASE book # card.catalog /\ book = BAD_CATALOG
        BY <1>2, <2>2, ConstantFacts DEF CardInv, EndsBy
    <2>3. CASE book # card.catalog /\ book = sd.catalog /\ book # BAD_CATALOG
        <3>1. /\ EndsBy(sd.catalog, sd.next_sector)
              /\ "ram" \notin disowned =>
                   \A i \in 1 .. Len(sd.catalog.flights) : OnCard(card.data, sd.catalog.flights[i])
            BY <1>1, CatalogInFlight
        <3>2. "card" \notin After(c) => "ram" \notin disowned
            BY <1>2, <2>3 DEF After
        <3>3. QED
            BY <1>1, <1>2, <2>3, <3>1, <3>2 DEF CardInv
    <2>4. QED
        BY <2>1, <2>2, <2>3
<1>4. QED
    BY <1>1, <1>2, <1>3, AfterFacts DEF SoundCard

LEMMA BlockOver ==
    ASSUME Sound(sd, card, disowned), SoundCard(card, disowned), Active(sd),
           sd.write_state = "block", NEW b \in Block
    PROVE  LET c == [card EXCEPT !.data[sd.next_sector] = b] IN
           /\ sd.next_sector \in 0 .. SECTORS - 1 /\ sd.queue # <<>>
           /\ SoundCard(c, disowned) /\ After(c) = disowned /\ c.catalog = card.catalog
           /\ c.data[sd.next_sector] = b /\ c.present = card.present
           /\ \A x \in 0 .. SECTORS - 1 : x # sd.next_sector => c.data[x] = card.data[x]
<1> DEFINE c == [card EXCEPT !.data[sd.next_sector] = b]
<1>1. /\ sd \in Recorder /\ card \in Card /\ sd.queue # <<>> /\ sd.next_sector < SECTORS
      /\ disowned \subseteq {"card", "ram"} /\ CardInv(card, disowned)
      /\ AboveInv(sd, card, disowned)
    BY DEF Sound, SoundCard, RecorderInv, WriteInv
<1>2. sd.next_sector \in 0 .. SECTORS - 1
    BY <1>1, RecorderFields, Sizes
<1>3. /\ c \in Card /\ c.catalog = card.catalog /\ c.present = card.present
      /\ c.data[sd.next_sector] = b
      /\ \A x \in 0 .. SECTORS - 1 : x # sd.next_sector => c.data[x] = card.data[x]
    BY <1>1, <1>2, BlockPut
<1> HIDE DEF c
<1>4. "card" \notin disowned => EndsBy(card.catalog, sd.next_sector)
    BY <1>1 DEF AboveInv
<1>5. CardInv(c, disowned)
    BY <1>1, <1>2, <1>3, <1>4, BlockOverFree
<1>6. QED
    BY <1>1, <1>2, <1>3, <1>5 DEF SoundCard, After, c

LEMMA InFlightFacts ==
    ASSUME InFlight, Sound(sd, card, disowned)
    PROVE  /\ Active(sd) /\ sd.write_state \in {"block", "catalog"}
           /\ sd.write_state = "block" => Head(sd.queue) \in Block
<1>1. Active(sd) /\ sd \in Recorder
    BY DEF InFlight, Running, Active, Sound
<1>2. sd.write_state \in {"block", "catalog"}
    BY <1>1 DEF InFlight, Recorder
<1>3. sd.write_state = "block" => sd.queue # <<>>
    BY DEF Sound, RecorderInv, WriteInv
<1>4. sd.queue # <<>> => Head(sd.queue) \in Block
    BY <1>1, RecorderFields, HeadTailProperties
<1>5. QED
    BY <1>1, <1>2, <1>3, <1>4

(* A write that ends, in any way, leaves the card and the recorder sound.  *)
LEMMA CutShortKeeps ==
    ASSUME InFlight, Sound(sd, card, disowned), SoundCard(card, disowned), NEW c \in CutShort
    PROVE  /\ SoundCard(c, After(c)) /\ Sound(sd, c, After(c)) /\ c.present = card.present
           /\ c.catalog.next_flight_id
                \in {card.catalog.next_flight_id, sd.catalog.next_flight_id, 0}
<1>1. /\ Active(sd) /\ sd.write_state \in {"block", "catalog"}
      /\ sd.write_state = "block" => Head(sd.queue) \in Block
    BY InFlightFacts
<1>2. CASE c = card
    BY <1>2 DEF After
<1>3. CASE sd.write_state = "block" /\ c # card
    <2>1. \E b \in Block : c = [card EXCEPT !.data[sd.next_sector] = b]
        BY <1>1, <1>3, ConstantFacts DEF CutShort, Written, Torn
    <2>2. PICK b \in Block : c = [card EXCEPT !.data[sd.next_sector] = b]
        BY <2>1
    <2>3. /\ sd.queue # <<>>
          /\ SoundCard(c, disowned) /\ After(c) = disowned /\ c.catalog = card.catalog
          /\ c.present = card.present
          /\ \A x \in 0 .. SECTORS - 1 : x # sd.next_sector => c.data[x] = card.data[x]
        BY <1>1, <1>3, <2>2, BlockOver
    <2>4. c \in Card /\ card \in Card
        BY <2>3 DEF SoundCard
    <2>5. Sound(sd, c, disowned)
        BY <2>3, <2>4, SameUnderWrite
    <2>6. QED
        BY <2>3, <2>5
<1>4. CASE sd.write_state = "catalog" /\ c # card
    <2>1. PICK book \in {sd.catalog, BAD_CATALOG} : c = [card EXCEPT !.catalog = book]
        BY <1>1, <1>4 DEF CutShort, Written, Torn
    <2>2. SoundCard(c, After(c)) /\ c.catalog = book /\ c.data = card.data
          /\ c.present = card.present
        BY <1>1, <1>4, <2>1, CatalogOver
    <2>3. "ram" \in After(c) <=> "ram" \in disowned
        BY AfterFacts DEF SoundCard
    <2>4. AboveInv(sd, c, After(c))
        BY <1>1, <1>4 DEF AboveInv, Sound, RecorderInv, WriteInv
    <2>5. Sound(sd, c, After(c))
        BY <2>2, <2>3, <2>4 DEF Sound, RecorderInv, RamInv, ReadInv
    <2>6. c.catalog.next_flight_id \in {sd.catalog.next_flight_id, 0}
        BY <2>2, ConstantFacts
    <2>7. QED
        BY <2>2, <2>5, <2>6
<1>5. QED
    BY <1>1, <1>2, <1>3, <1>4

LEMMA BlockDone ==
    ASSUME UpdateDone, sd.write_state = "block",
           Sound(sd, card, disowned), SoundCard(card, disowned)
    PROVE  /\ Sound(sd', card', disowned') /\ SoundCard(card', disowned')
           /\ sd'.catalog = sd.catalog /\ sd'.state = sd.state
           /\ card'.catalog = card.catalog
<1> DEFINE r == sd
           q == sd'
           limit == r.next_sector + Len(r.queue)
<1>1. /\ Active(r) /\ Head(r.queue) \in Block
      /\ q = block_written(r) /\ card' = [card EXCEPT !.data[r.next_sector] = Head(r.queue)]
      /\ disowned' = After(card')
    BY InFlightFacts DEF UpdateDone, Written, disowned_on, After
<1>2. /\ r.next_sector \in 0 .. SECTORS - 1 /\ r.queue # <<>>
      /\ SoundCard(card', disowned) /\ After(card') = disowned /\ card'.catalog = card.catalog
      /\ card'.data[r.next_sector] = Head(r.queue)
      /\ \A x \in 0 .. SECTORS - 1 : x # r.next_sector => card'.data[x] = card.data[x]
    BY <1>1, BlockOver
<1>3. /\ r \in Recorder /\ card \in Card /\ card' \in Card /\ RecorderInv(r, card, disowned)
      /\ r.current < SD_RECORDS_PER_BLOCK
    BY <1>2 DEF Sound, SoundCard
<1>4. /\ r.queue \in Seq(Block) /\ Len(r.queue) \in Nat /\ Len(r.queue) <= SD_QUEUE_BLOCKS
      /\ r.next_sector \in Nat /\ Len(r.queue) > 0
    BY <1>2, <1>3, RecorderFields
<1>5. /\ Tail(r.queue) \in Seq(Block) /\ Len(Tail(r.queue)) = Len(r.queue) - 1
      /\ Head(r.queue) = r.queue[1]
      /\ \A i \in 1 .. Len(Tail(r.queue)) : Tail(r.queue)[i] = r.queue[i + 1]
    BY <1>2, <1>4, HeadTailProperties
<1>6. /\ Tail(r.queue) \in Queues /\ r.next_sector + 1 \in 0 .. SECTORS
    BY <1>2, <1>4, <1>5, Sizes DEF Queues
<1>7. /\ q \in Recorder /\ q.queue = Tail(r.queue) /\ q.next_sector = r.next_sector + 1
      /\ q.write_state = "IDLE" /\ q.current = r.current /\ q.state = r.state
      /\ q.flight_id = r.flight_id /\ q.sequence = r.sequence /\ q.start = r.start
      /\ q.blocks = r.blocks /\ q.records = r.records /\ q.take = r.take
      /\ q.catalog_commit_pending = r.catalog_commit_pending
      /\ q.catalog = r.catalog /\ q.cache = r.cache /\ q.layout = r.layout
    BY <1>1, <1>3, <1>6 DEF block_written, Recorder
<1> HIDE DEF q
<1>8. q.next_sector + Len(q.queue) = limit /\ limit \in Nat
    BY <1>4, <1>5, <1>7
<1>9. ASSUME NEW s \in Nat, s < limit
      PROVE  Placed(q, card'.data, s) = Placed(r, card.data, s)
    <2>1. CASE s < r.next_sector
        <3>1. s \in 0 .. SECTORS - 1 /\ s # r.next_sector
            BY <1>2, <1>4, <1>9, <2>1, Sizes
        <3>2. s < q.next_sector
            BY <1>4, <1>7, <1>9, <2>1
        <3>3. QED
            BY <1>2, <2>1, <3>1, <3>2 DEF Placed
    <2>2. CASE s = r.next_sector
        <3>1. s < q.next_sector /\ ~(s < r.next_sector) /\ s - r.next_sector + 1 = 1
            BY <1>4, <1>7, <2>2
        <3>2. QED
            BY <1>2, <1>5, <2>2, <3>1 DEF Placed
    <2>3. CASE s > r.next_sector
        <3>1. /\ ~(s < q.next_sector) /\ ~(s < r.next_sector)
              /\ s - r.next_sector \in 1 .. Len(Tail(r.queue))
              /\ s - q.next_sector + 1 = s - r.next_sector
            BY <1>4, <1>5, <1>7, <1>9, <2>3
        <3>2. Tail(r.queue)[s - r.next_sector] = r.queue[s - r.next_sector + 1]
            BY <1>5, <3>1
        <3>3. QED
            BY <1>7, <3>1, <3>2 DEF Placed
    <2>4. QED
        BY <1>4, <2>1, <2>2, <2>3
<1>10. WriteInv(q)
    BY <1>3, <1>7 DEF WriteInv, RecorderInv
<1>11. RecordingInv(q, card'.data)
    <2> SUFFICES ASSUME r.state = "RECORDING" PROVE RecordingInv(q, card'.data)
        BY <1>7 DEF RecordingInv
    <2>1. /\ r.start + r.sequence = limit /\ Recorded(r, card.data, r.sequence)
          /\ r.sequence \in Nat /\ r.start \in Nat
        BY <1>3, RecorderFields DEF RecorderInv, RecordingInv
    <2>2. Recorded(q, card'.data, q.sequence)
        <3> SUFFICES ASSUME NEW k \in 0 .. r.sequence - 1
                     PROVE  IsBlock(Placed(q, card'.data, r.start + k), r.flight_id, r.take, k,
                                    IF k = 0 THEN 0 ELSE SD_RECORDS_PER_BLOCK)
            BY <1>7 DEF Recorded
        <3>1. r.start + k \in Nat /\ r.start + k < limit
            BY <2>1
        <3>2. Placed(q, card'.data, r.start + k) = Placed(r, card.data, r.start + k)
            BY <1>9, <3>1
        <3>3. QED
            BY <2>1, <3>2 DEF Recorded
    <2>3. q.start + q.sequence = q.next_sector + Len(q.queue)
        BY <1>7, <1>8, <2>1
    <2>4. QED
        BY <1>3, <1>7, <2>2, <2>3 DEF RecordingInv, RecorderInv
<1>12. RamInv(q, card'.data, disowned)
    <2>1. SameBelow(r, card.data, q, card'.data, limit)
        BY <1>9 DEF SameBelow
    <2>2. RamInv(r, card.data, disowned)
        BY <1>3 DEF RecorderInv
    <2>3. r.next_sector + Len(r.queue) <= q.next_sector + Len(q.queue)
        BY <1>8
    <2>4. QED
        BY <1>1, <1>3, <1>7, <2>1, <2>2, <2>3, RamKept
<1>13. AboveInv(q, card', disowned)
    <2> SUFFICES ASSUME "card" \notin disowned
                 PROVE  EndsBy(card'.catalog, q.next_sector)
        BY DEF AboveInv
    <2>1. EndsBy(card.catalog, r.next_sector)
        BY <1>1, <1>2, <1>3 DEF AboveInv, RecorderInv
    <2>2. ASSUME NEW i \in 1 .. Len(card.catalog.flights)
          PROVE  card.catalog.flights[i].start + card.catalog.flights[i].blocks
                   <= r.next_sector + 1
        <3> DEFINE e == card.catalog.flights[i]
        <3>1. e \in Entry /\ e.start + e.blocks <= r.next_sector
            BY <1>3, <2>1, CardFields, CatalogFields DEF EndsBy
        <3> HIDE DEF e
        <3>2. e.start \in Nat /\ e.blocks \in Nat
            BY <3>1, EntryFields
        <3>3. e.start + e.blocks <= r.next_sector + 1
            BY <1>4, <3>1, <3>2
        <3>4. QED
            BY <3>3 DEF e
    <2>3. QED
        BY <1>2, <1>7, <2>2 DEF EndsBy
<1>14. ReadInv(q, card'.data, disowned)
    BY <1>1, <1>2, <1>3, <1>7 DEF ReadInv, RecorderInv, Active
<1>15. QED
    BY <1>1, <1>2, <1>3, <1>7, <1>10, <1>11, <1>12, <1>13, <1>14 DEF Sound, RecorderInv, q

LEMMA CatalogDone ==
    ASSUME UpdateDone, sd.write_state = "catalog",
           Sound(sd, card, disowned), SoundCard(card, disowned)
    PROVE  /\ Sound(sd', card', disowned') /\ SoundCard(card', disowned')
           /\ sd'.catalog = sd.catalog /\ sd'.state = sd.state
           /\ card'.catalog = sd.catalog
<1> DEFINE r == sd
           q == sd'
<1>1. /\ Active(r) /\ q = catalog_written(r) /\ card' = [card EXCEPT !.catalog = r.catalog]
      /\ disowned' = After(card')
    BY InFlightFacts DEF UpdateDone, Written, disowned_on, After
<1>2. SoundCard(card', After(card')) /\ card'.catalog = r.catalog /\ card'.data = card.data
    BY <1>1, CatalogOver
<1>3. /\ r \in Recorder /\ card \in Card /\ RecorderInv(r, card, disowned)
      /\ r.current < SD_RECORDS_PER_BLOCK
      /\ r.queue = <<>> /\ r.catalog_commit_pending
      /\ "ram" \in disowned' <=> "ram" \in disowned
    BY <1>1, AfterFacts DEF Sound, SoundCard, RecorderInv, WriteInv
<1>4. r.state # "RECORDING"
    BY <1>3 DEF RecorderInv, RecordingInv
<1>5. /\ q \in Recorder /\ q.queue = r.queue /\ q.next_sector = r.next_sector
      /\ q.write_state = "IDLE" /\ q.current = r.current /\ q.state = r.state
      /\ q.catalog = r.catalog /\ q.cache = r.cache /\ q.layout = r.layout
    BY <1>1, <1>3 DEF catalog_written, Recorder
<1> HIDE DEF q
<1>6. \A s : Placed(q, card'.data, s) = Placed(r, card.data, s)
    BY <1>2, <1>5 DEF Placed
<1>7. WriteInv(q) /\ RecordingInv(q, card'.data)
    BY <1>3, <1>4, <1>5 DEF WriteInv, RecordingInv, RecorderInv
<1>8. RamInv(q, card'.data, disowned')
    BY <1>1, <1>3, <1>5, <1>6 DEF RamInv, InPlace, RecorderInv
<1>9. AboveInv(q, card', disowned')
    BY <1>1, <1>2, <1>3, <1>5, CatalogInFlight DEF AboveInv
<1>10. ReadInv(q, card'.data, disowned')
    BY <1>1, <1>2, <1>3, <1>5 DEF ReadInv, RecorderInv
<1>11. QED
    BY <1>1, <1>2, <1>3, <1>5, <1>7, <1>8, <1>9, <1>10 DEF Sound, RecorderInv, q

(* What every step of the recorder and its slot keeps.                     *)
Kept ==
    /\ Sound(sd', card', disowned') /\ SoundCard(card', disowned')
    /\ sd'.catalog.next_flight_id
         \in {sd.catalog.next_flight_id, card.catalog.next_flight_id, 1}
    /\ card'.catalog.next_flight_id
         \in {card.catalog.next_flight_id, sd.catalog.next_flight_id, 0, 2}
    /\ sd'.state = "RECORDING" => sd.state = "RECORDING"

LEMMA UpdateKeeps ==
    ASSUME blackbox_sd_update, Sound(sd, card, disowned), SoundCard(card, disowned)
    PROVE  Kept /\ sd'.catalog.next_flight_id = sd.catalog.next_flight_id
<1>1. CASE UpdateAbsent
    <2>1. sd' = [sd EXCEPT !.state = "ABSENT", !.enabled = FALSE]
          /\ card' = card /\ disowned' = disowned
        BY <1>1 DEF UpdateAbsent
    <2>2. Sound(sd', card, disowned) /\ sd'.catalog = sd.catalog /\ sd'.state = "ABSENT"
        BY <2>1, AbsentIsSound
    <2>3. QED
        BY <2>1, <2>2 DEF Kept
<1>2. CASE UpdateIssue
    <2>1. card' = card /\ disowned' = disowned
        BY <1>2 DEF UpdateIssue
    <2>2. /\ Sound(sd', card, disowned)
          /\ sd'.catalog.next_flight_id = sd.catalog.next_flight_id
          /\ sd'.state \in {sd.state, "ERROR"}
        BY <1>2, IssueKeeps
    <2>3. QED
        BY <2>1, <2>2 DEF Kept
<1>3. CASE UpdateDone
    <2>1. sd.write_state \in {"block", "catalog"}
        BY <1>3, InFlightFacts DEF UpdateDone
    <2>2. QED
        BY <1>3, <2>1, BlockDone, CatalogDone DEF Kept
<1>4. CASE UpdateFailed
    <2>1. /\ InFlight /\ card' \in CutShort /\ sd' = sd_error(sd) /\ disowned' = After(card')
        BY <1>4 DEF UpdateFailed, disowned_on, After
    <2>2. /\ SoundCard(card', After(card'))
          /\ card'.catalog.next_flight_id
               \in {card.catalog.next_flight_id, sd.catalog.next_flight_id, 0}
        BY <2>1, CutShortKeeps
    <2>3. /\ sd \in Recorder /\ sd.current < SD_RECORDS_PER_BLOCK
          /\ sd.catalog.next_flight_id # 0
        BY DEF Sound, RecorderInv, WriteInv
    <2>4. /\ Sound(sd_error(sd), card', After(card')) /\ sd_error(sd).catalog = sd.catalog
          /\ sd_error(sd).state # "RECORDING"
        BY <2>3, ErrorIsSound
    <2>5. QED
        BY <2>1, <2>2, <2>4 DEF Kept
<1>5. QED
    BY <1>1, <1>2, <1>3, <1>4 DEF blackbox_sd_update

-----------------------------------------------------------------------------
(* Probes, mounts, the slot and the power.                                 *)

(* A recorder with nothing to write and nothing read.                      *)
Blank(r) ==
    /\ r \in Recorder /\ r.current < SD_RECORDS_PER_BLOCK
    /\ r.queue = <<>> /\ r.write_state = "IDLE" /\ r.catalog_commit_pending = FALSE
    /\ r.cache.valid = FALSE /\ r.layout.valid = FALSE
    /\ r.catalog.next_flight_id # 0

LEMMA LoadedIsBlank ==
    ASSUME NEW r, Blank(r), card \in Card, NEW l \in load_catalog(r)
    PROVE  /\ Blank(l) /\ l.catalog \in {card.catalog, EMPTY_CATALOG}
           /\ l.next_sector = l.catalog.next_sector
<1>1. CASE acceptable(card.catalog) /\ l = [r EXCEPT !.catalog = card.catalog, !.next_sector = card.catalog.next_sector]
    <2>1. card.catalog \in Catalog /\ card.catalog.next_sector \in 0 .. SECTORS
        BY CardFields DEF Catalog
    <2>2. /\ l \in Recorder /\ l.current = r.current /\ l.queue = r.queue
          /\ l.write_state = r.write_state
          /\ l.catalog_commit_pending = r.catalog_commit_pending
          /\ l.cache = r.cache /\ l.layout = r.layout
          /\ l.catalog = card.catalog /\ l.next_sector = card.catalog.next_sector
        BY <1>1, <2>1 DEF Blank, Recorder
    <2>3. card.catalog.next_flight_id # 0
        BY <1>1 DEF acceptable
    <2>4. QED
        BY <2>2, <2>3 DEF Blank
<1>2. CASE l = reset_catalog(r)
    <2>1. 0 \in 0 .. SECTORS /\ 0 \in Takes
        BY Sizes, TakesFacts
    <2>2. l = [r EXCEPT !.catalog = EMPTY_CATALOG, !.next_sector = 0, !.flight_id = 0]
        BY <1>2 DEF reset_catalog
    <2>3. /\ l \in Recorder /\ l.current = r.current /\ l.queue = r.queue
          /\ l.write_state = r.write_state
          /\ l.catalog_commit_pending = r.catalog_commit_pending
          /\ l.cache = r.cache /\ l.layout = r.layout
          /\ l.catalog = EMPTY_CATALOG /\ l.next_sector = 0
        BY <2>1, <2>2, ConstantFacts DEF Blank, Recorder
    <2>4. QED
        BY <2>3, ConstantFacts DEF Blank
<1>3. QED
    BY <1>1, <1>2 DEF load_catalog

LEMMA LoadedIsSound ==
    ASSUME NEW l, Blank(l), SoundCard(card, disowned),
           l.catalog \in {card.catalog, EMPTY_CATALOG}, l.next_sector = l.catalog.next_sector,
           disowned_by(l.catalog),
           NEW q, q = [l EXCEPT !.state = "READY"]
    PROVE  Sound(q, card, disowned') /\ SoundCard(card, disowned') /\ q.catalog = l.catalog
           /\ q.state = "READY"
<1>1. /\ q \in Recorder /\ q.state = "READY" /\ q.current = l.current /\ q.queue = l.queue
      /\ q.write_state = l.write_state
      /\ q.catalog_commit_pending = l.catalog_commit_pending
      /\ q.cache = l.cache /\ q.layout = l.layout
      /\ q.catalog = l.catalog /\ q.next_sector = l.next_sector
    BY DEF Blank, Recorder
<1>2. /\ q.queue = <<>> /\ q.catalog_commit_pending = FALSE /\ q.write_state = "IDLE"
      /\ q.cache.valid = FALSE /\ q.layout.valid = FALSE
      /\ q.catalog.next_flight_id # 0 /\ q.current < SD_RECORDS_PER_BLOCK
    BY <1>1 DEF Blank
<1>3. card \in Card /\ CardInv(card, disowned)
    BY DEF SoundCard
<1>4. /\ disowned' \subseteq {"card", "ram"}
      /\ l.catalog = card.catalog => /\ "card" \in disowned' <=> "card" \in disowned
                                     /\ "ram" \in disowned' <=> "card" \in disowned
      /\ l.catalog # card.catalog =>
           "card" \in disowned' \/ card.catalog = BAD_CATALOG
    BY DEF disowned_by
<1>5. CardInv(card, disowned')
    <2>1. CASE l.catalog = card.catalog
        BY <1>3, <1>4, <2>1 DEF CardInv
    <2>2. CASE l.catalog # card.catalog
        BY <1>3, <1>4, <2>2, ConstantFacts DEF CardInv, EndsBy
    <2>3. QED
        BY <2>1, <2>2
<1>6. EndsBy(q.catalog, q.next_sector)
    <2>1. CASE l.catalog = card.catalog
        BY <1>1, <1>3, <2>1 DEF CardInv
    <2>2. CASE l.catalog = EMPTY_CATALOG
        BY <1>1, <2>2, ConstantFacts DEF EndsBy
    <2>3. QED
        BY <2>1, <2>2
<1>7. q.next_sector + Len(q.queue) = q.next_sector
    <2>1. Len(q.queue) = 0 /\ q.next_sector \in Nat
        BY <1>1, <1>2, RecorderFields
    <2>2. QED
        BY <2>1
<1>8. ASSUME "ram" \notin disowned', NEW i \in 1 .. Len(q.catalog.flights)
      PROVE  InPlace(q, card.data, q.catalog.flights[i])
    <2>1. CASE q.catalog = card.catalog
        <3> DEFINE e == q.catalog.flights[i]
        <3>1. e \in Entry /\ e.start + e.blocks <= q.next_sector /\ OnCard(card.data, e)
            BY <1>1, <1>3, <1>4, <1>6, <1>8, <2>1, RecorderFields, CatalogFields DEF CardInv, EndsBy
        <3> HIDE DEF e
        <3>2. InPlace(q, card.data, e)
            BY <1>1, <3>1, PlacedIsOnCard
        <3>3. QED
            BY <3>2 DEF e
    <2>2. CASE q.catalog = EMPTY_CATALOG
        BY <1>8, <2>2, ConstantFacts
    <2>3. QED
        BY <1>1, <2>1, <2>2
<1>9. WriteInv(q) /\ RecordingInv(q, card.data) /\ ReadInv(q, card.data, disowned')
    BY <1>1, <1>2 DEF WriteInv, RecordingInv, ReadInv
<1>10. RamInv(q, card.data, disowned')
    BY <1>6, <1>7, <1>8 DEF RamInv
<1>11. AboveInv(q, card, disowned')
    <2>1. CASE l.catalog = card.catalog
        BY <1>1, <1>6, <2>1 DEF AboveInv
    <2>2. CASE l.catalog # card.catalog
        BY <1>4, <2>2, ConstantFacts DEF AboveInv, EndsBy
    <2>3. QED
        BY <2>1, <2>2
<1>12. QED
    BY <1>1, <1>2, <1>3, <1>4, <1>5, <1>9, <1>10, <1>11 DEF Sound, SoundCard, RecorderInv

LEMMA MountKeeps ==
    ASSUME NEW r, Blank(r), SoundCard(card, disowned), Mount(r)
    PROVE  /\ Sound(sd', card, disowned') /\ SoundCard(card, disowned')
           /\ sd'.catalog.next_flight_id
                \in {r.catalog.next_flight_id, card.catalog.next_flight_id, 1}
           /\ sd'.state # "RECORDING"
<1>1. CASE \E loaded \in load_catalog(r) :
             sd' = [loaded EXCEPT !.state = "READY"] /\ disowned_by(loaded.catalog)
    <2>1. PICK l \in load_catalog(r) :
            sd' = [l EXCEPT !.state = "READY"] /\ disowned_by(l.catalog)
        BY <1>1
    <2>2. /\ Blank(l) /\ l.catalog \in {card.catalog, EMPTY_CATALOG}
          /\ l.next_sector = l.catalog.next_sector
        BY LoadedIsBlank DEF SoundCard
    <2>3. /\ Sound(sd', card, disowned') /\ SoundCard(card, disowned')
          /\ sd'.catalog = l.catalog /\ sd'.state = "READY"
        BY <2>1, <2>2, LoadedIsSound
    <2>4. QED
        BY <2>2, <2>3, ConstantFacts
<1>2. CASE sd' = [r EXCEPT !.state = "ERROR"] /\ UNCHANGED disowned
    <2>1. /\ sd' \in Recorder /\ sd'.state = "ERROR" /\ sd'.write_state = r.write_state
          /\ sd'.current = r.current /\ sd'.catalog = r.catalog
        BY <1>2 DEF Blank, Recorder
    <2>2. ~Active(sd') /\ sd'.write_state = "IDLE" /\ sd'.catalog.next_flight_id # 0
          /\ sd'.current < SD_RECORDS_PER_BLOCK
        BY <2>1 DEF Active, Blank
    <2>3. RecorderInv(sd', card, disowned')
        BY <2>2, InactiveIsSound
    <2>4. QED
        BY <1>2, <2>1, <2>2, <2>3 DEF Sound
<1>3. QED
    BY <1>1, <1>2 DEF Mount

LEMMA ForgottenFields ==
    ASSUME NEW r \in Recorder
    PROVE  LET q == forget_reads(r)
           IN  /\ q \in Recorder /\ q.cache = NO_CACHE /\ q.layout = NO_LAYOUT
               /\ q.cache.valid = FALSE /\ q.layout.valid = FALSE
               /\ q.state = r.state /\ q.next_sector = r.next_sector /\ q.queue = r.queue
               /\ q.write_state = r.write_state /\ q.current = r.current
               /\ q.catalog_commit_pending = r.catalog_commit_pending /\ q.catalog = r.catalog
<1>1. forget_reads(r) = [r EXCEPT !.cache = NO_CACHE, !.layout = NO_LAYOUT]
    BY DEF forget_reads
<1> DEFINE q == forget_reads(r)
<1> HIDE DEF q
<1>2. /\ q \in Recorder /\ q.cache = NO_CACHE /\ q.layout = NO_LAYOUT
      /\ q.state = r.state /\ q.next_sector = r.next_sector /\ q.queue = r.queue
      /\ q.write_state = r.write_state /\ q.current = r.current
      /\ q.catalog_commit_pending = r.catalog_commit_pending /\ q.catalog = r.catalog
    BY <1>1, ConstantFacts DEF Recorder, q
<1>3. QED
    BY <1>2, ConstantFacts DEF q

LEMMA ProbeKeeps ==
    ASSUME blackbox_sd_probe, Sound(sd, card, disowned), SoundCard(card, disowned)
    PROVE  Kept
<1>1. card' = card /\ sd.write_state = "IDLE"
    BY DEF blackbox_sd_probe
<1>2. CASE card.present
    <2> DEFINE t == [sd EXCEPT !.queue = <<>>, !.catalog_commit_pending = FALSE, !.current = 0]
               r == forget_reads(t)
    <2>1. Mount(r)
        BY <1>2 DEF blackbox_sd_probe
    <2>2. <<>> \in Queues
        BY EmptySeq, Sizes DEF Queues
    <2>3. /\ t \in Recorder /\ t.queue = <<>> /\ t.catalog_commit_pending = FALSE
          /\ t.current = 0 /\ t.write_state = "IDLE" /\ t.catalog = sd.catalog
        BY <1>1, <2>2 DEF Sound, Recorder
    <2> HIDE DEF t
    <2>4. /\ r \in Recorder /\ r.cache.valid = FALSE /\ r.layout.valid = FALSE
          /\ r.queue = t.queue /\ r.write_state = t.write_state /\ r.current = t.current
          /\ r.catalog_commit_pending = t.catalog_commit_pending /\ r.catalog = t.catalog
        BY <2>3, ForgottenFields
    <2> HIDE DEF r
    <2>5. sd.catalog.next_flight_id # 0
        BY DEF Sound, RecorderInv, WriteInv
    <2>6. Blank(r)
        BY <2>3, <2>4, <2>5, Sizes DEF Blank
    <2>7. /\ Sound(sd', card, disowned') /\ SoundCard(card, disowned')
          /\ sd'.catalog.next_flight_id
               \in {r.catalog.next_flight_id, card.catalog.next_flight_id, 1}
          /\ sd'.state # "RECORDING"
        BY <2>1, <2>6, MountKeeps
    <2>8. QED
        BY <1>1, <2>3, <2>4, <2>7 DEF Kept
<1>3. CASE ~card.present
    <2>1. sd' = [sd EXCEPT !.state = "ABSENT", !.enabled = FALSE] /\ disowned' = disowned
        BY <1>3 DEF blackbox_sd_probe
    <2>2. Sound(sd', card, disowned) /\ sd'.catalog = sd.catalog /\ sd'.state = "ABSENT"
        BY <2>1, AbsentIsSound
    <2>3. QED
        BY <1>1, <2>1, <2>2 DEF Kept
<1>4. QED
    BY <1>2, <1>3

LEMMA EnableKeeps ==
    ASSUME blackbox_sd_set_enabled(TRUE), UNCHANGED <<card, disowned>>,
           Sound(sd, card, disowned), SoundCard(card, disowned)
    PROVE  Kept
<1> DEFINE on == TRUE /\ sd.state = "READY"
<1>1. sd' = [sd EXCEPT !.enabled = on] /\ on \in BOOLEAN /\ sd \in Recorder
    BY DEF blackbox_sd_set_enabled, Sound
<1> HIDE DEF on
<1>2. sd' \in Recorder /\ SameRecorder(sd, sd') /\ sd'.current = sd.current
    BY <1>1 DEF Recorder, SameRecorder
<1>3. RecorderInv(sd', card, disowned)
    BY <1>2, SameRecorderKept DEF Sound
<1>4. QED
    BY <1>2, <1>3 DEF Sound, Kept, SameRecorder

LEMMA ClearKeeps ==
    ASSUME blackbox_sd_clear, Sound(sd, card, disowned), SoundCard(card, disowned)
    PROVE  Kept
<1> DEFINE t == reset_catalog(sd)
           r == forget_reads(t)
           q == sd'
<1>1. /\ card' = card /\ disowned' = disowned \ {"ram"} /\ sd.write_state = "IDLE"
      /\ sd.state = "READY" /\ sd.queue = <<>> /\ sd \in Recorder
      /\ q = [r EXCEPT !.catalog_commit_pending = TRUE]
    BY DEF blackbox_sd_clear, Sound
<1>2. 0 \in 0 .. SECTORS /\ 0 \in Takes
    BY Sizes, TakesFacts
<1>3. t = [sd EXCEPT !.catalog = EMPTY_CATALOG, !.next_sector = 0, !.flight_id = 0]
    BY DEF reset_catalog
<1> HIDE DEF t, q
<1>4. /\ t \in Recorder /\ t.state = "READY" /\ t.queue = <<>> /\ t.write_state = "IDLE"
      /\ t.current = sd.current /\ t.catalog = EMPTY_CATALOG
    BY <1>1, <1>2, <1>3, ConstantFacts DEF Recorder
<1>5. /\ r \in Recorder /\ r.cache.valid = FALSE /\ r.layout.valid = FALSE
      /\ r.state = t.state /\ r.queue = t.queue /\ r.write_state = t.write_state
      /\ r.current = t.current /\ r.catalog = t.catalog
    BY <1>4, ForgottenFields
<1> HIDE DEF r
<1>6. /\ q \in Recorder /\ q.cache = r.cache /\ q.layout = r.layout
      /\ q.state = "READY" /\ q.queue = <<>> /\ q.write_state = "IDLE"
      /\ q.current = sd.current /\ q.catalog = EMPTY_CATALOG
      /\ q.catalog_commit_pending = TRUE
    BY <1>1, <1>4, <1>5 DEF Recorder
<1>7. WriteInv(q) /\ RecordingInv(q, card.data) /\ AboveInv(q, card, disowned')
      /\ ReadInv(q, card.data, disowned')
    BY <1>5, <1>6, ConstantFacts DEF WriteInv, RecordingInv, AboveInv, ReadInv
<1>8. RamInv(q, card.data, disowned')
    BY <1>6, ConstantFacts DEF RamInv, EndsBy
<1>9. SoundCard(card, disowned')
    BY <1>1 DEF SoundCard, CardInv
<1>10. QED
    BY <1>1, <1>6, <1>7, <1>8, <1>9, ConstantFacts DEF Kept, Sound, RecorderInv, q

LEMMA CardSeenOnly ==
    ASSUME NEW c \in Card, NEW b \in BOOLEAN
    PROVE  LET c2 == [c EXCEPT !.present = b]
           IN  c2 \in Card /\ c2.data = c.data /\ c2.catalog = c.catalog
BY DEF Card

LEMMA OtherCard == SoundCard(OTHER_CARD, {}) /\ OTHER_CARD.catalog.next_flight_id = 2
<1> DEFINE block(k) == [id |-> 1, take |-> MAX_TAKES + 1, sequence |-> k, records |-> k,
                        first |-> 0]
           data == [s \in 0 .. SECTORS - 1 |-> IF s < 2 THEN block(s) ELSE GARBAGE]
           e == [id |-> 1, start |-> 0, blocks |-> 2, records |-> 1, take |-> MAX_TAKES + 1]
           book == [next_sector |-> 2, next_flight_id |-> 2, flights |-> <<e>>]
<1>1. OTHER_CARD = [present |-> TRUE, data |-> data, catalog |-> book]
    BY DEF OTHER_CARD
<1>2. ASSUME NEW s \in 0 .. SECTORS - 1, s < 2 PROVE block(s) \in Block
    <2>1. s \in 0 .. SECTORS + SD_QUEUE_BLOCKS /\ s \in 0 .. SD_RECORDS_PER_BLOCK
        BY <1>2, Sizes
    <2>2. 1 \in Takes /\ MAX_TAKES + 1 \in Takes
        BY TakesFacts, Sizes
    <2>3. QED
        BY <2>1, <2>2 DEF Block
<1>3. data \in [0 .. SECTORS - 1 -> Block]
    BY <1>2, ConstantFacts
<1>4. 0 \in 0 .. SECTORS - 1 /\ 1 \in 0 .. SECTORS - 1
    BY Sizes
<1>5. data[0] = block(0) /\ data[1] = block(1)
    BY <1>4
<1>6. e \in Entry
    <2>1. 1 \in 1 .. MAX_TAKES + 1 /\ MAX_TAKES + 1 \in Takes
        BY TakesFacts, Sizes
    <2>2. QED
        BY <2>1 DEF Entry
<1>7. <<e>> \in Flights /\ Len(<<e>>) = 1 /\ <<e>>[1] = e
    BY <1>6, Sizes DEF Flights
<1>8. book \in Catalog
    <2>1. 2 \in 0 .. SECTORS
        BY Sizes
    <2>2. QED
        BY <1>7, <2>1 DEF Catalog
<1>9. e.id = 1 /\ e.start = 0 /\ e.blocks = 2 /\ e.records = 1 /\ e.take = MAX_TAKES + 1
    OBVIOUS
<1>10. /\ block(0).id = 1 /\ block(0).take = MAX_TAKES + 1 /\ block(0).sequence = 0
       /\ block(0).records = 0 /\ block(0).first = 0
       /\ block(1).id = 1 /\ block(1).take = MAX_TAKES + 1 /\ block(1).sequence = 1
       /\ block(1).records = 1 /\ block(1).first = 0
    OBVIOUS
<1> HIDE DEF data, e, block
<1>11. OnCard(data, e)
    <2> SUFFICES ASSUME NEW k \in 0 .. 1
                 PROVE  IsBlock(data[e.start + k], e.id, e.take, k, Count(e, k))
        BY <1>9 DEF OnCard
    <2>1. CASE k = 0
        <3>1. Count(e, 0) = 0 /\ e.start + 0 = 0
            BY <1>9 DEF Count
        <3>2. QED
            BY <1>5, <1>9, <1>10, <2>1, <3>1, FirstRecordFacts DEF IsBlock
    <2>2. CASE k = 1
        <3>1. Count(e, 1) = 1 /\ e.start + 1 = 1
            <4>1. e.blocks - 1 = 1 /\ FirstRecord(1) = 0 /\ ~(1 < 1)
                BY <1>9, FirstRecordFacts
            <4>2. QED
                BY <1>9, <4>1 DEF Count
        <3>2. QED
            BY <1>5, <1>9, <1>10, <2>2, <3>1, FirstRecordFacts DEF IsBlock
    <2>3. QED
        BY <2>1, <2>2
<1>12. /\ OTHER_CARD.data = data /\ OTHER_CARD.catalog = book /\ OTHER_CARD \in Card
    BY <1>1, <1>3, <1>8 DEF Card
<1>13. book.flights = <<e>> /\ book.next_sector = 2 /\ book.next_flight_id = 2
    OBVIOUS
<1> HIDE DEF book
<1>14. CardInv(OTHER_CARD, {})
    <2>1. \A i \in 1 .. Len(book.flights) : book.flights[i] = e
        BY <1>7, <1>13
    <2>2. QED
        BY <1>9, <1>11, <1>12, <1>13, <2>1 DEF CardInv, EndsBy
<1>15. QED
    BY <1>12, <1>13, <1>14 DEF SoundCard

LEMMA CardCutShort ==
    ASSUME Sound(sd, card, disowned), SoundCard(card, disowned),
           NEW c \in IF InFlight THEN CutShort ELSE {card}
    PROVE  /\ SoundCard(c, After(c)) /\ Sound(sd, c, After(c))
           /\ c.catalog.next_flight_id
                \in {card.catalog.next_flight_id, sd.catalog.next_flight_id, 0}
<1>1. CASE InFlight
    BY <1>1, CutShortKeeps
<1>2. CASE ~InFlight
    BY <1>2 DEF After
<1>3. QED
    BY <1>1, <1>2

LEMMA SlotKeeps ==
    ASSUME PullCard \/ PushCard, Sound(sd, card, disowned), SoundCard(card, disowned)
    PROVE  Kept /\ sd' = sd
<1>1. CASE PullCard
    <2>1. PICK c \in (IF InFlight THEN CutShort ELSE {card}) : card' = [c EXCEPT !.present = FALSE]
        BY <1>1 DEF PullCard
    <2>2. sd' = sd /\ disowned' = After(card')
        BY <1>1 DEF PullCard, disowned_on, After
    <2>3. /\ SoundCard(c, After(c)) /\ Sound(sd, c, After(c))
          /\ c.catalog.next_flight_id
               \in {card.catalog.next_flight_id, sd.catalog.next_flight_id, 0}
        BY CardCutShort
    <2>4. card' \in Card /\ card'.data = c.data /\ card'.catalog = c.catalog
        BY <2>1, <2>3, CardSeenOnly DEF SoundCard
    <2>5. After(card') = After(c)
        BY <2>4 DEF After
    <2>6. SoundCard(card', After(c)) /\ Sound(sd, card', After(c))
        BY <2>3, <2>4 DEF SoundCard, Sound, CardInv, RecorderInv, AboveInv
    <2>7. QED
        BY <2>2, <2>3, <2>4, <2>5, <2>6 DEF Kept
<1>2. CASE PushCard /\ card' = [card EXCEPT !.present = TRUE] /\ UNCHANGED disowned
    <2>1. sd' = sd /\ disowned' = disowned
        BY <1>2 DEF PushCard
    <2>2. card' \in Card /\ card'.data = card.data /\ card'.catalog = card.catalog
        BY <1>2, CardSeenOnly DEF SoundCard
    <2>3. SoundCard(card', disowned) /\ Sound(sd, card', disowned)
        BY <2>2 DEF SoundCard, Sound, CardInv, RecorderInv, AboveInv
    <2>4. QED
        BY <2>1, <2>2, <2>3 DEF Kept
<1>3. CASE PushCard /\ card' = OTHER_CARD /\ disowned' = {}
    <2>1. sd' = sd /\ sd.state = "ABSENT"
        BY <1>3 DEF PushCard
    <2>2. ~Active(sd) /\ WriteInv(sd) /\ sd \in Recorder /\ sd.current < SD_RECORDS_PER_BLOCK
        BY <2>1 DEF Active, Sound, RecorderInv
    <2>3. RecorderInv(sd, card', disowned')
        BY <2>2, InactiveIsSound DEF WriteInv
    <2>4. Sound(sd, card', disowned')
        BY <2>2, <2>3 DEF Sound
    <2>5. QED
        BY <1>3, <2>1, <2>4, OtherCard DEF Kept
<1>4. QED
    BY <1>1, <1>2, <1>3 DEF PushCard

LEMMA InitIsBlank ==
    /\ Blank(blackbox_sd_init) /\ blackbox_sd_init.state = "ABSENT"
    /\ blackbox_sd_init.enabled = FALSE /\ blackbox_sd_init.catalog = EMPTY_CATALOG
<1> DEFINE r == blackbox_sd_init
<1>1. <<>> \in Queues /\ 0 \in 0 .. SECTORS /\ 0 \in Takes
    BY EmptySeq, Sizes, TakesFacts DEF Queues
<1>2. r \in Recorder
    BY <1>1, ConstantFacts DEF blackbox_sd_init, Recorder
<1>3. /\ r.state = "ABSENT" /\ r.enabled = FALSE /\ r.catalog = EMPTY_CATALOG
      /\ r.current = 0 /\ r.queue = <<>> /\ r.write_state = "IDLE"
      /\ r.catalog_commit_pending = FALSE /\ r.cache = NO_CACHE /\ r.layout = NO_LAYOUT
    BY DEF blackbox_sd_init
<1> HIDE DEF r
<1>4. QED
    BY <1>2, <1>3, ConstantFacts, Sizes DEF Blank, r

LEMMA SdPowerLossKeeps ==
    ASSUME SdPowerLoss, Sound(sd, card, disowned), SoundCard(card, disowned)
    PROVE  Kept
<1>1. /\ card' \in (IF InFlight THEN CutShort ELSE {card}) /\ sd' = blackbox_sd_init
      /\ disowned' = After(card')
    BY DEF SdPowerLoss, disowned_on, After
<1>2. /\ SoundCard(card', After(card'))
      /\ card'.catalog.next_flight_id
           \in {card.catalog.next_flight_id, sd.catalog.next_flight_id, 0}
    BY <1>1, CardCutShort
<1>3. Blank(sd') /\ sd'.state = "ABSENT" /\ sd'.catalog = EMPTY_CATALOG
    BY <1>1, InitIsBlank
<1>4. ~Active(sd') /\ sd'.write_state = "IDLE" /\ sd'.catalog.next_flight_id # 0
    BY <1>3 DEF Active, Blank
<1>5. RecorderInv(sd', card', disowned')
    BY <1>4, InactiveIsSound
<1>6. QED
    BY <1>1, <1>2, <1>3, <1>5, ConstantFacts DEF Kept, Sound, Blank

LEMMA SdPowerUpKeeps ==
    ASSUME SdPowerUp, sd = blackbox_sd_init, Sound(sd, card, disowned), SoundCard(card, disowned)
    PROVE  Kept
<1>1. card' = card
    BY DEF SdPowerUp
<1>2. CASE card.present
    <2>1. Mount(sd) /\ Blank(sd)
        BY <1>2, InitIsBlank DEF SdPowerUp
    <2>2. /\ Sound(sd', card, disowned') /\ SoundCard(card, disowned')
          /\ sd'.catalog.next_flight_id
               \in {sd.catalog.next_flight_id, card.catalog.next_flight_id, 1}
          /\ sd'.state # "RECORDING"
        BY <2>1, MountKeeps
    <2>3. QED
        BY <1>1, <2>2 DEF Kept
<1>3. CASE ~card.present
    BY <1>1, <1>3 DEF SdPowerUp, Kept
<1>4. QED
    BY <1>2, <1>3

-----------------------------------------------------------------------------
(* Reading back.                                                           *)

Owned == "ram" \notin disowned

CacheOk(cache) ==
    /\ cache \in Cache
    /\ cache.valid /\ Owned => cache.block \in {card.data[cache.sector], GARBAGE}

LayoutOk(layout) ==
    /\ layout \in Layout
    /\ layout.valid /\ Owned =>
         \A i \in 1 .. Len(sd.catalog.flights) :
             sd.catalog.flights[i].id = layout.id => layout.metadata = 1

(* A flight that the catalog in RAM lists.                                 *)
Listed(e) == e \in Entry /\ e.start + e.blocks <= SECTORS /\ (Owned => OnCard(card.data, e))

(* The record at i of flight e, in the block that a read left in the cache.*)
IsRecord(cache, e, i) ==
    cache.block.take = e.take /\ cache.block.first + (i % SD_RECORDS_PER_BLOCK) = i

LEMMA TaggedFields ==
    ASSUME NEW r, r = [ok |-> r.ok, cache |-> r.cache], r.ok \in BOOLEAN, r.cache \in Cache,
           NEW s \in 0 .. SECTORS - 1
    PROVE  LET t == tagged(r, s)
           IN  /\ t.ok = r.ok /\ t.cache \in Cache /\ t.cache.block = r.cache.block
               /\ r.ok => t.cache.sector = s
               /\ ~r.ok => t = r
               /\ t = [ok |-> t.ok, cache |-> t.cache]
<1> DEFINE t == tagged(r, s)
           c == [r.cache EXCEPT !.valid = TRUE, !.sector = s]
<1>1. CASE r.ok
    <2>1. t = [r EXCEPT !.cache = c]
        BY <1>1 DEF tagged
    <2>2. c \in Cache /\ c.block = r.cache.block /\ c.sector = s
        BY DEF Cache
    <2> HIDE DEF c, t
    <2>3. t = [ok |-> r.ok, cache |-> c]
        BY <2>1
    <2>4. t.ok = r.ok /\ t.cache = c
        BY <2>3
    <2>5. QED
        BY <1>1, <2>2, <2>3, <2>4 DEF t
<1>2. CASE ~r.ok
    <2>1. t = r
        BY <1>2 DEF tagged
    <2>2. QED
        BY <1>2, <2>1
<1>3. QED
    BY <1>1, <1>2

(* What a read of sector s leaves.                                         *)
ReadOf(r, s) ==
    /\ r = [ok |-> r.ok, cache |-> r.cache] /\ r.ok \in BOOLEAN /\ r.cache \in Cache
    /\ r.ok => r.cache.block = card.data[s]
    /\ ~r.ok => CacheOk(r.cache)
    /\ CacheOk(tagged(r, s).cache) /\ tagged(r, s).ok = r.ok
    /\ tagged(r, s).cache.block = r.cache.block

LEMMA SectorRead ==
    ASSUME card \in Card, NEW cache, CacheOk(cache), NEW s \in 0 .. SECTORS - 1,
           NEW r \in read_sector(cache, s)
    PROVE  ReadOf(r, s)
<1>1. cache \in Cache /\ card.data[s] \in Block /\ GARBAGE \in Block
    BY CardFields, ConstantFacts DEF CacheOk
<1>2. ASSUME NEW b \in Block
      PROVE  /\ [cache EXCEPT !.block = b] \in Cache
             /\ [cache EXCEPT !.block = b].block = b
             /\ [cache EXCEPT !.block = b].valid = cache.valid
             /\ [cache EXCEPT !.block = b].sector = cache.sector
    BY <1>1 DEF Cache
<1>3. CASE r = [ok |-> FALSE, cache |-> cache]
    <2>1. r.ok = FALSE /\ r.cache = cache
        BY <1>3
    <2>2. tagged(r, s) = r
        BY <2>1 DEF tagged
    <2>3. QED
        BY <1>1, <1>3, <2>1, <2>2 DEF ReadOf
<1>4. CASE r = [ok |-> FALSE, cache |-> [cache EXCEPT !.block = GARBAGE]]
    <2>1. tagged(r, s) = r /\ r.ok = FALSE /\ r.cache = [cache EXCEPT !.block = GARBAGE]
        BY <1>4 DEF tagged
    <2>2. CacheOk(r.cache)
        BY <1>1, <1>2, <2>1 DEF CacheOk
    <2>3. QED
        BY <1>1, <1>2, <1>4, <2>1, <2>2 DEF ReadOf
<1>5. CASE r = [ok |-> TRUE, cache |-> [cache EXCEPT !.block = card.data[s]]]
    <2> DEFINE c == [cache EXCEPT !.block = card.data[s]]
               t == tagged(r, s)
    <2>1. c \in Cache /\ c.block = card.data[s]
        BY <1>1, <1>2
    <2>2. r = [ok |-> TRUE, cache |-> c] /\ r.ok = TRUE /\ r.cache = c
        BY <1>5
    <2> HIDE DEF c, t
    <2>3. t.ok = TRUE /\ t.cache \in Cache /\ t.cache.block = c.block /\ t.cache.sector = s
        BY <2>1, <2>2, TaggedFields DEF t
    <2>4. CacheOk(t.cache)
        BY <2>1, <2>3 DEF CacheOk
    <2>5. QED
        BY <2>1, <2>2, <2>3, <2>4 DEF ReadOf, t
<1>6. QED
    BY <1>3, <1>4, <1>5 DEF read_sector

LEMMA SectorCached ==
    ASSUME card \in Card, NEW cache, CacheOk(cache), NEW s \in 0 .. SECTORS - 1,
           NEW r \in cached_sector(cache, s)
    PROVE  /\ r.ok \in BOOLEAN /\ CacheOk(r.cache) /\ r = [ok |-> r.ok, cache |-> r.cache]
           /\ r.ok /\ Owned => r.cache.block \in {card.data[s], GARBAGE}
<1>1. CASE cache.valid /\ cache.sector = s
    <2>1. r = [ok |-> TRUE, cache |-> cache]
        BY <1>1 DEF cached_sector
    <2>2. QED
        BY <1>1, <2>1 DEF CacheOk
<1>2. CASE ~(cache.valid /\ cache.sector = s)
    <2>1. PICK q \in read_sector(cache, s) : r = tagged(q, s)
        BY <1>2 DEF cached_sector
    <2>2. ReadOf(q, s)
        BY SectorRead
    <2>3. r = [ok |-> r.ok, cache |-> r.cache]
        BY <2>1, <2>2, TaggedFields DEF ReadOf
    <2>4. QED
        BY <2>1, <2>2, <2>3 DEF ReadOf
<1>3. QED
    BY <1>1, <1>2

LEMMA RecordAt ==
    ASSUME card \in Card, NEW cache, CacheOk(cache), NEW e, Listed(e), NEW i \in Nat,
           NEW metadata \in Nat, NEW r \in record_at(cache, e, i, metadata)
    PROVE  /\ CacheOk(r.cache)
           /\ r.ok /\ Owned /\ metadata = 1 => IsRecord(r.cache, e, i)
<1> DEFINE n == metadata + i \div SD_RECORDS_PER_BLOCK
<1>1. i \div SD_RECORDS_PER_BLOCK \in Nat
    BY RecordInBlock
<1>2. n \in Nat
    BY <1>1
<1>3. CASE n >= e.blocks
    <2>1. r = [ok |-> FALSE, cache |-> cache]
        BY <1>3 DEF record_at
    <2>2. QED
        BY <2>1
<1>4. CASE ~(n >= e.blocks)
    <2>1. PICK q \in cached_sector(cache, e.start + n) :
            r = [q EXCEPT !.ok = q.ok /\ holds_record(q.cache.block, e.id, n, i)]
        BY <1>4 DEF record_at
    <2> DEFINE holds == holds_record(q.cache.block, e.id, n, i)
    <2> HIDE DEF n
    <2>2. e \in Entry /\ n \in 0 .. e.blocks - 1 /\ e.start + n \in 0 .. SECTORS - 1
        BY <1>2, <1>4, EntryFields, Sizes DEF Listed
    <2>3. /\ q.ok \in BOOLEAN /\ CacheOk(q.cache) /\ q = [ok |-> q.ok, cache |-> q.cache]
          /\ q.ok /\ Owned => q.cache.block \in {card.data[e.start + n], GARBAGE}
        BY <2>2, SectorCached
    <2>4. r = [ok |-> q.ok /\ holds, cache |-> q.cache]
        BY <2>1, <2>3
    <2>5. r.cache = q.cache /\ r.ok = (q.ok /\ holds)
        BY <2>4
    <2>6. ASSUME q.ok, holds, Owned, metadata = 1 PROVE IsRecord(q.cache, e, i)
        <3> DEFINE b == q.cache.block
        <3>1. b.id = e.id
            BY <2>6 DEF holds_record
        <3>2. b # GARBAGE
            BY <2>2, <3>1, EntryFields DEF GARBAGE
        <3>3. IsBlock(b, e.id, e.take, n, Count(e, n))
            BY <2>2, <2>3, <2>6, <3>2 DEF Listed, OnCard
        <3>4. b.take = e.take /\ b.first = FirstRecord(1 + i \div SD_RECORDS_PER_BLOCK)
            BY <2>6, <3>3 DEF IsBlock, n
        <3>5. FirstRecord(1 + i \div SD_RECORDS_PER_BLOCK) + (i % SD_RECORDS_PER_BLOCK) = i
            BY RecordInBlock
        <3>6. QED
            BY <3>4, <3>5 DEF IsRecord
    <2>7. QED
        BY <2>3, <2>5, <2>6
<1>5. QED
    BY <1>3, <1>4

LEMMA FirstSector ==
    ASSUME NEW e, Listed(e)
    PROVE  /\ e.start \in 0 .. SECTORS - 1 /\ e \in Entry
           /\ Owned => metadata_blocks(card.data[e.start], e.id) = 1
<1>1. /\ e \in Entry /\ e.start \in Nat /\ e.blocks \in Nat /\ e.blocks > 1
      /\ e.start + e.blocks <= SECTORS
    BY EntryFields DEF Listed
<1>2. e.start \in 0 .. SECTORS - 1
    BY <1>1, Sizes
<1>3. ASSUME Owned PROVE metadata_blocks(card.data[e.start], e.id) = 1
    <2>1. 0 \in 0 .. e.blocks - 1 /\ e.start + 0 = e.start /\ Count(e, 0) = 0
        BY <1>1 DEF Count
    <2>2. IsBlock(card.data[e.start + 0], e.id, e.take, 0, Count(e, 0))
        BY <1>3, <2>1 DEF Listed, OnCard
    <2>3. QED
        BY <2>1, <2>2 DEF IsBlock, metadata_blocks
<1>4. QED
    BY <1>1, <1>2, <1>3

LEMMA GetRecord ==
    ASSUME card \in Card, NEW cache, CacheOk(cache), NEW e, Listed(e), NEW i \in Nat,
           NEW r \in blackbox_sd_get_record(cache, e, i)
    PROVE  CacheOk(r.cache)
<1>1. PICK q \in cached_sector(cache, e.start) :
        r \in IF q.ok THEN record_at(q.cache, e, i, metadata_blocks(q.cache.block, e.id)) ELSE {q}
    BY DEF blackbox_sd_get_record
<1>2. CacheOk(q.cache)
    BY FirstSector, SectorCached
<1>3. metadata_blocks(q.cache.block, e.id) \in Nat
    BY DEF metadata_blocks
<1>4. CASE q.ok
    <2>1. r \in record_at(q.cache, e, i, metadata_blocks(q.cache.block, e.id))
        BY <1>1, <1>4
    <2>2. QED
        BY <1>2, <1>3, <2>1, RecordAt
<1>5. CASE ~q.ok
    BY <1>1, <1>2, <1>5
<1>6. QED
    BY <1>4, <1>5

(* The cache would keep a wrong sector if a flight had no metadata.        *)
LEMMA GetMetadata ==
    ASSUME card \in Card, NEW cache, CacheOk(cache), NEW e, Listed(e),
           NEW m \in blackbox_sd_get_metadata(cache, e)
    PROVE  CacheOk(m.cache)
<1>1. PICK q \in read_sector(cache, e.start) :
        m = IF metadata_blocks(q.cache.block, e.id) = 1 THEN tagged(q, e.start)
            ELSE [q EXCEPT !.ok = FALSE]
    BY DEF blackbox_sd_get_metadata
<1>2. ReadOf(q, e.start)
    BY FirstSector, SectorRead
<1>3. CASE metadata_blocks(q.cache.block, e.id) = 1
    BY <1>1, <1>2, <1>3 DEF ReadOf
<1>4. CASE metadata_blocks(q.cache.block, e.id) # 1
    <2>1. m.cache = q.cache
        BY <1>1, <1>2, <1>4 DEF ReadOf
    <2>2. ~q.ok \/ ~Owned
        BY <1>2, <1>4, FirstSector DEF ReadOf
    <2>3. CacheOk(q.cache)
        BY <1>2, <2>2 DEF ReadOf, CacheOk
    <2>4. QED
        BY <2>1, <2>3
<1>5. QED
    BY <1>3, <1>4

LEMMA Layouts ==
    ASSUME card \in Card, NEW cache, CacheOk(cache), NEW layout, LayoutOk(layout),
           NEW e, Listed(e),
           \E j \in 1 .. Len(sd.catalog.flights) : e = sd.catalog.flights[j],
           NEW l \in layouts(cache, layout, e)
    PROVE  /\ CacheOk(l.cache) /\ LayoutOk(l.layout) /\ l.layout.metadata \in Nat
           /\ l.ok /\ Owned => l.layout.metadata = 1
<1>1. layout \in Layout /\ layout.metadata \in Nat
    BY DEF LayoutOk, Layout
<1>2. CASE layout.valid /\ layout.id = e.id
    <2>1. l = [ok |-> TRUE, cache |-> cache, layout |-> layout]
        BY <1>2 DEF layouts
    <2>2. l.cache = cache /\ l.layout = layout
        BY <2>1
    <2>3. Owned => layout.metadata = 1
        BY <1>2 DEF LayoutOk
    <2>4. QED
        BY <1>1, <2>2, <2>3
<1>3. CASE ~(layout.valid /\ layout.id = e.id)
    <2> DEFINE new(r) == [valid |-> TRUE, id |-> e.id,
                          metadata |-> metadata_blocks(r.cache.block, e.id)]
    <2>1. PICK q \in read_sector(cache, e.start) :
            LET r == tagged(q, e.start)
            IN  l = [ok |-> r.ok, cache |-> r.cache, layout |-> IF r.ok THEN new(r) ELSE layout]
        BY <1>3 DEF layouts
    <2> DEFINE r == tagged(q, e.start)
    <2>2. l.ok = r.ok /\ l.cache = r.cache /\ l.layout = IF r.ok THEN new(r) ELSE layout
        BY <2>1
    <2>3. ReadOf(q, e.start)
        BY FirstSector, SectorRead
    <2>4. CacheOk(r.cache) /\ r.ok = q.ok /\ r.cache.block = q.cache.block
          /\ (r.ok => r.cache.block = card.data[e.start])
        BY <2>3 DEF ReadOf
    <2> HIDE DEF r
    <2>5. CASE ~r.ok
        BY <1>1, <2>2, <2>4, <2>5
    <2>6. CASE r.ok
        <3>1. /\ new(r).valid = TRUE /\ new(r).id = e.id
              /\ new(r).metadata = metadata_blocks(r.cache.block, e.id)
            OBVIOUS
        <3>2. Owned => new(r).metadata = 1
            BY <2>4, <2>6, <3>1, FirstSector
        <3>3. new(r).metadata \in Nat /\ new(r).id \in Nat
            BY <3>1, FirstSector, EntryFields, TakesFacts DEF metadata_blocks
        <3>4. new(r) \in Layout
            BY <3>3 DEF Layout
        <3>5. LayoutOk(new(r))
            BY <3>2, <3>4 DEF LayoutOk
        <3>6. QED
            BY <2>2, <2>4, <2>6, <3>2, <3>3, <3>5
    <2>7. QED
        BY <2>5, <2>6
<1>4. QED
    BY <1>2, <1>3

LEMMA GetRecords ==
    ASSUME card \in Card, NEW cache, CacheOk(cache), NEW layout, LayoutOk(layout),
           NEW e, Listed(e),
           \E j \in 1 .. Len(sd.catalog.flights) : e = sd.catalog.flights[j],
           NEW i \in Nat, NEW r \in blackbox_sd_get_records(cache, layout, e, i)
    PROVE  /\ CacheOk(r.cache) /\ LayoutOk(r.layout)
           /\ r.ok /\ Owned => IsRecord(r.cache, e, i)
<1>1. PICK l \in layouts(cache, layout, e) :
        r \in IF l.ok THEN {[ok |-> q.ok, cache |-> q.cache, layout |-> l.layout] :
                            q \in record_at(l.cache, e, i, l.layout.metadata)}
              ELSE {l}
    BY DEF blackbox_sd_get_records
<1>2. /\ CacheOk(l.cache) /\ LayoutOk(l.layout) /\ l.layout.metadata \in Nat
      /\ l.ok /\ Owned => l.layout.metadata = 1
    BY Layouts
<1>3. CASE l.ok
    <2>1. PICK q \in record_at(l.cache, e, i, l.layout.metadata) :
            r = [ok |-> q.ok, cache |-> q.cache, layout |-> l.layout]
        BY <1>1, <1>3
    <2>2. r.ok = q.ok /\ r.cache = q.cache /\ r.layout = l.layout
        BY <2>1
    <2>3. /\ CacheOk(q.cache)
          /\ q.ok /\ Owned /\ l.layout.metadata = 1 => IsRecord(q.cache, e, i)
        BY <1>2, RecordAt
    <2>4. QED
        BY <1>2, <1>3, <2>2, <2>3
<1>4. CASE ~l.ok
    BY <1>1, <1>2, <1>4
<1>5. QED
    BY <1>3, <1>4

(* The flights that the host may ask for.                                  *)
LEMMA FlightsListed ==
    ASSUME Readable, Sound(sd, card, disowned), SoundCard(card, disowned), NEW e \in flights
    PROVE  /\ Listed(e) /\ \E j \in 1 .. Len(sd.catalog.flights) : e = sd.catalog.flights[j]
           /\ e.records \in Nat
<1>1. /\ sd \in Recorder /\ card \in Card /\ sd.state = "READY" /\ Active(sd)
      /\ sd.queue = <<>> /\ RamInv(sd, card.data, disowned)
    BY DEF Readable, is_busy, Sound, SoundCard, Active, RecorderInv
<1>2. sd.catalog \in Catalog /\ sd.catalog.flights \in Seq(Entry)
    BY <1>1, RecorderFields, CatalogFields
<1>3. PICK j \in DOMAIN sd.catalog.flights : e = sd.catalog.flights[j]
    BY DEF flights, Range
<1>4. j \in 1 .. Len(sd.catalog.flights)
    BY <1>2, <1>3, LenProperties
<1>5. /\ EndsBy(sd.catalog, sd.next_sector)
      /\ Owned => \A k \in 1 .. Len(sd.catalog.flights) : OnCard(card.data, sd.catalog.flights[k])
    BY <1>1, CatalogInFlight DEF Owned
<1>6. e \in Entry /\ e.start + e.blocks <= sd.next_sector
    BY <1>2, <1>3, <1>4, <1>5, CatalogFields DEF EndsBy
<1>7. e.start + e.blocks <= SECTORS
    BY <1>1, <1>6, RecorderFields, EntryFields, Sizes
<1>8. QED
    BY <1>3, <1>4, <1>5, <1>6, <1>7, EntryFields DEF Listed

LEMMA ReadsReady ==
    ASSUME Readable, Sound(sd, card, disowned), SoundCard(card, disowned)
    PROVE  card \in Card /\ CacheOk(sd.cache) /\ LayoutOk(sd.layout)
<1>1. /\ sd \in Recorder /\ Active(sd) /\ ReadInv(sd, card.data, disowned) /\ card \in Card
    BY DEF Readable, Sound, SoundCard, Active, RecorderInv
<1>2. CacheOk(sd.cache)
    BY <1>1, RecorderFields DEF CacheOk, ReadInv, Owned
<1>3. LayoutOk(sd.layout)
    BY <1>1, RecorderFields DEF LayoutOk, ReadInv, Owned
<1>4. QED
    BY <1>1, <1>2, <1>3

LEMMA LeftBehindKeeps ==
    ASSUME Readable, Sound(sd, card, disowned), SoundCard(card, disowned),
           NEW cache, CacheOk(cache), NEW layout, LayoutOk(layout),
           sd' = [sd EXCEPT !.cache = cache, !.layout = layout], UNCHANGED <<card, disowned>>
    PROVE  Kept
<1> DEFINE q == sd'
<1>1. cache \in Cache /\ layout \in Layout
    BY DEF CacheOk, LayoutOk
<1>2. /\ sd \in Recorder /\ RecorderInv(sd, card, disowned) /\ sd.state = "READY"
      /\ Active(sd) /\ sd.queue = <<>> /\ card' = card /\ disowned' = disowned
      /\ sd.current < SD_RECORDS_PER_BLOCK
    BY DEF Sound, Readable, is_busy, Active
<1>3. /\ q \in Recorder /\ q.state = sd.state /\ q.write_state = sd.write_state
      /\ q.queue = sd.queue /\ q.next_sector = sd.next_sector /\ q.catalog = sd.catalog
      /\ q.catalog_commit_pending = sd.catalog_commit_pending /\ q.current = sd.current
      /\ q.cache = cache /\ q.layout = layout
    BY <1>1, <1>2 DEF Recorder
<1> HIDE DEF q
<1>4. \A s : Placed(q, card.data, s) = Placed(sd, card.data, s)
    BY <1>3 DEF Placed
<1>5. WriteInv(q)
    BY <1>2, <1>3 DEF WriteInv, RecorderInv, Active
<1>6. RamInv(q, card.data, disowned)
    BY <1>2, <1>3, <1>4 DEF RamInv, InPlace, RecorderInv
<1>7. AboveInv(q, card, disowned) /\ RecordingInv(q, card.data)
    BY <1>2, <1>3 DEF AboveInv, RecordingInv, RecorderInv
<1>8. ReadInv(q, card.data, disowned)
    BY <1>2, <1>3 DEF ReadInv, CacheOk, LayoutOk, Owned
<1>9. QED
    BY <1>2, <1>3, <1>5, <1>6, <1>7, <1>8 DEF Kept, Sound, RecorderInv, q

LEMMA CacheLeftKeeps ==
    ASSUME Readable, Sound(sd, card, disowned), SoundCard(card, disowned),
           NEW cache, CacheOk(cache),
           sd' = [sd EXCEPT !.cache = cache], UNCHANGED <<card, disowned>>
    PROVE  Kept
<1>1. [sd EXCEPT !.cache = cache] = [sd EXCEPT !.cache = cache, !.layout = sd.layout]
    BY DEF Sound, Recorder
<1>2. LayoutOk(sd.layout)
    BY ReadsReady
<1>3. QED
    BY <1>1, <1>2, LeftBehindKeeps

LEMMA ReadsKeep ==
    ASSUME ReadMetadata \/ ReadBinary \/ ReadText,
           Sound(sd, card, disowned), SoundCard(card, disowned)
    PROVE  Kept
<1>1. Readable /\ UNCHANGED <<card, disowned>>
    BY DEF ReadMetadata, ReadBinary, ReadText
<1>2. card \in Card /\ CacheOk(sd.cache) /\ LayoutOk(sd.layout)
    BY <1>1, ReadsReady
<1>3. CASE ReadMetadata
    <2>1. PICK e \in flights : \E m \in blackbox_sd_get_metadata(sd.cache, e) :
            sd' = [sd EXCEPT !.cache = m.cache]
        BY <1>3 DEF ReadMetadata
    <2>2. PICK m \in blackbox_sd_get_metadata(sd.cache, e) : sd' = [sd EXCEPT !.cache = m.cache]
        BY <2>1
    <2>3. CacheOk(m.cache)
        BY <1>1, <1>2, FlightsListed, GetMetadata
    <2>4. QED
        BY <1>1, <2>2, <2>3, CacheLeftKeeps
<1>4. CASE ReadBinary
    <2>1. PICK e \in flights : \E i \in 0 .. e.records - 1 :
            \E r \in blackbox_sd_get_records(sd.cache, sd.layout, e, i) :
              sd' = [sd EXCEPT !.cache = r.cache, !.layout = r.layout]
        BY <1>4 DEF ReadBinary
    <2>2. PICK i \in 0 .. e.records - 1 :
            \E r \in blackbox_sd_get_records(sd.cache, sd.layout, e, i) :
              sd' = [sd EXCEPT !.cache = r.cache, !.layout = r.layout]
        BY <2>1
    <2>3. PICK r \in blackbox_sd_get_records(sd.cache, sd.layout, e, i) :
            sd' = [sd EXCEPT !.cache = r.cache, !.layout = r.layout]
        BY <2>2
    <2>4. /\ Listed(e) /\ \E j \in 1 .. Len(sd.catalog.flights) : e = sd.catalog.flights[j]
          /\ i \in Nat
        BY <1>1, FlightsListed
    <2>5. CacheOk(r.cache) /\ LayoutOk(r.layout)
        BY <1>2, <2>4, GetRecords
    <2>6. QED
        BY <1>1, <2>3, <2>5, LeftBehindKeeps
<1>5. CASE ReadText
    <2> DEFINE left(r, e, i) ==
                 \/ sd' = [sd EXCEPT !.cache = r.cache]
                 \/ \E n \in blackbox_sd_get_record(r.cache, e, i + 1) :
                      sd' = [sd EXCEPT !.cache = n.cache]
    <2>1. PICK e \in flights : \E i \in 0 .. e.records - 1 :
            \E m \in blackbox_sd_get_metadata(sd.cache, e) :
              \E r \in blackbox_sd_get_record(m.cache, e, i) : left(r, e, i)
        BY <1>5 DEF ReadText
    <2>2. PICK i \in 0 .. e.records - 1 :
            \E m \in blackbox_sd_get_metadata(sd.cache, e) :
              \E r \in blackbox_sd_get_record(m.cache, e, i) : left(r, e, i)
        BY <2>1
    <2>3. PICK m \in blackbox_sd_get_metadata(sd.cache, e) :
             \E r \in blackbox_sd_get_record(m.cache, e, i) : left(r, e, i)
        BY <2>2
    <2>4. PICK r \in blackbox_sd_get_record(m.cache, e, i) : left(r, e, i)
        BY <2>3
    <2>5. Listed(e) /\ i \in Nat /\ i + 1 \in Nat
        BY <1>1, FlightsListed
    <2>6. CacheOk(m.cache)
        BY <1>2, <2>5, GetMetadata
    <2>7. CacheOk(r.cache)
        BY <1>2, <2>5, <2>6, GetRecord
    <2>8. CASE sd' = [sd EXCEPT !.cache = r.cache]
        BY <1>1, <2>7, <2>8, CacheLeftKeeps
    <2>9. CASE \E n \in blackbox_sd_get_record(r.cache, e, i + 1) :
                 sd' = [sd EXCEPT !.cache = n.cache]
        <3>1. PICK n \in blackbox_sd_get_record(r.cache, e, i + 1) :
                sd' = [sd EXCEPT !.cache = n.cache]
            BY <2>9
        <3>2. CacheOk(n.cache)
            BY <1>2, <2>5, <2>7, GetRecord
        <3>3. QED
            BY <1>1, <3>1, <3>2, CacheLeftKeeps
    <2>10. QED
        BY <2>4, <2>8, <2>9
<1>6. QED
    BY <1>3, <1>4, <1>5

-----------------------------------------------------------------------------
(* The steps of FlightLog, as the card's side sees them.                   *)

LEMMA IdFacts ==
    ASSUME SdInv, RingInv
    PROVE  /\ sd \in Recorder /\ card \in Card /\ log.take \in Nat
           /\ sd.catalog.next_flight_id \in Nat /\ card.catalog.next_flight_id \in Nat
BY RecorderFields, CardFields, CatalogFields, TakesFacts, Sizes
   DEF SdInv, Sound, SoundCard, RingInv, RingTypes, Log

(* Of the flights, the host's commands and the card's steps, those that    *)
(* leave the flight alone.                                                 *)
LEMMA KeptIds ==
    ASSUME SdInv, RingInv, Kept, UNCHANGED log, armed' = armed,
           armed => sd'.catalog.next_flight_id = sd.catalog.next_flight_id
    PROVE  IdInv'
<1>1. /\ log.take \in Nat /\ IdInv
      /\ sd.catalog.next_flight_id \in Nat /\ card.catalog.next_flight_id \in Nat
    BY IdFacts DEF SdInv
<1>2. sd.catalog.next_flight_id <= log.take + 2 /\ card.catalog.next_flight_id <= log.take + 2
    BY <1>1 DEF IdInv
<1>3. /\ sd'.catalog.next_flight_id
           \in {sd.catalog.next_flight_id, card.catalog.next_flight_id, 1}
      /\ card'.catalog.next_flight_id
           \in {card.catalog.next_flight_id, sd.catalog.next_flight_id, 0, 2}
    BY DEF Kept
<1>4. card'.catalog.next_flight_id <= log.take + 2 /\ sd'.catalog.next_flight_id <= log.take + 2
    BY <1>1, <1>2, <1>3
<1>5. sd'.catalog.next_flight_id <= log.take + (IF armed /\ log.recording THEN 1 ELSE 2)
    BY <1>1, <1>4 DEF IdInv
<1>6. sd'.state = "RECORDING" => armed /\ log.recording /\ log.qualified
    BY <1>1 DEF Kept, IdInv
<1>7. QED
    BY <1>4, <1>5, <1>6 DEF IdInv

LEMMA ArmKeepsSd ==
    ASSUME SdInv, RingInv, Arm, UNCHANGED <<storage, powered>>
    PROVE  SdInv'
<1>1. sd' = sd /\ card' = card /\ disowned' = disowned /\ armed' = TRUE /\ ~armed
      /\ storage' = storage /\ powered' = powered
    BY DEF Arm, sdVars
<1>2. /\ log.take \in Nat /\ IdInv
      /\ sd.catalog.next_flight_id \in Nat /\ card.catalog.next_flight_id \in Nat
    BY IdFacts DEF SdInv
<1>3. /\ sd.catalog.next_flight_id <= log.take + 2 /\ card.catalog.next_flight_id <= log.take + 2
      /\ sd.state # "RECORDING"
    BY <1>1, <1>2 DEF IdInv
<1>4. CASE log.inhibited
    <2>1. log' = log /\ ~log.recording
        BY <1>1, <1>4 DEF Arm, logVars, RingInv, FlightInv
    <2>2. IdInv'
        BY <1>1, <1>2, <1>3, <2>1 DEF IdInv
    <2>3. QED
        BY <1>1, <2>2 DEF SdInv, IdleInv
<1>5. CASE ~log.inhibited
    <2>1. log' = [log EXCEPT !.recording = TRUE, !.qualified = FALSE, !.take = @ + 1, !.samples = 0]
        BY <1>5 DEF Arm
    <2>2. log'.take = log.take + 1 /\ log'.recording = TRUE
        BY <2>1 DEF RingInv, RingTypes, Log
    <2>3. IdInv'
        BY <1>1, <1>2, <1>3, <2>2 DEF IdInv
    <2>4. QED
        BY <1>1, <2>3 DEF SdInv, IdleInv
<1>6. QED
    BY <1>4, <1>5

LEMMA RecordKeepsSd ==
    ASSUME SdInv, RingInv, NEW throttle \in BOOLEAN, flight_log_record(throttle),
           UNCHANGED <<storage, powered>>
    PROVE  SdInv'
<1> DEFINE better == log.qualified \/ throttle
<1>1. /\ armed /\ armed' = armed /\ log.recording = TRUE /\ storage' = storage
      /\ powered' = powered
      /\ log' = [log EXCEPT !.qualified = better, !.samples = log.samples + 1]
    BY DEF flight_log_record, RingInv, RingTypes, Log
<1>2. better \in BOOLEAN
    BY DEF RingInv, RingTypes, Log
<1> HIDE DEF better
<1>3. log'.take = log.take /\ log'.recording = log.recording /\ log'.qualified = better
    BY <1>1, <1>2 DEF RingInv, RingTypes, Log
<1>4. /\ log.take \in Nat /\ IdInv /\ log.take \in Takes /\ log.take <= MAX_TAKES
      /\ sd.catalog.next_flight_id \in Nat /\ card.catalog.next_flight_id \in Nat
    BY IdFacts DEF SdInv, RingInv, RingTypes, Log
<1>5. CASE storage = "NONE"
    <2>1. sd' = sd /\ card' = card /\ disowned' = disowned
        BY <1>5 DEF flight_log_record, sdVars
    <2>2. IdInv'
        BY <1>1, <1>3, <1>4, <2>1 DEF IdInv, better
    <2>3. QED
        BY <1>1, <2>1, <2>2 DEF SdInv, IdleInv
<1>6. CASE storage # "NONE"
    <2> DEFINE starts == throttle /\ ~log.qualified
               r == IF starts THEN blackbox_sd_start(sd, log.take) ELSE sd
    <2>1. /\ sd' = (IF better THEN blackbox_sd_append(r) ELSE r)
          /\ card' = card /\ disowned' = disowned
        BY <1>3, <1>6 DEF flight_log_record
    <2>2. /\ sd \in Recorder /\ card \in Card /\ RecorderInv(sd, card, disowned)
          /\ sd.current < SD_RECORDS_PER_BLOCK
        BY DEF SdInv, Sound, SoundCard
    <2>3. sd.catalog.next_flight_id <= MAX_TAKES + 1
        BY <1>1, <1>4, Sizes DEF IdInv
    <2>4. /\ r \in Recorder /\ r.current < SD_RECORDS_PER_BLOCK
          /\ RecorderInv(r, card, disowned) /\ r.catalog = sd.catalog
        <3>1. CASE starts
            <4>1. r = blackbox_sd_start(sd, log.take)
                BY <3>1
            <4> HIDE DEF r
            <4>2. QED
                BY <1>4, <2>2, <2>3, <4>1, StartKeeps
        <3>2. CASE ~starts
            <4>1. r = sd
                BY <3>2
            <4>2. QED
                BY <2>2, <4>1
        <3>3. QED
            BY <3>1, <3>2
    <2>5. r.state = "RECORDING" => better
        <3>1. starts => better
            BY DEF better
        <3>2. ~starts => r = sd
            OBVIOUS
        <3>3. sd.state = "RECORDING" => better
            BY <1>4 DEF IdInv, better
        <3>4. QED
            BY <3>1, <3>2, <3>3
    <2> HIDE DEF r
    <2>6. /\ Sound(sd', card, disowned) /\ sd'.catalog = sd.catalog
          /\ sd'.state = "RECORDING" => better
        <3>1. CASE better
            BY <2>1, <2>2, <2>4, <3>1, AppendKeeps DEF Sound
        <3>2. CASE ~better
            BY <2>1, <2>4, <2>5, <3>2 DEF Sound
        <3>3. QED
            BY <3>1, <3>2
    <2>7. IdInv'
        BY <1>1, <1>3, <1>4, <2>1, <2>6 DEF IdInv
    <2>8. powered
        BY <1>1 DEF RingInv, FlightInv
    <2>9. QED
        BY <1>1, <1>6, <2>1, <2>6, <2>7, <2>8 DEF SdInv, IdleInv
<1>7. QED
    BY <1>5, <1>6

LEMMA DisarmKeepsSd ==
    ASSUME SdInv, RingInv, Disarm, UNCHANGED <<storage, powered>>
    PROVE  SdInv'
<1> DEFINE retain == log.recording /\ log.qualified
<1>1. /\ armed /\ armed' = FALSE /\ storage' = storage /\ powered' = powered
      /\ sd' = blackbox_sd_stop(sd, retain) /\ card' = card /\ disowned' = disowned
      /\ log' = [log EXCEPT !.recording = FALSE, !.qualified = FALSE, !.samples = 0]
    BY DEF Disarm
<1>2. retain \in BOOLEAN
    BY DEF RingInv, RingTypes, Log
<1> HIDE DEF retain
<1>3. log'.take = log.take
    BY <1>1 DEF RingInv, RingTypes, Log
<1>4. /\ log.take \in Nat /\ IdInv
      /\ sd.catalog.next_flight_id \in Nat /\ card.catalog.next_flight_id \in Nat
    BY IdFacts DEF SdInv
<1>5. Stopped(sd, sd', card, disowned)
    <2>1. /\ sd \in Recorder /\ card \in Card /\ RecorderInv(sd, card, disowned)
          /\ sd.current < SD_RECORDS_PER_BLOCK
        BY DEF SdInv, Sound, SoundCard
    <2>2. QED
        BY <1>1, <1>2, <2>1, StopKeeps
<1>6. Sound(sd', card, disowned) /\ sd'.state # "RECORDING" /\ sd' \in Recorder
    BY <1>5 DEF Stopped, Sound
<1>7. sd'.catalog.next_flight_id <= log.take + 2
    <2>1. sd'.catalog.next_flight_id \in Nat
        BY <1>6, RecorderFields, CatalogFields
    <2>2. CASE sd.state = "RECORDING"
        <3>1. sd.catalog.next_flight_id <= log.take + 1
            BY <1>4, <2>2 DEF IdInv
        <3>2. sd'.catalog.next_flight_id <= sd.catalog.next_flight_id + 1
            BY <1>5, <2>2 DEF Stopped
        <3>3. QED
            BY <1>4, <2>1, <3>1, <3>2
    <2>3. CASE sd.state # "RECORDING"
        <3>1. sd.catalog.next_flight_id <= log.take + 2
            BY <1>4 DEF IdInv
        <3>2. sd'.catalog.next_flight_id <= sd.catalog.next_flight_id + 0
            BY <1>5, <2>3 DEF Stopped
        <3>3. QED
            BY <1>4, <2>1, <3>1, <3>2
    <2>4. QED
        BY <2>2, <2>3
<1>8. IdInv'
    BY <1>1, <1>3, <1>4, <1>6, <1>7 DEF IdInv
<1>9. IdleInv'
    <2>1. powered
        BY <1>1 DEF RingInv, FlightInv
    <2>2. CASE storage = "NONE"
        <3>1. sd = blackbox_sd_init /\ sd.state = "ABSENT"
            BY <2>2, InitIsBlank DEF SdInv, IdleInv
        <3>2. sd' = sd
            BY <1>1, <3>1 DEF blackbox_sd_stop
        <3>3. QED
            BY <3>1, <3>2 DEF IdleInv
    <2>3. QED
        BY <1>1, <2>1, <2>2 DEF IdleInv
<1>10. QED
    BY <1>1, <1>6, <1>8, <1>9 DEF SdInv

LEMMA InhibitKeepsSd ==
    ASSUME SdInv, RingInv, NEW value \in BOOLEAN, flight_log_set_inhibited(value),
           UNCHANGED <<storage, powered>>
    PROVE  SdInv'
<1> DEFINE goes_on == log.recording /\ ~value
<1>1. /\ ~armed /\ armed' = armed /\ sd' = sd /\ card' = card /\ disowned' = disowned
      /\ storage' = storage /\ powered' = powered
      /\ log' = [log EXCEPT !.inhibited = value, !.recording = goes_on]
    BY DEF flight_log_set_inhibited, sdVars
<1>2. log'.take = log.take
    BY <1>1 DEF RingInv, RingTypes, Log
<1>3. IdInv'
    BY <1>1, <1>2 DEF IdInv, SdInv
<1>4. QED
    BY <1>1, <1>3 DEF SdInv, IdleInv

LEMMA PowerLossKeepsSd ==
    ASSUME SdInv, RingInv, PowerLoss
    PROVE  SdInv'
<1>1. /\ armed' = FALSE /\ powered' = FALSE /\ SdPowerLoss /\ sd' = blackbox_sd_init
      /\ log' = [log EXCEPT !.recording = FALSE, !.qualified = FALSE, !.samples = 0]
    BY DEF PowerLoss, SdPowerLoss
<1>2. log'.take = log.take
    BY <1>1 DEF RingInv, RingTypes, Log
<1>3. Kept
    BY <1>1, SdPowerLossKeeps DEF SdInv
<1>4. /\ log.take \in Nat /\ IdInv
      /\ sd.catalog.next_flight_id \in Nat /\ card.catalog.next_flight_id \in Nat
    BY IdFacts DEF SdInv
<1>5. sd.catalog.next_flight_id <= log.take + 2 /\ card.catalog.next_flight_id <= log.take + 2
    BY <1>4 DEF IdInv
<1>6. /\ sd'.catalog.next_flight_id = 1 /\ sd'.state # "RECORDING"
    BY <1>1, InitIsBlank, ConstantFacts
<1>7. card'.catalog.next_flight_id <= log.take + 2
    BY <1>3, <1>4, <1>5 DEF Kept
<1>8. IdInv'
    BY <1>1, <1>2, <1>4, <1>6, <1>7 DEF IdInv
<1>9. QED
    BY <1>1, <1>3, <1>8 DEF SdInv, IdleInv, Kept

LEMMA PowerUpKeepsSd ==
    ASSUME SdInv, RingInv, PowerUp
    PROVE  SdInv'
<1>1. /\ ~powered /\ powered' = TRUE /\ armed' = armed /\ storage' = storage /\ ~armed
      /\ log' = [recording |-> FALSE, inhibited |-> FALSE, qualified |-> FALSE,
                 take |-> log.take, samples |-> 0]
    BY DEF PowerUp, flight_log_init, RingInv, FlightInv
<1>2. log'.take = log.take /\ log'.recording = FALSE
    BY <1>1
<1>3. sd = blackbox_sd_init
    BY <1>1 DEF SdInv, IdleInv
<1>4. Kept /\ (storage # "SD" => sd' = sd)
    <2>1. CASE storage = "SD"
        BY <1>3, <2>1, SdPowerUpKeeps DEF PowerUp, SdInv
    <2>2. CASE storage # "SD"
        <3>1. sd' = sd /\ card' = card /\ disowned' = disowned
            BY <2>2 DEF PowerUp, sdVars
        <3>2. QED
            BY <2>2, <3>1 DEF Kept, SdInv
    <2>3. QED
        BY <2>1, <2>2
<1>5. /\ log.take \in Nat /\ IdInv
      /\ sd.catalog.next_flight_id \in Nat /\ card.catalog.next_flight_id \in Nat
    BY IdFacts DEF SdInv
<1>6. /\ sd.catalog.next_flight_id <= log.take + 2 /\ card.catalog.next_flight_id <= log.take + 2
      /\ sd.state # "RECORDING"
    BY <1>1, <1>5 DEF IdInv
<1>7. /\ sd'.catalog.next_flight_id <= log.take + 2 /\ card'.catalog.next_flight_id <= log.take + 2
      /\ sd'.state # "RECORDING"
    BY <1>4, <1>5, <1>6 DEF Kept
<1>8. IdInv'
    BY <1>1, <1>2, <1>7 DEF IdInv
<1>9. IdleInv'
    BY <1>1, <1>3, <1>4 DEF IdleInv, RingInv, RingTypes
<1>10. QED
    BY <1>4, <1>8, <1>9 DEF SdInv, Kept

LEMMA CardStepKeepsSd ==
    ASSUME SdInv, RingInv, UNCHANGED <<storage, powered, armed, logVars>>,
           (powered /\ Host) \/ SdUpdate \/ Slot
    PROVE  SdInv'
<1>1. /\ storage' = storage /\ powered' = powered /\ armed' = armed /\ UNCHANGED log
      /\ storage = "SD"
    BY DEF logVars, Host, SdUpdate, Slot
<1>2. Sound(sd, card, disowned) /\ SoundCard(card, disowned)
    BY DEF SdInv
<1>3. CASE powered /\ Host
    <2>1. Kept /\ ~armed
        BY <1>2, <1>3, ProbeKeeps, ClearKeeps, ReadsKeep, EnableKeeps DEF Host
    <2>2. IdInv'
        BY <1>1, <2>1, KeptIds
    <2>3. QED
        BY <1>1, <1>3, <2>1, <2>2 DEF SdInv, IdleInv, Kept
<1>4. CASE SdUpdate
    <2>1. Kept /\ sd'.catalog.next_flight_id = sd.catalog.next_flight_id /\ powered
        BY <1>2, <1>4, UpdateKeeps DEF SdUpdate, running
    <2>2. IdInv'
        BY <1>1, <2>1, KeptIds
    <2>3. QED
        BY <1>1, <2>1, <2>2 DEF SdInv, IdleInv, Kept
<1>5. CASE Slot
    <2>1. Kept /\ sd' = sd
        BY <1>2, <1>5, SlotKeeps DEF Slot
    <2>2. IdInv'
        BY <1>1, <2>1, KeptIds
    <2>3. QED
        BY <1>1, <2>1, <2>2 DEF SdInv, IdleInv, Kept
<1>6. QED
    BY <1>3, <1>4, <1>5

LEMMA NextKeepsSd == IInv /\ [Next]_vars => SdInv'
<1> SUFFICES ASSUME SdInv, RingInv, [Next]_vars PROVE SdInv'
    BY DEF IInv
<1>1. CASE UNCHANGED <<storage, powered, armed, logVars, sdVars>>
    <2>1. /\ sd' = sd /\ card' = card /\ disowned' = disowned /\ storage' = storage
          /\ powered' = powered /\ armed' = armed /\ log' = log
        BY <1>1 DEF logVars, sdVars
    <2>2. QED
        BY <2>1 DEF SdInv, IdInv, IdleInv
<1>2. CASE powered /\ (Flight \/ flight_log_persist_if_ready) /\ UNCHANGED <<storage, powered>>
    <2>1. CASE flight_log_persist_if_ready
        <3>1. /\ sd' = sd /\ card' = card /\ disowned' = disowned /\ storage' = storage
              /\ powered' = powered /\ armed' = armed /\ log' = log
            BY <1>2, <2>1 DEF flight_log_persist_if_ready, sdVars
        <3>2. QED
            BY <3>1 DEF SdInv, IdInv, IdleInv
    <2>2. CASE Arm
        BY <1>2, <2>2, ArmKeepsSd
    <2>3. CASE Disarm
        BY <1>2, <2>3, DisarmKeepsSd
    <2>4. ASSUME NEW throttle \in BOOLEAN, flight_log_record(throttle) PROVE SdInv'
        BY <1>2, <2>4, RecordKeepsSd
    <2>5. ASSUME NEW value \in BOOLEAN, flight_log_set_inhibited(value) PROVE SdInv'
        BY <1>2, <2>5, InhibitKeepsSd
    <2>6. QED
        BY <1>2, <2>1, <2>2, <2>3, <2>4, <2>5 DEF Flight
<1>3. CASE /\ (powered /\ Host) \/ SdUpdate \/ Slot
           /\ UNCHANGED <<storage, powered, armed, logVars>>
    BY <1>3, CardStepKeepsSd
<1>4. CASE PowerLoss
    BY <1>4, PowerLossKeepsSd
<1>5. CASE PowerUp
    BY <1>5, PowerUpKeepsSd
<1>6. QED
    BY <1>1, <1>2, <1>3, <1>4, <1>5 DEF Next, running, SdUpdate, vars

LEMMA SdInit == Init => SdInv
<1> SUFFICES ASSUME Init PROVE SdInv
    OBVIOUS
<1> DEFINE on == (storage = "SD")
           state == IF storage = "SD" THEN "READY" ELSE "ABSENT"
           data == [s \in 0 .. SECTORS - 1 |-> GARBAGE]
<1>1. /\ sd = [blackbox_sd_init EXCEPT !.state = state, !.enabled = on]
      /\ card = [NEW_CARD EXCEPT !.present = on] /\ disowned = {}
      /\ powered = TRUE /\ armed = FALSE
    BY DEF Init
<1>2. log.take = 0
    BY DEF Init
<1>3. on \in BOOLEAN /\ state \in {"READY", "ABSENT"}
    OBVIOUS
<1>4. storage = "NONE" => on = FALSE /\ state = "ABSENT"
    OBVIOUS
<1> HIDE DEF on, state
<1>5. data \in [0 .. SECTORS - 1 -> Block]
    BY ConstantFacts
<1> HIDE DEF data
<1>6. card = [present |-> on, data |-> data, catalog |-> BAD_CATALOG]
    BY <1>1 DEF NEW_CARD, data
<1>7. card \in Card /\ card.catalog = BAD_CATALOG
    BY <1>3, <1>5, <1>6, ConstantFacts DEF Card
<1>8. Blank(blackbox_sd_init) /\ blackbox_sd_init.catalog = EMPTY_CATALOG
    BY InitIsBlank
<1>9. /\ sd \in Recorder /\ sd.state = state
      /\ sd.current = blackbox_sd_init.current /\ sd.queue = blackbox_sd_init.queue
      /\ sd.write_state = blackbox_sd_init.write_state
      /\ sd.catalog = EMPTY_CATALOG
      /\ sd.cache = blackbox_sd_init.cache /\ sd.layout = blackbox_sd_init.layout
    BY <1>1, <1>3, <1>8 DEF Blank, Recorder
<1>10. WriteInv(sd) /\ RecordingInv(sd, card.data) /\ ReadInv(sd, card.data, disowned)
    BY <1>3, <1>8, <1>9, ConstantFacts DEF WriteInv, RecordingInv, ReadInv, Blank
<1>11. RamInv(sd, card.data, disowned) /\ AboveInv(sd, card, disowned)
    BY <1>7, <1>9, ConstantFacts DEF RamInv, AboveInv, EndsBy
<1>12. Sound(sd, card, disowned)
    BY <1>8, <1>9, <1>10, <1>11 DEF Sound, RecorderInv, Blank
<1>13. SoundCard(card, disowned)
    BY <1>1, <1>7, ConstantFacts DEF SoundCard, CardInv, EndsBy
<1>14. IdInv
    BY <1>1, <1>2, <1>3, <1>7, <1>9, ConstantFacts DEF IdInv
<1>15. IdleInv
    <2>1. ASSUME storage = "NONE" PROVE sd = blackbox_sd_init
        <3>1. on = FALSE /\ state = "ABSENT"
            BY <1>4, <2>1
        <3>2. blackbox_sd_init.state = "ABSENT" /\ blackbox_sd_init.enabled = FALSE
              /\ blackbox_sd_init \in Recorder
            BY InitIsBlank DEF Blank
        <3>3. QED
            BY <1>1, <3>1, <3>2 DEF Recorder
    <2>2. QED
        BY <1>1, <2>1 DEF IdleInv
<1>16. QED
    BY <1>12, <1>13, <1>14, <1>15 DEF SdInv

-----------------------------------------------------------------------------
(* In every reachable state the recorder, its card, the ring and the flash *)
(* sector are what IInv says.                                              *)
THEOREM FlightLogInvariance == Spec => []IInv
<1>1. Init => IInv
    BY SdInit, RingInit DEF IInv, Init
<1>2. IInv /\ [Next]_vars => IInv'
    <2>1. IInv /\ [Next]_vars => SdInv'
        BY NextKeepsSd
    <2>2. IInv /\ [Next]_vars => RingInv'
        BY NextKeepsRing DEF IInv
    <2>3. ASSUME suspended \in BOOLEAN, [Next]_vars PROVE suspended' \in BOOLEAN
        BY <2>3 DEF Next, SdUpdate, PowerLoss, PowerUp, esc_passthrough_begin,
                    esc_passthrough_end, vars
    <2>4. QED
        BY <2>1, <2>2, <2>3 DEF IInv
<1>3. QED
    BY <1>1, <1>2, PTL DEF Spec

LEMMA TypesHold == IInv => TypeOK
<1> SUFFICES ASSUME SdInv, RingInv, suspended \in BOOLEAN PROVE TypeOK
    BY DEF IInv
<1>1. /\ sd \in Recorder /\ card \in Card /\ sd.current < SD_RECORDS_PER_BLOCK
      /\ disowned \subseteq {"card", "ram"} /\ WriteInv(sd)
    BY DEF SdInv, Sound, SoundCard, RecorderInv
<1>2. /\ sd.state \in {"ABSENT", "READY", "RECORDING", "ERROR"}
      /\ sd.write_state \in {"IDLE", "block", "catalog"}
      /\ sd.enabled \in BOOLEAN /\ sd.catalog_commit_pending \in BOOLEAN
      /\ sd.next_sector \in 0 .. SECTORS
    BY <1>1 DEF Recorder
<1>3. /\ sd.queue \in Seq(Block) /\ Len(sd.queue) <= SD_QUEUE_BLOCKS /\ sd.current \in Nat
      /\ sd.catalog \in Catalog /\ sd.cache \in Cache /\ sd.layout \in Layout
    BY <1>1, RecorderFields
<1>4. Len(sd.catalog.flights) <= SD_CATALOG_FLIGHTS
    BY <1>3, CatalogFields
<1>5. sd.cache.valid \in BOOLEAN /\ sd.layout.valid \in BOOLEAN
    BY <1>3 DEF Cache, Layout
<1>6. \A s \in DOMAIN card.data : card.data[s] \in Block
    BY <1>1, CardFields
<1>7. sd.current \in 0 .. SD_RECORDS_PER_BLOCK - 1
    BY <1>1, <1>3, Sizes
<1>8. sd.write_state = "block" => sd.queue # <<>>
    BY <1>1 DEF WriteInv
<1>9. SdTypeOK
    BY <1>1, <1>2, <1>3, <1>4, <1>5, <1>6, <1>7, <1>8 DEF SdTypeOK
<1>10. /\ storage \in {"SD", "NONE"} /\ powered \in BOOLEAN /\ armed \in BOOLEAN
       /\ log \in Log /\ ram \in Ring
       /\ flash.records \in Seq(LogRecord) /\ Len(flash.records) <= FLIGHT_LOG_CAPACITY
    BY DEF RingInv, RingTypes
<1>11. /\ ram.records \in [Slots -> LogRecord] /\ ram.write_index \in Slots
       /\ ram.record_count \in 0 .. FLIGHT_LOG_CAPACITY
       /\ ram.preserved_flash_count \in 0 .. FLIGHT_LOG_CAPACITY
       /\ ram.using_flash \in BOOLEAN /\ ram.persist_pending \in BOOLEAN
    BY <1>10 DEF Ring
<1>12. QED
    BY <1>9, <1>10, <1>11 DEF TypeOK, Log

(* The recorder's RAM, the card, the ring and the flash sector keep their  *)
(* types: the queue, the catalog and the ring their limits, and a block is *)
(* being written only while there is one (blackbox_sd_update,              *)
(* append_catalog_entry, flight_log_record).                               *)
THEOREM FlightLogTypes == Spec => []TypeOK
BY FlightLogInvariance, TypesHold, PTL

(* The log of a board with no blackbox storage is the end of one flight,   *)
(* whole and in order, whatever failed or was cut short (flight_log.c).    *)
THEOREM RamLogSafety == Spec => []RamLogIsWhole
<1>1. IInv => RamLogIsWhole
    BY RingImpliesWhole DEF IInv
<1>2. QED
    BY <1>1, FlightLogInvariance, PTL

LEMMA BackedCatalog ==
    ASSUME SoundCard(card, disowned), "card" \notin disowned
    PROVE  CatalogIsBacked
<1> SUFFICES ASSUME NEW e \in Range(card.catalog.flights)
             PROVE  /\ \A k \in 0 .. e.blocks - 1 :
                         LET b == card.data[e.start + k] IN b.take = e.take /\ b.sequence = k
                    /\ card.data[e.start + e.blocks - 1].first
                         + card.data[e.start + e.blocks - 1].records = e.records
    BY DEF CatalogIsBacked
<1>1. card.catalog \in Catalog /\ card.catalog.flights \in Seq(Entry)
    BY CardFields, CatalogFields DEF SoundCard
<1>2. PICK j \in DOMAIN card.catalog.flights : e = card.catalog.flights[j]
    BY DEF Range
<1>3. j \in 1 .. Len(card.catalog.flights)
    BY <1>1, <1>2, LenProperties
<1>4. e \in Entry /\ OnCard(card.data, e)
    BY <1>1, <1>2, <1>3, CatalogFields DEF SoundCard, CardInv
<1>5. e.blocks \in Nat /\ e.blocks > 1 /\ e.records \in Nat /\ e.start \in Nat
    BY <1>4, EntryFields
<1>6. \A k \in 0 .. e.blocks - 1 :
        LET b == card.data[e.start + k] IN b.take = e.take /\ b.sequence = k
    BY <1>4 DEF OnCard, IsBlock
<1>7. card.data[e.start + e.blocks - 1].first + card.data[e.start + e.blocks - 1].records
        = e.records
    <2> DEFINE last == e.blocks - 1
    <2>1. last \in 0 .. e.blocks - 1 /\ last # 0 /\ ~(last < e.blocks - 1)
        BY <1>5
    <2>2. e.start + last = e.start + e.blocks - 1
        BY <1>5
    <2>3. FirstRecord(last) \in Nat
        BY <1>5, <2>1, FirstRecordFacts
    <2>4. Count(e, last) = e.records - FirstRecord(e.blocks - 1)
        BY <2>1 DEF Count
    <2>5. IsBlock(card.data[e.start + last], e.id, e.take, last, Count(e, last))
        BY <1>4, <2>1 DEF OnCard
    <2>6. /\ card.data[e.start + last].first = FirstRecord(last)
          /\ card.data[e.start + last].records = e.records - FirstRecord(last)
        BY <2>4, <2>5 DEF IsBlock
    <2>7. FirstRecord(last) + (e.records - FirstRecord(last)) = e.records
        BY <1>5, <2>3
    <2>8. QED
        BY <2>2, <2>6, <2>7
<1>8. QED
    BY <1>6, <1>7

LEMMA TrueReads ==
    ASSUME Sound(sd, card, disowned), SoundCard(card, disowned), "ram" \notin disowned, Readable
    PROVE  ReadsAreTrue
<1>1. card \in Card /\ CacheOk(sd.cache) /\ LayoutOk(sd.layout) /\ Owned
    BY ReadsReady DEF Owned
<1>2. ASSUME NEW e \in flights, NEW i \in 0 .. e.records - 1,
             NEW r \in blackbox_sd_get_records(sd.cache, sd.layout, e, i), r.ok
      PROVE  IsRecord(r.cache, e, i)
    <2>1. /\ Listed(e) /\ \E j \in 1 .. Len(sd.catalog.flights) : e = sd.catalog.flights[j]
          /\ i \in Nat
        BY FlightsListed
    <2>2. QED
        BY <1>1, <1>2, <2>1, GetRecords
<1>3. QED
    BY <1>2 DEF ReadsAreTrue, IsRecord

(* What the catalog on the card lists is on the card, and a download serves*)
(* record i of a flight for record i, or nothing (load_catalog,            *)
(* append_catalog_entry, blackbox_sd_update, blackbox_sd_get_records).     *)
THEOREM FlightsSafety == Spec => []FlightsAreTrue
<1>1. IInv => FlightsAreTrue
    BY BackedCatalog, TrueReads DEF IInv, SdInv, FlightsAreTrue
<1>2. QED
    BY <1>1, FlightLogInvariance, PTL
=============================================================================
