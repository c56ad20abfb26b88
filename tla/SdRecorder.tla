------------------------------ MODULE SdRecorder ------------------------------
(***************************************************************************)
(* storage/blackbox_sd.c, the recorder on a microSD card.  A flight is a   *)
(* run of sectors that is appended to the last; one sector, the catalog,   *)
(* says where the flights are and is written after each.  Blocks wait in a *)
(* queue that blackbox_sd_update writes one at a time by DMA.              *)
(*                                                                         *)
(* The card is part of the state: power may fail, the card may be pulled   *)
(* out or exchanged, and any read or write may fail, at any moment.        *)
(*                                                                         *)
(* Data abstraction.  A block holds no payload but history: which          *)
(* recording (take) wrote it, and the number of its first record.  A block *)
(* or a catalog whose magic, version or checksum is wrong is GARBAGE or    *)
(* BAD_CATALOG; sectors are counted from SD_DATA_OFFSET_SECTORS.  DMA,     *)
(* response and busy are one phase, as each ends in time or at the 250 ms  *)
(* deadline.                                                               *)
(***************************************************************************)
EXTENDS Integers, Sequences, Functions

CONSTANTS
    SECTORS,                \* sector_count, less SD_DATA_OFFSET_SECTORS
    SD_QUEUE_BLOCKS, SD_RECORDS_PER_BLOCK, SD_CATALOG_FLIGHTS,
    MAX_TAKES               \* bound: flights that start to record

ASSUME SdSizes ==
    /\ {SECTORS, SD_QUEUE_BLOCKS, SD_RECORDS_PER_BLOCK, SD_CATALOG_FLIGHTS} \subseteq Nat \ {0}
    /\ SECTORS > 2 /\ MAX_TAKES \in Nat

VARIABLES
    sd,         \* the static variables of blackbox_sd.c, one field each
    card,       \* is it in its slot, and what its sectors hold
    disowned    \* history: the catalogs, "card" and "ram", whose flights may have
                \* been written over since that of the card was good and not taken

-----------------------------------------------------------------------------
GARBAGE == [id |-> 0, take |-> 0, sequence |-> 0, records |-> 0, first |-> 0]
Takes == 0 .. MAX_TAKES + 1
Block == [id : Takes, take : Takes, sequence : 0 .. SECTORS + SD_QUEUE_BLOCKS,
          records : 0 .. SD_RECORDS_PER_BLOCK, first : Nat]

EMPTY_CATALOG == [next_sector |-> 0, next_flight_id |-> 1, flights |-> <<>>]
BAD_CATALOG == [EMPTY_CATALOG EXCEPT !.next_flight_id = 0]

NO_CACHE == [valid |-> FALSE, sector |-> 0, block |-> GARBAGE]
NO_LAYOUT == [valid |-> FALSE, id |-> 0, metadata |-> 0]

(* A card from elsewhere, whose flight 1 is not ours.                      *)
OTHER_CARD ==
    LET block(k) == [id |-> 1, take |-> MAX_TAKES + 1, sequence |-> k, records |-> k, first |-> 0]
    IN  [present |-> TRUE,
         data |-> [s \in 0 .. SECTORS - 1 |-> IF s < 2 THEN block(s) ELSE GARBAGE],
         catalog |-> [next_sector |-> 2, next_flight_id |-> 2,
                      flights |-> <<[id |-> 1, start |-> 0, blocks |-> 2, records |-> 1,
                                     take |-> MAX_TAKES + 1]>>]]

NEW_CARD == [present |-> TRUE, data |-> [s \in 0 .. SECTORS - 1 |-> GARBAGE],
             catalog |-> BAD_CATALOG]

SdTypeOK ==
    /\ sd.state \in {"ABSENT", "READY", "RECORDING", "ERROR"}
    /\ sd.write_state \in {"IDLE", "block", "catalog"}
    /\ {sd.enabled, sd.catalog_commit_pending, sd.cache.valid, sd.layout.valid} \subseteq BOOLEAN
    /\ sd.queue \in Seq(Block) /\ Len(sd.queue) <= SD_QUEUE_BLOCKS
    /\ sd.write_state = "block" => sd.queue # <<>>
    /\ sd.current \in 0 .. SD_RECORDS_PER_BLOCK - 1
    /\ sd.next_sector \in 0 .. SECTORS
    /\ Len(sd.catalog.flights) <= SD_CATALOG_FLIGHTS
    /\ \A s \in DOMAIN card.data : card.data[s] \in Block
    /\ disowned \subseteq {"card", "ram"}

is_busy == sd.write_state # "IDLE" \/ sd.queue # <<>> \/ sd.catalog_commit_pending

-----------------------------------------------------------------------------
(* Start and probe.  The RAM of a recorder that has just been powered:     *)

blackbox_sd_init ==
    [state |-> "ABSENT", enabled |-> FALSE, next_sector |-> 0, flight_id |-> 0,
     sequence |-> 0, start |-> 0, blocks |-> 0, records |-> 0, current |-> 0,
     take |-> 0, queue |-> <<>>, write_state |-> "IDLE",
     catalog_commit_pending |-> FALSE, catalog |-> EMPTY_CATALOG,
     cache |-> NO_CACHE, layout |-> NO_LAYOUT]

KeepsReads(r) == r

(* Nobody looks at the rest of a cache or layout that is not valid.        *)
forget_reads(r) == [r EXCEPT !.cache = NO_CACHE, !.layout = NO_LAYOUT]

reset_catalog(r) ==
    [r EXCEPT !.catalog = EMPTY_CATALOG, !.next_sector = 0, !.flight_id = 0]

acceptable(c) ==
    /\ c.next_flight_id # 0
    /\ c.next_sector < SECTORS
    /\ Len(c.flights) <= SD_CATALOG_FLIGHTS

(* One read that fails, or a catalog whose next sector is the end of the   *)
(* card, and the catalog is empty - in RAM only, until the next commit.    *)
load_catalog(r) ==
    (IF acceptable(card.catalog)
     THEN {[r EXCEPT !.catalog = card.catalog, !.next_sector = card.catalog.next_sector]}
     ELSE {}) \cup {reset_catalog(r)}

(* History.  A catalog that is taken is as good as it was on the card; one *)
(* that is not taken will be written over.                                 *)
disowned_by(loaded) ==
    IF loaded = card.catalog
    THEN disowned' = IF "card" \in disowned THEN {"card", "ram"} ELSE {}
    ELSE disowned' = IF card.catalog = BAD_CATALOG THEN {} ELSE {"card"}

(* What becomes of it when a write of the catalog ends, well or not.       *)
disowned_on(written) ==
    disowned' = IF written.catalog = card.catalog THEN disowned
                ELSE IF written.catalog = BAD_CATALOG \/ "ram" \notin disowned
                THEN disowned \ {"card"}
                ELSE disowned \cup {"card"}

(* initialise_card succeeds and the catalog is loaded, or it fails.        *)
Mount(r) ==
    \/ \E loaded \in load_catalog(r) :
         /\ sd' = [loaded EXCEPT !.state = "READY"]
         /\ disowned_by(loaded.catalog)
    \/ sd' = [r EXCEPT !.state = "ERROR"] /\ UNCHANGED disowned

(* GET_BLACKBOX_STATUS probes a recorder that is absent or in error.       *)
blackbox_sd_probe ==
    /\ sd.state \in {"ABSENT", "ERROR"} /\ sd.write_state = "IDLE"
    /\ IF card.present
       THEN Mount(forget_reads([sd EXCEPT !.queue = <<>>, !.catalog_commit_pending = FALSE,
                                          !.current = 0]))
       ELSE sd' = [sd EXCEPT !.state = "ABSENT", !.enabled = FALSE] /\ UNCHANGED disowned
    /\ UNCHANGED card

blackbox_sd_set_enabled(value) ==
    sd' = [sd EXCEPT !.enabled = value /\ sd.state = "READY"]

-----------------------------------------------------------------------------
(* The recorder's side of a flight, as functions of its RAM.               *)

TakesAny(r) == Len(r.queue) <= SD_QUEUE_BLOCKS

queue_has_room(r) == Len(r.queue) < SD_QUEUE_BLOCKS

queued(r, records) ==
    [r EXCEPT !.queue = Append(@, [id |-> r.flight_id, take |-> r.take,
                                   sequence |-> r.sequence, records |-> records,
                                   first |-> r.records]),
              !.sequence = @ + 1, !.blocks = @ + 1,
              !.records = @ + records, !.current = 0]

(* A block that finds the queue full is dropped, with no trace in the      *)
(* sequence or in the catalog.                                             *)
queue_current(r) ==
    IF r.current = 0 THEN r
    ELSE IF queue_has_room(r) THEN queued(r, r.current)
    ELSE [r EXCEPT !.current = 0]

(* Silently nothing while the previous flight is still being written.      *)
blackbox_sd_start(r, take) ==
    IF ~r.enabled \/ r.state # "READY" \/ r.write_state # "IDLE"
        \/ r.queue # <<>> \/ r.catalog_commit_pending
    THEN r
    ELSE IF r.next_sector >= SECTORS THEN [r EXCEPT !.state = "ERROR", !.enabled = FALSE]
    ELSE LET begun == [r EXCEPT !.flight_id = r.catalog.next_flight_id, !.sequence = 0,
                                !.start = r.next_sector, !.blocks = 0, !.records = 0,
                                !.current = 0, !.take = take]
         IN  [queued(forget_reads(begun), 0) EXCEPT !.state = "RECORDING"]

blackbox_sd_append(r) ==
    IF r.state # "RECORDING" THEN r
    ELSE LET more == [r EXCEPT !.current = @ + 1]
         IN  IF more.current >= SD_RECORDS_PER_BLOCK THEN queue_current(more) ELSE more

append_catalog_entry(r) ==
    LET kept == IF Len(r.catalog.flights) >= SD_CATALOG_FLIGHTS
                THEN Tail(r.catalog.flights) ELSE r.catalog.flights
        entry == [id |-> r.flight_id, start |-> r.start, blocks |-> r.blocks,
                  records |-> r.records, take |-> r.take]
    IN  [r EXCEPT !.catalog.flights = Append(kept, entry),
                  !.catalog.next_flight_id = r.flight_id + 1,
                  !.catalog_commit_pending = TRUE]

blackbox_sd_stop(r, retain) ==
    IF r.state # "RECORDING" THEN r
    ELSE LET last == IF retain THEN queue_current(r) ELSE [r EXCEPT !.current = 0]
         IN  [IF retain /\ last.records > 0 THEN append_catalog_entry(last) ELSE last
              EXCEPT !.state = "READY"]

(* CLEAR_BLACKBOX: the ids and the sectors start again.                    *)
blackbox_sd_clear ==
    /\ sd.state = "READY" /\ sd.write_state = "IDLE" /\ sd.queue = <<>>
    /\ sd' = [forget_reads(reset_catalog(sd)) EXCEPT !.catalog_commit_pending = TRUE]
    /\ disowned' = disowned \ {"ram"}
    /\ UNCHANGED card

-----------------------------------------------------------------------------
(* blackbox_sd_update, one disjunct per way through it.                    *)

sd_error(r) == [r EXCEPT !.write_state = "IDLE", !.state = "ERROR", !.enabled = FALSE]

(* A write under way when the card goes is never ended: write_state stays. *)
UpdateAbsent ==
    /\ ~card.present
    /\ sd' = [sd EXCEPT !.state = "ABSENT", !.enabled = FALSE]
    /\ UNCHANGED <<card, disowned>>

Running == card.present /\ sd.state \in {"READY", "RECORDING"}

UpdateIssue ==
    /\ Running /\ sd.write_state = "IDLE"
    /\ \/ /\ sd.queue # <<>> /\ sd.next_sector < SECTORS
          /\ sd' \in {sd_error(sd), [sd EXCEPT !.write_state = "block"]}
       \/ /\ sd.queue # <<>> /\ sd.next_sector >= SECTORS
          /\ sd' = sd_error(sd)
       \/ /\ sd.queue = <<>> /\ sd.catalog_commit_pending
          /\ LET stamped == [sd EXCEPT !.catalog.next_sector = sd.next_sector]
             IN  sd' \in {sd_error(stamped), [stamped EXCEPT !.write_state = "catalog"]}
    /\ UNCHANGED <<card, disowned>>

(* What a write may leave on the card when it does not end well.           *)
Written == IF sd.write_state = "block" THEN [card EXCEPT !.data[sd.next_sector] = Head(sd.queue)]
           ELSE [card EXCEPT !.catalog = sd.catalog]
Torn == IF sd.write_state = "block" THEN [card EXCEPT !.data[sd.next_sector] = GARBAGE]
        ELSE [card EXCEPT !.catalog = BAD_CATALOG]
CutShort == {card, Written, Torn}

InFlight == Running /\ sd.write_state # "IDLE"

block_written(r) == [r EXCEPT !.queue = Tail(@), !.next_sector = @ + 1, !.write_state = "IDLE"]

KeepsPending(r) == [r EXCEPT !.write_state = "IDLE"]

catalog_written(r) == [r EXCEPT !.catalog_commit_pending = FALSE, !.write_state = "IDLE"]

UpdateDone ==
    /\ InFlight
    /\ card' = Written
    /\ sd' = IF sd.write_state = "block" THEN block_written(sd) ELSE catalog_written(sd)
    /\ disowned_on(card')

(* The card refuses the data, or the deadline passes.                      *)
UpdateFailed ==
    /\ InFlight
    /\ card' \in CutShort
    /\ sd' = sd_error(sd)
    /\ disowned_on(card')

blackbox_sd_update == UpdateAbsent \/ UpdateIssue \/ UpdateDone \/ UpdateFailed

-----------------------------------------------------------------------------
(* Reading back.  Each function is the set of its outcomes: whether it     *)
(* succeeded, and the read cache that it leaves behind.                    *)

(* A read that fails may have overwritten the buffer.                      *)
read_sector(cache, s) ==
    {[ok |-> FALSE, cache |-> cache],
     [ok |-> FALSE, cache |-> IF cache.valid THEN [cache EXCEPT !.block = GARBAGE] ELSE cache]}
    \cup (IF card.present THEN {[ok |-> TRUE, cache |-> [cache EXCEPT !.block = card.data[s]]]}
          ELSE {})

tagged(r, s) == IF r.ok THEN [r EXCEPT !.cache.valid = TRUE, !.cache.sector = s] ELSE r

cached_sector(cache, s) ==
    IF cache.valid /\ cache.sector = s THEN {[ok |-> TRUE, cache |-> cache]}
    ELSE {tagged(r, s) : r \in read_sector(cache, s)}

metadata_blocks(b, id) == IF b.id = id /\ b.records = 0 THEN 1 ELSE 0

holds_record(b, id, block_index, i) ==
    /\ b.id = id /\ b.sequence >= block_index
    /\ i % SD_RECORDS_PER_BLOCK < b.records

(* Record i of the flight of catalog entry e, metadata blocks known.       *)
record_at(cache, e, i, metadata) ==
    LET block_index == metadata + i \div SD_RECORDS_PER_BLOCK
    IN  IF block_index >= e.blocks THEN {[ok |-> FALSE, cache |-> cache]}
        ELSE {[r EXCEPT !.ok = @ /\ holds_record(r.cache.block, e.id, block_index, i)] :
              r \in cached_sector(cache, e.start + block_index)}

blackbox_sd_get_record(cache, e, i) ==
    UNION {IF r.ok THEN record_at(r.cache, e, i, metadata_blocks(r.cache.block, e.id)) ELSE {r} :
           r \in cached_sector(cache, e.start)}

(* It tags the buffer only when the block is metadata.                     *)
blackbox_sd_get_metadata(cache, e) ==
    {IF metadata_blocks(r.cache.block, e.id) = 1 THEN tagged(r, e.start)
     ELSE [r EXCEPT !.ok = FALSE] : r \in read_sector(cache, e.start)}

(* The layout of the last flight read is remembered.                       *)
layouts(cache, layout, e) ==
    IF layout.valid /\ layout.id = e.id
    THEN {[ok |-> TRUE, cache |-> cache, layout |-> layout]}
    ELSE {[ok |-> r.ok, cache |-> r.cache,
           layout |-> IF r.ok THEN [valid |-> TRUE, id |-> e.id,
                                    metadata |-> metadata_blocks(r.cache.block, e.id)]
                      ELSE layout] :
          r \in {tagged(q, e.start) : q \in read_sector(cache, e.start)}}

blackbox_sd_get_records(cache, layout, e, i) ==
    UNION {IF l.ok THEN {[ok |-> r.ok, cache |-> r.cache, layout |-> l.layout] :
                         r \in record_at(l.cache, e, i, l.layout.metadata)}
           ELSE {l} : l \in layouts(cache, layout, e)}

Readable == sd.state = "READY" /\ ~is_busy

flights == Range(sd.catalog.flights)

(* GET_BLACKBOX_METADATA.                                                  *)
ReadMetadata ==
    /\ Readable
    /\ \E e \in flights : \E m \in blackbox_sd_get_metadata(sd.cache, e) :
         sd' = [sd EXCEPT !.cache = m.cache]
    /\ UNCHANGED <<card, disowned>>

(* GET_BLACKBOX_BINARY.                                                    *)
ReadBinary ==
    /\ Readable
    /\ \E e \in flights : \E i \in 0 .. e.records - 1 :
         \E r \in blackbox_sd_get_records(sd.cache, sd.layout, e, i) :
           sd' = [sd EXCEPT !.cache = r.cache, !.layout = r.layout]
    /\ UNCHANGED <<card, disowned>>

(* GET_BLACKBOX_CHUNK: the metadata, then records until one fails.         *)
ReadText ==
    /\ Readable
    /\ \E e \in flights : \E i \in 0 .. e.records - 1 :
         \E m \in blackbox_sd_get_metadata(sd.cache, e) :
           \E r \in blackbox_sd_get_record(m.cache, e, i) :
             \/ sd' = [sd EXCEPT !.cache = r.cache]
             \/ /\ r.ok /\ i + 1 < e.records
                /\ \E n \in blackbox_sd_get_record(r.cache, e, i + 1) :
                     sd' = [sd EXCEPT !.cache = n.cache]
    /\ UNCHANGED <<card, disowned>>

-----------------------------------------------------------------------------
(* The slot and the power.                                                 *)

(* A card that comes back or is exchanged was noticed to be absent: one    *)
(* that was not has lost its initialisation and answers nothing.           *)
PullCard ==
    /\ card.present
    /\ card' \in {[c EXCEPT !.present = FALSE] :
                  c \in IF InFlight THEN CutShort ELSE {card}}
    /\ disowned_on(card')
    /\ UNCHANGED sd

PushCard ==
    /\ ~card.present /\ sd.state = "ABSENT"
    /\ \/ card' = [card EXCEPT !.present = TRUE] /\ UNCHANGED disowned
       \/ card' = OTHER_CARD /\ disowned' = {}
    /\ UNCHANGED sd

(* Power fails, and comes back later.                                      *)
SdPowerLoss ==
    /\ card' \in IF InFlight THEN CutShort ELSE {card}
    /\ disowned_on(card')
    /\ sd' = blackbox_sd_init

SdPowerUp ==
    /\ IF card.present THEN Mount(sd) ELSE UNCHANGED <<sd, disowned>>
    /\ UNCHANGED card
=============================================================================
