------------------------------- MODULE FlightLog ------------------------------
(***************************************************************************)
(* storage/flight_log.c: what is kept of a flight.  A board with a card    *)
(* records on it, through SdRecorder, from the first throttle on; a board  *)
(* with no blackbox storage keeps the last records of the flight in a ring *)
(* in RAM and copies that to a flash sector after landing.  The module     *)
(* composes both with the flights that flight_control.c starts and ends,   *)
(* the host's commands, and the power.                                     *)
(*                                                                         *)
(* A record is [take, n, stop]: which flight took it, its number in that   *)
(* flight, and whether it is the marker that ends the log.  A sample that  *)
(* is not due to be recorded changes nothing, so every sample here is due. *)
(***************************************************************************)
EXTENDS SdRecorder

CONSTANTS
    FLIGHT_LOG_CAPACITY,    \* records of the ring in RAM
    MAX_SAMPLES             \* bound: samples of one flight

ASSUME LogSizes == {FLIGHT_LOG_CAPACITY, MAX_SAMPLES} \subseteq Nat \ {0}

VARIABLES
    storage,    \* "SD" or "NONE": what the board has
    powered,
    suspended,  \* a passthrough session: the loop leaves before flight control,
                \* the copy to flash and the recorder's update
    armed,      \* of flight_control.c
    log,        \* recording, inhibited, qualified, and which flight this is
    ram,        \* the ring, and what goes with it; boards with no storage only
    flash       \* the flash sector: its records, none when its checksum is
                \* wrong, and the flight of its metadata

logVars == <<log, ram, flash>>
sdVars == <<sd, card, disowned>>
vars == <<storage, powered, suspended, armed, logVars, sdVars>>

running == powered /\ ~suspended

-----------------------------------------------------------------------------
NO_RECORD == [take |-> 0, n |-> 0, stop |-> FALSE]
LogRecord == [take : Takes, n : 0 .. MAX_SAMPLES + 1, stop : BOOLEAN]
BAD_SECTOR == [records |-> <<>>, metadata |-> 0]
Slots == 0 .. FLIGHT_LOG_CAPACITY - 1

(* flight_log_init; a sector with a good checksum is the log of the last   *)
(* flight.                                                                 *)
flight_log_init(take) ==
    /\ log' = [recording |-> FALSE, inhibited |-> FALSE, qualified |-> FALSE,
               take |-> take, samples |-> 0]
    /\ ram' = [records |-> [s \in Slots |-> NO_RECORD], write_index |-> 0,
               record_count |-> Len(flash.records), using_flash |-> flash.records # <<>>,
               preserved_flash_count |-> 0, persist_pending |-> FALSE, metadata |-> 0]

TypeOK ==
    /\ storage \in {"SD", "NONE"} /\ {powered, suspended, armed} \subseteq BOOLEAN
    /\ log \in [recording : BOOLEAN, inhibited : BOOLEAN, qualified : BOOLEAN,
                take : Takes, samples : 0 .. MAX_SAMPLES]
    /\ ram.records \in [Slots -> LogRecord] /\ ram.write_index \in Slots
    /\ {ram.record_count, ram.preserved_flash_count} \subseteq 0 .. FLIGHT_LOG_CAPACITY
    /\ {ram.using_flash, ram.persist_pending} \subseteq BOOLEAN
    /\ flash.records \in Seq(LogRecord) /\ Len(flash.records) <= FLIGHT_LOG_CAPACITY
    /\ SdTypeOK

Init ==
    /\ storage \in {"SD", "NONE"}
    /\ powered = TRUE /\ suspended = FALSE /\ armed = FALSE
    /\ flash = BAD_SECTOR
    /\ log = [recording |-> FALSE, inhibited |-> FALSE, qualified |-> FALSE,
              take |-> 0, samples |-> 0]
    /\ ram = [records |-> [s \in Slots |-> NO_RECORD], write_index |-> 0, record_count |-> 0,
              using_flash |-> FALSE, preserved_flash_count |-> 0,
              persist_pending |-> FALSE, metadata |-> 0]
    /\ disowned = {}
    /\ card = [NEW_CARD EXCEPT !.present = (storage = "SD")]
    /\ sd = [blackbox_sd_init EXCEPT
               !.state = IF storage = "SD" THEN "READY" ELSE "ABSENT",
               !.enabled = (storage = "SD")]

-----------------------------------------------------------------------------
(* The ring in RAM.                                                        *)

ram_record(r, i) ==
    r.records[((IF r.record_count = FLIGHT_LOG_CAPACITY THEN r.write_index ELSE 0) + i)
              % FLIGHT_LOG_CAPACITY]

put(r, item) ==
    [r EXCEPT !.records[r.write_index] = item,
              !.write_index = (@ + 1) % FLIGHT_LOG_CAPACITY,
              !.record_count = IF @ < FLIGHT_LOG_CAPACITY THEN @ + 1 ELSE @]

(* flight_log_start; the flash log is set aside, in case nothing is flown. *)
begun(r, take) ==
    [r EXCEPT !.preserved_flash_count = IF r.using_flash THEN r.record_count ELSE 0,
              !.using_flash = FALSE, !.persist_pending = FALSE,
              !.write_index = 0, !.record_count = 0, !.metadata = take]

ForgetsFlash(r) ==
    [r EXCEPT !.persist_pending = FALSE, !.write_index = 0,
              !.record_count = r.preserved_flash_count]

(* A flight without throttle leaves the flash log as it was.               *)
discarded(r) ==
    [r EXCEPT !.persist_pending = FALSE, !.write_index = 0,
              !.record_count = r.preserved_flash_count,
              !.using_flash = r.preserved_flash_count > 0]

ended(r) ==
    IF r.record_count = 0 THEN r
    ELSE LET last == ram_record(r, r.record_count - 1)
             marker == [take |-> last.take, n |-> last.n + 1, stop |-> TRUE]
         IN  [put(r, marker) EXCEPT !.persist_pending = TRUE]

-----------------------------------------------------------------------------
(* A flight.  flight_control.c arms, passes every sample, and disarms; the *)
(* PID simulation, which the host sets while disarmed, inhibits the log.   *)

Arm ==
    /\ ~armed /\ log.take < MAX_TAKES
    /\ armed' = TRUE
    /\ IF log.inhibited THEN UNCHANGED logVars
       ELSE /\ log' = [log EXCEPT !.recording = TRUE, !.qualified = FALSE,
                                  !.take = @ + 1, !.samples = 0]
            /\ ram' = IF storage = "NONE" THEN begun(ram, log.take + 1) ELSE ram
            /\ UNCHANGED flash
    /\ UNCHANGED sdVars

flight_log_record(throttle) ==
    /\ armed /\ log.recording /\ log.samples < MAX_SAMPLES
    /\ log' = [log EXCEPT !.qualified = @ \/ throttle, !.samples = @ + 1]
    /\ IF storage = "NONE"
       THEN /\ ram' = put(ram, [take |-> log.take, n |-> log.samples + 1, stop |-> FALSE])
            /\ UNCHANGED sdVars
       ELSE LET recorder == IF throttle /\ ~log.qualified THEN blackbox_sd_start(sd, log.take)
                            ELSE sd
            IN  /\ sd' = IF log'.qualified THEN blackbox_sd_append(recorder) ELSE recorder
                /\ UNCHANGED <<ram, card, disowned>>
    /\ UNCHANGED <<armed, flash>>

Disarm ==
    /\ armed /\ armed' = FALSE
    /\ sd' = blackbox_sd_stop(sd, log.recording /\ log.qualified)
    /\ ram' = IF storage # "NONE" \/ ~log.recording THEN ram
              ELSE IF log.qualified THEN ended(ram) ELSE discarded(ram)
    /\ log' = [log EXCEPT !.recording = FALSE, !.qualified = FALSE, !.samples = 0]
    /\ UNCHANGED <<flash, card, disowned>>

flight_log_set_inhibited(value) ==
    /\ ~armed
    /\ log' = [log EXCEPT !.inhibited = value, !.recording = @ /\ ~value]
    /\ UNCHANGED <<armed, ram, flash, sdVars>>

Flight ==
    \/ Arm \/ Disarm
    \/ \E throttle \in BOOLEAN : flight_log_record(throttle)
    \/ \E value \in BOOLEAN : flight_log_set_inhibited(value)

-----------------------------------------------------------------------------
(* flight_log_persist_if_ready, 200 ms after the stop: the sector is erased*)
(* and gets a header with the checksum of all records, then the records.   *)

image == [records |-> [i \in 1 .. ram.record_count |-> ram_record(ram, i - 1)],
          metadata |-> ram.metadata]

MayPersist == ram.persist_pending /\ ~log.recording

flight_log_persist_if_ready ==
    /\ MayPersist
    /\ \/ flash' = image /\ ram' = [ram EXCEPT !.persist_pending = FALSE, !.using_flash = TRUE]
       \/ /\ flash' \in {flash, BAD_SECTOR}     \* the erase or a word failed
          /\ ram' = [ram EXCEPT !.persist_pending = FALSE, !.using_flash = FALSE]
    /\ UNCHANGED <<armed, log, sdVars>>

(* What flight_log_get and flight_log_get_metadata answer.                 *)
flight_log_is_available == ~log.recording /\ ram.record_count > 0
flight_log_get(i) ==
    IF ~ram.using_flash THEN ram_record(ram, i)
    ELSE IF i < Len(flash.records) THEN flash.records[i + 1] ELSE NO_RECORD
flight_log_get_metadata == IF ram.using_flash THEN flash.metadata ELSE ram.metadata

(* GET_FLIGHT_LOG_CHUNK, again and again until it has them all.            *)
GetFlightLog ==
    IF log.recording THEN <<>>
    ELSE [i \in 1 .. ram.record_count |-> flight_log_get(i - 1)]

-----------------------------------------------------------------------------
(* The host, the slot and the power.                                       *)

Host ==
    /\ ~armed /\ storage = "SD"
    /\ \/ blackbox_sd_probe
       \/ blackbox_sd_clear
       \/ ReadMetadata
       \/ ReadBinary
       \/ ReadText
       \/ blackbox_sd_set_enabled(TRUE) /\ UNCHANGED <<card, disowned>>

Slot == storage = "SD" /\ (PullCard \/ PushCard)

PowerLoss ==
    /\ powered /\ powered' = FALSE /\ suspended' = FALSE /\ armed' = FALSE
    /\ flash' \in IF MayPersist THEN {flash, BAD_SECTOR, image} ELSE {flash}
    /\ log' = [log EXCEPT !.recording = FALSE, !.qualified = FALSE, !.samples = 0]
    /\ UNCHANGED <<storage, ram>>
    /\ SdPowerLoss

(* The settings enable the recorder again if the card was mounted.         *)
PowerUp ==
    /\ ~powered /\ powered' = TRUE
    /\ flight_log_init(log.take)
    /\ IF storage = "SD" THEN SdPowerUp ELSE UNCHANGED sdVars
    /\ UNCHANGED <<storage, suspended, armed, flash>>

(* Refused while armed, but not while the recorder is busy; the session    *)
(* lasts as long as the host likes (main.c:127-131).                       *)
esc_passthrough_begin == running /\ ~armed /\ suspended' = TRUE

esc_passthrough_end == suspended /\ suspended' = FALSE

SdUpdate ==
    /\ running /\ storage = "SD" /\ blackbox_sd_update
    /\ UNCHANGED <<storage, powered, suspended, armed, logVars>>

Next ==
    \/ /\ running /\ (Flight \/ flight_log_persist_if_ready)
       /\ UNCHANGED <<storage, powered, suspended>>
    \/ running /\ Host /\ UNCHANGED <<storage, powered, suspended, armed, logVars>>
    \/ SdUpdate
    \/ Slot /\ UNCHANGED <<storage, powered, suspended, armed, logVars>>
    \/ /\ esc_passthrough_begin \/ esc_passthrough_end
       /\ UNCHANGED <<storage, powered, armed, logVars, sdVars>>
    \/ PowerLoss \/ PowerUp

(* The loop calls blackbox_sd_update, and a write ends, or its deadline.   *)
(* It does not in a passthrough session, which need not end.               *)
Spec == Init /\ [][Next]_vars /\ WF_vars(SdUpdate)

-----------------------------------------------------------------------------
(* Every flight that the catalog on the card lists is on the card, block   *)
(* by block, and a download in groups serves record i of a flight for      *)
(* record i or nothing: over drops, tears, clears, exchanged cards, ids    *)
(* used twice, and whatever failed reads left in the cache.  It does not   *)
(* hold for a catalog that was good and, after a failed read, not loaded:  *)
(* the next flight is written over its flights.  Nor, if that flight ended *)
(* in an error, for the catalog in RAM into which it is loaded again, until*)
(* CLEAR_BLACKBOX or another card.                                         *)
CatalogIsBacked ==
    \A e \in Range(card.catalog.flights) :
      /\ \A k \in 0 .. e.blocks - 1 :
           LET b == card.data[e.start + k] IN b.take = e.take /\ b.sequence = k
      /\ card.data[e.start + e.blocks - 1].first
           + card.data[e.start + e.blocks - 1].records = e.records
ReadsAreTrue ==
    \A e \in flights : \A i \in 0 .. e.records - 1 :
      \A r \in blackbox_sd_get_records(sd.cache, sd.layout, e, i) :
        LET b == r.cache.block
        IN  r.ok => b.take = e.take /\ b.first + (i % SD_RECORDS_PER_BLOCK) = i
FlightsAreTrue ==
    /\ "card" \notin disowned => CatalogIsBacked
    /\ "ram" \notin disowned /\ Readable => ReadsAreTrue

(* The log of a board with no blackbox storage is, whenever it can be read,*)
(* the end of one flight that used the throttle: consecutive records, the  *)
(* stop marker last, and the metadata of that flight.  A short flight, a   *)
(* failed copy to flash and a power loss in its middle leave the log of    *)
(* before or none, never a mixture (flight_log_stop, flight_log_init).     *)
RamLogIsWhole ==
    powered /\ flight_log_is_available =>
        LET items == GetFlightLog
            final == items[Len(items)]
        IN  /\ \A i \in 1 .. Len(items) :
                 /\ items[i].take = items[1].take /\ items[i].n = items[1].n + i - 1
                 /\ items[i].stop = (i = Len(items))
            /\ flight_log_get_metadata = final.take

(* The recorder of a landed craft does not stay busy while the host is     *)
(* refused the downloads: all blocks and the catalog get written, or it is *)
(* in error, where a probe helps (blackbox_sd_update).  A passthrough      *)
(* session may begin before that and holds it up for as long as it lasts.  *)
RecorderSettles == []<>(suspended \/ ~(sd.state = "READY" /\ is_busy))
=============================================================================
