------------------------------- MODULE Receiver -------------------------------
(***************************************************************************)
(* drivers/receiver/sbus.c: the radio receiver.  The UART interrupt puts   *)
(* one byte at a time into a ring that sbus_update drains from the main    *)
(* loop; an error interrupt, an overrun of the ring, a silent UART and a   *)
(* change of configuration all break the stream of bytes, each repaired in *)
(* its own way.                                                            *)
(*                                                                         *)
(* Data abstraction.  A byte is a "start" (0x0F, whose bit 3 is the        *)
(* failsafe bit; or a CRSF sync byte), an "end" (an SBUS end byte) or      *)
(* "data".  A frame is FRAME_SIZE bytes: start, payload, end for SBUS;     *)
(* sync, length, body for CRSF.  There a length of kind "data" is 24,      *)
(* "end" another one in range, "start" too long; a body of kind "data" is  *)
(* RC channels with the right CRC, "end" another message with the right    *)
(* CRC.  "gap" marks a byte before which bytes were lost or damaged: it is *)
(* history, the code cannot see it, except that a CRC taken over a gap is  *)
(* wrong.  Times are ages in ticks that stop at the limit they are compared*)
(* with; an age nobody reads does not grow.  data.valid is loss_reason =   *)
(* "NONE" at the end of a call; the driver itself never reads it.          *)
(*                                                                         *)
(* Interrupts come between any two actions: an action of sbus_update is    *)
(* one access of the ring, of the flags or of the UART.                    *)
(***************************************************************************)
EXTENDS Integers, Sequences

CONSTANTS
    FRAME_SIZE, RX_RING_SIZE,
    SIGNAL_TIMEOUT, FAILSAFE_CONFIRM, RECOVERY_RETRY, INVERTER_PROBE, \* ticks
    HAS_INVERTER_CONTROL

ASSUME ReceiverAssumption ==
    /\ FRAME_SIZE = 3 /\ RX_RING_SIZE \in Nat \ {0, 1}
    /\ {SIGNAL_TIMEOUT, FAILSAFE_CONFIRM, RECOVERY_RETRY, INVERTER_PROBE} \subseteq Nat \ {0}
    /\ HAS_INVERTER_CONTROL \in BOOLEAN

VARIABLES
    protocol,          \* receiver_protocol: "SBUS" or "CRSF"
    uart,              \* "listening" while Receive_IT is armed, else "off"
    rx_ring,           \* from rx_tail to rx_head
    uart_recovery_pending, ring_resync_pending,
    pc,                \* where sbus_update stands
    frame,             \* frame[0 .. frame_index - 1]
    inverter_locked,
    acquired,          \* data.valid_frame_count > 0
    frame_age,         \* NEVER, or the time since last_frame_us
    failsafe, failsafe_pending, failsafe_age,
    recovery_age, probe_age,
    lost,              \* history: bytes were lost after the last one in the ring
    late,              \* history: a loss was not reported to the parser in time, and
                       \* nothing was discarded since (TornFramesAreCaught)
    accepted,          \* history: what the parser has just decoded
    flagged            \* history: failsafe frames since the last normal one, up to 2

ringVars == <<uart, rx_ring, uart_recovery_pending, ring_resync_pending, recovery_age,
              lost, late>>
dataVars == <<inverter_locked, acquired, frame_age, failsafe, failsafe_pending,
              failsafe_age, flagged>>
vars == <<protocol, pc, frame, probe_age, accepted, ringVars, dataVars>>

-----------------------------------------------------------------------------
Kind == {"start", "end", "data"}
Byte == [kind : Kind, gap : BOOLEAN]
NEVER == -1

(* Between a discard and the restart of the reception after it.            *)
Restarting == {"recover_restart", "probe_restart", "judge_restart"}

TypeOK ==
    /\ protocol \in {"SBUS", "CRSF"} /\ uart \in {"listening", "off"}
    /\ rx_ring \in Seq(Byte) /\ Len(rx_ring) < RX_RING_SIZE
    /\ uart_recovery_pending \in BOOLEAN /\ ring_resync_pending \in BOOLEAN
    /\ pc \in {"idle", "recover", "check", "discard", "parse", "probe", "judge"} \cup Restarting
    /\ frame \in Seq(Byte) /\ Len(frame) < FRAME_SIZE
    /\ frame # <<>> => frame[1].kind = "start"
    /\ inverter_locked \in BOOLEAN /\ acquired \in BOOLEAN
    /\ frame_age \in {NEVER} \cup 0 .. SIGNAL_TIMEOUT
    /\ failsafe \in BOOLEAN /\ failsafe_pending \in BOOLEAN
    /\ failsafe_age \in 0 .. FAILSAFE_CONFIRM
    /\ recovery_age \in 0 .. RECOVERY_RETRY /\ probe_age \in 0 .. INVERTER_PROBE
    /\ lost \in BOOLEAN /\ late \in BOOLEAN
    /\ accepted \in {"nothing", "whole", "torn"} /\ flagged \in 0 .. 2

-----------------------------------------------------------------------------
(* Interrupts, at any moment.                                              *)

RxCplt ==
    /\ uart = "listening"
    /\ \E k \in Kind :
          IF Len(rx_ring) < RX_RING_SIZE - 1
          THEN /\ rx_ring' = Append(rx_ring, [kind |-> k, gap |-> lost])
               /\ lost' = FALSE
               /\ UNCHANGED <<ring_resync_pending, late>>
          ELSE /\ ring_resync_pending' = TRUE
               /\ lost' = TRUE
               /\ late' = (late \/ pc \in {"parse", "probe", "probe_restart", "judge", "judge_restart"})
               /\ UNCHANGED rx_ring
    /\ UNCHANGED <<protocol, uart, uart_recovery_pending, recovery_age, pc, frame, probe_age, accepted, dataVars>>

(* Parity, framing or noise leaves the reception running, an overrun of    *)
(* the UART itself ends it.                                                *)
ErrorInterrupt ==
    /\ uart = "listening"
    /\ uart' \in {"listening", "off"}
    /\ uart_recovery_pending' = TRUE
    /\ recovery_age' = 0
    /\ lost' = TRUE
    /\ late' = (late \/ pc # "idle")
    /\ UNCHANGED <<protocol, rx_ring, ring_resync_pending, pc, frame, probe_age,
                   accepted, dataVars>>

(* "A UART can occasionally stop producing callbacks".                     *)
Stall ==
    /\ uart = "listening" /\ uart' = "off" /\ lost' = TRUE
    /\ UNCHANGED <<protocol, rx_ring, uart_recovery_pending, ring_resync_pending,
                   recovery_age, late, pc, frame, probe_age, accepted, dataVars>>

Older(age, limit) == IF age < limit THEN age + 1 ELSE age

Tick ==
    /\ frame_age' = IF frame_age = NEVER THEN NEVER ELSE Older(frame_age, SIGNAL_TIMEOUT)
    /\ failsafe_age' = IF failsafe_pending THEN Older(failsafe_age, FAILSAFE_CONFIRM)
                                           ELSE failsafe_age
    /\ recovery_age' = Older(recovery_age, RECOVERY_RETRY)
    /\ probe_age' = IF inverter_locked THEN probe_age ELSE Older(probe_age, INVERTER_PROBE)
    /\ UNCHANGED <<protocol, pc, frame, accepted, uart, rx_ring,
                   uart_recovery_pending, ring_resync_pending, lost, late, inverter_locked,
                   acquired, failsafe, failsafe_pending, flagged>>

-----------------------------------------------------------------------------
(* sbus_update.                                                            *)

KeepsFrame == frame

frame_after_discard == <<>>

(* frame_index = 0; rx_tail = rx_head.                                     *)
discard ==
    /\ frame' = frame_after_discard
    /\ rx_ring' = <<>>
    /\ late' = FALSE

restart_uart_receive == uart' = "listening" /\ lost' = TRUE

after_restart ==
    [recover_restart |-> "check", probe_restart |-> "judge", judge_restart |-> "idle"]

(* The reception ran on since the discard: what came in is kept, in front  *)
(* of a gap that no flag reports.                                          *)
Restart ==
    /\ pc \in Restarting /\ pc' = after_restart[pc]
    /\ restart_uart_receive
    /\ late' = (late \/ rx_ring # <<>>)
    /\ UNCHANGED <<protocol, frame, probe_age, accepted, rx_ring, uart_recovery_pending,
                   ring_resync_pending, recovery_age, dataVars>>

after_begin == IF uart_recovery_pending THEN "recover" ELSE "check"

Begin ==
    /\ pc = "idle"
    /\ pc' = after_begin
    /\ uart_recovery_pending' = FALSE
    /\ accepted' = "nothing"
    /\ UNCHANGED <<protocol, frame, probe_age, uart, rx_ring, ring_resync_pending,
                   recovery_age, lost, late, dataVars>>

Recover ==
    /\ pc = "recover" /\ pc' = "recover_restart"
    /\ discard
    /\ UNCHANGED <<protocol, probe_age, accepted, uart, uart_recovery_pending,
                   ring_resync_pending, recovery_age, lost, dataVars>>

Check ==
    /\ pc = "check"
    /\ pc' = IF ring_resync_pending THEN "discard" ELSE "parse"
    /\ ring_resync_pending' = FALSE
    /\ UNCHANGED <<protocol, frame, probe_age, accepted, uart, rx_ring,
                   uart_recovery_pending, recovery_age, lost, late, dataVars>>

Resync ==
    /\ pc = "discard" /\ pc' = "parse"
    /\ discard
    /\ UNCHANGED <<protocol, probe_age, accepted, uart, uart_recovery_pending,
                   ring_resync_pending, recovery_age, lost, dataVars>>

NothingToParse ==
    /\ pc = "parse" /\ rx_ring = <<>>
    /\ pc' = "probe" /\ accepted' = "nothing"
    /\ UNCHANGED <<protocol, frame, probe_age, ringVars, dataVars>>

(* One turn of the parsing loop; g is the frame with the byte added.       *)
next_frame == Append(frame, Head(rx_ring))

Framed(g) == IF g = <<>> THEN g ELSE [g EXCEPT ![1].gap = FALSE]

Parse(g) ==
    /\ pc = "parse" /\ rx_ring # <<>>
    /\ g = next_frame
    /\ rx_ring' = Tail(rx_ring)
    /\ UNCHANGED <<protocol, pc, probe_age, uart, recovery_age, lost>>

Rejects(rest) ==
    /\ frame' = Framed(rest) /\ accepted' = "nothing"
    /\ UNCHANGED <<uart_recovery_pending, ring_resync_pending, late, dataVars>>

Torn(g) == \E i \in 2 .. Len(g) : g[i].gap

length_in_range(g) == g[2].kind # "start"

NeverComplete(g) == FALSE

frame_complete(g) == Len(g) = FRAME_SIZE

Collect(g) ==
    /\ Parse(g) /\ ~frame_complete(g)
    /\ Rejects(IF g[1].kind # "start" \/ (protocol = "CRSF" /\ Len(g) = 2 /\ ~length_in_range(g))
               THEN <<>> ELSE g)

(* The first valid frame starts the diagnostics afresh, and drops what the *)
(* interrupts have reported.                                               *)
Accept(g, fs) ==
    /\ frame' = <<>>
    /\ accepted' = IF Torn(g) THEN "torn" ELSE "whole"
    /\ acquired' = TRUE /\ inverter_locked' = TRUE
    /\ frame_age' = 0
    /\ uart_recovery_pending' = (uart_recovery_pending /\ acquired)
    /\ ring_resync_pending' = (ring_resync_pending /\ acquired)
    /\ late' = (late \/ (~acquired /\ (uart_recovery_pending \/ ring_resync_pending)))
    /\ flagged' = IF ~fs THEN 0 ELSE IF flagged < 2 THEN flagged + 1 ELSE 2

sbus_end_ok(g) == g[FRAME_SIZE].kind = "end"

frame_failsafe(g) == g[FRAME_SIZE - 1].kind = "start"

(* resync_frame: the frame begins again at the next start byte in it.      *)
resync_frame(g) ==
    IF \E i \in 2 .. Len(g) : g[i].kind = "start"
    THEN LET first == CHOOSE i \in 2 .. Len(g) :
                 g[i].kind = "start" /\ \A j \in 2 .. i - 1 : g[j].kind # "start"
         IN  SubSeq(g, first, Len(g))
    ELSE <<>>

SbusInvalid(g) ==
    /\ Parse(g) /\ protocol = "SBUS" /\ frame_complete(g) /\ ~sbus_end_ok(g)
    /\ Rejects(resync_frame(g))

SbusNormal(g) ==
    /\ Parse(g) /\ protocol = "SBUS" /\ frame_complete(g) /\ sbus_end_ok(g)
    /\ ~frame_failsafe(g)
    /\ Accept(g, FALSE)
    /\ failsafe_pending' = FALSE /\ failsafe_age' = 0
    /\ failsafe' = FALSE

AtOnce(age) == TRUE

confirmed(age) == age >= FAILSAFE_CONFIRM

SbusFailsafe(g) ==
    /\ Parse(g) /\ protocol = "SBUS" /\ frame_complete(g) /\ sbus_end_ok(g)
    /\ frame_failsafe(g)
    /\ Accept(g, TRUE)
    /\ failsafe_pending' = TRUE
    /\ failsafe_age' = IF failsafe_pending THEN failsafe_age ELSE 0
    /\ failsafe' = confirmed(failsafe_age')

crc_ok(g) == g[FRAME_SIZE].kind # "start" /\ ~Torn(g)

is_rc_frame(g) == crc_ok(g) /\ g[FRAME_SIZE].kind = "data" /\ g[2].kind = "data"

(* A wrong CRC, another message, or channels of the wrong length.          *)
CrsfOther(g) ==
    /\ Parse(g) /\ protocol = "CRSF" /\ frame_complete(g) /\ ~is_rc_frame(g)
    /\ Rejects(<<>>)

CrsfChannels(g) ==
    /\ Parse(g) /\ protocol = "CRSF" /\ frame_complete(g) /\ is_rc_frame(g)
    /\ Accept(g, FALSE)
    /\ failsafe' = FALSE
    /\ UNCHANGED <<failsafe_pending, failsafe_age>>

ParseByte ==
    LET g == next_frame
    IN  \/ Collect(g) \/ SbusInvalid(g) \/ SbusNormal(g) \/ SbusFailsafe(g)
        \/ CrsfOther(g) \/ CrsfChannels(g)

(* Without a frame the inverter may be set the wrong way: try the other.   *)
probe_due == HAS_INVERTER_CONTROL /\ ~inverter_locked /\ probe_age >= INVERTER_PROBE

Probe ==
    /\ pc = "probe"
    /\ IF probe_due
       THEN pc' = "probe_restart" /\ probe_age' = 0 /\ discard
       ELSE pc' = "judge" /\ UNCHANGED <<probe_age, frame, rx_ring, late>>
    /\ UNCHANGED <<protocol, accepted, uart, uart_recovery_pending, ring_resync_pending,
                   recovery_age, lost, dataVars>>

loss_reason ==
    IF failsafe THEN "FAILSAFE"
    ELSE IF frame_age \in {NEVER, SIGNAL_TIMEOUT} THEN "TIMEOUT" ELSE "NONE"

NeverRestarts == FALSE

restart_due ==
    inverter_locked /\ loss_reason = "TIMEOUT" /\ recovery_age >= RECOVERY_RETRY

Judge ==
    /\ pc = "judge"
    /\ IF restart_due
       THEN pc' = "judge_restart" /\ recovery_age' = 0 /\ discard
       ELSE pc' = "idle" /\ UNCHANGED <<recovery_age, frame, rx_ring, late>>
    /\ UNCHANGED <<protocol, probe_age, accepted, uart, uart_recovery_pending,
                   ring_resync_pending, lost, dataVars>>

Update ==
    \/ Begin \/ Recover \/ Check \/ Resync \/ NothingToParse \/ ParseByte
    \/ Probe \/ Judge \/ Restart

-----------------------------------------------------------------------------
(* Commands, between two calls of sbus_update.                             *)

(* sbus_set_config with another protocol, and the sbus_init it ends in.    *)
SetConfig ==
    /\ pc = "idle"
    /\ protocol' \in {"SBUS", "CRSF"} \ {protocol}
    /\ acquired' = FALSE /\ frame_age' = NEVER /\ failsafe' = FALSE
    /\ frame' = <<>> /\ rx_ring' = <<>> /\ late' = FALSE
    /\ probe_age' = 0 /\ inverter_locked' = FALSE
    /\ recovery_age' = RECOVERY_RETRY        \* last_recovery_us = 0
    /\ failsafe_pending' = FALSE /\ failsafe_age' = 0
    /\ uart' = "listening" /\ lost' = TRUE
    /\ accepted' = "nothing" /\ flagged' = 0
    /\ UNCHANGED <<pc, uart_recovery_pending, ring_resync_pending>>

(* board_receiver_uart_configure refuses: the reception was aborted.       *)
SetConfigFails ==
    /\ pc = "idle"
    /\ uart' = "off" /\ lost' = TRUE
    /\ UNCHANGED <<protocol, pc, frame, probe_age, accepted, rx_ring,
                   uart_recovery_pending, ring_resync_pending, recovery_age, late, dataVars>>

(* sbus_bind_receiver: a transmission that fails may have stopped the      *)
(* reception, which is restarted in the middle of whatever was received.   *)
BindFails ==
    /\ pc = "idle" /\ protocol = "CRSF"
    /\ restart_uart_receive
    /\ UNCHANGED <<protocol, pc, frame, probe_age, accepted, rx_ring,
                   uart_recovery_pending, ring_resync_pending, recovery_age, late, dataVars>>

Commands == SetConfig \/ SetConfigFails \/ BindFails

-----------------------------------------------------------------------------
Init ==
    /\ protocol \in {"SBUS", "CRSF"} /\ uart = "listening" /\ rx_ring = <<>>
    /\ uart_recovery_pending = FALSE /\ ring_resync_pending = FALSE
    /\ pc = "idle" /\ frame = <<>> /\ inverter_locked = FALSE
    /\ acquired = FALSE /\ frame_age = NEVER
    /\ failsafe = FALSE /\ failsafe_pending = FALSE /\ failsafe_age = 0
    /\ recovery_age = RECOVERY_RETRY /\ probe_age = 0
    /\ lost = TRUE /\ late = FALSE /\ accepted = "nothing" /\ flagged = 0

Next == RxCplt \/ ErrorInterrupt \/ Stall \/ Tick \/ Update \/ Commands

Spec == Init /\ [][Next]_vars

(* The main loop keeps calling sbus_update and the microsecond counter     *)
(* keeps counting.                                                         *)
FairSpec == Spec /\ WF_vars(Update) /\ WF_vars(Tick)

-----------------------------------------------------------------------------
(* A frame put together from bytes on both sides of a loss is never taken  *)
(* for channels, since SBUS has no checksum that would tell: a loss is     *)
(* reported by a flag that makes the next call discard what it has, or     *)
(* made by a restart right after the ring was emptied.  Three windows of   *)
(* the code are excepted: a report that comes while the call runs, after   *)
(* its flag was read; a report that the very first frame drops (lines 75   *)
(* to 85); and a byte that comes between rx_tail = rx_head and the restart *)
(* (lines 223, 272, 298), which stays in front of the restart's gap.       *)
TornFramesAreCaught == accepted = "torn" => late

(* Failsafe is raised by a run of flagged frames that lasts for            *)
(* FAILSAFE_CONFIRM_US, never by one alone, and never survives a normal    *)
(* frame or a change of protocol.                                          *)
FailsafeIsConfirmed ==
    /\ failsafe => flagged = 2 /\ failsafe_age = FAILSAFE_CONFIRM /\ protocol = "SBUS"
    /\ failsafe_pending /\ protocol = "SBUS" => flagged > 0

(* A reception that has stopped, with or without an error, is started      *)
(* again, as long as the frames received last did not report failsafe.     *)
ReceptionRestarts ==
    uart = "off" /\ (inverter_locked \/ HAS_INVERTER_CONTROL) ~> uart = "listening" \/ failsafe

(* The comment at line 290: "A UART can occasionally stop producing        *)
(* callbacks without raising a recoverable HAL error. Restart reception    *)
(* after a signal timeout".                                                *)
StalledUartRestarts ==
    uart = "off" /\ inverter_locked ~> uart = "listening"
=============================================================================
