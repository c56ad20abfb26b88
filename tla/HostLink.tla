------------------------------- MODULE HostLink -------------------------------
(***************************************************************************)
(* drivers/usb/usb_cdc.c and usb_cdc_at32.c, config_protocol_update and    *)
(* protocol/esc_passthrough.c: how what the host writes becomes a command  *)
(* line, an MSP frame or, in a passthrough session, a 4-way frame that     *)
(* works on an ESC, and how the answer gets back.                          *)
(*                                                                         *)
(* Data abstraction.  A message is cut into chunks that name it: of three, *)
(* the start (for a frame its escape character), the middle and the end    *)
(* (a newline, or the checksum).  A checksum is right exactly for the whole*)
(* message before it.  Escape characters and newlines are nowhere else.  A *)
(* chunk is a USB packet.  What the device writes are lines, of one length *)
(* and each a packet: the lines of an answer, which say what they answer   *)
(* and whether it succeeded, and telemetry.                                *)
(***************************************************************************)
EXTENDS Integers, Sequences

CONSTANTS
    RX_SIZE,        \* chunks that fit in rx_ring
    TX_SIZE,        \* lines that fit in the transmit ring
    LINE_LENGTH,    \* chunks of a line, and its terminator
    AFTER_DAMAGE,   \* bound: messages after the stream was first damaged, each
                    \* of Retries, once telemetry has stopped and the ring is empty
    ESCS            \* ESCs of two families behind the four motor lines

VARIABLES
    platform,       \* "stm32": usb_cdc.c, or "at32": usb_cdc_at32.c; "none": no host
    configured_usb, \* the host has configured the device
    sending,        \* host: chunks it has yet to write
    waiting,        \* host: the message it wants an answer to, or NONE
    heard,          \* host: lines of that answer that have come, in order
    connected_esc,  \* host: the ESC that its last INIT_FLASH succeeded for
    rx_ring,
    tx,             \* tx_ring; tx_packet, handed to the USB hardware; tx_busy
    client_active,
    input_line,
    parser,         \* msp_state, or in a session fw_state
    body,           \* the chunk that the parser took for the middle
    fourway_active, selected_esc, interface_mode, device_info,
    damage,         \* history: what first may have torn the bytes from the host
    resent,         \* how many those are
    crowded_out,    \* history: telemetry left no room for a line of the answer
    torn,           \* history: a line was processed that the host did not write
    wrong_page      \* history: a page was erased at another family's address

wireVars == <<configured_usb, sending, rx_ring, damage, resent>>
answerVars == <<waiting, heard, connected_esc>>
replyVars == <<tx, crowded_out>>
textVars == <<input_line, torn, client_active>>
sessionVars == <<fourway_active, selected_esc, interface_mode, device_info, wrong_page>>
hostVars == <<platform, wireVars, answerVars, replyVars, textVars, parser, body, sessionVars>>

-----------------------------------------------------------------------------
Lines == {"get", "long"}
Frames == {"set_passthrough", "fc_version"}
PerEsc(name) == [name : {name}, esc : ESCS]
FourWay == PerEsc("init_flash") \cup PerEsc("reset") \cup PerEsc("set_mode")
           \cup [name : {"erase", "access", "test_alive", "exit"}, esc : {0}]
Messages == [name : Lines \cup Frames, esc : {0}] \cup FourWay
NONE == [name |-> "none", esc |-> 0]

(* Bound: one kind of message for each parser, tried after a damage.       *)
Retries == {"get", "fc_version", "access"}

is_line(m) == m.name \in Lines
is_msp(m) == m.name \in Frames

Size(m) == IF m.name = "long" THEN LINE_LENGTH + 2 ELSE 3
Chunk(m, i) == [of |-> m, part |-> i]
Chunks == [of : Messages, part : 1 .. LINE_LENGTH + 2]
NO_CHUNK == [of |-> NONE, part |-> 0]

(* "get" stands for the commands that are answered with several lines.     *)
lines_of(m, ok) == IF m.name = "get" /\ ok THEN 2 ELSE 1
AnswerLine(m, ok, n) == [to |-> m, ok |-> ok, line |-> n]
TELEMETRY == AnswerLine([name |-> "telemetry", esc |-> 0], TRUE, 1)
NOTHING_SENT == AnswerLine(NONE, FALSE, 0)
Output == [to : Messages, ok : BOOLEAN, line : 1 .. 2] \cup {TELEMETRY}

family(esc) == IF esc = 1 THEN "arm" ELSE "silabs"

HostTypeOK ==
    /\ platform \in {"stm32", "at32", "none"}
    /\ {configured_usb, fourway_active, client_active} \subseteq BOOLEAN
    /\ {wrong_page, torn, crowded_out} \subseteq BOOLEAN
    /\ sending \in Seq(Chunks) /\ waiting \in Messages \cup {NONE}
    /\ heard \in 0 .. 2 /\ connected_esc \in ESCS \cup {0}
    /\ rx_ring \in Seq(Chunks) /\ Len(rx_ring) <= RX_SIZE
    /\ tx \in [ring : Seq(Output), packet : Output \cup {NOTHING_SENT}, busy : BOOLEAN]
    /\ Len(tx.ring) <= TX_SIZE /\ (tx.packet # NOTHING_SENT => tx.busy)
    /\ input_line \in Seq(Chunks) /\ Len(input_line) < LINE_LENGTH
    /\ parser \in {"idle", "body", "check"} /\ body \in Chunks \cup {NO_CHUNK}
    /\ selected_esc \in ESCS /\ interface_mode \in {"arm", "silabs"}
    /\ device_info \in {"none", "arm", "silabs"}
    /\ damage \in {"none", "overrun", "cut", "long", "mode"}
    /\ resent \in 0 .. AFTER_DAMAGE

-----------------------------------------------------------------------------
(* The host.  It works in lock-step, and takes it for lost that an answer  *)
(* comes only when none is on its way.  It has an answer when all its lines*)
(* have come.  It erases a page of an ESC, or sets the mode for its family,*)
(* only after INIT_FLASH told it that it is there.                         *)

UNCHANGED_device == UNCHANGED <<tx, textVars, parser, body, sessionVars>>

damaged_by(cause) == damage' = IF damage = "none" THEN cause ELSE damage

HostSends ==
    /\ configured_usb /\ sending = <<>> /\ waiting = NONE
    /\ damage # "none" => resent < AFTER_DAMAGE /\ ~client_active /\ tx.ring = <<>>
    /\ resent' = IF damage = "none" THEN 0 ELSE resent + 1
    /\ \E m \in Messages :
          /\ damage # "none" => m.name \in Retries
          /\ m.name = "erase" => connected_esc # 0
          /\ m.name = "set_mode" => connected_esc = m.esc
          /\ sending' = [i \in 1 .. Size(m) |-> Chunk(m, i)]
          /\ waiting' = m /\ heard' = 0 /\ crowded_out' = FALSE
          /\ connected_esc' = IF m.name \in {"init_flash", "reset", "exit"} THEN 0
                              ELSE connected_esc
          /\ IF m.name = "long" THEN damaged_by("long")
             ELSE IF fourway_active = (m \notin FourWay) THEN damaged_by("mode")
             ELSE UNCHANGED damage
    /\ UNCHANGED <<platform, configured_usb, rx_ring>> /\ UNCHANGED_device

stops_waiting == waiting' = NONE /\ heard' = 0 /\ crowded_out' = FALSE

no_answer_sent ==
    {tx.packet} \cup {tx.ring[i] : i \in DOMAIN tx.ring} \subseteq {TELEMETRY, NOTHING_SENT}

(* After a reset the endpoint of the STM32 may stay busy for ever.         *)
HostGivesUp ==
    /\ waiting # NONE
    /\ sending = <<>> /\ rx_ring = <<>>
    /\ no_answer_sent \/ (tx.busy /\ tx.packet = NOTHING_SENT)
    /\ stops_waiting
    /\ UNCHANGED <<platform, wireVars, connected_esc>> /\ UNCHANGED_device

(* Nothing is under way but telemetry that waits, and no session or broken *)
(* line is left over.                                                      *)
quiet ==
    /\ sending = <<>> /\ rx_ring = <<>> /\ no_answer_sent /\ tx.packet = NOTHING_SENT
    /\ input_line = <<>> /\ parser = "idle" /\ ~fourway_active

(* The cable, or the host's port: what the host had yet to write is gone,  *)
(* what the device had sent too.  The class of the STM32 forgets it and    *)
(* starts again; tx_busy it does not know of.                              *)
UsbReset ==
    /\ configured_usb /\ configured_usb' = FALSE
    /\ damage = "none" \/ waiting = NONE
    /\ IF quiet THEN UNCHANGED damage ELSE damaged_by("cut")
    /\ sending' = <<>> /\ stops_waiting /\ connected_esc' = 0
    /\ tx' = [tx EXCEPT !.packet = NOTHING_SENT, !.busy = @ /\ platform = "stm32"]
    /\ UNCHANGED <<platform, rx_ring, resent, textVars, parser, body, sessionVars>>

UsbConfigured ==
    /\ platform # "none" /\ ~configured_usb /\ configured_usb' = TRUE
    /\ UNCHANGED <<platform, sending, rx_ring, damage, resent, answerVars, crowded_out>>
    /\ UNCHANGED_device

-----------------------------------------------------------------------------
(* The two drivers.                                                        *)

TakesAny == TRUE

(* "Reserve room for a whole packet so command lines are never silently    *)
(* truncated."                                                             *)
at32_has_room == Len(rx_ring) < RX_SIZE

(* cdc_receive takes every packet and drops the bytes that do not fit.     *)
UsbReceive ==
    /\ sending # <<>>
    /\ platform = "at32" => at32_has_room
    /\ sending' = Tail(sending)
    /\ IF Len(rx_ring) < RX_SIZE
       THEN rx_ring' = Append(rx_ring, Head(sending)) /\ UNCHANGED damage
       ELSE /\ UNCHANGED rx_ring
            /\ damage' = IF platform = "stm32" /\ damage = "none" THEN "overrun" ELSE damage
    /\ UNCHANGED <<platform, configured_usb, resent, answerVars, crowded_out>>
    /\ UNCHANGED_device

WaitsForTwo(t) == ~t.busy /\ Len(t.ring) > 1 /\ configured_usb

poll_due(t) == ~t.busy /\ t.ring # <<>> /\ configured_usb

(* usb_cdc_poll.  The STM32 takes the bytes out of the ring first, the AT32*)
(* once they are sent: both have then handed them over, since neither can  *)
(* be refused while nothing is being sent.                                 *)
usb_cdc_poll(t) ==
    IF poll_due(t) THEN [ring |-> Tail(t.ring), packet |-> Head(t.ring), busy |-> TRUE] ELSE t

UsbPoll ==
    /\ poll_due(tx) /\ tx' = usb_cdc_poll(tx)
    /\ UNCHANGED <<platform, wireVars, answerVars, crowded_out, textVars, parser, body,
                   sessionVars>>

(* The transmit-complete interrupt, and the host that reads.  A line names *)
(* the command that it answers, not the ESC.                               *)
UsbSent ==
    LET l == tx.packet
        next_line == l.to.name = waiting.name /\ l.line = heard + 1
    IN  /\ l # NOTHING_SENT
        /\ tx' = [tx EXCEPT !.packet = NOTHING_SENT, !.busy = FALSE]
        /\ IF next_line /\ l.line = lines_of(waiting, l.ok) THEN stops_waiting
           ELSE /\ heard' = IF next_line THEN l.line ELSE heard
                /\ UNCHANGED <<waiting, crowded_out>>
        /\ connected_esc' = IF waiting.name = "init_flash" /\ next_line /\ l.ok
                            THEN waiting.esc ELSE connected_esc
        /\ UNCHANGED <<platform, wireVars, textVars, parser, body, sessionVars>>

full(t) == Len(t.ring) >= TX_SIZE

(* "Never enqueue a truncated line": a line is queued whole or dropped, and*)
(* either way the endpoint is fed.                                         *)
usb_cdc_write(t, l) ==
    usb_cdc_poll(IF full(t) THEN t ELSE [t EXCEPT !.ring = Append(@, l)])

telemetry_waits == \E i \in DOMAIN tx.ring : tx.ring[i] = TELEMETRY

(* An answer, line after line.                                             *)
send_reply(to, ok) ==
    LET first == usb_cdc_write(tx, AnswerLine(to, ok, 1))
        more == lines_of(to, ok) > 1
        dropped == full(tx) \/ (more /\ full(first))
    IN  /\ tx' = IF more THEN usb_cdc_write(first, AnswerLine(to, ok, 2)) ELSE first
        /\ crowded_out' = (crowded_out \/ (dropped /\ telemetry_waits))

(* A line every 10 ms, of the sensors, the battery or the current, while a *)
(* configurator is there.  During a session the loop does not get this far.*)
config_protocol_send_telemetry ==
    /\ client_active /\ ~fourway_active
    /\ tx' = usb_cdc_write(tx, TELEMETRY)
    /\ UNCHANGED <<platform, wireVars, answerVars, crowded_out, textVars, parser, body,
                   sessionVars>>

-----------------------------------------------------------------------------
(* config_protocol_update: one byte group of its loop per step.            *)

next_chunk == Head(rx_ring)

Consume ==
    /\ rx_ring # <<>> /\ rx_ring' = Tail(rx_ring)
    /\ UNCHANGED <<platform, configured_usb, sending, damage, resent, answerVars>>

last_part == next_chunk.part = Size(next_chunk.of)

(* The MSP parser lets pass what does not begin a frame, so the chunks of a*)
(* line, and those of a 4-way frame after the session.                     *)
for_line == ~fourway_active /\ parser = "idle"
            /\ ~(is_msp(next_chunk.of) /\ next_chunk.part = 1)

KeepsLine == input_line

line_after_newline == <<>>

as_written(line) ==
    \E m \in Messages : is_line(m) /\ line = [i \in 1 .. Size(m) - 1 |-> Chunk(m, i)]

(* HELLO makes the client active.                                          *)
TakeLine ==
    /\ Consume /\ for_line
    /\ IF is_line(next_chunk.of) /\ last_part
       THEN /\ input_line' = line_after_newline
            /\ IF input_line = <<>> THEN UNCHANGED <<replyVars, torn, client_active>>
               ELSE /\ torn' = (torn \/ ~as_written(input_line))
                    /\ client_active' \in {client_active, TRUE}
                    /\ send_reply(next_chunk.of, TRUE)
       ELSE /\ UNCHANGED <<torn, client_active>>
            /\ IF Len(input_line) < LINE_LENGTH - 1
               THEN input_line' = Append(input_line, next_chunk) /\ UNCHANGED replyVars
               ELSE input_line' = <<>> /\ send_reply(next_chunk.of, FALSE)
    /\ UNCHANGED <<parser, body, sessionVars>>

(* CLIENT_TIMEOUT_US without a line, or BYE, which is not answered.        *)
ClientGone ==
    /\ client_active /\ client_active' = FALSE
    /\ UNCHANGED <<platform, wireVars, answerVars, replyVars, input_line, torn, parser, body,
                   sessionVars>>

ParseStart ==
    /\ parser = "idle" /\ parser' = "body"
    /\ UNCHANGED <<body, replyVars, textVars, sessionVars>>

(* What is not a frame is taken for one until its length has passed, or in *)
(* an MSP header is given up.                                              *)
ParseMiddle ==
    /\ parser = "body" /\ body' = next_chunk
    /\ IF next_chunk.part = 2 /\ ~is_line(next_chunk.of) THEN parser' = "check"
       ELSE parser' \in {"body", "check"} \cup (IF fourway_active THEN {} ELSE {"idle"})
    /\ UNCHANGED <<replyVars, textVars, sessionVars>>

whole(frames) ==
    next_chunk.of \in frames /\ body = Chunk(next_chunk.of, 2) /\ next_chunk.part = 3

(* The flight controller is asked many things; only this one changes it.   *)
process_msp(armed) ==
    LET begins == next_chunk.of.name = "set_passthrough" /\ ~armed
    IN  /\ send_reply(next_chunk.of, begins \/ next_chunk.of.name # "set_passthrough")
        /\ fourway_active' = begins

TakeMsp(armed) ==
    /\ Consume /\ ~fourway_active /\ ~for_line
    /\ \/ ParseStart
       \/ ParseMiddle
       \/ /\ parser = "check" /\ parser' = "idle" /\ body' = NO_CHUNK
          /\ IF whole({m \in Messages : is_msp(m)})
             THEN process_msp(armed)
             ELSE UNCHANGED <<replyVars, fourway_active>>
          /\ UNCHANGED <<textVars, selected_esc, interface_mode, device_info, wrong_page>>

-----------------------------------------------------------------------------
(* process_fourway.                                                        *)

replied(ok) == send_reply(next_chunk.of, ok)

(* Whether a frame on the one-wire line is answered: in time, bit by bit   *)
(* with a start and a stop, with the right checksum and acknowledge.  The  *)
(* bootloader of an ESC need not be there, now or at the next frame.       *)
boot_answers == BOOLEAN

(* Set the address, fill the buffer, command: the first of them that is not*)
(* answered ends a read, a write or a verify.                              *)
boot_access == {\A frame \in 1 .. 3 : acks[frame] : acks \in [1 .. 3 -> boot_answers]}

StaysInMode(e) == interface_mode

mode_of_signature(e) == family(e)

(* Two probes of three attempts; a failed one clears what the last found.  *)
boot_connect(e, ok) ==
    IF ok THEN device_info' = family(e) /\ interface_mode' = mode_of_signature(e)
    ELSE device_info' = "none" /\ UNCHANGED interface_mode

INIT_FLASH(e) ==
    /\ selected_esc' = e
    /\ \E ok \in boot_answers : boot_connect(e, ok) /\ replied(ok)
    /\ UNCHANGED <<fourway_active, wrong_page>>

INTERFACE_SET_MODE(e) ==
    /\ interface_mode' = family(e) /\ replied(TRUE)
    /\ UNCHANGED <<fourway_active, selected_esc, device_info, wrong_page>>

DEVICE_RESET(e) ==
    /\ selected_esc' = e /\ device_info' = "none" /\ replied(TRUE)
    /\ UNCHANGED <<fourway_active, interface_mode, wrong_page>>

(* The page size is that of the family.                                    *)
boot_erase_page == wrong_page' = (wrong_page \/ interface_mode # family(selected_esc))

PAGE_ERASE ==
    /\ \/ boot_erase_page /\ \E ok \in boot_answers : replied(ok)     \* it may be lost
       \/ replied(FALSE) /\ UNCHANGED wrong_page
    /\ UNCHANGED <<fourway_active, selected_esc, interface_mode, device_info>>

(* DEVICE_READ, WRITE and VERIFY.                                          *)
ACCESS ==
    /\ \E ok \in boot_access : replied(ok)
    /\ UNCHANGED sessionVars

TEST_ALIVE ==
    /\ \/ replied(TRUE) /\ UNCHANGED device_info
       \/ device_info # "none" /\ device_info' = "none" /\ replied(FALSE)
    /\ UNCHANGED <<fourway_active, selected_esc, interface_mode, wrong_page>>

INTERFACE_EXIT ==
    /\ fourway_active' = FALSE /\ replied(TRUE)
    /\ UNCHANGED <<selected_esc, interface_mode, device_info, wrong_page>>

process_fourway ==
    LET m == next_chunk.of IN
    \/ m.name = "init_flash" /\ INIT_FLASH(m.esc)
    \/ m.name = "set_mode" /\ INTERFACE_SET_MODE(m.esc)
    \/ m.name = "reset" /\ DEVICE_RESET(m.esc)
    \/ m.name = "erase" /\ PAGE_ERASE
    \/ m.name = "access" /\ ACCESS
    \/ m.name = "test_alive" /\ TEST_ALIVE
    \/ m.name = "exit" /\ INTERFACE_EXIT

(* A frame that is not whole is answered too, with ACK_INVALID_CRC.        *)
TakeFourWay ==
    /\ Consume /\ fourway_active
    /\ \/ /\ parser = "idle" /\ (next_chunk.of \notin FourWay \/ next_chunk.part # 1)
          /\ UNCHANGED <<parser, body, replyVars, textVars, sessionVars>>
       \/ next_chunk.of \in FourWay /\ next_chunk.part = 1 /\ ParseStart
       \/ ParseMiddle
       \/ /\ parser = "check" /\ parser' = "idle" /\ body' = NO_CHUNK
          /\ IF whole(FourWay) THEN process_fourway
             ELSE send_reply(body.of, FALSE) /\ UNCHANGED sessionVars
          /\ UNCHANGED textVars

-----------------------------------------------------------------------------
HostInit ==
    /\ configured_usb = (platform # "none") /\ sending = <<>> /\ waiting = NONE
    /\ heard = 0 /\ connected_esc = 0 /\ rx_ring = <<>> /\ damage = "none" /\ resent = 0
    /\ tx = [ring |-> <<>>, packet |-> NOTHING_SENT, busy |-> FALSE]
    /\ crowded_out = FALSE /\ client_active = FALSE
    /\ input_line = <<>> /\ torn = FALSE /\ parser = "idle" /\ body = NO_CHUNK
    /\ fourway_active = FALSE /\ selected_esc = 1 /\ interface_mode = "arm"
    /\ device_info = "none" /\ wrong_page = FALSE

UsbDriver == UsbReceive \/ UsbPoll \/ UsbSent

config_protocol_update(armed) == TakeLine \/ TakeMsp(armed) \/ TakeFourWay

HostNext(armed) ==
    HostSends \/ HostGivesUp \/ UsbReset \/ UsbConfigured \/ UsbDriver
    \/ config_protocol_update(armed) \/ ClientGone \/ config_protocol_send_telemetry
=============================================================================
