--------------------------- MODULE HostLink_proofs ----------------------------
(***************************************************************************)
(* The USB half of Links, for every size of the rings and of the line      *)
(* buffer, and for any telemetry among the answers: types, that a command  *)
(* line is processed as it was written, that an ESC is erased with its own *)
(* page size; and the types of Links.                                      *)
(***************************************************************************)
EXTENDS VideoLink_proofs

(* The chunks that are written or to be written, and not yet parsed; the   *)
(* messages below have three.                                              *)
Unread == Len(rx_ring) + Len(sending)
Consumed == 3 - Unread

(* They are the rest of the message that the host waits for.               *)
InStream ==
    /\ Unread \in 1 .. 3
    /\ \A i \in 1 .. Len(rx_ring) : rx_ring[i] = Chunk(waiting, Consumed + i)
    /\ \A i \in 1 .. Len(sending) : sending[i] = Chunk(waiting, Consumed + Len(rx_ring) + i)

Listening == parser = "idle" /\ input_line = <<>>
NothingUnread == rx_ring = <<>> /\ sending = <<>>

(* Telemetry, and the first n lines of an answer.                          *)
LinesTo(m, ok, n) == {TELEMETRY} \cup {AnswerLine(m, ok, k) : k \in 1 .. n}

(* Nothing else is in the ring or with the endpoint; the lines of the      *)
(* answer are there once at most, and in order.                            *)
Carries(t, m, ok, n) ==
    /\ \A i \in 1 .. Len(t.ring) : t.ring[i] \in LinesTo(m, ok, n)
    /\ t.packet \in LinesTo(m, ok, n) \cup {NOTHING_SENT}
    /\ t.busy => t.packet # NOTHING_SENT
    /\ \A i, j \in 1 .. Len(t.ring) :
          i < j /\ t.ring[i] # TELEMETRY /\ t.ring[j] # TELEMETRY
              => t.ring[i].line < t.ring[j].line
    /\ t.packet \notin {TELEMETRY, NOTHING_SENT} =>
          \A i \in 1 .. Len(t.ring) : t.ring[i] # TELEMETRY => t.packet.line < t.ring[i].line

NoAnswer(t) == Carries(t, NONE, FALSE, 0)

(* The lock-step of host and parser.                                       *)
Rest == waiting = NONE /\ NothingUnread /\ Listening /\ NoAnswer(tx)

parser_expects ==
    IF Consumed = 0 \/ is_line(waiting) THEN "idle" ELSE IF Consumed = 1 THEN "body" ELSE "check"

Reading ==
    /\ waiting \in Messages /\ waiting.name # "long"
    /\ fourway_active = (waiting \in FourWay)
    /\ InStream /\ NoAnswer(tx)
    /\ parser = parser_expects
    /\ parser = "check" => body = Chunk(waiting, 2)
    /\ Len(input_line) = IF is_line(waiting) THEN Consumed ELSE 0
    /\ \A i \in 1 .. Len(input_line) : input_line[i] = Chunk(waiting, i)

ConnectedTo(e) == selected_esc = e /\ interface_mode = family(e)

Answered ==
    /\ waiting \in Messages /\ NothingUnread /\ Listening
    /\ \E ok \in BOOLEAN :
          /\ Carries(tx, waiting, ok, lines_of(waiting, ok))
          /\ waiting.name = "init_flash" /\ ok => ConnectedTo(waiting.esc)

(* The ESC that the host believes connected is, in the mode of its family. *)
SessionInv ==
    /\ connected_esc # 0 => ConnectedTo(connected_esc)
    /\ waiting.name \in {"init_flash", "reset", "exit"} => connected_esc = 0
    /\ waiting.name = "set_mode" => connected_esc = waiting.esc
    /\ waiting.name = "erase" => connected_esc # 0

LockStep ==
    damage = "none" => ~torn /\ ~wrong_page /\ SessionInv /\ (Rest \/ Reading \/ Answered)

NoHost == platform = "none" => ~configured_usb /\ waiting = NONE /\ sending = <<>>

BodyInv == parser = "check" => body \in Chunks

HostInv == HostTypeOK /\ BodyInv /\ NoHost /\ LockStep
-----------------------------------------------------------------------------
(* The messages.                                                           *)

LEMMA HostSizes ==
    /\ RX_SIZE \in Nat /\ RX_SIZE > 0 /\ TX_SIZE \in Nat /\ TX_SIZE > 1
    /\ LINE_LENGTH \in Nat /\ LINE_LENGTH > 2 /\ AFTER_DAMAGE \in Nat
    /\ 1 \in ESCS /\ ESCS \subseteq {1, 2}
BY LinkSizes

LEMMA MessageFacts ==
    ASSUME NEW m \in Messages
    PROVE  /\ m # NONE /\ m.name # "none"
           /\ m.name \in {"init_flash", "reset", "set_mode"} => m.esc \in ESCS
           /\ m \in FourWay <=> m.name \in {"init_flash", "reset", "set_mode", "erase",
                                            "access", "test_alive", "exit"}
           /\ m \notin FourWay <=> is_line(m) \/ is_msp(m)
           /\ ~(is_line(m) /\ is_msp(m))
           /\ Size(m) \in 1 .. LINE_LENGTH + 2
           /\ m.name # "long" => Size(m) = 3
BY HostSizes DEF Messages, FourWay, PerEsc, Lines, Frames, NONE, is_line, is_msp, Size

LEMMA ChunkTyped ==
    ASSUME NEW m \in Messages, NEW i \in 1 .. LINE_LENGTH + 2
    PROVE  /\ Chunk(m, i) \in Chunks /\ Chunk(m, i).of = m /\ Chunk(m, i).part = i
BY DEF Chunk, Chunks

LEMMA ChunkFields ==
    ASSUME NEW c \in Chunks
    PROVE  c.of \in Messages /\ c.part \in 1 .. LINE_LENGTH + 2
BY DEF Chunks

LEMMA NoTelemetryMessage == ASSUME NEW m \in Messages PROVE m.name # "telemetry"
BY DEF Messages, FourWay, PerEsc, Lines, Frames

LEMMA LineTyped ==
    ASSUME NEW m \in Messages, NEW ok \in BOOLEAN, NEW n \in 1 .. 2
    PROVE  /\ AnswerLine(m, ok, n) \in Output
           /\ AnswerLine(m, ok, n).to = m /\ AnswerLine(m, ok, n).ok = ok
           /\ AnswerLine(m, ok, n).line = n
           /\ AnswerLine(m, ok, n) # TELEMETRY
BY NoTelemetryMessage DEF AnswerLine, Output, TELEMETRY

LEMMA OutputFacts ==
    /\ TELEMETRY \in Output /\ NOTHING_SENT \notin Output
    /\ TELEMETRY.to.name = "telemetry" /\ NOTHING_SENT # TELEMETRY
    /\ \A l \in Output : l.line \in 1 .. 2 /\ (l # TELEMETRY => l.to \in Messages)
BY DEF Output, TELEMETRY, NOTHING_SENT, AnswerLine

LEMMA LinesOf == ASSUME NEW m, NEW ok PROVE lines_of(m, ok) \in 1 .. 2
BY DEF lines_of
-----------------------------------------------------------------------------
LEMMA EmptyIsShort == Len(<<>>) = 0
OBVIOUS

(* The parts of the type invariant.                                        *)

StreamTypeOK ==
    /\ platform \in {"stm32", "at32", "none"} /\ configured_usb \in BOOLEAN
    /\ sending \in Seq(Chunks) /\ waiting \in Messages \cup {NONE}
    /\ heard \in 0 .. 2 /\ connected_esc \in ESCS \cup {0}
    /\ rx_ring \in Seq(Chunks) /\ Len(rx_ring) <= RX_SIZE
    /\ damage \in {"none", "overrun", "cut", "long", "mode"}
    /\ resent \in 0 .. AFTER_DAMAGE

TxOK(t) ==
    /\ t \in [ring : Seq(Output), packet : Output \cup {NOTHING_SENT}, busy : BOOLEAN]
    /\ Len(t.ring) <= TX_SIZE /\ (t.packet # NOTHING_SENT => t.busy)

ReplyTypeOK == TxOK(tx) /\ crowded_out \in BOOLEAN

TextTypeOK ==
    /\ input_line \in Seq(Chunks) /\ Len(input_line) < LINE_LENGTH
    /\ torn \in BOOLEAN /\ client_active \in BOOLEAN

ParserTypeOK ==
    /\ parser \in {"idle", "body", "check"} /\ body \in Chunks \cup {NO_CHUNK}
    /\ parser = "check" => body \in Chunks

SessionTypeOK ==
    /\ fourway_active \in BOOLEAN /\ wrong_page \in BOOLEAN
    /\ selected_esc \in ESCS /\ interface_mode \in {"arm", "silabs"}
    /\ device_info \in {"none", "arm", "silabs"}

TypeParts == StreamTypeOK /\ ReplyTypeOK /\ TextTypeOK /\ ParserTypeOK /\ SessionTypeOK

LEMMA HostTypeParts ==
    /\ HostTypeOK /\ BodyInv <=> TypeParts
    /\ (HostTypeOK /\ BodyInv)' <=> TypeParts'
BY DEF HostTypeOK, BodyInv, TypeParts, StreamTypeOK, ReplyTypeOK, TxOK, TextTypeOK, ParserTypeOK,
       SessionTypeOK

(* The driver keeps the ring in its buffer.                                *)
LEMMA PollTyped ==
    ASSUME NEW t, TxOK(t)
    PROVE  TxOK(usb_cdc_poll(t))
<1>1. CASE ~poll_due(t)
    BY <1>1 DEF usb_cdc_poll
<1>2. CASE poll_due(t)
    <2>1. t.ring \in Seq(Output) /\ t.ring # <<>>
        BY <1>2 DEF poll_due, TxOK
    <2>2. /\ Head(t.ring) \in Output /\ Tail(t.ring) \in Seq(Output)
          /\ Len(Tail(t.ring)) = Len(t.ring) - 1 /\ Len(t.ring) \in Nat
        BY <2>1, HeadTailProperties
    <2>3. Len(Tail(t.ring)) <= TX_SIZE
        BY <2>2, HostSizes DEF TxOK
    <2>4. usb_cdc_poll(t) = [ring |-> Tail(t.ring), packet |-> Head(t.ring), busy |-> TRUE]
        BY <1>2 DEF usb_cdc_poll
    <2>5. QED
        BY <2>2, <2>3, <2>4 DEF TxOK
<1>3. QED
    BY <1>1, <1>2

(* What the ring is before it is polled.                                   *)
Queued(t, l) == IF full(t) THEN t ELSE [t EXCEPT !.ring = Append(@, l)]

LEMMA QueuedTyped ==
    ASSUME NEW t, TxOK(t), NEW l \in Output
    PROVE  /\ TxOK(Queued(t, l)) /\ usb_cdc_write(t, l) = usb_cdc_poll(Queued(t, l))
           /\ Queued(t, l).packet = t.packet /\ Queued(t, l).busy = t.busy
<1>1. usb_cdc_write(t, l) = usb_cdc_poll(Queued(t, l))
    BY DEF usb_cdc_write, Queued
<1>2. CASE full(t)
    BY <1>1, <1>2 DEF Queued
<1>3. CASE ~full(t)
    <2>1. /\ Append(t.ring, l) \in Seq(Output) /\ Len(Append(t.ring, l)) = Len(t.ring) + 1
          /\ Len(t.ring) \in Nat
        BY AppendProperties, LenProperties DEF TxOK
    <2>2. Len(t.ring) < TX_SIZE
        BY <1>3, <2>1, HostSizes DEF full
    <2>3. Len(Append(t.ring, l)) <= TX_SIZE
        BY <2>1, <2>2, HostSizes
    <2>4. Queued(t, l) = [t EXCEPT !.ring = Append(@, l)]
        BY <1>3 DEF Queued
    <2>5. QED
        BY <1>1, <2>1, <2>3, <2>4 DEF TxOK
<1>4. QED
    BY <1>2, <1>3

LEMMA WriteTyped ==
    ASSUME NEW t, TxOK(t), NEW l \in Output
    PROVE  TxOK(usb_cdc_write(t, l))
BY QueuedTyped, PollTyped

LEMMA ReplyTyped ==
    ASSUME ReplyTypeOK, NEW to \in Messages, NEW ok \in BOOLEAN, send_reply(to, ok)
    PROVE  ReplyTypeOK'
<1> DEFINE first == usb_cdc_write(tx, AnswerLine(to, ok, 1))
<1>1. TxOK(first)
    BY LineTyped, WriteTyped DEF ReplyTypeOK
<1>2. TxOK(usb_cdc_write(first, AnswerLine(to, ok, 2)))
    BY <1>1, LineTyped, WriteTyped
<1>3. tx' = first \/ tx' = usb_cdc_write(first, AnswerLine(to, ok, 2))
    BY DEF send_reply
<1>4. TxOK(tx')
    BY <1>1, <1>2, <1>3
<1>5. crowded_out' \in BOOLEAN
    BY DEF send_reply, ReplyTypeOK
<1>6. QED
    BY <1>4, <1>5 DEF ReplyTypeOK, TxOK

LEMMA RestTyped ==
    ASSUME NEW S, NEW s \in Seq(S), s # <<>>
    PROVE  /\ Head(s) \in S /\ Head(s) = s[1] /\ Len(s) \in Nat \ {0}
           /\ Tail(s) \in Seq(S) /\ Len(Tail(s)) = Len(s) - 1
           /\ \A i \in 1 .. Len(s) - 1 : Tail(s)[i] = s[i + 1]
BY HeadTailProperties, EmptySeq

(* The host and the USB.                                                   *)
LEMMA HostSendsTyped ==
    ASSUME TypeParts, HostSends
    PROVE  TypeParts'
<1> USE DEF TypeParts
<1>1. PICK m \in Messages :
          /\ m.name = "set_mode" => connected_esc = m.esc
          /\ sending' = [i \in 1 .. Size(m) |-> Chunk(m, i)]
          /\ waiting' = m
          /\ connected_esc' = IF m.name \in {"init_flash", "reset", "exit"} THEN 0
                              ELSE connected_esc
          /\ \/ damaged_by("long") \/ damaged_by("mode") \/ UNCHANGED damage
    BY DEF HostSends
<1>2. sending' \in Seq(Chunks)
    <2>1. Size(m) \in Nat /\ \A i \in 1 .. Size(m) : Chunk(m, i) \in Chunks
        BY MessageFacts, ChunkTyped, HostSizes
    <2>2. QED
        BY <1>1, <2>1
<1>3. damage' \in {"none", "overrun", "cut", "long", "mode"}
    BY <1>1 DEF damaged_by, StreamTypeOK
<1>4. resent' \in 0 .. AFTER_DAMAGE
    BY HostSizes DEF HostSends, StreamTypeOK
<1>5. StreamTypeOK'
    BY <1>1, <1>2, <1>3, <1>4 DEF HostSends, StreamTypeOK
<1>6. ReplyTypeOK'
    BY DEF HostSends, UNCHANGED_device, ReplyTypeOK, TxOK
<1>7. QED
    BY <1>5, <1>6 DEF HostSends, UNCHANGED_device, TextTypeOK, ParserTypeOK, SessionTypeOK,
        textVars, sessionVars

LEMMA CableTyped ==
    ASSUME TypeParts, HostGivesUp \/ UsbReset \/ UsbConfigured
    PROVE  TypeParts'
<1> USE DEF TypeParts
<1>1. <<>> \in Seq(Chunks)
    BY EmptySeq
<1>2. StreamTypeOK'
    <2>1. CASE HostGivesUp
        BY <2>1, HostSizes DEF HostGivesUp, stops_waiting, StreamTypeOK, wireVars
    <2>2. CASE UsbReset
        <3>1. damage' \in {damage, "cut"} /\ configured_usb' \in BOOLEAN
            BY <2>2 DEF UsbReset, damaged_by
        <3>2. UNCHANGED <<platform, rx_ring, resent>> /\ sending' = <<>> /\ waiting' = NONE
              /\ heard' = 0 /\ connected_esc' = 0
            BY <2>2 DEF UsbReset, stops_waiting
        <3>3. QED
            BY <1>1, <3>1, <3>2 DEF StreamTypeOK
    <2>3. CASE UsbConfigured
        BY <2>3 DEF UsbConfigured, StreamTypeOK, answerVars
    <2>4. QED
        BY <2>1, <2>2, <2>3
<1>3. ReplyTypeOK'
    <2>1. crowded_out' \in BOOLEAN
        BY DEF HostGivesUp, UsbReset, UsbConfigured, stops_waiting, ReplyTypeOK
    <2>2. \/ tx' = tx
          \/ tx' = [tx EXCEPT !.packet = NOTHING_SENT, !.busy = @ /\ platform = "stm32"]
        BY DEF HostGivesUp, UsbReset, UsbConfigured, UNCHANGED_device
    <2>3. TxOK(tx')
        BY <2>2 DEF ReplyTypeOK, TxOK
    <2>4. QED
        BY <2>1, <2>3 DEF ReplyTypeOK, TxOK
<1>4. TextTypeOK' /\ ParserTypeOK' /\ SessionTypeOK'
    BY DEF HostGivesUp, UsbReset, UsbConfigured, UNCHANGED_device, TextTypeOK, ParserTypeOK,
        SessionTypeOK, textVars, sessionVars
<1>5. QED
    BY <1>2, <1>3, <1>4

LEMMA DriverTyped ==
    ASSUME TypeParts, UsbDriver
    PROVE  TypeParts'
<1> USE DEF TypeParts
<1>1. CASE UsbReceive
    <2>1. Head(sending) \in Chunks /\ sending' \in Seq(Chunks)
        BY <1>1, RestTyped DEF UsbReceive, StreamTypeOK
    <2>2. rx_ring' \in Seq(Chunks) /\ Len(rx_ring') <= RX_SIZE
        <3>1. CASE Len(rx_ring) < RX_SIZE
            <4>1. rx_ring' = Append(rx_ring, Head(sending)) /\ rx_ring \in Seq(Chunks)
                BY <1>1, <3>1 DEF UsbReceive, StreamTypeOK
            <4>2. rx_ring' \in Seq(Chunks) /\ Len(rx_ring') = Len(rx_ring) + 1 /\ Len(rx_ring) \in Nat
                BY <2>1, <4>1, AppendProperties, LenProperties
            <4>3. QED
                BY <3>1, <4>2, HostSizes
        <3>2. CASE ~(Len(rx_ring) < RX_SIZE)
            BY <1>1, <3>2 DEF UsbReceive, StreamTypeOK
        <3>3. QED
            BY <3>1, <3>2
    <2>3. damage' \in {damage, "overrun"}
        BY <1>1 DEF UsbReceive
    <2>4. StreamTypeOK'
        BY <1>1, <2>1, <2>2, <2>3 DEF UsbReceive, StreamTypeOK, answerVars
    <2>5. ReplyTypeOK'
        BY <1>1 DEF UsbReceive, UNCHANGED_device, ReplyTypeOK, TxOK
    <2>6. QED
        BY <1>1, <2>4, <2>5 DEF UsbReceive, UNCHANGED_device, TextTypeOK, ParserTypeOK,
            SessionTypeOK, textVars, sessionVars
<1>2. CASE UsbPoll
    <2>1. TxOK(tx') /\ crowded_out' \in BOOLEAN
        BY <1>2, PollTyped DEF UsbPoll, ReplyTypeOK
    <2>2. ReplyTypeOK'
        BY <2>1 DEF ReplyTypeOK, TxOK
    <2>3. QED
        BY <1>2, <2>2 DEF UsbPoll, StreamTypeOK, TextTypeOK, ParserTypeOK, SessionTypeOK,
            wireVars, answerVars, textVars, sessionVars
<1>3. CASE UsbSent
    <2>1. tx.packet \in Output
        BY <1>3 DEF UsbSent, ReplyTypeOK, TxOK
    <2>2. heard' \in 0 .. 2 /\ waiting' \in Messages \cup {NONE} /\ crowded_out' \in BOOLEAN
        <3>1. tx.packet.line \in 1 .. 2
            BY <2>1, OutputFacts
        <3>2. heard' \in {0, heard, tx.packet.line} /\ waiting' \in {NONE, waiting}
            BY <1>3 DEF UsbSent, stops_waiting
        <3>3. crowded_out' \in BOOLEAN
            BY <1>3 DEF UsbSent, stops_waiting, ReplyTypeOK
        <3>4. QED
            BY <3>1, <3>2, <3>3 DEF StreamTypeOK
    <2>3. connected_esc' \in ESCS \cup {0}
        BY <1>3, MessageFacts DEF UsbSent, StreamTypeOK, NONE
    <2>4. StreamTypeOK'
        BY <1>3, <2>2, <2>3 DEF UsbSent, StreamTypeOK, wireVars
    <2>5. TxOK(tx')
        BY <1>3 DEF UsbSent, ReplyTypeOK, TxOK
    <2>6. ReplyTypeOK'
        BY <2>2, <2>5 DEF ReplyTypeOK, TxOK
    <2>7. QED
        BY <1>3, <2>4, <2>6 DEF UsbSent, TextTypeOK, ParserTypeOK, SessionTypeOK, textVars, sessionVars
<1>4. QED
    BY <1>1, <1>2, <1>3 DEF UsbDriver

(* The chunk that the parser takes.                                        *)
LEMMA ConsumeTyped ==
    ASSUME StreamTypeOK, Consume
    PROVE  /\ StreamTypeOK' /\ rx_ring # <<>>
           /\ next_chunk \in Chunks /\ next_chunk = rx_ring[1] /\ next_chunk.of \in Messages
           /\ next_chunk.part \in 1 .. LINE_LENGTH + 2
           /\ Len(rx_ring) \in Nat \ {0} /\ Len(rx_ring') = Len(rx_ring) - 1
           /\ \A i \in 1 .. Len(rx_ring) - 1 : rx_ring'[i] = rx_ring[i + 1]
<1>1. rx_ring \in Seq(Chunks) /\ rx_ring # <<>> /\ rx_ring' = Tail(rx_ring)
    BY DEF StreamTypeOK, Consume
<1>2. /\ next_chunk \in Chunks /\ next_chunk = rx_ring[1] /\ Len(rx_ring) \in Nat \ {0}
      /\ rx_ring' \in Seq(Chunks) /\ Len(rx_ring') = Len(rx_ring) - 1
      /\ \A i \in 1 .. Len(rx_ring) - 1 : rx_ring'[i] = rx_ring[i + 1]
    BY <1>1, RestTyped DEF next_chunk
<1>3. StreamTypeOK'
    BY <1>2, HostSizes DEF Consume, StreamTypeOK, answerVars
<1>4. QED
    BY <1>1, <1>2, <1>3, ChunkFields

LEMMA TakeLineTyped ==
    ASSUME TypeParts, TakeLine
    PROVE  TypeParts'
<1> USE DEF TypeParts
<1>1. StreamTypeOK' /\ next_chunk \in Chunks /\ next_chunk.of \in Messages
    BY ConsumeTyped DEF TakeLine
<1>2. ParserTypeOK' /\ SessionTypeOK'
    BY DEF TakeLine, ParserTypeOK, SessionTypeOK, sessionVars
<1>3. <<>> \in Seq(Chunks) /\ Len(<<>>) = 0
    BY EmptySeq
<1>4. torn' \in BOOLEAN /\ client_active' \in BOOLEAN
    BY DEF TakeLine, TextTypeOK
<1>5. CASE is_line(next_chunk.of) /\ last_part
    <2>1. input_line' = <<>>
        BY <1>5 DEF TakeLine, line_after_newline
    <2>2. UNCHANGED replyVars \/ send_reply(next_chunk.of, TRUE)
        BY <1>5 DEF TakeLine
    <2>3. ReplyTypeOK'
        BY <1>1, <2>2, ReplyTyped DEF replyVars, ReplyTypeOK, TxOK
    <2>4. QED
        BY <1>1, <1>2, <1>3, <1>4, <2>1, <2>3, HostSizes DEF TextTypeOK
<1>6. CASE ~(is_line(next_chunk.of) /\ last_part)
    <2>1. CASE Len(input_line) < LINE_LENGTH - 1
        <3>1. input_line' = Append(input_line, next_chunk) /\ UNCHANGED replyVars
            BY <1>6, <2>1 DEF TakeLine
        <3>2. input_line' \in Seq(Chunks) /\ Len(input_line') = Len(input_line) + 1
              /\ Len(input_line) \in Nat
            BY <1>1, <3>1, AppendProperties, LenProperties DEF TextTypeOK
        <3>3. QED
            BY <1>1, <1>2, <1>4, <2>1, <3>1, <3>2, HostSizes DEF TextTypeOK, ReplyTypeOK, TxOK, replyVars
    <2>2. CASE ~(Len(input_line) < LINE_LENGTH - 1)
        <3>1. input_line' = <<>> /\ send_reply(next_chunk.of, FALSE)
            BY <1>6, <2>2 DEF TakeLine
        <3>2. ReplyTypeOK'
            BY <1>1, <3>1, ReplyTyped
        <3>3. TextTypeOK'
            BY <1>3, <1>4, <3>1, HostSizes DEF TextTypeOK
        <3>4. QED
            BY <1>1, <1>2, <3>2, <3>3
    <2>3. QED
        BY <2>1, <2>2
<1>7. QED
    BY <1>5, <1>6

(* Both parsers of frames begin and go on alike.                           *)
LEMMA ParseTyped ==
    ASSUME TypeParts, next_chunk \in Chunks, ParseStart \/ ParseMiddle
    PROVE  ReplyTypeOK' /\ TextTypeOK' /\ ParserTypeOK' /\ SessionTypeOK'
<1> USE DEF TypeParts
<1>1. ParserTypeOK'
    BY DEF ParseStart, ParseMiddle, ParserTypeOK
<1>2. QED
    BY <1>1 DEF ParseStart, ParseMiddle, ReplyTypeOK, TxOK, TextTypeOK, SessionTypeOK, replyVars,
        textVars, sessionVars

LEMMA TakeMspTyped ==
    ASSUME TypeParts, TakeMsp(armed)
    PROVE  TypeParts'
<1> USE DEF TypeParts
<1>1. StreamTypeOK' /\ next_chunk \in Chunks /\ next_chunk.of \in Messages
    BY ConsumeTyped DEF TakeMsp
<1>2. CASE ParseStart \/ ParseMiddle
    BY <1>1, <1>2, ParseTyped
<1>3. ASSUME parser' = "idle", body' = NO_CHUNK,
             process_msp(armed) \/ UNCHANGED <<replyVars, fourway_active>>,
             UNCHANGED <<textVars, selected_esc, interface_mode, device_info, wrong_page>>
      PROVE  TypeParts'
    <2>1. CASE process_msp(armed)
        <3>1. PICK ok \in BOOLEAN : send_reply(next_chunk.of, ok)
            BY <2>1 DEF process_msp
        <3>2. fourway_active' \in BOOLEAN
            BY <2>1 DEF process_msp
        <3>3. ReplyTypeOK'
            BY <1>1, <3>1, ReplyTyped
        <3>4. QED
            BY <1>1, <1>3, <3>2, <3>3 DEF TextTypeOK, ParserTypeOK, SessionTypeOK, textVars
    <2>2. CASE UNCHANGED <<replyVars, fourway_active>>
        BY <1>1, <1>3, <2>2 DEF ReplyTypeOK, TxOK, TextTypeOK, ParserTypeOK, SessionTypeOK, replyVars,
            textVars
    <2>3. QED
        BY <1>3, <2>1, <2>2
<1>4. QED
    BY <1>2, <1>3 DEF TakeMsp

(* Every command of a session is answered and keeps the session's types.   *)
LEMMA FourWayTyped ==
    ASSUME SessionTypeOK, next_chunk.of \in Messages, process_fourway
    PROVE  SessionTypeOK' /\ \E ok \in BOOLEAN : send_reply(next_chunk.of, ok)
<1> USE DEF replied, boot_answers, SessionTypeOK
<1> DEFINE m == next_chunk.of
<1>1. CASE m.name = "init_flash" /\ INIT_FLASH(m.esc)
    <2>1. PICK ok \in BOOLEAN : boot_connect(m.esc, ok) /\ send_reply(m, ok)
        BY <1>1 DEF INIT_FLASH
    <2>2. device_info' \in {"none", "arm", "silabs"} /\ interface_mode' \in {"arm", "silabs"}
        BY <2>1 DEF boot_connect, mode_of_signature, family
    <2>3. m.esc \in ESCS
        BY <1>1, MessageFacts
    <2>4. QED
        BY <1>1, <2>1, <2>2, <2>3 DEF INIT_FLASH
<1>2. CASE m.name = "set_mode" /\ INTERFACE_SET_MODE(m.esc)
    BY <1>2 DEF INTERFACE_SET_MODE, family
<1>3. CASE m.name = "reset" /\ DEVICE_RESET(m.esc)
    BY <1>3, MessageFacts DEF DEVICE_RESET
<1>4. CASE PAGE_ERASE
    BY <1>4 DEF PAGE_ERASE, boot_erase_page
<1>5. CASE ACCESS
    BY <1>5 DEF ACCESS, boot_access, sessionVars
<1>6. CASE TEST_ALIVE
    BY <1>6 DEF TEST_ALIVE
<1>7. CASE INTERFACE_EXIT
    BY <1>7 DEF INTERFACE_EXIT
<1>8. QED
    BY <1>1, <1>2, <1>3, <1>4, <1>5, <1>6, <1>7 DEF process_fourway

LEMMA TakeFourWayTyped ==
    ASSUME TypeParts, TakeFourWay
    PROVE  TypeParts'
<1> USE DEF TypeParts
<1>1. StreamTypeOK' /\ next_chunk \in Chunks /\ next_chunk.of \in Messages
    BY ConsumeTyped DEF TakeFourWay
<1>2. CASE UNCHANGED <<parser, body, replyVars, textVars, sessionVars>>
    BY <1>1, <1>2 DEF ReplyTypeOK, TxOK, TextTypeOK, ParserTypeOK, SessionTypeOK, replyVars, textVars,
        sessionVars
<1>3. CASE ParseStart \/ ParseMiddle
    BY <1>1, <1>3, ParseTyped
<1>4. ASSUME parser = "check", parser' = "idle", body' = NO_CHUNK, UNCHANGED textVars,
             process_fourway \/ (send_reply(body.of, FALSE) /\ UNCHANGED sessionVars)
      PROVE  TypeParts'
    <2>1. TextTypeOK' /\ ParserTypeOK'
        BY <1>4 DEF TextTypeOK, ParserTypeOK, textVars
    <2>2. body.of \in Messages
        BY <1>4, ChunkFields DEF ParserTypeOK
    <2>3. ReplyTypeOK' /\ SessionTypeOK'
        BY <1>1, <1>4, <2>2, FourWayTyped, ReplyTyped DEF SessionTypeOK, sessionVars
    <2>4. QED
        BY <1>1, <2>1, <2>3
<1>5. QED
    BY <1>2, <1>3, <1>4 DEF TakeFourWay

LEMMA ClientTyped ==
    ASSUME TypeParts, ClientGone \/ config_protocol_send_telemetry
    PROVE  TypeParts'
<1> USE DEF TypeParts
<1>1. CASE ClientGone
    <2>1. StreamTypeOK'
        BY <1>1 DEF ClientGone, StreamTypeOK, wireVars, answerVars
    <2>2. ReplyTypeOK'
        BY <1>1 DEF ClientGone, ReplyTypeOK, TxOK, replyVars
    <2>3. client_active' \in BOOLEAN /\ UNCHANGED <<input_line, torn>>
        BY <1>1 DEF ClientGone
    <2>4. TextTypeOK'
        BY <2>3 DEF TextTypeOK
    <2>5. ParserTypeOK' /\ SessionTypeOK'
        BY <1>1 DEF ClientGone, ParserTypeOK, SessionTypeOK, sessionVars
    <2>6. QED
        BY <2>1, <2>2, <2>4, <2>5
<1>2. CASE config_protocol_send_telemetry
    <2>1. TxOK(tx') /\ crowded_out' \in BOOLEAN
        BY <1>2, WriteTyped, OutputFacts DEF config_protocol_send_telemetry, ReplyTypeOK
    <2>2. ReplyTypeOK'
        BY <2>1 DEF ReplyTypeOK, TxOK
    <2>3. QED
        BY <1>2, <2>2 DEF config_protocol_send_telemetry, StreamTypeOK, TextTypeOK, ParserTypeOK,
            SessionTypeOK, wireVars, answerVars, textVars, sessionVars
<1>3. QED
    BY <1>1, <1>2

LEMMA HostNextTyped ==
    ASSUME TypeParts, HostNext(armed)
    PROVE  TypeParts'
BY ClientTyped, HostSendsTyped, CableTyped, DriverTyped, TakeLineTyped, TakeMspTyped, TakeFourWayTyped
   DEF HostNext, config_protocol_update
-----------------------------------------------------------------------------
(* What the device sends.                                                  *)

LEMMA NoLines ==
    ASSUME NEW m, NEW ok
    PROVE  LinesTo(m, ok, 0) = {TELEMETRY}
BY DEF LinesTo

(* With telemetry only there is nothing to keep in order.                  *)
LEMMA NoAnswerMeans ==
    ASSUME NEW t
    PROVE  NoAnswer(t) <=> /\ \A i \in 1 .. Len(t.ring) : t.ring[i] = TELEMETRY
                           /\ t.packet \in {TELEMETRY, NOTHING_SENT}
                           /\ t.busy => t.packet # NOTHING_SENT
BY NoLines DEF NoAnswer, Carries

LEMMA AnswerBegins ==
    ASSUME NEW t, NoAnswer(t), NEW m, NEW ok
    PROVE  Carries(t, m, ok, 0)
BY NoAnswerMeans, NoLines DEF Carries

LEMMA LinesToFacts ==
    ASSUME NEW m \in Messages, NEW ok \in BOOLEAN, NEW n \in 0 .. 2, NEW l \in LinesTo(m, ok, n)
    PROVE  /\ l \in Output /\ l # NOTHING_SENT
           /\ l # TELEMETRY => l.to = m /\ l.ok = ok /\ l.line \in 1 .. n
<1>1. CASE l = TELEMETRY
    BY <1>1, OutputFacts
<1>2. ASSUME NEW k \in 1 .. n, l = AnswerLine(m, ok, k) PROVE l \in Output /\ l.to = m /\ l.ok = ok /\ l.line = k
    <2>1. k \in 1 .. 2
        OBVIOUS
    <2>2. QED
        BY <1>2, <2>1, LineTyped
<1>3. QED
    BY <1>1, <1>2, OutputFacts DEF LinesTo

(* The endpoint takes what comes first.                                    *)
LEMMA PollCarries ==
    ASSUME NEW t, TxOK(t), NEW m, NEW ok, NEW n, Carries(t, m, ok, n), NOTHING_SENT \notin LinesTo(m, ok, n)
    PROVE  Carries(usb_cdc_poll(t), m, ok, n)
<1>1. CASE ~poll_due(t)
    BY <1>1 DEF usb_cdc_poll
<1>2. CASE poll_due(t)
    <2> DEFINE rest == Tail(t.ring)
    <2>1. t.ring \in Seq(Output) /\ t.ring # <<>>
        BY <1>2 DEF poll_due, TxOK
    <2>2. /\ Head(t.ring) = t.ring[1] /\ Len(t.ring) \in Nat \ {0} /\ Len(rest) = Len(t.ring) - 1
          /\ \A i \in 1 .. Len(t.ring) - 1 : rest[i] = t.ring[i + 1]
        BY <2>1, RestTyped, HeadTailProperties
    <2> HIDE DEF rest
    <2>3. usb_cdc_poll(t) = [ring |-> rest, packet |-> t.ring[1], busy |-> TRUE]
        BY <1>2, <2>2 DEF usb_cdc_poll, rest
    <2>4. t.ring[1] \in LinesTo(m, ok, n)
        BY <2>2 DEF Carries
    <2>5. ASSUME NEW i \in 1 .. Len(rest)
          PROVE  i + 1 \in 1 .. Len(t.ring) /\ rest[i] = t.ring[i + 1] /\ 1 < i + 1
        BY <2>2
    <2>6. \A i \in 1 .. Len(rest) : rest[i] \in LinesTo(m, ok, n)
        BY <2>5 DEF Carries
    <2>7. ASSUME NEW i \in 1 .. Len(rest), NEW j \in 1 .. Len(rest), i < j,
                 rest[i] # TELEMETRY, rest[j] # TELEMETRY
          PROVE  rest[i].line < rest[j].line
        <3>1. /\ i + 1 \in 1 .. Len(t.ring) /\ j + 1 \in 1 .. Len(t.ring) /\ i + 1 < j + 1
              /\ rest[i] = t.ring[i + 1] /\ rest[j] = t.ring[j + 1]
            BY <2>5, <2>7
        <3>2. QED
            BY <2>7, <3>1 DEF Carries
    <2>8. ASSUME t.ring[1] # TELEMETRY, NEW i \in 1 .. Len(rest), rest[i] # TELEMETRY
          PROVE  t.ring[1].line < rest[i].line
        <3>1. 1 \in 1 .. Len(t.ring)
            BY <2>2
        <3>2. QED
            BY <2>5, <2>8, <3>1 DEF Carries
    <2>9. QED
        BY <2>3, <2>4, <2>6, <2>7, <2>8 DEF Carries
<1>3. QED
    BY <1>1, <1>2

(* The ring takes telemetry anywhere, and a line of the answer after those *)
(* before it.                                                              *)
LEMMA QueuedCarries ==
    ASSUME NEW t, TxOK(t), NEW m \in Messages, NEW ok \in BOOLEAN, NEW n \in 0 .. 2, NEW k \in n .. 2,
           Carries(t, m, ok, n), NEW l \in LinesTo(m, ok, k),
           l # TELEMETRY => l.line > n
    PROVE  Carries(Queued(t, l), m, ok, k)
<1>1. LinesTo(m, ok, n) \subseteq LinesTo(m, ok, k)
    BY DEF LinesTo
<1>2. CASE full(t)
    BY <1>1, <1>2 DEF Carries, Queued
<1>3. CASE ~full(t)
    <2> DEFINE ring == Append(t.ring, l)
    <2>1. l \in Output /\ t.ring \in Seq(Output)
        BY LinesToFacts DEF TxOK
    <2>2. /\ Len(t.ring) \in Nat /\ Len(ring) = Len(t.ring) + 1
          /\ \A i \in 1 .. Len(t.ring) : ring[i] = t.ring[i]
          /\ ring[Len(t.ring) + 1] = l
        BY <2>1, AppendProperties, LenProperties
    <2> HIDE DEF ring
    <2>3. /\ Queued(t, l).ring = ring /\ Queued(t, l).packet = t.packet /\ Queued(t, l).busy = t.busy
        BY <1>3 DEF Queued, TxOK, ring
    <2>4. ASSUME NEW i \in 1 .. Len(ring)
          PROVE  \/ i \in 1 .. Len(t.ring) /\ ring[i] = t.ring[i]
                 \/ i = Len(t.ring) + 1 /\ ring[i] = l
        BY <2>2
    <2>5. \A i \in 1 .. Len(ring) : ring[i] \in LinesTo(m, ok, k)
        BY <1>1, <2>4 DEF Carries
    <2>6. ASSUME NEW x \in LinesTo(m, ok, n), x # TELEMETRY, l # TELEMETRY PROVE x.line < l.line
        <3>1. x.line \in 1 .. n /\ l.line \in 1 .. k
            BY <2>6, LinesToFacts
        <3>2. QED
            BY <2>6, <3>1
    <2>7. ASSUME NEW i \in 1 .. Len(ring), NEW j \in 1 .. Len(ring), i < j,
                 ring[i] # TELEMETRY, ring[j] # TELEMETRY
          PROVE  ring[i].line < ring[j].line
        <3>1. i \in 1 .. Len(t.ring) /\ ring[i] = t.ring[i]
            BY <2>2, <2>4, <2>7
        <3>2. CASE j \in 1 .. Len(t.ring) /\ ring[j] = t.ring[j]
            BY <2>7, <3>1, <3>2 DEF Carries
        <3>3. CASE ring[j] = l
            BY <2>6, <2>7, <3>1, <3>3 DEF Carries
        <3>4. QED
            BY <2>4, <3>2, <3>3
    <2>8. ASSUME t.packet \notin {TELEMETRY, NOTHING_SENT}, NEW i \in 1 .. Len(ring), ring[i] # TELEMETRY
          PROVE  t.packet.line < ring[i].line
        <3>1. t.packet \in LinesTo(m, ok, n) /\ t.packet # TELEMETRY
            BY <2>8 DEF Carries
        <3>2. CASE i \in 1 .. Len(t.ring) /\ ring[i] = t.ring[i]
            BY <2>8, <3>2 DEF Carries
        <3>3. CASE ring[i] = l
            BY <2>6, <2>8, <3>1, <3>3
        <3>4. QED
            BY <2>4, <3>2, <3>3
    <2>9. /\ t.packet \in LinesTo(m, ok, k) \cup {NOTHING_SENT}
          /\ t.busy => t.packet # NOTHING_SENT
        BY <1>1 DEF Carries
    <2>10. QED
        BY <2>3, <2>5, <2>7, <2>8, <2>9 DEF Carries
<1>4. QED
    BY <1>2, <1>3

LEMMA WriteCarries ==
    ASSUME NEW t, TxOK(t), NEW m \in Messages, NEW ok \in BOOLEAN, NEW n \in 0 .. 2, NEW k \in n .. 2,
           Carries(t, m, ok, n), NEW l \in LinesTo(m, ok, k),
           l # TELEMETRY => l.line > n
    PROVE  TxOK(usb_cdc_write(t, l)) /\ Carries(usb_cdc_write(t, l), m, ok, k)
<1>1. l \in Output /\ NOTHING_SENT \notin LinesTo(m, ok, k)
    BY LinesToFacts
<1>2. TxOK(Queued(t, l)) /\ usb_cdc_write(t, l) = usb_cdc_poll(Queued(t, l))
    BY <1>1, QueuedTyped
<1>3. Carries(Queued(t, l), m, ok, k)
    BY QueuedCarries
<1>4. QED
    BY <1>1, <1>2, <1>3, PollTyped, PollCarries

(* An answer, with its lines in order, whatever telemetry was there.       *)
LEMMA ReplyQueued ==
    ASSUME ReplyTypeOK, NoAnswer(tx), NEW to \in Messages, NEW ok \in BOOLEAN, send_reply(to, ok)
    PROVE  Carries(tx', to, ok, lines_of(to, ok))
<1> DEFINE one == AnswerLine(to, ok, 1)
           two == AnswerLine(to, ok, 2)
           first == usb_cdc_write(tx, one)
<1>1. /\ one \in LinesTo(to, ok, 1) /\ one.line = 1
      /\ two \in LinesTo(to, ok, 2) /\ two.line = 2
    BY LineTyped DEF LinesTo
<1>2. TxOK(tx) /\ Carries(tx, to, ok, 0)
    BY AnswerBegins DEF ReplyTypeOK
<1> HIDE DEF one, two
<1>3. TxOK(first) /\ Carries(first, to, ok, 1)
    BY <1>1, <1>2, WriteCarries
<1> HIDE DEF first
<1>4. Carries(usb_cdc_write(first, two), to, ok, 2)
    BY <1>1, <1>3, WriteCarries
<1>5. tx' = IF lines_of(to, ok) > 1 THEN usb_cdc_write(first, two) ELSE first
    BY DEF send_reply, first, one, two
<1>6. QED
    BY <1>3, <1>4, <1>5, LinesOf

(* Telemetry disturbs no answer.                                           *)
LEMMA TelemetryCarries ==
    ASSUME ReplyTypeOK, NEW m \in Messages, NEW ok \in BOOLEAN, NEW n \in 0 .. 2, Carries(tx, m, ok, n)
    PROVE  Carries(usb_cdc_write(tx, TELEMETRY), m, ok, n)
<1>1. TELEMETRY \in LinesTo(m, ok, n) /\ n \in n .. 2 /\ TxOK(tx)
    BY DEF LinesTo, ReplyTypeOK
<1>2. QED
    BY <1>1, WriteCarries
-----------------------------------------------------------------------------
(* The lock-step, while nothing has damaged the stream.                    *)

Clean == ~torn /\ ~wrong_page /\ SessionInv /\ (Rest \/ Reading \/ Answered)

LEMMA CleanIsLockStep ==
    /\ LockStep <=> (damage = "none" => Clean)
    /\ LockStep' <=> (damage' = "none" => Clean')
BY DEF LockStep, Clean

(* Which phase it is can be told from what is under way.                   *)
LEMMA PhaseFacts ==
    ASSUME TypeParts, Clean
    PROVE  /\ waiting = NONE => Rest
           /\ waiting # NONE /\ NothingUnread => Answered
           /\ rx_ring # <<>> \/ sending # <<>> => Reading
           /\ ~NoAnswer(tx) => Answered
           /\ Len(rx_ring) \in Nat /\ (Len(rx_ring) = 0 <=> rx_ring = <<>>)
           /\ Len(sending) \in Nat /\ (Len(sending) = 0 <=> sending = <<>>)
<1>1. /\ Len(rx_ring) \in Nat /\ (Len(rx_ring) = 0 <=> rx_ring = <<>>)
      /\ Len(sending) \in Nat /\ (Len(sending) = 0 <=> sending = <<>>)
    BY EmptySeq, LenProperties DEF TypeParts, StreamTypeOK
<1>2. Reading => waiting # NONE /\ ~NothingUnread /\ NoAnswer(tx)
    BY <1>1, MessageFacts DEF Reading, InStream, Unread, NothingUnread
<1>3. Rest => waiting = NONE /\ NothingUnread /\ NoAnswer(tx)
    BY DEF Rest
<1>4. Answered => waiting # NONE /\ NothingUnread
    BY MessageFacts DEF Answered
<1>5. QED
    BY <1>1, <1>2, <1>3, <1>4 DEF Clean, NothingUnread

(* A phase depends on these variables only, and telemetry that comes or    *)
(* goes is nothing to it.                                                  *)
LEMMA CleanKept ==
    ASSUME Clean, UNCHANGED <<sending, waiting, connected_esc, rx_ring, input_line, torn, parser, body,
                              sessionVars>>,
           NoAnswer(tx) => NoAnswer(tx'),
           \A m \in Messages, ok \in BOOLEAN :
              Carries(tx, m, ok, lines_of(m, ok)) => Carries(tx', m, ok, lines_of(m, ok))
    PROVE  Clean'
<1>1. SessionInv' /\ ~torn' /\ ~wrong_page'
    BY DEF Clean, SessionInv, ConnectedTo, sessionVars
<1>2. CASE Rest
    BY <1>1, <1>2 DEF Clean, Rest, NothingUnread, Listening
<1>3. CASE Reading
    BY <1>1, <1>3 DEF Clean, Reading, InStream, Unread, Consumed, parser_expects, sessionVars
<1>4. CASE Answered
    <2>1. PICK ok \in BOOLEAN : /\ Carries(tx, waiting, ok, lines_of(waiting, ok))
                                /\ waiting.name = "init_flash" /\ ok => ConnectedTo(waiting.esc)
        BY <1>4 DEF Answered
    <2>2. Carries(tx', waiting, ok, lines_of(waiting, ok))
        BY <1>4, <2>1 DEF Answered
    <2>3. waiting' \in Messages /\ NothingUnread' /\ Listening'
        BY <1>4 DEF Answered, NothingUnread, Listening
    <2>4. lines_of(waiting, ok)' = lines_of(waiting, ok) /\ ConnectedTo(waiting.esc)' = ConnectedTo(waiting.esc)
        BY DEF lines_of, ConnectedTo, sessionVars
    <2>5. Answered'
        BY <2>1, <2>2, <2>3, <2>4 DEF Answered
    <2>6. QED
        BY <1>1, <2>5 DEF Clean
<1>5. QED
    BY <1>2, <1>3, <1>4 DEF Clean

(* A new message is written whole, to a parser that listens.               *)
LEMMA HostSendsKeeps ==
    ASSUME TypeParts, Clean, HostSends, damage = "none", damage' = "none"
    PROVE  Clean'
<1>1. Rest /\ UNCHANGED <<rx_ring, tx, textVars, parser, body, sessionVars>>
    BY PhaseFacts DEF HostSends, UNCHANGED_device
<1>2. PICK m \in Messages :
          /\ m.name = "erase" => connected_esc # 0
          /\ m.name = "set_mode" => connected_esc = m.esc
          /\ sending' = [i \in 1 .. Size(m) |-> Chunk(m, i)]
          /\ waiting' = m
          /\ connected_esc' = IF m.name \in {"init_flash", "reset", "exit"} THEN 0
                              ELSE connected_esc
          /\ IF m.name = "long" THEN damaged_by("long")
             ELSE IF fourway_active = (m \notin FourWay) THEN damaged_by("mode")
             ELSE UNCHANGED damage
    BY DEF HostSends
<1>3. m.name # "long" /\ fourway_active = (m \in FourWay)
    BY <1>2 DEF damaged_by, TypeParts, SessionTypeOK
<1>4. Size(m) = 3 /\ m # NONE
    BY <1>3, MessageFacts
<1>5. Len(sending') = 3 /\ \A i \in 1 .. 3 : sending'[i] = Chunk(m, i)
    BY <1>2, <1>4
<1>6. Len(rx_ring') = 0 /\ Len(input_line') = 0 /\ parser' = "idle"
    BY <1>1, EmptyIsShort DEF Rest, NothingUnread, Listening, textVars
<1>7. Unread' = 3 /\ Consumed' = 0
    BY <1>5, <1>6 DEF Unread, Consumed
<1>8. InStream'
    <2>1. \A i \in 1 .. 3 : Consumed' + Len(rx_ring') + i = i
        BY <1>6, <1>7
    <2>2. \A i \in 1 .. Len(sending') : sending'[i] = Chunk(waiting', Consumed' + Len(rx_ring') + i)
        BY <1>2, <1>5, <2>1
    <2>3. \A i \in 1 .. Len(rx_ring') : rx_ring'[i] = Chunk(waiting', Consumed' + i)
        BY <1>6
    <2>4. QED
        BY <1>7, <2>2, <2>3 DEF InStream
<1>9. NoAnswer(tx)' /\ fourway_active' = fourway_active
    BY <1>1 DEF Rest, sessionVars
<1>10. Reading'
    BY <1>2, <1>3, <1>6, <1>7, <1>8, <1>9 DEF Reading, parser_expects
<1>11. SessionInv' /\ ~torn' /\ ~wrong_page'
    BY <1>1, <1>2 DEF Clean, SessionInv, ConnectedTo, textVars, sessionVars
<1>12. QED
    BY <1>10, <1>11 DEF Clean

(* What the host sees when no line of an answer is under way.              *)
LEMMA OnlyTelemetry ==
    ASSUME ReplyTypeOK, no_answer_sent, ~(tx.busy /\ tx.packet = NOTHING_SENT)
    PROVE  NoAnswer(tx)
<1>1. tx.ring \in Seq(Output)
    BY DEF ReplyTypeOK, TxOK
<1>2. DOMAIN tx.ring = 1 .. Len(tx.ring) /\ \A i \in 1 .. Len(tx.ring) : tx.ring[i] \in Output
    BY <1>1, LenProperties, ElementOfSeq
<1>3. \A i \in 1 .. Len(tx.ring) : tx.ring[i] = TELEMETRY
    BY <1>2, OutputFacts DEF no_answer_sent
<1>4. tx.packet \in {TELEMETRY, NOTHING_SENT}
    BY DEF no_answer_sent
<1>5. QED
    BY <1>3, <1>4, NoAnswerMeans

(* The host gives up when nothing is left to come, and a cable pulled while*)
(* something is under way is a damage.                                     *)
LEMMA CableKeeps ==
    ASSUME TypeParts, Clean, HostGivesUp \/ UsbReset \/ UsbConfigured,
           damage = "none", damage' = "none"
    PROVE  Clean'
<1>1. CASE HostGivesUp
    <2>1. Answered /\ (no_answer_sent \/ (tx.busy /\ tx.packet = NOTHING_SENT))
        BY <1>1, PhaseFacts DEF HostGivesUp, NothingUnread
    <2>2. NoAnswer(tx)
        <3>1. ~(tx.busy /\ tx.packet = NOTHING_SENT)
            BY <2>1 DEF Answered, Carries
        <3>2. QED
            BY <2>1, <3>1, OnlyTelemetry DEF TypeParts
    <2>3. Rest'
        BY <1>1, <2>1, <2>2 DEF HostGivesUp, stops_waiting, UNCHANGED_device, Answered, Rest, NothingUnread,
            Listening, wireVars, textVars
    <2>4. SessionInv' /\ ~torn' /\ ~wrong_page'
        BY <1>1 DEF HostGivesUp, stops_waiting, UNCHANGED_device, Clean, SessionInv, ConnectedTo, textVars,
            sessionVars, NONE
    <2>5. QED
        BY <2>3, <2>4 DEF Clean
<1>2. CASE UsbReset
    <2>1. quiet
        BY <1>2 DEF UsbReset, damaged_by
    <2>2. NothingUnread /\ Listening /\ no_answer_sent /\ tx.packet = NOTHING_SENT
        BY <2>1 DEF quiet, NothingUnread, Listening
    <2>3. Rest \/ Answered
        BY <2>2, PhaseFacts DEF NothingUnread
    <2>4. ~tx.busy
        BY <2>2, <2>3, NoAnswerMeans DEF Rest, Answered, Carries
    <2>5. NoAnswer(tx)
        BY <2>2, <2>4, OnlyTelemetry DEF TypeParts
    <2>6. NoAnswer(tx')
        <3>1. tx'.ring = tx.ring /\ tx'.packet = NOTHING_SENT /\ ~tx'.busy
            BY <1>2, <2>4 DEF UsbReset, TypeParts, ReplyTypeOK, TxOK
        <3>2. QED
            BY <2>5, <3>1, NoAnswerMeans
    <2>7. Rest'
        BY <1>2, <2>2, <2>6 DEF UsbReset, stops_waiting, Rest, NothingUnread, Listening, textVars
    <2>8. SessionInv' /\ ~torn' /\ ~wrong_page'
        BY <1>2 DEF UsbReset, stops_waiting, Clean, SessionInv, textVars, sessionVars, NONE
    <2>9. QED
        BY <2>7, <2>8 DEF Clean
<1>3. CASE UsbConfigured
    BY <1>3, CleanKept DEF UsbConfigured, UNCHANGED_device, answerVars, textVars
<1>4. QED
    BY <1>1, <1>2, <1>3

(* A chunk crosses to the device, unless it is lost with damage.           *)
LEMMA ReceiveKeeps ==
    ASSUME TypeParts, NoHost, Clean, UsbReceive, damage = "none", damage' = "none"
    PROVE  Clean'
<1>1. Reading /\ sending \in Seq(Chunks) /\ sending # <<>> /\ rx_ring \in Seq(Chunks)
    BY PhaseFacts DEF UsbReceive, TypeParts, StreamTypeOK
<1>2. Len(rx_ring) < RX_SIZE
    BY DEF UsbReceive, at32_has_room, NoHost, TypeParts, StreamTypeOK
<1>3. rx_ring' = Append(rx_ring, Head(sending)) /\ sending' = Tail(sending)
    BY <1>2 DEF UsbReceive
<1>4. /\ Head(sending) \in Chunks /\ Head(sending) = sending[1] /\ Len(sending) \in Nat \ {0}
      /\ Len(sending') = Len(sending) - 1
      /\ \A i \in 1 .. Len(sending) - 1 : sending'[i] = sending[i + 1]
    BY <1>1, <1>3, RestTyped
<1>5. /\ Len(rx_ring) \in Nat /\ Len(rx_ring') = Len(rx_ring) + 1
      /\ \A i \in 1 .. Len(rx_ring) : rx_ring'[i] = rx_ring[i]
      /\ rx_ring'[Len(rx_ring) + 1] = sending[1]
    BY <1>1, <1>3, <1>4, AppendProperties, LenProperties
<1>6. Unread' = Unread /\ Consumed' = Consumed
    BY <1>4, <1>5 DEF Unread, Consumed
<1>7. UNCHANGED <<waiting, connected_esc, tx, textVars, parser, body, sessionVars>>
    BY DEF UsbReceive, UNCHANGED_device, answerVars
<1>8. InStream'
    <2>1. Consumed \in Int
        BY <1>4, <1>5 DEF Consumed, Unread
    <2>2. ASSUME NEW i \in 1 .. Len(rx_ring') PROVE rx_ring'[i] = Chunk(waiting', Consumed' + i)
        <3>1. CASE i \in 1 .. Len(rx_ring)
            BY <1>1, <1>5, <1>6, <1>7, <3>1 DEF Reading, InStream
        <3>2. CASE i = Len(rx_ring) + 1
            <4>1. sending[1] = Chunk(waiting, Consumed + Len(rx_ring) + 1)
                BY <1>1, <1>4 DEF Reading, InStream
            <4>2. Consumed + Len(rx_ring) + 1 = Consumed' + i
                BY <1>5, <1>6, <2>1, <3>2
            <4>3. QED
                BY <1>5, <1>7, <3>2, <4>1, <4>2
        <3>3. QED
            BY <1>5, <3>1, <3>2
    <2>3. ASSUME NEW i \in 1 .. Len(sending')
          PROVE  sending'[i] = Chunk(waiting', Consumed' + Len(rx_ring') + i)
        <3>1. i + 1 \in 1 .. Len(sending) /\ i \in 1 .. Len(sending) - 1
            BY <1>4
        <3>2. sending[i + 1] = Chunk(waiting, Consumed + Len(rx_ring) + (i + 1))
            BY <1>1, <3>1 DEF Reading, InStream
        <3>3. Consumed + Len(rx_ring) + (i + 1) = Consumed' + Len(rx_ring') + i
            BY <1>4, <1>5, <1>6, <2>1
        <3>4. QED
            BY <1>4, <1>7, <3>1, <3>2, <3>3
    <2>4. QED
        BY <1>1, <1>6, <2>2, <2>3 DEF Reading, InStream
<1>9. Reading'
    BY <1>1, <1>6, <1>7, <1>8 DEF Reading, parser_expects, textVars, sessionVars
<1>10. SessionInv' /\ ~torn' /\ ~wrong_page'
    BY <1>7 DEF Clean, SessionInv, ConnectedTo, textVars, sessionVars
<1>11. QED
    BY <1>9, <1>10 DEF Clean

LEMMA PollKeeps ==
    ASSUME TypeParts, Clean, UsbPoll
    PROVE  Clean'
<1>1. TxOK(tx) /\ tx' = usb_cdc_poll(tx)
    BY DEF UsbPoll, TypeParts, ReplyTypeOK
<1>2. ASSUME NoAnswer(tx) PROVE NoAnswer(tx')
    <2>1. NOTHING_SENT \notin LinesTo(NONE, FALSE, 0)
        BY NoLines, OutputFacts
    <2>2. QED
        BY <1>1, <1>2, <2>1, PollCarries DEF NoAnswer
<1>3. ASSUME NEW m \in Messages, NEW ok \in BOOLEAN, Carries(tx, m, ok, lines_of(m, ok))
      PROVE  Carries(tx', m, ok, lines_of(m, ok))
    <2>1. lines_of(m, ok) \in 0 .. 2
        BY LinesOf
    <2>2. NOTHING_SENT \notin LinesTo(m, ok, lines_of(m, ok))
        BY <2>1, LinesToFacts
    <2>3. QED
        BY <1>1, <1>3, <2>2, PollCarries
<1>4. QED
    BY <1>2, <1>3, CleanKept DEF UsbPoll, wireVars, answerVars, textVars

LEMMA TelemetryKeeps ==
    ASSUME TypeParts, Clean, ClientGone \/ config_protocol_send_telemetry
    PROVE  Clean'
<1>1. CASE ClientGone
    BY <1>1, CleanKept DEF ClientGone, wireVars, answerVars, replyVars
<1>2. CASE config_protocol_send_telemetry
    <2>1. ReplyTypeOK /\ tx' = usb_cdc_write(tx, TELEMETRY)
        BY <1>2 DEF config_protocol_send_telemetry, TypeParts
    <2>2. ASSUME NoAnswer(tx) PROVE NoAnswer(tx')
        <3>1. [name |-> "get", esc |-> 0] \in Messages
            BY DEF Messages, Lines
        <3> DEFINE m == [name |-> "get", esc |-> 0]
        <3> HIDE DEF m
        <3>2. m \in Messages
            BY <3>1 DEF m
        <3>3. Carries(tx, m, TRUE, 0)
            BY <2>2, AnswerBegins
        <3>4. Carries(tx', m, TRUE, 0)
            <4>1. 0 \in 0 .. 2
                OBVIOUS
            <4>2. QED
                BY <2>1, <3>2, <3>3, <4>1, TelemetryCarries
        <3>5. QED
            BY <3>4, NoLines DEF NoAnswer, Carries
    <2>3. ASSUME NEW m \in Messages, NEW ok \in BOOLEAN, Carries(tx, m, ok, lines_of(m, ok))
          PROVE  Carries(tx', m, ok, lines_of(m, ok))
        <3>1. lines_of(m, ok) \in 0 .. 2
            BY LinesOf
        <3>2. QED
            BY <2>1, <2>3, <3>1, TelemetryCarries
    <2>4. QED
        BY <1>2, <2>2, <2>3, CleanKept
            DEF config_protocol_send_telemetry, wireVars, answerVars, textVars
<1>3. QED
    BY <1>1, <1>2

(* What has been sent is no longer under way.                              *)
LEMMA SentCarries ==
    ASSUME NEW t, TxOK(t), NEW m, NEW ok, NEW n, Carries(t, m, ok, n)
    PROVE  Carries([t EXCEPT !.packet = NOTHING_SENT, !.busy = FALSE], m, ok, n)
<1> DEFINE u == [t EXCEPT !.packet = NOTHING_SENT, !.busy = FALSE]
<1>1. u.ring = t.ring /\ u.packet = NOTHING_SENT /\ u.busy = FALSE
    BY DEF TxOK
<1> HIDE DEF u
<1>2. Carries(u, m, ok, n)
    BY <1>1 DEF Carries
<1>3. QED
    BY <1>2 DEF u

(* The host hears the last line of an answer after the others, so that     *)
(* nothing of the answer is left behind it.                                *)
LEMMA SentKeeps ==
    ASSUME TypeParts, Clean, UsbSent
    PROVE  Clean'
<1> DEFINE l == tx.packet
           is_next == l.to.name = waiting.name /\ l.line = heard + 1
           last == is_next /\ l.line = lines_of(waiting, l.ok)
<1>1. /\ TxOK(tx) /\ l # NOTHING_SENT /\ waiting \in Messages \cup {NONE}
      /\ tx' = [tx EXCEPT !.packet = NOTHING_SENT, !.busy = FALSE]
      /\ UNCHANGED <<sending, rx_ring, input_line, torn, parser, body, sessionVars>>
    BY DEF UsbSent, TypeParts, ReplyTypeOK, StreamTypeOK, wireVars, textVars
<1>2. /\ \A m, ok, n : Carries(tx, m, ok, n) => Carries(tx', m, ok, n)
      /\ NoAnswer(tx) => NoAnswer(tx')
    BY <1>1, SentCarries DEF NoAnswer
<1>3. ASSUME ~last, waiting.name = "init_flash" => ~is_next \/ ~l.ok PROVE Clean'
    <2>1. waiting' = waiting /\ connected_esc' = connected_esc
        BY <1>3 DEF UsbSent
    <2>2. QED
        BY <1>1, <1>2, <2>1, CleanKept
<1>4. CASE l = TELEMETRY
    <2>1. ~is_next
        BY <1>1, <1>4, MessageFacts, OutputFacts, NoTelemetryMessage DEF NONE
    <2>2. QED
        BY <1>3, <2>1
<1>5. CASE l # TELEMETRY
    <2>1. Answered
        BY <1>1, <1>5, PhaseFacts, NoAnswerMeans
    <2>2. PICK ok \in BOOLEAN : /\ Carries(tx, waiting, ok, lines_of(waiting, ok))
                                /\ waiting.name = "init_flash" /\ ok => ConnectedTo(waiting.esc)
        BY <2>1 DEF Answered
    <2>3. lines_of(waiting, ok) \in 0 .. 2 /\ waiting \in Messages
        BY <2>1, LinesOf DEF Answered
    <2>4. l.ok = ok /\ l.line \in 1 .. lines_of(waiting, ok)
        <3>1. l \in LinesTo(waiting, ok, lines_of(waiting, ok))
            BY <1>1, <2>2 DEF Carries
        <3>2. QED
            BY <1>5, <2>3, <3>1, LinesToFacts
    <2>5. CASE ~last
        <3>1. waiting.name = "init_flash" => ~is_next
            BY <2>3, <2>4, <2>5 DEF lines_of
        <3>2. QED
            BY <1>3, <2>5, <3>1
    <2>6. CASE last
        <3>1. waiting' = NONE /\ connected_esc' = IF waiting.name = "init_flash" /\ ok THEN waiting.esc
                                                  ELSE connected_esc
            BY <2>4, <2>6 DEF UsbSent, stops_waiting
        <3>2. ASSUME NEW i \in 1 .. Len(tx.ring) PROVE tx.ring[i] = TELEMETRY
            <4>1. tx.ring[i] \in LinesTo(waiting, ok, lines_of(waiting, ok))
                BY <2>2 DEF Carries
            <4>2. ASSUME tx.ring[i] # TELEMETRY PROVE FALSE
                <5>1. tx.ring[i].line \in 1 .. lines_of(waiting, ok)
                    BY <2>3, <4>1, <4>2, LinesToFacts
                <5>2. l.line < tx.ring[i].line
                    BY <1>1, <1>5, <2>2, <4>2 DEF Carries
                <5>3. QED
                    BY <2>3, <2>4, <2>6, <5>1, <5>2
            <4>3. QED
                BY <4>2
        <3>3. NoAnswer(tx')
            <4>1. tx'.ring = tx.ring /\ tx'.packet = NOTHING_SENT /\ tx'.busy = FALSE
                BY <1>1 DEF TxOK
            <4>2. QED
                BY <3>2, <4>1, NoAnswerMeans
        <3>4. Rest'
            BY <1>1, <2>1, <3>1, <3>3 DEF Answered, Rest, NothingUnread, Listening
        <3>5. SessionInv'
            BY <1>1, <2>2, <3>1 DEF Clean, SessionInv, ConnectedTo, sessionVars, NONE
        <3>6. QED
            BY <1>1, <3>4, <3>5 DEF Clean, sessionVars
    <2>7. QED
        BY <2>5, <2>6
<1>6. QED
    BY <1>4, <1>5
-----------------------------------------------------------------------------
(* The parser in lock-step.                                                *)

(* The next chunk is the next of the message that the host waits for.      *)
LEMMA ConsumeFacts ==
    ASSUME TypeParts, Clean, Consume
    PROVE  /\ Reading /\ waiting \in Messages /\ Size(waiting) = 3
           /\ next_chunk.of = waiting /\ next_chunk.part = Consumed + 1
           /\ Consumed \in 0 .. 2 /\ Consumed' = Consumed + 1 /\ Unread = 3 - Consumed
           /\ waiting' = waiting /\ connected_esc' = connected_esc
           /\ Consumed < 2 => InStream'
           /\ Consumed = 2 => NothingUnread'
<1>1. StreamTypeOK
    BY DEF TypeParts
<1>2. Reading /\ UNCHANGED <<waiting, sending, connected_esc>>
    BY PhaseFacts DEF Consume, answerVars
<1>3. waiting \in Messages /\ Size(waiting) = 3 /\ InStream
    BY <1>2, MessageFacts DEF Reading
<1>4. /\ rx_ring # <<>> /\ next_chunk = rx_ring[1]
      /\ Len(rx_ring) \in Nat \ {0} /\ Len(rx_ring') = Len(rx_ring) - 1
      /\ \A i \in 1 .. Len(rx_ring) - 1 : rx_ring'[i] = rx_ring[i + 1]
    BY <1>1, ConsumeTyped
<1>5. Len(sending) \in Nat /\ (Len(sending) = 0 <=> sending = <<>>)
    BY PhaseFacts
<1>6. /\ Unread \in 1 .. 3 /\ Consumed \in 0 .. 2 /\ Unread' = Unread - 1
      /\ Consumed' = Consumed + 1 /\ Unread = 3 - Consumed
    BY <1>2, <1>3, <1>4, <1>5 DEF InStream, Unread, Consumed
<1>7. next_chunk = Chunk(waiting, Consumed + 1)
    BY <1>3, <1>4 DEF InStream
<1>8. next_chunk.of = waiting /\ next_chunk.part = Consumed + 1
    BY <1>7 DEF Chunk
<1>9. ASSUME Consumed < 2 PROVE InStream'
    <2>1. Unread' \in 1 .. 3
        BY <1>6, <1>9
    <2>2. ASSUME NEW i \in 1 .. Len(rx_ring') PROVE rx_ring'[i] = Chunk(waiting', Consumed' + i)
        <3>1. i + 1 \in 1 .. Len(rx_ring) /\ i \in 1 .. Len(rx_ring) - 1
            BY <1>4
        <3>2. rx_ring[i + 1] = Chunk(waiting, Consumed + (i + 1))
            BY <1>3, <3>1 DEF InStream
        <3>3. Consumed + (i + 1) = Consumed' + i
            BY <1>4, <1>6
        <3>4. QED
            BY <1>2, <1>4, <3>1, <3>2, <3>3
    <2>3. ASSUME NEW i \in 1 .. Len(sending')
          PROVE  sending'[i] = Chunk(waiting', Consumed' + Len(rx_ring') + i)
        <3>1. Consumed + Len(rx_ring) + i = Consumed' + Len(rx_ring') + i
            BY <1>4, <1>5, <1>6
        <3>2. QED
            BY <1>2, <1>3, <3>1 DEF InStream
    <2>4. QED
        BY <2>1, <2>2, <2>3 DEF InStream
<1>10. ASSUME Consumed = 2 PROVE NothingUnread'
    <2>1. Len(rx_ring') = 0 /\ Len(sending) = 0
        BY <1>4, <1>5, <1>6, <1>10 DEF Unread
    <2>2. rx_ring' = <<>>
        BY <1>1, <2>1, ConsumeTyped, EmptySeq DEF StreamTypeOK
    <2>3. QED
        BY <1>2, <1>5, <2>1, <2>2 DEF NothingUnread
<1>11. QED
    BY <1>2, <1>3, <1>6, <1>8, <1>9, <1>10

LEMMA AnsweredNext ==
    ASSUME waiting \in Messages, waiting' = waiting, NothingUnread', Listening',
           NEW ok \in BOOLEAN, Carries(tx', waiting, ok, lines_of(waiting, ok)),
           waiting.name = "init_flash" /\ ok => ConnectedTo(waiting.esc)'
    PROVE  Answered'
<1>1. Carries(tx', waiting', ok, lines_of(waiting', ok))
    OBVIOUS
<1>2. waiting'.name = "init_flash" /\ ok => ConnectedTo(waiting.esc)'
    OBVIOUS
<1>3. QED
    BY <1>1, <1>2 DEF Answered

(* The line buffer holds exactly the chunks before the newline.            *)
LEMMA TakeLineKeeps ==
    ASSUME TypeParts, Clean, TakeLine
    PROVE  Clean'
<1> DEFINE m == next_chunk.of
<1>1. /\ Reading /\ waiting \in Messages /\ Size(waiting) = 3
      /\ m = waiting /\ next_chunk.part = Consumed + 1
      /\ Consumed \in 0 .. 2 /\ Consumed' = Consumed + 1
      /\ waiting' = waiting /\ connected_esc' = connected_esc
      /\ Consumed < 2 => InStream'
      /\ Consumed = 2 => NothingUnread'
    BY ConsumeFacts DEF TakeLine
<1> HIDE DEF m
<1>2. /\ ~fourway_active /\ parser = "idle" /\ ~(is_msp(waiting) /\ Consumed + 1 = 1)
      /\ UNCHANGED <<parser, body, sessionVars>>
    BY <1>1 DEF TakeLine, for_line, m
<1>3. is_line(waiting) /\ waiting \notin FourWay /\ waiting.name # "init_flash"
    <2>1. is_line(waiting) \/ is_msp(waiting)
        BY <1>1, <1>2, MessageFacts DEF Reading
    <2>2. ~is_msp(waiting)
        BY <1>1, <1>2, MessageFacts DEF Reading, parser_expects
    <2>3. QED
        BY <1>1, <2>1, <2>2, MessageFacts
<1>4. Len(input_line) = Consumed /\ \A i \in 1 .. Len(input_line) : input_line[i] = Chunk(waiting, i)
    BY <1>1, <1>3 DEF Reading
<1>5. SessionInv' /\ ~wrong_page'
    BY <1>1, <1>2 DEF Clean, SessionInv, ConnectedTo, sessionVars
<1>6. input_line \in Seq(Chunks)
    BY DEF TypeParts, TextTypeOK
<1>7. CASE Consumed = 2
    <2>1. last_part /\ input_line # <<>>
        <3>1. last_part
            BY <1>1, <1>7 DEF last_part, m
        <3>2. Len(input_line) # 0
            BY <1>4, <1>7
        <3>3. QED
            BY <3>1, <3>2, EmptyIsShort
    <2>2. /\ input_line' = <<>> /\ torn' = (torn \/ ~as_written(input_line))
          /\ send_reply(waiting, TRUE)
        BY <1>1, <1>3, <2>1 DEF TakeLine, line_after_newline, m
    <2>3. as_written(input_line)
        <3>1. Size(waiting) - 1 = 2 /\ Chunk(waiting, 1) \in Chunks /\ Chunk(waiting, 2) \in Chunks
            BY <1>1, ChunkTyped, HostSizes
        <3> DEFINE line == [i \in 1 .. 2 |-> Chunk(waiting, i)]
        <3>2. line \in Seq(Chunks) /\ Len(line) = 2 /\ \A i \in 1 .. 2 : line[i] = Chunk(waiting, i)
            BY <3>1
        <3> HIDE DEF line
        <3>3. input_line = line
            BY <1>4, <1>6, <1>7, <3>2, SeqEqual
        <3>4. QED
            BY <1>1, <1>3, <3>1, <3>3 DEF as_written, line
    <2>4. Carries(tx', waiting, TRUE, lines_of(waiting, TRUE))
        BY <1>1, <2>2, ReplyQueued DEF Reading, TypeParts
    <2>5. Answered'
        BY <1>1, <1>2, <1>3, <1>7, <2>2, <2>4, AnsweredNext DEF Listening
    <2>6. QED
        BY <1>5, <2>2, <2>3, <2>5 DEF Clean
<1>8. CASE Consumed < 2
    <2>1. ~last_part
        BY <1>1, <1>8 DEF last_part, m
    <2>2. Len(input_line) < LINE_LENGTH - 1
        BY <1>1, <1>4, <1>8, HostSizes
    <2>3. input_line' = Append(input_line, next_chunk) /\ UNCHANGED <<replyVars, torn>>
        BY <1>1, <2>1, <2>2 DEF TakeLine, m
    <2>4. next_chunk \in Chunks
        BY ConsumeTyped DEF TakeLine, TypeParts
    <2>5. next_chunk = Chunk(waiting, Consumed + 1)
        BY <1>1, <2>4 DEF Chunk, Chunks, m
    <2>6. /\ Len(input_line') = Consumed + 1
          /\ \A i \in 1 .. Consumed : input_line'[i] = Chunk(waiting, i)
          /\ input_line'[Consumed + 1] = Chunk(waiting, Consumed + 1)
        BY <1>4, <1>6, <2>3, <2>4, <2>5, AppendProperties
    <2>7. \A i \in 1 .. Len(input_line') : input_line'[i] = Chunk(waiting', i)
        BY <1>1, <2>6
    <2>8. parser' = "idle" /\ parser_expects' = "idle" /\ is_line(waiting')
        BY <1>1, <1>2, <1>3 DEF parser_expects
    <2>9. NoAnswer(tx)' /\ fourway_active' = fourway_active
        BY <1>1, <1>2, <2>3 DEF Reading, replyVars, sessionVars
    <2>10. Reading'
        BY <1>1, <1>8, <2>6, <2>7, <2>8, <2>9 DEF Reading
    <2>11. QED
        BY <1>5, <2>3, <2>10 DEF Clean
<1>9. QED
    BY <1>1, <1>7, <1>8

(* A frame goes through the states of its parser one chunk after another.  *)
LEMMA ParseKeeps ==
    ASSUME TypeParts, Clean, Consume, ~is_line(waiting), ParseStart \/ ParseMiddle
    PROVE  Clean'
<1>1. /\ Reading /\ waiting \in Messages
      /\ next_chunk.of = waiting /\ next_chunk.part = Consumed + 1
      /\ Consumed \in 0 .. 2 /\ Consumed' = Consumed + 1
      /\ waiting' = waiting /\ connected_esc' = connected_esc
      /\ Consumed < 2 => InStream'
    BY ConsumeFacts
<1>2. UNCHANGED <<replyVars, textVars, sessionVars>>
    BY DEF ParseStart, ParseMiddle
<1>3. Len(input_line) = 0 /\ parser = parser_expects
    BY <1>1 DEF Reading
<1>4. /\ Consumed < 2 /\ parser' = parser_expects'
      /\ parser' = "check" => body' = Chunk(waiting, 2)
    <2>1. CASE ParseStart
        <3>1. Consumed = 0
            BY <1>1, <1>3, <2>1 DEF ParseStart, parser_expects
        <3>2. QED
            BY <1>1, <2>1, <3>1 DEF ParseStart, parser_expects
    <2>2. CASE ParseMiddle
        <3>1. Consumed = 1
            BY <1>1, <1>3, <2>2 DEF ParseMiddle, parser_expects
        <3>2. next_chunk \in Chunks
            BY ConsumeTyped DEF TypeParts
        <3>3. next_chunk = Chunk(waiting, 2)
            BY <1>1, <3>1, <3>2 DEF Chunk, Chunks
        <3>4. QED
            BY <1>1, <2>2, <3>1, <3>3 DEF ParseMiddle, parser_expects
    <2>3. QED
        BY <2>1, <2>2
<1>5. Reading'
    BY <1>1, <1>2, <1>3, <1>4 DEF Reading, replyVars, textVars, sessionVars
<1>6. QED
    BY <1>1, <1>2, <1>5 DEF Clean, SessionInv, ConnectedTo, textVars, sessionVars

(* The checksum of a whole frame matches, and its command is answered.     *)
LEMMA CheckFacts ==
    ASSUME TypeParts, Clean, Consume, parser = "check"
    PROVE  /\ NothingUnread' /\ NoAnswer(tx) /\ Len(input_line) = 0
           /\ waiting \in Messages /\ waiting' = waiting /\ connected_esc' = connected_esc
           /\ next_chunk.of = waiting
           /\ \A frames : waiting \in frames => whole(frames)
<1>1. /\ Reading /\ waiting \in Messages
      /\ next_chunk.of = waiting /\ next_chunk.part = Consumed + 1
      /\ Consumed \in 0 .. 2
      /\ waiting' = waiting /\ connected_esc' = connected_esc
      /\ Consumed = 2 => NothingUnread'
    BY ConsumeFacts
<1>2. Consumed = 2 /\ ~is_line(waiting) /\ body = Chunk(waiting, 2)
    BY <1>1 DEF Reading, parser_expects
<1>3. QED
    BY <1>1, <1>2 DEF Reading, whole

LEMMA TakeMspKeeps ==
    ASSUME TypeParts, Clean, TakeMsp(armed)
    PROVE  Clean'
<1>1. /\ Consume /\ Reading /\ waiting \in Messages
      /\ next_chunk.of = waiting /\ next_chunk.part = Consumed + 1
    BY ConsumeFacts DEF TakeMsp
<1>2. ~fourway_active /\ ~for_line /\ waiting \notin FourWay
    BY <1>1 DEF TakeMsp, Reading
<1>3. is_msp(waiting) /\ ~is_line(waiting)
    <2>1. is_line(waiting) \/ is_msp(waiting)
        BY <1>1, <1>2, MessageFacts
    <2>2. ASSUME is_line(waiting) PROVE FALSE
        <3>1. parser = "idle" /\ ~is_msp(waiting)
            BY <1>1, <2>2, MessageFacts DEF Reading, parser_expects
        <3>2. QED
            BY <1>1, <1>2, <3>1 DEF for_line
    <2>3. QED
        BY <2>1, <2>2
<1>4. CASE ParseStart \/ ParseMiddle
    BY <1>1, <1>3, <1>4, ParseKeeps
<1>5. ASSUME parser = "check", parser' = "idle",
             IF whole({x \in Messages : is_msp(x)}) THEN process_msp(armed)
             ELSE UNCHANGED <<replyVars, fourway_active>>,
             UNCHANGED <<textVars, selected_esc, interface_mode, device_info, wrong_page>>
      PROVE  Clean'
    <2>1. /\ NothingUnread' /\ NoAnswer(tx) /\ Len(input_line) = 0 /\ waiting' = waiting
          /\ connected_esc' = connected_esc
          /\ \A frames : waiting \in frames => whole(frames)
        BY <1>1, <1>5, CheckFacts
    <2>2. process_msp(armed)
        BY <1>1, <1>3, <1>5, <2>1
    <2>3. PICK ok \in BOOLEAN : send_reply(waiting, ok)
        BY <1>1, <2>2 DEF process_msp
    <2>4. input_line' = <<>>
        BY <1>5, <2>1, EmptySeq DEF TypeParts, TextTypeOK, textVars
    <2>5. waiting.name # "init_flash"
        BY <1>1, <1>2, MessageFacts
    <2>6. Carries(tx', waiting, ok, lines_of(waiting, ok))
        BY <1>1, <2>1, <2>3, ReplyQueued DEF TypeParts
    <2>7. Answered'
        BY <1>1, <1>5, <2>1, <2>4, <2>5, <2>6, AnsweredNext DEF Listening
    <2>8. SessionInv' /\ ~torn' /\ ~wrong_page'
        BY <1>5, <2>1 DEF Clean, SessionInv, ConnectedTo, textVars
    <2>9. QED
        BY <2>7, <2>8 DEF Clean
<1>6. QED
    BY <1>4, <1>5 DEF TakeMsp

(* A command of a session leaves the ESC that the host believes connected  *)
(* selected, in its mode; only INIT_FLASH may select another, when the     *)
(* host believes nothing until it is answered.                             *)
LEMMA FourWayKeeps ==
    ASSUME SessionInv, ~wrong_page, waiting \in Messages, next_chunk.of = waiting,
           waiting' = waiting, connected_esc' = connected_esc, process_fourway
    PROVE  /\ SessionInv' /\ ~wrong_page'
           /\ \E ok \in BOOLEAN :
                 /\ send_reply(waiting, ok)
                 /\ waiting.name = "init_flash" /\ ok => ConnectedTo(waiting.esc)'
<1> USE DEF replied, boot_answers
<1>1. CASE waiting.name = "init_flash" /\ INIT_FLASH(waiting.esc)
    <2>1. PICK ok \in BOOLEAN : boot_connect(waiting.esc, ok) /\ send_reply(waiting, ok)
        BY <1>1 DEF INIT_FLASH
    <2>2. ok => ConnectedTo(waiting.esc)'
        BY <1>1, <2>1 DEF INIT_FLASH, boot_connect, mode_of_signature, ConnectedTo
    <2>3. connected_esc = 0
        BY <1>1 DEF SessionInv
    <2>4. SessionInv' /\ ~wrong_page'
        BY <1>1, <2>3 DEF INIT_FLASH, SessionInv
    <2>5. QED
        BY <2>1, <2>2, <2>4
<1>2. CASE waiting.name = "set_mode" /\ INTERFACE_SET_MODE(waiting.esc)
    BY <1>2 DEF INTERFACE_SET_MODE, SessionInv, ConnectedTo
<1>3. CASE waiting.name = "reset" /\ DEVICE_RESET(waiting.esc)
    BY <1>3 DEF DEVICE_RESET, SessionInv
<1>4. CASE waiting.name = "erase" /\ PAGE_ERASE
    <2>1. interface_mode = family(selected_esc)
        BY <1>4 DEF SessionInv, ConnectedTo
    <2>2. UNCHANGED <<fourway_active, selected_esc, interface_mode, device_info>>
        BY <1>4 DEF PAGE_ERASE
    <2>a. ASSUME boot_erase_page, NEW ok \in BOOLEAN, replied(ok)
          PROVE  ~wrong_page' /\ \E said \in BOOLEAN : send_reply(waiting, said)
        <3>1. ~wrong_page'
            BY <2>1, <2>a DEF boot_erase_page
        <3>2. send_reply(waiting, ok)
            BY <2>a
        <3>3. QED
            BY <3>1, <3>2
    <2>b. ASSUME replied(FALSE), UNCHANGED wrong_page
          PROVE  ~wrong_page' /\ \E said \in BOOLEAN : send_reply(waiting, said)
        <3>1. send_reply(waiting, FALSE)
            BY <2>b
        <3>2. QED
            BY <2>b, <3>1
    <2>5. ~wrong_page' /\ \E ok \in BOOLEAN : send_reply(waiting, ok)
        BY <1>4, <2>a, <2>b DEF PAGE_ERASE
    <2>3. SessionInv'
        BY <2>2 DEF SessionInv, ConnectedTo
    <2>4. QED
        BY <1>4, <2>3, <2>5
<1>5. CASE waiting.name = "access" /\ ACCESS
    <2>1. \E ok \in BOOLEAN : send_reply(waiting, ok)
        BY <1>5 DEF ACCESS, boot_access
    <2>2. QED
        BY <1>5, <2>1 DEF ACCESS, SessionInv, ConnectedTo, sessionVars
<1>6. CASE waiting.name = "test_alive" /\ TEST_ALIVE
    BY <1>6 DEF TEST_ALIVE, SessionInv, ConnectedTo
<1>7. CASE waiting.name = "exit" /\ INTERFACE_EXIT
    BY <1>7 DEF INTERFACE_EXIT, SessionInv, ConnectedTo
<1>8. QED
    BY <1>1, <1>2, <1>3, <1>4, <1>5, <1>6, <1>7 DEF process_fourway

LEMMA TakeFourWayKeeps ==
    ASSUME TypeParts, Clean, TakeFourWay
    PROVE  Clean'
<1>1. /\ Consume /\ Reading /\ waiting \in Messages
      /\ next_chunk.of = waiting /\ next_chunk.part = Consumed + 1
      /\ Consumed \in 0 .. 2
    BY ConsumeFacts DEF TakeFourWay
<1>2. waiting \in FourWay /\ ~is_line(waiting)
    BY <1>1, MessageFacts DEF TakeFourWay, Reading
<1>3. ASSUME parser = "idle", next_chunk.part # 1 PROVE FALSE
    BY <1>1, <1>2, <1>3 DEF Reading, parser_expects
<1>4. CASE ParseStart \/ ParseMiddle
    BY <1>1, <1>2, <1>4, ParseKeeps
<1>5. ASSUME parser = "check", parser' = "idle", UNCHANGED textVars,
             IF whole(FourWay) THEN process_fourway
             ELSE send_reply(body.of, FALSE) /\ UNCHANGED sessionVars
      PROVE  Clean'
    <2>1. /\ NothingUnread' /\ NoAnswer(tx) /\ Len(input_line) = 0 /\ waiting' = waiting
          /\ connected_esc' = connected_esc
          /\ \A frames : waiting \in frames => whole(frames)
        BY <1>1, <1>5, CheckFacts
    <2>2. process_fourway
        BY <1>2, <1>5, <2>1
    <2>3. SessionInv' /\ ~wrong_page'
        BY <1>1, <2>1, <2>2, FourWayKeeps DEF Clean
    <2>4. PICK ok \in BOOLEAN : /\ send_reply(waiting, ok)
                                /\ waiting.name = "init_flash" /\ ok => ConnectedTo(waiting.esc)'
        BY <1>1, <2>1, <2>2, FourWayKeeps DEF Clean
    <2>5. Carries(tx', waiting, ok, lines_of(waiting, ok))
        BY <1>1, <2>1, <2>4, ReplyQueued DEF TypeParts
    <2>6. input_line' = <<>>
        BY <1>5, <2>1, EmptySeq DEF TypeParts, TextTypeOK, textVars
    <2>7. Answered'
        BY <1>1, <1>5, <2>1, <2>4, <2>5, <2>6, AnsweredNext DEF Listening
    <2>8. QED
        BY <1>5, <2>3, <2>7 DEF Clean, textVars
<1>6. QED
    BY <1>1, <1>2, <1>3, <1>4, <1>5 DEF TakeFourWay
-----------------------------------------------------------------------------
LEMMA HostInitKeeps == Init => TypeParts /\ NoHost /\ Clean
<1> SUFFICES ASSUME Init PROVE TypeParts /\ NoHost /\ Clean
    OBVIOUS
<1> USE DEF Init, HostInit
<1>1. platform \in {"stm32", "at32", "none"}
    OBVIOUS
<1>2. <<>> \in Seq(Chunks) /\ <<>> \in Seq(Output) /\ Len(<<>>) = 0
    BY EmptySeq
<1>3. StreamTypeOK
    BY <1>1, <1>2, HostSizes DEF StreamTypeOK
<1>4. ReplyTypeOK /\ TextTypeOK
    <2>1. /\ tx = [ring |-> <<>>, packet |-> NOTHING_SENT, busy |-> FALSE]
          /\ input_line = <<>> /\ torn = FALSE /\ client_active = FALSE /\ crowded_out = FALSE
        OBVIOUS
    <2> HIDE DEF Init, HostInit
    <2>2. torn \in BOOLEAN /\ client_active \in BOOLEAN /\ crowded_out \in BOOLEAN
        BY <2>1, Zenon
    <2>3. TxOK(tx)
        BY <1>2, <2>1, HostSizes DEF TxOK
    <2>4. input_line \in Seq(Chunks) /\ Len(input_line) < LINE_LENGTH
        BY <1>2, <2>1, HostSizes
    <2>5. QED
        BY <2>2, <2>3, <2>4 DEF ReplyTypeOK, TextTypeOK
<1>5. ParserTypeOK /\ SessionTypeOK
    BY HostSizes DEF ParserTypeOK, SessionTypeOK
<1>6. NoHost
    BY DEF NoHost
<1>7. Clean
    <2>1. Len(tx.ring) = 0 /\ tx.packet = NOTHING_SENT /\ ~tx.busy
        BY <1>2
    <2>2. NoAnswer(tx)
        BY <2>1, NoAnswerMeans
    <2>3. QED
        BY <2>2 DEF Clean, Rest, NothingUnread, Listening, SessionInv, NONE
<1>8. QED
    BY <1>3, <1>4, <1>5, <1>6, <1>7 DEF TypeParts

LEMMA NoHostKept ==
    ASSUME NoHost, HostNext(armed)
    PROVE  NoHost'
<1>1. CASE HostSends \/ HostGivesUp \/ UsbReset \/ UsbConfigured
    BY <1>1 DEF HostSends, HostGivesUp, stops_waiting, UsbReset, UsbConfigured, NoHost, wireVars, answerVars
<1>2. CASE UsbDriver
    BY <1>2 DEF UsbDriver, UsbReceive, UsbPoll, UsbSent, stops_waiting, NoHost, wireVars, answerVars
<1>3. CASE config_protocol_update(armed)
    BY <1>3 DEF config_protocol_update, TakeLine, TakeMsp, TakeFourWay, Consume, NoHost, answerVars
<1>4. CASE ClientGone \/ config_protocol_send_telemetry
    BY <1>4 DEF ClientGone, config_protocol_send_telemetry, NoHost, wireVars, answerVars
<1>5. QED
    BY <1>1, <1>2, <1>3, <1>4 DEF HostNext

(* Damage is never undone.                                                 *)
LEMMA DamageStays ==
    ASSUME HostNext(armed), damage' = "none"
    PROVE  damage = "none"
<1>1. CASE HostSends
    BY <1>1 DEF HostSends, damaged_by
<1>2. CASE HostGivesUp \/ UsbReset \/ UsbConfigured
    BY <1>2 DEF HostGivesUp, UsbReset, UsbConfigured, damaged_by, wireVars
<1>3. CASE UsbDriver
    BY <1>3 DEF UsbDriver, UsbReceive, UsbPoll, UsbSent, wireVars
<1>4. CASE config_protocol_update(armed)
    BY <1>4 DEF config_protocol_update, TakeLine, TakeMsp, TakeFourWay, Consume
<1>5. CASE ClientGone \/ config_protocol_send_telemetry
    BY <1>5 DEF ClientGone, config_protocol_send_telemetry, wireVars
<1>6. QED
    BY <1>1, <1>2, <1>3, <1>4, <1>5 DEF HostNext

LEMMA HostStepKeeps == HostInv /\ [Next]_vars => HostInv'
<1> SUFFICES ASSUME HostInv, [Next]_vars PROVE HostInv'
    OBVIOUS
<1>1. TypeParts /\ NoHost /\ (damage = "none" => Clean)
    BY HostTypeParts, CleanIsLockStep DEF HostInv
<1>2. CASE UNCHANGED hostVars
    <2>1. TypeParts' /\ NoHost'
        BY <1>1, <1>2 DEF hostVars, wireVars, answerVars, replyVars, TxOK, textVars, sessionVars, TypeParts,
            StreamTypeOK, ReplyTypeOK, TextTypeOK, ParserTypeOK, SessionTypeOK, NoHost
    <2>2. damage' = "none" => Clean'
        BY <1>1, <1>2, CleanKept DEF hostVars, wireVars, answerVars, replyVars, textVars
    <2>3. QED
        BY <2>1, <2>2, HostTypeParts, CleanIsLockStep DEF HostInv
<1>3. CASE HostNext(armed)
    <2>1. TypeParts' /\ NoHost'
        BY <1>1, <1>3, HostNextTyped, NoHostKept
    <2>2. ASSUME damage' = "none" PROVE Clean'
        <3>1. damage = "none" /\ Clean
            BY <1>1, <1>3, <2>2, DamageStays
        <3>2. QED
            BY <1>1, <1>3, <2>2, <3>1, HostSendsKeeps, CableKeeps, ReceiveKeeps, PollKeeps, TelemetryKeeps,
               SentKeeps, TakeLineKeeps, TakeMspKeeps, TakeFourWayKeeps
               DEF HostNext, UsbDriver, config_protocol_update
    <2>3. QED
        BY <2>1, <2>2, HostTypeParts, CleanIsLockStep DEF HostInv
<1>4. QED
    BY <1>2, <1>3 DEF Next, Fly, Video, Host, vars

(* Until the stream is damaged, host and flight controller work in         *)
(* lock-step: what is under way is the rest of one message or what is left *)
(* of the answer to it, in order and among telemetry, and the ESC that the *)
(* host believes connected is.                                             *)
THEOREM HostInvariance == Spec => []HostInv
<1>1. Init => HostInv
    BY HostInitKeeps, HostTypeParts, CleanIsLockStep DEF HostInv
<1>2. HostInv /\ [Next]_vars => HostInv'
    BY HostStepKeeps
<1>3. QED
    BY <1>1, <1>2, PTL DEF Spec

(* A command line is processed as the host wrote it, whatever the sizes of *)
(* the ring and of the line buffer, unless one of the four damages.        *)
THEOREM LineSafety == Spec => []LinesAreWhole
<1>1. HostInv => LinesAreWhole
    BY DEF HostInv, LockStep, LinesAreWhole
<1>2. QED
    BY <1>1, HostInvariance, PTL

(* A page is erased at the page size of the ESC that is selected.          *)
THEOREM EraseSafety == Spec => []ErasesMatchDevice
<1>1. HostInv => ErasesMatchDevice
    BY DEF HostInv, LockStep, ErasesMatchDevice
<1>2. QED
    BY <1>1, HostInvariance, PTL

(* Every queue of both links stays in its buffer, every counter of         *)
(* attempts below its limit.                                               *)
THEOREM LinkTypes == Spec => []TypeOK
<1> DEFINE ArmedOK == armed \in BOOLEAN
<1>1. Init => ArmedOK
    BY DEF Init
<1>2. ArmedOK /\ [Next]_vars => ArmedOK'
    BY DEF Next, Fly, Video, Host, vars
<1>3. ArmedOK /\ VideoInv /\ HostInv => TypeOK
    BY DEF VideoInv, HostInv, TypeOK
<1> HIDE DEF ArmedOK
<1>4. QED
    BY <1>1, <1>2, <1>3, VideoInvariance, HostInvariance, PTL DEF Spec
=============================================================================
