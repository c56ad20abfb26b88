------------------------------- MODULE VideoLink ------------------------------
(***************************************************************************)
(* drivers/vtx/vtx_smartaudio.c, drivers/vtx/vtx_tramp.c and               *)
(* drivers/osd/msp_displayport.c with hdzero_msp.h: the three ways to bring*)
(* a video transmitter to the channel and power of the settings.  Which    *)
(* one runs is a setting that takes a restart to change.  SmartAudio and   *)
(* Tramp ask, compare, command and ask again over a half-duplex line that  *)
(* loses and delays; HDZero asks by itself, and is pushed the settings.    *)
(*                                                                         *)
(* Data abstraction.  A channel is 1 or 2, 3 one that the region forbids;  *)
(* a power is 1 or 2, 3 one that the transmitter does not have.  A         *)
(* deadline may pass at any moment after it is set.  Packets to the HDZero *)
(* transmitter queue whole or not at all.                                  *)
(***************************************************************************)
EXTENDS Integers, Sequences

CONSTANTS
    MAX_ATTEMPTS,   \* MAX_ATTEMPTS of SmartAudio, MAX_RETRIES of Tramp
    TX_PACKETS      \* packets that fit in tx_buffer

VARIABLES
    vtx_protocol,   \* "SMARTAUDIO", "TRAMP", "HDZERO_MSP" or "OFF"
    rf,             \* the settings; for the first two, those of the last init
    state, command, attempts, changes,
    request,        \* the frame on the line to the transmitter, or NOTHING
    reply,          \* the one coming back, or NOTHING
    vtx,            \* the transmitter's own channel and power
    config, configured, settings_sent, linked,
    req_recent,     \* the last HDZero request is less than 2 s old
    push_due,       \* the last push is 500 ms old
    rx_frame,       \* the parser of requests is inside a frame
    tx_queue, release_sent, osd_enabled,
    on_air          \* history: the last configuration packet put on the wire

lineVars == <<request, reply, vtx>>
driverVars == <<state, command, attempts, changes>>
peerVars == <<config, configured, settings_sent, linked, req_recent, push_due, rx_frame>>
osdVars == <<tx_queue, release_sent, on_air>>
videoVars == <<vtx_protocol, rf, osd_enabled, lineVars, driverVars, peerVars, osdVars>>

-----------------------------------------------------------------------------
Rf == [channel : 1 .. 3, power : 1 .. 3]
RfChoices == {[channel |-> 1, power |-> 1], [channel |-> 2, power |-> 2],
              [channel |-> 1, power |-> 3], [channel |-> 3, power |-> 1]}
NOTHING == [kind |-> "nothing", channel |-> 1, power |-> 1]
Frame == [kind : {"nothing", "query", "limits", "channel", "power"},
          channel : 1 .. 3, power : 1 .. 3]
NO_CONFIG == [channel |-> 0, power |-> 0]
Packet == [kind : {"config", "other"}, rf : Rf \cup {NO_CONFIG}]
OTHER_PACKET == [kind |-> "other", rf |-> NO_CONFIG]

Busy == {"START_DELAY", "TRANSMITTING", "WAIT_RESPONSE", "QUERY_DELAY",
         "WAIT_LIMITS", "WAIT_STATUS"}

VideoTypeOK ==
    /\ vtx_protocol \in {"SMARTAUDIO", "TRAMP", "HDZERO_MSP", "OFF"} /\ rf \in Rf
    /\ state \in Busy \cup {"IDLE", "DONE", "FAILED"}
    /\ command \in {"query", "channel", "power"}
    /\ attempts \in 0 .. MAX_ATTEMPTS /\ changes \in 0 .. MAX_ATTEMPTS + 1
    /\ state \in Busy => attempts < MAX_ATTEMPTS
    /\ request \in Frame /\ reply \in Frame
    /\ vtx \in [channel : 1 .. 2, power : 1 .. 2]
    /\ config \in Rf \cup {NO_CONFIG} /\ on_air \in Rf \cup {NO_CONFIG}
    /\ {configured, settings_sent, linked, req_recent, push_due, rx_frame,
        release_sent, osd_enabled} \subseteq BOOLEAN
    /\ tx_queue \in Seq(Packet) /\ Len(tx_queue) <= TX_PACKETS

-----------------------------------------------------------------------------
(* The line and the transmitter.                                           *)

frame(kind) == [kind |-> kind, channel |-> rf.channel, power |-> rf.power]

(* A command that it can obey is; only Tramp's commands have no answer.    *)
VtxAnswers ==
    /\ request # NOTHING /\ reply = NOTHING
    /\ request' = NOTHING
    /\ vtx' = CASE request.kind = "channel" -> [vtx EXCEPT !.channel = request.channel]
                [] request.kind = "power" /\ request.power # 3 -> [vtx EXCEPT !.power = request.power]
                [] OTHER -> vtx
    /\ reply' = IF vtx_protocol = "TRAMP" /\ request.kind \in {"channel", "power"}
                THEN NOTHING
                ELSE [kind |-> request.kind, channel |-> vtx'.channel, power |-> vtx'.power]

LineLoses ==
    /\ \/ request # NOTHING /\ request' = NOTHING /\ UNCHANGED reply
       \/ reply # NOTHING /\ reply' = NOTHING /\ UNCHANGED request
    /\ UNCHANGED vtx

Line ==
    /\ VtxAnswers \/ LineLoses
    /\ UNCHANGED <<vtx_protocol, rf, osd_enabled, driverVars, peerVars, osdVars>>

-----------------------------------------------------------------------------
(* vtx_tramp_init, which is vtx_smartaudio_init when that is selected.     *)

settings_valid(s) == s.channel # 3

(* What was on the line is over when the start delay is.                   *)
VtxInit(s) ==
    /\ attempts' = 0 /\ changes' = 0 /\ command' = "query"
    /\ request' = NOTHING /\ reply' = NOTHING
    /\ IF vtx_protocol \notin {"SMARTAUDIO", "TRAMP"} THEN state' = "IDLE"
       ELSE \/ settings_valid(s) /\ state' = "START_DELAY"
            \/ state' = "FAILED"            \* forbidden, or no UART

OneMore(n) == n > MAX_ATTEMPTS

exhausted(n) == n >= MAX_ATTEMPTS

Keep == UNCHANGED <<vtx_protocol, rf, osd_enabled, vtx, peerVars, osdVars>>

VtxFail == state' = "FAILED" /\ UNCHANGED <<command, changes, request>>

-----------------------------------------------------------------------------
(* vtx_smartaudio_update.                                                  *)

SmartAudio(armed) == vtx_protocol = "SMARTAUDIO" /\ ~armed /\ Keep

send_command(code) ==
    \/ state' = "TRANSMITTING" /\ command' = code /\ UNCHANGED request
    \/ state' = "FAILED" /\ UNCHANGED <<command, request>>

(* "Do not start or continue a configuration transaction in flight."       *)
SaArmed(armed) ==
    /\ vtx_protocol = "SMARTAUDIO" /\ armed /\ state \in Busy
    /\ state' = "START_DELAY" /\ reply' = NOTHING
    /\ UNCHANGED <<command, attempts, changes, request>> /\ Keep

SaQuery(armed) ==
    /\ SmartAudio(armed) /\ state \in {"START_DELAY", "QUERY_DELAY"}
    /\ send_command("query")
    /\ reply' = NOTHING                     \* flushed
    /\ UNCHANGED <<attempts, changes>>

SaSent(armed) ==
    /\ SmartAudio(armed) /\ state = "TRANSMITTING"
    /\ \/ state' = "WAIT_RESPONSE" /\ request' = frame(command)
          /\ UNCHANGED <<command, changes>>
       \/ VtxFail                           \* UART error or time-out
    /\ UNCHANGED <<attempts, reply>>

schedule_query == state' = "QUERY_DELAY" /\ UNCHANGED <<command, request>>

(* Bounded, since nothing says that the transmitter obeys.                 *)
change(code) ==
    /\ changes' = changes + 1
    /\ IF changes' > MAX_ATTEMPTS THEN state' = "FAILED" /\ UNCHANGED <<command, request>>
                                  ELSE send_command(code)

process_settings ==
    /\ attempts' = 0
    /\ IF reply.channel # rf.channel THEN change("channel")
       ELSE IF rf.power = 3 THEN VtxFail    \* UNSUPPORTED_POWER
       ELSE IF reply.power # rf.power THEN change("power")
       ELSE state' = "DONE" /\ UNCHANGED <<command, changes, request>>

AcceptsAck ==
    /\ reply.kind = command /\ state' = "DONE"
    /\ UNCHANGED <<command, request, attempts, changes>>

acknowledged ==
    /\ reply.kind = command /\ schedule_query
    /\ UNCHANGED <<attempts, changes>>

(* The answer to another command than the last one is dropped.             *)
SaReceive(armed) ==
    /\ SmartAudio(armed) /\ state = "WAIT_RESPONSE" /\ reply # NOTHING
    /\ reply' = NOTHING
    /\ \/ command = "query" /\ reply.kind = "query" /\ process_settings
       \/ command # "query" /\ acknowledged
       \/ reply.kind # command /\ UNCHANGED <<driverVars, request>>

ForgetsAttempts == attempts

attempts_after_timeout == attempts + 1

SaTimeout(armed) ==
    /\ SmartAudio(armed) /\ state = "WAIT_RESPONSE"
    /\ attempts' = attempts_after_timeout
    /\ IF exhausted(attempts') THEN VtxFail ELSE schedule_query /\ UNCHANGED changes
    /\ UNCHANGED reply

-----------------------------------------------------------------------------
(* vtx_tramp_update.                                                       *)

Tramp(armed) ==
    /\ vtx_protocol = "TRAMP" /\ ~armed /\ Keep
    /\ UNCHANGED <<command, changes>>

begin_query(kind, waiting) ==
    \/ state' = waiting /\ request' = frame(kind)
    \/ state' = "FAILED" /\ UNCHANGED request

TrQuery(armed) ==
    /\ Tramp(armed)
    /\ \/ state = "START_DELAY" /\ begin_query("limits", "WAIT_LIMITS")
       \/ state = "QUERY_DELAY" /\ begin_query("query", "WAIT_STATUS")
    /\ reply' = NOTHING
    /\ UNCHANGED attempts

expected == IF state = "WAIT_LIMITS" THEN "limits" ELSE "query"

(* No answer in time, or one that is not valid for this question.          *)
TrRetry(armed) ==
    /\ Tramp(armed) /\ state \in {"WAIT_LIMITS", "WAIT_STATUS"}
    /\ attempts' = attempts + 1
    /\ IF exhausted(attempts') THEN state' = "FAILED" /\ UNCHANGED request
                                    ELSE begin_query(expected, state)
    /\ reply' = NOTHING

send_frame(kind) ==
    \/ state' = "QUERY_DELAY" /\ request' = frame(kind)
    \/ state' = "FAILED" /\ UNCHANGED request

(* Nothing bounds how often a transmitter that does not obey is told.      *)
TrReceive(armed) ==
    /\ Tramp(armed) /\ state \in {"WAIT_LIMITS", "WAIT_STATUS"}
    /\ reply.kind = expected
    /\ reply' = NOTHING /\ attempts' = 0
    /\ \/ state = "WAIT_LIMITS" /\ begin_query("query", "WAIT_STATUS")
       \/ state' = "FAILED" /\ UNCHANGED request    \* no limits, or race lock
       \/ /\ state = "WAIT_STATUS"
          /\ IF reply.channel # rf.channel THEN send_frame("channel")
             ELSE IF reply.power # rf.power THEN send_frame("power")
             ELSE state' = "DONE" /\ UNCHANGED request

VtxUpdate(armed) ==
    \/ SaQuery(armed) \/ SaSent(armed) \/ SaReceive(armed) \/ SaTimeout(armed)
    \/ TrQuery(armed) \/ TrRetry(armed) \/ TrReceive(armed)

-----------------------------------------------------------------------------
(* msp_displayport_process: hdzero_configure, then what was received, then *)
(* the push, then one byte to the wire.  A call in which several of these  *)
(* happen is the same as several calls, since configuring twice is.        *)

frozen(armed) == armed /\ configured

HdConfigure(armed) ==
    /\ config' = IF frozen(armed) THEN config ELSE rf
    /\ configured' = (config' # NO_CONFIG /\ config'.channel # 3 /\ config'.power # 3)

StillSent == settings_sent

sent_after_configure == settings_sent /\ config' = config

fits == Len(tx_queue) < TX_PACKETS

enqueue(packet) == IF fits THEN tx_queue' = Append(tx_queue, packet) ELSE UNCHANGED tx_queue

enqueue_config ==
    /\ enqueue([kind |-> "config", rf |-> config'])
    /\ settings_sent' = (sent_after_configure \/ fits)
    /\ push_due' = IF fits THEN FALSE ELSE push_due

Process(armed) ==
    /\ vtx_protocol = "HDZERO_MSP"
    /\ HdConfigure(armed)
    /\ UNCHANGED <<vtx_protocol, rf, osd_enabled, lineVars, driverVars, release_sent>>

(* A frame begins; it ends in a wrong checksum, in a pause of 100 ms, in a *)
(* line error or, when it is too long, in being skipped.                   *)
HdReceive(armed) ==
    /\ Process(armed)
    /\ rx_frame' = ~rx_frame
    /\ settings_sent' = sent_after_configure
    /\ UNCHANGED <<linked, req_recent, push_due, tx_queue, on_air>>

(* Or it is a request: for the settings, or for another thing it answers.  *)
HdRequest(armed) ==
    /\ Process(armed)
    /\ rx_frame /\ rx_frame' = FALSE
    /\ linked' = TRUE /\ req_recent' = TRUE
    /\ \/ configured' /\ enqueue_config
       \/ enqueue(OTHER_PACKET) /\ settings_sent' = sent_after_configure
          /\ UNCHANGED push_due
    /\ UNCHANGED on_air

(* Refused: the transmitter's own tables and writes, or the settings while *)
(* they are not valid.                                                     *)
HdUnsupported(armed) ==
    /\ Process(armed)
    /\ rx_frame /\ rx_frame' = FALSE
    /\ enqueue(OTHER_PACKET)
    /\ settings_sent' = sent_after_configure
    /\ UNCHANGED <<linked, req_recent, push_due, on_air>>

HdPush(armed) ==
    /\ Process(armed)
    /\ configured' /\ linked /\ req_recent /\ push_due
    /\ enqueue_config
    /\ UNCHANGED <<linked, req_recent, rx_frame, on_air>>

HdTransmit(armed) ==
    /\ Process(armed)
    /\ tx_queue # <<>> /\ tx_queue' = Tail(tx_queue)
    /\ on_air' = IF Head(tx_queue).kind = "config" THEN Head(tx_queue).rf ELSE on_air
    /\ settings_sent' = sent_after_configure
    /\ UNCHANGED <<linked, req_recent, push_due, rx_frame>>

HdProcess(armed) ==
    HdReceive(armed) \/ HdRequest(armed) \/ HdUnsupported(armed) \/ HdPush(armed)
    \/ HdTransmit(armed)

(* msp_displayport_update: a heartbeat when one is due, then the layout or *)
(* the warning about the ARM switch, or once the release of the screen.    *)
(* What does not fit is dropped, the release too.                          *)
enqueue_some(count) ==
    tx_queue' = SubSeq(tx_queue \o [i \in 1 .. count |-> OTHER_PACKET], 1,
                       IF Len(tx_queue) + count < TX_PACKETS THEN Len(tx_queue) + count
                                                             ELSE TX_PACKETS)

(* A clear, the strings that have text and are enabled, and a draw.  The   *)
(* warning about the ARM switch has three strings.                         *)
enqueue_string == 0 .. 7
enqueue_layout(drawn) == IF drawn THEN {2 + string : string \in enqueue_string} ELSE {0}

HdScreen ==
    /\ vtx_protocol = "HDZERO_MSP"
    /\ \E boot_arm_blocked \in BOOLEAN, heartbeat \in {0, 1} :
          LET drawn == boot_arm_blocked \/ osd_enabled
              release == IF drawn \/ release_sent THEN 0 ELSE 1
          IN  /\ \E packets \in enqueue_layout(drawn) :
                    enqueue_some(heartbeat + packets + release)
              /\ release_sent' = ~drawn
    /\ UNCHANGED <<vtx_protocol, rf, osd_enabled, on_air, lineVars, driverVars, peerVars>>

(* Time passes for the HDZero link.                                        *)
HdElapse ==
    /\ vtx_protocol = "HDZERO_MSP"
    /\ req_recent' \in {req_recent, FALSE} /\ push_due' = TRUE
    /\ UNCHANGED <<vtx_protocol, rf, osd_enabled, config, configured, settings_sent, linked,
                   rx_frame, lineVars, driverVars, osdVars>>

-----------------------------------------------------------------------------
(* The settings change: from the tuning menu, which starts SmartAudio or   *)
(* Tramp again, or from the host, which HDZero alone follows.              *)
VtxSettings(armed) ==
    /\ ~armed /\ vtx_protocol # "OFF"
    /\ rf' \in RfChoices \ {rf} /\ osd_enabled' \in (IF vtx_protocol = "HDZERO_MSP" THEN BOOLEAN ELSE {osd_enabled})
    /\ VtxInit(rf')
    /\ UNCHANGED <<vtx_protocol, vtx, peerVars, osdVars>>

VideoInit ==
    /\ rf \in RfChoices /\ osd_enabled = TRUE
    /\ vtx \in [channel : 1 .. 2, power : 1 .. 2]
    /\ vtx_protocol = "OFF" => rf = vtx /\ vtx.channel = 1
    /\ attempts = 0 /\ changes = 0 /\ command = "query"
    /\ request = NOTHING /\ reply = NOTHING
    /\ state = IF vtx_protocol \notin {"SMARTAUDIO", "TRAMP"} THEN "IDLE"
               ELSE IF settings_valid(rf) THEN "START_DELAY" ELSE "FAILED"
    /\ config = IF vtx_protocol = "HDZERO_MSP" THEN rf ELSE NO_CONFIG
    /\ configured = (vtx_protocol = "HDZERO_MSP" /\ rf.channel # 3 /\ rf.power # 3)
    /\ settings_sent = FALSE /\ linked = FALSE /\ req_recent = FALSE
    /\ push_due = TRUE /\ rx_frame = FALSE
    /\ tx_queue = IF vtx_protocol = "HDZERO_MSP"
                  THEN <<OTHER_PACKET, OTHER_PACKET>>
                  ELSE <<>>
    /\ release_sent = FALSE /\ on_air = NO_CONFIG

VideoNext(armed) ==
    \/ Line \/ VtxUpdate(armed) \/ SaArmed(armed)
    \/ HdProcess(armed) \/ HdScreen \/ HdElapse \/ VtxSettings(armed)
=============================================================================
