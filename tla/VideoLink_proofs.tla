--------------------------- MODULE VideoLink_proofs ---------------------------
(***************************************************************************)
(* The video half of Links, for every number of attempts and every size of *)
(* the transmit buffer: its types, that "applied" is true, and that        *)
(* "settings sent" is.                                                     *)
(***************************************************************************)
EXTENDS Links, SequenceTheorems, TLAPS

(* A frame on the line carries the settings of now, an answer on it what   *)
(* the transmitter is set to now; a driver at work may still command.      *)
LineInv ==
    /\ request # NOTHING => request.channel = rf.channel /\ request.power = rf.power
                            /\ rf.channel # 3
    /\ reply # NOTHING => reply.channel = vtx.channel /\ reply.power = vtx.power
    /\ state \in Busy => rf.channel # 3 /\ changes <= MAX_ATTEMPTS

VideoInv == VideoTypeOK /\ LineInv /\ AppliedIsTrue /\ SentMeansQueued

-----------------------------------------------------------------------------
(* The parts of the type invariant.                                        *)

DriverTypeOK ==
    /\ vtx_protocol \in {"SMARTAUDIO", "TRAMP", "HDZERO_MSP", "OFF"} /\ rf \in Rf
    /\ state \in Busy \cup {"IDLE", "DONE", "FAILED"}
    /\ command \in {"query", "channel", "power"}
    /\ attempts \in 0 .. MAX_ATTEMPTS /\ changes \in 0 .. MAX_ATTEMPTS + 1
    /\ state \in Busy => attempts < MAX_ATTEMPTS

LineTypeOK ==
    /\ request \in Frame /\ reply \in Frame
    /\ vtx \in [channel : 1 .. 2, power : 1 .. 2]

PeerTypeOK ==
    /\ config \in Rf \cup {NO_CONFIG} /\ on_air \in Rf \cup {NO_CONFIG}
    /\ configured \in BOOLEAN /\ settings_sent \in BOOLEAN /\ linked \in BOOLEAN
    /\ req_recent \in BOOLEAN /\ push_due \in BOOLEAN /\ rx_frame \in BOOLEAN
    /\ release_sent \in BOOLEAN /\ osd_enabled \in BOOLEAN

QueueTypeOK == tx_queue \in Seq(Packet) /\ Len(tx_queue) <= TX_PACKETS

LEMMA VideoTypeParts ==
    /\ VideoTypeOK <=> DriverTypeOK /\ LineTypeOK /\ PeerTypeOK /\ QueueTypeOK
    /\ VideoTypeOK' <=> (DriverTypeOK /\ LineTypeOK /\ PeerTypeOK /\ QueueTypeOK)'
BY DEF VideoTypeOK, DriverTypeOK, LineTypeOK, PeerTypeOK, QueueTypeOK

LEMMA VideoSizes ==
    /\ MAX_ATTEMPTS \in Nat /\ MAX_ATTEMPTS > 0
    /\ TX_PACKETS \in Nat /\ TX_PACKETS > 1
BY LinkSizes

LEMMA ValuesTyped ==
    /\ RfChoices \subseteq Rf
    /\ NOTHING \in Frame /\ OTHER_PACKET \in Packet /\ OTHER_PACKET.kind # "config"
    /\ \A c \in Rf \cup {NO_CONFIG} : /\ [kind |-> "config", rf |-> c] \in Packet
                                      /\ [kind |-> "config", rf |-> c].rf = c
BY DEF RfChoices, Rf, NOTHING, Frame, OTHER_PACKET, Packet, NO_CONFIG

(* What the drivers are about, and what the HDZero peer is about: no step  *)
(* is about both.                                                          *)
DriverInv == DriverTypeOK /\ LineTypeOK /\ LineInv /\ AppliedIsTrue
PeerInv == PeerTypeOK /\ QueueTypeOK /\ SentMeansQueued

LEMMA VideoInvParts ==
    /\ VideoInv <=> DriverInv /\ PeerInv
    /\ VideoInv' <=> DriverInv' /\ PeerInv'
BY VideoTypeParts DEF VideoInv, DriverInv, PeerInv

LEMMA DriverKept ==
    ASSUME DriverInv, UNCHANGED <<vtx_protocol, rf, lineVars, driverVars>>
    PROVE  DriverInv'
BY DEF DriverInv, DriverTypeOK, LineTypeOK, LineInv, AppliedIsTrue, lineVars, driverVars

LEMMA PeerKept ==
    ASSUME PeerInv, osd_enabled' \in BOOLEAN, UNCHANGED <<peerVars, osdVars>>
    PROVE  PeerInv'
BY DEF PeerInv, PeerTypeOK, QueueTypeOK, SentMeansQueued, NoConfigIn, peerVars, osdVars
-----------------------------------------------------------------------------
(* SmartAudio, Tramp and the transmitter they talk to.                     *)

(* What is sent is the settings, and they are not the forbidden ones.      *)
LEMMA FrameTyped ==
    ASSUME DriverTypeOK, NEW kind \in {"query", "limits", "channel", "power"}
    PROVE  /\ frame(kind) \in Frame
           /\ frame(kind).channel = rf.channel /\ frame(kind).power = rf.power
BY DEF DriverTypeOK, Rf, frame, Frame

(* Obeying a late command brings the transmitter to the settings, and no   *)
(* answer is put over one that the driver has not read.                    *)
LEMMA LineKeeps ==
    ASSUME DriverInv, Line
    PROVE  DriverInv'
<1> USE DEF DriverInv
<1>1. DriverTypeOK'
    BY DEF Line, DriverTypeOK, driverVars
<1>2. CASE VtxAnswers
    <2>1. /\ request # NOTHING /\ request' = NOTHING /\ reply = NOTHING
          /\ request.channel = rf.channel /\ request.power = rf.power /\ rf.channel # 3
        BY <1>2 DEF VtxAnswers, LineInv
    <2>2. /\ request.channel \in 1 .. 2 /\ request.power \in 1 .. 3
          /\ request.kind \in {"nothing", "query", "limits", "channel", "power"}
        BY <2>1 DEF LineTypeOK, Frame, DriverTypeOK, Rf
    <2>3. /\ vtx' \in [channel : 1 .. 2, power : 1 .. 2]
          /\ vtx'.channel \in {vtx.channel, rf.channel} /\ vtx'.power \in {vtx.power, rf.power}
        <3>1. CASE request.kind = "channel"
            BY <1>2, <2>1, <2>2, <3>1 DEF VtxAnswers, LineTypeOK
        <3>2. CASE request.kind = "power" /\ request.power # 3
            BY <1>2, <2>1, <2>2, <3>2 DEF VtxAnswers, LineTypeOK
        <3>3. CASE request.kind # "channel" /\ ~(request.kind = "power" /\ request.power # 3)
            BY <1>2, <3>3 DEF VtxAnswers, LineTypeOK
        <3>4. QED
            BY <3>1, <3>2, <3>3
    <2>4. \/ reply' = NOTHING
          \/ reply' = [kind |-> request.kind, channel |-> vtx'.channel, power |-> vtx'.power]
        BY <1>2 DEF VtxAnswers
    <2>5. LineTypeOK'
        BY <2>1, <2>2, <2>3, <2>4, ValuesTyped DEF LineTypeOK, Frame
    <2>6. LineInv'
        BY <2>1, <2>4 DEF Line, LineInv, driverVars
    <2>7. AppliedIsTrue'
        <3>1. rf' = rf /\ state' = state
            BY DEF Line, driverVars
        <3>2. ASSUME state = "DONE" PROVE vtx' = rf
            BY <2>3, <3>2 DEF AppliedIsTrue, DriverTypeOK, Rf, LineTypeOK
        <3>3. QED
            BY <3>1, <3>2 DEF AppliedIsTrue
    <2>8. QED
        BY <1>1, <2>5, <2>6, <2>7
<1>3. CASE LineLoses
    <2>1. LineTypeOK'
        BY <1>3, ValuesTyped DEF LineLoses, LineTypeOK
    <2>2. LineInv' /\ AppliedIsTrue'
        BY <1>3 DEF Line, LineLoses, LineInv, AppliedIsTrue, driverVars
    <2>3. QED
        BY <1>1, <2>1, <2>2
<1>4. QED
    BY <1>2, <1>3 DEF Line

(* What every step of the two drivers has in common: it goes on only while *)
(* it may, sends nothing but the settings, and is done only by an answer   *)
(* that says so.                                                           *)
WellDriven ==
    /\ UNCHANGED <<vtx_protocol, rf, vtx>>
    /\ state \in Busy /\ state' \in Busy \cup {"DONE", "FAILED"}
    /\ command' \in {"query", "channel", "power"}
    /\ attempts' \in 0 .. MAX_ATTEMPTS /\ changes' \in 0 .. MAX_ATTEMPTS + 1
    /\ state' \in Busy => attempts' < MAX_ATTEMPTS /\ changes' <= MAX_ATTEMPTS
    /\ state' = "DONE" => reply # NOTHING /\ reply.channel = rf.channel /\ reply.power = rf.power
    /\ reply' \in {reply, NOTHING}
    /\ request' \in {request} \cup {frame(kind) : kind \in {"query", "limits", "channel", "power"}}

LEMMA WellDrivenKeeps ==
    ASSUME DriverInv, WellDriven
    PROVE  DriverInv'
<1> USE DEF DriverInv
<1>1. DriverTypeOK'
    BY DEF WellDriven, DriverTypeOK
<1>2. LineTypeOK'
    BY FrameTyped, ValuesTyped DEF WellDriven, LineTypeOK
<1>3. LineInv'
    <2>1. request' # NOTHING => /\ request'.channel = rf.channel /\ request'.power = rf.power
                                /\ rf.channel # 3
        BY FrameTyped DEF WellDriven, LineInv
    <2>2. QED
        BY <2>1 DEF WellDriven, LineInv
<1>4. AppliedIsTrue'
    <2>1. ASSUME state' = "DONE" PROVE vtx = rf
        BY <2>1 DEF WellDriven, LineInv, LineTypeOK, DriverTypeOK, Rf
    <2>2. QED
        BY <2>1 DEF WellDriven, AppliedIsTrue
<1>5. QED
    BY <1>1, <1>2, <1>3, <1>4

(* The facts about the state that the steps of the drivers start from.     *)
LEMMA AtWork ==
    ASSUME DriverInv, state \in Busy
    PROVE  /\ attempts \in Nat /\ attempts < MAX_ATTEMPTS /\ changes \in Nat /\ changes <= MAX_ATTEMPTS
           /\ attempts + 1 \in 0 .. MAX_ATTEMPTS /\ changes + 1 \in 0 .. MAX_ATTEMPTS + 1
           /\ attempts \in 0 .. MAX_ATTEMPTS /\ changes \in 0 .. MAX_ATTEMPTS + 1
           /\ 0 \in 0 .. MAX_ATTEMPTS /\ 0 < MAX_ATTEMPTS
           /\ command \in {"query", "channel", "power"}
BY VideoSizes DEF DriverInv, DriverTypeOK, LineInv

LEMMA SmartAudioDrives ==
    ASSUME DriverInv, SaArmed(armed) \/ SaQuery(armed) \/ SaSent(armed) \/ SaTimeout(armed)
    PROVE  WellDriven
<1>1. CASE SaArmed(armed)
    BY <1>1, AtWork DEF SaArmed, Keep, WellDriven, Busy
<1>2. CASE SaQuery(armed)
    <2>1. state \in Busy
        BY <1>2 DEF SaQuery, Busy
    <2>2. QED
        BY <1>2, <2>1, AtWork DEF SaQuery, SmartAudio, Keep, send_command, WellDriven, Busy
<1>3. CASE SaSent(armed)
    <2>1. state \in Busy
        BY <1>3 DEF SaSent, Busy
    <2>2. QED
        BY <1>3, <2>1, AtWork DEF SaSent, SmartAudio, Keep, VtxFail, WellDriven, Busy
<1>4. CASE SaTimeout(armed)
    <2>1. state \in Busy
        BY <1>4 DEF SaTimeout, Busy
    <2>2. attempts' = attempts + 1 /\ (state' \in Busy => attempts' < MAX_ATTEMPTS)
        BY <1>4, <2>1, AtWork, VideoSizes
           DEF SaTimeout, attempts_after_timeout, exhausted, VtxFail, Busy
    <2>3. QED
        BY <1>4, <2>1, <2>2, AtWork DEF SaTimeout, SmartAudio, Keep, exhausted, VtxFail,
            schedule_query, WellDriven, Busy
<1>5. QED
    BY <1>1, <1>2, <1>3, <1>4

(* SmartAudio is done only by an answer to a query that shows the settings.*)
LEMMA SaReceiveDrives ==
    ASSUME DriverInv, SaReceive(armed)
    PROVE  WellDriven
<1>1. state \in Busy /\ reply # NOTHING /\ reply' = NOTHING /\ UNCHANGED <<vtx_protocol, rf, vtx>>
    BY DEF SaReceive, SmartAudio, Keep, Busy
<1>2. CASE process_settings
    <2>1. attempts' = 0
        BY <1>2 DEF process_settings
    <2>2. ASSUME NEW code \in {"channel", "power"}, change(code)
          PROVE  WellDriven
        <3>1. changes' = changes + 1
            BY <2>2 DEF change
        <3>2. CASE changes' > MAX_ATTEMPTS
            BY <1>1, <2>1, <2>2, <3>1, <3>2, AtWork DEF change, WellDriven, Busy
        <3>3. CASE ~(changes' > MAX_ATTEMPTS)
            <4>1. changes' <= MAX_ATTEMPTS
                BY <1>1, <3>1, <3>3, AtWork, VideoSizes
            <4>2. QED
                BY <1>1, <2>1, <2>2, <3>1, <3>3, <4>1, AtWork
                   DEF change, send_command, WellDriven, Busy
        <3>4. QED
            BY <3>2, <3>3
    <2>3. CASE reply.channel # rf.channel
        BY <1>2, <2>2, <2>3 DEF process_settings
    <2>4. CASE reply.channel = rf.channel /\ rf.power = 3
        BY <1>1, <1>2, <2>1, <2>4, AtWork DEF process_settings, VtxFail, WellDriven, Busy
    <2>5. CASE reply.channel = rf.channel /\ rf.power # 3 /\ reply.power # rf.power
        BY <1>2, <2>2, <2>5 DEF process_settings
    <2>6. CASE reply.channel = rf.channel /\ rf.power # 3 /\ reply.power = rf.power
        BY <1>1, <1>2, <2>1, <2>6, AtWork DEF process_settings, WellDriven, Busy
    <2>7. QED
        BY <2>3, <2>4, <2>5, <2>6
<1>3. CASE acknowledged
    BY <1>1, <1>3, AtWork DEF acknowledged, schedule_query, WellDriven, Busy
<1>4. CASE UNCHANGED <<driverVars, request>>
    BY <1>1, <1>4, AtWork DEF driverVars, WellDriven, Busy
<1>5. QED
    BY <1>2, <1>3, <1>4 DEF SaReceive

LEMMA TrampDrives ==
    ASSUME DriverInv, TrQuery(armed) \/ TrRetry(armed)
    PROVE  WellDriven
<1>1. CASE TrQuery(armed)
    <2>1. state \in Busy
        BY <1>1 DEF TrQuery, Busy
    <2>2. QED
        BY <1>1, <2>1, AtWork DEF TrQuery, Tramp, Keep, begin_query, WellDriven, Busy
<1>2. CASE TrRetry(armed)
    <2>1. state \in Busy
        BY <1>2 DEF TrRetry, Busy
    <2>2. attempts' = attempts + 1 /\ (state' \in Busy => attempts' < MAX_ATTEMPTS)
        BY <1>2, <2>1, AtWork, VideoSizes DEF TrRetry, exhausted, Busy
    <2>3. expected \in {"query", "limits"}
        BY DEF expected
    <2>4. QED
        BY <1>2, <2>1, <2>2, <2>3, AtWork
           DEF TrRetry, Tramp, Keep, exhausted, begin_query, WellDriven, Busy
<1>3. QED
    BY <1>1, <1>2

LEMMA TrReceiveDrives ==
    ASSUME DriverInv, TrReceive(armed)
    PROVE  WellDriven
<1>1. /\ state \in Busy /\ attempts' = 0 /\ reply' = NOTHING
      /\ UNCHANGED <<vtx_protocol, rf, vtx, command, changes>>
    BY DEF TrReceive, Tramp, Keep, Busy
<1>2. reply # NOTHING
    BY DEF TrReceive, expected, NOTHING
<1>3. \/ state' \in {"WAIT_STATUS", "QUERY_DELAY", "FAILED"}
      \/ state' = "DONE" /\ reply.channel = rf.channel /\ reply.power = rf.power
    BY DEF TrReceive, begin_query, send_frame
<1>4. request' \in {request} \cup {frame(kind) : kind \in {"query", "limits", "channel", "power"}}
    BY DEF TrReceive, begin_query, send_frame
<1>5. QED
    BY <1>1, <1>2, <1>3, <1>4, AtWork DEF WellDriven, Busy

(* A change of the settings ends what was under way.                       *)
LEMMA SettingsKeep ==
    ASSUME DriverInv, VtxSettings(armed)
    PROVE  DriverInv'
<1> USE DEF DriverInv
<1>1. /\ attempts' = 0 /\ changes' = 0 /\ command' = "query" /\ request' = NOTHING
      /\ reply' = NOTHING /\ rf' \in Rf /\ UNCHANGED <<vtx_protocol, vtx>>
    BY ValuesTyped DEF VtxSettings, VtxInit
<1>2. state' \in {"IDLE", "START_DELAY", "FAILED"} /\ (state' = "START_DELAY" => rf'.channel # 3)
    BY DEF VtxSettings, VtxInit, settings_valid
<1>3. DriverTypeOK' /\ LineTypeOK'
    BY <1>1, <1>2, ValuesTyped, VideoSizes DEF DriverTypeOK, LineTypeOK, Busy
<1>4. LineInv' /\ AppliedIsTrue'
    BY <1>1, <1>2, VideoSizes DEF LineInv, AppliedIsTrue, Busy
<1>5. QED
    BY <1>3, <1>4
-----------------------------------------------------------------------------
(* HDZero.                                                                 *)

LEMMA ConfigureTyped ==
    ASSUME PeerTypeOK, DriverTypeOK, HdConfigure(armed)
    PROVE  config' \in Rf \cup {NO_CONFIG} /\ configured' \in BOOLEAN
BY DEF PeerTypeOK, DriverTypeOK, HdConfigure

(* A packet is queued behind the others, or dropped.                       *)
LEMMA EnqueueKeeps ==
    ASSUME QueueTypeOK, NEW packet \in Packet, enqueue(packet)
    PROVE  /\ QueueTypeOK'
           /\ \A i \in 1 .. Len(tx_queue) : tx_queue'[i] = tx_queue[i]
           /\ ~fits => tx_queue' = tx_queue
           /\ fits => Len(tx_queue') = Len(tx_queue) + 1 /\ tx_queue'[Len(tx_queue) + 1] = packet
           /\ Len(tx_queue) \in Nat
<1>1. tx_queue \in Seq(Packet) /\ Len(tx_queue) \in Nat
    BY LenProperties DEF QueueTypeOK
<1>2. CASE fits
    BY <1>1, <1>2, AppendProperties, VideoSizes DEF enqueue, fits, QueueTypeOK
<1>3. CASE ~fits
    BY <1>1, <1>3 DEF enqueue, QueueTypeOK
<1>4. QED
    BY <1>1, <1>2, <1>3

(* Other packets may follow the last configuration.                        *)
LEMMA OthersFollow ==
    ASSUME SentMeansQueued, on_air' = on_air,
           Len(tx_queue) \in Nat, Len(tx_queue') \in Nat, Len(tx_queue') >= Len(tx_queue),
           \A i \in 1 .. Len(tx_queue) : tx_queue'[i] = tx_queue[i],
           \A i \in Len(tx_queue) + 1 .. Len(tx_queue') : tx_queue'[i].kind # "config",
           settings_sent' => settings_sent /\ config' = config
    PROVE  SentMeansQueued'
<1> SUFFICES ASSUME settings_sent' PROVE SentMeansQueued'
    BY DEF SentMeansQueued
<1>1. CASE NoConfigIn(1 .. Len(tx_queue)) /\ on_air = config
    BY <1>1 DEF SentMeansQueued, NoConfigIn
<1>2. ASSUME NEW last \in 1 .. Len(tx_queue), tx_queue[last].kind = "config",
             tx_queue[last].rf = config, NoConfigIn(last + 1 .. Len(tx_queue))
      PROVE  SentMeansQueued'
    <2>1. last \in 1 .. Len(tx_queue') /\ tx_queue'[last] = tx_queue[last]
        BY <1>2
    <2>2. \A i \in last + 1 .. Len(tx_queue') : tx_queue'[i].kind # "config"
        BY <1>2 DEF NoConfigIn
    <2>3. QED
        BY <1>2, <2>1, <2>2 DEF SentMeansQueued, NoConfigIn
<1>3. QED
    BY <1>1, <1>2 DEF SentMeansQueued

(* A configuration that fits is the last one queued, and the settings count*)
(* as sent.                                                                *)
LEMMA ConfigFollows ==
    ASSUME SentMeansQueued, QueueTypeOK, config' \in Rf \cup {NO_CONFIG}, on_air' = on_air,
           settings_sent \in BOOLEAN, push_due \in BOOLEAN, enqueue_config
    PROVE  QueueTypeOK' /\ SentMeansQueued' /\ settings_sent' \in BOOLEAN /\ push_due' \in BOOLEAN
<1> DEFINE packet == [kind |-> "config", rf |-> config']
<1>1. packet \in Packet /\ packet.kind = "config" /\ packet.rf = config'
    BY ValuesTyped
<1>2. enqueue(packet)
    BY DEF enqueue_config
<1> HIDE DEF packet
<1>3. /\ QueueTypeOK'
      /\ \A i \in 1 .. Len(tx_queue) : tx_queue'[i] = tx_queue[i]
      /\ ~fits => tx_queue' = tx_queue
      /\ fits => Len(tx_queue') = Len(tx_queue) + 1 /\ tx_queue'[Len(tx_queue) + 1] = packet
      /\ Len(tx_queue) \in Nat
    BY <1>1, <1>2, EnqueueKeeps
<1>4. settings_sent' \in BOOLEAN /\ push_due' \in BOOLEAN
    BY DEF enqueue_config, sent_after_configure
<1>5. CASE fits
    <2> DEFINE last == Len(tx_queue) + 1
    <2>1. last \in 1 .. Len(tx_queue') /\ tx_queue'[last] = packet /\ last + 1 > Len(tx_queue')
          /\ Len(tx_queue') \in Nat
        BY <1>3, <1>5
    <2>2. \A i \in last + 1 .. Len(tx_queue') : tx_queue'[i].kind # "config"
        BY <2>1
    <2> HIDE DEF last
    <2>3. QED
        BY <1>1, <1>3, <1>4, <2>1, <2>2 DEF SentMeansQueued, NoConfigIn
<1>6. CASE ~fits
    <2>1. settings_sent' => settings_sent /\ config' = config
        BY <1>6 DEF enqueue_config, sent_after_configure
    <2>2. SentMeansQueued'
        BY <1>3, <1>6, <2>1, OthersFollow
    <2>3. QED
        BY <1>3, <1>4, <2>2
<1>7. QED
    BY <1>5, <1>6

(* Any other packet leaves the last configuration in place.                *)
LEMMA OtherFollows ==
    ASSUME SentMeansQueued, QueueTypeOK, on_air' = on_air, enqueue(OTHER_PACKET),
           settings_sent' = sent_after_configure
    PROVE  QueueTypeOK' /\ SentMeansQueued'
<1>1. /\ QueueTypeOK'
      /\ \A i \in 1 .. Len(tx_queue) : tx_queue'[i] = tx_queue[i]
      /\ ~fits => tx_queue' = tx_queue
      /\ fits => Len(tx_queue') = Len(tx_queue) + 1 /\ tx_queue'[Len(tx_queue) + 1] = OTHER_PACKET
      /\ Len(tx_queue) \in Nat
    BY ValuesTyped, EnqueueKeeps
<1>2. settings_sent' => settings_sent /\ config' = config
    BY DEF sent_after_configure
<1>3. /\ Len(tx_queue') \in Nat /\ Len(tx_queue') >= Len(tx_queue)
      /\ \A i \in Len(tx_queue) + 1 .. Len(tx_queue') : tx_queue'[i].kind # "config"
    <2>1. CASE fits
        BY <1>1, <2>1, ValuesTyped
    <2>2. CASE ~fits
        BY <1>1, <2>2
    <2>3. QED
        BY <2>1, <2>2
<1>4. QED
    BY <1>1, <1>2, <1>3, OthersFollow

(* The oldest packet goes to the wire.                                     *)
LEMMA TransmitKeeps ==
    ASSUME SentMeansQueued, QueueTypeOK, on_air \in Rf \cup {NO_CONFIG},
           tx_queue # <<>>, tx_queue' = Tail(tx_queue), settings_sent' = sent_after_configure,
           on_air' = IF Head(tx_queue).kind = "config" THEN Head(tx_queue).rf ELSE on_air
    PROVE  QueueTypeOK' /\ SentMeansQueued' /\ on_air' \in Rf \cup {NO_CONFIG}
<1>1. /\ Head(tx_queue) \in Packet /\ Head(tx_queue) = tx_queue[1] /\ Len(tx_queue) \in Nat \ {0}
      /\ tx_queue' \in Seq(Packet) /\ Len(tx_queue') = Len(tx_queue) - 1
      /\ \A i \in 1 .. Len(tx_queue') : tx_queue'[i] = tx_queue[i + 1]
    BY HeadTailProperties, EmptySeq DEF QueueTypeOK
<1>2. QueueTypeOK'
    BY <1>1, VideoSizes DEF QueueTypeOK
<1>3. on_air' \in Rf \cup {NO_CONFIG}
    BY <1>1 DEF Packet
<1>4. ASSUME settings_sent' PROVE SentMeansQueued'
    <2>1. settings_sent /\ config' = config
        BY <1>4 DEF sent_after_configure
    <2>2. CASE NoConfigIn(1 .. Len(tx_queue)) /\ on_air = config
        <3>1. on_air' = config /\ \A i \in 1 .. Len(tx_queue') : tx_queue'[i].kind # "config"
            BY <1>1, <2>2 DEF NoConfigIn
        <3>2. QED
            BY <2>1, <3>1 DEF SentMeansQueued, NoConfigIn
    <2>3. ASSUME NEW last \in 1 .. Len(tx_queue), tx_queue[last].kind = "config",
                 tx_queue[last].rf = config, NoConfigIn(last + 1 .. Len(tx_queue))
          PROVE  SentMeansQueued'
        <3>1. CASE last = 1
            <4>1. on_air' = config
                BY <1>1, <2>3, <3>1
            <4>2. \A i \in 1 .. Len(tx_queue') : tx_queue'[i].kind # "config"
                BY <1>1, <2>3, <3>1 DEF NoConfigIn
            <4>3. QED
                BY <2>1, <4>1, <4>2 DEF SentMeansQueued, NoConfigIn
        <3>2. CASE last > 1
            <4>1. last - 1 \in 1 .. Len(tx_queue') /\ tx_queue'[last - 1] = tx_queue[last]
                BY <1>1, <2>3, <3>2
            <4>2. \A i \in (last - 1) + 1 .. Len(tx_queue') : tx_queue'[i].kind # "config"
                BY <1>1, <2>3, <3>2 DEF NoConfigIn
            <4>3. QED
                BY <2>1, <2>3, <4>1, <4>2 DEF SentMeansQueued, NoConfigIn
        <3>3. QED
            BY <2>3, <3>1, <3>2
    <2>4. QED
        BY <2>1, <2>2, <2>3 DEF SentMeansQueued
<1>5. QED
    BY <1>2, <1>3, <1>4 DEF SentMeansQueued

LEMMA ProcessKeeps ==
    ASSUME VideoInv, HdProcess(armed)
    PROVE  VideoInv'
<1> USE DEF PeerInv
<1>1. DriverInv /\ PeerInv /\ Process(armed)
    BY VideoInvParts DEF HdProcess, HdReceive, HdRequest, HdUnsupported, HdPush, HdTransmit
<1>2. DriverInv'
    BY <1>1, DriverKept DEF Process
<1>3. config' \in Rf \cup {NO_CONFIG} /\ configured' \in BOOLEAN
    BY <1>1, ConfigureTyped DEF Process, DriverInv
<1>4. release_sent' \in BOOLEAN /\ osd_enabled' \in BOOLEAN
    BY <1>1 DEF Process, PeerTypeOK
<1>5. ASSUME QueueTypeOK', SentMeansQueued', settings_sent' \in BOOLEAN, push_due' \in BOOLEAN,
             linked' \in BOOLEAN, req_recent' \in BOOLEAN, rx_frame' \in BOOLEAN,
             on_air' \in Rf \cup {NO_CONFIG}
      PROVE  VideoInv'
    BY <1>2, <1>3, <1>4, <1>5, VideoInvParts DEF PeerTypeOK
<1>6. /\ sent_after_configure \in BOOLEAN /\ rx_frame \in BOOLEAN /\ linked \in BOOLEAN
      /\ req_recent \in BOOLEAN /\ push_due \in BOOLEAN /\ settings_sent \in BOOLEAN
      /\ on_air \in Rf \cup {NO_CONFIG}
    BY <1>1 DEF PeerTypeOK, sent_after_configure
<1>7. CASE HdReceive(armed)
    <2>1. /\ tx_queue' = tx_queue /\ on_air' = on_air
          /\ settings_sent' => settings_sent /\ config' = config
        BY <1>7 DEF HdReceive, sent_after_configure
    <2>2. QueueTypeOK' /\ Len(tx_queue) \in Nat
        BY <1>1, <2>1, LenProperties DEF QueueTypeOK
    <2>3. SentMeansQueued'
        BY <1>1, <2>1, <2>2, OthersFollow
    <2>4. QED
        BY <1>5, <1>6, <1>7, <2>2, <2>3 DEF HdReceive
<1>8. CASE HdRequest(armed)
    <2>1. on_air' = on_air /\ linked' \in BOOLEAN /\ req_recent' \in BOOLEAN /\ rx_frame' \in BOOLEAN
        BY <1>8 DEF HdRequest
    <2>2. CASE enqueue_config
        BY <1>1, <1>3, <1>5, <1>6, <2>1, <2>2, ConfigFollows
    <2>3. CASE enqueue(OTHER_PACKET) /\ settings_sent' = sent_after_configure /\ UNCHANGED push_due
        BY <1>1, <1>5, <1>6, <2>1, <2>3, OtherFollows
    <2>4. QED
        BY <1>8, <2>2, <2>3 DEF HdRequest
<1>9. CASE HdUnsupported(armed)
    BY <1>1, <1>5, <1>6, <1>9, OtherFollows DEF HdUnsupported
<1>10. CASE HdPush(armed)
    BY <1>1, <1>3, <1>5, <1>6, <1>10, ConfigFollows DEF HdPush
<1>11. CASE HdTransmit(armed)
    BY <1>1, <1>5, <1>6, <1>11, TransmitKeeps DEF HdTransmit
<1>12. QED
    BY <1>7, <1>8, <1>9, <1>10, <1>11 DEF HdProcess

(* The strings of a screen go behind the rest, as many as fit.             *)
LEMMA EnqueueSomeKeeps ==
    ASSUME QueueTypeOK, NEW count \in Nat, enqueue_some(count)
    PROVE  /\ QueueTypeOK' /\ Len(tx_queue) \in Nat /\ Len(tx_queue') \in Nat
           /\ Len(tx_queue') >= Len(tx_queue)
           /\ \A i \in 1 .. Len(tx_queue) : tx_queue'[i] = tx_queue[i]
           /\ \A i \in Len(tx_queue) + 1 .. Len(tx_queue') : tx_queue'[i] = OTHER_PACKET
<1> DEFINE others == [i \in 1 .. count |-> OTHER_PACKET]
           all == tx_queue \o others
           size == IF Len(tx_queue) + count < TX_PACKETS THEN Len(tx_queue) + count ELSE TX_PACKETS
<1>1. others \in Seq(Packet) /\ Len(others) = count /\ \A i \in 1 .. count : others[i] = OTHER_PACKET
    BY ValuesTyped
<1>2. tx_queue \in Seq(Packet) /\ Len(tx_queue) \in Nat /\ Len(tx_queue) <= TX_PACKETS
    BY LenProperties DEF QueueTypeOK
<1>3. tx_queue' = SubSeq(all, 1, size)
    BY DEF enqueue_some
<1> HIDE DEF others
<1>4. /\ all \in Seq(Packet) /\ Len(all) = Len(tx_queue) + count
      /\ \A i \in 1 .. Len(tx_queue) + count :
            all[i] = IF i <= Len(tx_queue) THEN tx_queue[i] ELSE others[i - Len(tx_queue)]
    BY <1>1, <1>2, ConcatProperties
<1>5. size \in Nat /\ Len(tx_queue) <= size /\ size <= Len(tx_queue) + count /\ size <= TX_PACKETS
    BY <1>2, VideoSizes
<1> HIDE DEF all, size
<1>6. \A i \in 1 .. size : all[i] \in Packet
    <2>1. \A i \in 1 .. Len(all) : all[i] \in Packet
        BY <1>4, ElementOfSeq
    <2>2. QED
        BY <1>2, <1>4, <1>5, <2>1
<1>7. /\ tx_queue' \in Seq(Packet) /\ Len(tx_queue') = size
      /\ \A i \in 1 .. size : tx_queue'[i] = all[i]
    <2>1. /\ SubSeq(all, 1, size) \in Seq(Packet)
          /\ Len(SubSeq(all, 1, size)) = IF 1 <= size THEN size - 1 + 1 ELSE 0
          /\ \A i \in 1 .. size - 1 + 1 : SubSeq(all, 1, size)[i] = all[1 + i - 1]
        BY <1>5, <1>6, SubSeqProperties
    <2>2. QED
        BY <1>3, <1>5, <2>1
<1>8. ASSUME NEW i \in 1 .. Len(tx_queue) PROVE tx_queue'[i] = tx_queue[i]
    <2>1. i \in 1 .. size /\ i \in 1 .. Len(tx_queue) + count /\ i <= Len(tx_queue)
        BY <1>2, <1>5
    <2>2. tx_queue'[i] = all[i] /\ all[i] = tx_queue[i]
        BY <1>4, <1>7, <2>1
    <2>3. QED
        BY <2>2
<1>9. ASSUME NEW i \in Len(tx_queue) + 1 .. Len(tx_queue') PROVE tx_queue'[i] = OTHER_PACKET
    <2>1. i \in 1 .. size /\ i \in 1 .. Len(tx_queue) + count /\ ~(i <= Len(tx_queue))
        BY <1>2, <1>5, <1>7
    <2>2. tx_queue'[i] = all[i] /\ all[i] = others[i - Len(tx_queue)]
        BY <1>4, <1>7, <2>1
    <2>3. i - Len(tx_queue) \in 1 .. count
        BY <1>2, <2>1
    <2>4. QED
        BY <1>1, <2>2, <2>3
<1>10. QED
    BY <1>2, <1>5, <1>7, <1>8, <1>9 DEF QueueTypeOK

LEMMA ScreenKeeps ==
    ASSUME VideoInv, HdScreen
    PROVE  VideoInv'
<1>1. DriverInv /\ PeerInv
    BY VideoInvParts
<1>2. DriverInv'
    BY <1>1, DriverKept DEF HdScreen
<1>3. PICK boot_arm_blocked \in BOOLEAN, heartbeat \in {0, 1} :
          LET drawn == boot_arm_blocked \/ osd_enabled
              release == IF drawn \/ release_sent THEN 0 ELSE 1
          IN  /\ \E packets \in enqueue_layout(drawn) : enqueue_some(heartbeat + packets + release)
              /\ release_sent' = ~drawn
    BY DEF HdScreen
<1>4. PICK count \in Nat : enqueue_some(count)
    BY <1>3 DEF enqueue_layout, enqueue_string
<1>5. PeerTypeOK'
    BY <1>1, <1>3 DEF HdScreen, PeerInv, PeerTypeOK, peerVars
<1>6. QueueTypeOK' /\ SentMeansQueued'
    BY <1>1, <1>4, EnqueueSomeKeeps, OthersFollow, ValuesTyped DEF HdScreen, PeerInv, peerVars
<1>7. QED
    BY <1>2, <1>5, <1>6, VideoInvParts DEF PeerInv

LEMMA ElapseKeeps ==
    ASSUME VideoInv, HdElapse
    PROVE  VideoInv'
<1>1. DriverInv /\ PeerInv
    BY VideoInvParts
<1>2. DriverInv'
    BY <1>1, DriverKept DEF HdElapse
<1>3. PeerInv'
    <2>1. /\ req_recent' \in BOOLEAN /\ push_due' \in BOOLEAN
          /\ UNCHANGED <<config, on_air, configured, settings_sent, linked, rx_frame,
                         release_sent, osd_enabled, tx_queue>>
        BY <1>1 DEF HdElapse, PeerInv, PeerTypeOK, osdVars
    <2>2. PeerTypeOK'
        BY <1>1, <2>1 DEF PeerInv, PeerTypeOK
    <2>3. QueueTypeOK'
        BY <1>1, <2>1 DEF PeerInv, QueueTypeOK
    <2>4. SentMeansQueued'
        BY <1>1, <2>1 DEF PeerInv, SentMeansQueued, NoConfigIn
    <2>5. QED
        BY <2>2, <2>3, <2>4 DEF PeerInv
<1>4. QED
    BY <1>2, <1>3, VideoInvParts
-----------------------------------------------------------------------------
LEMMA VideoInitKeeps == Init => VideoInv
<1> SUFFICES ASSUME Init PROVE VideoInv
    OBVIOUS
<1> USE DEF Init, VideoInit
<1>1. vtx_protocol \in {"SMARTAUDIO", "TRAMP", "HDZERO_MSP", "OFF"} /\ rf \in Rf
    BY ValuesTyped
<1>2. DriverTypeOK /\ LineTypeOK
    BY <1>1, ValuesTyped, VideoSizes DEF DriverTypeOK, LineTypeOK, Busy
<1>3. LineInv /\ AppliedIsTrue
    BY VideoSizes DEF LineInv, AppliedIsTrue, Busy, settings_valid
<1>4. PeerTypeOK /\ SentMeansQueued
    BY <1>1 DEF PeerTypeOK, SentMeansQueued
<1>5. QueueTypeOK
    <2>1. <<>> \in Seq(Packet) /\ Len(<<>>) = 0
        BY EmptySeq
    <2>2. <<OTHER_PACKET, OTHER_PACKET>> \in Seq(Packet) /\ Len(<<OTHER_PACKET, OTHER_PACKET>>) = 2
        BY ValuesTyped
    <2>3. QED
        BY <2>1, <2>2, VideoSizes DEF QueueTypeOK
<1>6. QED
    BY <1>2, <1>3, <1>4, <1>5, VideoInvParts DEF DriverInv, PeerInv

LEMMA VideoStepKeeps == VideoInv /\ [Next]_vars => VideoInv'
<1> SUFFICES ASSUME VideoInv, [Next]_vars PROVE VideoInv'
    OBVIOUS
<1>1. DriverInv /\ PeerInv /\ osd_enabled \in BOOLEAN
    BY VideoInvParts DEF PeerInv, PeerTypeOK
<1>2. CASE UNCHANGED videoVars
    BY <1>1, <1>2, DriverKept, PeerKept, VideoInvParts DEF videoVars
<1>3. CASE Line
    BY <1>1, <1>3, LineKeeps, PeerKept, VideoInvParts DEF Line
<1>4. CASE VtxUpdate(armed) \/ SaArmed(armed)
    <2>1. WellDriven
        BY <1>1, <1>4, SmartAudioDrives, SaReceiveDrives, TrampDrives, TrReceiveDrives
           DEF VtxUpdate
    <2>2. UNCHANGED <<osd_enabled, peerVars, osdVars>>
        BY <1>4 DEF VtxUpdate, SaArmed, SaQuery, SaSent, SaReceive, SaTimeout, TrQuery, TrRetry,
            TrReceive, SmartAudio, Tramp, Keep
    <2>3. QED
        BY <1>1, <2>1, <2>2, WellDrivenKeeps, PeerKept, VideoInvParts
<1>5. CASE VtxSettings(armed)
    <2>1. osd_enabled' \in BOOLEAN /\ UNCHANGED <<peerVars, osdVars>>
        BY <1>1, <1>5 DEF VtxSettings
    <2>2. QED
        BY <1>1, <1>5, <2>1, SettingsKeep, PeerKept, VideoInvParts
<1>6. CASE HdProcess(armed) \/ HdScreen \/ HdElapse
    BY <1>6, ProcessKeeps, ScreenKeeps, ElapseKeeps
<1>7. QED
    BY <1>2, <1>3, <1>4, <1>5, <1>6 DEF Next, Fly, Video, Host, VideoNext, vars

(* What is on the line and what the driver believes agree with the         *)
(* settings and the transmitter, in every state of both links.             *)
THEOREM VideoInvariance == Spec => []VideoInv
<1>1. Init => VideoInv
    BY VideoInitKeeps
<1>2. VideoInv /\ [Next]_vars => VideoInv'
    BY VideoStepKeeps
<1>3. QED
    BY <1>1, <1>2, PTL DEF Spec

(* A driver that reports "applied" has a transmitter on the channel and    *)
(* power of the settings, however many attempts it is allowed.             *)
THEOREM AppliedSafety == Spec => []AppliedIsTrue
<1>1. VideoInv => AppliedIsTrue
    BY DEF VideoInv
<1>2. QED
    BY <1>1, VideoInvariance, PTL

(* "Settings sent" is about the settings of now, whatever the size of the  *)
(* transmit buffer and whatever it had to drop.                            *)
THEOREM SentSafety == Spec => []SentMeansQueued
<1>1. VideoInv => SentMeansQueued
    BY DEF VideoInv
<1>2. QED
    BY <1>1, VideoInvariance, PTL
=============================================================================
