---------------------------- MODULE Receiver_proofs ----------------------------
(***************************************************************************)
(* The receiver for every ring size, every time-out and boards with and    *)
(* without an inverter: types, failsafe, and that no frame is put together *)
(* from bytes on both sides of a loss.                                     *)
(***************************************************************************)
EXTENDS Receiver, SequenceTheorems, TLAPS

(* A loss that the next statements of sbus_update still look at, or of     *)
(* which history says that it was missed.                                  *)
Reported ==
    \/ late
    \/ pc = "idle" /\ (uart_recovery_pending \/ ring_resync_pending)
    \/ pc \in {"recover_restart", "check"} /\ ring_resync_pending
    \/ pc \in {"recover", "discard"}

(* Bytes are missing nowhere but in front of everything.                   *)
StreamIsWhole ==
    /\ \A i \in 2 .. Len(frame) : ~frame[i].gap
    /\ \A i \in 1 .. Len(rx_ring) : rx_ring[i].gap => i = 1 /\ frame = <<>>

EndIsWhole == lost => frame = <<>> /\ rx_ring = <<>>

(* Once the UART is off, nothing follows what was received until it is     *)
(* discarded.                                                              *)
StreamInv ==
    protocol = "SBUS" /\ ~Reported =>
        StreamIsWhole /\ (uart = "listening" => EndIsWhole)

(* What the parser says of a call is forgotten before the next.            *)
AcceptedInv == TornFramesAreCaught /\ (pc # "parse" => accepted = "nothing")

(* Nothing joins the frame between a discard and the restart after it.     *)
RestartInv == pc \in Restarting => frame = <<>>

IInv == TypeOK /\ FailsafeIsConfirmed /\ StreamInv /\ AcceptedInv /\ RestartInv
-----------------------------------------------------------------------------
(* The operators on the ring and the frame.                                *)

LEMMA Sizes ==
    /\ FRAME_SIZE = 3 /\ RX_RING_SIZE \in Nat /\ RX_RING_SIZE > 1
    /\ SIGNAL_TIMEOUT \in Nat /\ SIGNAL_TIMEOUT > 0
    /\ FAILSAFE_CONFIRM \in Nat /\ FAILSAFE_CONFIRM > 0
    /\ RECOVERY_RETRY \in Nat /\ RECOVERY_RETRY > 0
    /\ INVERTER_PROBE \in Nat /\ INVERTER_PROBE > 0
BY ReceiverAssumption

LEMMA ShortFrame ==
    ASSUME NEW n \in 1 .. FRAME_SIZE, n # FRAME_SIZE
    PROVE  n < FRAME_SIZE
BY ReceiverAssumption

LEMMA EmptyIsSeq == <<>> \in Seq(Byte) /\ Len(<<>>) = 0
BY EmptySeq

(* A byte taken from the ring joins the frame.                             *)
LEMMA NextFrame ==
    ASSUME TypeOK, rx_ring # <<>>
    PROVE  /\ Head(rx_ring) \in Byte /\ Head(rx_ring) = rx_ring[1] /\ Len(rx_ring) \in Nat \ {0}
           /\ next_frame \in Seq(Byte) /\ Len(next_frame) = Len(frame) + 1
           /\ Len(next_frame) \in 1 .. FRAME_SIZE
           /\ \A i \in 1 .. Len(frame) : next_frame[i] = frame[i]
           /\ next_frame[Len(next_frame)] = rx_ring[1]
           /\ Tail(rx_ring) \in Seq(Byte) /\ Len(Tail(rx_ring)) = Len(rx_ring) - 1
           /\ \A i \in 1 .. Len(Tail(rx_ring)) : Tail(rx_ring)[i] = rx_ring[i + 1]
<1>1. rx_ring \in Seq(Byte) /\ frame \in Seq(Byte) /\ Len(frame) < FRAME_SIZE
    BY DEF TypeOK
<1>2. Len(frame) \in Nat /\ FRAME_SIZE \in Nat
    BY <1>1, LenProperties, ReceiverAssumption
<1>3. Head(rx_ring) \in Byte
    BY <1>1, HeadTailProperties
<1>4. /\ next_frame \in Seq(Byte) /\ Len(next_frame) = Len(frame) + 1
      /\ \A i \in 1 .. Len(frame) : next_frame[i] = frame[i]
      /\ next_frame[Len(frame) + 1] = Head(rx_ring)
    BY <1>1, <1>3, AppendProperties DEF next_frame
<1>5. Head(rx_ring) = rx_ring[1] /\ Len(rx_ring) \in Nat \ {0}
    BY <1>1, EmptySeq
<1>6. /\ Tail(rx_ring) \in Seq(Byte) /\ Len(Tail(rx_ring)) = Len(rx_ring) - 1
      /\ \A i \in 1 .. Len(Tail(rx_ring)) : Tail(rx_ring)[i] = rx_ring[i + 1]
    BY <1>1, HeadTailProperties
<1>7. QED
    BY <1>1, <1>2, <1>3, <1>4, <1>5, <1>6

(* A frame keeps its bytes and its length when its first gap is forgotten. *)
LEMMA FramedKeeps ==
    ASSUME NEW g \in Seq(Byte)
    PROVE  /\ Framed(g) \in Seq(Byte) /\ Len(Framed(g)) = Len(g)
           /\ Framed(g) = <<>> <=> g = <<>>
           /\ \A i \in 1 .. Len(g) : Framed(g)[i].kind = g[i].kind
           /\ \A i \in 2 .. Len(g) : Framed(g)[i] = g[i]
<1>1. CASE g = <<>>
    BY <1>1 DEF Framed
<1>2. CASE g # <<>>
    <2>1. Len(g) \in Nat \ {0}
        BY <1>2, EmptySeq
    <2>2. g[1] \in Byte
        BY <2>1, ElementOfSeq
    <2> DEFINE b == [g[1] EXCEPT !.gap = FALSE]
    <2>3. b \in Byte /\ b.kind = g[1].kind
        BY <2>2 DEF Byte
    <2>4. Framed(g) = [g EXCEPT ![1] = b]
        BY <1>2 DEF Framed
    <2>5. 1 \in 1 .. Len(g)
        BY <2>1
    <2> HIDE DEF b
    <2>6. /\ [g EXCEPT ![1] = b] \in Seq(Byte) /\ Len([g EXCEPT ![1] = b]) = Len(g)
          /\ \A j \in 1 .. Len(g) : [g EXCEPT ![1] = b][j] = IF j = 1 THEN b ELSE g[j]
        BY <2>3, <2>5, ExceptSeq
    <2>7. Framed(g) # <<>>
        BY <2>1, <2>4, <2>6, EmptySeq
    <2>8. QED
        BY <1>2, <2>1, <2>3, <2>4, <2>6, <2>7
<1>3. QED
    BY <1>1, <1>2

(* What is left of a refused frame is its end, and begins with a start     *)
(* byte.                                                                   *)
LEMMA ResyncShortens ==
    ASSUME NEW g \in Seq(Byte), Len(g) = FRAME_SIZE
    PROVE  LET r == resync_frame(g)
           IN  /\ r \in Seq(Byte) /\ Len(r) < FRAME_SIZE
               /\ r # <<>> => r[1].kind = "start"
               /\ \A i \in 1 .. Len(r) : r[i] \in {g[j] : j \in 2 .. Len(g)}
<1>1. CASE \E i \in 2 .. Len(g) : g[i].kind = "start"
    <2> DEFINE First(f) == g[f].kind = "start" /\ \A j \in 2 .. f - 1 : g[j].kind # "start"
    <2>1. \E f \in 2 .. Len(g) : First(f)
        BY <1>1, ReceiverAssumption
    <2> DEFINE first == CHOOSE f \in 2 .. Len(g) : First(f)
    <2>2. first \in 2 .. Len(g) /\ First(first)
        BY <2>1
    <2>3. resync_frame(g) = SubSeq(g, first, Len(g))
        BY <1>1 DEF resync_frame
    <2> HIDE DEF first
    <2>4. \A i \in first .. Len(g) : g[i] \in Byte
        <3>1. \A i \in 1 .. Len(g) : g[i] \in Byte
            BY ElementOfSeq
        <3>2. QED
            BY <2>2, <3>1, ReceiverAssumption
    <2>5. first \in Int /\ Len(g) \in Int
        BY <2>2, ReceiverAssumption
    <2>6. /\ SubSeq(g, first, Len(g)) \in Seq(Byte)
          /\ Len(SubSeq(g, first, Len(g))) = Len(g) - first + 1
          /\ \A i \in 1 .. Len(g) - first + 1 : SubSeq(g, first, Len(g))[i] = g[first + i - 1]
        BY <2>2, <2>4, <2>5, SubSeqProperties
    <2>7. QED
        BY <2>2, <2>3, <2>5, <2>6, ReceiverAssumption
<1>2. CASE ~\E i \in 2 .. Len(g) : g[i].kind = "start"
    BY <1>2, ReceiverAssumption, EmptySeq DEF resync_frame
<1>3. QED
    BY <1>1, <1>2
-----------------------------------------------------------------------------
(* What each group of steps keeps.                                         *)

(* The parts of the type invariant.                                        *)
ControlTypeOK ==
    /\ protocol \in {"SBUS", "CRSF"} /\ uart \in {"listening", "off"}
    /\ pc \in {"idle", "recover", "check", "discard", "parse", "probe", "judge"} \cup Restarting
    /\ accepted \in {"nothing", "whole", "torn"}

FlagTypeOK ==
    /\ uart_recovery_pending \in BOOLEAN /\ ring_resync_pending \in BOOLEAN
    /\ inverter_locked \in BOOLEAN /\ acquired \in BOOLEAN
    /\ failsafe \in BOOLEAN /\ failsafe_pending \in BOOLEAN
    /\ lost \in BOOLEAN /\ late \in BOOLEAN

AgeTypeOK ==
    /\ frame_age \in {NEVER} \cup 0 .. SIGNAL_TIMEOUT
    /\ failsafe_age \in 0 .. FAILSAFE_CONFIRM
    /\ recovery_age \in 0 .. RECOVERY_RETRY /\ probe_age \in 0 .. INVERTER_PROBE
    /\ flagged \in 0 .. 2

FrameTypeOK ==
    /\ frame \in Seq(Byte) /\ Len(frame) < FRAME_SIZE
    /\ frame # <<>> => frame[1].kind = "start"

RingTypeOK == rx_ring \in Seq(Byte) /\ Len(rx_ring) < RX_RING_SIZE

LEMMA TypeParts ==
    /\ TypeOK <=> ControlTypeOK /\ FlagTypeOK /\ AgeTypeOK /\ FrameTypeOK /\ RingTypeOK
    /\ TypeOK' <=> (ControlTypeOK /\ FlagTypeOK /\ AgeTypeOK /\ FrameTypeOK /\ RingTypeOK)'
BY DEF TypeOK, ControlTypeOK, FlagTypeOK, AgeTypeOK, FrameTypeOK, RingTypeOK

(* A step that restarts nothing, or is somewhere else.                     *)
LEMMA RestartKept ==
    ASSUME RestartInv, frame' = frame, pc' \in Restarting => pc' = pc
    PROVE  RestartInv'
BY DEF RestartInv

LEMMA EmptyIsTyped ==
    /\ frame = <<>> => FrameTypeOK
    /\ rx_ring = <<>> => RingTypeOK
    /\ frame = <<>> /\ rx_ring = <<>> => StreamIsWhole /\ EndIsWhole
<1>1. frame = <<>> => FrameTypeOK
    BY EmptyIsSeq, Sizes DEF FrameTypeOK
<1>2. rx_ring = <<>> => RingTypeOK
    BY EmptyIsSeq, Sizes DEF RingTypeOK
<1>3. frame = <<>> /\ rx_ring = <<>> => EndIsWhole
    BY DEF EndIsWhole
<1>4. ASSUME frame = <<>>, rx_ring = <<>> PROVE StreamIsWhole
    <2>1. Len(frame) = 0 /\ Len(rx_ring) = 0
        BY <1>4, EmptyIsSeq
    <2>2. QED
        BY <1>4, <2>1 DEF StreamIsWhole
<1>5. QED
    BY <1>1, <1>2, <1>3, <1>4

LEMMA EmptyIsTypedNext ==
    /\ frame' = <<>> => FrameTypeOK'
    /\ rx_ring' = <<>> => RingTypeOK'
    /\ frame' = <<>> /\ rx_ring' = <<>> => (StreamIsWhole /\ EndIsWhole)'
<1>1. frame' = <<>> => FrameTypeOK'
    BY EmptyIsSeq, Sizes DEF FrameTypeOK
<1>2. rx_ring' = <<>> => RingTypeOK'
    BY EmptyIsSeq, Sizes DEF RingTypeOK
<1>3. frame' = <<>> /\ rx_ring' = <<>> => EndIsWhole'
    BY DEF EndIsWhole
<1>4. ASSUME frame' = <<>>, rx_ring' = <<>> PROVE StreamIsWhole'
    <2>1. Len(frame') = 0 /\ Len(rx_ring') = 0
        BY <1>4, EmptyIsSeq
    <2>2. QED
        BY <1>4, <2>1 DEF StreamIsWhole
<1>5. QED
    BY <1>1, <1>2, <1>3, <1>4

LEMMA InitKeeps == Init => IInv
<1> SUFFICES ASSUME Init PROVE IInv
    OBVIOUS
<1>1. ControlTypeOK /\ FlagTypeOK
    BY DEF Init, ControlTypeOK, FlagTypeOK
<1>2. AgeTypeOK
    BY Sizes DEF Init, AgeTypeOK, NEVER
<1>3. TypeOK
    BY <1>1, <1>2, TypeParts, EmptyIsTyped DEF Init
<1>4. FailsafeIsConfirmed
    BY DEF Init, FailsafeIsConfirmed
<1>5. StreamInv /\ AcceptedInv /\ RestartInv
    BY EmptyIsTyped DEF Init, StreamInv, AcceptedInv, TornFramesAreCaught, RestartInv
<1>6. QED
    BY <1>3, <1>4, <1>5 DEF IInv

(* A step that leaves alone what the frames said.                          *)
LEMMA VerdictKept ==
    ASSUME FailsafeIsConfirmed, AcceptedInv, UNCHANGED <<protocol, failsafe, failsafe_pending,
           failsafe_age, flagged>>, accepted' \in {accepted, "nothing"},
           accepted' # "nothing" => pc' = "parse",
           accepted' = "torn" /\ late => late'
    PROVE  FailsafeIsConfirmed' /\ AcceptedInv'
BY DEF FailsafeIsConfirmed, AcceptedInv, TornFramesAreCaught

(* A step that leaves the ring and the frame alone.                        *)
LEMMA StreamKept ==
    ASSUME StreamInv, UNCHANGED <<protocol, rx_ring, frame>>, Reported => Reported',
           uart' = "listening" /\ ~Reported' => uart = "listening" /\ lost' = lost
    PROVE  StreamInv'
BY DEF StreamInv, StreamIsWhole, EndIsWhole

(* Nothing received so far remains.                                        *)
LEMMA DiscardKeeps ==
    ASSUME frame' = <<>>, rx_ring' = <<>>, ControlTypeOK', FlagTypeOK', AgeTypeOK',
           FailsafeIsConfirmed', AcceptedInv'
    PROVE  IInv'
BY TypeParts, EmptyIsTypedNext DEF IInv, StreamInv, RestartInv

(* A byte is queued, or lost with a flag raised.                           *)
LEMMA RxCpltKeeps ==
    ASSUME IInv, RxCplt
    PROVE  IInv'
<1> USE DEF IInv
<1>0. PICK k \in Kind :
          IF Len(rx_ring) < RX_RING_SIZE - 1
          THEN /\ rx_ring' = Append(rx_ring, [kind |-> k, gap |-> lost])
               /\ lost' = FALSE
               /\ UNCHANGED <<ring_resync_pending, late>>
          ELSE /\ ring_resync_pending' = TRUE
               /\ lost' = TRUE
               /\ late' = (late \/ pc \in {"parse", "probe", "probe_restart", "judge", "judge_restart"})
               /\ UNCHANGED rx_ring
    BY DEF RxCplt
<1>1. ControlTypeOK' /\ FlagTypeOK'
    <2>1. lost' \in BOOLEAN /\ late' \in BOOLEAN /\ ring_resync_pending' \in BOOLEAN
        BY <1>0, TypeParts DEF FlagTypeOK
    <2>2. QED
        BY <2>1, TypeParts DEF RxCplt, ControlTypeOK, FlagTypeOK, dataVars
<1>2. AgeTypeOK' /\ FrameTypeOK'
    BY TypeParts DEF RxCplt, AgeTypeOK, FrameTypeOK, dataVars
<1>3. FailsafeIsConfirmed' /\ AcceptedInv'
    <2>1. late => late'
        BY <1>0
    <2>2. QED
        BY <2>1, VerdictKept DEF RxCplt, AcceptedInv, dataVars
<1> DEFINE b == [kind |-> k, gap |-> lost]
<1>4. b \in Byte /\ b.gap = lost
    BY TypeParts DEF Byte, FlagTypeOK
<1> HIDE DEF b
<1>5. /\ Append(rx_ring, b) \in Seq(Byte) /\ Len(Append(rx_ring, b)) = Len(rx_ring) + 1
      /\ \A i \in 1 .. Len(rx_ring) : Append(rx_ring, b)[i] = rx_ring[i]
      /\ Append(rx_ring, b)[Len(rx_ring) + 1] = b
    BY <1>4, TypeParts, AppendProperties DEF RingTypeOK
<1>6. Len(rx_ring) \in Nat /\ (Len(rx_ring) = 0 <=> rx_ring = <<>>)
    BY TypeParts, EmptySeq, LenProperties DEF RingTypeOK
<1>7. RingTypeOK'
    <2>1. rx_ring \in Seq(Byte) /\ Len(rx_ring) < RX_RING_SIZE /\ RX_RING_SIZE \in Nat
        BY TypeParts, Sizes DEF RingTypeOK
    <2>2. CASE Len(rx_ring) < RX_RING_SIZE - 1
        <3>1. rx_ring' = Append(rx_ring, b)
            BY <1>0, <2>2 DEF b
        <3>2. QED
            BY <1>5, <1>6, <2>1, <2>2, <3>1 DEF RingTypeOK
    <2>3. CASE ~(Len(rx_ring) < RX_RING_SIZE - 1)
        BY <1>0, <2>1, <2>3 DEF RingTypeOK
    <2>4. QED
        BY <2>2, <2>3
<1>8. StreamInv'
    <2>1. CASE Len(rx_ring) < RX_RING_SIZE - 1
        <3>1. rx_ring' = Append(rx_ring, b) /\ ~lost' /\ frame' = frame /\ Reported' = Reported
            BY <1>0, <2>1 DEF RxCplt, Reported, b
        <3>2. QED
            BY <1>4, <1>5, <1>6, <3>1 DEF RxCplt, StreamInv, StreamIsWhole, EndIsWhole
    <2>2. CASE ~(Len(rx_ring) < RX_RING_SIZE - 1)
        BY <1>0, <2>2, TypeParts DEF RxCplt, StreamInv, Reported, ControlTypeOK, Restarting
    <2>3. QED
        BY <2>1, <2>2
<1>9. RestartInv'
    BY RestartKept DEF RxCplt
<1>10. QED
    BY <1>1, <1>2, <1>3, <1>7, <1>8, <1>9, TypeParts

(* Bytes are lost; the interrupt reports it, or the UART stays off.        *)
LEMMA LossKeeps ==
    ASSUME IInv, ErrorInterrupt \/ Stall
    PROVE  IInv'
<1> USE DEF IInv
<1>1. ControlTypeOK' /\ FlagTypeOK'
    BY TypeParts DEF ErrorInterrupt, Stall, ControlTypeOK, FlagTypeOK, dataVars
<1>2. AgeTypeOK'
    BY TypeParts, Sizes DEF ErrorInterrupt, Stall, AgeTypeOK, dataVars
<1>3. FrameTypeOK' /\ RingTypeOK'
    BY TypeParts DEF ErrorInterrupt, Stall, FrameTypeOK, RingTypeOK
<1>4. FailsafeIsConfirmed' /\ AcceptedInv'
    <2>1. late => late'
        BY DEF ErrorInterrupt, Stall
    <2>2. QED
        BY <2>1, VerdictKept DEF ErrorInterrupt, Stall, AcceptedInv, dataVars
<1>5. StreamInv'
    <2>1. CASE ErrorInterrupt
        BY <2>1 DEF ErrorInterrupt, StreamInv, Reported
    <2>2. CASE Stall
        BY <2>2, StreamKept DEF Stall, Reported
    <2>3. QED
        BY <2>1, <2>2
<1>6. RestartInv'
    BY RestartKept DEF ErrorInterrupt, Stall
<1>7. QED
    BY <1>1, <1>2, <1>3, <1>4, <1>5, <1>6, TypeParts

LEMMA TickKeeps ==
    ASSUME IInv, Tick
    PROVE  IInv'
<1> USE DEF IInv
<1>1. ControlTypeOK' /\ FlagTypeOK' /\ FrameTypeOK' /\ RingTypeOK'
    BY TypeParts DEF Tick, ControlTypeOK, FlagTypeOK, FrameTypeOK, RingTypeOK
<1>2. AgeTypeOK'
    BY TypeParts, Sizes DEF Tick, Older, AgeTypeOK, NEVER
<1>3. FailsafeIsConfirmed'
    BY TypeParts DEF Tick, Older, FailsafeIsConfirmed, AgeTypeOK
<1>4. AcceptedInv'
    BY DEF Tick, AcceptedInv, TornFramesAreCaught
<1>5. StreamInv'
    BY StreamKept DEF Tick, Reported
<1>6. RestartInv'
    BY RestartKept DEF Tick
<1>7. QED
    BY <1>1, <1>2, <1>3, <1>4, <1>5, <1>6, TypeParts

(* The statements of sbus_update around the parser.                        *)
LEMMA UpdateKeeps ==
    ASSUME IInv, \/ Begin \/ Recover \/ Check \/ Resync \/ NothingToParse
                 \/ Probe \/ Judge \/ Restart
    PROVE  IInv'
<1> USE DEF IInv
<1>1. CASE Begin
    <2>1. ControlTypeOK' /\ FlagTypeOK'
        BY <1>1, TypeParts DEF Begin, ControlTypeOK, FlagTypeOK, after_begin, dataVars
    <2>2. AgeTypeOK'
        BY <1>1, TypeParts, Sizes DEF Begin, AgeTypeOK, after_begin, dataVars
    <2>3. FailsafeIsConfirmed' /\ AcceptedInv'
        BY <1>1, VerdictKept DEF Begin, AcceptedInv, after_begin, dataVars
    <2>4. FrameTypeOK' /\ RingTypeOK'
        BY <1>1, TypeParts DEF Begin, FrameTypeOK, RingTypeOK, after_begin, dataVars
    <2>5. StreamInv'
        BY <1>1, StreamKept DEF Begin, Reported, after_begin, dataVars
    <2>6. RestartInv'
        BY <1>1, RestartKept DEF Begin, after_begin, Restarting
    <2>7. QED
        BY <2>1, <2>2, <2>3, <2>4, <2>5, <2>6, TypeParts
<1>2. CASE Recover
    <2>1. ControlTypeOK' /\ FlagTypeOK'
        BY <1>2, TypeParts DEF Recover, ControlTypeOK, FlagTypeOK, Restarting, discard, dataVars
    <2>2. AgeTypeOK'
        BY <1>2, TypeParts, Sizes DEF Recover, AgeTypeOK, discard, dataVars
    <2>3. FailsafeIsConfirmed' /\ AcceptedInv'
        BY <1>2, VerdictKept DEF Recover, AcceptedInv, discard, dataVars
    <2>4. QED
        BY <1>2, <2>1, <2>2, <2>3, DiscardKeeps DEF Recover, discard, frame_after_discard
<1>3. CASE Check
    <2>1. ControlTypeOK' /\ FlagTypeOK'
        <3>1. ControlTypeOK'
            BY <1>3, TypeParts DEF Check, ControlTypeOK, dataVars
        <3>2. FlagTypeOK'
            BY <1>3, TypeParts DEF Check, FlagTypeOK, dataVars
        <3>3. QED
            BY <3>1, <3>2
    <2>2. AgeTypeOK'
        BY <1>3, TypeParts, Sizes DEF Check, AgeTypeOK, dataVars
    <2>3. FailsafeIsConfirmed' /\ AcceptedInv'
        BY <1>3, VerdictKept DEF Check, AcceptedInv, dataVars
    <2>4. FrameTypeOK' /\ RingTypeOK'
        BY <1>3, TypeParts DEF Check, FrameTypeOK, RingTypeOK, dataVars
    <2>5. StreamInv'
        BY <1>3, StreamKept DEF Check, Reported, dataVars
    <2>6. RestartInv'
        BY <1>3, RestartKept DEF Check, Restarting
    <2>7. QED
        BY <2>1, <2>2, <2>3, <2>4, <2>5, <2>6, TypeParts
<1>4. CASE Resync
    <2>1. ControlTypeOK' /\ FlagTypeOK'
        BY <1>4, TypeParts DEF Resync, ControlTypeOK, FlagTypeOK, discard, dataVars
    <2>2. AgeTypeOK'
        BY <1>4, TypeParts, Sizes DEF Resync, AgeTypeOK, discard, dataVars
    <2>3. FailsafeIsConfirmed' /\ AcceptedInv'
        BY <1>4, VerdictKept DEF Resync, AcceptedInv, discard, dataVars
    <2>4. QED
        BY <1>4, <2>1, <2>2, <2>3, DiscardKeeps DEF Resync, discard, frame_after_discard
<1>5. CASE NothingToParse
    <2>1. ControlTypeOK' /\ FlagTypeOK'
        BY <1>5, TypeParts DEF NothingToParse, ControlTypeOK, FlagTypeOK, ringVars, dataVars
    <2>2. AgeTypeOK'
        BY <1>5, TypeParts, Sizes DEF NothingToParse, AgeTypeOK, ringVars, dataVars
    <2>3. FailsafeIsConfirmed' /\ AcceptedInv'
        BY <1>5, VerdictKept DEF NothingToParse, AcceptedInv, ringVars, dataVars
    <2>4. FrameTypeOK' /\ RingTypeOK'
        BY <1>5, TypeParts DEF NothingToParse, FrameTypeOK, RingTypeOK, ringVars, dataVars
    <2>5. StreamInv'
        BY <1>5, StreamKept DEF NothingToParse, Reported, ringVars, dataVars
    <2>6. RestartInv'
        BY <1>5, RestartKept DEF NothingToParse, Restarting
    <2>7. QED
        BY <2>1, <2>2, <2>3, <2>4, <2>5, <2>6, TypeParts
<1>6. CASE Probe
    <2>1. ControlTypeOK' /\ FlagTypeOK'
        <3>1. ControlTypeOK'
            BY <1>6, TypeParts DEF Probe, ControlTypeOK, Restarting, discard, dataVars
        <3>2. FlagTypeOK'
            BY <1>6, TypeParts DEF Probe, FlagTypeOK, discard, dataVars
        <3>3. QED
            BY <3>1, <3>2
    <2>2. AgeTypeOK'
        BY <1>6, TypeParts, Sizes DEF Probe, AgeTypeOK, discard, dataVars
    <2>3. FailsafeIsConfirmed' /\ AcceptedInv'
        BY <1>6, VerdictKept DEF Probe, AcceptedInv, discard, dataVars
    <2>4. CASE probe_due
        BY <1>6, <2>1, <2>2, <2>3, <2>4, DiscardKeeps DEF Probe, discard, frame_after_discard
    <2>5. CASE ~probe_due
        <3>1. FrameTypeOK' /\ RingTypeOK'
            BY <1>6, <2>5, TypeParts DEF Probe, FrameTypeOK, RingTypeOK
        <3>2. StreamInv'
            BY <1>6, <2>5, StreamKept DEF Probe, Reported
        <3>3. RestartInv'
            BY <1>6, <2>5, RestartKept DEF Probe, Restarting
        <3>4. QED
            BY <2>1, <2>2, <2>3, <3>1, <3>2, <3>3, TypeParts
    <2>6. QED
        BY <2>4, <2>5
<1>7. CASE Judge
    <2>1. ControlTypeOK' /\ FlagTypeOK'
        <3>1. ControlTypeOK'
            BY <1>7, TypeParts DEF Judge, ControlTypeOK, Restarting, discard, dataVars
        <3>2. FlagTypeOK'
            BY <1>7, TypeParts DEF Judge, FlagTypeOK, discard, dataVars
        <3>3. QED
            BY <3>1, <3>2
    <2>2. AgeTypeOK'
        BY <1>7, TypeParts, Sizes DEF Judge, AgeTypeOK, discard, dataVars
    <2>3. FailsafeIsConfirmed' /\ AcceptedInv'
        BY <1>7, VerdictKept DEF Judge, AcceptedInv, discard, dataVars
    <2>4. CASE restart_due
        BY <1>7, <2>1, <2>2, <2>3, <2>4, DiscardKeeps DEF Judge, discard, frame_after_discard
    <2>5. CASE ~restart_due
        <3>1. FrameTypeOK' /\ RingTypeOK'
            BY <1>7, <2>5, TypeParts DEF Judge, FrameTypeOK, RingTypeOK
        <3>2. StreamInv'
            BY <1>7, <2>5, StreamKept DEF Judge, Reported
        <3>3. RestartInv'
            BY <1>7, <2>5, RestartKept DEF Judge, Restarting
        <3>4. QED
            BY <2>1, <2>2, <2>3, <3>1, <3>2, <3>3, TypeParts
    <2>6. QED
        BY <2>4, <2>5
<1>8. CASE Restart
    <2>1. pc \in Restarting /\ pc' \in {"check", "judge", "idle"}
        BY <1>8 DEF Restart, Restarting, after_restart
    <2>2. ControlTypeOK' /\ FlagTypeOK'
        <3>1. ControlTypeOK'
            BY <1>8, <2>1, TypeParts DEF Restart, ControlTypeOK, restart_uart_receive
        <3>2. FlagTypeOK'
            <4>1. late' \in BOOLEAN
                BY <1>8, TypeParts DEF Restart, FlagTypeOK
            <4>2. QED
                BY <1>8, <4>1, TypeParts DEF Restart, FlagTypeOK, restart_uart_receive, dataVars
        <3>3. QED
            BY <3>1, <3>2
    <2>3. AgeTypeOK'
        BY <1>8, TypeParts, Sizes DEF Restart, AgeTypeOK, dataVars
    <2>4. FailsafeIsConfirmed' /\ AcceptedInv'
        <3>1. accepted = "nothing" /\ accepted' = accepted
            BY <1>8, <2>1 DEF Restart, AcceptedInv, Restarting
        <3>2. QED
            BY <1>8, <3>1, VerdictKept DEF Restart, dataVars
    <2>5. FrameTypeOK' /\ RingTypeOK'
        BY <1>8, TypeParts DEF Restart, FrameTypeOK, RingTypeOK
    <2>6. frame' = <<>> /\ rx_ring' = rx_ring /\ (rx_ring # <<>> => late')
        BY <1>8, <2>1 DEF Restart, RestartInv
    <2>7. StreamInv'
        <3>1. CASE rx_ring = <<>>
            BY <2>6, <3>1, EmptyIsTypedNext DEF StreamInv
        <3>2. CASE rx_ring # <<>>
            BY <2>6, <3>2 DEF StreamInv, Reported
        <3>3. QED
            BY <3>1, <3>2
    <2>8. RestartInv'
        BY <2>6 DEF RestartInv
    <2>9. QED
        BY <2>2, <2>3, <2>4, <2>5, <2>7, <2>8, TypeParts
<1>9. QED
    BY <1>1, <1>2, <1>3, <1>4, <1>5, <1>6, <1>7, <1>8

LEMMA CommandsKeep ==
    ASSUME IInv, Commands
    PROVE  IInv'
<1> USE DEF IInv
<1>1. CASE SetConfig
    <2>1. ControlTypeOK' /\ FlagTypeOK'
        BY <1>1, TypeParts DEF SetConfig, ControlTypeOK, FlagTypeOK
    <2>2. AgeTypeOK'
        BY <1>1, Sizes DEF SetConfig, AgeTypeOK, NEVER
    <2>3. FailsafeIsConfirmed' /\ AcceptedInv'
        BY <1>1 DEF SetConfig, FailsafeIsConfirmed, AcceptedInv, TornFramesAreCaught
    <2>4. QED
        BY <1>1, <2>1, <2>2, <2>3, DiscardKeeps DEF SetConfig
<1>2. CASE SetConfigFails
    <2>1. ControlTypeOK' /\ FlagTypeOK'
        BY <1>2, TypeParts DEF SetConfigFails, ControlTypeOK, FlagTypeOK, restart_uart_receive, dataVars
    <2>2. AgeTypeOK'
        BY <1>2, TypeParts, Sizes DEF SetConfigFails, AgeTypeOK, restart_uart_receive, dataVars
    <2>3. FailsafeIsConfirmed' /\ AcceptedInv'
        BY <1>2, VerdictKept DEF SetConfigFails, AcceptedInv, restart_uart_receive, dataVars
    <2>4. FrameTypeOK' /\ RingTypeOK'
        BY <1>2, TypeParts DEF SetConfigFails, FrameTypeOK, RingTypeOK, restart_uart_receive, dataVars
    <2>5. StreamInv'
        BY <1>2, StreamKept DEF SetConfigFails, Reported, restart_uart_receive, dataVars
    <2>6. RestartInv'
        BY <1>2, RestartKept DEF SetConfigFails
    <2>7. QED
        BY <2>1, <2>2, <2>3, <2>4, <2>5, <2>6, TypeParts
<1>3. CASE BindFails
    <2>1. ControlTypeOK' /\ FlagTypeOK'
        BY <1>3, TypeParts DEF BindFails, ControlTypeOK, FlagTypeOK, restart_uart_receive, dataVars
    <2>2. AgeTypeOK'
        BY <1>3, TypeParts, Sizes DEF BindFails, AgeTypeOK, restart_uart_receive, dataVars
    <2>3. FailsafeIsConfirmed' /\ AcceptedInv'
        BY <1>3, VerdictKept DEF BindFails, AcceptedInv, restart_uart_receive, dataVars
    <2>4. FrameTypeOK' /\ RingTypeOK'
        BY <1>3, TypeParts DEF BindFails, FrameTypeOK, RingTypeOK, restart_uart_receive, dataVars
    <2>5. StreamInv'
        BY <1>3 DEF BindFails, StreamInv, restart_uart_receive, dataVars
    <2>6. RestartInv'
        BY <1>3, RestartKept DEF BindFails
    <2>7. QED
        BY <2>1, <2>2, <2>3, <2>4, <2>5, <2>6, TypeParts
<1>4. QED
    BY <1>1, <1>2, <1>3 DEF Commands
-----------------------------------------------------------------------------
(* The parser.                                                             *)

(* While no loss has been missed, a frame holds no gap but in front.       *)
LEMMA WholeFrame ==
    ASSUME IInv, NEW g, Parse(g), protocol = "SBUS", ~Reported
    PROVE  \A i \in 2 .. Len(g) : ~g[i].gap
<1>1. g = next_frame /\ StreamIsWhole /\ TypeOK /\ rx_ring # <<>>
    BY DEF IInv, Parse, StreamInv
<1>2. \A i \in 2 .. Len(frame) : ~g[i].gap
    BY <1>1, NextFrame DEF StreamIsWhole
<1>3. frame # <<>> => ~g[Len(g)].gap
    BY <1>1, NextFrame DEF StreamIsWhole
<1>4. frame = <<>> => Len(g) = 1
    BY <1>1, NextFrame, EmptyIsSeq
<1>5. Len(frame) \in Nat /\ Len(g) = Len(frame) + 1
    BY <1>1, NextFrame, LenProperties DEF TypeOK
<1>6. QED
    BY <1>2, <1>3, <1>4, <1>5

(* A byte that completes nothing, or a frame that is refused: the frame    *)
(* becomes rest, a part of what the parser had.                            *)
LEMMA RejectsKeep ==
    ASSUME IInv, NEW g, Parse(g), NEW rest \in Seq(Byte), Rejects(rest),
           Len(rest) < FRAME_SIZE, rest # <<>> => rest[1].kind = "start",
           \A i \in 2 .. Len(rest) : protocol = "SBUS" => rest[i] \in {g[j] : j \in 2 .. Len(g)}
    PROVE  IInv'
<1> USE DEF IInv
<1>1. ControlTypeOK' /\ FlagTypeOK' /\ AgeTypeOK'
    BY TypeParts DEF Parse, Rejects, ControlTypeOK, FlagTypeOK, AgeTypeOK, dataVars
<1>2. FailsafeIsConfirmed' /\ AcceptedInv'
    BY VerdictKept DEF Parse, Rejects, AcceptedInv, dataVars
<1>3. FrameTypeOK'
    <2>1. rest # <<>> => 1 \in 1 .. Len(rest)
        BY EmptySeq
    <2>2. QED
        BY <2>1, FramedKeeps DEF Rejects, FrameTypeOK
<1>4. RingTypeOK'
    BY NextFrame, TypeParts, Sizes DEF Parse, RingTypeOK
<1>5. protocol = "SBUS" /\ ~Reported => \A i \in 2 .. Len(g) : ~g[i].gap
    BY WholeFrame
<1>6. StreamInv'
    <2> SUFFICES ASSUME protocol = "SBUS", ~Reported
                 PROVE  StreamIsWhole' /\ (uart = "listening" => EndIsWhole')
        BY DEF StreamInv, Parse, Rejects, Reported
    <2>1. \A i \in 2 .. Len(frame') : ~frame'[i].gap
        BY <1>5, FramedKeeps DEF Rejects
    <2>2. \A i \in 1 .. Len(rx_ring') : ~rx_ring'[i].gap
        BY NextFrame DEF Parse, StreamInv, StreamIsWhole
    <2>3. uart = "listening" => ~lost'
        BY NextFrame DEF Parse, StreamInv, EndIsWhole
    <2>4. QED
        BY <2>1, <2>2, <2>3 DEF StreamIsWhole, EndIsWhole
<1>7. RestartInv'
    BY DEF Parse, RestartInv, Restarting
<1>8. QED
    BY <1>1, <1>2, <1>3, <1>4, <1>6, <1>7, TypeParts

(* A frame that is taken leaves an empty one, and what FailsafeIsConfirmed *)
(* says of the failsafe is left to the steps below.                        *)
LEMMA AcceptKeeps ==
    ASSUME IInv, NEW g, Parse(g), NEW fs \in BOOLEAN, Accept(g, fs),
           FailsafeIsConfirmed', failsafe' \in BOOLEAN, failsafe_pending' \in BOOLEAN,
           failsafe_age' \in 0 .. FAILSAFE_CONFIRM,
           protocol = "CRSF" => ~Torn(g)
    PROVE  IInv'
<1> USE DEF IInv
<1>1. ControlTypeOK'
    BY TypeParts DEF Parse, Accept, ControlTypeOK
<1>2. FlagTypeOK'
    BY TypeParts DEF Parse, Accept, FlagTypeOK
<1>3. AgeTypeOK'
    BY TypeParts, Sizes DEF Parse, Accept, AgeTypeOK
<1>4. FrameTypeOK'
    BY EmptyIsTypedNext DEF Accept
<1>5. RingTypeOK'
    BY NextFrame, TypeParts, Sizes DEF Parse, RingTypeOK
<1>6. pc = "parse" /\ pc' = "parse"
    BY DEF Parse
<1>7. ~Reported' => ~Reported
    BY <1>6 DEF Accept, Reported
<1>8. ASSUME ~late
      PROVE  ~Torn(g)
    <2>1. CASE protocol = "CRSF"
        BY <2>1
    <2>2. CASE protocol = "SBUS"
        BY <1>6, <1>8, <2>2, WholeFrame DEF Torn, Reported
    <2>3. QED
        BY <2>1, <2>2, TypeParts DEF ControlTypeOK
<1>9. AcceptedInv'
    BY <1>6, <1>8 DEF Accept, AcceptedInv, TornFramesAreCaught
<1>10. StreamInv'
    <2> SUFFICES ASSUME protocol = "SBUS", ~Reported
                 PROVE  StreamIsWhole' /\ (uart = "listening" => EndIsWhole')
        BY <1>7 DEF StreamInv, Parse
    <2>1. \A i \in 1 .. Len(rx_ring') : ~rx_ring'[i].gap
        BY NextFrame DEF Parse, StreamInv, StreamIsWhole
    <2>2. uart = "listening" => ~lost'
        BY NextFrame DEF Parse, StreamInv, EndIsWhole
    <2>3. Len(frame') = 0
        BY EmptyIsSeq DEF Accept
    <2>4. QED
        BY <2>1, <2>2, <2>3 DEF StreamIsWhole, EndIsWhole
<1>11. RestartInv'
    BY <1>6 DEF RestartInv, Restarting
<1>12. QED
    BY <1>1, <1>2, <1>3, <1>4, <1>5, <1>9, <1>10, <1>11, TypeParts

(* Failsafe needs a second flagged frame after the confirmation time, and  *)
(* the time runs only from the first.                                      *)
LEMMA ParseByteKeeps ==
    ASSUME IInv, ParseByte
    PROVE  IInv'
<1> USE DEF IInv
<1> DEFINE g == next_frame
<1> SUFFICES ASSUME \/ Collect(g) \/ SbusInvalid(g) \/ SbusNormal(g) \/ SbusFailsafe(g)
                    \/ CrsfOther(g) \/ CrsfChannels(g)
             PROVE  IInv'
    BY DEF ParseByte
<1>1. Parse(g) /\ rx_ring # <<>>
    BY DEF Collect, SbusInvalid, SbusNormal, SbusFailsafe, CrsfOther, CrsfChannels, Parse
<1>2. g \in Seq(Byte) /\ Len(g) \in 1 .. FRAME_SIZE
    BY <1>1, NextFrame
<1>3. \A i \in 2 .. Len(<<>>) : protocol = "SBUS" => <<>>[i] \in {g[j] : j \in 2 .. Len(g)}
    BY EmptyIsSeq
<1> HIDE DEF g
<1>4. CASE Collect(g)
    <2> DEFINE rest == IF g[1].kind # "start" \/ (protocol = "CRSF" /\ Len(g) = 2 /\ ~length_in_range(g))
                       THEN <<>> ELSE g
    <2>1. Rejects(rest) /\ Len(g) # FRAME_SIZE
        BY <1>4 DEF Collect, frame_complete
    <2>2. rest = <<>> \/ (rest = g /\ g[1].kind = "start")
        OBVIOUS
    <2> HIDE DEF rest
    <2>3. /\ Len(rest) < FRAME_SIZE /\ rest \in Seq(Byte) /\ (rest # <<>> => rest[1].kind = "start")
          /\ \A i \in 2 .. Len(rest) : protocol = "SBUS" => rest[i] \in {g[j] : j \in 2 .. Len(g)}
        <3>1. CASE rest = <<>>
            <4>1. Len(rest) < FRAME_SIZE /\ rest \in Seq(Byte)
                BY <3>1, EmptyIsSeq, Sizes
            <4>2. QED
                BY <1>3, <3>1, <4>1
        <3>2. CASE rest = g /\ g[1].kind = "start"
            <4>1. Len(g) < FRAME_SIZE
                BY <1>2, <2>1, ShortFrame
            <4>2. QED
                BY <1>2, <3>2, <4>1
        <3>3. QED
            BY <2>2, <3>1, <3>2
    <2>4. QED
        BY <1>1, <2>1, <2>3, RejectsKeep
<1>5. CASE SbusInvalid(g)
    <2> DEFINE rest == resync_frame(g)
    <2>1. Rejects(rest) /\ Len(g) = FRAME_SIZE
        BY <1>5 DEF SbusInvalid, frame_complete
    <2>2. /\ rest \in Seq(Byte) /\ Len(rest) < FRAME_SIZE
          /\ rest # <<>> => rest[1].kind = "start"
          /\ \A i \in 1 .. Len(rest) : rest[i] \in {g[j] : j \in 2 .. Len(g)}
        BY <1>2, <2>1, ResyncShortens
    <2> HIDE DEF rest
    <2>3. QED
        BY <1>1, <2>1, <2>2, RejectsKeep
<1>6. CASE SbusNormal(g)
    <2>1. Accept(g, FALSE) /\ ~failsafe' /\ ~failsafe_pending' /\ failsafe_age' = 0 /\ protocol = "SBUS"
        BY <1>6 DEF SbusNormal
    <2>2. FailsafeIsConfirmed' /\ failsafe' \in BOOLEAN /\ failsafe_pending' \in BOOLEAN
        BY <1>6 DEF SbusNormal, FailsafeIsConfirmed
    <2>3. failsafe_age' \in 0 .. FAILSAFE_CONFIRM
        BY <2>1, Sizes
    <2>4. QED
        BY <1>1, <2>1, <2>2, <2>3, AcceptKeeps
<1>7. CASE SbusFailsafe(g)
    <2>1. /\ Accept(g, TRUE) /\ protocol = "SBUS" /\ protocol' = "SBUS" /\ failsafe_pending' = TRUE
          /\ failsafe_age' = IF failsafe_pending THEN failsafe_age ELSE 0
          /\ failsafe' = (failsafe_age' >= FAILSAFE_CONFIRM)
        BY <1>1, <1>7 DEF SbusFailsafe, confirmed, Parse
    <2>2. failsafe_age' \in 0 .. FAILSAFE_CONFIRM /\ failsafe' \in BOOLEAN
        BY <2>1, TypeParts, Sizes DEF AgeTypeOK
    <2>3. flagged \in 0 .. 2 /\ flagged' = IF flagged < 2 THEN flagged + 1 ELSE 2
        BY <2>1, TypeParts DEF Accept, AgeTypeOK
    <2>4. ASSUME failsafe' PROVE failsafe_age' = FAILSAFE_CONFIRM /\ failsafe_pending
        <3>1. failsafe_age' >= FAILSAFE_CONFIRM
            BY <2>1, <2>4
        <3>2. CASE ~failsafe_pending
            BY <2>1, <3>1, <3>2, Sizes
        <3>3. CASE failsafe_pending
            BY <2>2, <3>1, <3>3, Sizes
        <3>4. QED
            BY <3>2, <3>3
    <2>5. failsafe' => flagged' = 2 /\ failsafe_age' = FAILSAFE_CONFIRM
        BY <2>1, <2>3, <2>4 DEF FailsafeIsConfirmed
    <2>6. FailsafeIsConfirmed'
        BY <2>1, <2>3, <2>5 DEF FailsafeIsConfirmed
    <2>7. QED
        BY <1>1, <2>1, <2>2, <2>6, AcceptKeeps
<1>8. CASE CrsfOther(g)
    <2>1. Rejects(<<>>)
        BY <1>8 DEF CrsfOther
    <2>2. <<>> \in Seq(Byte) /\ Len(<<>>) < FRAME_SIZE
        BY EmptyIsSeq, Sizes
    <2>3. QED
        BY <1>1, <1>3, <2>1, <2>2, RejectsKeep
<1>9. CASE CrsfChannels(g)
    <2>1. Accept(g, FALSE) /\ ~Torn(g) /\ protocol = "CRSF" /\ protocol' = "CRSF"
        BY <1>1, <1>9 DEF CrsfChannels, is_rc_frame, crc_ok, Parse
    <2>2. FailsafeIsConfirmed' /\ failsafe' \in BOOLEAN /\ failsafe_pending' \in BOOLEAN
        BY <1>9, <2>1, TypeParts DEF CrsfChannels, FailsafeIsConfirmed, FlagTypeOK
    <2>3. failsafe_age' \in 0 .. FAILSAFE_CONFIRM
        BY <1>9, TypeParts DEF CrsfChannels, AgeTypeOK
    <2>4. QED
        BY <1>1, <2>1, <2>2, <2>3, AcceptKeeps
<1>10. QED
    BY <1>4, <1>5, <1>6, <1>7, <1>8, <1>9
-----------------------------------------------------------------------------
LEMMA StepKeeps == IInv /\ [Next]_vars => IInv'
<1> SUFFICES ASSUME IInv, [Next]_vars PROVE IInv'
    OBVIOUS
<1>1. CASE UNCHANGED vars
    <2>1. (ControlTypeOK /\ FlagTypeOK /\ AgeTypeOK /\ FrameTypeOK /\ RingTypeOK)'
        BY <1>1, TypeParts DEF IInv, vars, ringVars, dataVars, ControlTypeOK, FlagTypeOK,
            AgeTypeOK, FrameTypeOK, RingTypeOK
    <2>2. FailsafeIsConfirmed' /\ AcceptedInv'
        BY <1>1, VerdictKept DEF IInv, AcceptedInv, vars, ringVars, dataVars
    <2>3. StreamInv'
        BY <1>1, StreamKept DEF IInv, Reported, vars, ringVars, dataVars
    <2>4. RestartInv'
        BY <1>1, RestartKept DEF IInv, vars
    <2>5. QED
        BY <2>1, <2>2, <2>3, <2>4, TypeParts DEF IInv
<1>2. CASE Next
    BY <1>2, RxCpltKeeps, LossKeeps, TickKeeps, UpdateKeeps, ParseByteKeeps, CommandsKeep
        DEF Next, Update
<1>3. QED
    BY <1>1, <1>2

(* The invariant everything below rests on: as long as no loss waits to be *)
(* acted on, or was missed, the bytes of an SBUS stream that sbus_update   *)
(* has and will get follow one another without a gap.                      *)
THEOREM ReceiverInvariance == Spec => []IInv
<1>1. Init => IInv
    BY InitKeeps
<1>2. IInv /\ [Next]_vars => IInv'
    BY StepKeeps
<1>3. QED
    BY <1>1, <1>2, PTL DEF Spec

(* Every variable of the driver keeps its range: the ring and the frame    *)
(* never overflow, for any size of the ring.                               *)
THEOREM ReceiverTypes == Spec => []TypeOK
<1>1. IInv => TypeOK
    BY DEF IInv
<1>2. QED
    BY <1>1, ReceiverInvariance, PTL

(* A frame put together from bytes on both sides of a loss is taken for    *)
(* channels only through one of the three windows of the code: the loss is *)
(* reported after the running call has read the flag, its report is        *)
(* dropped by the first valid frame, or it is made by a restart with a     *)
(* byte received after the discard before it.                              *)
THEOREM TornCaught == Spec => []TornFramesAreCaught
<1>1. IInv => TornFramesAreCaught
    BY DEF IInv, AcceptedInv
<1>2. QED
    BY <1>1, ReceiverInvariance, PTL

(* Failsafe is raised only by two flagged frames at least                  *)
(* FAILSAFE_CONFIRM apart with no normal frame between them, and never     *)
(* under CRSF.                                                             *)
THEOREM FailsafeConfirmed == Spec => []FailsafeIsConfirmed
<1>1. IInv => FailsafeIsConfirmed
    BY DEF IInv
<1>2. QED
    BY <1>1, ReceiverInvariance, PTL
=============================================================================
