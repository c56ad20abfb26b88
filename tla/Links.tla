-------------------------------- MODULE Links ---------------------------------
(***************************************************************************)
(* The serial links of the flight controller as the main loop serves them: *)
(* the video transmitter (VideoLink), which is told whether the craft is   *)
(* armed, and the USB host (HostLink), whose passthrough sessions are      *)
(* refused in flight and keep the craft from arming.  To bound the product *)
(* of the two, a behaviour has either a video transmitter or a host.       *)
(***************************************************************************)
EXTENDS VideoLink, HostLink

ASSUME LinkSizes ==
    /\ {MAX_ATTEMPTS, RX_SIZE} \subseteq Nat \ {0}
    /\ TX_SIZE \in Nat \ {0, 1}                \* no answer is longer than the ring
    /\ TX_PACKETS \in Nat \ {0, 1} /\ LINE_LENGTH \in Nat \ {0, 1, 2}
    /\ AFTER_DAMAGE \in Nat
    /\ ESCS \subseteq {1, 2} /\ 1 \in ESCS      \* selected_esc starts at the first

VARIABLE armed      \* flight_control_is_armed()

vars == <<armed, videoVars, hostVars>>

Init ==
    /\ armed = FALSE
    /\ \/ vtx_protocol = "OFF" /\ platform \in {"stm32", "at32"}
       \/ vtx_protocol \in {"SMARTAUDIO", "TRAMP", "HDZERO_MSP"} /\ platform = "none"
    /\ VideoInit /\ HostInit

(* The loop leaves before flight control while a session is active.        *)
Fly ==
    /\ ~fourway_active
    /\ armed' = ~armed
    /\ UNCHANGED <<videoVars, hostVars>>

Video == VideoNext(armed) /\ UNCHANGED <<armed, hostVars>>

Host == HostNext(armed) /\ UNCHANGED <<armed, videoVars>>

Next == Fly \/ Video \/ Host

(* The loop serves each of them, in a session too, and the interrupts of   *)
(* the USB occur, while the host reads and writes; the transmitter need not*)
(* answer, and nobody has to arm, plug in, edit or ask for telemetry.      *)
Fairness ==
    /\ WF_vars(VtxUpdate(armed) /\ UNCHANGED <<armed, hostVars>>)
    /\ WF_vars(UsbReceive /\ UNCHANGED <<armed, videoVars>>)
    /\ WF_vars(UsbPoll /\ UNCHANGED <<armed, videoVars>>)
    /\ WF_vars(UsbSent /\ UNCHANGED <<armed, videoVars>>)
    /\ WF_vars(config_protocol_update(armed) /\ UNCHANGED <<armed, videoVars>>)

Spec == Init /\ [][Next]_vars /\ Fairness

-----------------------------------------------------------------------------
(* The state of both links is of its type; a SmartAudio or Tramp driver    *)
(* that is still at work has not used up its attempts, a reply on the USB  *)
(* keeps the endpoint busy, and no queue outgrows its buffer.              *)
TypeOK ==
    /\ armed \in BOOLEAN
    /\ VideoTypeOK
    /\ HostTypeOK

(* "APPLIED" is the transmitter's word: the driver reports it only when the*)
(* transmitter itself is on the channel and power of the settings, whatever*)
(* was lost, late or repeated on the half-duplex line before               *)
(* (vtx_smartaudio.c process_settings, vtx_tramp.c vtx_tramp_update).      *)
AppliedIsTrue == state = "DONE" => vtx = rf

NoConfigIn(positions) == \A i \in positions : tx_queue[i].kind # "config"

(* "Settings sent" means that the settings of now are the last that were   *)
(* queued for the transmitter, not some that were replaced since           *)
(* (hdzero_msp.h, docs/hdzero-msp.md).                                     *)
SentMeansQueued ==
    settings_sent =>
        \/ NoConfigIn(1 .. Len(tx_queue)) /\ on_air = config
        \/ \E last \in 1 .. Len(tx_queue) :
              /\ tx_queue[last].kind = "config" /\ tx_queue[last].rf = config
              /\ NoConfigIn(last + 1 .. Len(tx_queue))

(* Once the pilot leaves the settings and the ARM switch alone, SmartAudio *)
(* stops talking, with success or without, however the line and the        *)
(* transmitter behave (MAX_ATTEMPTS of vtx_smartaudio.c).                  *)
SmartAudioSettles ==
    vtx_protocol = "SMARTAUDIO" /\ <>[][UNCHANGED <<armed, rf>>]_vars
        => <>[](state \notin Busy \/ armed)

-----------------------------------------------------------------------------
(* A command line that is processed is one that the host wrote, with       *)
(* nothing missing and nothing of another.  What can tear it: on the STM32 *)
(* a host faster than the loop, a line longer than the buffer, a cable     *)
(* pulled in the middle, a frame in the wrong mode (config_protocol_update,*)
(* cdc_receive and receive_packet).                                        *)
LinesAreWhole == torn => damage # "none"

(* An erase that an ESC carries out uses the page size of that ESC's       *)
(* family, for a host that erases only what INIT_FLASH just found, over    *)
(* failed probes, resets, and sessions that follow one another with the    *)
(* device_info and interface_mode of the last (boot_probe, boot_erase_page)*)
ErasesMatchDevice == wrong_page => damage # "none"

(* A host that waits for an answer gets it, every line of it and in order, *)
(* however slowly it reads: none is lost between the parser, the ring and  *)
(* the endpoint, unless one of the four things above happened or telemetry *)
(* was left in the ring and a line of the answer found no room behind it   *)
(* (usb_cdc_write, usb_cdc_poll, config_protocol_send_telemetry).          *)
HostIsAnswered ==
    waiting # NONE ~> (waiting = NONE \/ damage # "none" \/ crowded_out)
=============================================================================
