---------------------------- MODULE BootInterlock ----------------------------
(***************************************************************************)
(* MainLoop with a history variable: what the first valid receiver frame   *)
(* after power-up said about the ARM switch.  boot_arm_guard_update is     *)
(* called from flight_control_update only, so the frame the guard decides  *)
(* on is the first one that meets a gyro sample, with the tuning menu and  *)
(* the ESC passthrough closed, and not the first one received.             *)
(***************************************************************************)
EXTENDS MainLoop

VARIABLE first_frame   \* "none", "off" or "on"

bootVars == <<vars, first_frame>>

BootInit == Init /\ first_frame = "none"

(* The history is taken where the frame is, and a restart forgets it.      *)
BootReceive ==
    /\ Receive
    /\ first_frame' =
          IF first_frame = "none" /\ rx'.valid
          THEN IF arm_switch(rx') THEN "on" ELSE "off"
          ELSE first_frame

BootReset == ProcessorReset /\ first_frame' = "none"

(* The host changes no setting that reads the frame in another way: the    *)
(* switch itself stays what the first frame said.                          *)
BootOther ==
    /\ Menu \/ HostCommand \/ ConfigDone \/ ControlPart \/ Output
    /\ UNCHANGED <<rx, first_frame>>

BootNext == BootReceive \/ BootReset \/ BootOther

BootSpec == BootInit /\ [][BootNext]_bootVars

(* README.md:241: "The first valid receiver signal is checked at startup.  *)
(* If ARM is active, arming is blocked until restart."                     *)
FirstSignalBlocksArming == first_frame = "on" => ~armed
=============================================================================
