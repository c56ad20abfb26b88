---------------------------- MODULE MotorInterlock ----------------------------
(***************************************************************************)
(* What the flight loop promises about the motors, without saying how:     *)
(* arming is a separate, cancellable stage between safe and armed; mixer   *)
(* output reaches the ESCs only when armed and bench-test output only when *)
(* not armed; a craft armed for a simulation drives nothing until it has   *)
(* been disarmed; and a startup with the ARM switch on locks arming out    *)
(* until the next power-up.  MainLoop is shown to implement this module.   *)
(***************************************************************************)

VARIABLES
    mode,       \* "safe", "arming" or "armed"
    locked,     \* the startup interlock has tripped
    simulated,  \* the host replaces the craft by a simulation
    drive       \* what the last ESC frame carried: "zero", "test" or "fly"

vars == <<mode, locked, simulated, drive>>

Init == mode = "safe" /\ ~locked /\ ~simulated /\ drive = "zero"

Lock == mode = "safe" /\ locked' = TRUE /\ UNCHANGED <<mode, simulated, drive>>

Request ==
    /\ mode = "safe" /\ ~locked
    /\ mode' = "arming"
    /\ UNCHANGED <<locked, simulated, drive>>

Arm ==
    /\ mode = "arming" /\ ~locked
    /\ mode' = "armed"
    /\ UNCHANGED <<locked, simulated, drive>>

Disarm == mode' = "safe" /\ UNCHANGED <<locked, simulated, drive>>

Simulate ==
    /\ mode # "armed"
    /\ simulated' = ~simulated
    /\ UNCHANGED <<mode, locked, drive>>

Fly ==
    /\ mode = "armed" /\ ~simulated
    /\ drive' = "fly"
    /\ UNCHANGED <<mode, locked, simulated>>

Bench ==
    /\ mode # "armed" /\ ~simulated
    /\ drive' = "test"
    /\ UNCHANGED <<mode, locked, simulated>>

Stop == drive' = "zero" /\ UNCHANGED <<mode, locked, simulated>>

PowerUp == mode' = "safe" /\ locked' = FALSE /\ simulated' = FALSE /\ drive' = "zero"

Next ==
    \/ Lock \/ Request \/ Arm \/ Disarm
    \/ Simulate \/ Fly \/ Bench \/ Stop \/ PowerUp

Spec == Init /\ [][Next]_vars
=============================================================================
