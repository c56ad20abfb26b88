------------------------------ MODULE MCMainLoop ------------------------------
(***************************************************************************)
(* Model checking MainLoop.  The safety run explores MainLoop!Spec whole.  *)
(* The liveness run leaves out what none of its properties depends on and  *)
(* what would double the states twice: a host that asks for a PID          *)
(* simulation, and one that asks for a restart.                            *)
(***************************************************************************)
EXTENDS MainLoop

NoSimulationNoRestart == Next /\ ~pid_simulation_enabled' /\ ~reset_pending'

LiveSpec == Init /\ [][NoSimulationNoRestart]_vars /\ Fairness
=============================================================================
