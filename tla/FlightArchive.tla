----------------------------- MODULE FlightArchive -----------------------------
(***************************************************************************)
(* What a flight recorder that keeps one flight promises, without saying   *)
(* how: it keeps the newest committed flight, with every record that the   *)
(* flight took, and changes what it keeps at once and only by committing a *)
(* later flight or by being cleared; a flight that is cut short is lost as *)
(* a whole.  BlackboxFlash is shown to implement this module.              *)
(***************************************************************************)
EXTENDS Integers

CONSTANT Id    \* the numbers of flights, positive integers

VARIABLES
    kept,       \* the flight that the next power-up retains
    recording,  \* a flight is under way
    taken       \* how many records it has taken

vars == <<kept, recording, taken>>

Kept(id, count, whole) == [id |-> id, count |-> count, whole |-> whole]

NOTHING == Kept(0, 0, TRUE)

Init == kept = NOTHING /\ ~recording /\ taken = 0

(* A flight begins; that of a self test brings its record along.           *)
Begin ==
    /\ ~recording /\ recording' = TRUE
    /\ taken' \in {0, 1}
    /\ UNCHANGED kept

Take ==
    /\ recording
    /\ taken' = taken + 1
    /\ UNCHANGED <<kept, recording>>

(* A recorder that does not learn of its commit stays where it was.        *)
Commit ==
    /\ recording /\ taken > 0
    /\ \E id \in Id : id > kept.id /\ kept' = Kept(id, taken, TRUE)
    /\ \/ recording' = FALSE /\ taken' = 0
       \/ UNCHANGED <<recording, taken>>

(* The flight took nothing, or the power failed.                           *)
Discard ==
    /\ recording /\ recording' = FALSE /\ taken' = 0
    /\ UNCHANGED kept

Clear ==
    /\ ~recording
    /\ kept' = NOTHING
    /\ UNCHANGED <<recording, taken>>

Next == Begin \/ Take \/ Commit \/ Discard \/ Clear

Spec == Init /\ [][Next]_vars
=============================================================================
