----------------------------- MODULE ConnGate ------------------------------
(***************************************************************************)
(* What the admission of connections of tcpengine.go promises, without     *)
(* locks, workers or handlers: at most limit connections inside (0 for     *)
(* unlimited), none admitted once the shutdown drains the engine, and      *)
(* closed only when everyone has left.                                     *)
(***************************************************************************)
EXTENDS Integers

CONSTANT limit
VARIABLES inside, phase

Init == inside = 0 /\ phase = "open"

Enter ==
    /\ phase = "open"
    /\ limit = 0 \/ inside < limit
    /\ inside' = inside + 1 /\ UNCHANGED phase

Leave ==
    /\ inside > 0
    /\ inside' = inside - 1 /\ UNCHANGED phase

Drain  == phase = "open" /\ phase' = "draining" /\ UNCHANGED inside

Finish == phase = "draining" /\ inside = 0 /\ phase' = "closed" /\ UNCHANGED inside

Next == Enter \/ Leave \/ Drain \/ Finish

Spec == Init /\ [][Next]_<<inside, phase>>
============================================================================
