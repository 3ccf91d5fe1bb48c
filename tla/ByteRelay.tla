----------------------------- MODULE ByteRelay -----------------------------
(***************************************************************************)
(* What Transfer of netsplice-echo-proxy promises its two peers, without   *)
(* goroutines, flags or events: the bytes that arrive at one end leave at  *)
(* the other, each once.  Bytes are lost only when an end goes down: what  *)
(* waits there, what is on its way to it, and one byte taken from it.      *)
(***************************************************************************)
EXTENDS Integers

VARIABLES
    unsent,     \* bytes the peer at an end still has to send
    waiting,    \* bytes that have arrived at an end
    taken,      \* bytes taken from an end, in the relay's hands
    leaving,    \* bytes from an end that leave at the other
    down        \* ends that are being closed, or were reset

End == {1, 2}
Other(f) == 3 - f

Init ==
    /\ unsent \in [End -> Nat] /\ down = {}
    /\ waiting = [f \in End |-> 0] /\ taken = [f \in End |-> 0] /\ leaving = [f \in End |-> 0]

Send(f) ==
    /\ unsent[f] > 0 /\ unsent' = [unsent EXCEPT ![f] = @ - 1]
    /\ waiting' = [waiting EXCEPT ![f] = @ + 1]
    /\ UNCHANGED <<taken, leaving, down>>

Take(f) ==
    /\ \E n \in 1 .. waiting[f] :
          waiting' = [waiting EXCEPT ![f] = @ - n] /\ taken' = [taken EXCEPT ![f] = @ + n]
    /\ UNCHANGED <<unsent, leaving, down>>

Pass(f) ==
    /\ \E n \in 1 .. taken[f] :
          taken' = [taken EXCEPT ![f] = @ - n] /\ leaving' = [leaving EXCEPT ![f] = @ + n]
    /\ UNCHANGED <<unsent, waiting, down>>

Deliver(f) ==
    /\ leaving[f] > 0 /\ leaving' = [leaving EXCEPT ![f] = @ - 1]
    /\ UNCHANGED <<unsent, waiting, taken, down>>

\* Ends go down, and bytes with them.
Break ==
    /\ down \subseteq down' /\ down' \subseteq End
    /\ {waiting', taken', leaving'} \subseteq [End -> Nat]
    /\ \A f \in End :
          /\ waiting'[f] = waiting[f] \/ (f \in down' /\ waiting'[f] < waiting[f])
          /\ leaving'[f] = leaving[f] \/ (Other(f) \in down' /\ leaving'[f] < leaving[f])
          /\ \/ taken'[f] = taken[f]
             \/ Other(f) \in down' /\ taken'[f] < taken[f]
             \/ f \in down' /\ taken'[f] = taken[f] - 1
    /\ UNCHANGED unsent

Next == Break \/ \E f \in End : Send(f) \/ Take(f) \/ Pass(f) \/ Deliver(f)

Spec == Init /\ [][Next]_<<unsent, waiting, taken, leaving, down>>
============================================================================
