------------------------------ MODULE Signals -------------------------------
(***************************************************************************)
(* The way of a signal through a Go process that calls signal.Notify and   *)
(* runs sigHandle, as drop-privileges, fork-cpuaffinity and                *)
(* syscall-cpuaffinity do.  The kernel and the runtime keep one bit per    *)
(* signal, signal.Notify never blocks on sigChan, sigHandle blocks on      *)
(* exitNotifyChan.                                                         *)
(*                                                                         *)
(* "exit" stands for the five signals of exits, "chld" for SIGCHLD, the    *)
(* only one of notifys.  Signals that are in neither are only logged and   *)
(* left out.                                                               *)
(***************************************************************************)
EXTENDS Integers, Sequences

CONSTANTS
    Proc,       \* the processes
    ChanSize    \* capacity of sigChan and exitNotifyChan

VARIABLES
    disp,           \* what a signal does: default, notify (signal.Notify), ignore (signal.Ignore)
    pending,        \* signals raised and not yet in sigChan
    sigChan, exitNotifyChan,
    sending,        \* what sigHandle is sending to exitNotifyChan, or "no"
    exiting,        \* exiting of sigHandle
    lost            \* history: a SIGCHLD was merged with another or found sigChan full

sigVars == <<disp, pending, sigChan, exitNotifyChan, sending, exiting, lost>>

Sigs == {"exit", "chld"}

SigInit ==
    /\ disp = [p \in Proc |-> "default"] /\ pending = [p \in Proc |-> {}]
    /\ sigChan = [p \in Proc |-> <<>>] /\ exitNotifyChan = [p \in Proc |-> <<>>]
    /\ sending = [p \in Proc |-> "no"] /\ exiting = [p \in Proc |-> FALSE]
    /\ lost = [p \in Proc |-> FALSE]

Accepted(p) == {sigChan[p][i] : i \in DOMAIN sigChan[p]}

\* What a signal does to a process that does not die of it.
Raise(p, s) ==
    /\ pending' = [pending EXCEPT ![p] = IF disp[p] = "notify" THEN @ \cup {s} ELSE @]
    /\ lost' = [lost EXCEPT ![p] = @ \/ (s = "chld" /\ (disp[p] # "notify" \/ s \in pending[p]))]

Notify(p) == disp' = [disp EXCEPT ![p] = "notify"]

Ignore(p) == disp' = [disp EXCEPT ![p] = "ignore"] /\ pending' = [pending EXCEPT ![p] = {}]

\* The runtime hands a signal to sigChan, or drops it when that is full.
Deliver(p, s) ==
    /\ s \in pending[p] /\ pending' = [pending EXCEPT ![p] = @ \ {s}]
    /\ IF Len(sigChan[p]) < ChanSize
         THEN sigChan' = [sigChan EXCEPT ![p] = Append(@, s)] /\ UNCHANGED lost
         ELSE lost' = [lost EXCEPT ![p] = @ \/ s = "chld"] /\ UNCHANGED sigChan
    /\ UNCHANGED <<disp, exitNotifyChan, sending, exiting>>

\* sigHandle takes a signal: one of notifys is sent on every time, one of
\* exits only the first time.
SigHandle(p) ==
    /\ sending[p] = "no" /\ sigChan[p] # <<>>
    /\ sigChan' = [sigChan EXCEPT ![p] = Tail(@)]
    /\ LET s == Head(sigChan[p])
       IN /\ sending' = [sending EXCEPT ![p] = IF s = "chld" \/ (s = "exit" /\ ~exiting[p]) THEN s ELSE "no"]
          /\ exiting' = [exiting EXCEPT ![p] = @ \/ s = "exit"]
    /\ UNCHANGED <<disp, pending, exitNotifyChan, lost>>

SigSend(p) ==
    /\ sending[p] # "no" /\ Len(exitNotifyChan[p]) < ChanSize
    /\ exitNotifyChan' = [exitNotifyChan EXCEPT ![p] = Append(@, sending[p])]
    /\ sending' = [sending EXCEPT ![p] = "no"]
    /\ UNCHANGED <<disp, pending, sigChan, exiting, lost>>

\* The goroutine of sigHandle.
SigHandler(p) == SigHandle(p) \/ SigSend(p)

\* sig := <-exitNotifyChan
Receive(p) == exitNotifyChan[p] # <<>> /\ exitNotifyChan' = [exitNotifyChan EXCEPT ![p] = Tail(@)]
=============================================================================
