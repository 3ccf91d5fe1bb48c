--------------------------- MODULE DropPrivileges ---------------------------
(***************************************************************************)
(* drop-privileges: the master, which runs as root, binds port 80, starts  *)
(* itself again as an unprivileged worker that serves on the inherited     *)
(* socket, and waits for it.  Both catch signals through sigHandle; the    *)
(* first signal at the master is passed on to the worker, which is killed  *)
(* a second later.                                                         *)
(***************************************************************************)
EXTENDS Signals

CONSTANT MaxSignals     \* signals that are sent from outside (a bound)

VARIABLES
    dpc,        \* master: start, spawned, wait, ended, failed, killed
    relay,      \* the goroutine that passes a signal on: none, wait, sent, kill1, kill2
    wpc,        \* worker: none, start, serve, dead
    outside     \* signals sent from outside

dropVars == <<dpc, relay, wpc, outside>>
vars == <<dropVars, sigVars>>

M == "master"
W == "worker"

Init == SigInit /\ dpc = "start" /\ relay = "none" /\ wpc = "none" /\ outside = 0

Up == dpc \in {"start", "spawned", "wait"}

(***************************************************************************)
(* The worker                                                              *)
(***************************************************************************)
\* The worker ends, and the master, if there is one, gets a SIGCHLD.
WorkerDies == wpc' = "dead" /\ Raise(M, "chld")

\* It runs as root, or finds no listener at descriptor 3, and gives up, or it
\* catches signals from here on.
StartWorker ==
    /\ wpc = "start"
    /\ \/ WorkerDies /\ UNCHANGED disp
       \/ wpc' = "serve" /\ Notify(W) /\ UNCHANGED <<pending, lost>>
    /\ UNCHANGED <<dpc, relay, outside, sigChan, exitNotifyChan, sending, exiting>>

\* The first signal that sigHandle sends on ends the worker, a SIGCHLD as well.
WorkerSignalled ==
    /\ wpc = "serve" /\ Receive(W) /\ WorkerDies
    /\ disp' = [disp EXCEPT ![W] = "ignore"]
    /\ UNCHANGED <<dpc, relay, outside, sigChan, sending, exiting>>

\* http.Serve returns, or somebody kills the worker.
WorkerFails ==
    /\ wpc \in {"start", "serve"} /\ WorkerDies
    /\ UNCHANGED <<dpc, relay, outside, disp, sigChan, exitNotifyChan, sending, exiting>>

(***************************************************************************)
(* The master                                                              *)
(***************************************************************************)
\* drop: listen, take the descriptor, start the worker.
Drop ==
    /\ dpc = "start"
    /\ \/ dpc' = "spawned" /\ wpc' = "start"
       \/ dpc' = "failed" /\ UNCHANGED wpc
    /\ UNCHANGED <<relay, outside, sigVars>>

CatchSignals ==
    /\ dpc = "spawned" /\ dpc' = "wait" /\ relay' = "wait" /\ Notify(M)
    /\ UNCHANGED <<wpc, outside, pending, sigChan, exitNotifyChan, sending, exiting, lost>>

\* The first signal, be it a SIGCHLD, is sent to the worker: caught there when
\* the worker has come that far, otherwise it is what the signal does by
\* default.  From here on the master ignores all signals.
Relay ==
    /\ dpc = "wait" /\ relay = "wait" /\ Receive(M) /\ relay' = "sent"
    /\ LET s == Head(exitNotifyChan[M])
           dies == wpc = "start" /\ s = "exit"
       IN /\ wpc' = IF dies THEN "dead" ELSE wpc
          /\ pending' = [pending EXCEPT ![M] = {},
                                        ![W] = IF disp[W] = "notify" /\ wpc # "dead" THEN @ \cup {s} ELSE @]
    /\ disp' = [disp EXCEPT ![M] = "ignore"]
    /\ UNCHANGED <<dpc, outside, sigChan, sending, exiting, lost>>

\* Mutant: the worker is trusted to end on the signal.
RelayKillNot(from, to) ==
    /\ dpc = "wait" /\ relay = from /\ relay' = to
    /\ UNCHANGED <<dpc, wpc, outside, sigVars>>

\* A second later, and once more five seconds later, the worker is killed.
RelayKill(from, to) ==
    /\ dpc = "wait" /\ relay = from /\ relay' = to
    /\ wpc' = "dead"
    /\ UNCHANGED <<dpc, outside, sigVars>>

\* cmd.Wait returns.
WorkerExited ==
    /\ dpc = "wait" /\ wpc = "dead" /\ dpc' = "ended"
    /\ UNCHANGED <<relay, wpc, outside, sigVars>>

(***************************************************************************)
(* Signals from outside                                                    *)
(***************************************************************************)
\* A master that does not catch signals yet dies of one, and its worker stays.
SignalMaster(s) ==
    /\ Up /\ outside < MaxSignals /\ outside' = outside + 1
    /\ IF disp[M] = "default" /\ s = "exit"
         THEN dpc' = "killed" /\ UNCHANGED <<pending, lost>>
         ELSE Raise(M, s) /\ UNCHANGED dpc
    /\ UNCHANGED <<relay, wpc, disp, sigChan, exitNotifyChan, sending, exiting>>

SignalWorker(s) ==
    /\ wpc = "serve" /\ outside < MaxSignals /\ outside' = outside + 1 /\ Raise(W, s)
    /\ UNCHANGED <<dpc, relay, wpc, disp, sigChan, exitNotifyChan, sending, exiting>>

-----------------------------------------------------------------------------
WorkerStep == StartWorker \/ WorkerSignalled
MasterStep == Drop \/ CatchSignals \/ WorkerExited
RelayStep == Relay \/ RelayKill("sent", "kill1") \/ RelayKill("kill1", "kill2")
Lives(p) == IF p = M THEN Up ELSE wpc # "dead"
DeliverStep(p, s) == Lives(p) /\ Deliver(p, s) /\ UNCHANGED dropVars
HandleStep(p) == Lives(p) /\ SigHandler(p) /\ UNCHANGED dropVars

Next ==
    \/ MasterStep \/ RelayStep \/ WorkerStep \/ WorkerFails
    \/ \E p \in Proc : HandleStep(p)
    \/ \E p \in Proc, s \in Sigs : DeliverStep(p, s)
    \/ \E s \in Sigs : SignalMaster(s) \/ SignalWorker(s)

Spec == Init /\ [][Next]_vars

\* Goroutines run, and every pending signal is delivered.
Fairness ==
    /\ WF_vars(MasterStep) /\ WF_vars(RelayStep) /\ WF_vars(WorkerStep)
    /\ \A p \in Proc : WF_vars(HandleStep(p)) /\ \A s \in Sigs : WF_vars(DeliverStep(p, s))

\* An exit signal that the master has caught ends both processes, even when a
\* SIGCHLD was passed on before it and the master ignores it; and the master does
\* not outlive its worker.  (A signal that comes before the master catches
\* signals ends it alone.)
StopsTogether ==
    (dpc = "wait" /\ ("exit" \in Accepted(M) \/ wpc = "dead")) ~> (dpc = "ended" /\ wpc = "dead")
=============================================================================
