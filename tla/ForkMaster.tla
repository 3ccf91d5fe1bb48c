----------------------------- MODULE ForkMaster -----------------------------
(***************************************************************************)
(* fork-cpuaffinity: the master starts one worker per CPU, counts SIGCHLDs *)
(* until all workers have stopped or a signal asks it to exit, and then    *)
(* terminates the workers and waits for them, at most five seconds.        *)
(* From the call of signal.Notify on.                                      *)
(***************************************************************************)
EXTENDS Signals, FiniteSets

CONSTANTS
    NumWorker,      \* workerNum
    MaxForkFails    \* workers that fail to start (a bound)

Worker == 0 .. NumWorker - 1

VARIABLES
    mpc,            \* master: notify, fork, count, wait, term, stop, ended
    next,           \* i of the fork loop
    pidList,
    worker,         \* none, run, zombie, gone
    doomed,         \* workers sent SIGTERM or SIGKILL
    stopcnt,        \* stopcnt of main, then of stressWait
    why,            \* why main left its loop: no, stopped, exit
    stopped,        \* workers whose stopped flag the poller has set
    aliveChan,      \* number of pids in aliveChan
    result,         \* of stressWait: no, ok, timeout
    fails,          \* how many did not start
    spurious        \* history: a SIGCHLD that is not the end of a worker in pidList

masterVars == <<mpc, next, pidList, stopcnt, why, stopped, aliveChan, result, fails>>
workVars == <<worker, doomed, spurious>>
vars == <<masterVars, workVars, sigVars>>

M == "master"

Init ==
    /\ SigInit /\ mpc = "notify" /\ next = 0 /\ pidList = {}
    /\ worker = [w \in Worker |-> "none"] /\ doomed = {}
    /\ stopcnt = 0 /\ why = "no" /\ stopped = {} /\ aliveChan = 0 /\ result = "no"
    /\ fails = 0 /\ spurious = FALSE

Alive == mpc # "ended"
Dead(w) == worker[w] \in {"zombie", "gone"}

(***************************************************************************)
(* main: signals, the fork loop and the count                              *)
(***************************************************************************)
StartNotify ==
    /\ mpc = "notify" /\ mpc' = "fork" /\ Notify(M)
    /\ UNCHANGED <<next, pidList, stopcnt, why, stopped, aliveChan, result, fails, workVars,
                   pending, sigChan, exitNotifyChan, sending, exiting, lost>>

StressFork ==
    /\ mpc = "fork" /\ next < NumWorker /\ next' = next + 1
    /\ worker' = [worker EXCEPT ![next] = "run"] /\ pidList' = pidList \cup {next}
    /\ UNCHANGED <<mpc, stopcnt, why, stopped, aliveChan, result, fails, doomed, spurious, sigVars>>

\* The worker is not in pidList; when it is the exec that failed there was a
\* child, and its SIGCHLD is counted like that of a worker.
StressForkFails ==
    /\ mpc = "fork" /\ next < NumWorker /\ next' = next + 1
    /\ fails < MaxForkFails /\ fails' = fails + 1
    /\ \/ Raise(M, "chld") /\ spurious' = TRUE
       \/ UNCHANGED <<pending, lost, spurious>>
    /\ UNCHANGED <<mpc, pidList, stopcnt, why, stopped, aliveChan, result, worker, doomed,
                   disp, sigChan, exitNotifyChan, sending, exiting>>

Forked ==
    /\ mpc = "fork" /\ next = NumWorker
    /\ mpc' = IF pidList = {} THEN "ended" ELSE "count"
    /\ UNCHANGED <<next, pidList, stopcnt, why, stopped, aliveChan, result, fails, workVars, sigVars>>

\* stressCount returns when all are alive and at the latest at its first tick;
\* the count is only printed.
StressCount ==
    /\ mpc = "count" /\ mpc' = "wait"
    /\ UNCHANGED <<next, pidList, stopcnt, why, stopped, aliveChan, result, fails, workVars, sigVars>>

\* Mutant: the master does not wait for the last worker.
WaitSignalEarly ==
    /\ mpc = "wait" /\ Receive(M)
    /\ LET chld == Head(exitNotifyChan[M]) = "chld"
           leave == ~chld \/ stopcnt + 1 >= Cardinality(pidList) - 1
       IN /\ stopcnt' = IF leave THEN 0 ELSE stopcnt + 1
          /\ why' = IF leave THEN (IF chld THEN "stopped" ELSE "exit") ELSE why
          /\ mpc' = IF leave THEN "term" ELSE mpc
          /\ IF leave THEN Ignore(M) ELSE UNCHANGED <<disp, pending>>
    /\ UNCHANGED <<next, pidList, stopped, aliveChan, result, fails, workVars, sigChan, sending, exiting, lost>>

\* Mutant: an exit signal is counted like a SIGCHLD.
WaitSignalCounts ==
    /\ mpc = "wait" /\ Receive(M)
    /\ LET leave == stopcnt + 1 >= Cardinality(pidList)
       IN /\ stopcnt' = IF leave THEN 0 ELSE stopcnt + 1
          /\ why' = IF leave THEN "exit" ELSE why
          /\ mpc' = IF leave THEN "term" ELSE mpc
          /\ IF leave THEN Ignore(M) ELSE UNCHANGED <<disp, pending>>
    /\ UNCHANGED <<next, pidList, stopped, aliveChan, result, fails, workVars, sigChan, sending, exiting, lost>>

\* The loop of main: a SIGCHLD is one worker less, any other signal the end.
\* Leaving it, main closes masterExiting and ignores all signals.
WaitSignal ==
    /\ mpc = "wait" /\ Receive(M)
    /\ LET chld == Head(exitNotifyChan[M]) = "chld"
           leave == ~chld \/ stopcnt + 1 >= Cardinality(pidList)
       IN /\ stopcnt' = IF leave THEN 0 ELSE stopcnt + 1
          /\ why' = IF leave THEN (IF chld THEN "stopped" ELSE "exit") ELSE why
          /\ mpc' = IF leave THEN "term" ELSE mpc
          /\ IF leave THEN Ignore(M) ELSE UNCHANGED <<disp, pending>>
    /\ UNCHANGED <<next, pidList, stopped, aliveChan, result, fails, workVars, sigChan, sending, exiting, lost>>

(***************************************************************************)
(* stressWait                                                              *)
(***************************************************************************)
Running == {w \in pidList : worker[w] = "run"}

\* SIGTERM to every worker, then the poller is started.
Terminate ==
    /\ mpc = "term" /\ mpc' = "stop" /\ doomed' = doomed \cup Running
    /\ UNCHANGED <<next, pidList, stopcnt, why, stopped, aliveChan, result, fails, worker, spurious, sigVars>>

\* The poller.  IsPidDie is true of a process that is gone; of a zombie it may
\* be either.
Poll(w) ==
    /\ mpc = "stop" /\ w \in pidList \ stopped /\ Dead(w)
    /\ aliveChan < Cardinality(pidList)
    /\ stopped' = stopped \cup {w} /\ aliveChan' = aliveChan + 1
    /\ UNCHANGED <<mpc, next, pidList, stopcnt, why, result, fails, workVars, sigVars>>

WorkerStopped ==
    /\ mpc = "stop" /\ aliveChan > 0 /\ aliveChan' = aliveChan - 1 /\ stopcnt' = stopcnt + 1
    /\ IF stopcnt + 1 >= Cardinality(pidList)
         THEN mpc' = "ended" /\ result' = "ok"
         ELSE UNCHANGED <<mpc, result>>
    /\ UNCHANGED <<next, pidList, why, stopped, fails, workVars, sigVars>>

\* The timer may fire while pids are waiting in aliveChan.
StopTimeout ==
    /\ mpc = "stop" /\ mpc' = "ended" /\ result' = "timeout" /\ doomed' = doomed \cup Running
    /\ UNCHANGED <<next, pidList, stopcnt, why, stopped, aliveChan, fails, worker, spurious, sigVars>>

(***************************************************************************)
(* Workers and the kernel                                                  *)
(***************************************************************************)
Die(w) ==
    /\ worker[w] = "run" /\ worker' = [worker EXCEPT ![w] = "zombie"]
    /\ IF Alive THEN Raise(M, "chld") ELSE UNCHANGED <<pending, lost>>
    /\ UNCHANGED <<masterVars, doomed, spurious, disp, sigChan, exitNotifyChan, sending, exiting>>

\* By a signal of the master, or because the master has ended: Pdeathsig, or
\* stressWorker's own look at the pid of the master.
WorkerEnds(w) == (w \in doomed \/ ~Alive) /\ Die(w)

WorkerCrashes(w) == Alive /\ w \notin doomed /\ Die(w)

\* WaitChild, started after the fork loop, or init when the master has ended.
\* Children that end while SIGCHLD is ignored leave no zombie.
Reap(w) ==
    /\ mpc \notin {"notify", "fork"} /\ worker[w] = "zombie"
    /\ worker' = [worker EXCEPT ![w] = "gone"]
    /\ UNCHANGED <<masterVars, doomed, spurious, sigVars>>

\* A worker is stopped or continued by hand: a SIGCHLD as well.
JobControl(w) ==
    /\ Alive /\ worker[w] = "run" /\ disp[M] = "notify" /\ Raise(M, "chld") /\ spurious' = TRUE
    /\ UNCHANGED <<masterVars, worker, doomed, disp, sigChan, exitNotifyChan, sending, exiting>>

ExitSignal ==
    /\ Alive /\ disp[M] = "notify" /\ Raise(M, "exit")
    /\ UNCHANGED <<masterVars, workVars, disp, sigChan, exitNotifyChan, sending, exiting>>

-----------------------------------------------------------------------------
MasterStep ==
    \/ StartNotify \/ StressFork \/ StressForkFails \/ Forked \/ StressCount \/ WaitSignal
    \/ Terminate \/ WorkerStopped \/ StopTimeout

PollStep == \E w \in Worker : Poll(w)
DeliverStep(s) == Alive /\ Deliver(M, s) /\ UNCHANGED <<masterVars, workVars>>
HandleStep == Alive /\ SigHandler(M) /\ UNCHANGED <<masterVars, workVars>>
WorkerStep == \E w \in Worker : WorkerEnds(w) \/ Reap(w)

Next ==
    \/ MasterStep \/ PollStep \/ HandleStep \/ WorkerStep
    \/ \E w \in Worker : WorkerCrashes(w) \/ JobControl(w)
    \/ \E s \in Sigs : DeliverStep(s)
    \/ ExitSignal

Spec == Init /\ [][Next]_vars

\* Goroutines run; every pending signal is delivered, and
\* the kernel ends what they kill.
Fairness ==
    /\ WF_vars(MasterStep) /\ WF_vars(PollStep) /\ WF_vars(WorkerStep)
    /\ WF_vars(HandleStep) /\ \A s \in Sigs : WF_vars(DeliverStep(s))

(***************************************************************************)
(* Properties                                                              *)
(***************************************************************************)
\* "all worker stopped" is printed only when they have, as long as every
\* SIGCHLD was the end of a started worker; and stressWait returns nil only
\* when they have, whatever the poller saw.
StopSound ==
    (why = "stopped" /\ ~spurious) \/ result = "ok" => \A w \in pidList : Dead(w)

\* SIGCHLDs were lost, and no exit signal has reached sigChan.
Overlooked == lost[M] /\ ~exiting[M] /\ "exit" \notin Accepted(M)

\* An exit signal that has reached sigChan ends the master, however many
\* SIGCHLDs fill the channels; so does the end of the last worker, unless two
\* SIGCHLDs have become one.
MasterEnds ==
    ("exit" \in Accepted(M) \/ (mpc = "wait" /\ \A w \in pidList : Dead(w)))
        ~> (mpc = "ended" \/ Overlooked)
=============================================================================
