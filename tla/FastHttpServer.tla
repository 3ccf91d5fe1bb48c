--------------------------- MODULE FastHttpServer ---------------------------
(***************************************************************************)
(* The goroutines of fasthttpserver.go.  Workers share one listener,       *)
(* collect accepted connections in batches and start a service goroutine   *)
(* for each connection of a batch; the first signal closes the listener;   *)
(* main waits for the workers, each of which waits for the services it has *)
(* started, then closes the three statistics channels, whose end makes     *)
(* requestCounter print the last report and return.  A send on a channel   *)
(* that is closed panics.                                                  *)
(*                                                                         *)
(* A wait group is the set of those it waits for.  closedCh carries only   *)
(* the number 1 and is the number of messages in it.  What a service reads *)
(* is a choice here.  Buffer pools, profiling and the printed rates are    *)
(* left out.                                                               *)
(***************************************************************************)
EXTENDS Integers, Sequences, FiniteSetsExt

CONSTANTS
    None,
    Worker,         \* 0 .. config.workers - 1
    Conn,           \* connections that are ever accepted (a bound)
    BatchLen,       \* config.batchAcceptLen
    ChanCap,        \* 4096, slots of each statistics channel
    Report,         \* 1000, requests after which a service reports
    MaxRequests,    \* requests of one connection (a bound)
    MaxDup          \* 10, further signals that abort the process

ASSUME FastAssumption ==
    /\ {BatchLen, ChanCap, Report, MaxDup} \subseteq Nat \ {0} /\ MaxRequests \in Nat
    /\ IsFiniteSet(Conn) /\ IsFiniteSet(Worker) /\ None \notin Worker

VARIABLES
    exitSignaled, exitSignalDup, \* of serverVar
    lopen,          \* the listener is open
    mainpc,         \* wait, accepted, requests, closed, stats, done
    wpc,            \* worker: top, onload, report, accept, exit, done
    connBatch,      \* the worker's batch
    closewg,        \* services that the worker waits for
    owner,          \* the worker that started the service of a connection
    hpc,            \* service: new, batch, top, read, count, report, write,
                    \* closed, close, requests, wgdone, done
    hstate,         \* state of its state machine
    isKeepAlive, totalrequest, reqoutcount,
    acceptedCh, requestsCh, closedCh,
    shut,           \* channels that main has closed
    live,           \* channels that requestCounter has not set to nil
    acceptNum, finishedNum, closedNum

sigVars == <<exitSignaled, exitSignalDup>>
mainVars == <<mainpc, lopen, shut>>
workVars == <<wpc, connBatch, closewg, owner>>
servVars == <<hpc, hstate, isKeepAlive, totalrequest, reqoutcount>>
chanVars == <<acceptedCh, requestsCh, closedCh>>
statVars == <<live, acceptNum, finishedNum, closedNum>>
vars == <<sigVars, mainVars, workVars, servVars, chanVars, statVars>>

Channel == {"accepted", "requests", "closed"}
ServicePC == {"new", "batch", "top", "read", "count", "report", "write", "closed",
              "close", "requests", "wgdone", "done"}
\* The states that decide: READREQMETHOD and READREQHEADER are "read", the
\* three closed states are "end".
ServiceState == {"keepalive", "read", "readdone", "sendbody", "end"}

TypeOK ==
    /\ exitSignaled \in BOOLEAN /\ exitSignalDup \in 0 .. MaxDup /\ lopen \in BOOLEAN
    /\ mainpc \in {"wait", "accepted", "requests", "closed", "stats", "done"}
    /\ wpc \in [Worker -> {"top", "onload", "report", "accept", "exit", "done"}]
    /\ connBatch \in [Worker -> SUBSET Conn] /\ closewg \in [Worker -> SUBSET Conn]
    /\ owner \in [Conn -> Worker \cup {None}]
    /\ hpc \in [Conn -> ServicePC] /\ hstate \in [Conn -> ServiceState]
    /\ isKeepAlive \in [Conn -> BOOLEAN]
    /\ totalrequest \in [Conn -> Nat] /\ reqoutcount \in [Conn -> Nat]
    /\ acceptedCh \in Seq(Nat) /\ requestsCh \in Seq(Nat) /\ closedCh \in Nat
    /\ shut \subseteq Channel /\ live \subseteq Channel
    /\ acceptNum \in Nat /\ finishedNum \in Nat /\ closedNum \in Nat

Init ==
    /\ exitSignaled = FALSE /\ exitSignalDup = 0 /\ lopen = TRUE /\ mainpc = "wait"
    /\ wpc = [w \in Worker |-> "top"]
    /\ connBatch = [w \in Worker |-> {}] /\ closewg = [w \in Worker |-> {}]
    /\ owner = [c \in Conn |-> None]
    /\ hpc = [c \in Conn |-> "new"] /\ hstate = [c \in Conn |-> "keepalive"]
    /\ isKeepAlive = [c \in Conn |-> FALSE]
    /\ totalrequest = [c \in Conn |-> 0] /\ reqoutcount = [c \in Conn |-> 0]
    /\ acceptedCh = <<>> /\ requestsCh = <<>> /\ closedCh = 0
    /\ shut = {} /\ live = Channel
    /\ acceptNum = 0 /\ finishedNum = 0 /\ closedNum = 0

\* os.Exit(9)
Aborted == exitSignalDup >= MaxDup

(***************************************************************************)
(* Signals and main.                                                       *)
(***************************************************************************)
\* The first signal sets the flag and closes the listener.
SignalFirst ==
    /\ ~exitSignaled /\ mainpc # "done"
    /\ exitSignaled' = TRUE /\ lopen' = FALSE
    /\ UNCHANGED <<exitSignalDup, mainpc, shut, workVars, servVars, chanVars, statVars>>

SignalAgain ==
    /\ exitSignaled /\ mainpc # "done"
    /\ exitSignalDup' = exitSignalDup + 1
    /\ UNCHANGED <<exitSignaled, mainVars, workVars, servVars, chanVars, statVars>>

\* Mutant: main does not wait for the last worker.
MainWaitFirst ==
    /\ mainpc = "wait" /\ \E w \in Worker : wpc[w] = "done"
    /\ mainpc' = "accepted"
    /\ UNCHANGED <<sigVars, lopen, shut, workVars, servVars, chanVars, statVars>>

\* workerwg.Wait()
MainWait ==
    /\ mainpc = "wait" /\ \A w \in Worker : wpc[w] = "done"
    /\ mainpc' = "accepted"
    /\ UNCHANGED <<sigVars, lopen, shut, workVars, servVars, chanVars, statVars>>

\* close of the channel that mainpc names; after the last one the listener is
\* closed if no signal has done it.
MainCloseChan ==
    /\ mainpc \in Channel
    /\ shut' = shut \cup {mainpc}
    /\ mainpc' = CASE mainpc = "accepted" -> "requests"
                   [] mainpc = "requests" -> "closed"
                   [] mainpc = "closed" -> "stats"
    /\ lopen' = (lopen /\ mainpc # "closed")
    /\ UNCHANGED <<sigVars, workVars, servVars, chanVars, statVars>>

\* statswg.Wait(): requestCounter has seen the end of all three channels.
MainStats ==
    /\ mainpc = "stats" /\ live = {}
    /\ mainpc' = "done"
    /\ UNCHANGED <<sigVars, lopen, shut, workVars, servVars, chanVars, statVars>>

(***************************************************************************)
(* worker                                                                  *)
(***************************************************************************)
\* The head of the loop; a partial batch waits for a tick of the ticker.
WorkerTop(w) ==
    /\ wpc[w] = "top"
    /\ IF exitSignaled THEN wpc' = [wpc EXCEPT ![w] = "exit"]
       ELSE /\ Cardinality(connBatch[w]) < BatchLen
            /\ wpc' = [wpc EXCEPT ![w] = "accept"]
    /\ UNCHANGED <<sigVars, mainVars, connBatch, closewg, owner, servVars, chanVars, statVars>>

\* Mutant: only a full batch is flushed.
WorkerFlushFull(w) ==
    /\ wpc[w] = "top" /\ ~exitSignaled /\ Cardinality(connBatch[w]) >= BatchLen
    /\ wpc' = [wpc EXCEPT ![w] = "onload"]
    /\ UNCHANGED <<sigVars, mainVars, connBatch, closewg, owner, servVars, chanVars, statVars>>

\* The batch is full or the ticker has ticked.
WorkerFlush(w) ==
    /\ wpc[w] = "top" /\ ~exitSignaled /\ connBatch[w] # {}
    /\ wpc' = [wpc EXCEPT ![w] = "onload"]
    /\ UNCHANGED <<sigVars, mainVars, connBatch, closewg, owner, servVars, chanVars, statVars>>

\* closewg.Add(len(connBatch)) and a service for each connection.
WorkerOnload(w) ==
    /\ wpc[w] = "onload"
    /\ closewg' = [closewg EXCEPT ![w] = @ \cup connBatch[w]]
    /\ owner' = [c \in Conn |-> IF c \in connBatch[w] THEN w ELSE owner[c]]
    /\ hpc' = [c \in Conn |-> IF c \in connBatch[w] THEN "top" ELSE hpc[c]]
    /\ wpc' = [wpc EXCEPT ![w] = "report"]
    /\ UNCHANGED <<sigVars, mainVars, connBatch, hstate, isKeepAlive, totalrequest, reqoutcount, chanVars, statVars>>

\* serverVar.acceptedCh <- len(connBatch)
WorkerReport(w) ==
    /\ wpc[w] = "report" /\ Len(acceptedCh) < ChanCap
    /\ acceptedCh' = Append(acceptedCh, Cardinality(connBatch[w]))
    /\ connBatch' = [connBatch EXCEPT ![w] = {}]
    /\ wpc' = [wpc EXCEPT ![w] = "accept"]
    /\ UNCHANGED <<sigVars, mainVars, closewg, owner, servVars, requestsCh, closedCh, statVars>>

WorkerAccept(w, c) ==
    /\ wpc[w] = "accept" /\ lopen /\ hpc[c] = "new"
    /\ hpc' = [hpc EXCEPT ![c] = "batch"]
    /\ connBatch' = [connBatch EXCEPT ![w] = @ \cup {c}]
    /\ wpc' = [wpc EXCEPT ![w] = "top"]
    /\ UNCHANGED <<sigVars, mainVars, closewg, owner, hstate, isKeepAlive, totalrequest, reqoutcount, chanVars, statVars>>

\* The listener's deadline passes, or a temporary error.
WorkerTimeout(w) ==
    /\ wpc[w] = "accept" /\ lopen
    /\ wpc' = [wpc EXCEPT ![w] = "top"]
    /\ UNCHANGED <<sigVars, mainVars, connBatch, closewg, owner, servVars, chanVars, statVars>>

\* Any other error, and that of a closed listener, ends the worker.  The
\* connections of its batch are forgotten.
WorkerError(w) ==
    /\ wpc[w] = "accept"
    /\ wpc' = [wpc EXCEPT ![w] = "exit"]
    /\ UNCHANGED <<sigVars, mainVars, connBatch, closewg, owner, servVars, chanVars, statVars>>

\* closewg.Wait(), wg.Done()
WorkerExit(w) ==
    /\ wpc[w] = "exit" /\ closewg[w] = {}
    /\ wpc' = [wpc EXCEPT ![w] = "done"]
    /\ UNCHANGED <<sigVars, mainVars, connBatch, closewg, owner, servVars, chanVars, statVars>>

(***************************************************************************)
(* tinyhttpservice                                                         *)
(***************************************************************************)
\* The service of c goes to pc in state st.
ServiceGoto(c, from, pc, st) ==
    /\ hpc[c] = from
    /\ hpc' = [hpc EXCEPT ![c] = pc] /\ hstate' = [hstate EXCEPT ![c] = st]
    /\ UNCHANGED <<sigVars, mainVars, workVars, statVars>>

\* switch state
ServiceSwitch(c) ==
    \/ hstate[c] = "keepalive" /\ totalrequest[c] > 0 /\ ~isKeepAlive[c]
       /\ ServiceGoto(c, "top", "top", "end")
    \/ hstate[c] = "keepalive" /\ (totalrequest[c] = 0 \/ isKeepAlive[c])
       /\ ServiceGoto(c, "top", "read", "read")
    \/ hstate[c] = "read"     /\ ServiceGoto(c, "top", "read", "read")
    \/ hstate[c] = "readdone" /\ ServiceGoto(c, "top", "count", "readdone")
    \/ hstate[c] = "sendbody" /\ ServiceGoto(c, "top", "write", "sendbody")

\* Mutant: deaf to signals.
ServiceTopDeaf(c) ==
    /\ IF hstate[c] = "end" THEN ServiceGoto(c, "top", "closed", "end") ELSE ServiceSwitch(c)
    /\ UNCHANGED <<isKeepAlive, totalrequest, reqoutcount, chanVars>>

\* for exitState == false && serverVar.exitSignaled == false
ServiceTop(c) ==
    /\ IF exitSignaled \/ hstate[c] = "end" THEN ServiceGoto(c, "top", "closed", hstate[c])
       ELSE ServiceSwitch(c)
    /\ UNCHANGED <<isKeepAlive, totalrequest, reqoutcount, chanVars>>

\* One read: an error, a bad method or too many bytes; more is needed; the
\* header is complete within the method buffer, which goes through the head of
\* the loop; or within the header buffer, which does not.
ServiceRead(c) ==
    /\ \/ ServiceGoto(c, "read", "top", "end")
       \/ ServiceGoto(c, "read", "top", "read")
       \/ totalrequest[c] < MaxRequests /\ ServiceGoto(c, "read", "top", "readdone")
       \/ totalrequest[c] < MaxRequests /\ ServiceGoto(c, "read", "count", "readdone")
    /\ UNCHANGED <<isKeepAlive, totalrequest, reqoutcount, chanVars>>

\* Count the request and see whether the connection is to be kept.
ServiceCount(c) ==
    /\ ServiceGoto(c, "count", IF reqoutcount[c] + 1 >= Report THEN "report" ELSE "write", "sendbody")
    /\ totalrequest' = [totalrequest EXCEPT ![c] = @ + 1]
    /\ reqoutcount' = [reqoutcount EXCEPT ![c] = @ + 1]
    /\ \E keep \in BOOLEAN : isKeepAlive' = [isKeepAlive EXCEPT ![c] = keep]
    /\ UNCHANGED chanVars

\* Mutant: the count is reported and kept.
ServiceReportKeep(c) ==
    /\ Len(requestsCh) < ChanCap /\ ServiceGoto(c, "report", "write", "sendbody")
    /\ requestsCh' = Append(requestsCh, reqoutcount[c])
    /\ UNCHANGED <<isKeepAlive, totalrequest, reqoutcount, acceptedCh, closedCh>>

\* Every thousandth request reports.
ServiceReport(c) ==
    /\ Len(requestsCh) < ChanCap /\ ServiceGoto(c, "report", "write", "sendbody")
    /\ requestsCh' = Append(requestsCh, reqoutcount[c])
    /\ reqoutcount' = [reqoutcount EXCEPT ![c] = 0]
    /\ UNCHANGED <<isKeepAlive, totalrequest, acceptedCh, closedCh>>

\* One write: all of it, a part, or an error.
ServiceWrite(c) ==
    /\ \E st \in {"keepalive", "sendbody", "end"} : ServiceGoto(c, "write", "top", st)
    /\ UNCHANGED <<isKeepAlive, totalrequest, reqoutcount, chanVars>>

\* serverVar.closedCh <- 1
ServiceClosed(c) ==
    /\ closedCh < ChanCap /\ ServiceGoto(c, "closed", "close", hstate[c])
    /\ closedCh' = closedCh + 1
    /\ UNCHANGED <<isKeepAlive, totalrequest, reqoutcount, acceptedCh, requestsCh>>

\* rw.Close()
ServiceClose(c) ==
    /\ ServiceGoto(c, "close", "requests", hstate[c])
    /\ UNCHANGED <<isKeepAlive, totalrequest, reqoutcount, chanVars>>

\* serverVar.requestsCh <- reqoutcount
ServiceRequests(c) ==
    /\ Len(requestsCh) < ChanCap /\ ServiceGoto(c, "requests", "wgdone", hstate[c])
    /\ requestsCh' = Append(requestsCh, reqoutcount[c])
    /\ UNCHANGED <<isKeepAlive, totalrequest, reqoutcount, acceptedCh, closedCh>>

\* wg.Done()
ServiceDone(c) ==
    /\ hpc[c] = "wgdone"
    /\ hpc' = [hpc EXCEPT ![c] = "done"]
    /\ closewg' = [closewg EXCEPT ![owner[c]] = @ \ {c}]
    /\ UNCHANGED <<sigVars, mainVars, wpc, connBatch, owner, hstate, isKeepAlive, totalrequest, reqoutcount, chanVars, statVars>>

(***************************************************************************)
(* requestCounter: select over the channels that are not nil.              *)
(***************************************************************************)
CountAccepted ==
    /\ "accepted" \in live
    /\ IF acceptedCh # <<>>
         THEN /\ acceptNum' = acceptNum + Head(acceptedCh) /\ acceptedCh' = Tail(acceptedCh)
              /\ UNCHANGED live
         ELSE "accepted" \in shut /\ live' = live \ {"accepted"} /\ UNCHANGED <<acceptNum, acceptedCh>>
    /\ UNCHANGED <<sigVars, mainVars, workVars, servVars, requestsCh, closedCh, finishedNum, closedNum>>

CountRequests ==
    /\ "requests" \in live
    /\ IF requestsCh # <<>>
         THEN /\ finishedNum' = finishedNum + Head(requestsCh) /\ requestsCh' = Tail(requestsCh)
              /\ UNCHANGED live
         ELSE "requests" \in shut /\ live' = live \ {"requests"} /\ UNCHANGED <<finishedNum, requestsCh>>
    /\ UNCHANGED <<sigVars, mainVars, workVars, servVars, acceptedCh, closedCh, acceptNum, closedNum>>

CountClosed ==
    /\ "closed" \in live
    /\ IF closedCh > 0
         THEN closedNum' = closedNum + 1 /\ closedCh' = closedCh - 1 /\ UNCHANGED live
         ELSE "closed" \in shut /\ live' = live \ {"closed"} /\ UNCHANGED <<closedNum, closedCh>>
    /\ UNCHANGED <<sigVars, mainVars, workVars, servVars, acceptedCh, requestsCh, acceptNum, finishedNum>>

-----------------------------------------------------------------------------
MainStep == MainWait \/ MainCloseChan \/ MainStats

WorkerStep(w) ==
    \/ WorkerTop(w) \/ WorkerOnload(w) \/ WorkerReport(w) \/ WorkerTimeout(w)
    \/ WorkerError(w) \/ WorkerExit(w)

ServiceStep(c) ==
    \/ ServiceTop(c) \/ ServiceRead(c) \/ ServiceCount(c) \/ ServiceReport(c)
    \/ ServiceWrite(c) \/ ServiceClosed(c) \/ ServiceClose(c) \/ ServiceRequests(c)
    \/ ServiceDone(c)

CounterStep == CountAccepted \/ CountRequests \/ CountClosed

Next ==
    /\ ~Aborted
    /\ \/ SignalFirst \/ SignalAgain \/ MainStep \/ CounterStep
       \/ \E w \in Worker : WorkerStep(w) \/ WorkerFlush(w)
       \/ \E w \in Worker, c \in Conn : WorkerAccept(w, c)
       \/ \E c \in Conn : ServiceStep(c)

Spec == Init /\ [][Next]_vars

\* Every goroutine runs, and reads, writes and accepts have deadlines.  The
\* ticker ticks again and again, so a worker that keeps coming back to the head
\* of its loop with a batch finds a tick; waiting senders are served in order.
Fairness ==
    /\ WF_vars(~Aborted /\ MainStep)
    /\ WF_vars(~Aborted /\ CounterStep)
    /\ \A w \in Worker : WF_vars(~Aborted /\ WorkerStep(w)) /\ SF_vars(~Aborted /\ WorkerFlush(w))
                         /\ SF_vars(~Aborted /\ WorkerReport(w))
    /\ \A c \in Conn : WF_vars(~Aborted /\ ServiceStep(c))
                       /\ SF_vars(~Aborted /\ (ServiceClosed(c) \/ ServiceReport(c) \/ ServiceRequests(c)))

FairSpec == Spec /\ Fairness

(***************************************************************************)
(* Properties.                                                             *)
(***************************************************************************)
Started == {c \in Conn : hpc[c] \notin {"new", "batch"}}

\* No goroutine is about to send on a channel that main has closed: a send
\* would panic.  (main trusts the wait groups for that.)
NoSendOnClosed ==
    /\ \A w \in Worker : wpc[w] = "report" => "accepted" \notin shut
    /\ \A c \in Conn :
          /\ hpc[c] = "closed" => "closed" \notin shut
          /\ hpc[c] \in {"report", "requests"} => "requests" \notin shut

\* The last report, which main waits for, has every connection that was
\* served, as accepted and as closed, and every request.
LastReport ==
    mainpc = "done" =>
        /\ acceptNum = Cardinality(Started) /\ closedNum = Cardinality(Started)
        /\ finishedNum = MapThenSumSet(LAMBDA c : totalrequest[c], Conn)

\* When main ends, every connection that got a service is closed; the others
\* are those of a batch that a worker left behind.
ServedClosed ==
    mainpc = "done" =>
        \A c \in Conn : hpc[c] \in {"new", "done"} \/ \E w \in Worker : c \in connBatch[w]

\* The inductive invariant behind NoSendOnClosed and ServedClosed.
\* A service that runs is in the wait group of the worker that started it.
ServiceInv ==
    \A c \in Conn : hpc[c] \notin {"new", "batch", "done"} =>
        owner[c] \in Worker /\ c \in closewg[owner[c]]

\* A connection waits in the batch of one worker until its service starts.
BatchInv ==
    /\ \A w \in Worker : \A c \in connBatch[w] :
          /\ hpc[c] # "new" /\ (wpc[w] # "report" <=> hpc[c] = "batch")
          /\ \A v \in Worker : c \in connBatch[v] => v = w
    /\ \A c \in Conn : hpc[c] = "batch" => \E w \in Worker : c \in connBatch[w]

\* A worker ends after the services it started, main goes on after the workers.
WaitInv ==
    /\ \A w \in Worker : wpc[w] = "done" => closewg[w] = {}
    /\ mainpc # "wait" => \A w \in Worker : wpc[w] = "done"
    /\ mainpc = "wait" => shut = {}

IndInv == TypeOK /\ ServiceInv /\ BatchInv /\ WaitInv

\* "close listener and worker goroutine will exit": after the first signal
\* the server comes to its end.
ShutdownCompletes == exitSignaled ~> (mainpc = "done" \/ Aborted)

\* An accepted connection gets its service, unless its worker ends first.
BatchServed ==
    \A w \in Worker, c \in Conn :
        (c \in connBatch[w]) ~> (c \in Started \/ wpc[w] \in {"exit", "done"} \/ Aborted)
=============================================================================
