------------------------ MODULE FastHttpServerProofs ------------------------
(***************************************************************************)
(* Proofs about FastHttpServer for every number of workers and             *)
(* connections, batch length and channel size.                             *)
(***************************************************************************)
EXTENDS FastHttpServer, CountingLemmas, TLAPS

\* The steps of a service that only move it.
Move(c) ==
    \/ ServiceTop(c) \/ ServiceRead(c) \/ ServiceCount(c) \/ ServiceReport(c)
    \/ ServiceWrite(c) \/ ServiceClosed(c) \/ ServiceClose(c) \/ ServiceRequests(c)

Quiet == {"new", "batch", "done"}

\* A service step starts and ends among the states of a running service and
\* leaves workers, main and the statistics alone.
LEMMA MoveStep ==
  ASSUME TypeOK, NEW c \in Conn, Move(c)
  PROVE  /\ hpc[c] \notin Quiet
         /\ \E pc \in ServicePC \ Quiet, st \in ServiceState :
               hpc' = [hpc EXCEPT ![c] = pc] /\ hstate' = [hstate EXCEPT ![c] = st]
         /\ UNCHANGED <<sigVars, mainVars, workVars, statVars>>
<1> USE DEF ServiceGoto, ServicePC, ServiceState, Quiet
<1>0. hstate[c] \in ServiceState
  BY DEF TypeOK
<1>1. CASE ServiceTop(c)
  <2>1. CASE exitSignaled \/ hstate[c] = "end" BY <1>0, <1>1, <2>1 DEF ServiceTop
  <2>2. CASE ~(exitSignaled \/ hstate[c] = "end")
    <3>1. ServiceSwitch(c)
      BY <1>1, <2>2 DEF ServiceTop
    <3> HIDE DEF ServiceGoto
    <3>2. \/ ServiceGoto(c, "top", "top", "end") \/ ServiceGoto(c, "top", "read", "read")
          \/ ServiceGoto(c, "top", "count", "readdone") \/ ServiceGoto(c, "top", "write", "sendbody")
      BY <3>1 DEF ServiceSwitch
    <3> QED BY <3>2 DEF ServiceGoto
  <2> QED BY <2>1, <2>2
<1>2. CASE ServiceRead(c) BY <1>2 DEF ServiceRead
<1>3. CASE ServiceCount(c) BY <1>3 DEF ServiceCount
<1>4. CASE ServiceReport(c) BY <1>4 DEF ServiceReport
<1>5. CASE ServiceWrite(c) BY <1>5 DEF ServiceWrite
<1>6. CASE ServiceClosed(c) BY <1>0, <1>6 DEF ServiceClosed
<1>7. CASE ServiceClose(c) BY <1>0, <1>7 DEF ServiceClose
<1>8. CASE ServiceRequests(c) BY <1>0, <1>8 DEF ServiceRequests
<1> QED BY <1>1, <1>2, <1>3, <1>4, <1>5, <1>6, <1>7, <1>8 DEF Move

\* Typing of the steps of a service.
LEMMA MoveType ==
  ASSUME TypeOK, NEW c \in Conn, Move(c)
  PROVE  TypeOK'
<1> USE DEF sigVars, mainVars, workVars, statVars, chanVars
<1>1. /\ hpc' \in [Conn -> ServicePC] /\ hstate' \in [Conn -> ServiceState]
      /\ UNCHANGED <<sigVars, mainVars, workVars, statVars>>
  BY MoveStep DEF TypeOK
<1>2. /\ totalrequest' \in [Conn -> Nat] /\ reqoutcount' \in [Conn -> Nat]
      /\ acceptedCh' \in Seq(Nat) /\ requestsCh' \in Seq(Nat) /\ closedCh' \in Nat
  <2> USE DEF TypeOK
  <2>1. CASE ServiceTop(c) BY <2>1 DEF ServiceTop
  <2>2. CASE ServiceRead(c) BY <2>2 DEF ServiceRead
  <2>3. CASE ServiceCount(c) BY <2>3 DEF ServiceCount
  <2>4. CASE ServiceReport(c) BY <2>4 DEF ServiceReport
  <2>5. CASE ServiceWrite(c) BY <2>5 DEF ServiceWrite
  <2>6. CASE ServiceClosed(c) BY <2>6 DEF ServiceClosed
  <2>7. CASE ServiceClose(c) BY <2>7 DEF ServiceClose
  <2>8. CASE ServiceRequests(c) BY <2>8 DEF ServiceRequests
  <2> QED BY <2>1, <2>2, <2>3, <2>4, <2>5, <2>6, <2>7, <2>8 DEF Move
<1>3. isKeepAlive' \in [Conn -> BOOLEAN]
  <2>1. isKeepAlive' = isKeepAlive \/ \E keep \in BOOLEAN : isKeepAlive' = [isKeepAlive EXCEPT ![c] = keep]
    BY DEF Move, ServiceTop, ServiceRead, ServiceCount, ServiceReport, ServiceWrite,
           ServiceClosed, ServiceClose, ServiceRequests
  <2> QED BY <2>1, Zenon DEF TypeOK
<1> QED BY <1>1, <1>2, <1>3 DEF TypeOK

\* The steps that neither start nor end a worker, a service or a channel.
LEMMA SameKeeps ==
  ASSUME IndInv, TypeOK', UNCHANGED <<workVars, hpc, mainpc, shut>>
  PROVE  IndInv'
BY DEF IndInv, ServiceInv, BatchInv, WaitInv, workVars

\* The initial state.
LEMMA IndInit == Init => IndInv
<1> SUFFICES ASSUME Init PROVE IndInv
  OBVIOUS
<1>1. TypeOK
  <2>1. MaxDup \in Nat
    BY FastAssumption
  <2>2. /\ wpc \in [Worker -> {"top", "onload", "report", "accept", "exit", "done"}]
        /\ connBatch \in [Worker -> SUBSET Conn] /\ closewg \in [Worker -> SUBSET Conn]
        /\ owner \in [Conn -> Worker \cup {None}]
    BY DEF Init
  <2>3. /\ hpc \in [Conn -> ServicePC] /\ hstate \in [Conn -> ServiceState]
        /\ isKeepAlive \in [Conn -> BOOLEAN]
        /\ totalrequest \in [Conn -> Nat] /\ reqoutcount \in [Conn -> Nat]
    BY DEF Init, ServicePC, ServiceState
  <2>4. exitSignaled \in BOOLEAN /\ lopen \in BOOLEAN /\ exitSignalDup \in 0 .. MaxDup
    <3>1. exitSignalDup \in 0 .. MaxDup
      BY <2>1 DEF Init
    <3> QED BY <3>1, Zenon DEF Init
  <2>5. /\ mainpc \in {"wait", "accepted", "requests", "closed", "stats", "done"}
        /\ acceptedCh \in Seq(Nat) /\ requestsCh \in Seq(Nat) /\ closedCh \in Nat
        /\ shut \subseteq Channel /\ live \subseteq Channel
        /\ acceptNum \in Nat /\ finishedNum \in Nat /\ closedNum \in Nat
    BY DEF Init
  <2> QED BY <2>2, <2>3, <2>4, <2>5 DEF TypeOK
<1>2. ServiceInv /\ BatchInv /\ WaitInv
  BY DEF Init, ServiceInv, BatchInv, WaitInv
<1> QED BY <1>1, <1>2 DEF IndInv

\* A move of a service keeps it in its wait group and out of the batches.
LEMMA MoveKeeps ==
  ASSUME IndInv, NEW c \in Conn, Move(c)
  PROVE  IndInv'
<1>1. TypeOK' /\ TypeOK
  BY MoveType DEF IndInv
<1>2. /\ hpc[c] \notin Quiet /\ hpc'[c] \notin Quiet
      /\ \A d \in Conn : d # c => hpc'[d] = hpc[d]
      /\ UNCHANGED <<wpc, connBatch, closewg, owner, mainpc, shut>>
  <2>1. PICK pc \in ServicePC \ Quiet : hpc' = [hpc EXCEPT ![c] = pc]
    BY <1>1, MoveStep
  <2>2. hpc[c] \notin Quiet /\ UNCHANGED <<mainVars, workVars>> /\ hpc \in [Conn -> ServicePC]
    BY <1>1, MoveStep DEF TypeOK
  <2> QED BY <2>1, <2>2 DEF mainVars, workVars
<1>3. ServiceInv'
  BY <1>2 DEF IndInv, ServiceInv, Quiet
<1>4. BatchInv'
  <2>1. \A d \in Conn : (hpc'[d] = "new" <=> hpc[d] = "new") /\ (hpc'[d] = "batch" <=> hpc[d] = "batch")
    BY <1>2 DEF Quiet
  <2>2. \A w \in Worker : connBatch[w] \subseteq Conn
    BY <1>1 DEF TypeOK
  <2> QED BY <1>2, <2>1, <2>2 DEF IndInv, BatchInv
<1>5. WaitInv'
  BY <1>2 DEF IndInv, WaitInv
<1> QED BY <1>1, <1>3, <1>4, <1>5 DEF IndInv

\* wg.Done() of a service.
LEMMA DoneKeeps ==
  ASSUME IndInv, NEW c \in Conn, ServiceDone(c)
  PROVE  IndInv'
<1> USE DEF sigVars, mainVars, chanVars, statVars
<1>1. /\ hpc[c] = "wgdone" /\ owner[c] \in Worker /\ TypeOK
      /\ hpc' = [hpc EXCEPT ![c] = "done"]
      /\ closewg' = [closewg EXCEPT ![owner[c]] = @ \ {c}]
      /\ UNCHANGED <<wpc, connBatch, owner, mainpc, shut>>
  BY DEF ServiceDone, IndInv, ServiceInv
<1>2. TypeOK'
  BY <1>1 DEF TypeOK, ServiceDone, ServicePC
<1>3. ServiceInv'
  BY <1>1 DEF IndInv, ServiceInv, TypeOK
<1>4. BatchInv'
  BY <1>1 DEF IndInv, BatchInv, TypeOK
<1>5. WaitInv'
  BY <1>1 DEF IndInv, WaitInv, TypeOK
<1> QED BY <1>2, <1>3, <1>4, <1>5 DEF IndInv

\* A batch becomes services, all of them in the worker's wait group.
LEMMA OnloadKeeps ==
  ASSUME IndInv, NEW w \in Worker, WorkerOnload(w)
  PROVE  IndInv'
<1> USE DEF sigVars, mainVars, chanVars, statVars
<1>1. /\ wpc[w] = "onload" /\ TypeOK
      /\ closewg' = [closewg EXCEPT ![w] = @ \cup connBatch[w]]
      /\ owner' = [c \in Conn |-> IF c \in connBatch[w] THEN w ELSE owner[c]]
      /\ hpc' = [c \in Conn |-> IF c \in connBatch[w] THEN "top" ELSE hpc[c]]
      /\ wpc' = [wpc EXCEPT ![w] = "report"]
      /\ UNCHANGED <<connBatch, mainpc, shut>>
  BY DEF WorkerOnload, IndInv
<1>2. TypeOK'
  BY <1>1 DEF TypeOK, WorkerOnload, ServicePC
<1>3. ServiceInv'
  BY <1>1 DEF IndInv, ServiceInv, TypeOK
<1>4. BatchInv'
  BY <1>1 DEF IndInv, BatchInv, TypeOK
<1>5. WaitInv'
  BY <1>1 DEF IndInv, WaitInv, TypeOK
<1> QED BY <1>2, <1>3, <1>4, <1>5 DEF IndInv

\* The other steps of a worker.
LEMMA WorkerKeeps ==
  ASSUME IndInv, NEW w \in Worker,
         \/ WorkerTop(w) \/ WorkerFlush(w) \/ WorkerReport(w) \/ WorkerTimeout(w)
         \/ WorkerError(w) \/ WorkerExit(w)
  PROVE  IndInv'
<1> USE DEF sigVars, mainVars, servVars, chanVars, statVars
<1>1. PICK pc \in {"top", "onload", "report", "accept", "exit", "done"} :
        /\ wpc' = [wpc EXCEPT ![w] = pc] /\ pc # "report"
        /\ pc = "done" => closewg[w] = {}
  BY DEF WorkerTop, WorkerFlush, WorkerReport, WorkerTimeout, WorkerError, WorkerExit
<1>2. /\ wpc[w] # "done" /\ TypeOK /\ UNCHANGED <<closewg, owner, servVars, mainVars, sigVars, statVars>>
      /\ connBatch' = connBatch \/ (connBatch' = [connBatch EXCEPT ![w] = {}] /\ wpc[w] = "report")
      /\ wpc[w] = "report" => connBatch'[w] = {}
  BY DEF WorkerTop, WorkerFlush, WorkerReport, WorkerTimeout, WorkerError, WorkerExit, IndInv, TypeOK
<1>3. TypeOK'
  <2>1. acceptedCh' \in Seq(Nat) /\ UNCHANGED <<requestsCh, closedCh>>
    <3>1. CASE WorkerReport(w)
      <4>1. Cardinality(connBatch[w]) \in Nat
        BY FastAssumption, <1>2, FS_Subset, FS_CardinalityType DEF TypeOK
      <4> QED BY <1>2, <3>1, <4>1 DEF WorkerReport, TypeOK
    <3>2. CASE ~WorkerReport(w)
      BY <1>2, <3>2 DEF WorkerTop, WorkerFlush, WorkerTimeout, WorkerError, WorkerExit, TypeOK
    <3> QED BY <3>1, <3>2
  <2> QED BY <1>1, <1>2, <2>1 DEF TypeOK
<1>4. ServiceInv'
  BY <1>2 DEF IndInv, ServiceInv
<1>5. BatchInv'
  <2>1. CASE connBatch' = connBatch
    BY <1>1, <1>2, <2>1 DEF IndInv, BatchInv, TypeOK
  <2>2. CASE connBatch' = [connBatch EXCEPT ![w] = {}] /\ wpc[w] = "report"
    <3>1. /\ connBatch'[w] = {} /\ hpc' = hpc
          /\ \A v \in Worker : v # w => connBatch'[v] = connBatch[v] /\ wpc'[v] = wpc[v]
      BY <1>1, <1>2, <2>2 DEF TypeOK
    <3>2. \A c \in connBatch[w] : hpc[c] # "batch"
      BY <1>2, <2>2 DEF IndInv, BatchInv
    <3>3. \A c \in Conn : hpc[c] = "batch" => \E v \in Worker : v # w /\ c \in connBatch[v]
      BY <3>2 DEF IndInv, BatchInv
    <3>4. \A v \in Worker, c \in Conn : c \in connBatch'[v] => v # w /\ c \in connBatch[v]
      BY <3>1
    <3>5. \A v \in Worker : connBatch'[v] \subseteq Conn
      BY <1>3 DEF TypeOK
    <3>6. \A v \in Worker : \A c \in connBatch'[v] :
             /\ hpc'[c] # "new" /\ (wpc'[v] # "report" <=> hpc'[c] = "batch")
             /\ \A u \in Worker : c \in connBatch'[u] => u = v
      BY <3>1, <3>4, <3>5 DEF IndInv, BatchInv
    <3>7. \A c \in Conn : hpc'[c] = "batch" => \E v \in Worker : c \in connBatch'[v]
      BY <3>1, <3>3
    <3> QED BY <3>6, <3>7 DEF BatchInv
  <2> QED BY <1>2, <2>1, <2>2
<1>6. WaitInv'
  BY <1>1, <1>2 DEF IndInv, WaitInv, TypeOK
<1> QED BY <1>3, <1>4, <1>5, <1>6 DEF IndInv

\* A connection that is accepted enters one batch.
LEMMA AcceptKeeps ==
  ASSUME IndInv, NEW w \in Worker, NEW c \in Conn, WorkerAccept(w, c)
  PROVE  IndInv'
<1> USE DEF sigVars, mainVars, chanVars, statVars
<1>1. /\ wpc[w] = "accept" /\ hpc[c] = "new" /\ TypeOK
      /\ hpc' = [hpc EXCEPT ![c] = "batch"]
      /\ connBatch' = [connBatch EXCEPT ![w] = @ \cup {c}]
      /\ wpc' = [wpc EXCEPT ![w] = "top"]
      /\ UNCHANGED <<closewg, owner, mainpc, shut>>
  BY DEF WorkerAccept, IndInv
<1>2. TypeOK'
  BY <1>1 DEF TypeOK, WorkerAccept, ServicePC
<1>3. ServiceInv'
  BY <1>1 DEF IndInv, ServiceInv, TypeOK
<1>4. BatchInv'
  BY <1>1 DEF IndInv, BatchInv, TypeOK
<1>5. WaitInv'
  BY <1>1 DEF IndInv, WaitInv, TypeOK
<1> QED BY <1>2, <1>3, <1>4, <1>5 DEF IndInv

\* Signals, main and requestCounter.
LEMMA RestKeeps ==
  ASSUME IndInv, ~Aborted, SignalFirst \/ SignalAgain \/ MainStep \/ CounterStep
  PROVE  IndInv'
<1> USE DEF sigVars, mainVars, workVars, servVars, chanVars, statVars
<1>0. TypeOK
  BY DEF IndInv
<1>1. CASE SignalFirst
  <2>1. TypeOK'
    BY <1>0, <1>1 DEF SignalFirst, TypeOK
  <2> QED BY <1>1, <2>1, SameKeeps DEF SignalFirst
<1>2. CASE SignalAgain
  <2>1. TypeOK'
    BY <1>0, <1>2, FastAssumption DEF SignalAgain, TypeOK, Aborted
  <2> QED BY <1>2, <2>1, SameKeeps DEF SignalAgain
<1>3. CASE MainWait
  <2>1. TypeOK'
    BY <1>0, <1>3 DEF MainWait, TypeOK
  <2> QED BY <1>3, <2>1 DEF MainWait, IndInv, ServiceInv, BatchInv, WaitInv
<1>4. CASE MainCloseChan
  <2>1. mainpc' \in {"requests", "closed", "stats"} /\ mainpc # "wait" /\ mainpc \in Channel
    BY <1>4 DEF MainCloseChan, Channel
  <2>2. TypeOK'
    BY <1>0, <1>4, <2>1 DEF MainCloseChan, TypeOK
  <2> QED BY <1>4, <2>1, <2>2 DEF MainCloseChan, IndInv, ServiceInv, BatchInv, WaitInv
<1>5. CASE MainStats
  <2>1. TypeOK'
    BY <1>0, <1>5 DEF MainStats, TypeOK
  <2> QED BY <1>5, <2>1 DEF MainStats, IndInv, ServiceInv, BatchInv, WaitInv
<1>6. CASE CounterStep
  <2>1. CASE CountAccepted
    <3>1. TypeOK'
      <4>1. CASE acceptedCh # <<>>
        <5>1. Head(acceptedCh) \in Nat /\ Tail(acceptedCh) \in Seq(Nat)
          BY <1>0, <4>1 DEF TypeOK
        <5>2. acceptNum' \in Nat /\ acceptedCh' \in Seq(Nat) /\ live' = live
          <6>1. acceptNum' = acceptNum + Head(acceptedCh) /\ acceptedCh' = Tail(acceptedCh) /\ live' = live /\ acceptNum \in Nat
            BY <1>0, <2>1, <4>1 DEF CountAccepted, TypeOK
          <6> QED BY <5>1, <6>1
        <5> QED BY <1>0, <2>1, <5>2 DEF CountAccepted, TypeOK
      <4>2. CASE acceptedCh = <<>>
        BY <1>0, <2>1, <4>2 DEF CountAccepted, TypeOK
      <4> QED BY <4>1, <4>2
    <3> QED BY <2>1, <3>1, SameKeeps DEF CountAccepted
  <2>2. CASE CountRequests
    <3>1. TypeOK'
      <4>1. CASE requestsCh # <<>>
        <5>1. Head(requestsCh) \in Nat /\ Tail(requestsCh) \in Seq(Nat)
          BY <1>0, <4>1 DEF TypeOK
        <5>2. finishedNum' \in Nat /\ requestsCh' \in Seq(Nat) /\ live' = live
          <6>1. finishedNum' = finishedNum + Head(requestsCh) /\ requestsCh' = Tail(requestsCh) /\ live' = live /\ finishedNum \in Nat
            BY <1>0, <2>2, <4>1 DEF CountRequests, TypeOK
          <6> QED BY <5>1, <6>1
        <5> QED BY <1>0, <2>2, <5>2 DEF CountRequests, TypeOK
      <4>2. CASE requestsCh = <<>>
        BY <1>0, <2>2, <4>2 DEF CountRequests, TypeOK
      <4> QED BY <4>1, <4>2
    <3> QED BY <2>2, <3>1, SameKeeps DEF CountRequests
  <2>3. CASE CountClosed
    <3>1. TypeOK'
      BY <1>0, <2>3 DEF CountClosed, TypeOK
    <3> QED BY <2>3, <3>1, SameKeeps DEF CountClosed
  <2> QED BY <1>6, <2>1, <2>2, <2>3 DEF CounterStep
<1> QED BY <1>1, <1>2, <1>3, <1>4, <1>5, <1>6 DEF MainStep

\* The inductive step.
LEMMA IndStep == IndInv /\ [Next]_vars => IndInv'
<1> SUFFICES ASSUME IndInv, [Next]_vars PROVE IndInv'
  OBVIOUS
<1>1. CASE UNCHANGED vars
  BY <1>1 DEF vars, sigVars, mainVars, workVars, servVars, chanVars, statVars, IndInv, TypeOK,
              ServiceInv, BatchInv, WaitInv
<1>2. ASSUME NEW c \in Conn, ServiceStep(c) PROVE IndInv'
  BY <1>2, MoveKeeps, DoneKeeps DEF ServiceStep, Move
<1>3. ASSUME NEW w \in Worker, WorkerStep(w) \/ WorkerFlush(w) PROVE IndInv'
  BY <1>3, WorkerKeeps, OnloadKeeps DEF WorkerStep
<1> QED BY <1>1, <1>2, <1>3, AcceptKeeps, RestKeeps DEF Next

\* Every running service is in a wait group that its worker waits for, and
\* main waits for every worker, in every reachable state.
THEOREM Invariance == Spec => []IndInv
BY IndInit, IndStep, PTL DEF Spec

\* main closes the channels after all that send on them have ended.
LEMMA NoSend == IndInv => NoSendOnClosed
<1> SUFFICES ASSUME IndInv, shut # {} PROVE NoSendOnClosed
  BY DEF NoSendOnClosed
<1>1. \A w \in Worker : wpc[w] = "done" /\ closewg[w] = {}
  BY DEF IndInv, WaitInv
<1>2. \A c \in Conn : hpc[c] \in Quiet
  BY <1>1 DEF IndInv, ServiceInv, Quiet
<1> QED BY <1>1, <1>2 DEF NoSendOnClosed, Quiet

\* Nobody sends on a channel after main has closed it.
THEOREM NoPanic == Spec => []NoSendOnClosed
BY NoSend, Invariance, PTL

\* Every connection that got a service is closed when main ends.
THEOREM ServedAreClosed == Spec => []ServedClosed
<1>1. IndInv => ServedClosed
  <2> SUFFICES ASSUME IndInv, mainpc = "done", NEW c \in Conn
               PROVE  hpc[c] \in {"new", "done"} \/ \E w \in Worker : c \in connBatch[w]
    BY DEF ServedClosed
  <2>1. \A w \in Worker : closewg[w] = {}
    BY DEF IndInv, WaitInv
  <2>2. hpc[c] \in {"new", "batch", "done"}
    BY <2>1 DEF IndInv, ServiceInv
  <2> QED BY <2>2 DEF IndInv, BatchInv
<1> QED BY <1>1, Invariance, PTL

(***************************************************************************)
(* The last report.  What a statistics channel carries and what            *)
(* requestCounter has taken from it are together what was sent, for each   *)
(* of the three channels.                                                  *)
(***************************************************************************)
\* The connections whose batch is reported: the started ones in no batch.
Told == {c \in Started : \A w \in Worker : c \notin connBatch[w]}

\* The connections that have sent on closedCh.
Closing == {c \in Conn : hpc[c] \in {"close", "requests", "wgdone", "done"}}

\* The requests of each connection that were sent on requestsCh.
Sent == [c \in Conn |-> IF hpc[c] \in {"wgdone", "done"} THEN totalrequest[c]
                        ELSE totalrequest[c] - reqoutcount[c]]

AcceptInv == acceptNum + Cardinality(Cells(acceptedCh)) = Cardinality(Told)
CloseInv == closedNum + closedCh = Cardinality(Closing)
RequestInv == finishedNum + Cardinality(Cells(requestsCh)) = Cardinality(Cells(Sent))

\* A service never has more to report than it counted, and nothing before it starts.
CountInv ==
    \A c \in Conn : /\ reqoutcount[c] <= totalrequest[c]
                    /\ hpc[c] \in {"new", "batch"} => totalrequest[c] = 0

\* A channel that requestCounter has left is closed and empty; main ends after
\* it has left all of them.
LeftInv ==
    /\ Channel \ live \subseteq shut
    /\ "accepted" \notin live => acceptedCh = <<>>
    /\ "requests" \notin live => requestsCh = <<>>
    /\ "closed" \notin live => closedCh = 0
    /\ mainpc = "done" => live = {}

AccountInv == AcceptInv /\ CloseInv /\ RequestInv /\ CountInv /\ LeftInv

\* Equal tables have equal sums.
LEMMA AccountSame ==
  ASSUME AccountInv
  PROVE  /\ UNCHANGED <<acceptNum, acceptedCh, Told>> => AcceptInv'
         /\ UNCHANGED <<closedNum, closedCh, Closing>> => CloseInv'
         /\ UNCHANGED <<finishedNum, requestsCh, Sent>> => RequestInv'
BY DEF AccountInv, AcceptInv, CloseInv, RequestInv

\* What the steps of a service do to its place in the code and its counters.
LEMMA ServiceMoves ==
  ASSUME TypeOK, NEW c \in Conn, Move(c)
  PROVE  \/ /\ ServiceTop(c) \/ ServiceRead(c) \/ ServiceWrite(c)
            /\ hpc[c] \in {"top", "read", "write"}
            /\ hpc' \in {[hpc EXCEPT ![c] = pc] : pc \in {"top", "read", "count", "write", "closed"}}
            /\ UNCHANGED <<totalrequest, reqoutcount, acceptedCh, requestsCh, closedCh>>
         \/ /\ ServiceCount(c) /\ hpc[c] = "count"
            /\ hpc' \in {[hpc EXCEPT ![c] = pc] : pc \in {"report", "write"}}
            /\ totalrequest' = [totalrequest EXCEPT ![c] = @ + 1]
            /\ reqoutcount' = [reqoutcount EXCEPT ![c] = @ + 1]
            /\ UNCHANGED <<acceptedCh, requestsCh, closedCh>>
         \/ /\ ServiceReport(c) /\ hpc[c] = "report" /\ hpc' = [hpc EXCEPT ![c] = "write"]
            /\ requestsCh' = Append(requestsCh, reqoutcount[c])
            /\ reqoutcount' = [reqoutcount EXCEPT ![c] = 0]
            /\ UNCHANGED <<totalrequest, acceptedCh, closedCh>>
         \/ /\ ServiceClosed(c) /\ hpc[c] = "closed" /\ hpc' = [hpc EXCEPT ![c] = "close"]
            /\ closedCh' = closedCh + 1
            /\ UNCHANGED <<totalrequest, reqoutcount, acceptedCh, requestsCh>>
         \/ /\ ServiceClose(c) /\ hpc[c] = "close" /\ hpc' = [hpc EXCEPT ![c] = "requests"]
            /\ UNCHANGED <<totalrequest, reqoutcount, acceptedCh, requestsCh, closedCh>>
         \/ /\ ServiceRequests(c) /\ hpc[c] = "requests" /\ hpc' = [hpc EXCEPT ![c] = "wgdone"]
            /\ requestsCh' = Append(requestsCh, reqoutcount[c])
            /\ UNCHANGED <<totalrequest, reqoutcount, acceptedCh, closedCh>>
<1> USE DEF chanVars
<1>1. CASE ServiceTop(c)
  <2>1. \E pc \in {"top", "read", "count", "write", "closed"}, st \in ServiceState : ServiceGoto(c, "top", pc, st)
    BY <1>1 DEF TypeOK, ServiceState, ServiceTop, ServiceSwitch
  <2> QED BY <1>1, <2>1 DEF ServiceTop, ServiceGoto
<1>2. CASE ServiceRead(c)
  <2>1. \E pc \in {"top", "count"}, st \in ServiceState : ServiceGoto(c, "read", pc, st)
    BY <1>2 DEF ServiceState, ServiceRead
  <2> QED BY <1>2, <2>1 DEF ServiceRead, ServiceGoto
<1>3. CASE ServiceCount(c) BY <1>3 DEF ServiceCount, ServiceGoto
<1>4. CASE ServiceReport(c) BY <1>4 DEF ServiceReport, ServiceGoto
<1>5. CASE ServiceWrite(c) BY <1>5 DEF ServiceWrite, ServiceGoto
<1>6. CASE ServiceClosed(c) BY <1>6 DEF ServiceClosed, ServiceGoto
<1>7. CASE ServiceClose(c) BY <1>7 DEF ServiceClose, ServiceGoto
<1>8. CASE ServiceRequests(c) BY <1>8 DEF ServiceRequests, ServiceGoto
<1> QED BY <1>1, <1>2, <1>3, <1>4, <1>5, <1>6, <1>7, <1>8 DEF Move

\* A set and a set apart from it.
LEMMA DisjointCount ==
  ASSUME NEW S, NEW T, IsFiniteSet(S), IsFiniteSet(T), S \cap T = {}
  PROVE  Cardinality(S \cup T) = Cardinality(S) + Cardinality(T)
<1>1. Cardinality(S \cup T) = Cardinality(S) + Cardinality(T) - Cardinality(S \cap T)
  BY FS_Union
<1>2. Cardinality(S) \in Nat /\ Cardinality(T) \in Nat /\ Cardinality(S \cap T) = 0
  BY FS_CardinalityType, FS_EmptySet
<1> QED BY <1>1, <1>2

\* The connections of the accepted channel and of acceptNum: those in the
\* batches that were reported.
LEMMA AcceptStep ==
  ASSUME IndInv, AccountInv, Next
  PROVE  AcceptInv'
<1> USE DEF sigVars, mainVars, workVars, servVars, chanVars, statVars
<1>0. TypeOK /\ IsFiniteSet(Conn) /\ Told \subseteq Conn
  BY FastAssumption DEF IndInv, Told, Started
<1>t. /\ acceptNum \in Nat /\ acceptedCh \in Seq(Nat) /\ Cardinality(Cells(acceptedCh)) \in Nat
      /\ IsFiniteSet(Told) /\ Cardinality(Told) \in Nat
  BY <1>0, ChannelCells, FS_Subset, FS_CardinalityType DEF TypeOK
<1>1. ASSUME UNCHANGED <<hpc, connBatch, acceptNum, acceptedCh>> PROVE AcceptInv'
  <2>1. Told' = Told
    BY <1>1 DEF Told, Started
  <2> QED BY <1>1, <2>1, AccountSame
<1>2. ASSUME NEW c \in Conn, ServiceStep(c) PROVE AcceptInv'
  <2>1. /\ hpc[c] \notin {"new", "batch"} /\ hpc'[c] \notin {"new", "batch"}
        /\ \A d \in Conn : d # c => hpc'[d] = hpc[d]
        /\ UNCHANGED <<connBatch, acceptNum, acceptedCh>>
    <3>1. CASE Move(c)
      <4>1. PICK pc \in ServicePC \ Quiet : hpc' = [hpc EXCEPT ![c] = pc]
        BY <1>0, <3>1, MoveStep
      <4>2. hpc[c] \notin Quiet /\ UNCHANGED <<connBatch, acceptNum>> /\ hpc \in [Conn -> ServicePC]
        BY <1>0, <3>1, MoveStep DEF TypeOK
      <4>3. acceptedCh' = acceptedCh
        BY <1>0, <3>1, ServiceMoves
      <4> QED BY <4>1, <4>2, <4>3 DEF Quiet
    <3>2. CASE ServiceDone(c)
      BY <1>0, <3>2 DEF ServiceDone, TypeOK
    <3> QED BY <1>2, <3>1, <3>2 DEF ServiceStep, Move
  <2>2. Told' = Told
    BY <2>1 DEF Told, Started
  <2> QED BY <2>1, <2>2, AccountSame
<1>3. ASSUME NEW w \in Worker, WorkerOnload(w) PROVE AcceptInv'
  <2>1. /\ hpc' = [c \in Conn |-> IF c \in connBatch[w] THEN "top" ELSE hpc[c]]
        /\ UNCHANGED <<connBatch, acceptNum, acceptedCh>>
    BY <1>3 DEF WorkerOnload
  <2>2. Told' = Told
    BY <2>1 DEF Told, Started
  <2> QED BY <2>1, <2>2, AccountSame
<1>4. ASSUME NEW w \in Worker, NEW c \in Conn, WorkerAccept(w, c) PROVE AcceptInv'
  <2>1. /\ hpc[c] = "new" /\ hpc' = [hpc EXCEPT ![c] = "batch"]
        /\ connBatch' = [connBatch EXCEPT ![w] = @ \cup {c}]
        /\ UNCHANGED <<acceptNum, acceptedCh>> /\ hpc \in [Conn -> ServicePC] /\ connBatch \in [Worker -> SUBSET Conn]
    BY <1>0, <1>4 DEF WorkerAccept, TypeOK
  <2>2. Started' = Started /\ c \notin Started
    BY <2>1 DEF Started
  <2>3. \A d \in Conn, v \in Worker : d # c => (d \in connBatch'[v] <=> d \in connBatch[v])
    BY <2>1
  <2>4. Told' = Told
    BY <2>2, <2>3 DEF Told, Started
  <2> QED BY <2>1, <2>4, AccountSame
<1>5. ASSUME NEW w \in Worker, WorkerReport(w) PROVE AcceptInv'
  <2> DEFINE k == Cardinality(connBatch[w])
  <2>1. /\ wpc[w] = "report" /\ acceptedCh' = Append(acceptedCh, k)
        /\ connBatch' = [connBatch EXCEPT ![w] = {}] /\ UNCHANGED <<hpc, acceptNum>>
        /\ connBatch \in [Worker -> SUBSET Conn]
    BY <1>0, <1>5 DEF WorkerReport, TypeOK
  <2>2. IsFiniteSet(connBatch[w]) /\ k \in Nat
    BY <1>0, <2>1, FS_Subset, FS_CardinalityType
  <2>3. \A c \in connBatch[w] : c \in Started /\ \A v \in Worker : c \in connBatch[v] => v = w
    BY <2>1 DEF IndInv, BatchInv, Started
  <2>4. Told' = Told \cup connBatch[w] /\ Told \cap connBatch[w] = {}
    BY <2>1, <2>3 DEF Told, Started
  <2>5. Cardinality(Told') = Cardinality(Told) + k
    BY <1>t, <2>2, <2>4, DisjointCount
  <2> HIDE DEF k
  <2>6. Cardinality(Cells(acceptedCh')) = Cardinality(Cells(acceptedCh)) + k
    BY <1>t, <2>1, <2>2, ChannelCells
  <2>7. acceptNum' + Cardinality(Cells(acceptedCh')) = Cardinality(Told')
    <3>1. acceptNum + Cardinality(Cells(acceptedCh)) = Cardinality(Told)
      BY DEF AccountInv, AcceptInv
    <3> QED BY <1>t, <2>1, <2>2, <2>5, <2>6, <3>1
  <2> QED BY <2>7 DEF AcceptInv
<1>6. ASSUME CountAccepted PROVE AcceptInv'
  <2>1. CASE acceptedCh = <<>>
    BY <1>1, <1>6, <2>1 DEF CountAccepted
  <2>2. CASE acceptedCh # <<>>
    <3>1. /\ acceptNum' = acceptNum + Head(acceptedCh) /\ acceptedCh' = Tail(acceptedCh)
          /\ UNCHANGED <<hpc, connBatch>>
      BY <1>6, <2>2 DEF CountAccepted
    <3>2. Head(acceptedCh) \in Nat
      BY <1>t, <2>2
    <3>3. Cardinality(Cells(acceptedCh')) = Cardinality(Cells(acceptedCh)) - Head(acceptedCh)
      BY <1>t, <2>2, <3>1, ChannelCells
    <3>4. Told' = Told
      BY <3>1 DEF Told, Started
    <3>5. acceptNum + Cardinality(Cells(acceptedCh)) = Cardinality(Told)
      BY DEF AccountInv, AcceptInv
    <3>6. acceptNum' + Cardinality(Cells(acceptedCh')) = Cardinality(Told)
      BY <1>t, <3>1, <3>2, <3>3, <3>5
    <3> QED BY <3>4, <3>6 DEF AcceptInv
  <2> QED BY <2>1, <2>2
<1>7. CASE SignalFirst \/ SignalAgain \/ MainStep \/ CountRequests \/ CountClosed
  BY <1>1, <1>7 DEF SignalFirst, SignalAgain, MainStep, MainWait, MainCloseChan, MainStats, CountRequests, CountClosed
<1>8. ASSUME NEW w \in Worker, WorkerTop(w) \/ WorkerFlush(w) \/ WorkerTimeout(w) \/ WorkerError(w) \/ WorkerExit(w)
      PROVE  AcceptInv'
  BY <1>1, <1>8 DEF WorkerTop, WorkerFlush, WorkerTimeout, WorkerError, WorkerExit
<1> QED BY <1>2, <1>3, <1>4, <1>5, <1>6, <1>7, <1>8 DEF Next, WorkerStep, CounterStep

\* The connections of the closed channel and of closedNum: those whose service
\* is past its send.
LEMMA CloseStep ==
  ASSUME IndInv, AccountInv, Next
  PROVE  CloseInv'
<1> USE DEF sigVars, mainVars, workVars, servVars, chanVars, statVars
<1>0. TypeOK /\ IsFiniteSet(Conn) /\ Closing \subseteq Conn
  BY FastAssumption DEF IndInv, Closing
<1>t. /\ closedNum \in Nat /\ closedCh \in Nat /\ hpc \in [Conn -> ServicePC]
      /\ IsFiniteSet(Closing) /\ Cardinality(Closing) \in Nat
      /\ closedNum + closedCh = Cardinality(Closing)
  BY <1>0, FS_Subset, FS_CardinalityType DEF TypeOK, AccountInv, CloseInv
<1>1. ASSUME UNCHANGED <<hpc, closedNum, closedCh>> PROVE CloseInv'
  <2>1. Closing' = Closing
    BY <1>1 DEF Closing
  <2> QED BY <1>1, <2>1, AccountSame
<1>2. ASSUME NEW c \in Conn, Move(c) PROVE CloseInv'
  <2>0. closedNum' = closedNum
    BY <1>0, <1>2, MoveStep
  <2>1. CASE ServiceClosed(c) /\ hpc[c] = "closed"
    <3>1. hpc' = [hpc EXCEPT ![c] = "close"] /\ closedCh' = closedCh + 1
      BY <2>1 DEF ServiceClosed, ServiceGoto
    <3>2. Closing' = Closing \cup {c} /\ c \notin Closing
      BY <1>t, <2>1, <3>1 DEF Closing
    <3>3. Cardinality(Closing') = Cardinality(Closing) + 1
      BY <1>t, <3>2, FS_AddElement
    <3> QED BY <1>t, <2>0, <3>1, <3>3 DEF CloseInv
  <2>2. CASE ~(ServiceClosed(c) /\ hpc[c] = "closed")
    <3>1. /\ closedCh' = closedCh
          /\ hpc[c] \in {"close", "requests", "wgdone", "done"} <=> hpc'[c] \in {"close", "requests", "wgdone", "done"}
          /\ \A d \in Conn : d # c => hpc'[d] = hpc[d]
      BY <1>0, <1>t, <1>2, <2>2, ServiceMoves
    <3>2. Closing' = Closing
      BY <3>1 DEF Closing
    <3> QED BY <2>0, <3>1, <3>2, AccountSame
  <2> QED BY <2>1, <2>2
<1>3. ASSUME NEW c \in Conn, ServiceDone(c) PROVE CloseInv'
  <2>1. hpc[c] = "wgdone" /\ hpc' = [hpc EXCEPT ![c] = "done"] /\ UNCHANGED <<closedNum, closedCh>>
    BY <1>3 DEF ServiceDone
  <2>2. Closing' = Closing
    BY <1>t, <2>1 DEF Closing
  <2> QED BY <2>1, <2>2, AccountSame
<1>4. ASSUME NEW w \in Worker, WorkerOnload(w) PROVE CloseInv'
  <2>1. /\ wpc[w] = "onload" /\ connBatch[w] \subseteq Conn
        /\ hpc' = [c \in Conn |-> IF c \in connBatch[w] THEN "top" ELSE hpc[c]]
        /\ UNCHANGED <<closedNum, closedCh>>
    BY <1>0, <1>4 DEF WorkerOnload, TypeOK
  <2>2. \A c \in connBatch[w] : hpc[c] = "batch"
    BY <2>1 DEF IndInv, BatchInv
  <2>3. Closing' = Closing
    BY <2>1, <2>2 DEF Closing
  <2> QED BY <2>1, <2>3, AccountSame
<1>5. ASSUME NEW w \in Worker, NEW c \in Conn, WorkerAccept(w, c) PROVE CloseInv'
  <2>1. hpc[c] = "new" /\ hpc' = [hpc EXCEPT ![c] = "batch"] /\ UNCHANGED <<closedNum, closedCh>>
    BY <1>5 DEF WorkerAccept
  <2>2. Closing' = Closing
    BY <1>t, <2>1 DEF Closing
  <2> QED BY <2>1, <2>2, AccountSame
<1>6. ASSUME CountClosed PROVE CloseInv'
  <2>1. CASE closedCh > 0
    <3>1. closedNum' = closedNum + 1 /\ closedCh' = closedCh - 1 /\ hpc' = hpc
      BY <1>6, <2>1 DEF CountClosed
    <3>2. Closing' = Closing
      BY <3>1 DEF Closing
    <3> QED BY <1>t, <3>1, <3>2 DEF CloseInv
  <2>2. CASE ~(closedCh > 0)
    BY <1>1, <1>6, <2>2 DEF CountClosed
  <2> QED BY <2>1, <2>2
<1>7. CASE SignalFirst \/ SignalAgain \/ MainStep \/ CountAccepted \/ CountRequests
  BY <1>1, <1>7 DEF SignalFirst, SignalAgain, MainStep, MainWait, MainCloseChan, MainStats, CountAccepted, CountRequests
<1>8. ASSUME NEW w \in Worker, \/ WorkerTop(w) \/ WorkerFlush(w) \/ WorkerReport(w)
                               \/ WorkerTimeout(w) \/ WorkerError(w) \/ WorkerExit(w)
      PROVE  CloseInv'
  BY <1>1, <1>8 DEF WorkerTop, WorkerFlush, WorkerReport, WorkerTimeout, WorkerError, WorkerExit
<1> QED BY <1>2, <1>3, <1>4, <1>5, <1>6, <1>7, <1>8 DEF Next, WorkerStep, CounterStep, ServiceStep, Move

\* A service counts a request before it has it to report.
LEMMA CountStep ==
  ASSUME IndInv, AccountInv, Next
  PROVE  CountInv'
<1> USE DEF sigVars, mainVars, workVars, servVars, chanVars, statVars
<1>0. TypeOK /\ CountInv
  BY DEF IndInv, AccountInv
<1>t. /\ hpc \in [Conn -> ServicePC] /\ totalrequest \in [Conn -> Nat] /\ reqoutcount \in [Conn -> Nat]
  BY <1>0 DEF TypeOK
<1>1. ASSUME UNCHANGED <<hpc, totalrequest, reqoutcount>> PROVE CountInv'
  BY <1>0, <1>1 DEF CountInv
<1>2. ASSUME NEW c \in Conn, Move(c) PROVE CountInv'
  <2>1. /\ hpc'[c] \notin {"new", "batch"} /\ \A d \in Conn : d # c => hpc'[d] = hpc[d]
    BY <1>0, <1>t, <1>2, MoveStep DEF Quiet
  <2>2. /\ \A d \in Conn : d # c => totalrequest'[d] = totalrequest[d] /\ reqoutcount'[d] = reqoutcount[d]
        /\ reqoutcount'[c] <= totalrequest'[c]
    <3>1. reqoutcount[c] <= totalrequest[c] /\ reqoutcount[c] \in Nat /\ totalrequest[c] \in Nat
      BY <1>0, <1>t DEF CountInv
    <3> QED BY <1>0, <1>t, <1>2, <3>1, ServiceMoves
  <2> QED BY <1>0, <2>1, <2>2 DEF CountInv
<1>3. ASSUME NEW c \in Conn, ServiceDone(c) PROVE CountInv'
  BY <1>0, <1>t, <1>3 DEF ServiceDone, CountInv
<1>4. ASSUME NEW w \in Worker, WorkerOnload(w) PROVE CountInv'
  BY <1>0, <1>t, <1>4 DEF WorkerOnload, CountInv
<1>5. ASSUME NEW w \in Worker, NEW c \in Conn, WorkerAccept(w, c) PROVE CountInv'
  BY <1>0, <1>t, <1>5 DEF WorkerAccept, CountInv
<1>7. CASE SignalFirst \/ SignalAgain \/ MainStep \/ CountAccepted \/ CountRequests \/ CountClosed
  BY <1>1, <1>7 DEF SignalFirst, SignalAgain, MainStep, MainWait, MainCloseChan, MainStats,
                    CountAccepted, CountRequests, CountClosed
<1>8. ASSUME NEW w \in Worker, \/ WorkerTop(w) \/ WorkerFlush(w) \/ WorkerReport(w)
                               \/ WorkerTimeout(w) \/ WorkerError(w) \/ WorkerExit(w)
      PROVE  CountInv'
  BY <1>1, <1>8 DEF WorkerTop, WorkerFlush, WorkerReport, WorkerTimeout, WorkerError, WorkerExit
<1> QED BY <1>2, <1>3, <1>4, <1>5, <1>7, <1>8 DEF Next, WorkerStep, CounterStep, ServiceStep, Move

\* The requests of the requests channel and of finishedNum: those the services
\* have sent.
LEMMA RequestStep ==
  ASSUME IndInv, AccountInv, Next
  PROVE  RequestInv'
<1> USE DEF sigVars, mainVars, workVars, servVars, chanVars, statVars
<1>0. TypeOK /\ IsFiniteSet(Conn)
  BY FastAssumption DEF IndInv
<1>t. /\ finishedNum \in Nat /\ requestsCh \in Seq(Nat) /\ hpc \in [Conn -> ServicePC]
      /\ totalrequest \in [Conn -> Nat] /\ reqoutcount \in [Conn -> Nat]
      /\ Cardinality(Cells(requestsCh)) \in Nat
  BY <1>0, ChannelCells DEF TypeOK
<1>s. Sent \in [Conn -> Nat] /\ Cardinality(Cells(Sent)) \in Nat
  <2>1. \A c \in Conn : totalrequest[c] - reqoutcount[c] \in Nat
    BY <1>t DEF AccountInv, CountInv
  <2>2. Sent \in [Conn -> Nat]
    BY <1>t, <2>1 DEF Sent
  <2> QED BY <1>0, <2>2, CellsFinite
<1>i. finishedNum + Cardinality(Cells(requestsCh)) = Cardinality(Cells(Sent))
  BY DEF AccountInv, RequestInv
<1>1. ASSUME UNCHANGED <<hpc, totalrequest, reqoutcount, finishedNum, requestsCh>> PROVE RequestInv'
  <2>1. Sent' = Sent
    BY <1>1 DEF Sent
  <2> QED BY <1>1, <2>1, AccountSame
<1>2. ASSUME NEW c \in Conn, Move(c) PROVE RequestInv'
  <2>0. finishedNum' = finishedNum
    BY <1>0, <1>2, MoveStep
  <2>1. CASE ServiceReport(c) \/ ServiceRequests(c)
    <3> DEFINE k == reqoutcount[c]
               j == Sent[c] + k
    <3>1. /\ hpc[c] \notin {"wgdone", "done"} /\ requestsCh' = Append(requestsCh, k)
          /\ totalrequest' = totalrequest
          /\ \A d \in Conn : d # c => hpc'[d] = hpc[d] /\ reqoutcount'[d] = reqoutcount[d]
          /\ hpc'[c] \in {"wgdone", "done"} \/ reqoutcount'[c] = 0
      BY <1>t, <2>1 DEF ServiceReport, ServiceRequests, ServiceGoto
    <3>2. Sent[c] = totalrequest[c] - k /\ k \in Nat /\ totalrequest[c] \in Nat /\ Sent[c] \in Nat /\ j \in Nat
      <4>1. Sent[c] = totalrequest[c] - k /\ k \in Nat /\ totalrequest[c] \in Nat /\ Sent[c] \in Nat
        BY <1>t, <1>s, <3>1 DEF Sent
      <4> QED BY <4>1
    <3>3. j = totalrequest[c] /\ totalrequest[c] - 0 = totalrequest[c]
      BY <3>2
    <3>4. Sent' = [Sent EXCEPT ![c] = j]
      <4>1. ASSUME NEW d \in Conn, d # c PROVE Sent'[d] = Sent[d]
        BY <3>1, <4>1 DEF Sent
      <4>2. Sent'[c] = j
        BY <3>1, <3>3 DEF Sent
      <4>3. Sent' = [d \in Conn |-> Sent'[d]] /\ Sent = [d \in Conn |-> Sent[d]]
        BY DEF Sent
      <4> QED BY <4>1, <4>2, <4>3
    <3> HIDE DEF j, k
    <3>5. Cardinality(Cells(Sent')) = Cardinality(Cells(Sent)) - Sent[c] + j
      BY <1>0, <1>s, <3>2, <3>4, CellsSet
    <3>6. Cardinality(Cells(requestsCh')) = Cardinality(Cells(requestsCh)) + k
      BY <1>t, <3>1, <3>2, ChannelCells
    <3>7. finishedNum' + Cardinality(Cells(requestsCh')) = Cardinality(Cells(Sent'))
      BY <1>t, <1>s, <1>i, <2>0, <3>2, <3>5, <3>6 DEF j
    <3> QED BY <3>7 DEF RequestInv
  <2>2. CASE ServiceCount(c)
    <3>1. /\ hpc[c] = "count" /\ hpc' \in {[hpc EXCEPT ![c] = pc] : pc \in {"report", "write"}}
          /\ totalrequest' = [totalrequest EXCEPT ![c] = @ + 1] /\ requestsCh' = requestsCh
          /\ reqoutcount' = [reqoutcount EXCEPT ![c] = @ + 1]
      BY <2>2 DEF ServiceCount, ServiceGoto
    <3>2. ASSUME NEW d \in Conn PROVE Sent'[d] = Sent[d]
      <4>1. CASE d # c
        BY <1>t, <3>1, <4>1 DEF Sent
      <4>2. CASE d = c
        <5>1. totalrequest[c] \in Nat /\ reqoutcount[c] \in Nat
          BY <1>t
        <5>2. (totalrequest[c] + 1) - (reqoutcount[c] + 1) = totalrequest[c] - reqoutcount[c]
          BY <5>1
        <5> QED BY <1>t, <3>1, <4>2, <5>2 DEF Sent
      <4> QED BY <4>1, <4>2
    <3>3. Sent' = Sent
      <4>1. Sent' = [d \in Conn |-> Sent'[d]] /\ Sent = [d \in Conn |-> Sent[d]]
        BY DEF Sent
      <4> QED BY <3>2, <4>1
    <3> QED BY <2>0, <3>1, <3>3, AccountSame
  <2>3. CASE ~(ServiceReport(c) \/ ServiceRequests(c) \/ ServiceCount(c))
    <3>1. /\ UNCHANGED <<totalrequest, reqoutcount, requestsCh>>
          /\ hpc[c] \notin {"wgdone", "done"} /\ hpc'[c] \notin {"wgdone", "done"}
          /\ \A d \in Conn : d # c => hpc'[d] = hpc[d]
      BY <1>0, <1>t, <1>2, <2>3, ServiceMoves
    <3>2. Sent' = Sent
      BY <3>1 DEF Sent
    <3> QED BY <2>0, <3>1, <3>2, AccountSame
  <2> QED BY <2>1, <2>2, <2>3
<1>3. ASSUME NEW c \in Conn, ServiceDone(c) PROVE RequestInv'
  <2>1. hpc[c] = "wgdone" /\ hpc' = [hpc EXCEPT ![c] = "done"]
        /\ UNCHANGED <<totalrequest, reqoutcount, finishedNum, requestsCh>>
    BY <1>3 DEF ServiceDone
  <2>2. Sent' = Sent
    BY <1>t, <2>1 DEF Sent
  <2> QED BY <2>1, <2>2, AccountSame
<1>4. ASSUME NEW w \in Worker, WorkerOnload(w) PROVE RequestInv'
  <2>1. /\ wpc[w] = "onload" /\ connBatch[w] \subseteq Conn
        /\ hpc' = [c \in Conn |-> IF c \in connBatch[w] THEN "top" ELSE hpc[c]]
        /\ UNCHANGED <<totalrequest, reqoutcount, finishedNum, requestsCh>>
    BY <1>0, <1>4 DEF WorkerOnload, TypeOK
  <2>2. \A c \in connBatch[w] : hpc[c] = "batch"
    BY <2>1 DEF IndInv, BatchInv
  <2>3. Sent' = Sent
    BY <2>1, <2>2 DEF Sent
  <2> QED BY <2>1, <2>3, AccountSame
<1>5. ASSUME NEW w \in Worker, NEW c \in Conn, WorkerAccept(w, c) PROVE RequestInv'
  <2>1. hpc[c] = "new" /\ hpc' = [hpc EXCEPT ![c] = "batch"]
        /\ UNCHANGED <<totalrequest, reqoutcount, finishedNum, requestsCh>>
    BY <1>5 DEF WorkerAccept
  <2>2. Sent' = Sent
    BY <1>t, <2>1 DEF Sent
  <2> QED BY <2>1, <2>2, AccountSame
<1>6. ASSUME CountRequests PROVE RequestInv'
  <2>1. CASE requestsCh = <<>>
    BY <1>1, <1>6, <2>1 DEF CountRequests
  <2>2. CASE requestsCh # <<>>
    <3>1. /\ finishedNum' = finishedNum + Head(requestsCh) /\ requestsCh' = Tail(requestsCh)
          /\ UNCHANGED <<hpc, totalrequest, reqoutcount>>
      BY <1>6, <2>2 DEF CountRequests
    <3>2. Head(requestsCh) \in Nat
      BY <1>t, <2>2
    <3>3. Cardinality(Cells(requestsCh')) = Cardinality(Cells(requestsCh)) - Head(requestsCh)
      BY <1>t, <2>2, <3>1, ChannelCells
    <3>4. Sent' = Sent
      BY <3>1 DEF Sent
    <3>5. finishedNum' + Cardinality(Cells(requestsCh')) = Cardinality(Cells(Sent))
      BY <1>t, <1>i, <3>1, <3>2, <3>3
    <3> QED BY <3>4, <3>5 DEF RequestInv
  <2> QED BY <2>1, <2>2
<1>7. CASE SignalFirst \/ SignalAgain \/ MainStep \/ CountAccepted \/ CountClosed
  BY <1>1, <1>7 DEF SignalFirst, SignalAgain, MainStep, MainWait, MainCloseChan, MainStats, CountAccepted, CountClosed
<1>8. ASSUME NEW w \in Worker, \/ WorkerTop(w) \/ WorkerFlush(w) \/ WorkerReport(w)
                               \/ WorkerTimeout(w) \/ WorkerError(w) \/ WorkerExit(w)
      PROVE  RequestInv'
  BY <1>1, <1>8 DEF WorkerTop, WorkerFlush, WorkerReport, WorkerTimeout, WorkerError, WorkerExit
<1> QED BY <1>2, <1>3, <1>4, <1>5, <1>6, <1>7, <1>8 DEF Next, WorkerStep, CounterStep, ServiceStep, Move

\* requestCounter leaves a channel that is closed and empty, and nobody sends
\* on it any more.
LEMMA LeftStep ==
  ASSUME IndInv, AccountInv, Next
  PROVE  LeftInv'
<1> USE DEF sigVars, mainVars, workVars, servVars, chanVars, statVars
<1>0. TypeOK /\ LeftInv /\ NoSendOnClosed
  BY NoSend DEF IndInv, AccountInv
<1>1. ASSUME UNCHANGED <<live, acceptedCh, requestsCh, closedCh, shut, mainpc>> PROVE LeftInv'
  BY <1>0, <1>1 DEF LeftInv
<1>2. ASSUME NEW c \in Conn, Move(c) PROVE LeftInv'
  <2>1. UNCHANGED <<live, shut, mainpc>>
    BY <1>0, <1>2, MoveStep
  <2>2. acceptedCh' = acceptedCh
    BY <1>0, <1>2, ServiceMoves
  <2>3. requestsCh' = requestsCh \/ "requests" \in live
    BY <1>0, <1>2, ServiceMoves DEF LeftInv, NoSendOnClosed, Channel
  <2>4. closedCh' = closedCh \/ "closed" \in live
    BY <1>0, <1>2, ServiceMoves DEF LeftInv, NoSendOnClosed, Channel
  <2> QED BY <1>0, <2>1, <2>2, <2>3, <2>4 DEF LeftInv
<1>3. ASSUME NEW w \in Worker, WorkerReport(w) PROVE LeftInv'
  <2>1. "accepted" \in live /\ UNCHANGED <<live, shut, mainpc, requestsCh, closedCh>>
    BY <1>0, <1>3 DEF WorkerReport, LeftInv, NoSendOnClosed, Channel
  <2> QED BY <1>0, <2>1 DEF LeftInv
<1>4. ASSUME NEW w \in Worker, \/ WorkerTop(w) \/ WorkerFlush(w) \/ WorkerOnload(w)
                               \/ WorkerTimeout(w) \/ WorkerError(w) \/ WorkerExit(w)
      PROVE  LeftInv'
  BY <1>1, <1>4 DEF WorkerTop, WorkerFlush, WorkerOnload, WorkerTimeout, WorkerError, WorkerExit
<1>5. ASSUME NEW w \in Worker, NEW c \in Conn, WorkerAccept(w, c) PROVE LeftInv'
  BY <1>1, <1>5 DEF WorkerAccept
<1>6. ASSUME NEW c \in Conn, ServiceDone(c) PROVE LeftInv'
  BY <1>1, <1>6 DEF ServiceDone
<1>7. CASE SignalFirst \/ SignalAgain
  BY <1>1, <1>7 DEF SignalFirst, SignalAgain
<1>8. CASE MainStep
  <2>1. CASE MainWait
    BY <1>0, <2>1 DEF MainWait, LeftInv
  <2>2. CASE MainCloseChan
    <3>1. mainpc' \in {"requests", "closed", "stats"} /\ shut \subseteq shut' /\ UNCHANGED <<chanVars, statVars>>
      BY <2>2 DEF MainCloseChan, Channel
    <3> QED BY <1>0, <3>1 DEF LeftInv
  <2>3. CASE MainStats
    BY <1>0, <2>3 DEF MainStats, LeftInv
  <2> QED BY <1>8, <2>1, <2>2, <2>3 DEF MainStep
<1>9. CASE CounterStep
  <2>1. CASE CountAccepted BY <1>0, <2>1 DEF CountAccepted, LeftInv, Channel
  <2>2. CASE CountRequests BY <1>0, <2>2 DEF CountRequests, LeftInv, Channel
  <2>3. CASE CountClosed BY <1>0, <2>3 DEF CountClosed, LeftInv, Channel, TypeOK
  <2> QED BY <1>9, <2>1, <2>2, <2>3 DEF CounterStep
<1> QED BY <1>2, <1>3, <1>4, <1>5, <1>6, <1>7, <1>8, <1>9 DEF Next, WorkerStep, ServiceStep, Move

\* The accounts start balanced.
LEMMA AccountInit == Init => AccountInv
<1> SUFFICES ASSUME Init PROVE AccountInv
  OBVIOUS
<1>1. /\ hpc = [c \in Conn |-> "new"] /\ acceptedCh = <<>> /\ requestsCh = <<>> /\ closedCh = 0
      /\ acceptNum = 0 /\ finishedNum = 0 /\ closedNum = 0 /\ live = Channel /\ mainpc = "wait"
      /\ totalrequest = [c \in Conn |-> 0] /\ reqoutcount = [c \in Conn |-> 0]
  BY DEF Init
<1>2. Told = {} /\ Closing = {} /\ Cells(Sent) = {}
  <2>1. Told = {} /\ Closing = {}
    BY <1>1 DEF Told, Started, Closing
  <2>2. \A c \in Conn : Sent[c] = 0
    BY <1>1 DEF Sent
  <2>3. DOMAIN Sent = Conn
    BY DEF Sent
  <2> QED BY <2>1, <2>2, <2>3 DEF Cells
<1>3. Cells(<<>>) = {} /\ Cardinality({}) = 0
  BY FS_EmptySet DEF Cells
<1>4. AcceptInv /\ CloseInv /\ RequestInv
  <2>1. acceptNum = 0 /\ Cardinality(Cells(acceptedCh)) = 0 /\ Cardinality(Told) = 0
    BY <1>1, <1>2, <1>3
  <2>2. finishedNum = 0 /\ Cardinality(Cells(requestsCh)) = 0 /\ Cardinality(Cells(Sent)) = 0
    BY <1>1, <1>2, <1>3
  <2>3. closedNum = 0 /\ closedCh = 0 /\ Cardinality(Closing) = 0
    BY <1>1, <1>2, <1>3
  <2>4. AcceptInv
    BY <2>1 DEF AcceptInv
  <2>5. CloseInv
    BY <2>3 DEF CloseInv
  <2>6. RequestInv
    BY <2>2 DEF RequestInv
  <2> QED BY <2>4, <2>5, <2>6
<1>5. CountInv
  BY <1>1 DEF CountInv
<1>6. LeftInv
  BY <1>1 DEF LeftInv
<1> QED BY <1>4, <1>5, <1>6 DEF AccountInv

\* Every connection and every request is counted, on its way or still with its
\* worker or service, in every reachable state.
THEOREM AccountsBalance == Spec => []AccountInv
<1>1. IndInv /\ AccountInv /\ [Next]_vars => AccountInv'
  <2> SUFFICES ASSUME IndInv, AccountInv, [Next]_vars PROVE AccountInv'
    OBVIOUS
  <2>1. CASE Next
    BY <2>1, AcceptStep, CloseStep, RequestStep, CountStep, LeftStep DEF AccountInv
  <2>2. CASE UNCHANGED vars
    <3>1. /\ UNCHANGED <<Told, Closing, Sent>>
          /\ UNCHANGED <<acceptNum, acceptedCh, closedNum, closedCh, finishedNum, requestsCh>>
      BY <2>2 DEF vars, workVars, servVars, chanVars, statVars, Told, Started, Closing, Sent
    <3>2. AcceptInv' /\ CloseInv' /\ RequestInv'
      BY <3>1, AccountSame
    <3>3. CountInv' /\ LeftInv'
      BY <2>2 DEF vars, mainVars, servVars, chanVars, statVars, AccountInv, CountInv, LeftInv
    <3> QED BY <3>2, <3>3 DEF AccountInv
  <2> QED BY <2>1, <2>2
<1> QED BY <1>1, AccountInit, Invariance, PTL DEF Spec

\* The last report of requestCounter, which main waits for, has every
\* connection that was served, as accepted and as closed, and every request.
THEOREM ReportCorrect == Spec => []LastReport
<1>1. IndInv /\ AccountInv => LastReport
  <2> SUFFICES ASSUME IndInv, AccountInv, mainpc = "done" PROVE LastReport
    BY DEF LastReport
  <2>0. TypeOK /\ IsFiniteSet(Conn)
    BY FastAssumption DEF IndInv
  <2>1. acceptedCh = <<>> /\ requestsCh = <<>> /\ closedCh = 0
    BY DEF AccountInv, LeftInv
  <2>2. \A w \in Worker : wpc[w] = "done" /\ closewg[w] = {}
    BY DEF IndInv, WaitInv
  <2>3. \A c \in Conn : hpc[c] \in {"new", "batch", "done"}
    BY <2>2 DEF IndInv, ServiceInv
  <2>4. Told = Started
    BY <2>2 DEF IndInv, BatchInv, Told, Started
  <2>5. Closing = Started
    BY <2>3 DEF Closing, Started
  <2>6. Sent = totalrequest
    <3>1. totalrequest \in [Conn -> Nat] /\ reqoutcount \in [Conn -> Nat]
      BY <2>0 DEF TypeOK
    <3>2. ASSUME NEW c \in Conn, hpc[c] # "done" PROVE totalrequest[c] - reqoutcount[c] = totalrequest[c]
      <4>1. totalrequest[c] = 0 /\ reqoutcount[c] <= totalrequest[c] /\ reqoutcount[c] \in Nat
        BY <2>3, <3>1, <3>2 DEF AccountInv, CountInv
      <4> QED BY <4>1
    <3>3. \A c \in Conn : Sent[c] = totalrequest[c]
      BY <3>2 DEF Sent
    <3>4. Sent = [c \in Conn |-> Sent[c]]
      BY DEF Sent
    <3> QED BY <3>1, <3>3, <3>4
  <2>7. Cells(<<>>) = {} /\ Cardinality({}) = 0
    BY FS_EmptySet DEF Cells
  <2>8. acceptNum = Cardinality(Started) /\ closedNum = Cardinality(Started)
        /\ finishedNum = Cardinality(Cells(totalrequest))
    <3>1. acceptNum \in Nat /\ closedNum \in Nat /\ finishedNum \in Nat
      BY <2>0 DEF TypeOK
    <3> QED BY <2>1, <2>4, <2>5, <2>6, <2>7, <3>1, SMTT(60) DEF AccountInv, AcceptInv, CloseInv, RequestInv
  <2>9. MapThenSumSet(LAMBDA c : totalrequest[c], Conn) = Cardinality(Cells(totalrequest))
    <3>1. totalrequest \in [Conn -> Nat]
      BY <2>0 DEF TypeOK
    <3> DEFINE iter[s \in SUBSET Conn] ==
                 IF s = {} THEN 0
                 ELSE LET x == CHOOSE x \in s : TRUE
                      IN  totalrequest[x] + iter[s \ {x}]
    <3>2. iter[Conn] = Cardinality(Cells(totalrequest))
      BY <2>0, <3>1, SumCounts
    <3> QED BY <3>2 DEF MapThenSumSet, MapThenFoldSet
  <2> QED BY <2>8, <2>9 DEF LastReport
<1> QED BY <1>1, Invariance, AccountsBalance, PTL
=============================================================================
