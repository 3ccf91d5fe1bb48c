-------------------------- MODULE TcpEngineProofs --------------------------
(***************************************************************************)
(* Proofs about TcpEngine for every number of cpus, connections, addresses *)
(* and limits, and for both modes.                                         *)
(***************************************************************************)
EXTENDS TcpEngine, FiniteSetTheorems, TLAPS

\* A broadcast moves blocked workers to the head of their loop and no other.
LEMMA BroadcastType ==
  ASSUME NEW pcs \in [Worker -> WorkerPC]
  PROVE  /\ Broadcast(pcs) \in [Worker -> WorkerPC]
         /\ \A w \in Worker : Broadcast(pcs)[w] = IF pcs[w] = "blocked" THEN "lock" ELSE pcs[w]
BY DEF Broadcast, WorkerPC

\* Typing: no step of the engine leaves the types of its variables, given the
\* facts that tie a handler's arguments to the mode.
LEMMA TypeStep == IndInv /\ [Next]_vars => TypeOK'
<1> SUFFICES ASSUME IndInv, [Next]_vars PROVE TypeOK'
  OBVIOUS
<1>0. TypeOK /\ HeldInv /\ ArgInv
  BY DEF IndInv
<1> USE DEF TypeOK, engVars, startVars, stopVars, gateVars, workVars, connVars
<1>1. CASE StartStep
  <2>1. CASE StartWorker
    <3>1. launched \in Worker /\ Listener(launched) \in Worker /\ launched + 1 \in 0 .. Cpus
      BY <1>0, <2>1, ConfigAssumption DEF StartWorker, Listener, Worker
    <3>2. wpc' \in [Worker -> WorkerPC]
      BY <1>0, <2>1, <3>1 DEF StartWorker, WorkerPC
    <3>3. CASE ListenMode
      BY <1>0, <2>1, <3>1, <3>2, <3>3 DEF StartWorker
    <3>4. CASE ~ListenMode
      BY <1>0, <2>1, <3>1, <3>2, <3>4 DEF StartWorker
    <3> QED BY <3>3, <3>4
  <2>2. CASE StartAppend
    BY <1>0, <2>2, ConfigAssumption DEF StartAppend, Worker
  <2>3. CASE StartGate
    <3>1. CASE MaxConcurrent > 0
      BY <1>0, <2>3, <3>1 DEF StartGate
    <3>2. CASE ~(MaxConcurrent > 0)
      BY <1>0, <2>3, <3>2 DEF StartGate
    <3> QED BY <3>1, <3>2
  <2>4. CASE StartRest
    BY <1>0, <2>4 DEF StartRest
  <2> QED BY <1>1, <2>1, <2>2, <2>3, <2>4 DEF StartStep
<1>2. CASE WaitStep
  <2>1. CASE WaitWorkers BY <1>0, <2>1, BroadcastType DEF WaitWorkers
  <2>2. CASE WaitCloseAll BY <1>0, <2>2 DEF WaitCloseAll
  <2>3. CASE WaitHandlers BY <1>0, <2>3 DEF WaitHandlers
  <2> QED BY <1>2, <2>1, <2>2, <2>3 DEF WaitStep
<1>3. CASE SigExit BY <1>0, <1>3 DEF SigExit
<1>4. CASE SigNotify BY <1>0, <1>4, BroadcastType DEF SigNotify
<1>5. CASE ~ForcedExit /\ SigRepeat
  BY <1>0, <1>5, ConfigAssumption DEF SigRepeat, ForcedExit
<1>6. CASE CloseListeners BY <1>0, <1>6 DEF CloseListeners
<1>7. CASE CloseFlag BY <1>0, <1>7 DEF CloseFlag
<1>8. CASE MaxUnlock BY <1>0, <1>8, BroadcastType DEF MaxUnlock
<1>9. CASE QpsToken BY <1>0, <1>9, ConfigAssumption DEF QpsToken
<1>10. ASSUME NEW w \in Worker, WorkerStep(w) PROVE TypeOK'
  <2> USE DEF WorkerPC
  <2>1. CASE WorkerLock(w) BY <1>0, <2>1, ZenonT(60) DEF WorkerLock
  <2>2. CASE WorkerAdmit(w) BY <1>0, <2>2 DEF WorkerAdmit
  <2>3. CASE WorkerHoldOn(w)
    <3>1. pool' \in [Worker -> Seq(Addr)]
      <4>1. CASE held[w] = None \/ ListenMode
        BY <1>0, <2>3, <4>1 DEF WorkerHoldOn, AfterHoldOn
      <4>2. CASE held[w] # None /\ ~ListenMode
        <5>1. arg[held[w]].connidx \in Addr
          BY <1>0, <4>2 DEF HeldInv, ArgInv, Index
        <5>2. pool' = [pool EXCEPT ![w] = Append(pool[w], arg[held[w]].connidx)]
          BY <2>3, <4>2 DEF WorkerHoldOn, AfterHoldOn
        <5> QED BY <1>0, <5>1, <5>2
      <4> QED BY <4>1, <4>2
    <3>2. held' \in [Worker -> Conn \cup {None}] /\ hpc' \in [Conn -> HandlerPC] /\ open' \subseteq Conn
      BY <1>0, <2>3 DEF WorkerHoldOn, AfterHoldOn, HandlerPC
    <3>3. CASE ExitMax
      BY <1>0, <2>3, <3>1, <3>2, <3>3 DEF WorkerHoldOn, AfterHoldOn
    <3>4. CASE ~ExitMax
      BY <1>0, <2>3, <3>1, <3>2, <3>4, ZenonT(60) DEF WorkerHoldOn, AfterHoldOn
    <3> QED BY <3>3, <3>4
  <2>4. CASE WorkerSwitch(w) BY <1>0, <2>4 DEF WorkerSwitch
  <2>5. CASE WorkerWait(w) BY <1>0, <2>5 DEF WorkerWait
  <2>6. CASE WorkerRegister(w)
    <3>1. conns' \in [Index -> Conn \cup {None}]
      BY <1>0, <2>6 DEF WorkerRegister
    <3>2. hpc' \in [Conn -> HandlerPC]
      BY <1>0, <2>6 DEF WorkerRegister, HandlerPC
    <3>3. held' \in [Worker -> Conn \cup {None}]
      BY <1>0, <2>6 DEF WorkerRegister
    <3>4. alive' \in Int
      BY <1>0, <2>6 DEF WorkerRegister
    <3> QED BY <1>0, <2>6, <3>1, <3>2, <3>3, <3>4 DEF WorkerRegister
  <2>7. CASE TakeAddr(w) BY <1>0, <2>7 DEF TakeAddr
  <2>8. CASE WorkerFatal(w) BY <1>0, <2>8 DEF WorkerFatal
  <2>9. CASE WorkerExit(w)
    <3>1. [wpc EXCEPT ![w] = "done"] \in [Worker -> WorkerPC]
      BY <1>0
    <3> QED BY <1>0, <2>9, <3>1, BroadcastType, ZenonT(60) DEF WorkerExit
  <2> QED BY <1>10, <2>1, <2>2, <2>3, <2>4, <2>5, <2>6, <2>7, <2>8, <2>9 DEF WorkerStep
<1>11. ASSUME NEW w \in Worker, WorkerNet(w) PROVE TypeOK'
  <2> USE DEF WorkerPC
  <2>1. ASSUME NEW c \in Conn, Accept(w, c) PROVE TypeOK'
    BY <1>0, <2>1 DEF Accept, NewConn, Index, HandlerPC
  <2>2. ASSUME NEW c \in Conn, Dial(w, c) PROVE TypeOK'
    <3>1. widx[w] \in Index
      BY <1>0, <2>2 DEF Dial, ArgInv, Index
    <3> QED BY <1>0, <2>2, <3>1 DEF Dial, NewConn, HandlerPC
  <2>3. CASE AcceptFail(w) BY <1>0, <2>3 DEF AcceptFail
  <2>4. CASE DialFail(w) BY <1>0, <2>4 DEF DialFail
  <2> QED BY <1>11, <2>1, <2>2, <2>3, <2>4 DEF WorkerNet
<1>12. ASSUME NEW c \in Conn, HandlerStep(c) \/ HandlerIO(c) \/ HandlerPeerClosed(c)
      PROVE TypeOK'
  <2> USE DEF HandlerPC
  <2>1. CASE HandlerReturnAddr(c)
    <3>1. arg[c].connidx \in Addr /\ arg[c].idx \in Worker
      BY <1>0, <2>1 DEF HandlerReturnAddr, ArgInv, Index
    <3>2. pool' \in [Worker -> Seq(Addr)]
      BY <1>0, <2>1, <3>1 DEF HandlerReturnAddr
    <3> QED BY <1>0, <2>1, <3>2 DEF HandlerReturnAddr, AfterReturn
  <2>2. CASE HandlerQps(c)
    <3>1. qps' \in 0 .. (2 * QPSLimit)
      BY <1>0, <2>2, ConfigAssumption DEF HandlerQps
    <3>2. hpc' \in [Conn -> HandlerPC]
      BY <1>0, <2>2 DEF HandlerQps, HandlerGoto
    <3> QED BY <1>0, <2>2, <3>1, <3>2 DEF HandlerQps, HandlerGoto
  <2>3. CASE HandlerClose(c) BY <1>0, <2>3 DEF HandlerClose
  <2>4. CASE HandlerDec(c) BY <1>0, <2>4 DEF HandlerDec, AfterReturn
  <2>5. CASE HandlerDelete(c) BY <1>0, <2>5, ZenonT(60) DEF HandlerDelete
  <2>6. CASE HandlerGate(c) BY <1>0, <2>6 DEF HandlerGate, HandlerGoto
  <2>7. CASE HandlerLoop(c) BY <1>0, <2>7 DEF HandlerLoop, HandlerGoto
  <2>8. CASE HandlerIOClosed(c) BY <1>0, <2>8 DEF HandlerIOClosed, HandlerGoto
  <2>9. CASE HandlerIO(c) BY <1>0, <2>9 DEF HandlerIO, HandlerGoto
  <2>10. CASE HandlerPeerClosed(c) BY <1>0, <2>10 DEF HandlerPeerClosed, HandlerGoto
  <2> QED BY <1>12, <2>1, <2>2, <2>3, <2>4, <2>5, <2>6, <2>7, <2>8, <2>9, <2>10 DEF HandlerStep
<1>13. CASE UNCHANGED vars
  BY <1>0, <1>13 DEF vars
<1> QED BY <1>1, <1>2, <1>3, <1>4, <1>5, <1>6, <1>7, <1>8, <1>9, <1>10, <1>11, <1>12, <1>13 DEF Next

\* Workers are launched in order; an unlaunched one stays idle.
LEMMA StartInvStep == IndInv /\ [Next]_vars => StartInv'
<1> SUFFICES ASSUME IndInv, [Next]_vars PROVE StartInv'
  OBVIOUS
<1> USE DEF IndInv, StartInv, engVars, startVars, stopVars, gateVars, workVars, connVars
<1>0. launched \in Int /\ wpc \in [Worker -> WorkerPC] /\ Worker \subseteq Int
  BY ConfigAssumption DEF TypeOK, Worker
<1>1. CASE StartStep
  BY <1>0, <1>1 DEF StartStep, StartWorker, StartAppend, StartGate, StartRest
<1>2. CASE WaitStep \/ SigExit \/ SigNotify \/ SigRepeat
  BY <1>0, <1>2, BroadcastType DEF WaitStep, WaitWorkers, WaitCloseAll, WaitHandlers, SigExit,
     SigNotify, SigRepeat
<1>3. CASE CloseListeners \/ CloseFlag \/ MaxUnlock \/ QpsToken
  BY <1>0, <1>3, BroadcastType DEF CloseListeners, CloseFlag, MaxUnlock, QpsToken
<1>4. ASSUME NEW w \in Worker, WorkerStep(w) PROVE StartInv'
  BY <1>0, <1>4 DEF WorkerStep, WorkerLock, WorkerAdmit, WorkerHoldOn, AfterHoldOn, WorkerSwitch, WorkerWait,
     WorkerRegister, TakeAddr, WorkerFatal, WorkerExit, Broadcast
<1>5. ASSUME NEW w \in Worker, WorkerNet(w) PROVE StartInv'
  BY <1>0, <1>5 DEF WorkerNet, Accept, Dial, NewConn, AcceptFail, DialFail
<1>6. ASSUME NEW c \in Conn, HandlerStep(c) \/ HandlerIO(c) \/ HandlerPeerClosed(c)
      PROVE StartInv'
  BY <1>6 DEF HandlerStep, HandlerGate, HandlerLoop, HandlerQps, HandlerIO, HandlerIOClosed,
     HandlerPeerClosed, HandlerClose, HandlerDec, HandlerReturnAddr, HandlerDelete, HandlerGoto
<1>7. CASE UNCHANGED vars
  BY <1>7 DEF vars
<1> QED BY <1>1, <1>2, <1>3, <1>4, <1>5, <1>6, <1>7 DEF Next

\* Mutual exclusion on maxLock.
LEMMA LockStep == IndInv /\ [Next]_vars => LockInv'
<1> SUFFICES ASSUME IndInv, [Next]_vars PROVE LockInv'
  OBVIOUS
<1> USE DEF IndInv, LockInv, Critical, engVars, startVars, stopVars,
      gateVars, workVars, connVars
<1>0. /\ launched \in Int /\ wpc \in [Worker -> WorkerPC] /\ Worker \subseteq Int
     /\ None \notin Worker /\ maxLock \in Worker \cup {None}
  BY ConfigAssumption DEF TypeOK, Worker
<1>1. CASE StartStep
  BY <1>0, <1>1 DEF StartStep, StartWorker, StartAppend, StartGate, StartRest, StartInv
<1>2. CASE WaitStep \/ SigExit \/ SigNotify \/ SigRepeat
  BY <1>0, <1>2, BroadcastType DEF WaitStep, WaitWorkers, WaitCloseAll, WaitHandlers, SigExit, SigNotify,
     SigRepeat
<1>3. CASE CloseListeners \/ CloseFlag \/ MaxUnlock \/ QpsToken
  BY <1>0, <1>3, BroadcastType DEF CloseListeners, CloseFlag, MaxUnlock, QpsToken
<1>4. ASSUME NEW w \in Worker, WorkerStep(w) PROVE LockInv'
  BY <1>0, <1>4 DEF WorkerStep, WorkerLock, WorkerAdmit, WorkerHoldOn, AfterHoldOn, WorkerSwitch, WorkerWait,
     WorkerRegister, TakeAddr, WorkerFatal, WorkerExit, Broadcast
<1>5. ASSUME NEW w \in Worker, WorkerNet(w) PROVE LockInv'
  BY <1>0, <1>5 DEF WorkerNet, Accept, Dial, NewConn, AcceptFail, DialFail
<1>6. ASSUME NEW c \in Conn, HandlerStep(c) \/ HandlerIO(c) \/ HandlerPeerClosed(c)
      PROVE LockInv'
  BY <1>6 DEF HandlerStep, HandlerGate, HandlerLoop, HandlerQps, HandlerIO, HandlerIOClosed,
     HandlerPeerClosed, HandlerClose, HandlerDec, HandlerReturnAddr, HandlerDelete, HandlerGoto
<1>7. CASE UNCHANGED vars
  BY <1>7 DEF vars
<1> QED BY <1>1, <1>2, <1>3, <1>4, <1>5, <1>6, <1>7 DEF Next

\* A connection a worker holds is held by it alone.
LEMMA HeldStep == IndInv /\ [Next]_vars => HeldInv'
<1> SUFFICES ASSUME IndInv, [Next]_vars PROVE HeldInv'
  OBVIOUS
<1> USE DEF IndInv, HeldInv, engVars, startVars, stopVars, gateVars, workVars, connVars
<1>0. /\ launched \in Int /\ Worker \subseteq Int /\ None \notin Conn
     /\ wpc \in [Worker -> WorkerPC] /\ held \in [Worker -> Conn \cup {None}]
     /\ hpc \in [Conn -> HandlerPC] /\ StartInv
  BY ConfigAssumption DEF TypeOK, Worker
<1>1. CASE StartStep
  BY <1>0, <1>1 DEF StartStep, StartWorker, StartAppend, StartGate, StartRest, StartInv
<1>2. CASE WaitStep \/ SigExit \/ SigNotify \/ SigRepeat
  BY <1>0, <1>2, BroadcastType DEF WaitStep, WaitWorkers, WaitCloseAll, WaitHandlers, SigExit, SigNotify,
     SigRepeat
<1>3. CASE CloseListeners \/ CloseFlag \/ MaxUnlock \/ QpsToken
  BY <1>0, <1>3, BroadcastType DEF CloseListeners, CloseFlag, MaxUnlock, QpsToken
<1>4. ASSUME NEW w \in Worker, WorkerStep(w) PROVE HeldInv'
  BY <1>0, <1>4 DEF WorkerStep, WorkerLock, WorkerAdmit, WorkerHoldOn, AfterHoldOn, WorkerSwitch, WorkerWait,
     WorkerRegister, TakeAddr, WorkerFatal, WorkerExit, Broadcast
<1>5. ASSUME NEW w \in Worker, WorkerNet(w) PROVE HeldInv'
  BY <1>0, <1>5 DEF WorkerNet, Accept, Dial, NewConn, AcceptFail, DialFail
<1>6. ASSUME NEW c \in Conn, HandlerStep(c) \/ HandlerIO(c) \/ HandlerPeerClosed(c)
      PROVE HeldInv'
  BY <1>0, <1>6 DEF HandlerStep, HandlerGate, HandlerLoop, HandlerQps, HandlerIO, HandlerIOClosed,
     HandlerPeerClosed, HandlerClose, HandlerDec, HandlerReturnAddr, HandlerDelete, HandlerGoto, AfterReturn
<1>7. CASE UNCHANGED vars
  BY <1>7 DEF vars
<1> QED BY <1>1, <1>2, <1>3, <1>4, <1>5, <1>6, <1>7 DEF Next

\* The arguments of a live connection are a key of the map.
LEMMA ArgStep == IndInv /\ [Next]_vars => ArgInv'
<1> SUFFICES ASSUME IndInv, [Next]_vars PROVE ArgInv'
  OBVIOUS
<1> USE DEF IndInv, ArgInv, engVars, startVars, stopVars, gateVars, workVars, connVars
<1>0. /\ launched \in Int /\ Worker \subseteq Int /\ None \notin Conn
     /\ wpc \in [Worker -> WorkerPC] /\ held \in [Worker -> Conn \cup {None}]
     /\ hpc \in [Conn -> HandlerPC] /\ StartInv /\ HeldInv
     /\ widx \in [Worker -> Addr \cup {None}] /\ pool \in [Worker -> Seq(Addr)]
     /\ arg \in [Conn -> [idx : Worker, connidx : Index \cup {None}]]
  BY ConfigAssumption DEF TypeOK, Worker
<1>1. CASE StartStep
  BY <1>0, <1>1 DEF StartStep, StartWorker, StartAppend, StartGate, StartRest, StartInv
<1>2. CASE WaitStep \/ SigExit \/ SigNotify \/ SigRepeat
  BY <1>0, <1>2, BroadcastType DEF WaitStep, WaitWorkers, WaitCloseAll, WaitHandlers, SigExit, SigNotify,
     SigRepeat
<1>3. CASE CloseListeners \/ CloseFlag \/ MaxUnlock \/ QpsToken
  BY <1>0, <1>3, BroadcastType DEF CloseListeners, CloseFlag, MaxUnlock, QpsToken
<1>4. ASSUME NEW w \in Worker, WorkerStep(w) PROVE ArgInv'
  <2>1. CASE WorkerHoldOn(w)
    BY <1>0, <2>1 DEF WorkerHoldOn, AfterHoldOn, HeldInv
  <2>2. CASE WorkerRegister(w)
    BY <1>0, <2>2 DEF WorkerRegister, HeldInv
  <2>3. CASE TakeAddr(w)
    <3>1. Head(pool[w]) \in Addr
      BY <1>0, <2>3 DEF TakeAddr
    <3> QED BY <1>0, <2>3, <3>1 DEF TakeAddr
  <2>4. CASE WorkerLock(w) \/ WorkerAdmit(w) \/ WorkerSwitch(w) \/ WorkerWait(w)
             \/ WorkerFatal(w) \/ WorkerExit(w)
    BY <1>0, <2>4 DEF WorkerLock, WorkerAdmit, WorkerSwitch, WorkerWait, WorkerFatal,
       WorkerExit, Broadcast
  <2> QED BY <1>4, <2>1, <2>2, <2>3, <2>4 DEF WorkerStep
<1>5. ASSUME NEW w \in Worker, WorkerNet(w) PROVE ArgInv'
  <2>1. ASSUME NEW c \in Conn, Accept(w, c) PROVE ArgInv'
    BY <1>0, <2>1 DEF Accept, NewConn, Index
  <2>2. ASSUME NEW c \in Conn, Dial(w, c) PROVE ArgInv'
    BY <1>0, <2>2 DEF Dial, NewConn, Index
  <2>3. CASE AcceptFail(w) \/ DialFail(w)
    BY <1>0, <2>3 DEF AcceptFail, DialFail
  <2> QED BY <1>5, <2>1, <2>2, <2>3 DEF WorkerNet
<1>6. ASSUME NEW c \in Conn, HandlerStep(c) \/ HandlerIO(c) \/ HandlerPeerClosed(c)
      PROVE ArgInv'
  BY <1>0, <1>6 DEF HandlerStep, HandlerGate, HandlerLoop, HandlerQps, HandlerIO, HandlerIOClosed,
     HandlerPeerClosed, HandlerClose, HandlerDec, HandlerReturnAddr, HandlerDelete, HandlerGoto, AfterReturn
<1>7. CASE UNCHANGED vars
  BY <1>7 DEF vars
<1> QED BY <1>1, <1>2, <1>3, <1>4, <1>5, <1>6, <1>7 DEF Next

\* An open socket is still somebody's to close.
LEMMA OpenStep == IndInv /\ [Next]_vars => OpenInv'
<1> SUFFICES ASSUME IndInv, [Next]_vars PROVE OpenInv'
  OBVIOUS
<1> USE DEF IndInv, OpenInv, engVars, startVars, stopVars, gateVars, workVars, connVars
<1>0. /\ None \notin Conn /\ held \in [Worker -> Conn \cup {None}]
     /\ hpc \in [Conn -> HandlerPC] /\ open \subseteq Conn /\ HeldInv
  BY ConfigAssumption DEF TypeOK
<1>1. CASE StartStep
  BY <1>0, <1>1 DEF StartStep, StartWorker, StartAppend, StartGate, StartRest
<1>2. CASE WaitStep \/ SigExit \/ SigNotify \/ SigRepeat
  BY <1>0, <1>2, BroadcastType DEF WaitStep, WaitWorkers, WaitCloseAll, WaitHandlers, SigExit, SigNotify,
     SigRepeat
<1>3. CASE CloseListeners \/ CloseFlag \/ MaxUnlock \/ QpsToken
  BY <1>0, <1>3, BroadcastType DEF CloseListeners, CloseFlag, MaxUnlock, QpsToken
<1>4. ASSUME NEW w \in Worker, WorkerStep(w) PROVE OpenInv'
  BY <1>0, <1>4 DEF WorkerStep, WorkerLock, WorkerAdmit, WorkerHoldOn, AfterHoldOn, WorkerSwitch, WorkerWait,
     WorkerRegister, TakeAddr, WorkerFatal, WorkerExit, Broadcast
<1>5. ASSUME NEW w \in Worker, WorkerNet(w) PROVE OpenInv'
  BY <1>0, <1>5 DEF WorkerNet, Accept, Dial, NewConn, AcceptFail, DialFail
<1>6. ASSUME NEW c \in Conn, HandlerStep(c) \/ HandlerIO(c) \/ HandlerPeerClosed(c)
      PROVE OpenInv'
  BY <1>0, <1>6 DEF HandlerStep, HandlerGate, HandlerLoop, HandlerQps, HandlerIO, HandlerIOClosed,
     HandlerPeerClosed, HandlerClose, HandlerDec, HandlerReturnAddr, HandlerDelete, HandlerGoto, AfterReturn
<1>7. CASE UNCHANGED vars
  BY <1>7 DEF vars
<1> QED BY <1>1, <1>2, <1>3, <1>4, <1>5, <1>6, <1>7 DEF Next

\* aliveCount is the number of running handlers and stays within the limit:
\* only the holder of maxLock adds to it, and it has just seen room.
LEMMA AliveStep == IndInv /\ [Next]_vars => AliveInv'
<1> SUFFICES ASSUME IndInv, [Next]_vars PROVE AliveInv'
  OBVIOUS
<1> USE DEF engVars, startVars, stopVars, gateVars, workVars, connVars
<1>0. /\ None \notin Conn /\ MaxConcurrent \in Nat /\ alive \in Int /\ launched \in Int
     /\ wpc \in [Worker -> WorkerPC] /\ held \in [Worker -> Conn \cup {None}]
     /\ hpc \in [Conn -> HandlerPC] /\ HeldInv /\ LockInv /\ AliveInv
     /\ None \notin Worker
  BY ConfigAssumption, SMTT(60) DEF IndInv, TypeOK
<1>f. IsFiniteSet(Running) /\ Running \subseteq Conn
  BY FS_Subset, ConfigAssumption DEF Running
<1> DEFINE Quiet == Running' = Running /\ alive' = alive
<1> DEFINE NoAdmit == \A w \in Worker : wpc'[w] = "register" => wpc[w] = "register"
<1>q. ASSUME Quiet, NoAdmit PROVE AliveInv'
  BY <1>0, <1>q DEF AliveInv
<1>1. CASE StartStep
  BY <1>0, <1>1, <1>q DEF StartStep, StartWorker, StartAppend, StartGate, StartRest, Running
<1>2. CASE WaitStep \/ SigExit \/ SigNotify \/ SigRepeat
  BY <1>0, <1>2, <1>q, BroadcastType DEF WaitStep, WaitWorkers, WaitCloseAll, WaitHandlers, SigExit,
     SigNotify, SigRepeat, Running
<1>3. CASE CloseListeners \/ CloseFlag \/ MaxUnlock \/ QpsToken
  BY <1>0, <1>3, <1>q, BroadcastType DEF CloseListeners, CloseFlag, MaxUnlock, QpsToken, Running
<1>4. ASSUME NEW w \in Worker, WorkerStep(w) PROVE AliveInv'
  <2>1. CASE WorkerAdmit(w)
    <3>1. Quiet
      BY <2>1 DEF WorkerAdmit, Running
    <3> QED BY <1>0, <2>1, <3>1 DEF WorkerAdmit, AliveInv
  <2>2. CASE WorkerHoldOn(w)
    <3>1. Running' = Running
      BY <1>0, <2>2 DEF WorkerHoldOn, AfterHoldOn, HeldInv, Running
    <3>2. alive' = alive /\ NoAdmit
      BY <1>0, <2>2 DEF WorkerHoldOn, AfterHoldOn
    <3> QED BY <3>1, <3>2, <1>q
  <2>3. CASE WorkerRegister(w)
    <3>1. \A v \in Worker : wpc'[v] # "register"
      BY <1>0, <2>3 DEF WorkerRegister, LockInv, Critical
    <3>2. CASE held[w] = None
      BY <1>0, <2>3, <3>1, <3>2, <1>q DEF WorkerRegister, Running
    <3>3. CASE held[w] # None
      <4>1. held[w] \in Conn \ Running /\ Running' = Running \cup {held[w]} /\ alive' = alive + 1
        BY <1>0, <2>3, <3>3 DEF WorkerRegister, HeldInv, Running
      <4>2. Cardinality(Running') = Cardinality(Running) + 1
        BY <1>f, <4>1, FS_AddElement
      <4>3. MaxConcurrent > 0 => alive < MaxConcurrent
        BY <1>0, <2>3 DEF WorkerRegister, AliveInv
      <4> QED BY <1>0, <3>1, <4>1, <4>2, <4>3 DEF AliveInv
    <3> QED BY <3>2, <3>3
  <2>4. CASE WorkerLock(w) \/ WorkerSwitch(w) \/ WorkerWait(w) \/ TakeAddr(w)
             \/ WorkerFatal(w) \/ WorkerExit(w)
    BY <1>0, <2>4, <1>q DEF WorkerLock, WorkerSwitch, WorkerWait, TakeAddr, WorkerFatal,
       WorkerExit, Broadcast, Running
  <2> QED BY <1>4, <2>1, <2>2, <2>3, <2>4 DEF WorkerStep
<1>5. ASSUME NEW w \in Worker, WorkerNet(w) PROVE AliveInv'
  <2>1. NoAdmit /\ alive' = alive
    BY <1>0, <1>5 DEF WorkerNet, Accept, Dial, NewConn, AcceptFail, DialFail
  <2>2. Running' = Running
    BY <1>0, <1>5 DEF WorkerNet, Accept, Dial, NewConn, AcceptFail, DialFail, Running
  <2> QED BY <2>1, <2>2, <1>q
<1>6. ASSUME NEW c \in Conn, HandlerStep(c) \/ HandlerIO(c) \/ HandlerPeerClosed(c)
      PROVE AliveInv'
  <2>1. NoAdmit
    BY <1>6 DEF HandlerStep, HandlerGate, HandlerLoop, HandlerQps, HandlerIO, HandlerIOClosed,
       HandlerPeerClosed, HandlerClose, HandlerDec, HandlerReturnAddr, HandlerDelete, HandlerGoto
  <2>2. CASE HandlerDec(c)
    <3>1. c \in Running /\ Running' = Running \ {c} /\ alive' = alive - 1
      BY <1>0, <2>2 DEF HandlerDec, AfterReturn, Running
    <3>2. Cardinality(Running') = Cardinality(Running) - 1
      BY <1>f, <3>1, FS_RemoveElement
    <3> QED BY <1>0, <2>1, <3>1, <3>2 DEF AliveInv
  <2>3. CASE ~HandlerDec(c)
    <3>1. alive' = alive
      BY <1>6, <2>3 DEF HandlerStep, HandlerGate, HandlerLoop, HandlerQps, HandlerIO, HandlerIOClosed,
         HandlerPeerClosed, HandlerClose, HandlerReturnAddr, HandlerDelete, HandlerGoto
    <3>2. Running' = Running
      BY <1>0, <1>6, <2>3 DEF HandlerStep, HandlerGate, HandlerLoop, HandlerQps, HandlerIO, HandlerIOClosed,
         HandlerPeerClosed, HandlerClose, HandlerReturnAddr, HandlerDelete, HandlerGoto, AfterReturn, Running
    <3> QED BY <2>1, <3>1, <3>2, <1>q
  <2> QED BY <2>2, <2>3
<1>7. CASE UNCHANGED vars
  BY <1>7, <1>q DEF vars, Running
<1> QED BY <1>1, <1>2, <1>3, <1>4, <1>5, <1>6, <1>7 DEF Next

\* workerWait goes on only when every worker is done, and then nothing starts.
LEMMA WaitInvStep == IndInv /\ [Next]_vars => WaitInv'
<1> SUFFICES ASSUME IndInv, [Next]_vars PROVE WaitInv'
  OBVIOUS
<1> USE DEF WaitInv, engVars, startVars, stopVars, gateVars, workVars, connVars
<1>0. /\ wpc \in [Worker -> WorkerPC] /\ hpc \in [Conn -> HandlerPC] /\ alive \in Int
     /\ AliveInv /\ WaitInv
  BY DEF IndInv, TypeOK
<1>f. IsFiniteSet(Running)
  BY FS_Subset, ConfigAssumption DEF Running
<1>1. CASE StartStep
  BY <1>0, <1>1 DEF StartStep, StartWorker, StartAppend, StartGate, StartRest
<1>2. CASE WaitStep \/ SigExit \/ SigNotify \/ SigRepeat
  BY <1>0, <1>2, BroadcastType DEF WaitStep, WaitWorkers, WaitCloseAll, WaitHandlers, SigExit, SigNotify,
     SigRepeat
<1>3. CASE CloseListeners \/ CloseFlag \/ MaxUnlock \/ QpsToken
  BY <1>0, <1>3, BroadcastType DEF CloseListeners, CloseFlag, MaxUnlock, QpsToken
<1>4. ASSUME NEW w \in Worker, WorkerStep(w) PROVE WaitInv'
  <2>1. waitpc = "wg"
    BY <1>0, <1>4 DEF WorkerStep, WorkerLock, WorkerAdmit, WorkerHoldOn, AfterHoldOn, WorkerSwitch, WorkerWait,
       WorkerRegister, TakeAddr, WorkerFatal, WorkerExit
  <2>2. waitpc' = waitpc
    BY <1>4 DEF WorkerStep, WorkerLock, WorkerAdmit, WorkerHoldOn, AfterHoldOn, WorkerSwitch, WorkerWait,
       WorkerRegister, TakeAddr, WorkerFatal, WorkerExit
  <2> QED BY <2>1, <2>2
<1>5. ASSUME NEW w \in Worker, WorkerNet(w) PROVE WaitInv'
  BY <1>0, <1>5 DEF WorkerNet, Accept, Dial, NewConn, AcceptFail, DialFail
<1>6. ASSUME NEW c \in Conn, HandlerStep(c) \/ HandlerIO(c) \/ HandlerPeerClosed(c)
      PROVE WaitInv'
  <2>1. UNCHANGED <<waitpc, startpc, wpc>>
    BY <1>6 DEF HandlerStep, HandlerGate, HandlerLoop, HandlerQps, HandlerIO, HandlerIOClosed,
       HandlerPeerClosed, HandlerClose, HandlerDec, HandlerReturnAddr, HandlerDelete, HandlerGoto
  <2>2. CASE HandlerDec(c)
    <3>1. c \in Running
      BY <2>2 DEF HandlerDec, Running
    <3>2. alive # 0
      BY <1>0, <1>f, <3>1, FS_EmptySet DEF AliveInv
    <3> QED BY <1>0, <2>1, <3>2
  <2>3. CASE ~HandlerDec(c)
    BY <1>0, <1>6, <2>1, <2>3 DEF HandlerStep, HandlerGate, HandlerLoop, HandlerQps, HandlerIO,
       HandlerIOClosed, HandlerPeerClosed, HandlerClose, HandlerReturnAddr, HandlerDelete, HandlerGoto
  <2> QED BY <2>2, <2>3
<1>7. CASE UNCHANGED vars
  BY <1>0, <1>7 DEF vars
<1> QED BY <1>1, <1>2, <1>3, <1>4, <1>5, <1>6, <1>7 DEF Next

\* The work switch is closed at most once: by Start when there is no limit, by
\* the worker that sets workloadon, or by workerWait after all workers.
LEMMA SwitchStep == IndInv /\ [Next]_vars => SwitchInv'
<1> SUFFICES ASSUME IndInv, [Next]_vars PROVE SwitchInv'
  OBVIOUS
<1> USE DEF SwitchInv, engVars, startVars, stopVars, gateVars, workVars, connVars
<1>0. /\ wpc \in [Worker -> WorkerPC] /\ switched \in Nat /\ MaxConcurrent \in Nat /\ launched \in Int
     /\ workloadon \in BOOLEAN /\ waitpc \in {"wg", "closeall", "poll", "done"}
     /\ startpc \in {"spawn", "append", "qps", "running"}
     /\ WaitInv /\ LockInv /\ SwitchInv
  BY ConfigAssumption DEF IndInv, TypeOK
<1>1. CASE StartStep
  <2>1. CASE StartWorker
    BY <1>0, <2>1 DEF StartWorker
  <2>2. CASE StartGate
    <3>1. CASE MaxConcurrent > 0
      BY <1>0, <2>2, <3>1 DEF StartGate
    <3>2. CASE MaxConcurrent = 0
      BY <1>0, <2>2, <3>2 DEF StartGate, WaitInv
    <3> QED BY <1>0, <3>1, <3>2
  <2>3. CASE StartAppend \/ StartRest
    BY <1>0, <2>3 DEF StartAppend, StartRest
  <2> QED BY <1>1, <2>1, <2>2, <2>3 DEF StartStep
<1>2. CASE WaitStep
  BY <1>0, <1>2, BroadcastType DEF WaitStep, WaitWorkers, WaitCloseAll, WaitHandlers, WaitInv
<1>3. CASE SigExit \/ SigNotify \/ SigRepeat
  BY <1>0, <1>3, BroadcastType DEF SigExit, SigNotify, SigRepeat
<1>4. CASE CloseListeners \/ CloseFlag \/ MaxUnlock \/ QpsToken
  BY <1>0, <1>4, BroadcastType DEF CloseListeners, CloseFlag, MaxUnlock, QpsToken
<1>5. ASSUME NEW w \in Worker, WorkerStep(w) PROVE SwitchInv'
  <2>0. waitpc = "wg"
    BY <1>0, <1>5 DEF WaitInv, WorkerStep, WorkerLock, WorkerAdmit, WorkerHoldOn, AfterHoldOn, WorkerSwitch,
       WorkerWait, WorkerRegister, TakeAddr, WorkerFatal, WorkerExit
  <2>1. CASE WorkerHoldOn(w)
    <3>1. CASE ExitMax
      BY <1>0, <2>0, <2>1, <3>1 DEF WorkerHoldOn, AfterHoldOn
    <3>2. CASE ~ExitMax /\ workloadon
      BY <1>0, <2>0, <2>1, <3>2 DEF WorkerHoldOn, AfterHoldOn
    <3>3. CASE ~ExitMax /\ ~workloadon
      BY <1>0, <2>0, <2>1, <3>3 DEF WorkerHoldOn, AfterHoldOn
    <3> QED BY <3>1, <3>2, <3>3
  <2>2. CASE WorkerSwitch(w)
    <3>1. \A v \in Worker : wpc'[v] # "switch"
      BY <1>0, <2>2 DEF WorkerSwitch, LockInv, Critical
    <3>2. workloadon
      BY <1>0, <2>0, <2>2 DEF WorkerSwitch, SwitchInv
    <3> QED BY <1>0, <2>0, <2>2, <3>1, <3>2 DEF WorkerSwitch
  <2>3. CASE WorkerLock(w) \/ WorkerAdmit(w) \/ WorkerWait(w) \/ WorkerRegister(w)
             \/ TakeAddr(w) \/ WorkerFatal(w) \/ WorkerExit(w)
    BY <1>0, <2>3 DEF WorkerLock, WorkerAdmit, WorkerWait, WorkerRegister, TakeAddr,
       WorkerFatal, WorkerExit, Broadcast
  <2> QED BY <1>5, <2>1, <2>2, <2>3 DEF WorkerStep
<1>6. ASSUME NEW w \in Worker, WorkerNet(w) PROVE SwitchInv'
  BY <1>0, <1>6 DEF WorkerNet, Accept, Dial, NewConn, AcceptFail, DialFail
<1>7. ASSUME NEW c \in Conn, HandlerStep(c) \/ HandlerIO(c) \/ HandlerPeerClosed(c)
      PROVE SwitchInv'
  BY <1>0, <1>7 DEF HandlerStep, HandlerGate, HandlerLoop, HandlerQps, HandlerIO, HandlerIOClosed,
     HandlerPeerClosed, HandlerClose, HandlerDec, HandlerReturnAddr, HandlerDelete, HandlerGoto
<1>8. CASE UNCHANGED vars
  BY <1>0, <1>8 DEF vars
<1> QED BY <1>1, <1>2, <1>3, <1>4, <1>5, <1>6, <1>7, <1>8 DEF Next

\* On the server a map entry is deleted only by the handler that owns it.
LEMMA TrackStep == IndInv /\ [Next]_vars => TrackInv'
<1> SUFFICES ASSUME IndInv, [Next]_vars, ListenMode, ~NoMap PROVE \A c \in Running' : conns'[c] = c
  BY DEF TrackInv
<1> USE DEF engVars, startVars, stopVars, gateVars, workVars, connVars
<1>0. /\ None \notin Conn /\ hpc \in [Conn -> HandlerPC] /\ conns \in [Conn -> Conn \cup {None}]
     /\ held \in [Worker -> Conn \cup {None}] /\ HeldInv /\ ArgInv
     /\ \A c \in Running : conns[c] = c
  BY ConfigAssumption DEF IndInv, TypeOK, Index, TrackInv
<1>1. CASE StartStep
  BY <1>0, <1>1 DEF StartStep, StartWorker, StartAppend, StartGate, StartRest, Running
<1>2. CASE WaitStep \/ SigExit \/ SigNotify \/ SigRepeat
  BY <1>0, <1>2 DEF WaitStep, WaitWorkers, WaitCloseAll, WaitHandlers, SigExit, SigNotify,
     SigRepeat, Running
<1>3. CASE CloseListeners \/ CloseFlag \/ MaxUnlock \/ QpsToken
  BY <1>0, <1>3 DEF CloseListeners, CloseFlag, MaxUnlock, QpsToken, Running
<1>4. ASSUME NEW w \in Worker, WorkerStep(w) PROVE \A c \in Running' : conns'[c] = c
  <2>1. CASE WorkerRegister(w)
    BY <1>0, <2>1 DEF WorkerRegister, HeldInv, ArgInv, Running
  <2>2. CASE WorkerHoldOn(w)
    BY <1>0, <2>2 DEF WorkerHoldOn, AfterHoldOn, HeldInv, Running
  <2>3. CASE WorkerLock(w) \/ WorkerAdmit(w) \/ WorkerSwitch(w) \/ WorkerWait(w)
             \/ TakeAddr(w) \/ WorkerFatal(w) \/ WorkerExit(w)
    BY <1>0, <2>3 DEF WorkerLock, WorkerAdmit, WorkerSwitch, WorkerWait, TakeAddr, WorkerFatal,
       WorkerExit, Running
  <2> QED BY <1>4, <2>1, <2>2, <2>3 DEF WorkerStep
<1>5. ASSUME NEW w \in Worker, WorkerNet(w) PROVE \A c \in Running' : conns'[c] = c
  BY <1>0, <1>5 DEF WorkerNet, Accept, Dial, NewConn, AcceptFail, DialFail, Running
<1>6. ASSUME NEW d \in Conn, HandlerStep(d) \/ HandlerIO(d) \/ HandlerPeerClosed(d)
      PROVE \A c \in Running' : conns'[c] = c
  <2>1. CASE HandlerDelete(d)
    BY <1>0, <2>1 DEF HandlerDelete, ArgInv, Running
  <2>2. CASE ~HandlerDelete(d)
    <3>1. conns' = conns
      BY <1>6, <2>2 DEF HandlerStep, HandlerGate, HandlerLoop, HandlerQps, HandlerIO, HandlerIOClosed,
         HandlerPeerClosed, HandlerClose, HandlerDec, HandlerReturnAddr, HandlerGoto
    <3>2. Running' \subseteq Running
      BY <1>0, <1>6, <2>2 DEF HandlerStep, HandlerGate, HandlerLoop, HandlerQps, HandlerIO, HandlerIOClosed,
         HandlerPeerClosed, HandlerClose, HandlerDec, HandlerReturnAddr, HandlerGoto, AfterReturn, Running
    <3> QED BY <1>0, <3>1, <3>2
  <2> QED BY <2>1, <2>2
<1>7. CASE UNCHANGED vars
  BY <1>0, <1>7 DEF vars, Running
<1> QED BY <1>1, <1>2, <1>3, <1>4, <1>5, <1>6, <1>7 DEF Next

\* The addresses dealt to connector w are addresses.
LEMMA InitialPoolType ==
  ASSUME NEW w \in Worker
  PROVE  InitialPool(w) \in Seq(Addr)
<1> DEFINE n == (NAddr + Cpus - 1 - w) \div Cpus
<1>1. w \in Nat /\ w < Cpus /\ Cpus \in Nat /\ Cpus > 0 /\ NAddr \in Nat
  BY ConfigAssumption DEF Worker
<1>2. n \in Nat /\ n * Cpus <= NAddr + Cpus - 1 - w
  BY <1>1
<1>3. ASSUME NEW k \in 1 .. n PROVE w + (k - 1) * Cpus \in Addr
  <2>1. k * Cpus <= n * Cpus
    BY <1>1, <1>2
  <2>2. (k - 1) * Cpus = k * Cpus - Cpus /\ (k - 1) * Cpus >= 0
    BY <1>1, <1>2
  <2> HIDE DEF n
  <2>3. k * Cpus \in Int /\ n * Cpus \in Int
    BY <1>1, <1>2
  <2> QED BY <1>1, <1>2, <2>1, <2>2, <2>3 DEF Addr
<1> HIDE DEF n
<1>4. [k \in 1 .. n |-> w + (k - 1) * Cpus] \in Seq(Addr)
  BY <1>2, <1>3
<1> QED BY <1>4 DEF InitialPool, n

\* The initial state satisfies the inductive invariant.
LEMMA IndInit == Init => IndInv
<1> SUFFICES ASSUME Init PROVE IndInv
  OBVIOUS
<1>1. TypeOK
  <2>1. pool \in [Worker -> Seq(Addr)]
    BY InitialPoolType DEF Init
  <2>2. 0 \in Worker /\ 0 \in 0 .. Cpus /\ 0 \in 0 .. (ForceExit + 1) /\ 0 \in 0 .. (2 * QPSLimit)
    BY ConfigAssumption DEF Worker
  <2>3. /\ arg \in [Conn -> [idx : Worker, connidx : Index \cup {None}]]
       /\ conns \in [Index -> Conn \cup {None}]
    BY <2>2 DEF Init
  <2>4. /\ wpc \in [Worker -> WorkerPC] /\ hpc \in [Conn -> HandlerPC]
       /\ held \in [Worker -> Conn \cup {None}] /\ widx \in [Worker -> Addr \cup {None}]
    BY DEF Init, WorkerPC, HandlerPC
  <2>5. alive \in Int /\ switched \in Nat
    BY DEF Init
  <2>6. closing \in BOOLEAN /\ workloadon \in BOOLEAN
    BY Zenon DEF Init
  <2> QED BY <2>1, <2>2, <2>3, <2>4, <2>5, <2>6 DEF Init, TypeOK
<1>2. Running = {}
  BY DEF Init, Running
<1>3. AliveInv
  BY <1>2, FS_EmptySet, ConfigAssumption DEF AliveInv, Init
<1>4. StartInv /\ LockInv /\ HeldInv /\ ArgInv /\ SwitchInv /\ WaitInv /\ OpenInv
  BY ConfigAssumption DEF Init, StartInv, LockInv, HeldInv, ArgInv, SwitchInv, WaitInv, OpenInv, Critical
<1>5. TrackInv
  BY <1>2 DEF TrackInv
<1> QED BY <1>1, <1>3, <1>4, <1>5 DEF IndInv

\* The inductive invariant holds in every reachable state.
THEOREM Invariance == Spec => []IndInv
<1>1. Init => IndInv
  BY IndInit
<1>2. IndInv /\ [Next]_vars => IndInv'
  BY TypeStep, StartInvStep, LockStep, HeldStep, ArgStep, AliveStep, SwitchStep, WaitInvStep,
     OpenStep, TrackStep DEF IndInv
<1> QED BY <1>1, <1>2, PTL DEF Spec

\* Typing of the engine's state in every reachable state.
THEOREM TypeCorrect == Spec => []TypeOK
<1>1. IndInv => TypeOK
  BY DEF IndInv
<1> QED BY <1>1, Invariance, PTL

\* The limit of -c is never exceeded.
THEOREM GateCorrect == Spec => []GateHolds
<1>1. IndInv => GateHolds
  BY DEF IndInv, AliveInv, GateHolds
<1> QED BY <1>1, Invariance, PTL

\* close(eng.workswitch) never panics.
THEOREM SwitchCorrect == Spec => []SwitchedOnce
<1>1. IndInv => SwitchedOnce
  BY DEF IndInv, SwitchInv, SwitchedOnce
<1> QED BY <1>1, Invariance, PTL

\* When Wait returns every handler has closed its socket and left.
THEOREM ShutdownCorrect == Spec => []CleanShutdown
<1>1. IndInv => CleanShutdown
  <2> SUFFICES ASSUME IndInv, Destroyed PROVE
         Running = {} /\ switched > 0 /\ open \subseteq {c \in Conn : hpc[c] = "held"}
    BY DEF CleanShutdown
  <2>1. IsFiniteSet(Running)
    BY FS_Subset, ConfigAssumption DEF Running
  <2>2. Cardinality(Running) = 0
    BY DEF IndInv, AliveInv, WaitInv, Destroyed
  <2>3. Running = {}
    BY <2>1, <2>2, FS_EmptySet
  <2>4. switched > 0
    BY DEF IndInv, SwitchInv, Destroyed
  <2> QED BY <2>3, <2>4 DEF IndInv, OpenInv, TypeOK, Running
<1> QED BY <1>1, Invariance, PTL

\* A server (-l) can find every connection it serves in eng.conns.
THEOREM ServerTracks == Spec => [](ListenMode => ConnsTracked)
<1>1. IndInv => (ListenMode => ConnsTracked)
  BY DEF IndInv, TrackInv, ArgInv, ConnsTracked, Running
<1> QED BY <1>1, Invariance, PTL

\* The engine implements the abstract gate: Register is Enter, the handler's
\* decrement is Leave, wg.Wait is Drain and the end of the poll is Finish.
THEOREM EngineImplementsGate == Spec => GateSpec
<1> USE DEF engVars, startVars, stopVars, gateVars, workVars, connVars
<1>1. Init => Gate!Init
  BY DEF Init, Gate!Init, phase
<1>2. IndInv /\ [Next]_vars => [Gate!Next]_<<alive, phase>>
  <2> SUFFICES ASSUME IndInv, [Next]_vars, ~UNCHANGED <<alive, phase>>
               PROVE  Gate!Next
    OBVIOUS
  <2>0. /\ waitpc \in {"wg", "closeall", "poll", "done"} /\ alive \in Int /\ MaxConcurrent \in Nat
       /\ hpc \in [Conn -> HandlerPC] /\ AliveInv /\ WaitInv
    BY ConfigAssumption DEF IndInv, TypeOK
  <2>1. ASSUME NEW w \in Worker, WorkerStep(w) PROVE Gate!Next
    <3>1. WorkerRegister(w) /\ alive' = alive + 1 /\ waitpc' = waitpc
      BY <2>1 DEF phase, WorkerStep, WorkerLock, WorkerAdmit, WorkerHoldOn, AfterHoldOn, WorkerSwitch, WorkerWait,
         WorkerRegister, TakeAddr, WorkerFatal, WorkerExit
    <3>2. waitpc = "wg" /\ (MaxConcurrent = 0 \/ alive < MaxConcurrent)
      BY <2>0, <3>1 DEF WorkerRegister, WaitInv, AliveInv
    <3> QED BY <3>1, <3>2 DEF Gate!Next, Gate!Enter, phase
  <2>2. ASSUME NEW c \in Conn, HandlerStep(c) \/ HandlerIO(c) \/ HandlerPeerClosed(c)
        PROVE Gate!Next
    <3>1. HandlerDec(c) /\ alive' = alive - 1 /\ waitpc' = waitpc
      BY <2>2 DEF phase, HandlerStep, HandlerGate, HandlerLoop, HandlerQps, HandlerIO, HandlerIOClosed,
         HandlerPeerClosed, HandlerClose, HandlerDec, HandlerReturnAddr, HandlerDelete, HandlerGoto
    <3>2. IsFiniteSet(Running) /\ c \in Running
      BY <3>1, FS_Subset, ConfigAssumption DEF Running, HandlerDec
    <3>3. Cardinality(Running) \in Nat /\ Cardinality(Running) # 0
      BY <3>2, FS_EmptySet, FS_CardinalityType
    <3>4. alive > 0
      BY <2>0, <3>3 DEF AliveInv
    <3> QED BY <3>1, <3>4 DEF Gate!Next, Gate!Leave, phase
  <2>3. CASE WaitStep
    <3>1. CASE WaitWorkers
      BY <3>1 DEF WaitWorkers, Gate!Next, Gate!Drain, phase
    <3>2. CASE WaitHandlers
      BY <3>2 DEF WaitHandlers, Gate!Next, Gate!Finish, phase
    <3>3. ~WaitCloseAll
      BY DEF WaitCloseAll, phase
    <3> QED BY <2>3, <3>1, <3>2, <3>3 DEF WaitStep
  <2>4. ~StartStep /\ ~SigExit /\ ~SigNotify /\ ~SigRepeat
    BY DEF StartStep, StartWorker, StartAppend, StartGate, StartRest, SigExit, SigNotify, SigRepeat, phase
  <2>5. ~CloseListeners /\ ~CloseFlag /\ ~MaxUnlock /\ ~QpsToken /\ ~UNCHANGED vars
    BY DEF CloseListeners, CloseFlag, MaxUnlock, QpsToken, vars, phase
  <2>6. ASSUME NEW w \in Worker, WorkerNet(w) PROVE FALSE
    BY <2>6 DEF WorkerNet, Accept, Dial, NewConn, AcceptFail, DialFail, phase
  <2> QED BY <2>1, <2>2, <2>3, <2>4, <2>5, <2>6 DEF Next
<1> QED BY <1>1, <1>2, Invariance, PTL DEF Spec, GateSpec, Gate!Spec

(***************************************************************************)
(* The address pool of the client: every address is in one place.          *)
(***************************************************************************)
Dialing == {w \in Worker : wpc[w] = "dial"}
Live == {c \in Conn : hpc[c] \notin {"free", "delete"}}         \* their address is not in the pool
Owned(w) == {c \in Live : arg[c].idx = w}
Share(w) == (NAddr + Cpus - 1 - w) \div Cpus                    \* addresses dealt to connector w
One(b) == IF b THEN 1 ELSE 0

\* The addresses in the channels of p, and that each is there once.
Pooled(p) == {a \in Addr : \E w \in Worker : \E i \in 1 .. Len(p[w]) : p[w][i] = a}
Distinct(p) ==
    \A v, w \in Worker : \A i \in 1 .. Len(p[v]), j \in 1 .. Len(p[w]) : p[v][i] = p[w][j] => v = w /\ i = j

\* An address is in a channel, with a connector that dials, or with a
\* connection, and only once.
AddrInv ==
    /\ Distinct(pool)
    /\ \A c \in Live : arg[c].connidx \notin Pooled(pool)
    /\ \A c, d \in Live : c # d => arg[c].connidx # arg[d].connidx
    /\ \A w \in Dialing : widx[w] \notin Pooled(pool) /\ \A c \in Live : arg[c].connidx # widx[w]
    /\ \A v, w \in Dialing : v # w => widx[v] # widx[w]
    /\ \A w \in Worker : held[w] # None => arg[held[w]].idx = w

\* A connector's addresses, in its channel and outside, are never more than it
\* was dealt.
RoomInv == \A w \in Worker : Len(pool[w]) + Cardinality(Owned(w)) + One(w \in Dialing) <= Share(w)

PoolInv == ~ListenMode => AddrInv /\ RoomInv

\* An address that is in no channel is put into one.
LEMMA PoolAppend ==
  ASSUME NEW p \in [Worker -> Seq(Addr)], NEW w \in Worker, NEW a \in Addr, Distinct(p), a \notin Pooled(p)
  PROVE  LET q == [p EXCEPT ![w] = Append(p[w], a)]
         IN  q \in [Worker -> Seq(Addr)] /\ Distinct(q) /\ Pooled(q) = Pooled(p) \cup {a}
<1> DEFINE q == [p EXCEPT ![w] = Append(p[w], a)]
<1>1. /\ q \in [Worker -> Seq(Addr)] /\ Len(q[w]) = Len(p[w]) + 1 /\ q[w][Len(p[w]) + 1] = a
      /\ \A i \in 1 .. Len(p[w]) : q[w][i] = p[w][i]
      /\ \A v \in Worker \ {w} : q[v] = p[v]
  OBVIOUS
<1>2. \A v \in Worker : Len(p[v]) \in Nat /\ \A i \in 1 .. Len(p[v]) : p[v][i] \in Addr
  OBVIOUS
<1> HIDE DEF q
<1>3. \A v \in Worker : \A i \in 1 .. Len(p[v]) : p[v][i] # a
  BY <1>2 DEF Pooled
<1>4. \A v \in Worker : \A i \in 1 .. Len(q[v]) :
        \/ i \in 1 .. Len(p[v]) /\ q[v][i] = p[v][i]
        \/ v = w /\ i = Len(p[w]) + 1 /\ q[v][i] = a
  BY <1>1, <1>2, SMTT(60)
<1>5. Distinct(q)
  <2> SUFFICES ASSUME NEW u \in Worker, NEW v \in Worker, NEW i \in 1 .. Len(q[u]), NEW j \in 1 .. Len(q[v]),
                      q[u][i] = q[v][j]
               PROVE  u = v /\ i = j
    BY DEF Distinct
  <2>1. CASE i \in 1 .. Len(p[u]) /\ q[u][i] = p[u][i] /\ j \in 1 .. Len(p[v]) /\ q[v][j] = p[v][j]
    <3>1. p[u][i] = p[v][j]
      BY <2>1
    <3>2. i \in 1 .. Len(p[u]) /\ j \in 1 .. Len(p[v])
      BY <2>1
    <3> QED BY <3>1, <3>2 DEF Distinct
  <2> QED BY <1>3, <1>4, <2>1, SMTT(60)
<1>6. Pooled(q) = Pooled(p) \cup {a}
  <2>1. Pooled(q) \subseteq Pooled(p) \cup {a}
    BY <1>4 DEF Pooled
  <2>2. Pooled(p) \subseteq Pooled(q)
    <3> SUFFICES ASSUME NEW v \in Worker, NEW i \in 1 .. Len(p[v]) PROVE i \in 1 .. Len(q[v]) /\ q[v][i] = p[v][i]
      BY DEF Pooled
    <3>1. CASE v # w
      BY <1>1, <3>1
    <3>2. CASE v = w
      BY <1>1, <1>2, <3>2
    <3> QED BY <3>1, <3>2
  <2>3. a \in Pooled(q)
    <3>1. Len(p[w]) + 1 \in 1 .. Len(q[w])
      BY <1>1, <1>2
    <3> QED BY <1>1, <3>1 DEF Pooled
  <2> QED BY <2>1, <2>2, <2>3
<1> QED BY <1>1, <1>5, <1>6 DEF q

\* The first address of a channel is taken.
LEMMA PoolTail ==
  ASSUME NEW p \in [Worker -> Seq(Addr)], NEW w \in Worker, Distinct(p), p[w] # <<>>
  PROVE  LET q == [p EXCEPT ![w] = Tail(p[w])]
         IN  /\ q \in [Worker -> Seq(Addr)] /\ Distinct(q) /\ Pooled(q) \subseteq Pooled(p)
             /\ Head(p[w]) \in Pooled(p) /\ Head(p[w]) \notin Pooled(q)
<1> DEFINE q == [p EXCEPT ![w] = Tail(p[w])]
<1>1. /\ q \in [Worker -> Seq(Addr)] /\ Len(q[w]) = Len(p[w]) - 1 /\ Len(p[w]) >= 1
      /\ \A i \in 1 .. Len(p[w]) - 1 : q[w][i] = p[w][i + 1]
      /\ \A v \in Worker \ {w} : q[v] = p[v]
      /\ Head(p[w]) = p[w][1]
  OBVIOUS
<1>2. \A v \in Worker : Len(p[v]) \in Nat /\ \A i \in 1 .. Len(p[v]) : p[v][i] \in Addr
  OBVIOUS
<1> HIDE DEF q
<1>3. \A v \in Worker : \A i \in 1 .. Len(q[v]) :
        \/ v # w /\ i \in 1 .. Len(p[v]) /\ q[v][i] = p[v][i]
        \/ v = w /\ i + 1 \in 2 .. Len(p[w]) /\ q[v][i] = p[w][i + 1]
  BY <1>1, <1>2
<1>4. Distinct(q)
  <2> SUFFICES ASSUME NEW u \in Worker, NEW v \in Worker, NEW i \in 1 .. Len(q[u]), NEW j \in 1 .. Len(q[v]),
                      q[u][i] = q[v][j]
               PROVE  u = v /\ i = j
    BY DEF Distinct
  <2>0. i \in Int /\ j \in Int
    BY <1>1
  <2>1. CASE u = w /\ v = w
    <3>1. i + 1 \in 1 .. Len(p[w]) /\ j + 1 \in 1 .. Len(p[w]) /\ p[w][i + 1] = p[w][j + 1]
      BY <1>2, <1>3, <2>0, <2>1
    <3>2. i + 1 = j + 1
      BY <3>1 DEF Distinct
    <3> QED BY <2>0, <2>1, <3>2
  <2>2. CASE u # w /\ v # w
    BY <1>3, <2>2 DEF Distinct
  <2>3. CASE u = w /\ v # w
    <3>0. q[u][i] = p[w][i + 1] /\ q[v][j] = p[v][j] /\ i + 1 \in 2 .. Len(p[w]) /\ j \in 1 .. Len(p[v])
      BY <1>3, <2>3
    <3>1. i + 1 \in 1 .. Len(p[w]) /\ j \in 1 .. Len(p[v]) /\ p[w][i + 1] = p[v][j]
      <4>1. Len(p[w]) \in Nat
        BY <1>2
      <4>2. i + 1 \in 1 .. Len(p[w])
        BY <3>0, <4>1
      <4>3. p[w][i + 1] = p[v][j]
        BY <3>0
      <4> QED BY <3>0, <4>2, <4>3
    <3> QED BY <2>3, <3>1, Zenon DEF Distinct
  <2>4. CASE u # w /\ v = w
    <3>1. j + 1 \in 1 .. Len(p[w]) /\ i \in 1 .. Len(p[u]) /\ p[u][i] = p[w][j + 1]
      BY <1>2, <1>3, <2>0, <2>4
    <3> QED BY <2>4, <3>1, Zenon DEF Distinct
  <2> QED BY <2>1, <2>2, <2>3, <2>4
<1>5. Pooled(q) \subseteq Pooled(p)
  <2> SUFFICES ASSUME NEW v \in Worker, NEW i \in 1 .. Len(q[v]) PROVE \E j \in 1 .. Len(p[v]) : q[v][i] = p[v][j]
    BY DEF Pooled
  <2>1. CASE v # w
    BY <1>3, <2>1
  <2>2. CASE v = w
    <3>1. i + 1 \in 1 .. Len(p[w]) /\ q[v][i] = p[w][i + 1]
      BY <1>2, <1>3, <2>2
    <3> QED BY <2>2, <3>1
  <2> QED BY <2>1, <2>2
<1>6. 1 \in 1 .. Len(p[w])
  BY <1>1, <1>2
<1>7. Head(p[w]) \in Pooled(p)
  BY <1>1, <1>2, <1>6 DEF Pooled
<1>8. Head(p[w]) \notin Pooled(q)
  <2> SUFFICES ASSUME NEW v \in Worker, NEW i \in 1 .. Len(q[v]), q[v][i] = p[w][1] PROVE FALSE
    BY <1>1 DEF Pooled
  <2>1. CASE v # w
    BY <1>3, <1>6, <2>1 DEF Distinct
  <2>2. CASE v = w
    <3>1. i + 1 \in 2 .. Len(p[w]) /\ p[w][i + 1] = p[w][1]
      BY <1>3, <2>2
    <3>2. i + 1 \in 1 .. Len(p[w]) /\ i + 1 # 1
      BY <1>2, <3>1
    <3> QED BY <1>6, <3>1, <3>2 DEF Distinct
  <2> QED BY <2>1, <2>2
<1> QED BY <1>1, <1>4, <1>5, <1>7, <1>8 DEF q

\* The addresses that Start deals to the connectors are all different.
LEMMA InitialDistinct ==
  ASSUME NEW v \in Worker, NEW w \in Worker, NEW i \in Nat, NEW j \in Nat,
         v + i * Cpus = w + j * Cpus
  PROVE  v = w /\ i = j
<1>1. v \in Nat /\ w \in Nat /\ v < Cpus /\ w < Cpus /\ Cpus \in Nat
  BY ConfigAssumption DEF Worker
<1>2. ~(i < j)
  <2> SUFFICES ASSUME i < j PROVE FALSE
    OBVIOUS
  <2>1. (i + 1) * Cpus <= j * Cpus
    BY <1>1
  <2>2. (i + 1) * Cpus = i * Cpus + Cpus
    BY <1>1
  <2>3. i * Cpus \in Int /\ j * Cpus \in Int
    BY <1>1
  <2> QED BY <1>1, <2>1, <2>2, <2>3
<1>3. ~(j < i)
  <2> SUFFICES ASSUME j < i PROVE FALSE
    OBVIOUS
  <2>1. (j + 1) * Cpus <= i * Cpus
    BY <1>1
  <2>2. (j + 1) * Cpus = j * Cpus + Cpus
    BY <1>1
  <2>3. i * Cpus \in Int /\ j * Cpus \in Int
    BY <1>1
  <2> QED BY <1>1, <2>1, <2>2, <2>3
<1>4. i = j
  BY <1>2, <1>3
<1>5. i * Cpus \in Int
  BY <1>1
<1> QED BY <1>1, <1>4, <1>5

\* A step that moves no address.
Quiet ==
    /\ Live' = Live /\ Dialing' = Dialing /\ UNCHANGED <<pool, widx, arg>>
    /\ \A w \in Worker : held'[w] \in {held[w], None}

\* Addresses move when a connector takes one, dials or gives up, when it drops
\* a new connection at the limit, and when a handler returns its own.
LEMMA AddressSteps ==
  ASSUME IndInv, ~ListenMode, [Next]_vars
  PROVE  \/ Quiet
         \/ \E w \in Worker : \/ TakeAddr(w) \/ DialFail(w) \/ (WorkerHoldOn(w) /\ held[w] # None)
                              \/ \E c \in Conn : Dial(w, c)
         \/ \E c \in Conn : HandlerReturnAddr(c)
<1> USE DEF engVars, startVars, stopVars, gateVars, workVars, connVars
<1>0. /\ wpc \in [Worker -> WorkerPC] /\ hpc \in [Conn -> HandlerPC] /\ held \in [Worker -> Conn \cup {None}]
      /\ StartInv /\ HeldInv /\ Worker \subseteq Int /\ launched \in Int /\ None \notin Conn
  BY ConfigAssumption DEF IndInv, TypeOK, Worker
<1>a. ASSUME UNCHANGED <<hpc, pool, widx, arg, held>>, Dialing' = Dialing PROVE Quiet
  BY <1>a DEF Quiet, Live
<1>b. ASSUME UNCHANGED <<wpc, pool, widx, arg, held>>, Live' = Live PROVE Quiet
  BY <1>b DEF Quiet, Dialing
<1>c. wpc' = Broadcast(wpc) => Dialing' = Dialing
  BY <1>0, BroadcastType DEF Dialing
<1>1. CASE StartStep
  <2>1. CASE StartWorker
    <3>1. Dialing' = Dialing
      BY <1>0, <2>1 DEF StartWorker, StartInv, Dialing
    <3> QED BY <1>a, <2>1, <3>1 DEF StartWorker
  <2>2. CASE StartAppend \/ StartGate \/ StartRest
    <3>1. Dialing' = Dialing /\ UNCHANGED <<hpc, pool, widx, arg, held>>
      BY <2>2 DEF StartAppend, StartGate, StartRest, Dialing
    <3> QED BY <1>a, <3>1
  <2> QED BY <1>1, <2>1, <2>2 DEF StartStep
<1>2. CASE WaitStep
  <2>1. CASE WaitWorkers BY <1>a, <1>c, <2>1 DEF WaitWorkers
  <2>2. CASE WaitCloseAll BY <1>a, <2>2 DEF WaitCloseAll, Dialing
  <2>3. CASE WaitHandlers BY <1>a, <2>3 DEF WaitHandlers, Dialing
  <2> QED BY <1>2, <2>1, <2>2, <2>3 DEF WaitStep
<1>3. CASE SigExit \/ SigRepeat \/ CloseListeners \/ CloseFlag \/ QpsToken \/ UNCHANGED vars
  <2>1. UNCHANGED <<wpc, hpc, pool, widx, arg, held>>
    BY <1>3 DEF SigExit, SigRepeat, CloseListeners, CloseFlag, QpsToken, vars
  <2> QED BY <1>a, <2>1 DEF Dialing
<1>4. CASE SigNotify \/ MaxUnlock
  BY <1>4, <1>a, <1>c DEF SigNotify, MaxUnlock
<1>5. ASSUME NEW w \in Worker, WorkerStep(w), ~TakeAddr(w), ~(WorkerHoldOn(w) /\ held[w] # None) PROVE Quiet
  <2>1. CASE WorkerLock(w) \/ WorkerAdmit(w) \/ WorkerSwitch(w) \/ WorkerWait(w) \/ WorkerFatal(w)
    <3>1. Dialing' = Dialing
      BY <1>0, <2>1 DEF WorkerLock, WorkerAdmit, WorkerSwitch, WorkerWait, WorkerFatal, Dialing
    <3>2. UNCHANGED <<hpc, pool, widx, arg, held>>
      BY <2>1 DEF WorkerLock, WorkerAdmit, WorkerSwitch, WorkerWait, WorkerFatal
    <3> QED BY <1>a, <3>1, <3>2
  <2>2. CASE WorkerHoldOn(w)
    <3>1. Dialing' = Dialing
      BY <1>0, <2>2 DEF WorkerHoldOn, AfterHoldOn, Dialing
    <3> QED BY <1>5, <1>a, <2>2, <3>1 DEF WorkerHoldOn
  <2>3. CASE WorkerRegister(w)
    <3>1. Dialing' = Dialing
      BY <1>0, <2>3 DEF WorkerRegister, Dialing
    <3>2. Live' = Live
      BY <1>0, <2>3 DEF WorkerRegister, HeldInv, Live
    <3> QED BY <1>0, <2>3, <3>1, <3>2 DEF WorkerRegister, Quiet
  <2>4. CASE WorkerExit(w)
    <3>1. Dialing' = Dialing
      BY <1>0, <2>4 DEF WorkerExit, Broadcast, Dialing
    <3> QED BY <1>a, <2>4, <3>1 DEF WorkerExit
  <2> QED BY <1>5, <2>1, <2>2, <2>3, <2>4 DEF WorkerStep
<1>6. ASSUME NEW w \in Worker, WorkerNet(w) PROVE DialFail(w) \/ \E c \in Conn : Dial(w, c)
  BY <1>6 DEF WorkerNet, Accept, AcceptFail
<1>7. ASSUME NEW c \in Conn, HandlerStep(c) \/ HandlerIO(c) \/ HandlerPeerClosed(c), ~HandlerReturnAddr(c) PROVE Quiet
  <2>1. CASE HandlerDelete(c)
    <3>1. Live' = Live
      BY <1>0, <2>1 DEF HandlerDelete, Live
    <3> QED BY <1>b, <2>1, <3>1 DEF HandlerDelete
  <2>2. CASE HandlerDec(c)
    <3>1. Live' = Live
      BY <1>0, <2>2 DEF HandlerDec, Live
    <3> QED BY <1>b, <2>2, <3>1 DEF HandlerDec
  <2>3. CASE HandlerClose(c)
    <3>1. Live' = Live
      BY <1>0, <2>3 DEF HandlerClose, Live
    <3> QED BY <1>b, <2>3, <3>1 DEF HandlerClose
  <2>4. ASSUME NEW from \in {"gate", "loop", "qps", "io"}, NEW to \in {"loop", "close", "qps", "io", "nilchan"},
               HandlerGoto(c, from, to)
        PROVE  Quiet
    <3>1. Live' = Live
      BY <1>0, <2>4 DEF HandlerGoto, Live
    <3> QED BY <1>b, <2>4, <3>1 DEF HandlerGoto
  <2>5. CASE HandlerGate(c) \/ HandlerLoop(c) \/ HandlerQps(c) \/ HandlerIOClosed(c) \/ HandlerIO(c) \/ HandlerPeerClosed(c)
    BY <2>4, <2>5 DEF HandlerGate, HandlerLoop, HandlerQps, HandlerIOClosed, HandlerIO, HandlerPeerClosed
  <2> QED BY <1>7, <2>1, <2>2, <2>3, <2>5 DEF HandlerStep
<1> QED BY <1>1, <1>2, <1>3, <1>4, <1>5, <1>6, <1>7 DEF Next

\* What the steps that move an address do with it.
LEMMA AddressMoves ==
  ASSUME IndInv, AddrInv, ~ListenMode
  PROVE  /\ \A w \in Worker : TakeAddr(w) =>
               /\ Live' = Live /\ UNCHANGED <<arg, held>> /\ Dialing' = Dialing \cup {w} /\ w \notin Dialing
               /\ pool[w] # <<>> /\ pool' = [pool EXCEPT ![w] = Tail(pool[w])]
               /\ widx' = [widx EXCEPT ![w] = Head(pool[w])]
         /\ \A w \in Worker : DialFail(w) =>
               /\ Live' = Live /\ UNCHANGED <<arg, held, pool>> /\ Dialing' = Dialing \ {w}
               /\ w \in Dialing /\ widx' = [widx EXCEPT ![w] = None]
         /\ \A w \in Worker : \A c \in Conn : Dial(w, c) =>
               /\ c \notin Live /\ Live' = Live \cup {c} /\ UNCHANGED pool
               /\ w \in Dialing /\ Dialing' = Dialing \ {w} /\ widx' = [widx EXCEPT ![w] = None]
               /\ arg' = [arg EXCEPT ![c] = [idx |-> w, connidx |-> widx[w]]]
               /\ held' = [held EXCEPT ![w] = c]
         /\ \A w \in Worker : WorkerHoldOn(w) /\ held[w] # None =>
               /\ UNCHANGED <<arg, widx>> /\ Dialing' = Dialing
               /\ held[w] \in Live /\ Live' = Live \ {held[w]} /\ held' = [held EXCEPT ![w] = None]
               /\ arg[held[w]].connidx \in Addr
               /\ pool' = [pool EXCEPT ![w] = Append(pool[w], arg[held[w]].connidx)]
         /\ \A c \in Conn : HandlerReturnAddr(c) =>
               /\ UNCHANGED <<arg, widx, held>> /\ Dialing' = Dialing
               /\ c \in Live /\ Live' = Live \ {c} /\ arg[c].connidx \in Addr
               /\ arg[c].idx \in Worker /\ \A w \in Worker : held[w] # c
               /\ pool' = [pool EXCEPT ![arg[c].idx] = Append(pool[arg[c].idx], arg[c].connidx)]
<1> USE DEF engVars, startVars, stopVars, gateVars, workVars, connVars
<1>0. /\ wpc \in [Worker -> WorkerPC] /\ hpc \in [Conn -> HandlerPC] /\ held \in [Worker -> Conn \cup {None}]
      /\ arg \in [Conn -> [idx : Worker, connidx : Index \cup {None}]] /\ HeldInv /\ ArgInv
      /\ None \notin Conn /\ Index = Addr
  BY ConfigAssumption DEF IndInv, TypeOK, Index
<1>1. ASSUME NEW w \in Worker, TakeAddr(w)
      PROVE  /\ Live' = Live /\ UNCHANGED <<arg, held>> /\ Dialing' = Dialing \cup {w} /\ w \notin Dialing
             /\ pool[w] # <<>> /\ pool' = [pool EXCEPT ![w] = Tail(pool[w])]
             /\ widx' = [widx EXCEPT ![w] = Head(pool[w])]
  BY <1>0, <1>1 DEF TakeAddr, Live, Dialing
<1>2. ASSUME NEW w \in Worker, DialFail(w)
      PROVE  /\ Live' = Live /\ UNCHANGED <<arg, held, pool>> /\ Dialing' = Dialing \ {w}
             /\ w \in Dialing /\ widx' = [widx EXCEPT ![w] = None]
  BY <1>0, <1>2 DEF DialFail, Live, Dialing
<1>3. ASSUME NEW w \in Worker, NEW c \in Conn, Dial(w, c)
      PROVE  /\ c \notin Live /\ Live' = Live \cup {c} /\ UNCHANGED pool
             /\ w \in Dialing /\ Dialing' = Dialing \ {w} /\ widx' = [widx EXCEPT ![w] = None]
             /\ arg' = [arg EXCEPT ![c] = [idx |-> w, connidx |-> widx[w]]]
             /\ held' = [held EXCEPT ![w] = c]
  BY <1>0, <1>3 DEF Dial, NewConn, Live, Dialing
<1>4. ASSUME NEW w \in Worker, WorkerHoldOn(w), held[w] # None
      PROVE  /\ UNCHANGED <<arg, widx>> /\ Dialing' = Dialing
             /\ held[w] \in Live /\ Live' = Live \ {held[w]} /\ held' = [held EXCEPT ![w] = None]
             /\ arg[held[w]].connidx \in Addr
             /\ pool' = [pool EXCEPT ![w] = Append(pool[w], arg[held[w]].connidx)]
  <2>1. held[w] \in Conn /\ hpc[held[w]] = "held"
    BY <1>0, <1>4 DEF HeldInv
  <2>2. held[w] \in Live /\ Live' = Live \ {held[w]}
    BY <1>0, <1>4, <2>1 DEF WorkerHoldOn, Live
  <2>3. Dialing' = Dialing
    BY <1>0, <1>4 DEF WorkerHoldOn, AfterHoldOn, Dialing
  <2>4. arg[held[w]].connidx \in Addr
    BY <1>0, <2>1 DEF ArgInv
  <2> QED BY <1>4, <2>2, <2>3, <2>4 DEF WorkerHoldOn
<1>5. ASSUME NEW c \in Conn, HandlerReturnAddr(c)
      PROVE  /\ UNCHANGED <<arg, widx, held>> /\ Dialing' = Dialing
             /\ c \in Live /\ Live' = Live \ {c} /\ arg[c].connidx \in Addr
             /\ arg[c].idx \in Worker /\ \A w \in Worker : held[w] # c
             /\ pool' = [pool EXCEPT ![arg[c].idx] = Append(pool[arg[c].idx], arg[c].connidx)]
  <2>1. c \in Live /\ Live' = Live \ {c}
    BY <1>0, <1>5 DEF HandlerReturnAddr, AfterReturn, Live
  <2>2. arg[c].connidx \in Addr /\ arg[c].idx \in Worker
    BY <1>0, <1>5 DEF HandlerReturnAddr, ArgInv
  <2>3. \A w \in Worker : held[w] # c
    BY <1>0, <1>5 DEF HandlerReturnAddr, HeldInv
  <2> QED BY <1>5, <2>1, <2>2, <2>3 DEF HandlerReturnAddr, Dialing
<1> QED BY <1>1, <1>2, <1>3, <1>4, <1>5

\* No step puts an address in two places.
LEMMA AddrStep == IndInv /\ ~ListenMode /\ AddrInv /\ [Next]_vars => AddrInv'
<1> SUFFICES ASSUME IndInv, ~ListenMode, AddrInv, [Next]_vars PROVE AddrInv'
  OBVIOUS
<1>0. /\ pool \in [Worker -> Seq(Addr)] /\ arg \in [Conn -> [idx : Worker, connidx : Index \cup {None}]]
      /\ widx \in [Worker -> Addr \cup {None}] /\ held \in [Worker -> Conn \cup {None}]
      /\ HeldInv /\ Live \subseteq Conn /\ Dialing \subseteq Worker /\ None \notin Conn
  BY ConfigAssumption DEF IndInv, TypeOK, Live, Dialing
<1>1. CASE Quiet
  BY <1>1 DEF Quiet, AddrInv
<1>2. ASSUME NEW w \in Worker, TakeAddr(w) PROVE AddrInv'
  <2>1. /\ Live' = Live /\ UNCHANGED <<arg, held>> /\ Dialing' = Dialing \cup {w} /\ w \notin Dialing
        /\ pool[w] # <<>> /\ pool' = [pool EXCEPT ![w] = Tail(pool[w])]
        /\ widx' = [widx EXCEPT ![w] = Head(pool[w])]
    BY <1>2, AddressMoves
  <2>2. /\ Distinct(pool') /\ Pooled(pool') \subseteq Pooled(pool)
        /\ Head(pool[w]) \in Pooled(pool) /\ Head(pool[w]) \notin Pooled(pool')
    BY <1>0, <2>1, PoolTail DEF AddrInv
  <2>3. widx'[w] = Head(pool[w]) /\ \A v \in Dialing : v # w /\ widx'[v] = widx[v]
    BY <1>0, <2>1
  <2>4. \A v \in Dialing : widx[v] # Head(pool[w]) /\ widx[v] \notin Pooled(pool')
    BY <2>2 DEF AddrInv
  <2>5. \A c \in Live : arg[c].connidx # Head(pool[w]) /\ arg[c].connidx \notin Pooled(pool')
    BY <2>2 DEF AddrInv
  <2>6. \A v \in Dialing' : widx'[v] \notin Pooled(pool') /\ \A c \in Live' : arg'[c].connidx # widx'[v]
    <3> SUFFICES ASSUME NEW v \in Dialing'
                 PROVE  widx'[v] \notin Pooled(pool') /\ \A c \in Live' : arg'[c].connidx # widx'[v]
      OBVIOUS
    <3>1. CASE v = w
      BY <2>1, <2>2, <2>3, <2>5, <3>1
    <3>2. CASE v \in Dialing
      <4>1. widx'[v] = widx[v]
        BY <2>3, <3>2
      <4> QED BY <2>1, <2>4, <3>2, <4>1 DEF AddrInv
    <3> QED BY <2>1, <3>1, <3>2
  <2>7. \A u, v \in Dialing' : u # v => widx'[u] # widx'[v]
    BY <2>1, <2>3, <2>4 DEF AddrInv
  <2> QED BY <2>1, <2>2, <2>5, <2>6, <2>7 DEF AddrInv
<1>3. ASSUME NEW w \in Worker, DialFail(w) PROVE AddrInv'
  <2>1. /\ Live' = Live /\ UNCHANGED <<arg, held, pool>> /\ Dialing' = Dialing \ {w}
        /\ w \in Dialing /\ widx' = [widx EXCEPT ![w] = None]
    BY <1>3, AddressMoves
  <2> QED BY <1>0, <2>1 DEF AddrInv
<1>4. ASSUME NEW w \in Worker, NEW c \in Conn, Dial(w, c) PROVE AddrInv'
  <2>1. /\ c \notin Live /\ Live' = Live \cup {c} /\ UNCHANGED pool
        /\ w \in Dialing /\ Dialing' = Dialing \ {w} /\ widx' = [widx EXCEPT ![w] = None]
        /\ arg' = [arg EXCEPT ![c] = [idx |-> w, connidx |-> widx[w]]]
        /\ held' = [held EXCEPT ![w] = c]
    BY <1>4, AddressMoves
  <2>2. arg'[c].connidx = widx[w] /\ arg'[c].idx = w /\ \A d \in Live : arg'[d] = arg[d]
    BY <1>0, <2>1
  <2>3. \A v \in Worker : held[v] # None => held[v] \in Live
    BY <1>0 DEF HeldInv, Live
  <2>4. \A v \in Dialing' : v \in Dialing /\ v # w /\ widx'[v] = widx[v]
    BY <1>0, <2>1
  <2>5. \A d \in Live' : arg'[d].connidx \notin Pooled(pool')
    BY <2>1, <2>2 DEF AddrInv
  <2>6. \A d, e \in Live' : d # e => arg'[d].connidx # arg'[e].connidx
    BY <2>1, <2>2 DEF AddrInv
  <2>7. \A v \in Dialing' : widx'[v] \notin Pooled(pool') /\ \A d \in Live' : arg'[d].connidx # widx'[v]
    BY <2>1, <2>2, <2>4 DEF AddrInv
  <2>8. \A u, v \in Dialing' : u # v => widx'[u] # widx'[v]
    BY <2>4 DEF AddrInv
  <2>9. \A v \in Worker : held'[v] # None => arg'[held'[v]].idx = v
    BY <1>0, <2>1, <2>2, <2>3 DEF AddrInv
  <2> QED BY <2>1, <2>5, <2>6, <2>7, <2>8, <2>9 DEF AddrInv
<1>5. ASSUME NEW c \in Live, NEW w \in Worker, arg[c].connidx \in Addr, UNCHANGED <<arg, widx>>,
             Dialing' = Dialing, Live' = Live \ {c}, \A v \in Worker : held'[v] \in {held[v], None},
             pool' = [pool EXCEPT ![w] = Append(pool[w], arg[c].connidx)]
      PROVE  AddrInv'
  <2>1. Distinct(pool') /\ Pooled(pool') = Pooled(pool) \cup {arg[c].connidx}
    <3> DEFINE a == arg[c].connidx
    <3>1. a \in Addr /\ a \notin Pooled(pool) /\ Distinct(pool)
      BY <1>5 DEF AddrInv
    <3> HIDE DEF a
    <3>2. LET q == [pool EXCEPT ![w] = Append(pool[w], a)] IN Distinct(q) /\ Pooled(q) = Pooled(pool) \cup {a}
      BY <1>0, <3>1, PoolAppend
    <3> QED BY <1>5, <3>2 DEF a
  <2> QED BY <1>0, <1>5, <2>1 DEF AddrInv
<1>6. ASSUME NEW w \in Worker, WorkerHoldOn(w), held[w] # None PROVE AddrInv'
  <2>1. /\ UNCHANGED <<arg, widx>> /\ Dialing' = Dialing
        /\ held[w] \in Live /\ Live' = Live \ {held[w]} /\ held' = [held EXCEPT ![w] = None]
        /\ arg[held[w]].connidx \in Addr
        /\ pool' = [pool EXCEPT ![w] = Append(pool[w], arg[held[w]].connidx)]
    BY <1>6, AddressMoves
  <2>2. \A v \in Worker : held'[v] \in {held[v], None}
    BY <1>0, <2>1
  <2> QED BY <1>5, <2>1, <2>2
<1>7. ASSUME NEW c \in Conn, HandlerReturnAddr(c) PROVE AddrInv'
  <2>1. /\ UNCHANGED <<arg, widx, held>> /\ Dialing' = Dialing
        /\ c \in Live /\ Live' = Live \ {c} /\ arg[c].connidx \in Addr
        /\ arg[c].idx \in Worker
        /\ pool' = [pool EXCEPT ![arg[c].idx] = Append(pool[arg[c].idx], arg[c].connidx)]
    BY <1>7, AddressMoves
  <2> QED BY <1>5, <2>1
<1> QED BY <1>1, <1>2, <1>3, <1>4, <1>6, <1>7, AddressSteps

\* A connector's addresses move between its channel, its dial and its
\* connections; a failed dial drops one.
LEMMA RoomStep == IndInv /\ ~ListenMode /\ AddrInv /\ RoomInv /\ [Next]_vars => RoomInv'
<1> SUFFICES ASSUME IndInv, ~ListenMode, AddrInv, RoomInv, [Next]_vars, NEW w \in Worker
             PROVE  Len(pool'[w]) + Cardinality(Owned(w)') + One(w \in Dialing') <= Share(w)
  BY DEF RoomInv
<1>0. /\ pool \in [Worker -> Seq(Addr)] /\ arg \in [Conn -> [idx : Worker, connidx : Index \cup {None}]]
      /\ Live \subseteq Conn /\ w \in Nat /\ Cpus \in Nat \ {0} /\ NAddr \in Nat /\ IsFiniteSet(Conn)
  BY ConfigAssumption DEF IndInv, TypeOK, Live, Worker
<1>a. /\ IsFiniteSet(Owned(w)) /\ Cardinality(Owned(w)) \in Nat /\ Len(pool[w]) \in Nat
      /\ One(w \in Dialing) \in Nat /\ Share(w) \in Int
  <2>1. IsFiniteSet(Owned(w))
    BY <1>0, FS_Subset DEF Owned
  <2>2. Share(w) \in Int
    BY <1>0 DEF Share
  <2> QED BY <1>0, <2>1, <2>2, FS_CardinalityType DEF One
<1>b. Len(pool[w]) + Cardinality(Owned(w)) + One(w \in Dialing) <= Share(w)
  BY DEF RoomInv
<1>1. CASE Quiet
  BY <1>1, <1>b DEF Quiet, Owned
<1>2. ASSUME NEW v \in Worker, TakeAddr(v) PROVE Len(pool'[w]) + Cardinality(Owned(w)') + One(w \in Dialing') <= Share(w)
  <2>1. /\ Live' = Live /\ UNCHANGED arg /\ Dialing' = Dialing \cup {v} /\ v \notin Dialing
        /\ pool[v] # <<>> /\ pool' = [pool EXCEPT ![v] = Tail(pool[v])]
    BY <1>2, AddressMoves
  <2>2. Owned(w)' = Owned(w)
    BY <2>1 DEF Owned
  <2>3. CASE v = w
    <3>1. Len(pool'[w]) = Len(pool[w]) - 1
      BY <1>0, <2>1, <2>3
    <3>2. One(w \in Dialing') = 1 /\ One(w \in Dialing) = 0
      BY <2>1, <2>3 DEF One
    <3> QED BY <1>a, <1>b, <2>2, <3>1, <3>2
  <2>4. CASE v # w
    <3>1. pool'[w] = pool[w] /\ One(w \in Dialing') = One(w \in Dialing)
      BY <1>0, <2>1, <2>4 DEF One
    <3> QED BY <1>b, <2>2, <3>1
  <2> QED BY <2>3, <2>4
<1>3. ASSUME NEW v \in Worker, DialFail(v) PROVE Len(pool'[w]) + Cardinality(Owned(w)') + One(w \in Dialing') <= Share(w)
  <2>1. Live' = Live /\ UNCHANGED <<arg, pool>> /\ Dialing' = Dialing \ {v}
    BY <1>3, AddressMoves
  <2>2. Owned(w)' = Owned(w)
    BY <2>1 DEF Owned
  <2>3. One(w \in Dialing') <= One(w \in Dialing) /\ One(w \in Dialing') \in Nat
    BY <2>1 DEF One
  <2> QED BY <1>a, <1>b, <2>1, <2>2, <2>3
<1>4. ASSUME NEW v \in Worker, NEW c \in Conn, Dial(v, c)
      PROVE  Len(pool'[w]) + Cardinality(Owned(w)') + One(w \in Dialing') <= Share(w)
  <2>1. /\ c \notin Live /\ Live' = Live \cup {c} /\ UNCHANGED pool
        /\ v \in Dialing /\ Dialing' = Dialing \ {v}
        /\ arg' = [arg EXCEPT ![c] = [idx |-> v, connidx |-> widx[v]]]
    BY <1>4, AddressMoves
  <2>2. arg'[c].idx = v /\ \A d \in Live : arg'[d] = arg[d]
    BY <1>0, <2>1
  <2>3. CASE v = w
    <3>1. Owned(w)' = Owned(w) \cup {c} /\ c \notin Owned(w)
      BY <2>1, <2>2, <2>3 DEF Owned
    <3>2. Cardinality(Owned(w)') = Cardinality(Owned(w)) + 1
      BY <1>a, <3>1, FS_AddElement
    <3>3. One(w \in Dialing') = 0 /\ One(w \in Dialing) = 1
      BY <2>1, <2>3 DEF One
    <3> QED BY <1>a, <1>b, <2>1, <3>2, <3>3
  <2>4. CASE v # w
    <3>1. Owned(w)' = Owned(w)
      BY <2>1, <2>2, <2>4 DEF Owned
    <3>2. One(w \in Dialing') = One(w \in Dialing)
      BY <2>1, <2>4 DEF One
    <3> QED BY <1>b, <2>1, <3>1, <3>2
  <2> QED BY <2>3, <2>4
<1>5. ASSUME NEW c \in Live, NEW v \in Worker, arg[c].idx = v, UNCHANGED arg, Dialing' = Dialing, Live' = Live \ {c},
             pool' = [pool EXCEPT ![v] = Append(pool[v], arg[c].connidx)]
      PROVE  Len(pool'[w]) + Cardinality(Owned(w)') + One(w \in Dialing') <= Share(w)
  <2>1. CASE v = w
    <3>1. Owned(w)' = Owned(w) \ {c} /\ c \in Owned(w)
      BY <1>5, <2>1 DEF Owned
    <3>2. Cardinality(Owned(w)') = Cardinality(Owned(w)) - 1
      BY <1>a, <3>1, FS_RemoveElement
    <3>3. Len(pool'[w]) = Len(pool[w]) + 1
      BY <1>0, <1>5, <2>1
    <3> QED BY <1>5, <1>a, <1>b, <3>2, <3>3
  <2>2. CASE v # w
    <3>1. Owned(w)' = Owned(w) /\ pool'[w] = pool[w]
      BY <1>0, <1>5, <2>2 DEF Owned
    <3> QED BY <1>5, <1>b, <3>1
  <2> QED BY <2>1, <2>2
<1>6. ASSUME NEW v \in Worker, WorkerHoldOn(v), held[v] # None
      PROVE  Len(pool'[w]) + Cardinality(Owned(w)') + One(w \in Dialing') <= Share(w)
  <2>1. /\ UNCHANGED arg /\ Dialing' = Dialing /\ held[v] \in Live /\ Live' = Live \ {held[v]}
        /\ pool' = [pool EXCEPT ![v] = Append(pool[v], arg[held[v]].connidx)]
    BY <1>6, AddressMoves
  <2>2. arg[held[v]].idx = v
    BY <1>6 DEF AddrInv
  <2> QED BY <1>5, <2>1, <2>2
<1>7. ASSUME NEW c \in Conn, HandlerReturnAddr(c)
      PROVE  Len(pool'[w]) + Cardinality(Owned(w)') + One(w \in Dialing') <= Share(w)
  <2>1. /\ UNCHANGED arg /\ Dialing' = Dialing /\ c \in Live /\ Live' = Live \ {c} /\ arg[c].idx \in Worker
        /\ pool' = [pool EXCEPT ![arg[c].idx] = Append(pool[arg[c].idx], arg[c].connidx)]
    BY <1>7, AddressMoves
  <2> QED BY <1>5, <2>1
<1> QED BY <1>1, <1>2, <1>3, <1>4, <1>6, <1>7, AddressSteps

\* What Start deals to the connectors.
LEMMA PoolInit == Init => PoolInv
<1> SUFFICES ASSUME Init, ~ListenMode PROVE AddrInv /\ RoomInv
  BY DEF PoolInv
<1>1. Live = {} /\ Dialing = {} /\ \A w \in Worker : held[w] = None
  BY DEF Init, Live, Dialing
<1>2. \A w \in Worker : pool[w] = [k \in 1 .. Share(w) |-> w + (k - 1) * Cpus] /\ Share(w) \in Nat /\ Len(pool[w]) = Share(w)
  <2> SUFFICES ASSUME NEW w \in Worker
               PROVE  pool[w] = [k \in 1 .. Share(w) |-> w + (k - 1) * Cpus] /\ Share(w) \in Nat /\ Len(pool[w]) = Share(w)
    OBVIOUS
  <2>1. w \in Nat /\ w < Cpus /\ Cpus \in Nat /\ Cpus > 0 /\ NAddr \in Nat
    BY ConfigAssumption DEF Worker
  <2>2. Share(w) \in Nat
    BY <2>1 DEF Share
  <2>3. pool[w] = [k \in 1 .. Share(w) |-> w + (k - 1) * Cpus]
    BY DEF Init, InitialPool, Share
  <2>4. pool[w] \in Seq(Addr)
    BY InitialPoolType DEF Init
  <2>5. DOMAIN pool[w] = 1 .. Share(w) /\ DOMAIN pool[w] = 1 .. Len(pool[w]) /\ Len(pool[w]) \in Nat
    <3>1. DOMAIN pool[w] = 1 .. Share(w)
      BY <2>3
    <3>2. DOMAIN pool[w] = 1 .. Len(pool[w]) /\ Len(pool[w]) \in Nat
      BY <2>4
    <3> QED BY <3>1, <3>2
  <2>6. Len(pool[w]) = Share(w)
    BY <2>2, <2>5
  <2> QED BY <2>2, <2>3, <2>6
<1>3. Distinct(pool)
  <2> SUFFICES ASSUME NEW v \in Worker, NEW w \in Worker, NEW i \in 1 .. Len(pool[v]), NEW j \in 1 .. Len(pool[w]),
                      pool[v][i] = pool[w][j]
               PROVE  v = w /\ i = j
    BY DEF Distinct
  <2>1. i \in 1 .. Share(v) /\ j \in 1 .. Share(w) /\ i - 1 \in Nat /\ j - 1 \in Nat
    <3>1. Len(pool[v]) = Share(v) /\ Len(pool[w]) = Share(w) /\ Share(v) \in Nat /\ Share(w) \in Nat
      BY <1>2
    <3> QED BY <3>1
  <2>2. v + (i - 1) * Cpus = w + (j - 1) * Cpus
    <3>1. pool[v][i] = v + (i - 1) * Cpus
      <4>1. pool[v] = [k \in 1 .. Share(v) |-> v + (k - 1) * Cpus]
        BY <1>2
      <4> QED BY <2>1, <4>1
    <3>2. pool[w][j] = w + (j - 1) * Cpus
      <4>1. pool[w] = [k \in 1 .. Share(w) |-> w + (k - 1) * Cpus]
        BY <1>2
      <4> QED BY <2>1, <4>1
    <3> QED BY <3>1, <3>2
  <2>3. v = w /\ i - 1 = j - 1
    BY <2>1, <2>2, InitialDistinct
  <2> QED BY <2>1, <2>3
<1>4. RoomInv
  <2>1. Cardinality({}) = 0
    BY FS_EmptySet
  <2>2. \A w \in Worker : Owned(w) = {} /\ One(w \in Dialing) = 0
    BY <1>1 DEF Owned, One
  <2> SUFFICES ASSUME NEW w \in Worker
               PROVE  Len(pool[w]) + Cardinality(Owned(w)) + One(w \in Dialing) <= Share(w)
    BY DEF RoomInv
  <2>3. Len(pool[w]) = Share(w) /\ Share(w) \in Nat
    BY <1>2
  <2>4. Cardinality(Owned(w)) = 0 /\ One(w \in Dialing) = 0
    BY <2>1, <2>2
  <2> QED BY <2>3, <2>4
<1> QED BY <1>1, <1>3, <1>4 DEF AddrInv

LEMMA PoolInvariance == Spec => []PoolInv
<1>1. IndInv /\ PoolInv /\ [Next]_vars => PoolInv'
  BY AddrStep, RoomStep DEF PoolInv
<1> QED BY <1>1, PoolInit, Invariance, PTL DEF Spec

\* Two connections of a client never share a local address, however its
\* connectors and handlers interleave and whatever dials fail.
THEOREM AddressesCorrect == Spec => []AddressesDistinct
<1>1. PoolInv => AddressesDistinct
  BY DEF PoolInv, AddrInv, AddressesDistinct, Live, Running
<1> QED BY <1>1, PoolInvariance, PTL

\* The channels of the address pool have room for every address that is
\* returned, so that nobody blocks on one, maxLock in hand or not.
THEOREM PoolCorrect == Spec => []PoolNeverBlocks
<1>1. IndInv /\ PoolInv => PoolNeverBlocks
  <2> SUFFICES ASSUME IndInv, ~ListenMode, AddrInv, RoomInv PROVE PoolNeverBlocks
    BY DEF PoolInv, PoolNeverBlocks
  <2>0. /\ pool \in [Worker -> Seq(Addr)] /\ arg \in [Conn -> [idx : Worker, connidx : Index \cup {None}]]
        /\ held \in [Worker -> Conn \cup {None}] /\ HeldInv /\ IsFiniteSet(Conn)
    BY ConfigAssumption DEF IndInv, TypeOK
  <2>1. ASSUME NEW c \in Live, arg[c].idx \in Worker PROVE Len(pool[arg[c].idx]) < PoolCap
    <3> DEFINE w == arg[c].idx
    <3>1. IsFiniteSet(Owned(w)) /\ c \in Owned(w)
      BY <2>0, <2>1, FS_Subset DEF Owned, Live
    <3>2. Cardinality(Owned(w)) \in Nat /\ Cardinality(Owned(w)) # 0
      BY <3>1, FS_EmptySet, FS_CardinalityType
    <3>3. Len(pool[w]) \in Nat /\ w \in Worker
      BY <2>0, <2>1
    <3>4. Len(pool[w]) + Cardinality(Owned(w)) + One(w \in Dialing) <= Share(w) /\ One(w \in Dialing) \in Nat
      BY <3>3 DEF RoomInv, One
    <3> HIDE DEF w
    <3>5. Share(w) \in Int /\ Share(w) <= NAddr \div Cpus + 1 /\ PoolCap >= NAddr \div Cpus + 1 /\ PoolCap \in Int
          /\ NAddr \div Cpus \in Int
      <4>1. w \in Nat /\ w < Cpus /\ Cpus \in Nat /\ Cpus > 0 /\ NAddr \in Nat
        BY <3>3, ConfigAssumption DEF Worker
      <4>2. (NAddr + Cpus - 1 - w) \div Cpus <= NAddr \div Cpus + 1
        BY <4>1
      <4> QED BY <4>1, <4>2 DEF Share, PoolCap
    <3>6. Len(pool[w]) < PoolCap
      BY <3>2, <3>3, <3>4, <3>5
    <3> QED BY <3>6 DEF w
  <2>2. \A c \in Conn : hpc[c] = "return" => Len(pool[arg[c].idx]) < PoolCap
    BY <2>0, <2>1 DEF Live
  <2>3. ASSUME NEW w \in Worker, held[w] # None PROVE Len(pool[w]) < PoolCap
    <3>1. held[w] \in Live /\ arg[held[w]].idx = w
      BY <2>0, <2>3 DEF HeldInv, Live, AddrInv
    <3> QED BY <2>1, <3>1
  <2> QED BY <2>2, <2>3 DEF PoolNeverBlocks
<1> QED BY <1>1, PoolInvariance, Invariance, PTL

\* Connections that may have an entry in eng.conns.
Listed == Running \cup {c \in Conn : hpc[c] \in {"return", "delete"}}

\* With conf.nomap there is no map.
MapInv == EntriesCurrent /\ (NoMap => \A i \in Index : conns[i] = None)

\* An entry is made for a connection whose index nobody else uses, and its
\* handler deletes it before it returns.
LEMMA EntriesStep == IndInv /\ PoolInv /\ MapInv /\ [Next]_vars => MapInv'
<1> SUFFICES ASSUME IndInv, PoolInv, MapInv, [Next]_vars PROVE MapInv'
  OBVIOUS
<1> USE DEF engVars, startVars, stopVars, gateVars, workVars, connVars
<1>0. /\ None \notin Conn /\ hpc \in [Conn -> HandlerPC] /\ conns \in [Index -> Conn \cup {None}]
      /\ held \in [Worker -> Conn \cup {None}] /\ HeldInv /\ ArgInv
      /\ arg \in [Conn -> [idx : Worker, connidx : Index \cup {None}]]
      /\ NoMap => \A i \in Index : conns[i] = None
      /\ \A i \in Index : conns[i] # None => conns[i] \in Listed /\ arg[conns[i]].connidx = i
      /\ \A c \in Running : conns[arg[c].connidx] \in {c, None} /\ arg[c].connidx \in Index
  BY ConfigAssumption DEF IndInv, TypeOK, ArgInv, MapInv, EntriesCurrent, Listed, Running
<1>1. ASSUME \A i \in Index : conns'[i] \in {conns[i], None}, Running' \subseteq Running,
             \A c \in Listed : arg'[c] = arg[c],
             \A i \in Index : conns'[i] # None => conns'[i] \in Listed'
      PROVE  MapInv'
  <2>1. ASSUME NEW i \in Index, conns'[i] # None
        PROVE  (conns'[i] \in Running' \/ hpc'[conns'[i]] \in {"return", "delete"}) /\ arg'[conns'[i]].connidx = i
    BY <1>0, <1>1, <2>1 DEF Listed
  <2>2. ASSUME NEW c \in Running' PROVE conns'[arg'[c].connidx] \in {c, None}
    BY <1>0, <1>1, <2>2 DEF Listed
  <2> QED BY <1>0, <1>1, <2>1, <2>2 DEF MapInv, EntriesCurrent
<1>2. ASSUME UNCHANGED <<conns, hpc, arg>> PROVE MapInv'
  BY <1>2 DEF MapInv, EntriesCurrent, Running
<1>3. CASE StartStep
  BY <1>2, <1>3 DEF StartStep, StartWorker, StartAppend, StartGate, StartRest
<1>4. CASE WaitStep \/ SigExit \/ SigNotify \/ SigRepeat
  BY <1>2, <1>4 DEF WaitStep, WaitWorkers, WaitCloseAll, WaitHandlers, SigExit, SigNotify, SigRepeat
<1>5. CASE CloseListeners \/ CloseFlag \/ MaxUnlock \/ QpsToken
  BY <1>2, <1>5 DEF CloseListeners, CloseFlag, MaxUnlock, QpsToken
<1>6. ASSUME NEW w \in Worker, WorkerStep(w) PROVE MapInv'
  <2>1. CASE WorkerRegister(w) /\ held[w] # None
    <3> DEFINE h == held[w]
    <3>1. /\ h \in Conn /\ hpc[h] = "held" /\ h \notin Listed /\ arg[h].connidx \in Index /\ arg' = arg
          /\ hpc' = [hpc EXCEPT ![h] = "gate"]
          /\ conns' = IF NoMap THEN conns ELSE [conns EXCEPT ![arg[h].connidx] = h]
      BY <1>0, <2>1 DEF WorkerRegister, HeldInv, ArgInv, Listed, Running
    <3>2. \A c \in Running : arg[c].connidx # arg[h].connidx
      <4>1. CASE ListenMode
        BY <1>0, <3>1, <4>1 DEF ArgInv, Running, Listed
      <4>2. CASE ~ListenMode
        BY <3>1, <4>2 DEF PoolInv, AddrInv, Live, Running, Listed
      <4> QED BY <4>1, <4>2
    <3> HIDE DEF h
    <3>3. Running' = Running \cup {h} /\ Listed' = Listed \cup {h}
      BY <1>0, <3>1 DEF Running, Listed
    <3>4. ASSUME NEW i \in Index, conns'[i] # None
          PROVE  conns'[i] \in Listed' /\ arg'[conns'[i]].connidx = i
      BY <1>0, <3>1, <3>3, <3>4
    <3>5. ASSUME NEW c \in Running' PROVE conns'[arg'[c].connidx] \in {c, None}
      <4>1. CASE c = h
        <5>1. CASE NoMap
          <6>1. conns[arg[h].connidx] = None
            BY <1>0, <3>1, <5>1
          <6> QED BY <3>1, <4>1, <5>1, <6>1
        <5>2. CASE ~NoMap
          BY <1>0, <3>1, <4>1, <5>2
        <5> QED BY <5>1, <5>2
      <4>2. CASE c # h
        BY <1>0, <3>1, <3>2, <3>3, <3>5, <4>2
      <4> QED BY <4>1, <4>2
    <3> QED BY <1>0, <3>1, <3>4, <3>5 DEF MapInv, EntriesCurrent, Listed
  <2>2. CASE WorkerRegister(w) /\ held[w] = None
    BY <1>2, <2>2 DEF WorkerRegister
  <2>3. CASE WorkerHoldOn(w)
    <3>1. conns' = conns /\ arg' = arg /\ (hpc' = hpc \/ (held[w] \in Conn /\ hpc' = [hpc EXCEPT ![held[w]] = "free"]))
      BY <1>0, <2>3 DEF WorkerHoldOn
    <3>2. Running' = Running /\ Listed' = Listed
      BY <1>0, <3>1 DEF HeldInv, Running, Listed
    <3> QED BY <1>0, <1>1, <3>1, <3>2
  <2>4. CASE WorkerLock(w) \/ WorkerAdmit(w) \/ WorkerSwitch(w) \/ WorkerWait(w)
             \/ TakeAddr(w) \/ WorkerFatal(w) \/ WorkerExit(w)
    BY <1>2, <2>4 DEF WorkerLock, WorkerAdmit, WorkerSwitch, WorkerWait, TakeAddr, WorkerFatal, WorkerExit
  <2> QED BY <1>6, <2>1, <2>2, <2>3, <2>4 DEF WorkerStep
<1>7. ASSUME NEW w \in Worker, WorkerNet(w) PROVE MapInv'
  <2>1. CASE AcceptFail(w) \/ DialFail(w)
    BY <1>2, <2>1 DEF AcceptFail, DialFail
  <2>2. ASSUME NEW c \in Conn, Accept(w, c) \/ Dial(w, c) PROVE MapInv'
    <3>1. /\ conns' = conns /\ hpc[c] = "free" /\ hpc' = [hpc EXCEPT ![c] = "held"]
          /\ \E r : arg' = [arg EXCEPT ![c] = r]
      BY <2>2 DEF Accept, Dial, NewConn
    <3>2. Running' = Running /\ Listed' = Listed /\ c \notin Listed
      BY <1>0, <3>1 DEF Running, Listed
    <3>3. \A d \in Listed : arg'[d] = arg[d]
      BY <1>0, <3>1, <3>2 DEF Listed, Running
    <3> QED BY <1>0, <1>1, <3>1, <3>2, <3>3
  <2> QED BY <1>7, <2>1, <2>2 DEF WorkerNet
<1>8. ASSUME NEW d \in Conn, HandlerStep(d) \/ HandlerIO(d) \/ HandlerPeerClosed(d) PROVE MapInv'
  <2>1. CASE HandlerDelete(d)
    <3>1. /\ hpc[d] = "delete" /\ arg[d].connidx \in Index /\ arg' = arg
          /\ conns' = [conns EXCEPT ![arg[d].connidx] = None] /\ hpc' = [hpc EXCEPT ![d] = "free"]
      BY <1>0, <2>1 DEF HandlerDelete, ArgInv
    <3>2. Running' = Running /\ Listed' = Listed \ {d}
      BY <1>0, <3>1 DEF Running, Listed
    <3>3. ASSUME NEW i \in Index, conns'[i] # None PROVE conns'[i] \in Listed'
      BY <1>0, <3>1, <3>2, <3>3
    <3> QED BY <1>0, <1>1, <3>1, <3>2, <3>3
  <2>2. CASE ~HandlerDelete(d)
    <3>1. conns' = conns /\ arg' = arg
      BY <1>8, <2>2 DEF HandlerStep, HandlerGate, HandlerLoop, HandlerQps, HandlerIO, HandlerIOClosed,
         HandlerPeerClosed, HandlerClose, HandlerDec, HandlerReturnAddr, HandlerGoto
    <3>2. Running' \subseteq Running
      BY <1>0, <1>8, <2>2 DEF HandlerStep, HandlerGate, HandlerLoop, HandlerQps, HandlerIO, HandlerIOClosed,
         HandlerPeerClosed, HandlerClose, HandlerDec, HandlerReturnAddr, HandlerGoto, AfterReturn, Running
    <3>3. ~NoMap => Listed \subseteq Listed'
      BY <1>0, <1>8, <2>2 DEF HandlerStep, HandlerGate, HandlerLoop, HandlerQps, HandlerIO, HandlerIOClosed,
         HandlerPeerClosed, HandlerClose, HandlerDec, HandlerReturnAddr, HandlerGoto, AfterReturn, Running, Listed
    <3> QED BY <1>0, <1>1, <3>1, <3>2, <3>3
  <2> QED BY <2>1, <2>2
<1>9. CASE UNCHANGED vars
  BY <1>2, <1>9 DEF vars
<1> QED BY <1>3, <1>4, <1>5, <1>6, <1>7, <1>8, <1>9 DEF Next

\* EntriesCurrent in every state, in both modes and for every number of cpus,
\* connections and addresses: what workerWait closes at the end belongs to
\* handlers that have not returned.
THEOREM EntriesCorrect == Spec => []EntriesCurrent
<1>1. Init => MapInv
  BY DEF Init, MapInv, EntriesCurrent, Running
<1>2. Spec => []MapInv
  BY <1>1, EntriesStep, Invariance, PoolInvariance, PTL DEF Spec
<1>3. MapInv => EntriesCurrent
  BY DEF MapInv
<1> QED BY <1>2, <1>3, PTL
============================================================================
