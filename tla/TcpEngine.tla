----------------------------- MODULE TcpEngine -----------------------------
(***************************************************************************)
(* The connection engine of tcpengine/tcpengine.go: a TCP load generator   *)
(* that runs either as a server (-l, acceptors) or as a client             *)
(* (connectors), admits at most maxConcurrent connections through a gate   *)
(* guarded by maxLock and maxCond, starts the work load once the gate is   *)
(* full, and shuts down on a signal, on a fatal network error, on -E or    *)
(* after -d seconds.                                                       *)
(*                                                                         *)
(* One process per goroutine: Start, sigHandle, workerWait, the -d timer   *)
(* that calls Close, maxUnlock, qpsctl, one worker (acceptor or connector) *)
(* per cpu and one handler per connection.  An action is the code between  *)
(* two points where another goroutine can interfere; acquiring maxLock and *)
(* the first read under it are one action.                                 *)
(*                                                                         *)
(* Data that no goroutine decides on is left out: payloads, AES, counters  *)
(* kept only for printing (newCount, rwCount), profiling, log output.  A   *)
(* connection is an element of Conn; it is free again once its handler has *)
(* returned, so behaviours are unbounded over a finite Conn.  In listen    *)
(* mode the map index of a connection is a fresh number (newCount), here   *)
(* the connection itself.                                                  *)
(***************************************************************************)
EXTENDS Integers, Sequences, FiniteSets

CONSTANTS
    None,           \* no connection, no holder of maxLock
    Cpus,           \* conf.cpus: number of acceptors or connectors
    Conn,           \* connections that may exist at the same time (a bound)
    NAddr,          \* len(laddrList), local addresses of the client
    MaxConcurrent,  \* conf.maxConcurrent, 0 for unlimited
    QPSLimit,       \* conf.QPSLimit, 0 for unlimited
    ForceExit,      \* NET_FORCE_EXIT
    ListenMode,     \* conf.listenMode
    SharedListener, \* ListenTCP failed for every acceptor but the first
    NoMap,          \* conf.nomap
    NoWorkload,     \* conf.noworkload
    ExitMax,        \* conf.exitmax
    Duration        \* conf.duration > 0

Worker == 0 .. (Cpus - 1)
Addr   == 0 .. (NAddr - 1)
Index  == IF ListenMode THEN Conn ELSE Addr     \* keys of eng.conns

\* addressParse keeps MaxConcurrent <= NAddr <= 2 * MaxConcurrent when there
\* is a limit; in listen mode there is no address pool.
ASSUME ConfigAssumption ==
    /\ Cpus \in Nat \ {0} /\ NAddr \in Nat /\ MaxConcurrent \in Nat
    /\ QPSLimit \in Nat /\ ForceExit \in Nat
    /\ {ListenMode, SharedListener, NoMap, NoWorkload, ExitMax, Duration} \subseteq BOOLEAN
    /\ IsFiniteSet(Conn) /\ None \notin Conn \cup Worker \cup Addr
    /\ ListenMode => NAddr = 0
    /\ ~ListenMode => NAddr > 0
    /\ (~ListenMode /\ MaxConcurrent > 0) =>
            MaxConcurrent <= NAddr /\ NAddr <= 2 * MaxConcurrent

VARIABLES
    startpc,    \* where Start is: spawn, append, qps, running
    launched,   \* workers that Start has launched
    lopen,      \* listeners that are open (named by their first acceptor)
    listenfds,  \* listeners that a shutdown would close
    closing,    \* eng.closing
    sigpc,      \* sigHandle: idle, notify
    exitcnt,    \* sigHandle: signals received while closing
    closepc,    \* the -d timer: sleep, closing (inside Close), done
    waitpc,     \* workerWait: wg, closeall, poll, done
    maxLock,    \* the worker that holds eng.maxLock between two steps, or None
    alive,      \* *eng.aliveCount
    conns,      \* eng.conns, [Index -> connection or None]
    switched,   \* how many times eng.workswitch was closed
    workloadon, \* eng.workloadon
    qps,        \* tokens in eng.qpschannel
    wpc,        \* program counter of each worker
    held,       \* the worker's conn while its newconn is true, or None
    widx,       \* connidx of a connector between the pool and the dial, or None
    hpc,        \* program counter of the handler of each connection
    arg,        \* the handler's arguments [idx, connidx]
    open,       \* connections whose socket this process has not closed
    pool        \* eng.laddrPool, one FIFO channel per connector

startVars == <<startpc, launched, listenfds>>
stopVars  == <<sigpc, exitcnt, closepc, waitpc>>
engVars   == <<startVars, stopVars, lopen, closing>>
gateVars  == <<maxLock, alive, conns, switched, workloadon>>
workVars  == <<wpc, held, widx>>
connVars  == <<hpc, arg, open>>
vars == <<engVars, gateVars, qps, workVars, connVars, pool>>

(***************************************************************************)
(* Derived state.                                                          *)
(***************************************************************************)
Listener(w) == IF SharedListener THEN 0 ELSE w

\* closed is set, destroyed is closed: Wait returns
Destroyed == waitpc = "done"
\* os.Exit(1) of sigHandle
ForcedExit == exitcnt > ForceExit
\* eng.m is held by workerWait or by Close
EngineLocked == waitpc \in {"closeall", "poll"} \/ closepc = "closing"
PoolCapTight == NAddr \div Cpus               \* mutant: no spare slots
\* make(chan uint64, avglen)
PoolCap == NAddr \div Cpus + Cpus
Running == {c \in Conn : hpc[c] \in {"gate", "loop", "qps", "nilchan", "io", "close", "dec"}}

WorkerPC  == {"idle", "lock", "chkmax", "switch", "wait", "blocked", "register",
              "next", "dial", "fatal", "exit", "done"}
HandlerPC == {"free", "held", "gate", "loop", "qps", "nilchan", "io", "close",
              "dec", "return", "delete"}
Critical  == {"chkmax", "switch", "wait", "register"}

TypeOK ==
    /\ startpc \in {"spawn", "append", "qps", "running"}
    /\ launched \in 0 .. Cpus
    /\ lopen \subseteq Worker /\ listenfds \subseteq Worker
    /\ closing \in BOOLEAN /\ workloadon \in BOOLEAN
    /\ sigpc \in {"idle", "notify"} /\ exitcnt \in 0 .. (ForceExit + 1)
    /\ closepc \in {"sleep", "closing", "done"}
    /\ waitpc \in {"wg", "closeall", "poll", "done"}
    /\ maxLock \in Worker \cup {None}
    /\ alive \in Int
    /\ conns \in [Index -> Conn \cup {None}]
    /\ switched \in Nat
    /\ qps \in 0 .. (2 * QPSLimit)
    /\ wpc \in [Worker -> WorkerPC]
    /\ held \in [Worker -> Conn \cup {None}]
    /\ widx \in [Worker -> Addr \cup {None}]
    /\ hpc \in [Conn -> HandlerPC]
    /\ arg \in [Conn -> [idx : Worker, connidx : Index \cup {None}]]
    /\ open \subseteq Conn
    /\ pool \in [Worker -> Seq(Addr)]

\* Mutant: every connector is dealt the first addresses.
InitialPoolOverlap(w) == [k \in 1 .. ((NAddr + Cpus - 1 - w) \div Cpus) |-> k - 1]

\* Addresses are dealt to the connectors' channels, connidx % cpus.
InitialPool(w) ==
    [k \in 1 .. ((NAddr + Cpus - 1 - w) \div Cpus) |-> w + (k - 1) * Cpus]

Init ==
    /\ startpc = "spawn" /\ launched = 0 /\ lopen = {} /\ listenfds = {}
    /\ closing = FALSE /\ sigpc = "idle" /\ exitcnt = 0
    /\ closepc = "sleep" /\ waitpc = "wg"
    /\ maxLock = None /\ alive = 0 /\ conns = [i \in Index |-> None]
    /\ switched = 0 /\ workloadon = FALSE /\ qps = 0
    /\ wpc = [w \in Worker |-> "idle"]
    /\ held = [w \in Worker |-> None] /\ widx = [w \in Worker |-> None]
    /\ hpc = [c \in Conn |-> "free"]
    /\ arg = [c \in Conn |-> [idx |-> 0, connidx |-> None]]
    /\ open = {}
    /\ pool = [w \in Worker |-> InitialPool(w)]

\* maxCond.Broadcast(): every blocked worker is woken and goes back to the
\* head of its loop (Wait relocks, the code unlocks and continues).
Broadcast(pcs) == [w \in Worker |-> IF pcs[w] = "blocked" THEN "lock" ELSE pcs[w]]

(***************************************************************************)
(* Start.                                                                  *)
(***************************************************************************)
\* Launch the next worker.  The first acceptor is started before its listener
\* is recorded in listenfds, the others after.
StartWorker ==
    /\ startpc = "spawn" /\ launched < Cpus
    /\ wpc' = [wpc EXCEPT ![launched] = "lock"]
    /\ launched' = launched + 1
    /\ IF ListenMode
         THEN /\ lopen' = IF Listener(launched) = launched THEN lopen \cup {launched} ELSE lopen
              /\ IF launched = 0
                   THEN startpc' = "append" /\ UNCHANGED listenfds
                   ELSE startpc' = startpc /\ listenfds' = listenfds \cup {Listener(launched)}
         ELSE UNCHANGED <<startpc, listenfds, lopen>>
    /\ UNCHANGED <<stopVars, gateVars, connVars, closing, qps, held, widx, pool>>

StartAppend ==
    /\ startpc = "append"
    /\ listenfds' = listenfds \cup {0}
    /\ startpc' = "spawn"
    /\ UNCHANGED <<stopVars, gateVars, workVars, connVars, launched, lopen, closing, qps, pool>>

\* Without a limit the work load is on from the start.
StartGate ==
    /\ startpc = "spawn" /\ launched = Cpus
    /\ IF MaxConcurrent > 0
         THEN UNCHANGED <<switched, workloadon>>
         ELSE switched' = switched + 1 /\ workloadon' = TRUE
    /\ startpc' = "qps"
    /\ UNCHANGED <<stopVars, workVars, connVars, launched, listenfds, lopen, closing, maxLock, alive, conns, qps, pool>>

\* Make the qps channel, start qpsctl, workerWait and the -d timer.
StartRest ==
    /\ startpc = "qps"
    /\ startpc' = "running"
    /\ UNCHANGED <<stopVars, gateVars, workVars, connVars, launched, listenfds, lopen, closing, qps, pool>>

(***************************************************************************)
(* sigHandle, Close, workerWait, maxUnlock, qpsctl.                        *)
(***************************************************************************)
\* The first exit signal: closing is set without maxLock ...
SigExit ==
    /\ sigpc = "idle" /\ ~closing
    /\ closing' = TRUE /\ sigpc' = "notify"
    /\ UNCHANGED <<startVars, gateVars, workVars, connVars, exitcnt, closepc, waitpc, lopen, qps, pool>>

\* ... then the listeners recorded so far are closed and the workers woken.
SigNotify ==
    /\ sigpc = "notify"
    /\ lopen' = lopen \ listenfds
    /\ wpc' = Broadcast(wpc)
    /\ sigpc' = "idle"
    /\ UNCHANGED <<startVars, gateVars, connVars, exitcnt, closepc, waitpc, closing, qps, held, widx, pool>>

\* Every later signal is counted; too many of them end the process.
SigRepeat ==
    /\ sigpc = "idle" /\ closing
    /\ exitcnt' = exitcnt + 1
    /\ UNCHANGED <<startVars, gateVars, workVars, connVars, sigpc, closepc, waitpc, lopen, closing, qps, pool>>

\* Close() called by the -d timer: nothing if already closed, else the
\* listeners are closed ...
CloseListeners ==
    /\ Duration /\ startpc = "running" /\ closepc = "sleep" /\ ~EngineLocked
    /\ IF Destroyed
         THEN closepc' = "done" /\ UNCHANGED lopen
         ELSE closepc' = "closing" /\ lopen' = lopen \ listenfds
    /\ UNCHANGED <<startVars, gateVars, workVars, connVars, sigpc, exitcnt, waitpc, closing, qps, pool>>

\* ... and closing is set; nobody is woken.
CloseFlag ==
    /\ closepc = "closing"
    /\ closing' = TRUE /\ closepc' = "done"
    /\ UNCHANGED <<startVars, gateVars, workVars, connVars, sigpc, exitcnt, waitpc, lopen, qps, pool>>

\* wg.Wait() returned: every worker is done.  Take eng.m.
WaitWorkers ==
    /\ startpc = "running" /\ waitpc = "wg" /\ ~EngineLocked
    /\ \A w \in Worker : wpc[w] = "done"
    /\ closing' = TRUE
    /\ lopen' = lopen \ listenfds
    /\ wpc' = Broadcast(wpc)
    /\ waitpc' = "closeall"
    /\ UNCHANGED <<startVars, gateVars, connVars, sigpc, exitcnt, closepc, qps, held, widx, pool>>

\* Mutants: the map is emptied while handlers still run; the switch is closed
\* whether or not it was.
WaitCloseAllClear ==
    /\ waitpc = "closeall" /\ maxLock = None
    /\ open' = open \ {conns[i] : i \in Index} /\ conns' = [i \in Index |-> None]
    /\ switched' = switched + 1
    /\ waitpc' = "poll"
    /\ UNCHANGED <<startVars, workVars, sigpc, exitcnt, closepc, lopen, closing, maxLock, alive, workloadon, qps, hpc, arg, pool>>

\* Under maxLock: close every connection of the map, open the work switch if
\* it is not open yet.
WaitCloseAll ==
    /\ waitpc = "closeall" /\ maxLock = None
    /\ open' = open \ {conns[i] : i \in Index}
    /\ switched' = IF switched = 0 THEN 1 ELSE switched
    /\ waitpc' = "poll"
    /\ UNCHANGED <<startVars, workVars, sigpc, exitcnt, closepc, lopen, closing, maxLock, alive, conns, workloadon, qps, hpc, arg, pool>>

\* Mutant: no poll.
WaitHandlersNoPoll ==
    /\ waitpc = "poll" /\ waitpc' = "done"
    /\ UNCHANGED <<startVars, gateVars, workVars, connVars, sigpc, exitcnt, closepc, lopen, closing, qps, pool>>

\* Poll aliveCount; closed, destroyed and the release of eng.m.
WaitHandlers ==
    /\ waitpc = "poll" /\ alive = 0
    /\ waitpc' = "done"
    /\ UNCHANGED <<startVars, gateVars, workVars, connVars, sigpc, exitcnt, closepc, lopen, closing, qps, pool>>

\* Mutant: the comparison the other way round.
MaxUnlockInverted ==
    /\ startpc \in {"qps", "running"} /\ MaxConcurrent > 0
    /\ alive > MaxConcurrent
    /\ wpc' = Broadcast(wpc)
    /\ UNCHANGED <<engVars, gateVars, connVars, qps, held, widx, pool>>

\* A tick of maxUnlock.
MaxUnlock ==
    /\ startpc \in {"qps", "running"} /\ MaxConcurrent > 0
    /\ alive < MaxConcurrent
    /\ wpc' = Broadcast(wpc)
    /\ UNCHANGED <<engVars, gateVars, connVars, qps, held, widx, pool>>

\* qpsctl puts one token into qpschannel, a channel of 2 * QPSLimit slots.
QpsToken ==
    /\ startpc = "running" /\ QPSLimit > 0
    /\ switched > 0 /\ qps < 2 * QPSLimit
    /\ qps' = qps + 1
    /\ UNCHANGED <<engVars, gateVars, workVars, connVars, pool>>

(***************************************************************************)
(* acceptor / connector.                                                   *)
(***************************************************************************)
\* maxLock.Lock() and the check of closing.  A worker that leaves here keeps
\* a connection it has just opened: it is neither registered nor closed.
WorkerLock(w) ==
    /\ wpc[w] = "lock" /\ maxLock = None
    /\ IF closing
         THEN wpc' = [wpc EXCEPT ![w] = "exit"] /\ UNCHANGED maxLock
         ELSE wpc' = [wpc EXCEPT ![w] = "chkmax"] /\ maxLock' = w
    /\ UNCHANGED <<engVars, connVars, alive, conns, switched, workloadon, qps, held, widx, pool>>

\* Mutant: off by one.
WorkerAdmitOneMore(w) ==
    /\ wpc[w] = "chkmax"
    /\ MaxConcurrent = 0 \/ alive <= MaxConcurrent
    /\ wpc' = [wpc EXCEPT ![w] = "register"]
    /\ UNCHANGED <<engVars, gateVars, connVars, qps, held, widx, pool>>

\* aliveCount is below the limit, or there is none.
WorkerAdmit(w) ==
    /\ wpc[w] = "chkmax"
    /\ MaxConcurrent = 0 \/ alive < MaxConcurrent
    /\ wpc' = [wpc EXCEPT ![w] = "register"]
    /\ UNCHANGED <<engVars, gateVars, connVars, qps, held, widx, pool>>

\* Whoever finds the work load off turns it on (mutant: everybody does).
AfterHoldOnAlways == "switch"
AfterHoldOn == IF workloadon THEN "wait" ELSE "switch"

\* The limit is reached: drop the new connection (the connector also returns
\* its address), then exit (-E), or start the work load once, or wait.
WorkerHoldOn(w) ==
    /\ wpc[w] = "chkmax"
    /\ MaxConcurrent > 0 /\ alive >= MaxConcurrent
    /\ IF held[w] = None
         THEN UNCHANGED <<held, hpc, open, pool>>
         ELSE /\ held' = [held EXCEPT ![w] = None]
              /\ hpc' = [hpc EXCEPT ![held[w]] = "free"]
              /\ open' = open \ {held[w]}
              /\ IF ListenMode
                   THEN UNCHANGED pool
                   ELSE /\ Len(pool[w]) < PoolCap
                        /\ pool' = [pool EXCEPT ![w] = Append(@, arg[held[w]].connidx)]
    /\ IF ExitMax
         THEN /\ closing' = TRUE /\ maxLock' = None
              /\ wpc' = [wpc EXCEPT ![w] = "exit"]
              /\ UNCHANGED workloadon
         ELSE /\ wpc' = [wpc EXCEPT ![w] = AfterHoldOn]
              /\ workloadon' = TRUE
              /\ UNCHANGED <<closing, maxLock>>
    /\ UNCHANGED <<startVars, stopVars, lopen, alive, conns, switched, qps, widx, arg>>

\* close(eng.workswitch), 200 ms later and still under maxLock.
WorkerSwitch(w) ==
    /\ wpc[w] = "switch"
    /\ switched' = switched + 1
    /\ wpc' = [wpc EXCEPT ![w] = "wait"]
    /\ UNCHANGED <<engVars, connVars, maxLock, alive, conns, workloadon, qps, held, widx, pool>>

\* maxCond.Wait(): join the waiters and release maxLock.
WorkerWait(w) ==
    /\ wpc[w] = "wait"
    /\ wpc' = [wpc EXCEPT ![w] = "blocked"]
    /\ maxLock' = None
    /\ UNCHANGED <<engVars, connVars, alive, conns, switched, workloadon, qps, held, widx, pool>>

\* Enter the new connection into the map, count it, start its handler.
WorkerRegister(w) ==
    /\ wpc[w] = "register"
    /\ IF held[w] = None
         THEN UNCHANGED <<alive, conns, held, hpc>>
         ELSE /\ conns' = IF NoMap THEN conns
                          ELSE [conns EXCEPT ![arg[held[w]].connidx] = held[w]]
              /\ alive' = alive + 1
              /\ hpc' = [hpc EXCEPT ![held[w]] = "gate"]
              /\ held' = [held EXCEPT ![w] = None]
    /\ maxLock' = None
    /\ wpc' = [wpc EXCEPT ![w] = "next"]
    /\ UNCHANGED <<engVars, switched, workloadon, qps, widx, arg, open, pool>>

\* A new socket c for worker w with map index i; back to the loop's head.
NewConn(w, c, i) ==
    /\ hpc[c] = "free"
    /\ hpc' = [hpc EXCEPT ![c] = "held"]
    /\ arg' = [arg EXCEPT ![c] = [idx |-> w, connidx |-> i]]
    /\ open' = open \cup {c}
    /\ held' = [held EXCEPT ![w] = c]
    /\ wpc' = [wpc EXCEPT ![w] = "lock"]

\* AcceptTCP succeeds.
Accept(w, c) ==
    /\ ListenMode /\ wpc[w] = "next" /\ Listener(w) \in lopen
    /\ NewConn(w, c, c)
    /\ UNCHANGED <<engVars, gateVars, qps, widx, pool>>

\* AcceptTCP fails, because the listener was closed or for want of resources.
AcceptFail(w) ==
    /\ ListenMode /\ wpc[w] = "next"
    /\ wpc' = [wpc EXCEPT ![w] = IF closing THEN "exit" ELSE "fatal"]
    /\ UNCHANGED <<engVars, gateVars, connVars, qps, held, widx, pool>>

\* connidx = <-eng.laddrPool[idx]
TakeAddr(w) ==
    /\ ~ListenMode /\ wpc[w] = "next" /\ pool[w] # <<>>
    /\ widx' = [widx EXCEPT ![w] = Head(pool[w])]
    /\ pool' = [pool EXCEPT ![w] = Tail(@)]
    /\ wpc' = [wpc EXCEPT ![w] = "dial"]
    /\ UNCHANGED <<engVars, gateVars, connVars, qps, held>>

Dial(w, c) ==
    /\ wpc[w] = "dial"
    /\ NewConn(w, c, widx[w])
    /\ widx' = [widx EXCEPT ![w] = None]
    /\ UNCHANGED <<engVars, gateVars, qps, pool>>

\* "address already in use" and "i/o timeout" make the connector try again with
\* the next address, any other error ends it; the address is not put back.
DialFail(w) ==
    /\ wpc[w] = "dial"
    /\ widx' = [widx EXCEPT ![w] = None]
    /\ \E pc \in {"lock", "fatal"} : wpc' = [wpc EXCEPT ![w] = pc]
    /\ UNCHANGED <<engVars, gateVars, connVars, qps, held, pool>>

\* closing = true under maxLock after a fatal network error.
WorkerFatal(w) ==
    /\ wpc[w] = "fatal" /\ maxLock = None
    /\ closing' = TRUE
    /\ wpc' = [wpc EXCEPT ![w] = "exit"]
    /\ UNCHANGED <<startVars, stopVars, gateVars, connVars, lopen, qps, held, widx, pool>>

\* After the loop: l.Close() (acceptor), Broadcast, wg.Done().
WorkerExit(w) ==
    /\ wpc[w] = "exit"
    /\ lopen' = IF ListenMode THEN lopen \ {Listener(w)} ELSE lopen
    /\ wpc' = Broadcast([wpc EXCEPT ![w] = "done"])
    /\ UNCHANGED <<startVars, stopVars, gateVars, connVars, closing, qps, held, widx, pool>>

(***************************************************************************)
(* serverHandle / clientHandle.                                            *)
(***************************************************************************)
\* A handler step that only moves its program counter.
HandlerGoto(c, from, to) ==
    /\ hpc[c] = from
    /\ hpc' = [hpc EXCEPT ![c] = to]
    /\ UNCHANGED <<engVars, gateVars, workVars, arg, open, pool>>

\* <-eng.workswitch
HandlerGate(c) == switched > 0 /\ HandlerGoto(c, "gate", "loop") /\ UNCHANGED qps

\* for eng.closing == false
HandlerLoop(c) ==
    /\ HandlerGoto(c, "loop", IF closing THEN "close"
                              ELSE IF QPSLimit > 0 /\ ~NoWorkload THEN "qps" ELSE "io")
    /\ UNCHANGED qps

\* <-eng.qpschannel; before Start has made the channel it is nil and the
\* receive never returns.
HandlerQps(c) ==
    IF startpc = "running"
      THEN qps > 0 /\ qps' = qps - 1 /\ HandlerGoto(c, "qps", "io")
      ELSE UNCHANGED qps /\ HandlerGoto(c, "qps", "nilchan")

\* The reads and writes of one round succeed.
HandlerIO(c) == c \in open /\ HandlerGoto(c, "io", "loop") /\ UNCHANGED qps

\* A read or write fails: the socket was closed here ...
HandlerIOClosed(c) == c \notin open /\ HandlerGoto(c, "io", "close") /\ UNCHANGED qps

\* ... or by the peer.
HandlerPeerClosed(c) == c \in open /\ HandlerGoto(c, "io", "close") /\ UNCHANGED qps

\* conn.Close()
HandlerClose(c) ==
    /\ hpc[c] = "close"
    /\ open' = open \ {c}
    /\ hpc' = [hpc EXCEPT ![c] = "dec"]
    /\ UNCHANGED <<engVars, gateVars, workVars, qps, arg, pool>>

AfterReturn == IF NoMap THEN "free" ELSE "delete"

\* atomic.AddInt64(eng.aliveCount, -1)
HandlerDec(c) ==
    /\ hpc[c] = "dec"
    /\ alive' = alive - 1
    /\ hpc' = [hpc EXCEPT ![c] = IF ListenMode THEN AfterReturn ELSE "return"]
    /\ UNCHANGED <<engVars, workVars, maxLock, conns, switched, workloadon, qps, arg, open, pool>>

\* eng.laddrPool[idx] <- connidx, before the map entry is deleted.
HandlerReturnAddr(c) ==
    /\ hpc[c] = "return"
    /\ Len(pool[arg[c].idx]) < PoolCap
    /\ pool' = [pool EXCEPT ![arg[c].idx] = Append(@, arg[c].connidx)]
    /\ hpc' = [hpc EXCEPT ![c] = AfterReturn]
    /\ UNCHANGED <<engVars, gateVars, workVars, qps, arg, open>>

\* Mutant: the entry is left behind.
HandlerDeleteNot(c) == maxLock = None /\ HandlerGoto(c, "delete", "free") /\ UNCHANGED qps

\* delete(eng.conns, connidx) under maxLock.
HandlerDelete(c) ==
    /\ hpc[c] = "delete" /\ maxLock = None
    /\ conns' = [conns EXCEPT ![arg[c].connidx] = None]
    /\ hpc' = [hpc EXCEPT ![c] = "free"]
    /\ UNCHANGED <<engVars, workVars, maxLock, alive, switched, workloadon, qps, arg, open, pool>>

-----------------------------------------------------------------------------
StartStep == StartWorker \/ StartAppend \/ StartGate \/ StartRest

WaitStep == WaitWorkers \/ WaitCloseAll \/ WaitHandlers

\* Worker steps that depend on this process alone.
WorkerStep(w) ==
    \/ WorkerLock(w) \/ WorkerAdmit(w) \/ WorkerHoldOn(w) \/ WorkerSwitch(w)
    \/ WorkerWait(w) \/ WorkerRegister(w) \/ TakeAddr(w) \/ WorkerFatal(w)
    \/ WorkerExit(w)

\* Worker steps whose outcome the network decides.
WorkerNet(w) ==
    \/ \E c \in Conn : Accept(w, c) \/ Dial(w, c)
    \/ AcceptFail(w) \/ DialFail(w)

\* Handler steps that depend on this process alone.
HandlerStep(c) ==
    \/ HandlerGate(c) \/ HandlerLoop(c) \/ HandlerQps(c) \/ HandlerIOClosed(c)
    \/ HandlerClose(c) \/ HandlerDec(c) \/ HandlerReturnAddr(c) \/ HandlerDelete(c)

Next ==
    /\ ~ForcedExit
    /\ \/ StartStep \/ WaitStep
       \/ SigExit \/ SigNotify \/ SigRepeat
       \/ CloseListeners \/ CloseFlag
       \/ MaxUnlock \/ QpsToken
       \/ \E w \in Worker : WorkerStep(w) \/ WorkerNet(w)
       \/ \E c \in Conn : HandlerStep(c) \/ HandlerIO(c) \/ HandlerPeerClosed(c)

Spec == Init /\ [][Next]_vars

\* Goroutines keep running until the process is killed: every one of them that
\* can take a step of its own takes one.  The -d timer fires, a dial returns
\* within NET_CONNECT_TIMEOUT, an accept on a closed listener returns.  With a
\* work load the peer, the same program in the other mode, keeps the traffic
\* up; with -N it may stay silent for ever.  Nobody need connect to a server.
Fairness ==
    /\ WF_vars(~ForcedExit /\ StartStep)
    /\ WF_vars(~ForcedExit /\ WaitStep)
    /\ WF_vars(~ForcedExit /\ SigNotify)
    /\ WF_vars(~ForcedExit /\ (CloseListeners \/ CloseFlag))
    /\ WF_vars(~ForcedExit /\ MaxUnlock)
    /\ WF_vars(~ForcedExit /\ QpsToken)
    /\ \A w \in Worker :
          /\ WF_vars(~ForcedExit /\ WorkerStep(w))
          /\ WF_vars(~ForcedExit /\ Listener(w) \notin lopen /\ AcceptFail(w))
          /\ WF_vars(~ForcedExit /\ (DialFail(w) \/ \E c \in Conn : Dial(w, c)))
    /\ \A c \in Conn :
          /\ WF_vars(~ForcedExit /\ HandlerStep(c))
          /\ WF_vars(~ForcedExit /\ ~NoWorkload /\ HandlerIO(c))

FairSpec == Spec /\ Fairness

(***************************************************************************)
(* Safety.                                                                 *)
(***************************************************************************)
\* The limit of -c: the connections being served are never more than
\* maxConcurrent, although the check and the increment are two steps and
\* handlers decrement aliveCount without the lock.
GateHolds == MaxConcurrent > 0 => Cardinality(Running) <= MaxConcurrent

\* eng.workswitch is closed at most once (a second close panics), although
\* Start, the workers and workerWait all close it.
SwitchedOnce == switched <= 1

\* With the map on, workerWait can find and close every connection that is
\* being served: it is in eng.conns under its index.
ConnsTracked == ~NoMap => \A c \in Running : conns[arg[c].connidx] = c

\* What workerWait finds in eng.conns is a connection whose handler has not
\* returned, and under the index of a connection that is being served nobody
\* else, although a client's address, which is the index, is in use again
\* before the entry is deleted.
EntriesCurrent ==
    /\ \A i \in Index : conns[i] # None =>
          /\ conns[i] \in Running \/ hpc[conns[i]] \in {"return", "delete"}
          /\ arg[conns[i]].connidx = i
    /\ \A c \in Running : conns[arg[c].connidx] \in {c, None}

\* When Wait returns no handler is between its start and its decrement of
\* aliveCount, every socket a handler had is closed, and the work switch is
\* open, so that no handler hangs in its gate.
CleanShutdown ==
    Destroyed =>
        /\ Running = {} /\ switched > 0
        /\ open \subseteq {c \in Conn : hpc[c] = "held"}

\* Two connections of a client never share a local address.
AddressesDistinct ==
    ~ListenMode =>
        \A c, d \in {c \in Conn : hpc[c] = "held"} \cup Running :
            c # d => arg[c].connidx # arg[d].connidx

\* "+cpus for never block": whoever returns an address, a handler or a
\* connector that holds maxLock, finds room in the channel.
PoolNeverBlocks ==
    ~ListenMode =>
        /\ \A c \in Conn : hpc[c] = "return" => Len(pool[arg[c].idx]) < PoolCap
        /\ \A w \in Worker : held[w] # None => Len(pool[w]) < PoolCap

\* The inductive invariant behind GateHolds, SwitchedOnce, CleanShutdown and
\* the refinement, in named parts.
\* maxLock is held exactly by the worker inside the critical section.
LockInv == \A w \in Worker : wpc[w] \in Critical <=> maxLock = w

\* A worker that Start has not launched does nothing.
StartInv == \A w \in Worker : w >= launched => wpc[w] = "idle"

\* A worker's new connection is its own and not yet served.
HeldInv ==
    /\ \A w \in Worker : held[w] # None =>
          hpc[held[w]] = "held" /\ wpc[w] \in {"lock", "chkmax", "register", "exit", "done"}
    /\ \A v, w \in Worker : held[v] = held[w] /\ held[v] # None => v = w

\* A handler's arguments fit the mode of the engine.
ArgInv ==
    /\ \A c \in Conn : hpc[c] # "free" =>
          arg[c].connidx \in Index /\ (ListenMode => arg[c].connidx = c /\ hpc[c] # "return")
    /\ \A w \in Worker : wpc[w] = "dial" => widx[w] \in Addr /\ ~ListenMode

\* aliveCount counts the running handlers, and a worker about to register has
\* room.
AliveInv ==
    /\ alive = Cardinality(Running)
    /\ MaxConcurrent > 0 =>
          /\ alive <= MaxConcurrent
          /\ \A w \in Worker : wpc[w] = "register" => alive < MaxConcurrent

\* Who may still close the work switch, and when it is closed.
SwitchInv ==
    /\ switched <= 1
    /\ \A w \in Worker : wpc[w] = "switch" => switched = 0 /\ MaxConcurrent > 0 /\ workloadon
    /\ (MaxConcurrent = 0 /\ startpc \in {"spawn", "append"}) => switched = 0
    /\ (MaxConcurrent > 0 /\ ~workloadon /\ waitpc \in {"wg", "closeall"}) => switched = 0
    /\ waitpc \in {"poll", "done"} => switched = 1

\* workerWait passes wg.Wait only after every worker; closed means nobody left.
WaitInv ==
    /\ waitpc # "wg" => startpc = "running" /\ \A w \in Worker : wpc[w] = "done"
    /\ waitpc = "done" => alive = 0

\* An open socket has a worker or a handler that will close it, unless the
\* worker left with it.
OpenInv == \A c \in open : hpc[c] \in {"held", "gate", "loop", "qps", "nilchan", "io", "close"}

\* Server side: the map entry of a connection outlives its handler's service.
TrackInv == (ListenMode /\ ~NoMap) => \A c \in Running : conns[c] = c

IndInv ==
    /\ TypeOK /\ StartInv /\ LockInv /\ HeldInv /\ ArgInv /\ AliveInv
    /\ SwitchInv /\ WaitInv /\ OpenInv /\ TrackInv

\* What the engine promises: a counting gate that is open, then drains, then
\* is closed for good (refinement of ConnGate).
phase == IF waitpc = "wg" THEN "open"
         ELSE IF waitpc = "done" THEN "closed" ELSE "draining"

Gate == INSTANCE ConnGate WITH limit <- MaxConcurrent, inside <- alive, phase <- phase
GateSpec == Gate!Spec

(***************************************************************************)
(* Liveness.                                                               *)
(***************************************************************************)
\* Once closing is set, by a signal, an error, -E or -d, Wait returns.
ShutdownCompletes == closing ~> (Destroyed \/ ForcedExit)
============================================================================
