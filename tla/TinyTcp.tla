------------------------------ MODULE TinyTcp -------------------------------
(***************************************************************************)
(* tinytcpserver: main starts one acceptor on the listener it has opened   *)
(* and one per CPU that opens the same address again (which works only     *)
(* where the port may be shared), and waits for a WaitGroup that counts    *)
(* acceptors and readers.  The first acceptor is not added to it.          *)
(*                                                                         *)
(* totalmutex guards totalcount and the start of a reader; each critical   *)
(* section is one action.  The goroutine that prints totalcount is left    *)
(* out.                                                                    *)
(***************************************************************************)
EXTENDS Integers, FiniteSets

CONSTANTS
    NAcceptor,      \* acceptors after the first
    Sock            \* connections at one time

VARIABLES
    tmpc,           \* main: start, wait, returned, panic
    started,        \* acceptors started
    apc,            \* acceptor: none, listen, accept, ended
    rpc,            \* readconn: none, read, done, close
    wg,             \* the counter of wg
    totalcount

vars == <<tmpc, started, apc, rpc, wg, totalcount>>

Init ==
    /\ tmpc = "start" /\ started = 0 /\ wg = 0 /\ totalcount = 0
    /\ apc = [i \in 0 .. NAcceptor |-> "none"] /\ rpc = [c \in Sock |-> "none"]

Runs == tmpc \in {"start", "wait"}

\* wg.Done() panics when the counter becomes negative.
Done ==
    IF wg = 0 THEN tmpc' = "panic" /\ UNCHANGED wg
    ELSE wg' = wg - 1 /\ UNCHANGED tmpc

\* The first acceptor gets the listener and is not counted.
StartAcceptor ==
    /\ tmpc = "start" /\ started' = started + 1
    /\ IF started = 0
         THEN apc' = [apc EXCEPT ![0] = "accept"] /\ UNCHANGED wg
         ELSE apc' = [apc EXCEPT ![started] = "listen"] /\ wg' = wg + 1
    /\ tmpc' = IF started = NAcceptor THEN "wait" ELSE "start"
    /\ UNCHANGED <<rpc, totalcount>>

WaitReturns ==
    /\ tmpc = "wait" /\ wg = 0 /\ tmpc' = "returned"
    /\ UNCHANGED <<started, apc, rpc, wg, totalcount>>

Listen(i) ==
    /\ Runs /\ apc[i] = "listen" /\ apc' = [apc EXCEPT ![i] = "accept"]
    /\ UNCHANGED <<tmpc, started, rpc, wg, totalcount>>

\* ListenTCP or AcceptTCP fails, and the deferred wg.Done() runs.
AcceptorEnds(i) ==
    /\ Runs /\ apc[i] \in {"listen", "accept"} /\ apc' = [apc EXCEPT ![i] = "ended"] /\ Done
    /\ UNCHANGED <<started, rpc, totalcount>>

\* Mutant: the reader is started without wg.Add.
AcceptUncounted(i, c) ==
    /\ Runs /\ apc[i] = "accept" /\ rpc[c] = "none"
    /\ rpc' = [rpc EXCEPT ![c] = "read"] /\ totalcount' = totalcount + 1
    /\ UNCHANGED <<tmpc, started, apc, wg>>

Accept(i, c) ==
    /\ Runs /\ apc[i] = "accept" /\ rpc[c] = "none"
    /\ wg' = wg + 1 /\ rpc' = [rpc EXCEPT ![c] = "read"] /\ totalcount' = totalcount + 1
    /\ UNCHANGED <<tmpc, started, apc>>

\* Read fails: the peer has ended.
ReadEnds(c) ==
    /\ Runs /\ rpc[c] = "read" /\ rpc' = [rpc EXCEPT ![c] = "done"] /\ totalcount' = totalcount - 1
    /\ UNCHANGED <<tmpc, started, apc, wg>>

ReaderDone(c) ==
    /\ Runs /\ rpc[c] = "done" /\ rpc' = [rpc EXCEPT ![c] = "close"] /\ Done
    /\ UNCHANGED <<started, apc, totalcount>>

CloseConn(c) ==
    /\ Runs /\ rpc[c] = "close" /\ rpc' = [rpc EXCEPT ![c] = "none"]
    /\ UNCHANGED <<tmpc, started, apc, wg, totalcount>>

-----------------------------------------------------------------------------
Next ==
    \/ StartAcceptor \/ WaitReturns
    \/ \E i \in 0 .. NAcceptor : Listen(i) \/ AcceptorEnds(i) \/ \E c \in Sock : Accept(i, c)
    \/ \E c \in Sock : ReadEnds(c) \/ ReaderDone(c) \/ CloseConn(c)

Spec == Init /\ [][Next]_vars

\* Acceptors and readers that have not called wg.Done().
Busy == {i \in DOMAIN apc : apc[i] \in {"listen", "accept"}} \X {"acceptor"}
        \cup {c \in Sock : rpc[c] \in {"read", "done"}} \X {"reader"}

\* The counter is one short, and by no more: main returns when at most one
\* acceptor or reader is left (it is cut off), and Done finds a counter of 0
\* and panics only when the last one has ended and main has not seen it.
OneLeftBehind ==
    /\ tmpc = "returned" => Cardinality(Busy) <= 1
    /\ tmpc = "panic" => Busy = {} /\ totalcount = 0
=============================================================================
