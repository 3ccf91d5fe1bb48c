--------------------------- MODULE QpsHttpServer ---------------------------
(***************************************************************************)
(* The connection accounting of qps-http-app-server.go.  One goroutine     *)
(* accepts, one handler serves each connection, and every change of state  *)
(* of a handler is sent as an event through one bounded channel to the     *)
(* counter goroutine, which lowers the connection counter for each         *)
(* HttpRequestStateDestroyed and announces TOTAL_CONN_CLOSED through the   *)
(* same channel.  Connections above the limit are answered with 503.       *)
(*                                                                         *)
(* The counter treats HttpRequestStateDestroyed alone in a special way, so *)
(* an event is either "destroyed" or "state".  Between two decisions a     *)
(* handler sends a fixed number of events: todo counts those it has still  *)
(* to send, and a handler decides only with todo = 0.  What the request    *)
(* reader finds in the bytes is a choice here; module HttpRead has the     *)
(* bytes.  The statistics that are only printed are left out.              *)
(***************************************************************************)
EXTENDS Integers, Sequences, FiniteSets

CONSTANTS
    None,
    Conn,           \* connections that may exist at the same time (a bound)
    MaxConn,        \* srv_cfg_max_connections
    Slack,          \* 10240, the other slots of the event channel
    Modes,          \* the values of srv_cfg_mode
    ReadDelay,      \* srv_cfg_read_delay > 0
    WriteDelay,     \* srv_cfg_write_delay > 0
    FirstTries,     \* srv_cfg_net_timeout, reads of the first request
    KeepaliveTries, \* srv_cfg_net_keepalive_timeout, reads of a later one
    Fragments,      \* requests may arrive cut within a header line
    MaxTicks        \* ticks of the one-second timer (a bound)

ASSUME ServerAssumption ==
    /\ MaxConn \in Nat \ {0} /\ Slack \in Nat /\ MaxTicks \in Nat
    /\ FirstTries \in Nat \ {0} /\ KeepaliveTries \in Nat \ {0}
    /\ Modes \subseteq {"short", "keepalive", "readlonly"}
    /\ {ReadDelay, WriteDelay, Fragments} \subseteq BOOLEAN
    /\ IsFiniteSet(Conn) /\ None \notin Conn

VARIABLES
    mode,       \* srv_cfg_mode, fixed by the command line
    events,     \* mainEventNotifyChannel
    ticks,      \* ticks sent by the timer goroutine
    count,      \* srv_cfg_var_conn_counter
    counterpc,  \* counter goroutine: range, dec, closed
    accpc,      \* accept goroutine: accept, init, add, check, quit, done
    cur,        \* the connection the accept goroutine has in hand, or None
    mainpc,     \* main: loop, cleanup, done
    hpc,        \* what the handler of each connection decides next
    todo,       \* events it sends before
    tries,      \* io_try_count of httpReadRequest
    busy,       \* its initStatusCode is 503
    rejected,   \* httpReadRequest has answered 400 or 405 itself
    again,      \* requestCount > 1
    keepalive,  \* httpConnectionInfo.keepalive
    open        \* connections whose socket is not closed

chanVars == <<events, ticks>>
acctVars == <<count, counterpc>>
acceptVars == <<accpc, cur, mainpc>>
flagVars == <<tries, busy, rejected, again, keepalive>>
connVars == <<hpc, todo, flagVars, open>>
vars == <<mode, chanVars, acctVars, acceptVars, connVars>>

Cap == MaxConn + Slack
Room == Len(events) < Cap

HandlerPC == {"free", "read", "parse", "lastparse", "spin", "answer", "header",
              "body", "finish", "drain", "leave", "close", "destroy"}

TypeOK ==
    /\ mode \in Modes
    /\ events \in Seq({"state", "destroyed"}) /\ ticks \in 0 .. MaxTicks
    /\ count \in Int
    /\ counterpc \in {"range", "dec", "closed"}
    /\ accpc \in {"accept", "init", "add", "check", "quit", "done"}
    /\ cur \in Conn \cup {None}
    /\ mainpc \in {"loop", "cleanup", "done"}
    /\ hpc \in [Conn -> HandlerPC]
    /\ todo \in [Conn -> 0 .. 4]
    /\ tries \in [Conn -> Nat]
    /\ busy \in [Conn -> BOOLEAN] /\ rejected \in [Conn -> BOOLEAN]
    /\ again \in [Conn -> BOOLEAN] /\ keepalive \in [Conn -> BOOLEAN]
    /\ open \subseteq Conn

Init ==
    /\ mode \in Modes
    /\ events = <<>> /\ ticks = 0 /\ count = 0 /\ counterpc = "range"
    /\ accpc = "accept" /\ cur = None /\ mainpc = "loop"
    /\ hpc = [c \in Conn |-> "free"] /\ todo = [c \in Conn |-> 0]
    /\ tries = [c \in Conn |-> 0]
    /\ busy = [c \in Conn |-> FALSE] /\ rejected = busy
    /\ again = busy /\ keepalive = busy /\ open = {}

(***************************************************************************)
(* The timer, the counter, the accept loop and main.                       *)
(***************************************************************************)
TimerTick ==
    /\ ticks < MaxTicks /\ Room
    /\ events' = Append(events, "state") /\ ticks' = ticks + 1
    /\ UNCHANGED <<acctVars, acceptVars, connVars>>

CounterReceive ==
    /\ counterpc = "range" /\ events # <<>>
    /\ events' = Tail(events)
    /\ counterpc' = IF Head(events) = "destroyed" THEN "dec" ELSE "range"
    /\ UNCHANGED <<ticks, count, acceptVars, connVars>>

CounterDec ==
    /\ counterpc = "dec"
    /\ count' = count - 1 /\ counterpc' = "closed"
    /\ UNCHANGED <<chanVars, acceptVars, connVars>>

\* The counter sends TOTAL_CONN_CLOSED into the channel that it alone empties.
CounterClosed ==
    /\ counterpc = "closed" /\ Room
    /\ events' = Append(events, "state") /\ counterpc' = "range"
    /\ UNCHANGED <<ticks, count, acceptVars, connVars>>

Accept(c) ==
    /\ accpc = "accept" /\ hpc[c] = "free" /\ c \notin open
    /\ accpc' = "init" /\ cur' = c /\ open' = open \cup {c}
    /\ UNCHANGED <<chanVars, acctVars, mainpc, hpc, todo, flagVars>>

\* TOTAL_CONN_INIT
AcceptInit ==
    /\ accpc = "init" /\ Room
    /\ events' = Append(events, "state") /\ accpc' = "add"
    /\ UNCHANGED <<ticks, acctVars, cur, mainpc, connVars>>

AcceptAdd ==
    /\ accpc = "add"
    /\ count' = count + 1 /\ accpc' = "check"
    /\ UNCHANGED <<chanVars, counterpc, cur, mainpc, connVars>>

\* Events of a new request until its first read: httpConnectionInit and
\* httpReadRequest set ReadInit, then ReadWaiting with -R, then ReadHeader.
Opening == IF ReadDelay THEN 4 ELSE 3

\* Start the handler of c, busy or not.
Spawn(c, isBusy) ==
    /\ hpc' = [hpc EXCEPT ![c] = "read"] /\ todo' = [todo EXCEPT ![c] = Opening]
    /\ busy' = [busy EXCEPT ![c] = isBusy]
    /\ tries' = [tries EXCEPT ![c] = 0]
    /\ rejected' = [rejected EXCEPT ![c] = FALSE]
    /\ again' = [again EXCEPT ![c] = FALSE]
    /\ keepalive' = [keepalive EXCEPT ![c] = FALSE]

\* Mutant: one connection too many is served.
AcceptCheckLate ==
    /\ accpc = "check"
    /\ Spawn(cur, count > MaxConn + 1)
    /\ accpc' = "accept" /\ cur' = None
    /\ UNCHANGED <<chanVars, acctVars, mainpc, open>>

\* The counter is read again, after the atomic addition.
AcceptCheck ==
    /\ accpc = "check"
    /\ Spawn(cur, count > MaxConn)
    /\ accpc' = "accept" /\ cur' = None
    /\ UNCHANGED <<chanVars, acctVars, mainpc, open>>

\* Accept fails; the goroutine offers to quit until main takes it up.
AcceptError ==
    /\ accpc = "accept" /\ accpc' = "quit"
    /\ UNCHANGED <<chanVars, acctVars, cur, mainpc, connVars>>

\* Mutant: the flag is cleared without leaving the loop.
MainPollBlind ==
    /\ mainpc = "loop" /\ accpc = "quit"
    /\ accpc' = "done" /\ mainpc' = "loop"
    /\ UNCHANGED <<chanVars, acctVars, cur, connVars>>

\* main looks at mainServerQuitChannel every five seconds.
MainPoll ==
    /\ mainpc = "loop" /\ accpc = "quit"
    /\ accpc' = "done" /\ mainpc' = "cleanup"
    /\ UNCHANGED <<chanVars, acctVars, cur, connVars>>

\* main returns and the process ends.
MainReturn ==
    /\ mainpc = "cleanup" /\ mainpc' = "done"
    /\ UNCHANGED <<chanVars, acctVars, accpc, cur, connVars>>

(***************************************************************************)
(* httpConnectionHandler.                                                  *)
(***************************************************************************)
\* httpConnectionSetState and the other sends: wait for room.
HandlerSend(c) ==
    /\ todo[c] > 0 /\ Room
    /\ events' = Append(events, "state") /\ todo' = [todo EXCEPT ![c] = @ - 1]
    /\ UNCHANGED <<ticks, acctVars, acceptVars, hpc, flagVars, open>>

\* The handler decides: n events to send, then on to pc.
Decide(c, from, pc, n) ==
    /\ hpc[c] = from /\ todo[c] = 0
    /\ hpc' = [hpc EXCEPT ![c] = pc] /\ todo' = [todo EXCEPT ![c] = n]
    /\ UNCHANGED <<chanVars, acctVars, acceptVars, open>>

Tries(c) == IF again[c] THEN KeepaliveTries ELSE FirstTries

\* One httpReadRawStream: data; a time-out or an error, which also stops the
\* loop after what has arrived is looked at; or with too few bytes the end.
HandlerRead(c) ==
    /\ \/ Decide(c, "read", "parse", 2)
       \/ Decide(c, "read", "lastparse", 2)
       \/ Decide(c, "read", "close", 2)
    /\ tries' = [tries EXCEPT ![c] = @ + 1]
    /\ UNCHANGED <<busy, rejected, again, keepalive>>

\* The header has ended: TOTAL_CONN_REQUEST.
HandlerParsed(c) ==
    /\ \E from \in {"parse", "lastparse"} : Decide(c, from, "answer", 1)
    /\ UNCHANGED flagVars

\* 400 or 405 is sent by httpReadRequest.
HandlerReject(c) ==
    /\ \E from \in {"parse", "lastparse"} : Decide(c, from, "header", 0)
    /\ rejected' = [rejected EXCEPT ![c] = TRUE]
    /\ UNCHANGED <<tries, busy, again, keepalive>>

\* Mutant: reads on and on.
HandlerMoreForever(c) ==
    /\ Decide(c, "parse", "read", 0)
    /\ tries' = [tries EXCEPT ![c] = 0]
    /\ UNCHANGED <<busy, rejected, again, keepalive>>

\* Not complete: read again, or give up after an error or enough tries.
HandlerMore(c) ==
    /\ IF tries[c] < Tries(c) THEN \/ Decide(c, "parse", "read", 0)
                                   \/ Decide(c, "lastparse", "close", 0)
       ELSE \E from \in {"parse", "lastparse"} : Decide(c, from, "close", 0)
    /\ UNCHANGED flagVars

\* A header line without its end: the search for it never advances.
HandlerSpin(c) ==
    /\ Fragments
    /\ \E from \in {"parse", "lastparse"} : Decide(c, from, "spin", 0)
    /\ UNCHANGED flagVars

\* The request is complete.  TOTAL_CONN_KEEPALIVE for a later one.
HandlerAnswer(c) ==
    /\ Decide(c, "answer", IF mode = "readlonly" /\ ~busy[c] THEN "drain" ELSE "header",
              IF again[c] THEN 1 ELSE 0)
    /\ UNCHANGED flagVars

\* httpSendResponse: keepalive only for a status below 400, and only by the
\* mode; the header is written (and the body announced) or fails.
HandlerHeader(c) ==
    /\ mode # "readlonly"
    /\ \/ Decide(c, "header", "body", IF WriteDelay THEN 4 ELSE 3)
       \/ Decide(c, "header", "finish", 2)
    /\ keepalive' = [keepalive EXCEPT ![c] = mode = "keepalive" /\ ~busy[c] /\ ~rejected[c]]
    /\ UNCHANGED <<tries, busy, rejected, again>>

\* ... or nothing is written.
HandlerNoResponse(c) ==
    /\ mode = "readlonly" /\ Decide(c, "header", "finish", 0)
    /\ UNCHANGED flagVars

\* The body: WriteDone, WriteBodyDone, TOTAL_CONN_RESPONSE; or a failure.
HandlerBody(c) ==
    /\ Decide(c, "body", "finish", 3) \/ Decide(c, "body", "finish", 2)
    /\ UNCHANGED flagVars

\* Close, or read the next request of a connection that is kept alive.
HandlerFinish(c) ==
    IF keepalive[c] /\ ~busy[c] /\ ~rejected[c]
      THEN /\ Decide(c, "finish", "read", Opening)
           /\ again' = [again EXCEPT ![c] = TRUE]
           /\ tries' = [tries EXCEPT ![c] = 0]
           /\ keepalive' = [keepalive EXCEPT ![c] = FALSE]
           /\ UNCHANGED <<busy, rejected>>
      ELSE Decide(c, "finish", "close", 0) /\ UNCHANGED flagVars

\* Mode readlonly: read until an error, then return at once.
HandlerDrain(c) ==
    /\ Decide(c, "drain", "drain", 1) \/ Decide(c, "drain", "leave", 2)
    /\ UNCHANGED flagVars

HandlerLeave(c) == Decide(c, "leave", "free", 0) /\ UNCHANGED flagVars

\* conn.Close() of httpConnectionKeepalive
HandlerClose(c) ==
    /\ hpc[c] = "close" /\ todo[c] = 0
    /\ open' = open \ {c} /\ hpc' = [hpc EXCEPT ![c] = "destroy"]
    /\ UNCHANGED <<chanVars, acctVars, acceptVars, todo, flagVars>>

\* Mutant: a handler returns without a word.
HandlerDestroySilent(c) == Decide(c, "destroy", "free", 0) /\ UNCHANGED flagVars

\* HttpRequestStateDestroyed, and the handler returns.
HandlerDestroy(c) ==
    /\ hpc[c] = "destroy" /\ Room
    /\ events' = Append(events, "destroyed")
    /\ hpc' = [hpc EXCEPT ![c] = "free"]
    /\ UNCHANGED <<ticks, acctVars, acceptVars, todo, flagVars, open>>

-----------------------------------------------------------------------------
CounterStep == CounterReceive \/ CounterDec \/ CounterClosed

AcceptStep == AcceptInit \/ AcceptAdd \/ AcceptCheck

HandlerStep(c) ==
    \/ HandlerSend(c) \/ HandlerRead(c) \/ HandlerParsed(c) \/ HandlerReject(c)
    \/ HandlerMore(c) \/ HandlerSpin(c) \/ HandlerAnswer(c) \/ HandlerHeader(c)
    \/ HandlerNoResponse(c) \/ HandlerBody(c) \/ HandlerFinish(c) \/ HandlerDrain(c)
    \/ HandlerLeave(c) \/ HandlerClose(c) \/ HandlerDestroy(c)

\* The process has not ended; the mode never changes.
Running == mainpc # "done" /\ UNCHANGED mode

Next ==
    /\ Running
    /\ \/ TimerTick \/ CounterStep \/ AcceptStep \/ AcceptError
       \/ MainPoll \/ MainReturn
       \/ \E c \in Conn : Accept(c) \/ HandlerStep(c)

Spec == Init /\ [][Next]_vars

\* Every goroutine runs; reads and writes have deadlines; the runtime serves
\* the senders that wait for a channel in the order they came, so nobody who
\* waits for room is passed over for ever.  Nobody need connect.
Fairness ==
    /\ WF_vars(Running /\ CounterStep)
    /\ WF_vars(Running /\ (MainPoll \/ MainReturn))
    /\ SF_vars(Running /\ AcceptStep)
    /\ \A c \in Conn : SF_vars(Running /\ HandlerStep(c))

FairSpec == Spec /\ Fairness

(***************************************************************************)
(* Safety.                                                                 *)
(***************************************************************************)
Active == {c \in Conn : hpc[c] # "free"}
Served == {c \in Active : ~busy[c]}
\* Sockets that no goroutine will close.
Leaked == {c \in open : hpc[c] = "free" /\ c # cur}
\* Announcements of a closed connection on their way to the counter.
GoneIn(s) == {i \in DOMAIN s : s[i] = "destroyed"}
Gone == GoneIn(events)
\* Connections that the counter has still to take into account.
Owed == Active \cup Leaked
One(b) == IF b THEN 1 ELSE 0

\* -c: never more than srv_cfg_max_connections connections are served with
\* anything but 503, although the counter is lowered late, by another
\* goroutine, and read apart from its increment.
ServedWithinMax == Cardinality(Served) <= MaxConn

\* "connections running" counts the connections that are not closed, and
\* those whose close is still being announced; not so in mode readlonly, whose
\* handlers return without a close.
CounterExact ==
    mode # "readlonly" => count = Cardinality(Active) + Cardinality(Gone)
            + One(accpc = "check") + One(counterpc = "dec")

\* But for mode readlonly: a handler that has returned has closed its socket.
NoneLeaked == mode # "readlonly" => Leaked = {}

\* The inductive invariant behind the limit and the exact counter.
\* CounterExact with what mode readlonly leaves behind.
CountInv ==
    count = Cardinality(Owed) + Cardinality(Gone)
            + One(accpc = "check") + One(counterpc = "dec")

\* The connection in hand is open and has no handler yet.
CurInv ==
    /\ (accpc \in {"init", "add", "check"}) <=> (cur # None)
    /\ cur # None => cur \in open /\ hpc[cur] = "free"

\* A handler's socket is open until it is about to announce the close.
OpenInv == \A c \in Conn : hpc[c] # "free" => (c \in open <=> hpc[c] # "destroy")

\* Only mode readlonly has handlers that return without a close.
LeakInv ==
    mode # "readlonly" =>
        Leaked = {} /\ \A c \in Conn : hpc[c] \notin {"drain", "leave"}

IndInv == TypeOK /\ CurInv /\ OpenInv /\ LeakInv /\ CountInv /\ ServedWithinMax

\* The server is a counting gate for the connections it serves.
Gate == INSTANCE ConnGate WITH limit <- MaxConn, inside <- Cardinality(Served), phase <- "open"
GateSpec == Gate!Spec

(***************************************************************************)
(* Liveness.                                                               *)
(***************************************************************************)
\* The counter waits for room in the channel that it alone empties.
Stuck == counterpc = "closed" /\ ~Room

\* In mode short every connection is closed in the end, unless the counter
\* has blocked itself or its own handler is in the endless search for the end
\* of a header line that arrived in pieces.  A handler in that search does not
\* keep the other connections from ending.
EndsUnlessStuck ==
    \A c \in Conn :
        (mode = "short" /\ hpc[c] # "free")
            ~> (hpc[c] \in {"free", "spin"} \/ Stuck \/ mainpc = "done")

\* "reach srv_cfg_max_connections, send busy message to client end close."
BusyAnswered == \A c \in Conn : (hpc[c] # "free" /\ busy[c]) ~> (hpc[c] = "free" \/ mainpc = "done")

\* After an accept error the server ends, even when the counter is stuck.
QuitCompletes == (accpc = "quit") ~> (mainpc = "done")
============================================================================
