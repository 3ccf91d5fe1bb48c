----------------------------- MODULE EpollProxy -----------------------------
(***************************************************************************)
(* Proxy of netsplice-echo-proxy/dada-funny/proxy-main: no goroutine per   *)
(* connection; the one event loop splices every ready socket into its own  *)
(* pipe (MoveIn) and the pipe of its partner into it (MoveOut).  epoll is  *)
(* edge triggered, so the loop remembers in canRead and canWrite which     *)
(* sockets it may try again on an event of the partner.  Transfer adds the *)
(* two sockets of a pair and links them, all under the mutex that getConn  *)
(* takes as well.                                                          *)
(*                                                                         *)
(* Data is counted, not kept, as pipes and sockets are FIFO.  One pair is  *)
(* modelled, and a closed descriptor number is assumed to stay closed.     *)
(* That leaves out what the code is exposed to when a number is used       *)
(* again: delConn does not unlink the partner, which may then splice from  *)
(* the pipe, or into the socket, of another connection.                    *)
(***************************************************************************)
EXTENDS Integers, FiniteSets

CONSTANTS
    Bytes,      \* bytes of a message
    Rounds,     \* messages of a client whose partner echoes (a bound)
    SockBuf,    \* bytes a socket buffers for its peer
    PipeBuf,    \* pipeBuf
    Pages,      \* pages of a pipe, each with a byte or more
    MaxFaults   \* peers that end and calls that fail, when nothing is echoed (a bound)

FD == {1, 2}
Other(f) == 3 - f

VARIABLES
    tpc,            \* Transfer: lock, new1, new2, done, failed
    conns,          \* p.conns
    inBuf, canRead, canWrite,   \* of the proxyConns
    pipe,           \* bytes in the pipe of a socket
    lpc,            \* event loop: idle, in, inPeer, out, outPeer, ended, crashed
    cur, evs,       \* conn and evs of the event in hand
    batch,          \* events fetched and not handled
    armed,          \* epoll's ready list
    tosend, rbuf, out, gone, \* peer and kernel: to be sent, to be read, on the way out
    echo, rounds,   \* whether peer 2 sends back what it gets, and messages to come
    faults          \* how many have happened

netVars == <<tosend, rbuf, out, gone, echo, rounds, faults>>
flagVars == <<canRead, canWrite>>
loopVars == <<lpc, cur, evs, batch>>
vars == <<tpc, conns, inBuf, flagVars, pipe, loopVars, armed, netVars>>

Init ==
    /\ tpc = "lock" /\ conns = {} /\ armed = {}
    /\ inBuf = [f \in FD |-> 0] /\ pipe = [f \in FD |-> 0]
    /\ canRead = [f \in FD |-> FALSE] /\ canWrite = [f \in FD |-> FALSE]
    /\ lpc = "idle" /\ cur = 1 /\ evs = {} /\ batch = [f \in FD |-> {}]
    /\ echo \in BOOLEAN /\ rounds = IF echo THEN Rounds ELSE 0
    /\ tosend = [f \in FD |-> IF echo THEN 0 ELSE IF f = 1 THEN Bytes ELSE 1] /\ rbuf = [f \in FD |-> 0]
    /\ out = [f \in FD |-> 0] /\ gone = [f \in FD |-> "no"] /\ faults = IF echo THEN MaxFaults ELSE 0

Running == lpc # "crashed"
Fault == faults < MaxFaults /\ faults' = faults + 1

(***************************************************************************)
(* The peers and the kernel.  A socket enters the ready list when data, an *)
(* end or room in a full buffer arrives; what is ready is looked up when   *)
(* the loop fetches.                                                       *)
(***************************************************************************)
Arm(f) == armed' = IF f \in conns THEN armed \cup {f} ELSE armed

PeerSend(f) ==
    /\ Running /\ tosend[f] > 0 /\ gone[f] = "no"
    /\ tosend' = [tosend EXCEPT ![f] = @ - 1] /\ rbuf' = [rbuf EXCEPT ![f] = @ + 1]
    /\ Arm(f)
    /\ UNCHANGED <<tpc, conns, inBuf, flagVars, pipe, loopVars, out, gone, echo, rounds, faults>>

PeerReceive(f) ==
    /\ Running /\ out[f] > 0 /\ gone[f] # "reset"
    /\ out' = [out EXCEPT ![f] = @ - 1]
    /\ tosend' = [tosend EXCEPT ![f] = IF echo /\ f = 2 THEN @ + 1 ELSE @]
    /\ IF out[f] = SockBuf THEN Arm(f) ELSE UNCHANGED armed
    /\ UNCHANGED <<tpc, conns, inBuf, flagVars, pipe, loopVars, rbuf, gone, echo, rounds, faults>>

\* Bytes on their way, in either direction.
OnTheWay == \E f \in FD : tosend[f] + rbuf[f] + pipe[f] + out[f] > 0

\* A client of an echoing partner writes its next message when it has read
\* the last one back.
NextMessage ==
    /\ Running /\ rounds > 0 /\ ~OnTheWay
    /\ rounds' = rounds - 1 /\ tosend' = [tosend EXCEPT ![1] = Bytes]
    /\ UNCHANGED <<tpc, conns, inBuf, flagVars, pipe, loopVars, armed, rbuf, out, gone, echo, faults>>

\* The peer ends its stream, or resets the connection.
PeerEnd(f) ==
    /\ Running /\ gone[f] = "no" /\ Fault
    /\ \E how \in {"end", "reset"} :
          /\ gone' = [gone EXCEPT ![f] = how]
          /\ rbuf' = [rbuf EXCEPT ![f] = IF how = "reset" THEN 0 ELSE @]
          /\ out' = [out EXCEPT ![f] = IF how = "reset" THEN 0 ELSE @]
    /\ Arm(f)
    /\ UNCHANGED <<tpc, conns, inBuf, flagVars, pipe, loopVars, tosend, echo, rounds>>

(***************************************************************************)
(* Transfer                                                                *)
(***************************************************************************)
Mutex == tpc \in {"new1", "new2"}       \* Transfer holds p.mutex

Lock ==
    /\ Running /\ tpc = "lock" /\ tpc' = "new1"
    /\ UNCHANGED <<conns, inBuf, flagVars, pipe, loopVars, armed, netVars>>

\* newConn: into epoll, which reports at once what is ready, and into the
\* table; after the second the pair is linked and the mutex released.  When a
\* call fails Transfer returns, whatever it has added before.
NewConn(f, from, to) ==
    /\ Running /\ tpc = from
    /\ \/ /\ conns' = conns \cup {f} /\ armed' = armed \cup {f} /\ tpc' = to /\ UNCHANGED faults
       \/ Fault /\ tpc' = "failed" /\ UNCHANGED <<conns, armed>>
    /\ UNCHANGED <<inBuf, flagVars, pipe, loopVars, tosend, rbuf, out, gone, echo, rounds>>

Linked == tpc = "done"                  \* pc1.other and pc2.other are set

(***************************************************************************)
(* eventLoop                                                               *)
(***************************************************************************)
Ready(f) ==
    (IF rbuf[f] > 0 \/ gone[f] # "no" THEN {"in"} ELSE {})
    \cup (IF out[f] < SockBuf THEN {"out"} ELSE {})
    \cup (IF gone[f] # "no" THEN {"hup"} ELSE {})

EpollWait ==
    /\ lpc = "idle" /\ armed # {} /\ \A f \in FD : batch[f] = {}
    /\ batch' = [f \in FD |-> IF f \in armed THEN Ready(f) ELSE {}] /\ armed' = {}
    /\ UNCHANGED <<tpc, conns, inBuf, flagVars, pipe, lpc, cur, evs, netVars>>

\* A signal to the process interrupts epoll_wait, and the loop ends.
EpollFails ==
    /\ lpc = "idle" /\ Fault /\ \A f \in FD : batch[f] = {}
    /\ lpc' = "ended"
    /\ UNCHANGED <<tpc, conns, inBuf, flagVars, pipe, cur, evs, batch, armed, tosend, rbuf, out, gone, echo, rounds>>

\* The socket leaves epoll and is closed with its pipe.
Close(f) ==
    /\ armed' = armed \ {f}
    /\ pipe' = [pipe EXCEPT ![f] = 0] /\ rbuf' = [rbuf EXCEPT ![f] = 0]

\* delConn, which only a socket in the table is closed by.  The partner stays
\* as it is, and keeps its pointer.
DelConn(f) ==
    /\ conns' = conns \ {f}
    /\ IF f \in conns THEN Close(f) ELSE UNCHANGED <<armed, pipe, rbuf>>

\* The loop turns to the next call for the event of c, or to the next event.
\* MoveIn and MoveOut begin by setting canRead and canWrite; MoveOut looks at
\* the partner, which a pair that was not linked does not have.
Begin(s, c) ==
    /\ lpc' = IF s \in {"out", "inPeer"} /\ ~Linked THEN "crashed" ELSE s
    /\ canRead' = [canRead EXCEPT ![c] = @ \/ s = "in", ![Other(c)] = @ \/ s = "outPeer"]
    /\ canWrite' = [canWrite EXCEPT ![c] = @ \/ s = "out", ![Other(c)] = @ \/ s = "inPeer"]

\* Mutant: the event is handled while Transfer is still at work.
HandleEventUnlocked(f) ==
    /\ lpc = "idle" /\ batch[f] # {}
    /\ batch' = [batch EXCEPT ![f] = {}]
    /\ IF f \in conns /\ "hup" \notin batch[f]
         THEN /\ cur' = f /\ evs' = batch[f]
              /\ Begin(IF "in" \in batch[f] THEN "in" ELSE "out", f)
              /\ UNCHANGED <<conns, armed, pipe, rbuf>>
         ELSE /\ IF f \in conns THEN DelConn(f) ELSE UNCHANGED <<conns, armed, pipe, rbuf>>
              /\ UNCHANGED <<lpc, cur, evs, flagVars>>
    /\ UNCHANGED <<tpc, inBuf, tosend, out, gone, echo, rounds, faults>>

\* Mutant: a hang up is left to splice.
HandleEventNoHup(f) ==
    /\ lpc = "idle" /\ batch[f] # {} /\ ~Mutex
    /\ batch' = [batch EXCEPT ![f] = {}]
    /\ IF f \in conns
         THEN cur' = f /\ evs' = batch[f] /\ Begin(IF "in" \in batch[f] THEN "in" ELSE "out", f)
         ELSE UNCHANGED <<lpc, cur, evs, flagVars>>
    /\ UNCHANGED <<tpc, conns, armed, pipe, rbuf, inBuf, tosend, out, gone, echo, rounds, faults>>

\* getConn waits for the mutex; an unknown socket is skipped, one whose peer
\* has hung up is deleted.
HandleEvent(f) ==
    /\ lpc = "idle" /\ batch[f] # {} /\ ~Mutex
    /\ batch' = [batch EXCEPT ![f] = {}]
    /\ IF f \in conns /\ "hup" \notin batch[f]
         THEN /\ cur' = f /\ evs' = batch[f]
              /\ Begin(IF "in" \in batch[f] THEN "in" ELSE "out", f)
              /\ UNCHANGED <<conns, armed, pipe, rbuf>>
         ELSE /\ IF f \in conns THEN DelConn(f) ELSE UNCHANGED <<conns, armed, pipe, rbuf>>
              /\ UNCHANGED <<lpc, cur, evs, flagVars>>
    /\ UNCHANGED <<tpc, inBuf, tosend, out, gone, echo, rounds, faults>>

\* Mutant: after MoveIn the partner is not written to.
AfterMoveNoWrite ==
    IF lpc = "in" /\ "out" \in evs THEN "out"
    ELSE IF lpc = "out" /\ canRead[Other(cur)] THEN "outPeer"
    ELSE "idle"

\* What follows a call that returned true: the partner is tried when its flag
\* says so, and EPOLLOUT is looked at after EPOLLIN.
AfterMove ==
    IF lpc = "in" /\ canWrite[Other(cur)] THEN "inPeer"
    ELSE IF lpc \in {"in", "inPeer"} /\ "out" \in evs THEN "out"
    ELSE IF lpc = "out" /\ canRead[Other(cur)] THEN "outPeer"
    ELSE "idle"

\* conn.other.canWrite of a socket without a partner is a nil dereference.
Proceed ==
    IF lpc = "in" /\ ~Linked
      THEN lpc' = "crashed" /\ UNCHANGED flagVars
      ELSE Begin(AfterMove, cur)

Moving(c) ==
    \/ lpc \in {"in", "out"} /\ c = cur
    \/ lpc \in {"inPeer", "outPeer"} /\ c = Other(cur)

(***************************************************************************)
(* MoveIn: splice c into its pipe until the pipe is full or EAGAIN.        *)
(***************************************************************************)
Reading(c) == lpc \in {"in", "outPeer"} /\ Moving(c)

SpliceIn(c) ==
    /\ Reading(c) /\ c \in conns /\ gone[c] # "reset"
    /\ \E n \in 1 .. rbuf[c] :
          /\ n <= PipeBuf - inBuf[c]
          /\ rbuf' = [rbuf EXCEPT ![c] = @ - n] /\ pipe' = [pipe EXCEPT ![c] = @ + n]
          /\ inBuf' = [inBuf EXCEPT ![c] = @ + n]
    /\ canRead' = [canRead EXCEPT ![c] = FALSE]
    /\ UNCHANGED <<tpc, conns, canWrite, loopVars, armed, tosend, out, gone, echo, rounds, faults>>

\* The pipe is full, or EAGAIN: nothing to read, or no free page.
MoveInEnds(c) ==
    /\ Reading(c)
    /\ \/ inBuf[c] = PipeBuf
       \/ c \in conns /\ gone[c] # "reset" /\ (pipe[c] >= Pages \/ (rbuf[c] = 0 /\ gone[c] = "no"))
    /\ Proceed
    /\ UNCHANGED <<tpc, conns, inBuf, pipe, cur, evs, batch, armed, netVars>>

\* The end of the stream, or an error: the socket is deleted, if it is still
\* in the table, and the rest of the event is skipped.
MoveInFails(c) ==
    /\ Reading(c) /\ inBuf[c] < PipeBuf
    /\ c \notin conns \/ gone[c] = "reset" \/ (gone[c] = "end" /\ rbuf[c] = 0)
    /\ DelConn(c) /\ lpc' = "idle"
    /\ UNCHANGED <<tpc, inBuf, flagVars, cur, evs, batch, tosend, out, gone, echo, rounds, faults>>

(***************************************************************************)
(* MoveOut: splice the pipe of the partner into c.                         *)
(***************************************************************************)
Writing(c) == lpc \in {"out", "inPeer"} /\ Moving(c)

SpliceOut(c) ==
    LET g == Other(c)
    IN /\ Writing(c) /\ {c, g} \subseteq conns /\ gone[c] # "reset"
       /\ \E n \in 1 .. inBuf[g] :
             /\ n <= SockBuf - out[c]
             /\ out' = [out EXCEPT ![c] = @ + n] /\ pipe' = [pipe EXCEPT ![g] = @ - n]
             /\ inBuf' = [inBuf EXCEPT ![g] = @ - n]
       /\ canWrite' = [canWrite EXCEPT ![c] = FALSE]
       /\ UNCHANGED <<tpc, conns, canRead, loopVars, armed, tosend, rbuf, gone, echo, rounds, faults>>

\* Nothing to write, or EAGAIN: no room in the socket.
MoveOutEnds(c) ==
    /\ Writing(c)
    /\ \/ inBuf[Other(c)] = 0
       \/ {c, Other(c)} \subseteq conns /\ gone[c] # "reset" /\ out[c] = SockBuf
    /\ Proceed
    /\ UNCHANGED <<tpc, conns, inBuf, pipe, cur, evs, batch, armed, netVars>>

\* Also when it is the partner's pipe that has been closed.
MoveOutFails(c) ==
    /\ Writing(c) /\ inBuf[Other(c)] > 0
    /\ ~({c, Other(c)} \subseteq conns) \/ gone[c] = "reset"
    /\ DelConn(c) /\ lpc' = "idle"
    /\ UNCHANGED <<tpc, inBuf, flagVars, cur, evs, batch, tosend, out, gone, echo, rounds, faults>>

-----------------------------------------------------------------------------
Move(c) ==
    \/ SpliceIn(c) \/ MoveInEnds(c) \/ MoveInFails(c)
    \/ SpliceOut(c) \/ MoveOutEnds(c) \/ MoveOutFails(c)

LoopStep == EpollWait \/ \E f \in FD : HandleEvent(f) \/ Move(f)

TransferStep == Lock \/ NewConn(1, "new1", "new2") \/ NewConn(2, "new2", "done")

Next ==
    \/ TransferStep \/ LoopStep \/ EpollFails
    \/ NextMessage
    \/ \E f \in FD : PeerSend(f) \/ PeerReceive(f) \/ PeerEnd(f)

Spec == Init /\ [][Next]_vars

\* Goroutines run, and a peer sends what it has and reads what it is sent.
Fairness ==
    /\ WF_vars(TransferStep) /\ WF_vars(LoopStep)
    /\ \A f \in FD : WF_vars(PeerReceive(f)) /\ WF_vars(PeerSend(f))

(***************************************************************************)
(* Properties.                                                             *)
(***************************************************************************)
\* The loop never follows a nil partner, although epoll reports a socket
\* before Transfer has linked it; but for a pair of which only the first
\* socket could be added.
PeerKnown == lpc = "crashed" => tpc = "failed" /\ 1 \in conns

\* A client that writes a message and waits for its echo before the next one
\* gets every byte back when nothing fails, however the messages are cut, as long as they fit
\* into the pages of a pipe.  (A stream in one direction may stop for good: MoveOut
\* leaves canWrite cleared after a write, and what MoveIn reads on an event of
\* the partner waits in the pipe for the next one.)
EchoReturns == (echo /\ OnTheWay) ~> ~OnTheWay

HungUp(f) == f \in conns /\ gone[f] # "no"

\* A hang up is noticed and its socket closed, whatever the loop was doing.
HangupCloses == (\E f \in FD : HungUp(f)) ~> ((\A f \in FD : ~HungUp(f)) \/ lpc \in {"ended", "crashed"})
=============================================================================
