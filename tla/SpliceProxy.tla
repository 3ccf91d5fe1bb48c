---------------------------- MODULE SpliceProxy ----------------------------
(***************************************************************************)
(* Proxy.Transfer of netsplice-echo-proxy/dada-funny: two sockets, two     *)
(* goroutines that splice one into the other through a pipe, and an epoll  *)
(* loop, edge triggered, that wakes a goroutine whose socket is ready      *)
(* through a condition variable without a lock, or closes a socket whose   *)
(* peer has hung up.  The copy in splicetest/funny is the same but for the *)
(* *os.File, which it does not keep, so that a finalizer may close a       *)
(* socket that is in use; that is left out here.                           *)
(*                                                                         *)
(* A goroutine is named by the socket it reads: goroutine f copies from f  *)
(* to Other(f); goroutine 2 is Transfer itself.  Data is counted, not      *)
(* kept, as pipes and sockets are FIFO.  toread starts at 2^63 - 1 and is  *)
(* taken as inexhaustible.                                                 *)
(*                                                                         *)
(* One transfer is modelled, and a closed descriptor number is assumed to  *)
(* stay closed.  That leaves out what the code is exposed to when a number *)
(* is used again: pipe2 of a goroutine that starts late, or another        *)
(* transfer, may get the number of a socket that was just closed, and a    *)
(* second close of that socket, which the model has, then hits the new     *)
(* owner of the number.                                                    *)
(***************************************************************************)
EXTENDS Integers, FiniteSets

CONSTANTS
    Bytes1,     \* bytes the peer of socket 1 sends (a bound)
    Bytes2,     \* bytes the peer of socket 2 sends (a bound)
    SockBuf,    \* bytes a socket buffers for its peer
    PipeBuf,    \* pipeBuf
    MaxFaults   \* peers that end and calls that fail (a bound)

ASSUME SpliceAssumption ==
    /\ {SockBuf, PipeBuf} \subseteq Nat \ {0} /\ {Bytes1, Bytes2, MaxFaults} \subseteq Nat

FD == {1, 2}
Other(f) == 3 - f
Actor == FD \cup {0}        \* who may close a socket; 0 is the event loop

VARIABLES
    tpc,            \* Transfer: add1, add2, run, returned, failed
    conns,          \* p.conns
    sysopen,        \* sockets whose sysfd is open
    armed,          \* sockets in epoll's ready list
    batch,          \* events the loop has fetched and not handled
    lpc,            \* event loop: wait, ended
    rflag, wflag,   \* rWaitFlag, wWaitFlag: 0 free, 1 locked, 2 waiting, 3 closed
    err,            \* sockets whose pd.err is set
    pc,             \* goroutine f
    canRead, flushing,
    inbuf,          \* s.inbuf
    pipe,           \* bytes in the pipe
    why,            \* how its copying ended: no, eof, readerror, other
    cpc, ctgt,      \* where an actor is in delConn or Close, and of which socket
    tosend, rbuf, out, gone, \* peer and kernel: to be sent, to be read, on the way out
    faults,         \* how many have happened
    missed          \* goroutines that had stopped trying when their signal came

netVars == <<tosend, rbuf, out, gone, faults>>
pdVars == <<rflag, wflag, err>>
loopVars == <<batch, lpc>>
tabVars == <<conns, sysopen, armed>>
copyVars == <<canRead, flushing, inbuf, pipe, why>>
closeVars == <<cpc, ctgt>>
vars == <<tpc, tabVars, loopVars, pdVars, pc, copyVars, closeVars, netVars, missed>>

Event == {"in", "out", "hup"}

Init ==
    /\ tpc = "add1" /\ conns = {} /\ sysopen = {} /\ armed = {}
    /\ batch = [f \in FD |-> {}] /\ lpc = "wait"
    /\ rflag = [f \in FD |-> 0] /\ wflag = [f \in FD |-> 0] /\ err = {}
    /\ pc = [f \in FD |-> "idle"] /\ canRead = {} /\ flushing = {}
    /\ inbuf = [f \in FD |-> 0] /\ pipe = [f \in FD |-> 0] /\ why = [f \in FD |-> "no"]
    /\ cpc = [a \in Actor |-> "none"] /\ ctgt = [a \in Actor |-> 1]
    /\ tosend = [f \in FD |-> IF f = 1 THEN Bytes1 ELSE Bytes2] /\ rbuf = [f \in FD |-> 0]
    /\ out = [f \in FD |-> 0] /\ gone = [f \in FD |-> "no"] /\ faults = 0 /\ missed = {}

(***************************************************************************)
(* The peers and the kernel.  A socket enters the ready list when data, an *)
(* end or room arrives; what is ready is looked up when the loop fetches.  *)
(***************************************************************************)
Fault == faults < MaxFaults /\ faults' = faults + 1

Arm(f) == armed' = IF f \in sysopen \cap conns THEN armed \cup {f} ELSE armed

PeerSend(f) ==
    /\ tosend[f] > 0 /\ gone[f] = "no"
    /\ tosend' = [tosend EXCEPT ![f] = @ - 1] /\ rbuf' = [rbuf EXCEPT ![f] = @ + 1]
    /\ Arm(f)
    /\ UNCHANGED <<tpc, conns, sysopen, loopVars, pdVars, pc, copyVars, closeVars, out, gone, faults, missed>>

\* Room is an event only for a buffer that was full.
PeerReceive(f) ==
    /\ out[f] > 0 /\ gone[f] # "reset"
    /\ out' = [out EXCEPT ![f] = @ - 1]
    /\ IF out[f] = SockBuf THEN Arm(f) ELSE UNCHANGED armed
    /\ UNCHANGED <<tpc, conns, sysopen, loopVars, pdVars, pc, copyVars, closeVars, tosend, rbuf, gone, faults, missed>>

\* The peer ends its stream, or resets the connection.
PeerEnd(f) ==
    /\ gone[f] = "no" /\ Fault
    /\ \E how \in {"end", "reset"} :
          /\ gone' = [gone EXCEPT ![f] = how]
          /\ rbuf' = [rbuf EXCEPT ![f] = IF how = "reset" THEN 0 ELSE @]
          /\ out' = [out EXCEPT ![f] = IF how = "reset" THEN 0 ELSE @]
    /\ Arm(f)
    /\ UNCHANGED <<tpc, conns, sysopen, loopVars, pdVars, pc, copyVars, closeVars, tosend, missed>>

(***************************************************************************)
(* Transfer: addConn for both, then two goroutines.                        *)
(***************************************************************************)
\* The table first, then epoll, which reports what is ready already.
AddConn(f, from, to) ==
    /\ tpc = from
    /\ \/ /\ conns' = conns \cup {f} /\ sysopen' = sysopen \cup {f} /\ armed' = armed \cup {f}
          /\ tpc' = to
          /\ pc' = IF to = "run" THEN [g \in FD |-> "lock"] ELSE pc
          /\ UNCHANGED faults
       \/ tpc' = "failed" /\ Fault /\ UNCHANGED <<tabVars, pc>>
    /\ UNCHANGED <<loopVars, pdVars, copyVars, closeVars, tosend, rbuf, out, gone, missed>>

\* err2 := <-errChan
TransferReturn ==
    /\ tpc = "run" /\ \A f \in FD : pc[f] = "done"
    /\ tpc' = "returned"
    /\ UNCHANGED <<tabVars, loopVars, pdVars, pc, copyVars, closeVars, netVars, missed>>

(***************************************************************************)
(* splice: what goroutine f does before and after the copying.             *)
(***************************************************************************)
Goto(f, to) == pc' = [pc EXCEPT ![f] = to]
Here == <<tpc, tabVars, loopVars, closeVars, netVars>>

Unlocked(flag) == IF flag = 1 THEN 0 ELSE flag     \* a closed flag stays closed

\* writeLock of the destination.
WriteLock(f) ==
    /\ pc[f] = "lock"
    /\ IF wflag[Other(f)] = 0
         THEN wflag' = [wflag EXCEPT ![Other(f)] = 1] /\ Goto(f, "rlock")
         ELSE Goto(f, "delete") /\ UNCHANGED wflag
    /\ UNCHANGED <<Here, rflag, err, copyVars, missed>>

\* readLock of the source, or back with the deferred writeUnlock.
ReadLock(f) ==
    /\ pc[f] = "rlock"
    /\ IF rflag[f] = 0
         THEN rflag' = [rflag EXCEPT ![f] = 1] /\ Goto(f, "init") /\ UNCHANGED wflag
         ELSE /\ wflag' = [wflag EXCEPT ![Other(f)] = Unlocked(@)] /\ Goto(f, "delete")
              /\ UNCHANGED rflag
    /\ UNCHANGED <<Here, err, copyVars, missed>>

\* sp.init: pipe2, or back with both unlocks.
InitPipe(f) ==
    /\ pc[f] = "init"
    /\ \/ Goto(f, "read") /\ UNCHANGED <<rflag, wflag, faults>>
       \/ /\ Goto(f, "delete") /\ Fault
          /\ rflag' = [rflag EXCEPT ![f] = Unlocked(@)]
          /\ wflag' = [wflag EXCEPT ![Other(f)] = Unlocked(@)]
    /\ UNCHANGED <<tpc, tabVars, loopVars, closeVars, tosend, rbuf, out, gone, err, copyVars, missed>>

Enter(f) == WriteLock(f) \/ ReadLock(f) \/ InitPipe(f)

\* sp.destroy, with what is left in the pipe, and the deferred unlocks.
Leave(f) ==
    /\ pc[f] = "destroy" /\ Goto(f, "delete")
    /\ pipe' = [pipe EXCEPT ![f] = 0]
    /\ rflag' = [rflag EXCEPT ![f] = Unlocked(@)]
    /\ wflag' = [wflag EXCEPT ![Other(f)] = Unlocked(@)]
    /\ UNCHANGED <<Here, err, canRead, flushing, inbuf, why, missed>>

(***************************************************************************)
(* readFrom                                                                *)
(***************************************************************************)
\* Copying ends with n in inbuf: flush writes it out, unless it is flush that
\* fails.  The first reason counts.
Ends(f, reason, n) ==
    /\ why' = [why EXCEPT ![f] = IF @ = "no" THEN reason ELSE @]
    /\ inbuf' = [inbuf EXCEPT ![f] = n]
    /\ flushing' = flushing \cup {f}
    /\ Goto(f, IF n > 0 /\ f \notin flushing THEN "write" ELSE "destroy")

\* The next call after readFrom or writeTo has left n in inbuf.
AfterRead(n) == IF n = 0 THEN "read" ELSE "write"
AfterWrite(f, n) == IF f \notin flushing THEN "read" ELSE IF n > 0 THEN "write" ELSE "destroy"

\* splice(2) from the socket.  Its result is -1 when it fails, and is added to
\* inbuf all the same.
SpliceInFails(f) ==
    /\ pc[f] = "read" /\ (f \notin sysopen \/ gone[f] = "reset")
    /\ Ends(f, "readerror", inbuf[f] - 1)
    /\ UNCHANGED <<Here, pdVars, canRead, pipe, missed>>

\* Mutant: an end of the stream is taken for a failure.
SpliceInEndFails(f) ==
    /\ pc[f] = "read" /\ f \in sysopen /\ gone[f] = "end" /\ rbuf[f] = 0
    /\ Ends(f, "eof", 0)
    /\ UNCHANGED <<Here, pdVars, canRead, pipe, missed>>

\* n == 0: ErrUnexpectedEOF
SpliceInEnd(f) ==
    /\ pc[f] = "read" /\ f \in sysopen /\ gone[f] = "end" /\ rbuf[f] = 0
    /\ Ends(f, "eof", inbuf[f])
    /\ UNCHANGED <<Here, pdVars, canRead, pipe, missed>>

SpliceIn(f) ==
    /\ pc[f] = "read" /\ f \in sysopen /\ gone[f] # "reset"
    /\ \E n \in 1 .. rbuf[f] :
          /\ n <= PipeBuf - inbuf[f]
          /\ rbuf' = [rbuf EXCEPT ![f] = @ - n] /\ pipe' = [pipe EXCEPT ![f] = @ + n]
          /\ inbuf' = [inbuf EXCEPT ![f] = @ + n]
    /\ Goto(f, "write") /\ canRead' = canRead \ {f}
    /\ UNCHANGED <<tpc, tabVars, loopVars, closeVars, tosend, out, gone, faults, pdVars, flushing, why, missed>>

\* EAGAIN: nothing to read, or no free page in a pipe that is in use.
SpliceInAgain(f) ==
    /\ pc[f] = "read" /\ f \in sysopen /\ gone[f] # "reset"
    /\ (rbuf[f] = 0 /\ gone[f] = "no") \/ pipe[f] > 0
    /\ Goto(f, IF f \in canRead THEN AfterRead(inbuf[f]) ELSE "waitread") /\ canRead' = canRead \ {f}
    /\ UNCHANGED <<Here, pdVars, flushing, inbuf, pipe, why, missed>>

\* WaitRead: the flag, then rcond.Wait, which a Signal ends, then the flag.
WaitReadFlag(f) ==
    /\ pc[f] = "waitread"
    /\ IF rflag[f] = 1
         THEN /\ rflag' = [rflag EXCEPT ![f] = 2] /\ Goto(f, "enroll")
              /\ UNCHANGED <<why, flushing, inbuf>>
         ELSE UNCHANGED rflag /\ Ends(f, "other", inbuf[f])
    /\ UNCHANGED <<Here, wflag, err, canRead, pipe, missed>>

WaitEnroll(f) ==
    /\ \/ pc[f] = "enroll" /\ Goto(f, "rparked")
       \/ pc[f] = "wenroll" /\ Goto(f, "wparked")
    /\ UNCHANGED <<Here, pdVars, copyVars, missed>>

WaitReadWoken(f) ==
    /\ pc[f] = "rwoken" /\ rflag' = [rflag EXCEPT ![f] = 1]
    /\ IF f \in err
         THEN Ends(f, "other", inbuf[f]) /\ UNCHANGED canRead
         ELSE Goto(f, "read") /\ canRead' = canRead \cup {f} /\ UNCHANGED <<why, flushing, inbuf>>
    /\ UNCHANGED <<Here, wflag, err, pipe, missed>>

(***************************************************************************)
(* writeTo, called by splice and by flush                                  *)
(***************************************************************************)
\* The result -1 is subtracted from inbuf.
SpliceOutFails(f) ==
    /\ pc[f] = "write" /\ (Other(f) \notin sysopen \/ gone[Other(f)] = "reset")
    /\ Ends(f, "other", inbuf[f] + 1)
    /\ UNCHANGED <<Here, pdVars, canRead, pipe, missed>>

\* Some of the bytes go, as many as the socket has room for.
SpliceOut(f) ==
    LET g == Other(f)
    IN /\ pc[f] = "write" /\ g \in sysopen /\ gone[g] # "reset"
       /\ \E n \in 1 .. inbuf[f] :
             /\ n <= SockBuf - out[g]
             /\ out' = [out EXCEPT ![g] = @ + n] /\ pipe' = [pipe EXCEPT ![f] = @ - n]
             /\ inbuf' = [inbuf EXCEPT ![f] = @ - n] /\ Goto(f, AfterWrite(f, inbuf[f] - n))
       /\ UNCHANGED <<tpc, tabVars, loopVars, closeVars, tosend, rbuf, gone, faults, pdVars, canRead, flushing, why, missed>>

\* EAGAIN: no room in the socket.
SpliceOutAgain(f) ==
    /\ pc[f] = "write" /\ Other(f) \in sysopen /\ gone[Other(f)] # "reset" /\ out[Other(f)] = SockBuf
    /\ Goto(f, "waitwrite")
    /\ UNCHANGED <<Here, pdVars, copyVars, missed>>

WaitWriteFlag(f) ==
    /\ pc[f] = "waitwrite"
    /\ IF wflag[Other(f)] = 1
         THEN /\ wflag' = [wflag EXCEPT ![Other(f)] = 2] /\ Goto(f, "wenroll")
              /\ UNCHANGED <<why, flushing, inbuf>>
         ELSE UNCHANGED wflag /\ Ends(f, "other", inbuf[f])
    /\ UNCHANGED <<Here, rflag, err, canRead, pipe, missed>>

WaitWriteWoken(f) ==
    /\ pc[f] = "wwoken" /\ wflag' = [wflag EXCEPT ![Other(f)] = 1]
    /\ IF Other(f) \in err
         THEN Ends(f, "other", inbuf[f])
         ELSE Goto(f, "write") /\ UNCHANGED <<why, flushing, inbuf>>
    /\ UNCHANGED <<Here, rflag, err, canRead, pipe, missed>>

(***************************************************************************)
(* delConn and Close.                                                      *)
(***************************************************************************)
\* Out of epoll and out of the table, first socket 1, then 2; then Close sets
\* pd.err, which only goroutines that wake up look at.
Delete(f) ==
    /\ \/ pc[f] = "delete" /\ cpc[f] = "none" /\ ctgt' = [ctgt EXCEPT ![f] = 1]
       \/ cpc[f] = "next" /\ ctgt' = [ctgt EXCEPT ![f] = 2]
    /\ conns' = conns \ {ctgt'[f]} /\ armed' = armed \ {ctgt'[f]} /\ err' = err \cup {ctgt'[f]}
    /\ cpc' = [cpc EXCEPT ![f] = "wspin"]
    /\ UNCHANGED <<tpc, sysopen, loopVars, rflag, wflag, pc, copyVars, netVars, missed>>

\* Signal wakes a goroutine that is parked, and nobody else.
SignalRead(f, pcs) == [pcs EXCEPT ![f] = IF @ = "rparked" THEN "rwoken" ELSE @]
SignalWrite(f, pcs) == [pcs EXCEPT ![Other(f)] = IF @ = "wparked" THEN "wwoken" ELSE @]

\* pd.Close signals while somebody waits, then closes the flag; writers first.
CloseWriteFlag(a) ==
    /\ cpc[a] = "wspin"
    /\ IF wflag[ctgt[a]] = 2
         THEN pc' = SignalWrite(ctgt[a], pc) /\ UNCHANGED <<wflag, cpc>>
         ELSE /\ wflag' = [wflag EXCEPT ![ctgt[a]] = 3] /\ cpc' = [cpc EXCEPT ![a] = "rspin"]
              /\ UNCHANGED pc
    /\ UNCHANGED <<tpc, tabVars, loopVars, rflag, err, copyVars, ctgt, netVars, missed>>

\* Mutant: only the first socket is deleted.
CloseSysfdFirst(a) ==
    /\ sysopen' = sysopen \ {ctgt[a]} /\ armed' = armed \ {ctgt[a]}
    /\ cpc' = [cpc EXCEPT ![a] = "none"]
    /\ pc' = IF a # 0 THEN [pc EXCEPT ![a] = "done"] ELSE pc

\* syscall.Close(fd.sysfd), which takes the socket out of epoll too; then a
\* goroutine goes on to its second socket.
CloseSysfd(a) ==
    LET f == ctgt[a]
    IN /\ sysopen' = sysopen \ {f} /\ armed' = armed \ {f}
       /\ cpc' = [cpc EXCEPT ![a] = IF a # 0 /\ f = 1 THEN "next" ELSE "none"]
       /\ pc' = IF a # 0 /\ f = 2 THEN [pc EXCEPT ![a] = "done"] ELSE pc

\* Mutant: Close waits without a signal.
CloseReadFlagSilent(a) ==
    /\ cpc[a] = "rspin" /\ rflag[ctgt[a]] # 2
    /\ rflag' = [rflag EXCEPT ![ctgt[a]] = 3] /\ CloseSysfd(a)
    /\ UNCHANGED <<tpc, conns, loopVars, wflag, err, copyVars, ctgt, netVars, missed>>

\* The same for readers, then the descriptor.
CloseReadFlag(a) ==
    /\ cpc[a] = "rspin"
    /\ IF rflag[ctgt[a]] = 2
         THEN pc' = SignalRead(ctgt[a], pc) /\ UNCHANGED <<rflag, cpc, sysopen, armed>>
         ELSE rflag' = [rflag EXCEPT ![ctgt[a]] = 3] /\ CloseSysfd(a)
    /\ UNCHANGED <<tpc, conns, loopVars, wflag, err, copyVars, ctgt, netVars, missed>>

(***************************************************************************)
(* eventLoop                                                               *)
(***************************************************************************)
Ready(f) ==
    (IF rbuf[f] > 0 \/ gone[f] # "no" THEN {"in"} ELSE {})
    \cup (IF out[f] < SockBuf THEN {"out"} ELSE {})
    \cup (IF gone[f] # "no" THEN {"hup"} ELSE {})

EpollWait ==
    /\ lpc = "wait" /\ cpc[0] = "none" /\ armed # {} /\ \A f \in FD : batch[f] = {}
    /\ batch' = [f \in FD |-> IF f \in armed THEN Ready(f) ELSE {}] /\ armed' = {}
    /\ UNCHANGED <<tpc, conns, sysopen, lpc, pdVars, pc, copyVars, closeVars, netVars, missed>>

\* A signal to the process interrupts epoll_wait, and the loop ends.
EpollFails ==
    /\ lpc = "wait" /\ cpc[0] = "none" /\ \A f \in FD : batch[f] = {}
    /\ lpc' = "ended" /\ Fault
    /\ UNCHANGED <<tpc, tabVars, batch, pdVars, pc, copyVars, closeVars, tosend, rbuf, out, gone, missed>>

\* Goroutines that a signal for f would have to wake and cannot.
Misses(f) ==
    {g \in FD : \/ g = f /\ "in" \in batch[f] /\ rbuf[f] > 0 /\ pc[g] \in {"waitread", "enroll"}
                \/ g = Other(f) /\ "out" \in batch[f] /\ out[f] < SockBuf /\ pc[g] \in {"waitwrite", "wenroll"}}

\* Mutant: EPOLLIN alone is looked at.
HandleEventIn(f) ==
    /\ batch[f] # {} /\ cpc[0] = "none"
    /\ batch' = [batch EXCEPT ![f] = {}]
    /\ IF f \notin conns THEN UNCHANGED <<pc, closeVars, err, missed>>
       ELSE IF "hup" \in batch[f]
         THEN /\ cpc' = [cpc EXCEPT ![0] = "wspin"] /\ ctgt' = [ctgt EXCEPT ![0] = f]
              /\ err' = err \cup {f} /\ UNCHANGED <<pc, missed>>
         ELSE /\ pc' = IF "in" \in batch[f] THEN SignalRead(f, pc) ELSE pc
              /\ missed' = missed \cup Misses(f) /\ UNCHANGED <<closeVars, err>>
    /\ UNCHANGED <<tpc, tabVars, lpc, rflag, wflag, copyVars, netVars>>

\* One event of the batch: a socket no longer in the table is skipped, a hang
\* up closes it, readiness wakes its reader and its writer.
HandleEvent(f) ==
    /\ batch[f] # {} /\ cpc[0] = "none"
    /\ batch' = [batch EXCEPT ![f] = {}]
    /\ IF f \notin conns THEN UNCHANGED <<pc, closeVars, err, missed>>
       ELSE IF "hup" \in batch[f]
         THEN /\ cpc' = [cpc EXCEPT ![0] = "wspin"] /\ ctgt' = [ctgt EXCEPT ![0] = f]
              /\ err' = err \cup {f} /\ UNCHANGED <<pc, missed>>
         ELSE /\ LET woken == IF "in" \in batch[f] THEN SignalRead(f, pc) ELSE pc
                 IN pc' = IF "out" \in batch[f] THEN SignalWrite(f, woken) ELSE woken
              /\ missed' = missed \cup Misses(f) /\ UNCHANGED <<closeVars, err>>
    /\ UNCHANGED <<tpc, tabVars, lpc, rflag, wflag, copyVars, netVars>>

-----------------------------------------------------------------------------
Copy(f) ==
    \/ Enter(f) \/ Leave(f) \/ Delete(f) \/ WaitEnroll(f)
    \/ SpliceInFails(f) \/ SpliceInEnd(f) \/ SpliceIn(f) \/ SpliceInAgain(f)
    \/ WaitReadFlag(f) \/ WaitReadWoken(f)
    \/ SpliceOutFails(f) \/ SpliceOut(f) \/ SpliceOutAgain(f)
    \/ WaitWriteFlag(f) \/ WaitWriteWoken(f)

CloseStep(a) == CloseWriteFlag(a) \/ CloseReadFlag(a)

LoopStep == EpollWait \/ \E f \in FD : HandleEvent(f)

TransferStep == AddConn(1, "add1", "add2") \/ AddConn(2, "add2", "run") \/ TransferReturn

Next ==
    \/ TransferStep \/ LoopStep \/ EpollFails
    \/ \E f \in FD : Copy(f) \/ PeerSend(f) \/ PeerReceive(f) \/ PeerEnd(f)
    \/ \E a \in Actor : CloseStep(a)

Spec == Init /\ [][Next]_vars

\* Goroutines run, and a peer reads what it is sent.
Fairness ==
    /\ WF_vars(TransferStep) /\ WF_vars(LoopStep \/ CloseStep(0))
    /\ \A f \in FD : WF_vars(Copy(f) \/ CloseStep(f)) /\ WF_vars(PeerReceive(f))

FairSpec == Spec /\ Fairness

(***************************************************************************)
(* Properties.                                                             *)
(***************************************************************************)
\* When a transfer that began returns, both sockets are closed and out of the
\* table, however many goroutines closed them at the same time.
ClosedOnReturn ==
    tpc = "returned" => conns = {} /\ sysopen = {} /\ \A f \in FD : rflag[f] = 3 /\ wflag[f] = 3

\* A peer that hangs up ends the transfer in both directions, also while the
\* goroutines are on their way into a wait; not so when the event loop has
\* ended, or when a goroutine that flushes has missed its signal.
TransferReturns ==
    (tpc = "run" /\ \E f \in FD : gone[f] # "no") ~> 
        (tpc = "returned" \/ lpc = "ended" \/ \E f \in missed : pc[f] = "wparked")

\* What keeps bytes from their way: a signal that came between EAGAIN and the
\* wait, or a rest in the pipe while the goroutine waits for more to read.
Stalled(f) == f \in missed \/ (pc[f] = "rparked" /\ pipe[f] > 0)
Ending == err # {} \/ sysopen # FD \/ lpc = "ended" \/ \E f \in FD : gone[f] # "no"

\* While nothing has ended, what arrives at a socket is passed on, unless the
\* goroutine is stalled.
DeliveredUnlessStalled ==
    \A f \in FD : (tpc = "run" /\ rbuf[f] + pipe[f] > 0) ~> (rbuf[f] + pipe[f] = 0 \/ Stalled(f) \/ Ending)

\* Each byte that arrives at one socket leaves at the other once, and bytes are
\* lost only with an end that is reset or closed; what was taken from a socket
\* whose peer has ended its stream is all passed on, and but for one byte when
\* reading from it has failed (refinement of ByteRelay).
Relay == INSTANCE ByteRelay WITH
    unsent <- tosend, waiting <- rbuf, taken <- pipe,
    leaving <- [f \in FD |-> out[Other(f)]],
    down <- err \cup {f \in FD : gone[f] = "reset"}
RelaySpec == Relay!Spec
============================================================================
