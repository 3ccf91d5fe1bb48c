------------------------- MODULE SpliceProxyProofs -------------------------
(***************************************************************************)
(* Proofs about SpliceProxy for every number of bytes, size of buffers and *)
(* number of faults.                                                       *)
(***************************************************************************)
EXTENDS SpliceProxy, TLAPS

Reading == {"read", "waitread", "enroll", "rparked", "rwoken"}
Writing == {"write", "waitwrite", "wenroll", "wparked", "wwoken"}
Entering == {"lock", "rlock", "init"}
PC == {"idle"} \cup Entering \cup Reading \cup Writing \cup {"destroy", "delete", "done"}
Reason == {"no", "eof", "readerror", "other"}
ClosePC == {"none", "next", "wspin", "rspin"}

\* The types of the variables; what a socket holds for its peer never
\* exceeds its buffer.
TypeOK ==
    /\ tpc \in {"add1", "add2", "run", "returned", "failed"}
    /\ conns \in SUBSET FD /\ sysopen \in SUBSET FD /\ armed \in SUBSET FD
    /\ batch \in [FD -> SUBSET Event] /\ lpc \in {"wait", "ended"}
    /\ rflag \in [FD -> 0 .. 3] /\ wflag \in [FD -> 0 .. 3] /\ err \in SUBSET FD
    /\ pc \in [FD -> PC] /\ canRead \in SUBSET FD /\ flushing \in SUBSET FD
    /\ inbuf \in [FD -> Int] /\ pipe \in [FD -> Int] /\ why \in [FD -> Reason]
    /\ cpc \in [Actor -> ClosePC] /\ ctgt \in [Actor -> FD]
    /\ tosend \in [FD -> Nat] /\ rbuf \in [FD -> Nat] /\ out \in [FD -> 0 .. SockBuf]
    /\ gone \in [FD -> {"no", "end", "reset"}] /\ faults \in Nat /\ missed \in SUBSET FD

\* The goroutines run once both sockets are in the table.
PhaseInv ==
    /\ tpc \in {"add1", "add2", "failed"} => \A f \in FD : pc[f] = "idle"
    /\ tpc \in {"run", "returned"} => \A f \in FD : pc[f] # "idle"

\* A goroutine that copies holds both its locks, or they have been closed.
Locked == {"init", "destroy"} \cup Reading \cup Writing
LockInv ==
    \A f \in FD : /\ pc[f] \in Locked => rflag[f] # 0
                  /\ pc[f] \in Locked \cup {"rlock"} => wflag[Other(f)] # 0

\* Who closes a socket has set its error first.
CloserInv ==
    /\ cpc[0] # "next"
    /\ \A a \in Actor : cpc[a] \in {"wspin", "rspin"} => ctgt[a] \in err

\* Nothing is left of socket g.
Closed(g) == g \notin conns /\ g \notin sysopen /\ rflag[g] = 3 /\ wflag[g] = 3

\* How far a goroutine has come with the sockets, the first before the second.
DeleteInv ==
    /\ \A f \in FD :
          /\ cpc[f] # "none" => pc[f] = "delete"
          /\ cpc[f] \in {"wspin", "rspin"} => ctgt[f] \notin conns
          /\ cpc[f] = "rspin" => wflag[ctgt[f]] = 3
          /\ (cpc[f] = "next" \/ (cpc[f] \in {"wspin", "rspin"} /\ ctgt[f] = 2)) => Closed(1)
          /\ pc[f] = "done" => \A g \in FD : Closed(g)
    /\ tpc = "returned" => \A g \in FD : Closed(g)

\* Nothing can be written to the destination of goroutine f any more.
Lost(f) == Other(f) \notin sysopen \/ gone[Other(f)] = "reset"

\* inbuf is what the pipe holds until copying ends; then it is one less after
\* a failed read, and one more only when the destination is lost.
CopyOf(f) ==
    /\ pipe[f] \in 0 .. PipeBuf
    /\ f \notin flushing => inbuf[f] = pipe[f] /\ why[f] = "no"
    /\ pc[f] \in {"idle"} \cup Entering \cup Reading => f \notin flushing
    /\ pc[f] = "destroy" => f \in flushing
    /\ (pc[f] \in Writing \cup {"destroy"} /\ f \in flushing) =>
          Lost(f) \/ inbuf[f] = pipe[f] - (IF why[f] = "readerror" THEN 1 ELSE 0)

CopyInv == \A f \in FD : CopyOf(f)

\* A flag says 2 exactly while its goroutine waits or is about to, so that
\* the goroutine's own compare and swap cannot fail and Close, which signals
\* as long as it reads 2, neither gives up on a goroutine nor waits for none.
FlagMatches ==
    \A f \in FD :
        /\ rflag[f] = 2 <=> pc[f] \in {"enroll", "rparked", "rwoken"}
        /\ wflag[Other(f)] = 2 <=> pc[f] \in {"wenroll", "wparked", "wwoken"}
        /\ 3 \in {rflag[f], wflag[f]} => f \in err

\* Bytes that were taken from a socket are not thrown away with the pipe,
\* unless their destination is closed or reset; a failed read costs one byte,
\* because -1 was added to inbuf.
FlushComplete ==
    \A f \in FD : (pc[f] = "destroy" /\ pipe[f] > 0) =>
        \/ Other(f) \notin sysopen \/ Other(f) \in err \/ gone[Other(f)] = "reset"
        \/ why[f] = "readerror" /\ pipe[f] = 1

IndInv == TypeOK /\ PhaseInv /\ LockInv /\ FlagMatches /\ CloserInv /\ DeleteInv /\ CopyInv /\ FlushComplete

-----------------------------------------------------------------------------
\* The two sockets are each other's other.
LEMMA OtherFacts ==
  /\ 1 \in FD /\ 2 \in FD /\ 0 \notin FD /\ Actor = FD \cup {0}
  /\ \A f \in FD : Other(f) \in FD /\ Other(Other(f)) = f /\ Other(f) # f
  /\ \A f, g \in FD : g = f \/ g = Other(f)
BY DEF FD, Other, Actor

\* A signal wakes who is parked and leaves everybody else where it is.
LEMMA SignalFacts ==
  ASSUME NEW f \in FD, NEW pcs \in [FD -> PC]
  PROVE  /\ SignalRead(f, pcs) \in [FD -> PC] /\ SignalWrite(f, pcs) \in [FD -> PC]
         /\ \A g \in FD :
              /\ SignalRead(f, pcs)[g] = IF g = f /\ pcs[g] = "rparked" THEN "rwoken" ELSE pcs[g]
              /\ SignalWrite(f, pcs)[g] = IF g = Other(f) /\ pcs[g] = "wparked" THEN "wwoken" ELSE pcs[g]
BY OtherFacts DEF SignalRead, SignalWrite, PC, Reading, Writing, Entering, Locked

\* Goroutine g stays where it is, or is woken from its wait.
Woken(g, pcs) == \/ pcs[g] = pc[g]
                 \/ pc[g] = "rparked" /\ pcs[g] = "rwoken"
                 \/ pc[g] = "wparked" /\ pcs[g] = "wwoken"

\* Events and closing wake goroutines, and closing ends the one that closes;
\* they move nobody otherwise.
LEMMA WakeFacts ==
  ASSUME TypeOK, NEW g \in FD
  PROVE  /\ \A f \in FD : HandleEvent(f) => Woken(g, pc')
         /\ \A a \in Actor : CloseStep(a) =>
               Woken(g, pc') \/ (g = a /\ cpc[a] = "rspin" /\ pc'[g] = "done")
<1> USE OtherFacts DEF TypeOK
<1>1. ASSUME NEW f \in FD
      PROVE  /\ Woken(g, pc) /\ Woken(g, SignalRead(f, pc)) /\ Woken(g, SignalWrite(f, pc))
             /\ Woken(g, SignalWrite(f, SignalRead(f, pc)))
  <2>1. SignalRead(f, pc) \in [FD -> PC] BY SignalFacts
  <2>2. Woken(g, SignalRead(f, pc)) BY SignalFacts DEF Woken
  <2>3. Woken(g, SignalWrite(f, pc)) BY SignalFacts DEF Woken
  <2>4. Woken(g, SignalWrite(f, SignalRead(f, pc)))
    BY <2>1, SignalFacts DEF Woken
  <2> QED BY <2>2, <2>3, <2>4 DEF Woken
<1>2. ASSUME NEW f \in FD, HandleEvent(f) PROVE Woken(g, pc')
  <2>1. \/ pc' = pc \/ pc' = SignalRead(f, pc) \/ pc' = SignalWrite(f, pc)
        \/ pc' = SignalWrite(f, SignalRead(f, pc))
    BY <1>2 DEF HandleEvent
  <2> QED BY <1>1, <2>1
<1>3. ASSUME NEW a \in Actor, CloseStep(a)
      PROVE Woken(g, pc') \/ (g = a /\ cpc[a] = "rspin" /\ pc'[g] = "done")
  <2>1. ctgt[a] \in FD
    OBVIOUS
  <2>2. CASE CloseWriteFlag(a)
    <3>1. pc' = pc \/ pc' = SignalWrite(ctgt[a], pc) BY <2>2 DEF CloseWriteFlag
    <3> QED BY <1>1, <2>1, <3>1
  <2>3. CASE CloseReadFlag(a)
    <3>1. pc' = pc \/ pc' = SignalRead(ctgt[a], pc) \/ (pc' = [pc EXCEPT ![a] = "done"] /\ a # 0 /\ cpc[a] = "rspin")
      BY <2>3 DEF CloseReadFlag, CloseSysfd
    <3>2. CASE pc' = [pc EXCEPT ![a] = "done"] /\ a # 0 /\ cpc[a] = "rspin"
      BY <3>2 DEF Woken
    <3> QED BY <1>1, <2>1, <3>1, <3>2
  <2> QED BY <1>3, <2>2, <2>3 DEF CloseStep
<1> QED BY <1>2, <1>3

\* A goroutine that copies moves itself and nobody else, and touches neither
\* the table nor what is being closed.
LEMMA CopyMoves ==
  ASSUME NEW f \in FD, Copy(f), ~Delete(f)
  PROVE  /\ UNCHANGED <<tpc, conns, sysopen, armed, batch, lpc, err, cpc, ctgt, gone, tosend, missed>>
         /\ pc[f] \in Entering \cup {"destroy"} \cup Reading \cup Writing
         /\ \E to \in {"rlock", "init", "delete", "destroy"} \cup Reading \cup Writing : pc' = [pc EXCEPT ![f] = to]
<1> USE DEF Goto, Reading, Writing, Entering, Locked, pdVars, loopVars, tabVars, copyVars, closeVars, netVars, Here
<1>1. CASE Enter(f) \/ Leave(f) \/ WaitEnroll(f)
  BY <1>1 DEF Enter, WriteLock, ReadLock, InitPipe, Unlocked, Leave, WaitEnroll
<1>2. CASE SpliceInFails(f) \/ SpliceInEnd(f) \/ SpliceOutFails(f)
  BY <1>2 DEF SpliceInFails, SpliceInEnd, SpliceOutFails, Ends
<1>3. CASE SpliceIn(f) \/ SpliceInAgain(f) \/ SpliceOut(f) \/ SpliceOutAgain(f)
  BY <1>3 DEF SpliceIn, SpliceInAgain, SpliceOut, SpliceOutAgain, AfterRead, AfterWrite
<1>4. CASE WaitReadFlag(f) \/ WaitReadWoken(f) \/ WaitWriteFlag(f) \/ WaitWriteWoken(f)
  BY <1>4 DEF WaitReadFlag, WaitReadWoken, WaitWriteFlag, WaitWriteWoken, Ends
<1> QED BY <1>1, <1>2, <1>3, <1>4 DEF Copy

\* Typing: no step leaves the types of the variables.
LEMMA TypeStep == TypeOK /\ [Next]_vars => TypeOK'
<1> SUFFICES ASSUME TypeOK, [Next]_vars PROVE TypeOK'
  OBVIOUS
<1> USE OtherFacts DEF TypeOK, netVars, pdVars, loopVars, tabVars, copyVars, closeVars, Here
<1>1. ASSUME NEW f \in FD, NEW from, NEW to \in {"add2", "run"}, AddConn(f, from, to) PROVE TypeOK'
  BY <1>1 DEF AddConn, Fault, PC, Entering
<1>2. CASE TransferReturn
  BY <1>2 DEF TransferReturn
<1>3. CASE EpollWait
  BY <1>3 DEF EpollWait, Ready, Event
<1>4. CASE EpollFails
  BY <1>4 DEF EpollFails, Fault
<1>5. ASSUME NEW f \in FD, HandleEvent(f) PROVE TypeOK'
  <2>1. pc' \in [FD -> PC]
    BY <1>5, SignalFacts, SMTT(60) DEF HandleEvent
  <2>2. Misses(f) \subseteq FD
    BY DEF Misses
  <2>3. missed' \in SUBSET FD /\ err' \in SUBSET FD /\ batch' \in [FD -> SUBSET Event]
    BY <1>5, <2>2 DEF HandleEvent
  <2>4. cpc' \in [Actor -> ClosePC] /\ ctgt' \in [Actor -> FD]
    BY <1>5 DEF HandleEvent, ClosePC
  <2> QED BY <1>5, <2>1, <2>3, <2>4 DEF HandleEvent
<1>6. ASSUME NEW f \in FD, PeerSend(f) \/ PeerReceive(f) \/ PeerEnd(f) PROVE TypeOK'
  <2>1. CASE PeerSend(f) BY <2>1 DEF PeerSend, Arm
  <2>2. CASE PeerReceive(f)
    <3>1. out' \in [FD -> 0 .. SockBuf]
      BY <2>2, SpliceAssumption DEF PeerReceive
    <3> QED BY <2>2, <3>1 DEF PeerReceive, Arm
  <2>3. CASE PeerEnd(f)
    BY <2>3, SpliceAssumption DEF PeerEnd, Arm, Fault
  <2> QED BY <1>6, <2>1, <2>2, <2>3
<1>7. ASSUME NEW f \in FD, Copy(f) PROVE TypeOK'
  <2> USE DEF PC, Reading, Writing, Entering, Locked, Goto, Reason
  <2>1. CASE Enter(f) BY <2>1 DEF Enter, WriteLock, ReadLock, InitPipe, Unlocked, Fault
  <2>2. CASE Leave(f) BY <2>2 DEF Leave, Unlocked
  <2>3. CASE Delete(f)
    <3>1. ctgt' \in [Actor -> FD] /\ ctgt'[f] \in FD
      BY <2>3 DEF Delete
    <3> QED BY <2>3, <3>1 DEF Delete, ClosePC
  <2>4. CASE WaitEnroll(f) BY <2>4 DEF WaitEnroll
  <2>5. CASE SpliceInFails(f) BY <2>5 DEF SpliceInFails, Ends
  <2>6. CASE SpliceInEnd(f) BY <2>6 DEF SpliceInEnd, Ends
  <2>7. CASE SpliceIn(f) BY <2>7 DEF SpliceIn
  <2>8. CASE SpliceInAgain(f) BY <2>8 DEF SpliceInAgain, AfterRead
  <2>9. CASE WaitReadFlag(f) BY <2>9, SMTT(60) DEF WaitReadFlag, Ends
  <2>10. CASE WaitReadWoken(f) BY <2>10 DEF WaitReadWoken, Ends
  <2>11. CASE SpliceOutFails(f) BY <2>11 DEF SpliceOutFails, Ends
  <2>12. CASE SpliceOut(f)
    <3>1. PICK n \in 1 .. inbuf[f] :
             /\ n <= SockBuf - out[Other(f)]
             /\ out' = [out EXCEPT ![Other(f)] = @ + n] /\ pipe' = [pipe EXCEPT ![f] = @ - n]
             /\ inbuf' = [inbuf EXCEPT ![f] = @ - n] /\ Goto(f, AfterWrite(f, inbuf[f] - n))
      BY <2>12 DEF SpliceOut
    <3>2. out' \in [FD -> 0 .. SockBuf]
      BY <3>1, SpliceAssumption
    <3>3. inbuf' \in [FD -> Int] /\ pipe' \in [FD -> Int]
      BY <3>1
    <3> QED BY <2>12, <3>1, <3>2, <3>3 DEF SpliceOut, AfterWrite
  <2>13. CASE SpliceOutAgain(f) BY <2>13 DEF SpliceOutAgain
  <2>14. CASE WaitWriteFlag(f)
    <3>1. CASE wflag[Other(f)] = 1 BY <2>14, <3>1 DEF WaitWriteFlag
    <3>2. CASE wflag[Other(f)] # 1
      <4>1. Ends(f, "other", inbuf[f]) /\ UNCHANGED wflag BY <2>14, <3>2 DEF WaitWriteFlag
      <4>2. pc' \in [FD -> PC] /\ why' \in [FD -> Reason] /\ inbuf' \in [FD -> Int] /\ flushing' \in SUBSET FD
        BY <4>1 DEF Ends
      <4> QED BY <2>14, <4>1, <4>2 DEF WaitWriteFlag
    <3> QED BY <3>1, <3>2
  <2>15. CASE WaitWriteWoken(f)
    <3>1. CASE Other(f) \in err
      <4>1. Ends(f, "other", inbuf[f]) /\ wflag' = [wflag EXCEPT ![Other(f)] = 1] BY <2>15, <3>1 DEF WaitWriteWoken
      <4>2. pc' \in [FD -> PC] /\ why' \in [FD -> Reason] /\ inbuf' \in [FD -> Int] /\ flushing' \in SUBSET FD
        BY <4>1 DEF Ends
      <4>3. wflag' \in [FD -> 0 .. 3] BY <4>1
      <4> QED BY <2>15, <4>2, <4>3 DEF WaitWriteWoken
    <3>2. CASE Other(f) \notin err BY <2>15, <3>2 DEF WaitWriteWoken
    <3> QED BY <3>1, <3>2
  <2> QED BY <1>7, <2>1, <2>2, <2>3, <2>4, <2>5, <2>6, <2>7, <2>8, <2>9, <2>10, <2>11, <2>12,
             <2>13, <2>14, <2>15 DEF Copy
<1>8. ASSUME NEW a \in Actor, CloseStep(a) PROVE TypeOK'
  <2> USE SignalFacts DEF ClosePC
  <2>1. CASE CloseWriteFlag(a) BY <2>1 DEF CloseWriteFlag
  <2>2. CASE CloseReadFlag(a)
    <3>1. pc' \in [FD -> PC]
      BY <2>2 DEF CloseReadFlag, CloseSysfd, PC
    <3> QED BY <2>2, <3>1, SMTT(60) DEF CloseReadFlag, CloseSysfd
  <2> QED BY <1>8, <2>1, <2>2 DEF CloseStep
<1>9. CASE UNCHANGED vars
  BY <1>9 DEF vars
<1> QED BY <1>1, <1>2, <1>3, <1>4, <1>5, <1>6, <1>7, <1>8, <1>9 DEF Next, TransferStep, LoopStep

\* Goroutines start together, when both sockets are in the table.
LEMMA PhaseStep == TypeOK /\ PhaseInv /\ DeleteInv /\ [Next]_vars => PhaseInv'
<1> SUFFICES ASSUME TypeOK, PhaseInv, DeleteInv, [Next]_vars PROVE PhaseInv'
  OBVIOUS
<1> USE OtherFacts DEF TypeOK, PhaseInv, netVars, pdVars, loopVars, tabVars, copyVars, closeVars, Here
<1>1. CASE AddConn(1, "add1", "add2") \/ AddConn(2, "add2", "run")
  BY <1>1 DEF AddConn
<1>2. CASE TransferReturn
  BY <1>2 DEF TransferReturn
<1>3. CASE EpollWait \/ EpollFails
  BY <1>3 DEF EpollWait, EpollFails
<1>4. ASSUME NEW f \in FD, HandleEvent(f) PROVE PhaseInv'
  <2>1. \A g \in FD : pc'[g] = "idle" <=> pc[g] = "idle"
    BY <1>4, SignalFacts DEF HandleEvent
  <2> QED BY <1>4, <2>1 DEF HandleEvent
<1>5. ASSUME NEW f \in FD, PeerSend(f) \/ PeerReceive(f) \/ PeerEnd(f) PROVE PhaseInv'
  BY <1>5 DEF PeerSend, PeerReceive, PeerEnd
<1>6. ASSUME NEW f \in FD, Copy(f) PROVE PhaseInv'
  <2>1. CASE Delete(f) BY <2>1 DEF Delete
  <2>2. CASE ~Delete(f) BY <1>6, <2>2, CopyMoves DEF Reading, Writing, Entering, Locked
  <2> QED BY <2>1, <2>2
<1>7. ASSUME NEW a \in Actor, CloseStep(a) PROVE PhaseInv'
  <2>1. \A g \in FD : pc'[g] = "idle" <=> pc[g] = "idle"
    <3>1. CASE CloseWriteFlag(a)
      BY <3>1, SignalFacts DEF CloseWriteFlag
    <3>2. CASE CloseReadFlag(a)
      BY <3>2, SignalFacts DEF CloseReadFlag, CloseSysfd, DeleteInv
    <3> QED BY <1>7, <3>1, <3>2 DEF CloseStep
  <2> QED BY <1>7, <2>1 DEF CloseStep, CloseWriteFlag, CloseReadFlag
<1>8. CASE UNCHANGED vars
  BY <1>8 DEF vars
<1> QED BY <1>1, <1>2, <1>3, <1>4, <1>5, <1>6, <1>7, <1>8 DEF Next, TransferStep, LoopStep

\* The flags and the goroutines agree: only a goroutine's own steps set and
\* reset 2, and who closes a socket writes 3 over no 2.
LEMMA FlagStep == TypeOK /\ PhaseInv /\ FlagMatches /\ CloserInv /\ DeleteInv /\ [Next]_vars => FlagMatches'
<1> SUFFICES ASSUME TypeOK, PhaseInv, FlagMatches, CloserInv, DeleteInv, [Next]_vars PROVE FlagMatches'
  OBVIOUS
<1> USE OtherFacts DEF TypeOK, FlagMatches, netVars, pdVars, loopVars, tabVars, copyVars, closeVars, Here
<1>1. CASE AddConn(1, "add1", "add2") \/ AddConn(2, "add2", "run")
  BY <1>1 DEF AddConn, PhaseInv
<1>2. CASE TransferReturn
  BY <1>2 DEF TransferReturn
<1>3. CASE EpollWait \/ EpollFails
  BY <1>3 DEF EpollWait, EpollFails
<1>4. ASSUME NEW f \in FD, HandleEvent(f) PROVE FlagMatches'
  <2>1. \A g \in FD : /\ pc'[g] \in {"enroll", "rparked", "rwoken"} <=> pc[g] \in {"enroll", "rparked", "rwoken"}
                      /\ pc'[g] \in {"wenroll", "wparked", "wwoken"} <=> pc[g] \in {"wenroll", "wparked", "wwoken"}
    BY <1>4, SignalFacts, SMTT(60) DEF HandleEvent
  <2> QED BY <1>4, <2>1 DEF HandleEvent
<1>5. ASSUME NEW f \in FD, PeerSend(f) \/ PeerReceive(f) \/ PeerEnd(f) PROVE FlagMatches'
  BY <1>5 DEF PeerSend, PeerReceive, PeerEnd
<1>6. ASSUME NEW f \in FD, Copy(f) PROVE FlagMatches'
  <2> USE DEF Goto
  <2>1. CASE Enter(f) BY <2>1 DEF Enter, WriteLock, ReadLock, InitPipe, Unlocked
  <2>2. CASE Leave(f) BY <2>2 DEF Leave, Unlocked
  <2>3. CASE Delete(f) BY <2>3 DEF Delete
  <2>4. CASE WaitEnroll(f) BY <2>4 DEF WaitEnroll
  <2>5. CASE SpliceInFails(f) BY <2>5 DEF SpliceInFails, Ends
  <2>6. CASE SpliceInEnd(f) BY <2>6 DEF SpliceInEnd, Ends
  <2>7. CASE SpliceIn(f) BY <2>7 DEF SpliceIn
  <2>8. CASE SpliceInAgain(f) BY <2>8 DEF SpliceInAgain, AfterRead
  <2>9. CASE WaitReadFlag(f) BY <2>9 DEF WaitReadFlag, Ends
  <2>10. CASE WaitReadWoken(f) BY <2>10 DEF WaitReadWoken, Ends
  <2>11. CASE SpliceOutFails(f) BY <2>11 DEF SpliceOutFails, Ends
  <2>12. CASE SpliceOut(f) BY <2>12 DEF SpliceOut, AfterWrite
  <2>13. CASE SpliceOutAgain(f) BY <2>13 DEF SpliceOutAgain
  <2>14. CASE WaitWriteFlag(f) BY <2>14 DEF WaitWriteFlag, Ends
  <2>15. CASE WaitWriteWoken(f) BY <2>15 DEF WaitWriteWoken, Ends
  <2> QED BY <1>6, <2>1, <2>2, <2>3, <2>4, <2>5, <2>6, <2>7, <2>8, <2>9, <2>10, <2>11, <2>12,
             <2>13, <2>14, <2>15 DEF Copy
<1>7. ASSUME NEW a \in Actor, CloseStep(a) PROVE FlagMatches'
  <2>1. \A g \in FD : /\ pc'[g] \in {"enroll", "rparked", "rwoken"} <=> pc[g] \in {"enroll", "rparked", "rwoken"}
                      /\ pc'[g] \in {"wenroll", "wparked", "wwoken"} <=> pc[g] \in {"wenroll", "wparked", "wwoken"}
    <3>1. CASE CloseWriteFlag(a)
      BY <3>1, SignalFacts DEF CloseWriteFlag
    <3>2. CASE CloseReadFlag(a)
      BY <3>2, SignalFacts DEF CloseReadFlag, CloseSysfd, DeleteInv
    <3> QED BY <1>7, <3>1, <3>2 DEF CloseStep
  <2>2. CASE CloseWriteFlag(a)
    BY <2>1, <2>2 DEF CloseWriteFlag, CloserInv
  <2>3. CASE CloseReadFlag(a)
    BY <2>1, <2>3 DEF CloseReadFlag, CloserInv
  <2> QED BY <1>7, <2>2, <2>3 DEF CloseStep
<1>8. CASE UNCHANGED vars
  BY <1>8 DEF vars
<1> QED BY <1>1, <1>2, <1>3, <1>4, <1>5, <1>6, <1>7, <1>8 DEF Next, TransferStep, LoopStep

\* The locks are released by the goroutine that took them.
LEMMA LockStep == TypeOK /\ PhaseInv /\ LockInv /\ [Next]_vars => LockInv'
<1> SUFFICES ASSUME TypeOK, PhaseInv, LockInv, [Next]_vars PROVE LockInv'
  OBVIOUS
<1> USE OtherFacts DEF TypeOK, LockInv, netVars, pdVars, loopVars, tabVars, copyVars, closeVars, Here,
                       Reading, Writing, Entering, Locked
<1>1. ASSUME \A g \in FD : pc'[g] = pc[g] \/ pc'[g] \notin Locked \cup {"rlock"} \/ Woken(g, pc'),
             \A g \in FD : rflag'[g] \in {rflag[g], 3} /\ wflag'[g] \in {wflag[g], 3}
      PROVE  LockInv'
  BY <1>1 DEF Woken
<1>2. CASE TransferStep \/ EpollWait \/ EpollFails
  BY <1>1, <1>2 DEF TransferStep, AddConn, TransferReturn, EpollWait, EpollFails
<1>3. ASSUME NEW f \in FD, HandleEvent(f) PROVE LockInv'
  BY <1>1, <1>3, WakeFacts DEF HandleEvent
<1>4. ASSUME NEW f \in FD, PeerSend(f) \/ PeerReceive(f) \/ PeerEnd(f) PROVE LockInv'
  BY <1>1, <1>4 DEF PeerSend, PeerReceive, PeerEnd
<1>5. ASSUME NEW a \in Actor, CloseStep(a) PROVE LockInv'
  <2>1. \A g \in FD : rflag'[g] \in {rflag[g], 3} /\ wflag'[g] \in {wflag[g], 3}
    BY <1>5 DEF CloseStep, CloseWriteFlag, CloseReadFlag
  <2> QED BY <1>1, <1>5, <2>1, WakeFacts
<1>6. ASSUME NEW f \in FD, Copy(f) PROVE LockInv'
  <2> USE DEF Goto
  <2>1. CASE Enter(f) BY <2>1 DEF Enter, WriteLock, ReadLock, InitPipe, Unlocked
  <2>2. CASE Leave(f) BY <2>2 DEF Leave, Unlocked
  <2>3. CASE Delete(f) BY <2>3 DEF Delete
  <2>4. CASE WaitEnroll(f) BY <2>4 DEF WaitEnroll
  <2>5. ASSUME UNCHANGED <<rflag, wflag>>, pc[f] \in Reading \cup Writing, Copy(f), ~Delete(f)
        PROVE  LockInv'
    BY <2>5, CopyMoves
  <2>6. CASE SpliceInFails(f) \/ SpliceInEnd(f) \/ SpliceIn(f) \/ SpliceInAgain(f)
             \/ SpliceOutFails(f) \/ SpliceOut(f) \/ SpliceOutAgain(f)
    BY <1>6, <2>3, <2>5, <2>6 DEF SpliceInFails, SpliceInEnd, SpliceIn, SpliceInAgain, SpliceOutFails, SpliceOut, SpliceOutAgain
  <2>7. CASE WaitReadFlag(f) BY <2>7 DEF WaitReadFlag, Ends
  <2>8. CASE WaitReadWoken(f) BY <2>8 DEF WaitReadWoken, Ends
  <2>9. CASE WaitWriteFlag(f) BY <2>9 DEF WaitWriteFlag, Ends
  <2>10. CASE WaitWriteWoken(f) BY <2>10 DEF WaitWriteWoken, Ends
  <2> QED BY <1>6, <2>1, <2>2, <2>3, <2>4, <2>6, <2>7, <2>8, <2>9, <2>10 DEF Copy
<1>7. CASE UNCHANGED vars
  BY <1>1, <1>7 DEF vars
<1> QED BY <1>2, <1>3, <1>4, <1>5, <1>6, <1>7 DEF Next, LoopStep

\* An error stays set, and is set before the closing begins.
LEMMA CloserStep == TypeOK /\ CloserInv /\ [Next]_vars => CloserInv'
<1> SUFFICES ASSUME TypeOK, CloserInv, [Next]_vars PROVE CloserInv'
  OBVIOUS
<1> USE OtherFacts DEF TypeOK, CloserInv, netVars, pdVars, loopVars, tabVars, copyVars, closeVars, Here
<1>1. CASE UNCHANGED <<cpc, ctgt, err>>
  BY <1>1
<1>2. ASSUME NEW f \in FD, HandleEvent(f) PROVE CloserInv'
  BY <1>2 DEF HandleEvent
<1>3. ASSUME NEW f \in FD, Delete(f) PROVE CloserInv'
  BY <1>3 DEF Delete
<1>4. ASSUME NEW a \in Actor, CloseWriteFlag(a) PROVE CloserInv'
  BY <1>4 DEF CloseWriteFlag
<1>5. ASSUME NEW a \in Actor, CloseReadFlag(a) PROVE CloserInv'
  BY <1>5 DEF CloseReadFlag, CloseSysfd
<1>6. CASE TransferStep \/ EpollWait \/ EpollFails
  BY <1>1, <1>6 DEF TransferStep, AddConn, TransferReturn, EpollWait, EpollFails
<1>7. ASSUME NEW f \in FD, PeerSend(f) \/ PeerReceive(f) \/ PeerEnd(f) PROVE CloserInv'
  BY <1>1, <1>7 DEF PeerSend, PeerReceive, PeerEnd
<1>8. ASSUME NEW f \in FD, Copy(f), ~Delete(f) PROVE CloserInv'
  BY <1>1, <1>8, CopyMoves
<1>9. CASE UNCHANGED vars
  BY <1>1, <1>9 DEF vars
<1> QED BY <1>2, <1>3, <1>4, <1>5, <1>6, <1>7, <1>8, <1>9 DEF Next, LoopStep, CloseStep

\* While the goroutines run, and after, no socket is opened or put into the
\* table, and a flag that is closed stays closed.
LEMMA ClosedStep ==
  ASSUME TypeOK, FlagMatches, [Next]_vars
  PROVE  /\ tpc \in {"run", "returned"} => conns' \subseteq conns /\ sysopen' \subseteq sysopen
         /\ \A g \in FD : (rflag[g] = 3 => rflag'[g] = 3) /\ (wflag[g] = 3 => wflag'[g] = 3)
<1> USE OtherFacts DEF TypeOK, netVars, pdVars, loopVars, tabVars, copyVars, closeVars, Here
<1> DEFINE Shrinks == conns' \subseteq conns /\ sysopen' \subseteq sysopen
           Stays == \A g \in FD : (rflag[g] = 3 => rflag'[g] = 3) /\ (wflag[g] = 3 => wflag'[g] = 3)
<1>1. CASE TransferStep
  BY <1>1 DEF TransferStep, AddConn, TransferReturn
<1>2. CASE EpollWait \/ EpollFails
  BY <1>2 DEF EpollWait, EpollFails
<1>3. ASSUME NEW f \in FD, HandleEvent(f) \/ PeerSend(f) \/ PeerReceive(f) \/ PeerEnd(f)
      PROVE Shrinks /\ Stays
  BY <1>3 DEF HandleEvent, PeerSend, PeerReceive, PeerEnd
<1>4. ASSUME NEW f \in FD, Copy(f) PROVE Shrinks /\ Stays
  <2>1. CASE Enter(f) BY <2>1 DEF Enter, WriteLock, ReadLock, InitPipe, Unlocked
  <2>2. CASE Leave(f) BY <2>2 DEF Leave, Unlocked
  <2>3. CASE WaitReadFlag(f) BY <2>3 DEF WaitReadFlag
  <2>4. CASE WaitReadWoken(f) BY <2>4 DEF WaitReadWoken, FlagMatches
  <2>5. CASE WaitWriteFlag(f) BY <2>5 DEF WaitWriteFlag
  <2>6. CASE WaitWriteWoken(f) BY <2>6 DEF WaitWriteWoken, FlagMatches
  <2>7. CASE Delete(f) \/ WaitEnroll(f) \/ SpliceInFails(f) \/ SpliceInEnd(f) \/ SpliceIn(f)
             \/ SpliceInAgain(f) \/ SpliceOutFails(f) \/ SpliceOut(f) \/ SpliceOutAgain(f)
    BY <2>7 DEF Delete, WaitEnroll, SpliceInFails, SpliceInEnd, SpliceIn, SpliceInAgain, SpliceOutFails,
       SpliceOut, SpliceOutAgain
  <2> QED BY <1>4, <2>1, <2>2, <2>3, <2>4, <2>5, <2>6, <2>7 DEF Copy
<1>5. ASSUME NEW a \in Actor, CloseStep(a) PROVE Shrinks /\ Stays
  BY <1>5 DEF CloseStep, CloseWriteFlag, CloseReadFlag, CloseSysfd
<1>6. CASE UNCHANGED vars
  BY <1>6 DEF vars
<1> QED BY <1>1, <1>2, <1>3, <1>4, <1>5, <1>6 DEF Next, LoopStep

\* A goroutine that has closed a socket leaves nothing of it, whoever else
\* closes it at the same time; the first socket comes before the second.
LEMMA DeleteStep ==
  TypeOK /\ PhaseInv /\ FlagMatches /\ CloserInv /\ DeleteInv /\ [Next]_vars => DeleteInv'
<1> SUFFICES ASSUME TypeOK, PhaseInv, FlagMatches, CloserInv, DeleteInv, [Next]_vars PROVE DeleteInv'
  OBVIOUS
<1> USE OtherFacts DEF TypeOK, netVars, pdVars, loopVars, tabVars, copyVars, closeVars, Here
<1>0. ASSUME tpc \in {"run", "returned"}, NEW g \in FD, Closed(g) PROVE Closed(g)'
  BY <1>0, ClosedStep DEF Closed
<1>1. CASE tpc \notin {"run", "returned"}
  <2>1. \A f \in FD : pc[f] = "idle" /\ cpc[f] = "none"
    BY <1>1 DEF PhaseInv, DeleteInv
  <2>2. \A f \in FD : pc'[f] \in {"idle", "lock"} /\ cpc'[f] = "none"
    <3>1. CASE AddConn(1, "add1", "add2") \/ AddConn(2, "add2", "run") BY <2>1, <3>1 DEF AddConn
    <3>2. CASE EpollWait \/ EpollFails \/ TransferReturn
      BY <2>1, <3>2 DEF EpollWait, EpollFails, TransferReturn
    <3>3. ASSUME NEW f \in FD, HandleEvent(f) PROVE \A g \in FD : pc'[g] \in {"idle", "lock"} /\ cpc'[g] = "none"
      BY <2>1, <3>3, SignalFacts DEF HandleEvent
    <3>4. ASSUME NEW f \in FD, PeerSend(f) \/ PeerReceive(f) \/ PeerEnd(f)
          PROVE UNCHANGED <<pc, cpc>>
      BY <3>4 DEF PeerSend, PeerReceive, PeerEnd
    <3>5. ASSUME NEW f \in FD, Copy(f) PROVE FALSE
      BY <2>1, <3>5 DEF Copy, Enter, WriteLock, ReadLock, InitPipe, Unlocked, Leave, Delete, WaitEnroll, SpliceInFails, SpliceInEnd, SpliceIn, SpliceInAgain,
       WaitReadFlag, WaitReadWoken, SpliceOutFails, SpliceOut, SpliceOutAgain, WaitWriteFlag, WaitWriteWoken
    <3>6. ASSUME NEW a \in Actor, CloseWriteFlag(a) PROVE \A g \in FD : pc'[g] \in {"idle", "lock"} /\ cpc'[g] = "none"
      BY <2>1, <3>6, SignalFacts DEF CloseWriteFlag
    <3>7. ASSUME NEW a \in Actor, CloseReadFlag(a) PROVE \A g \in FD : pc'[g] \in {"idle", "lock"} /\ cpc'[g] = "none"
      BY <2>1, <3>7, SignalFacts DEF CloseReadFlag, CloseSysfd
    <3>8. CASE UNCHANGED vars
      BY <2>1, <3>8 DEF vars
    <3> QED BY <2>1, <3>1, <3>2, <3>3, <3>4, <3>5, <3>6, <3>7, <3>8 DEF Next, TransferStep, LoopStep, CloseStep
  <2>3. tpc' # "returned"
    BY <1>1, <2>1, ZenonT(60) DEF Next, TransferStep, LoopStep, CloseStep, AddConn, TransferReturn, EpollWait, EpollFails, HandleEvent,
       PeerSend, PeerReceive, PeerEnd, CloseWriteFlag, CloseReadFlag, vars, Copy, Enter, WriteLock, ReadLock, InitPipe, Unlocked, Leave, Delete, WaitEnroll,
       SpliceInFails, SpliceInEnd, SpliceIn, SpliceInAgain,
       WaitReadFlag, WaitReadWoken, SpliceOutFails, SpliceOut, SpliceOutAgain, WaitWriteFlag, WaitWriteWoken
  <2> QED BY <2>2, <2>3 DEF DeleteInv
<1>2. CASE tpc \in {"run", "returned"}
  <2>0. \A g \in FD : Closed(g) => Closed(g)'
    BY <1>0, <1>2
  <2>1. conns' \subseteq conns /\ \A g \in FD : wflag[g] = 3 => wflag'[g] = 3
    BY <1>2, ClosedStep
  <2> HIDE DEF Closed
  <2>2. ASSUME tpc' = tpc, UNCHANGED <<cpc, ctgt>>,
               \A f \in FD : /\ pc[f] = "delete" => pc'[f] = "delete"
                             /\ pc'[f] = "done" => pc[f] = "done"
        PROVE  DeleteInv'
    BY <2>0, <2>1, <2>2 DEF DeleteInv
  <2>3. CASE TransferStep
    BY <1>2, <2>0, <2>1, <2>3 DEF TransferStep, AddConn, TransferReturn, DeleteInv
  <2>4. CASE EpollWait \/ EpollFails
    BY <2>2, <2>4 DEF EpollWait, EpollFails
  <2>5. ASSUME NEW f \in FD, HandleEvent(f) PROVE DeleteInv'
    <3>1. tpc' = tpc /\ \A g \in FD : cpc'[g] = cpc[g] /\ ctgt'[g] = ctgt[g]
      BY <2>5 DEF HandleEvent
    <3>2. \A g \in FD : /\ pc[g] = "delete" => pc'[g] = "delete"
                        /\ pc'[g] = "done" => pc[g] = "done"
      BY <2>5, SignalFacts DEF HandleEvent
    <3> QED BY <2>0, <2>1, <3>1, <3>2 DEF DeleteInv
  <2>6. ASSUME NEW f \in FD, PeerSend(f) \/ PeerReceive(f) \/ PeerEnd(f) PROVE DeleteInv'
    BY <2>2, <2>6 DEF PeerSend, PeerReceive, PeerEnd
  <2>7. ASSUME NEW f \in FD, Delete(f) PROVE DeleteInv'
    BY <2>0, <2>1, <2>7 DEF Delete, DeleteInv
  <2>8. ASSUME NEW f \in FD, Copy(f), ~Delete(f) PROVE DeleteInv'
    <3>1. tpc' = tpc /\ UNCHANGED <<cpc, ctgt>>
      BY <2>8, CopyMoves
    <3>2. pc[f] # "delete" /\ \E to : to # "done" /\ pc' = [pc EXCEPT ![f] = to]
      BY <2>8, CopyMoves DEF Reading, Writing, Entering, Locked
    <3>3. \A g \in FD : /\ pc[g] = "delete" => pc'[g] = "delete"
                        /\ pc'[g] = "done" => pc[g] = "done"
      BY <3>2
    <3> QED BY <2>2, <3>1, <3>3
  <2>9. ASSUME NEW a \in Actor, CloseWriteFlag(a) PROVE DeleteInv'
    <3>1. \A g \in FD : /\ pc[g] = "delete" => pc'[g] = "delete"
                        /\ pc'[g] = "done" => pc[g] = "done"
      BY <2>9, SignalFacts DEF CloseWriteFlag
    <3> QED BY <2>0, <2>1, <2>9, <3>1 DEF CloseWriteFlag, DeleteInv
  <2>10. ASSUME NEW a \in Actor, CloseReadFlag(a) PROVE DeleteInv'
    <3>1. CASE rflag[ctgt[a]] = 2
      <4>1. \A g \in FD : /\ pc[g] = "delete" => pc'[g] = "delete"
                          /\ pc'[g] = "done" => pc[g] = "done"
        BY <2>10, <3>1, SignalFacts DEF CloseReadFlag
      <4> QED BY <2>2, <2>10, <3>1, <4>1 DEF CloseReadFlag
    <3>2. CASE rflag[ctgt[a]] # 2
      <4>1. a \in FD => Closed(ctgt[a])'
        BY <2>1, <2>10, <3>2 DEF CloseReadFlag, CloseSysfd, Closed, DeleteInv
      <4>2. /\ tpc' = tpc /\ ctgt' = ctgt
            /\ cpc' = [cpc EXCEPT ![a] = IF a # 0 /\ ctgt[a] = 1 THEN "next" ELSE "none"]
            /\ pc' = IF a # 0 /\ ctgt[a] = 2 THEN [pc EXCEPT ![a] = "done"] ELSE pc
            /\ cpc[a] = "rspin"
        BY <2>10, <3>2 DEF CloseReadFlag, CloseSysfd
      <4>3. CASE a = 0
        BY <2>0, <2>1, <4>2, <4>3 DEF DeleteInv
      <4>4. CASE a \in FD /\ ctgt[a] = 1
        BY <2>0, <2>1, <4>1, <4>2, <4>4 DEF DeleteInv
      <4>5. CASE a \in FD /\ ctgt[a] = 2
        <5>1. \A g \in FD : Closed(g)'
          BY <2>0, <4>1, <4>2, <4>5 DEF DeleteInv, FD
        <5> QED BY <2>0, <2>1, <4>2, <4>5, <5>1 DEF DeleteInv
      <4> QED BY <4>3, <4>4, <4>5 DEF FD
    <3> QED BY <3>1, <3>2
  <2>11. CASE UNCHANGED vars
    BY <2>2, <2>11 DEF vars
  <2> QED BY <2>3, <2>4, <2>5, <2>6, <2>7, <2>8, <2>9, <2>10, <2>11 DEF Next, LoopStep, CloseStep
<1> QED BY <1>1, <1>2

\* An error stays set, and a reset is for good.
LEMMA DownGrows ==
  ASSUME TypeOK, [Next]_vars
  PROVE  err \subseteq err' /\ \A g \in FD : gone[g] = "reset" => gone'[g] = "reset"
<1> USE OtherFacts DEF TypeOK, netVars, pdVars, loopVars, tabVars, copyVars, closeVars, Here
<1>1. \A g \in FD : gone[g] = "reset" => gone'[g] = "reset"
  <2>1. CASE TransferStep \/ EpollWait \/ EpollFails
    BY <2>1 DEF TransferStep, AddConn, TransferReturn, EpollWait, EpollFails
  <2>2. ASSUME NEW h \in FD, HandleEvent(h) \/ PeerSend(h) \/ PeerReceive(h) \/ PeerEnd(h)
        PROVE \A g \in FD : gone[g] = "reset" => gone'[g] = "reset"
    BY <2>2 DEF HandleEvent, PeerSend, PeerReceive, PeerEnd
  <2>3. ASSUME NEW h \in FD, Copy(h) PROVE UNCHANGED gone
    BY <2>3, CopyMoves DEF Delete
  <2>4. ASSUME NEW a \in Actor, CloseStep(a) PROVE UNCHANGED gone
    BY <2>4 DEF CloseStep, CloseWriteFlag, CloseReadFlag
  <2>5. CASE UNCHANGED vars BY <2>5 DEF vars
  <2> QED BY <2>1, <2>2, <2>3, <2>4, <2>5 DEF Next, LoopStep
<1>2. err \subseteq err'
  <2>1. CASE TransferStep \/ EpollWait \/ EpollFails
    BY <2>1 DEF TransferStep, AddConn, TransferReturn, EpollWait, EpollFails
  <2>2. ASSUME NEW h \in FD, HandleEvent(h) \/ PeerSend(h) \/ PeerReceive(h) \/ PeerEnd(h)
        PROVE err \subseteq err'
    BY <2>2 DEF HandleEvent, PeerSend, PeerReceive, PeerEnd
  <2>3. ASSUME NEW h \in FD, Copy(h) PROVE err \subseteq err'
    BY <2>3, CopyMoves DEF Delete
  <2>4. ASSUME NEW a \in Actor, CloseStep(a) PROVE UNCHANGED err
    BY <2>4 DEF CloseStep, CloseWriteFlag, CloseReadFlag
  <2>5. CASE UNCHANGED vars BY <2>5 DEF vars
  <2> QED BY <2>1, <2>2, <2>3, <2>4, <2>5 DEF Next, LoopStep
<1> QED BY <1>1, <1>2

\* What can no longer be written stays so while the goroutines run.
LEMMA LostStep ==
  ASSUME TypeOK, PhaseInv, FlagMatches, [Next]_vars, NEW f \in FD, pc[f] # "idle"
  PROVE  /\ Lost(f) => Lost(f)'
         /\ err \subseteq err'
<1>1. tpc \in {"run", "returned"}
  BY DEF PhaseInv, TypeOK
<1>2. sysopen' \subseteq sysopen
  BY <1>1, ClosedStep
<1> QED BY <1>2, DownGrows, OtherFacts DEF Lost

\* FlushComplete for goroutine f.
FlushOf(f) ==
    (pc[f] = "destroy" /\ pipe[f] > 0) =>
        \/ Other(f) \notin sysopen \/ Other(f) \in err \/ gone[Other(f)] = "reset"
        \/ why[f] = "readerror" /\ pipe[f] = 1

\* A step that changes nothing of goroutine f but where it is among the places
\* of the same kind keeps what is known of its bytes.
LEMMA CopyKept ==
  ASSUME TypeOK, PhaseInv, FlagMatches, [Next]_vars, NEW f \in FD, CopyOf(f), FlushOf(f),
         inbuf'[f] = inbuf[f], pipe'[f] = pipe[f], why'[f] = why[f], f \in flushing' <=> f \in flushing,
         \/ pc'[f] = pc[f]
         \/ pc[f] \in Reading /\ pc'[f] \in Reading
         \/ pc[f] \in Writing /\ pc'[f] \in Writing
         \/ pc[f] \in {"idle"} \cup Entering /\ pc'[f] \in Entering \cup {"read"}
         \/ pc'[f] \in {"delete", "done"}
  PROVE  CopyOf(f)' /\ FlushOf(f)'
<1> USE OtherFacts DEF Reading, Writing, Entering, Locked
<1>1. CASE pc[f] = "idle"
  BY <1>1 DEF CopyOf, FlushOf
<1>2. CASE pc[f] # "idle"
  <2>1. (Lost(f) => Lost(f)') /\ err \subseteq err'
    BY <1>2, LostStep
  <2>2. CopyOf(f)'
    BY <2>1 DEF CopyOf
  <2>3. FlushOf(f)'
    BY <2>1 DEF FlushOf, Lost
  <2> QED BY <2>2, <2>3
<1> QED BY <1>1, <1>2

\* inbuf and the pipe agree up to a failed call, and nothing is dropped with
\* the pipe that could still be written.
LEMMA CopyStep ==
  TypeOK /\ PhaseInv /\ LockInv /\ FlagMatches /\ DeleteInv /\ CopyInv /\ FlushComplete /\ [Next]_vars
    => CopyInv' /\ FlushComplete'
<1> SUFFICES ASSUME TypeOK, PhaseInv, LockInv, FlagMatches, DeleteInv, CopyInv, FlushComplete, [Next]_vars,
                    NEW f \in FD
             PROVE  CopyOf(f)' /\ FlushOf(f)'
  BY DEF CopyInv, FlushComplete, FlushOf
<1>0. CopyOf(f) /\ FlushOf(f)
  BY DEF CopyInv, FlushComplete, FlushOf
<1> USE OtherFacts DEF TypeOK, netVars, pdVars, loopVars, tabVars, copyVars, closeVars, Here, Reading, Writing, Entering, Locked
<1>1. CASE TransferStep
  <2>1. pc' = pc \/ (pc[f] = "idle" /\ pc'[f] = "lock")
    BY <1>1 DEF TransferStep, AddConn, TransferReturn, PhaseInv
  <2> QED BY <1>0, <1>1, <2>1, CopyKept DEF TransferStep, AddConn, TransferReturn
<1>2. CASE EpollWait \/ EpollFails
  BY <1>0, <1>2, CopyKept DEF EpollWait, EpollFails
<1>3. ASSUME NEW h \in FD, HandleEvent(h) PROVE CopyOf(f)' /\ FlushOf(f)'
  <2>1. Woken(f, pc')
    BY <1>3, WakeFacts
  <2> QED BY <1>0, <1>3, <2>1, CopyKept DEF HandleEvent, Woken
<1>4. ASSUME NEW h \in FD, PeerSend(h) \/ PeerReceive(h) \/ PeerEnd(h) PROVE CopyOf(f)' /\ FlushOf(f)'
  BY <1>0, <1>4, CopyKept DEF PeerSend, PeerReceive, PeerEnd
<1>5. ASSUME NEW a \in Actor, CloseStep(a) PROVE CopyOf(f)' /\ FlushOf(f)'
  <2>1. Woken(f, pc') \/ pc'[f] = "done"
    BY <1>5, WakeFacts
  <2> QED BY <1>0, <1>5, <2>1, CopyKept DEF CloseStep, CloseWriteFlag, CloseReadFlag, Woken
<1>6. CASE UNCHANGED vars
  BY <1>0, <1>6, CopyKept DEF vars
<1>7. ASSUME NEW h \in FD, Copy(h), h # f PROVE CopyOf(f)' /\ FlushOf(f)'
  <2>1. pc'[f] = pc[f]
    BY <1>7, CopyMoves DEF Delete
  <2>2. inbuf'[f] = inbuf[f] /\ pipe'[f] = pipe[f] /\ why'[f] = why[f] /\ (f \in flushing' <=> f \in flushing)
    <3>1. CASE Enter(h) \/ Leave(h) \/ Delete(h) \/ WaitEnroll(h)
      BY <1>7, <3>1 DEF Enter, WriteLock, ReadLock, InitPipe, Unlocked, Leave, Delete, WaitEnroll
    <3>2. CASE SpliceInFails(h) \/ SpliceInEnd(h) \/ SpliceOutFails(h)
      BY <1>7, <3>2 DEF SpliceInFails, SpliceInEnd, SpliceOutFails, Ends
    <3>3. CASE SpliceIn(h) \/ SpliceInAgain(h) \/ SpliceOut(h) \/ SpliceOutAgain(h)
      BY <1>7, <3>3 DEF SpliceIn, SpliceInAgain, SpliceOut, SpliceOutAgain
    <3>4. CASE WaitReadFlag(h) \/ WaitReadWoken(h) \/ WaitWriteFlag(h) \/ WaitWriteWoken(h)
      BY <1>7, <3>4 DEF WaitReadFlag, WaitReadWoken, WaitWriteFlag, WaitWriteWoken, Ends
    <3> QED BY <1>7, <3>1, <3>2, <3>3, <3>4 DEF Copy
  <2> QED BY <1>0, <2>1, <2>2, CopyKept
<1>8. ASSUME Copy(f) PROVE CopyOf(f)' /\ FlushOf(f)'
  <2> USE DEF Goto
  <2>0. pc[f] # "idle"
    BY <1>8, CopyMoves DEF Delete, DeleteInv
  <2>1. (Lost(f) => Lost(f)') /\ err \subseteq err'
    BY <2>0, LostStep
  <2>2. CASE Enter(f) BY <1>0, <2>2, CopyKept DEF Enter, WriteLock, ReadLock, InitPipe, Unlocked
  <2>3. CASE Leave(f) BY <1>0, <2>3, SpliceAssumption DEF Leave, Unlocked, CopyOf, FlushOf
  <2>4. CASE Delete(f) BY <1>0, <2>4, CopyKept DEF Delete
  <2>5. CASE WaitEnroll(f) BY <1>0, <2>5, CopyKept DEF WaitEnroll
  <2>6. CASE SpliceInFails(f)
    BY <1>0, <2>6 DEF SpliceInFails, Ends, CopyOf, FlushOf
  <2>7. CASE SpliceInEnd(f)
    BY <1>0, <2>7 DEF SpliceInEnd, Ends, CopyOf, FlushOf
  <2>8. CASE SpliceIn(f)
    BY <1>0, <2>8, SpliceAssumption DEF SpliceIn, CopyOf, FlushOf
  <2>9. CASE SpliceInAgain(f)
    BY <1>0, <2>9 DEF SpliceInAgain, AfterRead, CopyOf, FlushOf
  <2>10. CASE WaitReadFlag(f)
    BY <1>0, <2>10 DEF WaitReadFlag, Ends, CopyOf, FlushOf
  <2>11. CASE WaitReadWoken(f)
    BY <1>0, <2>11 DEF WaitReadWoken, Ends, CopyOf, FlushOf
  <2>12. CASE SpliceOutFails(f)
    <3>1. Lost(f) /\ Lost(f)'
      BY <2>1, <2>12 DEF SpliceOutFails, Lost
    <3> QED BY <1>0, <2>12, <3>1 DEF SpliceOutFails, Ends, CopyOf, FlushOf, Lost
  <2>13. CASE SpliceOut(f)
    <3>1. ~Lost(f)
      BY <2>13 DEF SpliceOut, Lost
    <3>2. PICK n \in 1 .. inbuf[f] :
             /\ pipe' = [pipe EXCEPT ![f] = @ - n]
             /\ inbuf' = [inbuf EXCEPT ![f] = @ - n] /\ Goto(f, AfterWrite(f, inbuf[f] - n))
      BY <2>13 DEF SpliceOut
    <3>3. pc[f] = "write" /\ UNCHANGED <<flushing, why>>
      BY <2>13 DEF SpliceOut
    <3> QED BY <1>0, <3>1, <3>2, <3>3, SpliceAssumption DEF AfterWrite, CopyOf, FlushOf
  <2>14. CASE SpliceOutAgain(f) BY <1>0, <2>14, CopyKept DEF SpliceOutAgain
  <2>15. CASE WaitWriteFlag(f)
    <3>1. CASE wflag[Other(f)] = 1
      BY <1>0, <2>15, <3>1, CopyKept DEF WaitWriteFlag
    <3>2. CASE wflag[Other(f)] # 1
      <4>1. wflag[Other(f)] = 3 /\ Other(f) \in err
        <5>1. pc[f] = "waitwrite" BY <2>15 DEF WaitWriteFlag
        <5>2. wflag[Other(f)] # 0 BY <5>1 DEF LockInv
        <5>3. wflag[Other(f)] # 2 BY <5>1 DEF FlagMatches
        <5>4. wflag[Other(f)] = 3 BY <3>2, <5>2, <5>3
        <5> QED BY <5>4 DEF FlagMatches
      <4> QED BY <1>0, <2>1, <2>15, <3>2, <4>1 DEF WaitWriteFlag, Ends, CopyOf, FlushOf
    <3> QED BY <3>1, <3>2
  <2>16. CASE WaitWriteWoken(f)
    <3>1. CASE Other(f) \notin err
      BY <1>0, <2>16, <3>1, CopyKept DEF WaitWriteWoken
    <3>2. CASE Other(f) \in err
      BY <1>0, <2>1, <2>16, <3>2 DEF WaitWriteWoken, Ends, CopyOf, FlushOf
    <3> QED BY <3>1, <3>2
  <2> QED BY <1>8, <2>2, <2>3, <2>4, <2>5, <2>6, <2>7, <2>8, <2>9, <2>10, <2>11, <2>12, <2>13,
             <2>14, <2>15, <2>16 DEF Copy
<1> QED BY <1>1, <1>2, <1>3, <1>4, <1>5, <1>6, <1>7, <1>8 DEF Next, LoopStep

\* The inductive invariant holds in every state, whatever the interleaving of
\* the goroutines, the event loop, the peers and the failing calls.
THEOREM Invariance == Spec => []IndInv
<1>1. Init => IndInv
  <2> SUFFICES ASSUME Init PROVE IndInv
    OBVIOUS
  <2> USE OtherFacts, SpliceAssumption DEF Init
  <2>1. TypeOK BY DEF TypeOK, PC, Reason, ClosePC, Actor
  <2>2. PhaseInv /\ LockInv /\ FlagMatches /\ CloserInv
    BY DEF PhaseInv, LockInv, FlagMatches, CloserInv, Reading, Writing, Entering, Locked, Actor
  <2>3. DeleteInv /\ CopyInv /\ FlushComplete
    BY DEF DeleteInv, CopyInv, CopyOf, FlushComplete, Reading, Writing, Entering, Locked, Actor
  <2> QED BY <2>1, <2>2, <2>3 DEF IndInv
<1>2. IndInv /\ [Next]_vars => IndInv'
  BY TypeStep, PhaseStep, LockStep, FlagStep, CloserStep, DeleteStep, CopyStep DEF IndInv
<1> QED BY <1>1, <1>2, PTL DEF Spec

\* FlagMatches in every state: a wait flag says 2 exactly while its goroutine
\* waits, so pd.Close neither skips a goroutine nor spins for nobody, and a
\* flag is closed only on a socket whose error is set.
THEOREM FlagsCorrect == Spec => []FlagMatches
<1>1. IndInv => FlagMatches BY DEF IndInv
<1> QED BY <1>1, Invariance, PTL

\* FlushComplete in every state: sp.destroy throws no byte away that could
\* still have been written, but for the one that a failed read miscounts.
THEOREM FlushCorrect == Spec => []FlushComplete
<1>1. IndInv => FlushComplete BY DEF IndInv
<1> QED BY <1>1, Invariance, PTL

\* ClosedOnReturn in every state: when Transfer returns nothing is left of
\* either socket, however the two goroutines and the event loop interleave
\* their closing.
THEOREM ReturnCorrect == Spec => []ClosedOnReturn
<1>1. IndInv => ClosedOnReturn
  BY DEF IndInv, TypeOK, DeleteInv, Closed, ClosedOnReturn
<1> QED BY <1>1, Invariance, PTL

\* While the goroutines run no closed socket is opened again and a closed flag
\* stays closed: the closing by several actors is never undone.
ClosedForGood ==
    /\ tpc \in {"run", "returned"} => conns' \subseteq conns /\ sysopen' \subseteq sysopen
    /\ \A g \in FD : (rflag[g] = 3 => rflag'[g] = 3) /\ (wflag[g] = 3 => wflag'[g] = 3)

\* Every step keeps what has been closed.
THEOREM ClosingIsFinal == Spec => [][ClosedForGood]_vars
<1>1. IndInv /\ [Next]_vars => [ClosedForGood]_vars
  BY ClosedStep DEF IndInv, ClosedForGood
<1> QED BY <1>1, Invariance, PTL DEF Spec

-----------------------------------------------------------------------------
\* A socket is open from the time it is added until its error has been set,
\* and reading fails only on a socket that is reset or being closed.
DownInv ==
    /\ tpc = "add2" => 1 \in sysopen \cup err
    /\ tpc \in {"run", "returned"} => FD \subseteq sysopen \cup err
    /\ \A f \in FD : why[f] = "readerror" => f \in err \/ gone[f] = "reset"

\* Copying changes why by a reason, and by a failed read only while reading.
LEMMA WhyStep ==
  ASSUME TypeOK, [Next]_vars, NEW f \in FD, why'[f] = "readerror"
  PROVE  why[f] = "readerror" \/ SpliceInFails(f)
<1> USE OtherFacts DEF TypeOK, netVars, pdVars, loopVars, tabVars, copyVars, closeVars, Here
<1>1. ASSUME NEW h \in FD, Copy(h) PROVE why'[f] = why[f] \/ SpliceInFails(f)
  <2>1. CASE Enter(h) \/ Leave(h) \/ Delete(h) \/ WaitEnroll(h)
    BY <2>1 DEF Enter, WriteLock, ReadLock, InitPipe, Unlocked, Leave, Delete, WaitEnroll
  <2>2. CASE SpliceIn(h) \/ SpliceInAgain(h) \/ SpliceOut(h) \/ SpliceOutAgain(h)
    BY <2>2 DEF SpliceIn, SpliceInAgain, SpliceOut, SpliceOutAgain
  <2>3. CASE SpliceInFails(h)
    <3>1. why' = [why EXCEPT ![h] = IF @ = "no" THEN "readerror" ELSE @]
      BY <2>3 DEF SpliceInFails, Ends
    <3> QED BY <2>3, <3>1
  <2>4. CASE SpliceInEnd(h) \/ SpliceOutFails(h)
    BY <2>4 DEF SpliceInEnd, SpliceOutFails, Ends
  <2>5. CASE WaitReadFlag(h) \/ WaitReadWoken(h)
    BY <2>5 DEF WaitReadFlag, WaitReadWoken, Ends
  <2>6. CASE WaitWriteFlag(h) \/ WaitWriteWoken(h)
    BY <2>6 DEF WaitWriteFlag, WaitWriteWoken, Ends
  <2> QED BY <1>1, <2>1, <2>2, <2>3, <2>4, <2>5, <2>6 DEF Copy
<1>2. CASE TransferStep \/ EpollWait \/ EpollFails
  BY <1>2 DEF TransferStep, AddConn, TransferReturn, EpollWait, EpollFails
<1>3. ASSUME NEW h \in FD, HandleEvent(h) \/ PeerSend(h) \/ PeerReceive(h) \/ PeerEnd(h) PROVE UNCHANGED why
  BY <1>3 DEF HandleEvent, PeerSend, PeerReceive, PeerEnd
<1>4. ASSUME NEW a \in Actor, CloseStep(a) PROVE UNCHANGED why
  BY <1>4 DEF CloseStep, CloseWriteFlag, CloseReadFlag
<1>5. CASE UNCHANGED vars BY <1>5 DEF vars
<1> QED BY <1>1, <1>2, <1>3, <1>4, <1>5 DEF Next, LoopStep

\* Only a socket whose error is set is closed.
LEMMA DownStep == IndInv /\ DownInv /\ [Next]_vars => DownInv'
<1> SUFFICES ASSUME IndInv, DownInv, [Next]_vars PROVE DownInv'
  OBVIOUS
<1> USE OtherFacts DEF IndInv, TypeOK, netVars, pdVars, loopVars, tabVars, copyVars, closeVars, Here
<1>0. err \subseteq err' /\ \A g \in FD : gone[g] = "reset" => gone'[g] = "reset"
  BY DownGrows
<1>1. ASSUME NEW f \in FD, why'[f] = "readerror" PROVE f \in err' \/ gone'[f] = "reset"
  <2>1. why[f] = "readerror" \/ SpliceInFails(f)
    BY <1>1, WhyStep
  <2>2. CASE why[f] = "readerror"
    BY <1>0, <2>2 DEF DownInv
  <2>3. CASE SpliceInFails(f)
    <3>1. tpc \in {"run", "returned"} /\ (f \notin sysopen \/ gone[f] = "reset")
      BY <2>3 DEF SpliceInFails, PhaseInv
    <3> QED BY <1>0, <3>1 DEF DownInv
  <2> QED BY <2>1, <2>2, <2>3
<1>2. ASSUME tpc' = tpc, sysopen \subseteq sysopen' \cup err PROVE DownInv'
  BY <1>0, <1>1, <1>2 DEF DownInv
<1>3. CASE TransferStep
  BY <1>0, <1>1, <1>3 DEF TransferStep, AddConn, TransferReturn, DownInv, FD
<1>4. CASE EpollWait \/ EpollFails
  BY <1>2, <1>4 DEF EpollWait, EpollFails
<1>5. ASSUME NEW f \in FD, HandleEvent(f) \/ PeerSend(f) \/ PeerReceive(f) \/ PeerEnd(f) PROVE DownInv'
  BY <1>2, <1>5 DEF HandleEvent, PeerSend, PeerReceive, PeerEnd
<1>6. ASSUME NEW f \in FD, Copy(f) PROVE DownInv'
  BY <1>2, <1>6, CopyMoves DEF Delete
<1>7. ASSUME NEW a \in Actor, CloseStep(a) PROVE DownInv'
  <2>1. tpc' = tpc /\ (sysopen' = sysopen \/ (cpc[a] = "rspin" /\ sysopen' = sysopen \ {ctgt[a]}))
    BY <1>7 DEF CloseStep, CloseWriteFlag, CloseReadFlag, CloseSysfd
  <2> QED BY <1>2, <2>1 DEF CloserInv
<1>8. CASE UNCHANGED vars
  BY <1>2, <1>8 DEF vars
<1> QED BY <1>3, <1>4, <1>5, <1>6, <1>7, <1>8 DEF Next, LoopStep

\* What the relay's variables stand for.
Leaving == [f \in FD |-> out[Other(f)]]
Down == err \cup {f \in FD : gone[f] = "reset"}
relayVars == <<tosend, rbuf, pipe, Leaving, Down>>

\* The relay's ends are the sockets.
LEMMA RelayNames == Relay!End = FD /\ \A f \in FD : Relay!Other(f) = Other(f)
BY DEF Relay!End, Relay!Other, FD, Other

\* A step that sets errors and moves no byte is a step of the relay.
LEMMA RelayErr ==
  ASSUME TypeOK, CopyInv, err \subseteq err', err' \subseteq FD, UNCHANGED <<tosend, rbuf, pipe, out, gone>>
  PROVE  Relay!Break
<1> USE OtherFacts, RelayNames, SpliceAssumption DEF TypeOK
<1>1. pipe \in [FD -> Nat] /\ Leaving \in [FD -> Nat] /\ rbuf \in [FD -> Nat]
  BY DEF CopyInv, CopyOf, Leaving
<1>2. Leaving' = Leaving
  BY DEF Leaving
<1>3. Down \subseteq Down' /\ Down' \subseteq FD
  BY DEF Down
<1> QED BY <1>1, <1>2, <1>3 DEF Relay!Break, Leaving, Down

\* Every step of a transfer is a step of the relay or none of its steps.
LEMMA RelayStep == IndInv /\ DownInv /\ [Next]_vars => [Relay!Next]_relayVars
<1> SUFFICES ASSUME IndInv, DownInv, Next, ~UNCHANGED relayVars PROVE Relay!Next
  BY DEF vars, netVars, pdVars, copyVars, relayVars, Leaving, Down
<1> USE OtherFacts, RelayNames, SpliceAssumption DEF IndInv, TypeOK, netVars, pdVars, loopVars, tabVars, copyVars, closeVars, Here
<1>1. ~UNCHANGED <<tosend, rbuf, pipe, out, gone, err>>
  BY DEF relayVars, Leaving, Down
<1>2. TypeOK'
  BY TypeStep
<1>3. CopyInv'
  BY CopyStep
<1>4. {pipe, rbuf, Leaving} \subseteq [FD -> Nat] /\ {pipe', rbuf', Leaving'} \subseteq [FD -> Nat]
  BY <1>2, <1>3 DEF CopyInv, CopyOf, Leaving
<1>5. ~(TransferStep \/ EpollWait \/ EpollFails)
  BY <1>1 DEF TransferStep, AddConn, TransferReturn, EpollWait, EpollFails
<1>6. ASSUME NEW a \in Actor, CloseStep(a) PROVE FALSE
  BY <1>1, <1>6 DEF CloseStep, CloseWriteFlag, CloseReadFlag
<1>7. ASSUME NEW f \in FD, HandleEvent(f) \/ Delete(f) PROVE Relay!Next
  BY <1>2, <1>7, DownGrows, RelayErr DEF HandleEvent, Delete, Relay!Next
<1>8. ASSUME NEW f \in FD, PeerSend(f) PROVE Relay!Next
  <2>1. Leaving' = Leaving /\ Down' = Down
    BY <1>8 DEF PeerSend, Leaving, Down
  <2>2. Relay!Send(f)
    BY <1>8, <2>1 DEF PeerSend, Relay!Send, Leaving, Down
  <2> QED BY <2>2 DEF Relay!Next
<1>9. ASSUME NEW f \in FD, PeerReceive(f) PROVE Relay!Next
  <2>1. Down' = Down
    BY <1>9 DEF PeerReceive, Down
  <2>2. Leaving[Other(f)] > 0 /\ Leaving' = [Leaving EXCEPT ![Other(f)] = @ - 1]
    BY <1>9 DEF PeerReceive, Leaving
  <2>3. Relay!Deliver(Other(f))
    BY <1>9, <2>1, <2>2 DEF PeerReceive, Relay!Deliver, Leaving, Down
  <2> QED BY <2>3 DEF Relay!Next
<1>10. ASSUME NEW f \in FD, PeerEnd(f) PROVE Relay!Next
  <2>1. PICK how \in {"end", "reset"} :
           /\ gone' = [gone EXCEPT ![f] = how]
           /\ rbuf' = [rbuf EXCEPT ![f] = IF how = "reset" THEN 0 ELSE @]
           /\ out' = [out EXCEPT ![f] = IF how = "reset" THEN 0 ELSE @]
    BY <1>10 DEF PeerEnd
  <2>2. UNCHANGED <<tosend, pipe, err>>
    BY <1>10 DEF PeerEnd
  <2>3. how = "reset"
    BY <1>1, <1>10, <2>1, <2>2 DEF PeerEnd, relayVars, Leaving, Down
  <2>4. Down \subseteq Down' /\ Down' \subseteq FD /\ f \in Down'
    BY <1>2, <2>1, <2>2, <2>3 DEF Down
  <2>5. \A g \in FD : /\ rbuf'[g] = rbuf[g] \/ (g \in Down' /\ rbuf'[g] < rbuf[g])
                      /\ Leaving'[g] = Leaving[g] \/ (Other(g) \in Down' /\ Leaving'[g] < Leaving[g])
    <3> TAKE g \in FD
    <3>1. CASE g = f
      BY <2>1, <2>3, <2>4, <3>1 DEF Leaving
    <3>2. CASE g = Other(f)
      BY <2>1, <2>3, <2>4, <3>2 DEF Leaving
    <3> QED BY <3>1, <3>2
  <2>6. Relay!Break
    BY <1>4, <2>2, <2>4, <2>5 DEF Relay!Break, Leaving, Down
  <2> QED BY <2>6 DEF Relay!Next
<1>11. ASSUME NEW f \in FD, Copy(f), ~Delete(f) PROVE Relay!Next
  <2>1. CASE Leave(f)
    <3>1. Leaving' = Leaving /\ Down' = Down /\ UNCHANGED <<rbuf, tosend>>
      BY <2>1 DEF Leave, Leaving, Down
    <3>2. pc[f] = "destroy" /\ pipe' = [pipe EXCEPT ![f] = 0]
      BY <2>1 DEF Leave
    <3>3. tpc \in {"run", "returned"}
      BY <3>2 DEF PhaseInv
    <3>4. pipe[f] > 0 => Other(f) \in Down \/ (f \in Down /\ pipe[f] = 1)
      BY <3>2, <3>3 DEF FlushComplete, DownInv, Down
    <3>5. \A g \in FD : \/ pipe'[g] = pipe[g]
                        \/ Other(g) \in Down' /\ pipe'[g] < pipe[g]
                        \/ g \in Down' /\ pipe'[g] = pipe[g] - 1
      BY <1>4, <3>1, <3>2, <3>4
    <3>6. Down \subseteq FD
      BY DEF Down
    <3>7. Relay!Break
      BY <1>4, <3>1, <3>5, <3>6 DEF Relay!Break, Leaving, Down
    <3> QED BY <3>7 DEF Relay!Next
  <2>2. CASE SpliceIn(f)
    <3>1. Leaving' = Leaving /\ Down' = Down
      BY <2>2 DEF SpliceIn, Leaving, Down
    <3>2. Relay!Take(f)
      BY <2>2, <3>1 DEF SpliceIn, Relay!Take, Leaving, Down
    <3> QED BY <3>2 DEF Relay!Next
  <2>3. CASE SpliceOut(f)
    <3>1. Down' = Down /\ UNCHANGED <<tosend, rbuf>> /\ pc[f] = "write" /\ ~Lost(f)
      BY <2>3 DEF SpliceOut, Down, Lost
    <3>2. PICK n \in 1 .. inbuf[f] :
             out' = [out EXCEPT ![Other(f)] = @ + n] /\ pipe' = [pipe EXCEPT ![f] = @ - n]
      BY <2>3 DEF SpliceOut
    <3>3. n \in 1 .. pipe[f]
      BY <3>1, <3>2 DEF CopyInv, CopyOf, Writing
    <3>4. Leaving' = [Leaving EXCEPT ![f] = @ + n]
      <4>1. \A g \in FD : out'[Other(g)] = IF g = f THEN out[Other(g)] + n ELSE out[Other(g)]
        BY <3>2
      <4> QED BY <4>1 DEF Leaving
    <3>5. Relay!Pass(f)
      BY <3>1, <3>2, <3>3, <3>4 DEF Relay!Pass, Leaving, Down
    <3> QED BY <3>5 DEF Relay!Next
  <2>4. CASE Enter(f) \/ WaitEnroll(f) \/ SpliceInFails(f) \/ SpliceInEnd(f) \/ SpliceInAgain(f)
             \/ WaitReadFlag(f) \/ WaitReadWoken(f)
    BY <1>1, <2>4 DEF Enter, WriteLock, ReadLock, InitPipe, Unlocked, WaitEnroll, SpliceInFails, SpliceInEnd, SpliceInAgain, WaitReadFlag, WaitReadWoken
  <2>5. CASE SpliceOutFails(f) \/ SpliceOutAgain(f) \/ WaitWriteFlag(f) \/ WaitWriteWoken(f)
    BY <1>1, <2>5 DEF SpliceOutFails, SpliceOutAgain, WaitWriteFlag, WaitWriteWoken
  <2> QED BY <1>11, <2>1, <2>2, <2>3, <2>4, <2>5 DEF Copy
<1> QED BY <1>5, <1>6, <1>7, <1>8, <1>9, <1>10, <1>11 DEF Next, LoopStep

\* Transfer implements the relay, for every number of bytes, size of buffers
\* and number of faults: each byte that arrives at one socket leaves at the
\* other once, and bytes are lost only with a socket that is reset or closed.
THEOREM TransferImplementsRelay == Spec => RelaySpec
<1>1. Init => Relay!Init /\ DownInv
  BY RelayNames, OtherFacts, SpliceAssumption DEF Init, Relay!Init, DownInv
<1>2. Spec => []DownInv
  BY <1>1, DownStep, Invariance, PTL DEF Spec
<1>3. IndInv /\ DownInv /\ [Next]_vars => [Relay!Next]_relayVars
  BY RelayStep
<1> QED BY <1>1, <1>2, <1>3, Invariance, PTL DEF Spec, RelaySpec, Relay!Spec, relayVars, Leaving, Down
=============================================================================
