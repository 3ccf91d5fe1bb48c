---------------------------- MODULE ToolsProofs ----------------------------
(***************************************************************************)
(* Proofs about the small tools of MCTools, each about the specification   *)
(* of one tool alone and for every value of its constants.                 *)
(***************************************************************************)
EXTENDS MCTools, CountingLemmas, SequenceTheorems, TLAPS

(***************************************************************************)
(* tinytcpserver                                                           *)
(***************************************************************************)
Reading == {c \in Sock : rpc[c] = "read"}

TinyType ==
    /\ tmpc \in {"start", "wait", "returned", "panic"}
    /\ started \in 0 .. NAcceptor + 1 /\ wg \in Nat /\ totalcount \in Int
    /\ apc \in [0 .. NAcceptor -> {"none", "listen", "accept", "ended"}]
    /\ rpc \in [Sock -> {"none", "read", "done", "close"}]

\* Acceptors are started in order; before the first nothing happens.
TinyStart ==
    /\ tmpc = "start" => started <= NAcceptor
    /\ \A i \in 0 .. NAcceptor : i >= started => apc[i] = "none"
    /\ tmpc = "returned" => wg = 0
    /\ started = 0 => tmpc = "start" /\ wg = 0 /\ \A c \in Sock : rpc[c] = "none"

\* The counter of wg is one short of those that have not called Done.
TinyCount ==
    /\ IF tmpc = "panic" THEN Tiny!Busy = {}
       ELSE Cardinality(Tiny!Busy) = wg + (IF started = 0 THEN 0 ELSE 1)
    /\ totalcount = Cardinality(Reading)

TinyInv == TinyType /\ TinyStart /\ TinyCount

\* Busy is a finite set of acceptors and readers.
LEMMA BusyFacts ==
  ASSUME TinyType
  PROVE  /\ IsFiniteSet(Tiny!Busy) /\ IsFiniteSet(Reading)
         /\ \A x : x \in Tiny!Busy <=>
               \/ \E i \in 0 .. NAcceptor : x = <<i, "acceptor">> /\ apc[i] \in {"listen", "accept"}
               \/ \E c \in Sock : x = <<c, "reader">> /\ rpc[c] \in {"read", "done"}
<1> DEFINE A == {i \in DOMAIN apc : apc[i] \in {"listen", "accept"}}
           R == {c \in Sock : rpc[c] \in {"read", "done"}}
<1>1. IsFiniteSet(0 .. NAcceptor) /\ IsFiniteSet(Sock)
  BY FS_Interval, ToolsAssumption
<1>2. IsFiniteSet(A) /\ IsFiniteSet(R) /\ IsFiniteSet(Reading)
  BY <1>1, FS_Subset DEF TinyType, Reading
<1>3. IsFiniteSet({"acceptor"}) /\ IsFiniteSet({"reader"})
  BY FS_Singleton
<1>4. IsFiniteSet(A \X {"acceptor"}) /\ IsFiniteSet(R \X {"reader"})
  BY <1>2, <1>3, FS_Product
<1>5. Tiny!Busy = (A \X {"acceptor"}) \cup (R \X {"reader"})
  BY DEF Tiny!Busy
<1>6. IsFiniteSet(Tiny!Busy)
  BY <1>4, <1>5, FS_Union
<1>7. \A x : x \in Tiny!Busy <=>
               \/ \E i \in 0 .. NAcceptor : x = <<i, "acceptor">> /\ apc[i] \in {"listen", "accept"}
               \/ \E c \in Sock : x = <<c, "reader">> /\ rpc[c] \in {"read", "done"}
  BY <1>5 DEF TinyType
<1> QED BY <1>2, <1>6, <1>7

\* Typing, and the order of the starts.
LEMMA TinyTypeStep == TinyInv /\ [Tiny!Next]_(Tiny!vars) => TinyType' /\ TinyStart'
<1> SUFFICES ASSUME TinyInv, [Tiny!Next]_(Tiny!vars) PROVE TinyType' /\ TinyStart'
  OBVIOUS
<1> USE ToolsAssumption DEF TinyInv, TinyType, TinyStart, Tiny!Runs, Tiny!Done
<1>1. CASE Tiny!StartAcceptor
  <2>1. started \in 0 .. NAcceptor /\ started + 1 \in 0 .. NAcceptor + 1 /\ 0 \in 0 .. NAcceptor
    BY <1>1 DEF Tiny!StartAcceptor
  <2>2. TinyType' BY <1>1, <2>1 DEF Tiny!StartAcceptor
  <2>3. TinyStart' BY <1>1, <2>1 DEF Tiny!StartAcceptor
  <2> QED BY <2>2, <2>3
<1>2. CASE Tiny!WaitReturns BY <1>2 DEF Tiny!WaitReturns
<1>3. ASSUME NEW i \in 0 .. NAcceptor, Tiny!Listen(i) PROVE TinyType' /\ TinyStart'
  BY <1>3 DEF Tiny!Listen
<1>4. ASSUME NEW i \in 0 .. NAcceptor, Tiny!AcceptorEnds(i) PROVE TinyType' /\ TinyStart'
  BY <1>4 DEF Tiny!AcceptorEnds
<1>5. ASSUME NEW i \in 0 .. NAcceptor, NEW c \in Sock, Tiny!Accept(i, c) PROVE TinyType' /\ TinyStart'
  BY <1>5 DEF Tiny!Accept
<1>6. ASSUME NEW c \in Sock, Tiny!ReadEnds(c) PROVE TinyType' /\ TinyStart'
  BY <1>6 DEF Tiny!ReadEnds
<1>7. ASSUME NEW c \in Sock, Tiny!ReaderDone(c) PROVE TinyType' /\ TinyStart'
  BY <1>7 DEF Tiny!ReaderDone
<1>8. ASSUME NEW c \in Sock, Tiny!CloseConn(c) PROVE TinyType' /\ TinyStart'
  BY <1>8 DEF Tiny!CloseConn
<1>9. CASE UNCHANGED Tiny!vars BY <1>9 DEF Tiny!vars
<1> QED BY <1>1, <1>2, <1>3, <1>4, <1>5, <1>6, <1>7, <1>8, <1>9 DEF Tiny!Next

\* The counters follow the acceptors and readers.
LEMMA TinyCountStep == TinyInv /\ [Tiny!Next]_(Tiny!vars) => TinyCount'
<1> SUFFICES ASSUME TinyInv, [Tiny!Next]_(Tiny!vars) PROVE TinyCount'
  OBVIOUS
<1>0. TinyType /\ TinyStart /\ TinyCount /\ TinyType' /\ TinyStart'
  BY TinyTypeStep DEF TinyInv
<1> DEFINE Acc(i) == <<i, "acceptor">>
           Rdr(c) == <<c, "reader">>
           IsBusy(x) == \/ \E i \in 0 .. NAcceptor : x = Acc(i) /\ apc[i] \in {"listen", "accept"}
                        \/ \E c \in Sock : x = Rdr(c) /\ rpc[c] \in {"read", "done"}
<1>a. /\ IsFiniteSet(Tiny!Busy) /\ IsFiniteSet(Reading) /\ Cardinality(Tiny!Busy) \in Nat /\ Cardinality(Reading) \in Nat
      /\ \A x : x \in Tiny!Busy <=> IsBusy(x)
  BY <1>0, BusyFacts, FS_CardinalityType
<1>b. \A x : x \in Tiny!Busy' <=> IsBusy(x)'
  BY <1>0 DEF Tiny!Busy, TinyType
<1>c. ASSUME NEW x, x \notin Tiny!Busy, Tiny!Busy' = Tiny!Busy \cup {x}
      PROVE  Cardinality(Tiny!Busy') = Cardinality(Tiny!Busy) + 1
  BY <1>a, <1>c, FS_AddElement
<1>d. ASSUME NEW x, x \in Tiny!Busy, Tiny!Busy' = Tiny!Busy \ {x}
      PROVE  /\ Cardinality(Tiny!Busy') = Cardinality(Tiny!Busy) - 1
             /\ Cardinality(Tiny!Busy) = 1 => Tiny!Busy' = {}
  <2>1. IsFiniteSet(Tiny!Busy') /\ Cardinality(Tiny!Busy') = Cardinality(Tiny!Busy) - 1
    BY <1>a, <1>d, FS_RemoveElement
  <2> QED BY <1>a, <2>1, FS_EmptySet
<1> HIDE DEF Acc, Rdr
<1> USE ToolsAssumption DEF TinyType
<1>1. CASE Tiny!StartAcceptor
  <2> DEFINE i == started
  <2>1. i \in 0 .. NAcceptor /\ apc[i] = "none" /\ apc' = [apc EXCEPT ![i] = apc'[i]] /\ apc'[i] \in {"listen", "accept"}
        /\ UNCHANGED <<rpc, totalcount>> /\ started' = started + 1 /\ tmpc = "start" /\ tmpc' # "panic"
        /\ wg' = wg + (IF started = 0 THEN 0 ELSE 1)
    BY <1>0, <1>1 DEF Tiny!StartAcceptor, TinyStart
  <2>2. Acc(i) \notin Tiny!Busy /\ Tiny!Busy' = Tiny!Busy \cup {Acc(i)}
    BY <1>0, <1>a, <1>b, <2>1 DEF Acc, Rdr
  <2>3. Cardinality(Tiny!Busy') = Cardinality(Tiny!Busy) + 1
    BY <1>c, <2>2
  <2> QED BY <1>0, <1>a, <2>1, <2>3 DEF TinyCount, Reading
<1>2. CASE Tiny!WaitReturns
  <2>1. Tiny!Busy' = Tiny!Busy BY <1>2 DEF Tiny!WaitReturns, Tiny!Busy
  <2> QED BY <1>0, <1>2, <2>1 DEF Tiny!WaitReturns, TinyCount, Reading
<1>3. ASSUME NEW i \in 0 .. NAcceptor, Tiny!Listen(i) PROVE TinyCount'
  <2>1. Tiny!Busy' = Tiny!Busy
    <3>1. \A j \in 0 .. NAcceptor : apc'[j] \in {"listen", "accept"} <=> apc[j] \in {"listen", "accept"}
      BY <1>0, <1>3 DEF Tiny!Listen
    <3>2. rpc' = rpc BY <1>3 DEF Tiny!Listen
    <3> QED BY <1>a, <1>b, <3>1, <3>2
  <2> QED BY <1>0, <1>3, <2>1 DEF Tiny!Listen, Tiny!Runs, TinyCount, Reading
<1>4. ASSUME NEW i \in 0 .. NAcceptor, Tiny!AcceptorEnds(i) PROVE TinyCount'
  <2>1. Acc(i) \in Tiny!Busy /\ Tiny!Busy' = Tiny!Busy \ {Acc(i)}
    BY <1>0, <1>4, <1>a, <1>b DEF Tiny!AcceptorEnds, Acc, Rdr
  <2>2. /\ Cardinality(Tiny!Busy') = Cardinality(Tiny!Busy) - 1
        /\ Cardinality(Tiny!Busy) = 1 => Tiny!Busy' = {}
    BY <1>d, <2>1
  <2>3. started # 0 /\ Tiny!Runs /\ Tiny!Done /\ UNCHANGED <<started, rpc, totalcount>>
    BY <1>0, <1>4 DEF Tiny!AcceptorEnds, TinyStart
  <2> QED BY <1>0, <1>a, <2>2, <2>3 DEF Tiny!Runs, Tiny!Done, TinyCount, Reading
<1>5. ASSUME NEW i \in 0 .. NAcceptor, NEW c \in Sock, Tiny!Accept(i, c) PROVE TinyCount'
  <2>1. Rdr(c) \notin Tiny!Busy /\ Tiny!Busy' = Tiny!Busy \cup {Rdr(c)}
    BY <1>0, <1>5, <1>a, <1>b, SMTT(60) DEF Tiny!Accept, Acc, Rdr
  <2>2. Cardinality(Tiny!Busy') = Cardinality(Tiny!Busy) + 1
    BY <1>c, <2>1
  <2>3. c \notin Reading /\ Reading' = Reading \cup {c}
    BY <1>0, <1>5 DEF Tiny!Accept, Reading
  <2>4. Cardinality(Reading') = Cardinality(Reading) + 1
    BY <1>a, <2>3, FS_AddElement
  <2>5. started # 0
    BY <1>0, <1>5 DEF Tiny!Accept, TinyStart
  <2> QED BY <1>0, <1>5, <1>a, <2>2, <2>4, <2>5 DEF Tiny!Accept, Tiny!Runs, TinyCount
<1>6. ASSUME NEW c \in Sock, Tiny!ReadEnds(c) PROVE TinyCount'
  <2>1. Tiny!Busy' = Tiny!Busy
    <3>1. \A d \in Sock : rpc'[d] \in {"read", "done"} <=> rpc[d] \in {"read", "done"}
      BY <1>0, <1>6 DEF Tiny!ReadEnds
    <3>2. apc' = apc BY <1>6 DEF Tiny!ReadEnds
    <3> QED BY <1>a, <1>b, <3>1, <3>2
  <2>2. c \in Reading /\ Reading' = Reading \ {c}
    BY <1>0, <1>6 DEF Tiny!ReadEnds, Reading
  <2>3. Cardinality(Reading') = Cardinality(Reading) - 1
    BY <1>a, <2>2, FS_RemoveElement
  <2> QED BY <1>0, <1>6, <1>a, <2>1, <2>3 DEF Tiny!ReadEnds, Tiny!Runs, TinyCount
<1>7. ASSUME NEW c \in Sock, Tiny!ReaderDone(c) PROVE TinyCount'
  <2>1. Rdr(c) \in Tiny!Busy /\ Tiny!Busy' = Tiny!Busy \ {Rdr(c)}
    BY <1>0, <1>7, <1>a, <1>b DEF Tiny!ReaderDone, Acc, Rdr
  <2>2. /\ Cardinality(Tiny!Busy') = Cardinality(Tiny!Busy) - 1
        /\ Cardinality(Tiny!Busy) = 1 => Tiny!Busy' = {}
    BY <1>d, <2>1
  <2>3. started # 0 /\ Tiny!Runs /\ Tiny!Done /\ UNCHANGED <<started, totalcount>>
    BY <1>0, <1>7 DEF Tiny!ReaderDone, TinyStart
  <2>4. Reading' = Reading
    BY <1>0, <1>7 DEF Tiny!ReaderDone, Reading
  <2> QED BY <1>0, <1>a, <2>2, <2>3, <2>4 DEF Tiny!Runs, Tiny!Done, TinyCount
<1>8. ASSUME NEW c \in Sock, Tiny!CloseConn(c) PROVE TinyCount'
  <2>1. Tiny!Busy' = Tiny!Busy
    <3>1. \A d \in Sock : rpc'[d] \in {"read", "done"} <=> rpc[d] \in {"read", "done"}
      BY <1>0, <1>8 DEF Tiny!CloseConn
    <3>2. apc' = apc BY <1>8 DEF Tiny!CloseConn
    <3> QED BY <1>a, <1>b, <3>1, <3>2
  <2>2. Reading' = Reading
    BY <1>0, <1>8 DEF Tiny!CloseConn, Reading
  <2> QED BY <1>0, <1>8, <2>1, <2>2 DEF Tiny!CloseConn, TinyCount
<1>9. CASE UNCHANGED Tiny!vars
  BY <1>0, <1>9 DEF Tiny!vars, TinyCount, Tiny!Busy, Reading
<1> QED BY <1>1, <1>2, <1>3, <1>4, <1>5, <1>6, <1>7, <1>8, <1>9 DEF Tiny!Next

\* The invariant of tinytcpserver holds in every state.
LEMMA TinyInvariance == Tiny!Spec => []TinyInv
<1>1. Tiny!Init => TinyInv
  <2> SUFFICES ASSUME Tiny!Init PROVE TinyInv
    OBVIOUS
  <2>1. TinyType /\ TinyStart
    BY ToolsAssumption DEF Tiny!Init, TinyType, TinyStart
  <2>2. Tiny!Busy = {} /\ Reading = {}
    BY <2>1, BusyFacts DEF Tiny!Init, Reading
  <2> QED BY <2>1, <2>2, FS_EmptySet DEF Tiny!Init, TinyCount, TinyInv
<1>2. TinyInv /\ [Tiny!Next]_(Tiny!vars) => TinyInv'
  BY TinyTypeStep, TinyCountStep DEF TinyInv
<1> QED BY <1>1, <1>2, PTL DEF Tiny!Spec

\* OneLeftBehind of tinytcpserver, for every number of acceptors and of
\* connections: the WaitGroup is one short and by no more, so that main
\* returns when one goroutine is left, and wg.Done() panics only after the
\* last one.
THEOREM TinyCorrect == Tiny!Spec => []OneLeftBehind
<1>1. TinyInv => OneLeftBehind
  <2> SUFFICES ASSUME TinyInv PROVE OneLeftBehind
    OBVIOUS
  <2>1. TinyType /\ IsFiniteSet(Tiny!Busy)
    BY BusyFacts DEF TinyInv
  <2>2. CASE tmpc = "returned"
    <3>1. wg = 0 /\ started # 0 BY <2>2 DEF TinyInv, TinyStart
    <3>2. Cardinality(Tiny!Busy) = 1 BY <2>2, <3>1 DEF TinyInv, TinyCount
    <3>3. Tiny!Cardinality(Tiny!Busy) = Cardinality(Tiny!Busy)
      BY DEF Tiny!Cardinality, Cardinality, Tiny!IsFiniteSet, IsFiniteSet
    <3> QED BY <2>2, <3>2, <3>3 DEF OneLeftBehind, Tiny!OneLeftBehind
  <2>3. CASE tmpc = "panic"
    <3>1. Reading = {}
      BY <2>1, <2>3, BusyFacts DEF TinyInv, TinyCount, Reading
    <3> QED BY <2>3, <3>1, FS_EmptySet DEF TinyInv, TinyCount, OneLeftBehind, Tiny!OneLeftBehind
  <2> QED BY <2>2, <2>3 DEF OneLeftBehind, Tiny!OneLeftBehind
<1> QED BY <1>1, TinyInvariance, PTL

(***************************************************************************)
(* The event loop proxy                                                    *)
(***************************************************************************)
Moving == {"in", "inPeer", "out", "outPeer"}

\* Transfer adds socket 1 before 2, and the loop handles no event while it is
\* at work; a loop that handles an event of a pair that is not linked has the
\* event of socket 1, of a Transfer that has failed, in hand.
EpollInv ==
    /\ tpc \in {"lock", "new1", "new2", "done", "failed"} /\ cur \in {1, 2}
    /\ lpc \in Moving \cup {"idle", "ended", "crashed"}
    /\ tpc \in {"lock", "new1"} => conns = {}
    /\ tpc \in {"new2", "failed"} => conns \subseteq {1}
    /\ (lpc \in Moving /\ tpc # "done") => lpc = "in" /\ tpc = "failed" /\ 1 \in conns
    /\ PeerKnown

\* The invariant of the event loop holds in every state.
LEMMA EpollStep == EpollInv /\ [Epoll!Next]_(Epoll!vars) => EpollInv'
<1> SUFFICES ASSUME EpollInv, [Epoll!Next]_(Epoll!vars) PROVE EpollInv'
  OBVIOUS
<1> USE DEF EpollInv, Moving, PeerKnown, Epoll!PeerKnown, Epoll!Running, Epoll!netVars, Epoll!flagVars, Epoll!loopVars, Epoll!FD
<1>1. CASE Epoll!Lock BY <1>1 DEF Epoll!Lock
<1>2. CASE Epoll!NewConn(1, "new1", "new2") BY <1>2 DEF Epoll!NewConn
<1>3. CASE Epoll!NewConn(2, "new2", "done") BY <1>3 DEF Epoll!NewConn
<1>4. CASE Epoll!EpollWait \/ Epoll!EpollFails BY <1>4 DEF Epoll!EpollWait, Epoll!EpollFails
<1>5. ASSUME NEW f \in {1, 2}, Epoll!HandleEvent(f) PROVE EpollInv'
  <2>1. CASE f \in conns /\ "hup" \notin batch[f]
    <3>1. tpc \in {"done", "failed"} /\ (tpc = "failed" => f = 1)
      BY <1>5, <2>1 DEF Epoll!HandleEvent, Epoll!Mutex
    <3>2. UNCHANGED <<tpc, conns>> /\ cur' = f
      BY <1>5, <2>1 DEF Epoll!HandleEvent
    <3>3. lpc' = "in" \/ (lpc' = "out" /\ tpc = "done") \/ (lpc' = "crashed" /\ tpc # "done")
      BY <1>5, <2>1 DEF Epoll!HandleEvent, Epoll!Begin, Epoll!Linked
    <3> QED BY <2>1, <3>1, <3>2, <3>3
  <2>2. CASE ~(f \in conns /\ "hup" \notin batch[f])
    BY <1>5, <2>2 DEF Epoll!HandleEvent, Epoll!DelConn, Epoll!Close
  <2> QED BY <2>1, <2>2
<1>6. ASSUME NEW c \in {1, 2}, Epoll!Move(c) PROVE EpollInv'
  <2> USE DEF Epoll!Reading, Epoll!Writing, Epoll!Moving
  <2>1. CASE Epoll!SpliceIn(c) \/ Epoll!SpliceOut(c)
    BY <2>1 DEF Epoll!SpliceIn, Epoll!SpliceOut
  <2>2. CASE Epoll!MoveInFails(c) \/ Epoll!MoveOutFails(c)
    BY <2>2 DEF Epoll!MoveInFails, Epoll!MoveOutFails, Epoll!DelConn
  <2>3. CASE Epoll!MoveInEnds(c) \/ Epoll!MoveOutEnds(c)
    <3>1. lpc \in Moving /\ Epoll!Proceed /\ UNCHANGED <<tpc, conns, cur>>
      BY <2>3 DEF Epoll!MoveInEnds, Epoll!MoveOutEnds
    <3>2. lpc' \in Moving \cup {"idle", "crashed"} /\ (tpc # "done" => lpc' = "crashed") /\ (lpc' = "crashed" => tpc # "done")
      BY <3>1 DEF Epoll!Proceed, Epoll!Begin, Epoll!AfterMove, Epoll!Linked
    <3> QED BY <3>1, <3>2
  <2> QED BY <1>6, <2>1, <2>2, <2>3 DEF Epoll!Move
<1>7. CASE Epoll!NextMessage BY <1>7 DEF Epoll!NextMessage
<1>8. ASSUME NEW f \in {1, 2}, Epoll!PeerSend(f) \/ Epoll!PeerReceive(f) \/ Epoll!PeerEnd(f) PROVE EpollInv'
  BY <1>8 DEF Epoll!PeerSend, Epoll!PeerReceive, Epoll!PeerEnd
<1>9. CASE UNCHANGED Epoll!vars BY <1>9 DEF Epoll!vars
<1> QED BY <1>1, <1>2, <1>3, <1>4, <1>5, <1>6, <1>7, <1>8, <1>9 DEF Epoll!Next, Epoll!TransferStep, Epoll!LoopStep

\* PeerKnown of the event loop proxy, for every number of bytes, buffer size
\* and number of faults: the loop follows no pointer to a partner before
\* Transfer has set it, unless Transfer has failed after its first socket.
THEOREM EpollCorrect == Epoll!Spec => []PeerKnown
<1>1. Epoll!Init => EpollInv
  BY DEF Epoll!Init, EpollInv, Moving, PeerKnown, Epoll!PeerKnown
<1>2. EpollInv => PeerKnown
  BY DEF EpollInv
<1> QED BY <1>1, <1>2, EpollStep, PTL DEF Epoll!Spec

(***************************************************************************)
(* fork-cpuaffinity                                                        *)
(***************************************************************************)
\* Where a sequence of signals holds a SIGCHLD.
Chld(q) == {i \in 1 .. Len(q) : q[i] = "chld"}
One(b) == IF b THEN 1 ELSE 0

\* The number of SIGCHLDs of a sequence when one is appended, and when the
\* first is taken.
LEMMA ChldCount ==
  ASSUME NEW q \in Seq({"exit", "chld"})
  PROVE  /\ IsFiniteSet(Chld(q)) /\ Cardinality(Chld(q)) \in Nat
         /\ \A s \in {"exit", "chld"} : Cardinality(Chld(Append(q, s))) = Cardinality(Chld(q)) + One(s = "chld")
         /\ q # <<>> => Cardinality(Chld(Tail(q))) = Cardinality(Chld(q)) - One(Head(q) = "chld")
<1>1. IsFiniteSet(Chld(q)) /\ Cardinality(Chld(q)) \in Nat
  <2>1. IsFiniteSet(1 .. Len(q)) BY FS_Interval
  <2>2. IsFiniteSet(Chld(q)) BY <2>1, FS_Subset DEF Chld
  <2> QED BY <2>2, FS_CardinalityType
<1>2. ASSUME NEW s \in {"exit", "chld"}
      PROVE  Cardinality(Chld(Append(q, s))) = Cardinality(Chld(q)) + One(s = "chld")
  <2>1. Len(q) + 1 \notin Chld(q)
    BY DEF Chld
  <2>2. CASE s = "chld"
    <3>1. Chld(Append(q, s)) = Chld(q) \cup {Len(q) + 1}
      BY <2>2 DEF Chld
    <3> QED BY <1>1, <2>1, <2>2, <3>1, FS_AddElement DEF One
  <2>3. CASE s # "chld"
    <3>1. Chld(Append(q, s)) = Chld(q)
      BY <2>3 DEF Chld
    <3> QED BY <1>1, <2>3, <3>1 DEF One
  <2> QED BY <2>2, <2>3
<1>3. ASSUME q # <<>>
      PROVE  Cardinality(Chld(Tail(q))) = Cardinality(Chld(q)) - One(Head(q) = "chld")
  <2> DEFINE T == Chld(q) \ {1}
             f == [i \in T |-> i - 1]
  <2>1. /\ IsFiniteSet(T)
        /\ Cardinality(T) = Cardinality(Chld(q)) - One(Head(q) = "chld")
    <3>1. 1 \in Chld(q) <=> Head(q) = "chld"
      BY <1>3 DEF Chld
    <3> QED BY <1>1, <3>1, FS_RemoveElement DEF One
  <2>2. f \in Bijection(T, Chld(Tail(q)))
    <3>1. /\ Len(Tail(q)) = Len(q) - 1 /\ Len(q) \in Nat
          /\ \A i \in 1 .. Len(Tail(q)) : Tail(q)[i] = q[i + 1]
      BY <1>3
    <3>2. f \in [T -> Chld(Tail(q))]
      BY <3>1 DEF Chld
    <3>3. \A i, j \in T : f[i] = f[j] => i = j
      BY DEF Chld
    <3>4. \A k \in Chld(Tail(q)) : \E i \in T : f[i] = k
      <4> SUFFICES ASSUME NEW k \in Chld(Tail(q)) PROVE k + 1 \in T /\ f[k + 1] = k
        OBVIOUS
      <4> QED BY <3>1 DEF Chld
    <3> HIDE DEF T, f
    <3> QED BY <3>2, <3>3, <3>4, Fun_IsBij
  <2>3. Cardinality(Chld(Tail(q))) = Cardinality(T)
    BY <2>1, <2>2, FS_Bijection DEF ExistsBijection
  <2> QED BY <2>1, <2>3
<1> QED BY <1>1, <1>2, <1>3

Signal == {"exit", "chld"}
Workers == 0 .. NumWorker - 1
Ended == {w \in pidList : worker[w] \in {"zombie", "gone"}}     \* the started workers that have
Counting == mpc \in {"notify", "fork", "count", "wait"}          \* main has not left its loop

ForkType ==
    /\ mpc \in {"notify", "fork", "count", "wait", "term", "stop", "ended"}
    /\ next \in 0 .. NumWorker /\ pidList \in SUBSET Workers
    /\ worker \in [Workers -> {"none", "run", "zombie", "gone"}]
    /\ stopcnt \in Nat /\ aliveChan \in Nat /\ stopped \in SUBSET pidList
    /\ why \in {"no", "stopped", "exit"} /\ result \in {"no", "ok", "timeout"} /\ spurious \in BOOLEAN
    /\ pending \in [Proc -> SUBSET Signal] /\ sending \in [Proc -> Signal \cup {"no"}]
    /\ sigChan \in [Proc -> Seq(Signal)] /\ exitNotifyChan \in [Proc -> Seq(Signal)]

\* pidList holds the workers that were started, in the order of the fork loop.
ForkPids ==
    /\ \A w \in Workers : w \in pidList <=> worker[w] # "none"
    /\ \A w \in pidList : w < next
    /\ mpc = "notify" => next = 0

\* SIGCHLDs of the master that have been raised and not been counted.
Uncounted ==
    Cardinality(Chld(sigChan["master"])) + Cardinality(Chld(exitNotifyChan["master"]))
    + One(sending["master"] = "chld") + One("chld" \in pending["master"])

\* As long as main counts, and every SIGCHLD was the end of a started worker,
\* there are not more of them than workers that have ended.
TokenInv == Counting /\ ~spurious => Uncounted + stopcnt <= Cardinality(Ended)

\* The poller of stressWait has sent a pid for every worker it has found dead.
PollInv ==
    /\ Counting => why = "no" /\ result = "no"
    /\ (Counting \/ mpc = "term") => stopped = {} /\ aliveChan = 0 /\ result = "no"
    /\ mpc = "term" => stopcnt = 0
    /\ mpc = "stop" => Cardinality(stopped) = stopcnt + aliveChan /\ result = "no"
    /\ stopped \subseteq Ended

AllEnded == (why = "stopped" /\ ~spurious) \/ result = "ok" => pidList \subseteq Ended

ForkInv == ForkType /\ ForkPids /\ TokenInv /\ PollInv /\ AllEnded

\* Cardinality is the same operator in the module of the master.
LEMMA ForkCardinality == \A S : Fork!Cardinality(S) = Cardinality(S)
BY DEF Fork!Cardinality, Cardinality

\* The sets that are counted are finite.
LEMMA ForkFinite ==
  ASSUME ForkType
  PROVE  /\ IsFiniteSet(pidList) /\ IsFiniteSet(Ended) /\ IsFiniteSet(stopped)
         /\ Cardinality(pidList) \in Nat /\ Cardinality(Ended) \in Nat /\ Cardinality(stopped) \in Nat
         /\ Cardinality(Chld(sigChan["master"])) \in Nat /\ Cardinality(Chld(exitNotifyChan["master"])) \in Nat
<1>1. IsFiniteSet(Workers)
  BY FS_Interval, ToolsAssumption DEF Workers
<1>2. IsFiniteSet(pidList)
  BY <1>1, FS_Subset DEF ForkType
<1>3. IsFiniteSet(Ended) /\ IsFiniteSet(stopped)
  BY <1>2, FS_Subset DEF ForkType, Ended
<1>4. Cardinality(Chld(sigChan["master"])) \in Nat /\ Cardinality(Chld(exitNotifyChan["master"])) \in Nat
  BY ChldCount, ToolsAssumption DEF ForkType, Signal
<1> QED BY <1>2, <1>3, <1>4, FS_CardinalityType

\* Typing, and pidList.
LEMMA ForkTypeStep == ForkType /\ ForkPids /\ PollInv /\ [Fork!Next]_(Fork!vars) => ForkType' /\ ForkPids'
<1> SUFFICES ASSUME ForkType, ForkPids, PollInv, [Fork!Next]_(Fork!vars) PROVE ForkType' /\ ForkPids'
  OBVIOUS
<1> USE ToolsAssumption DEF ForkType, ForkPids, Fork!masterVars, Fork!workVars, Fork!sigVars, Fork!M, Fork!Worker, Workers,
        Fork!Alive, Fork!Sigs, Signal
<1>0. ASSUME NEW s \in Signal, Fork!Raise("master", s) PROVE pending' \in [Proc -> SUBSET Signal]
  BY <1>0 DEF Fork!Raise
<1>1. CASE Fork!StartNotify BY <1>1 DEF Fork!StartNotify, Fork!Notify
<1>2. CASE Fork!StressFork
  <2>1. next \in Workers /\ next + 1 \in 0 .. NumWorker
    BY <1>2 DEF Fork!StressFork
  <2>2. stopped = {}
    BY <1>2 DEF Fork!StressFork, PollInv, Counting
  <2>3. ForkType' BY <1>2, <2>1, <2>2 DEF Fork!StressFork
  <2>4. ForkPids' BY <1>2, <2>1 DEF Fork!StressFork
  <2> QED BY <2>3, <2>4
<1>3. CASE Fork!StressForkFails
  <2>1. next + 1 \in 0 .. NumWorker
    BY <1>3 DEF Fork!StressForkFails
  <2>2. pending' \in [Proc -> SUBSET Signal]
    BY <1>0, <1>3 DEF Fork!StressForkFails
  <2>3. spurious' \in BOOLEAN
    BY <1>3 DEF Fork!StressForkFails
  <2> QED BY <1>3, <2>1, <2>2, <2>3 DEF Fork!StressForkFails
<1>4. CASE Fork!Forked BY <1>4 DEF Fork!Forked
<1>5. CASE Fork!StressCount BY <1>5 DEF Fork!StressCount
<1>6. CASE Fork!WaitSignal
  <2>1. pending' \in [Proc -> SUBSET Signal]
    BY <1>6 DEF Fork!WaitSignal, Fork!Ignore
  <2>2. exitNotifyChan' \in [Proc -> Seq(Signal)]
    BY <1>6 DEF Fork!WaitSignal, Fork!Receive
  <2> QED BY <1>6, <2>1, <2>2 DEF Fork!WaitSignal
<1>7. CASE Fork!Terminate BY <1>7 DEF Fork!Terminate
<1>8. CASE Fork!WorkerStopped BY <1>8 DEF Fork!WorkerStopped
<1>9. CASE Fork!StopTimeout BY <1>9 DEF Fork!StopTimeout
<1>10. ASSUME NEW w \in Workers, Fork!Poll(w) PROVE ForkType' /\ ForkPids'
  BY <1>10 DEF Fork!Poll
<1>11. ASSUME NEW w \in Workers, Fork!Die(w) PROVE ForkType' /\ ForkPids'
  <2>1. pending' \in [Proc -> SUBSET Signal]
    BY <1>0, <1>11 DEF Fork!Die
  <2> QED BY <1>11, <2>1 DEF Fork!Die
<1>12. ASSUME NEW w \in Workers, Fork!Reap(w) PROVE ForkType' /\ ForkPids'
  BY <1>12 DEF Fork!Reap
<1>13. ASSUME NEW w \in Workers, Fork!JobControl(w) PROVE ForkType' /\ ForkPids'
  BY <1>13 DEF Fork!JobControl, Fork!Raise
<1>14. CASE Fork!ExitSignal BY <1>14 DEF Fork!ExitSignal, Fork!Raise
<1>15. ASSUME NEW s \in Signal, Fork!DeliverStep(s) PROVE ForkType' /\ ForkPids'
  <2>1. pending' \in [Proc -> SUBSET Signal]
    BY <1>15 DEF Fork!DeliverStep, Fork!Deliver
  <2>2. sigChan' \in [Proc -> Seq(Signal)]
    <3>1. sigChan' = sigChan \/ sigChan' = [sigChan EXCEPT !["master"] = Append(@, s)]
      BY <1>15 DEF Fork!DeliverStep, Fork!Deliver
    <3>2. Append(sigChan["master"], s) \in Seq(Signal)
      OBVIOUS
    <3> QED BY <3>1, <3>2
  <2> QED BY <1>15, <2>1, <2>2 DEF Fork!DeliverStep, Fork!Deliver
<1>16. CASE Fork!HandleStep
  <2>1. CASE Fork!SigHandle("master")
    BY <1>16, <2>1 DEF Fork!HandleStep, Fork!SigHandle
  <2>2. CASE Fork!SigSend("master")
    BY <1>16, <2>2 DEF Fork!HandleStep, Fork!SigSend
  <2> QED BY <1>16, <2>1, <2>2 DEF Fork!HandleStep, Fork!SigHandler
<1>17. CASE UNCHANGED Fork!vars BY <1>17 DEF Fork!vars
<1> QED BY <1>1, <1>2, <1>3, <1>4, <1>5, <1>6, <1>7, <1>8, <1>9, <1>10, <1>11, <1>12, <1>13, <1>14, <1>15, <1>16, <1>17
    DEF Fork!Next, Fork!MasterStep, Fork!PollStep, Fork!WorkerStep, Fork!WorkerEnds, Fork!WorkerCrashes

\* A worker that has ended stays so; only the fork loop changes pidList, and
\* only the end of a worker adds to those that have ended.
LEMMA EndedStep ==
  ASSUME ForkType, ForkPids, [Fork!Next]_(Fork!vars)
  PROVE  /\ Ended \subseteq Ended'
         /\ pidList' = pidList \/ (mpc = "fork" /\ UNCHANGED <<why, result>>)
         /\ worker' = worker /\ pidList' = pidList => Ended' = Ended
<1> USE ToolsAssumption DEF ForkType, ForkPids, Ended, Fork!masterVars, Fork!workVars, Fork!sigVars, Fork!Worker, Workers
<1>1. ASSUME UNCHANGED <<worker, pidList>> PROVE Ended' = Ended
  BY <1>1
<1>2. CASE Fork!StressFork
  BY <1>2 DEF Fork!StressFork
<1>3. ASSUME NEW w \in Workers, Fork!Die(w) \/ Fork!Reap(w) PROVE Ended \subseteq Ended' /\ pidList' = pidList
  BY <1>3 DEF Fork!Die, Fork!Reap
<1>4. CASE Fork!StartNotify \/ Fork!StressForkFails \/ Fork!Forked \/ Fork!StressCount \/ Fork!WaitSignal \/ Fork!Terminate
           \/ Fork!WorkerStopped \/ Fork!StopTimeout
  BY <1>1, <1>4 DEF Fork!StartNotify, Fork!StressForkFails, Fork!Forked, Fork!StressCount, Fork!WaitSignal, Fork!Terminate,
     Fork!WorkerStopped, Fork!StopTimeout
<1>5. ASSUME NEW w \in Workers, Fork!Poll(w) \/ Fork!JobControl(w) PROVE UNCHANGED <<worker, pidList>>
  BY <1>5 DEF Fork!Poll, Fork!JobControl
<1>6. CASE Fork!ExitSignal \/ Fork!HandleStep \/ (\E s \in Signal : Fork!DeliverStep(s)) \/ UNCHANGED Fork!vars
  BY <1>1, <1>6 DEF Fork!ExitSignal, Fork!HandleStep, Fork!DeliverStep, Fork!vars
<1> QED BY <1>1, <1>2, <1>3, <1>4, <1>5, <1>6
    DEF Fork!Next, Fork!MasterStep, Fork!PollStep, Fork!WorkerStep, Fork!WorkerEnds, Fork!WorkerCrashes, Fork!Sigs, Signal

\* The poller counts workers that have ended, each once.
LEMMA PollStep ==
  ForkType /\ ForkPids /\ PollInv /\ AllEnded /\ [Fork!Next]_(Fork!vars) => PollInv'
<1> SUFFICES ASSUME ForkType, ForkPids, PollInv, AllEnded, [Fork!Next]_(Fork!vars) PROVE PollInv'
  OBVIOUS
<1>0. Ended \subseteq Ended'
  BY EndedStep
<1> USE ToolsAssumption DEF PollInv, Counting, Fork!masterVars, Fork!workVars, Fork!sigVars, Fork!Worker, Workers
<1>1. ASSUME UNCHANGED Fork!masterVars PROVE PollInv'
  BY <1>0, <1>1
<1>2. CASE Fork!StartNotify \/ Fork!StressFork \/ Fork!StressForkFails \/ Fork!Forked \/ Fork!StressCount
  BY <1>0, <1>2 DEF Fork!StartNotify, Fork!StressFork, Fork!StressForkFails, Fork!Forked, Fork!StressCount
<1>3. CASE Fork!WaitSignal
  BY <1>0, <1>3 DEF Fork!WaitSignal
<1>4. CASE Fork!Terminate
  BY <1>0, <1>4, FS_EmptySet DEF Fork!Terminate
<1>5. ASSUME NEW w \in Workers, Fork!Poll(w) PROVE PollInv'
  <2>1. stopped' = stopped \cup {w} /\ w \notin stopped /\ aliveChan' = aliveChan + 1 /\ mpc = "stop" /\ w \in Ended
        /\ UNCHANGED <<mpc, stopcnt, why, result>>
    BY <1>5 DEF Fork!Poll, Fork!Dead, Ended
  <2>2. Cardinality(stopped') = Cardinality(stopped) + 1
    BY <2>1, ForkFinite, FS_AddElement
  <2> QED BY <1>0, <2>1, <2>2 DEF ForkType
<1>6. CASE Fork!WorkerStopped
  BY <1>0, <1>6 DEF Fork!WorkerStopped, ForkType
<1>7. CASE Fork!StopTimeout
  BY <1>0, <1>7 DEF Fork!StopTimeout
<1>8. ASSUME NEW w \in Workers, Fork!Die(w) \/ Fork!Reap(w) \/ Fork!JobControl(w) PROVE UNCHANGED Fork!masterVars
  BY <1>8 DEF Fork!Die, Fork!Reap, Fork!JobControl
<1>9. CASE Fork!ExitSignal \/ Fork!HandleStep \/ (\E s \in Signal : Fork!DeliverStep(s)) \/ UNCHANGED Fork!vars
  BY <1>1, <1>9 DEF Fork!ExitSignal, Fork!HandleStep, Fork!DeliverStep, Fork!vars
<1> QED BY <1>1, <1>2, <1>3, <1>4, <1>5, <1>6, <1>7, <1>8, <1>9
    DEF Fork!Next, Fork!MasterStep, Fork!PollStep, Fork!WorkerStep, Fork!WorkerEnds, Fork!WorkerCrashes, Fork!Sigs, Signal

\* What main says of its workers holds: the SIGCHLDs that it has counted, or
\* the pids that the poller has sent, are as many as the workers.
LEMMA AllEndedStep == ForkInv /\ [Fork!Next]_(Fork!vars) => AllEnded'
<1> SUFFICES ASSUME ForkInv, [Fork!Next]_(Fork!vars) PROVE AllEnded'
  OBVIOUS
<1>0. ForkType /\ ForkPids /\ TokenInv /\ PollInv /\ AllEnded
  BY DEF ForkInv
<1>a. Ended \subseteq Ended' /\ (pidList' = pidList \/ (mpc = "fork" /\ UNCHANGED <<why, result>>))
  BY <1>0, EndedStep
<1>b. /\ Ended \subseteq pidList /\ stopped \subseteq pidList
      /\ IsFiniteSet(pidList) /\ Cardinality(pidList) \in Nat /\ Cardinality(Ended) \in Nat /\ Cardinality(stopped) \in Nat
      /\ Cardinality(Ended) >= Cardinality(pidList) => pidList = Ended
      /\ Cardinality(stopped) >= Cardinality(pidList) => pidList = stopped
  <2>1. Ended \subseteq pidList /\ stopped \subseteq pidList
    BY <1>0 DEF ForkType, Ended
  <2>2. IsFiniteSet(pidList) /\ Cardinality(pidList) \in Nat /\ Cardinality(Ended) \in Nat /\ Cardinality(stopped) \in Nat
    BY <1>0, ForkFinite
  <2>3. Cardinality(Ended) <= Cardinality(pidList) /\ (Cardinality(pidList) = Cardinality(Ended) => pidList = Ended)
    BY <2>1, <2>2, FS_Subset
  <2>4. Cardinality(stopped) <= Cardinality(pidList) /\ (Cardinality(pidList) = Cardinality(stopped) => pidList = stopped)
    BY <2>1, <2>2, FS_Subset
  <2> QED BY <2>1, <2>2, <2>3, <2>4
<1> USE ToolsAssumption DEF Fork!masterVars, Fork!workVars, Fork!sigVars, Fork!Worker, Workers
<1>1. ASSUME UNCHANGED <<why, result>>, spurious => spurious' PROVE AllEnded'
  BY <1>0, <1>1, <1>a DEF AllEnded, PollInv, Counting
<1>2. CASE Fork!WaitSignal
  <2>1. UNCHANGED <<spurious, result, pidList, worker>> /\ mpc = "wait"
    BY <1>2 DEF Fork!WaitSignal
  <2>2. why = "no" /\ result = "no"
    BY <1>0, <2>1 DEF PollInv, Counting
  <2>3. CASE why' # "stopped"
    BY <2>1, <2>2, <2>3 DEF AllEnded
  <2>4. CASE why' = "stopped" /\ ~spurious
    <3>1. exitNotifyChan["master"] # <<>> /\ Head(exitNotifyChan["master"]) = "chld"
          /\ stopcnt + 1 >= Cardinality(pidList)
      BY <1>2, <2>2, <2>4, ForkCardinality DEF Fork!WaitSignal, Fork!Receive, Fork!M
    <3>2. Cardinality(Chld(exitNotifyChan["master"])) >= 1
      <4>1. exitNotifyChan["master"] \in Seq({"exit", "chld"})
        BY <1>0 DEF ForkType, Signal
      <4>2. Tail(exitNotifyChan["master"]) \in Seq({"exit", "chld"})
        BY <3>1, <4>1
      <4>3. /\ Cardinality(Chld(Tail(exitNotifyChan["master"]))) \in Nat
            /\ Cardinality(Chld(exitNotifyChan["master"])) \in Nat
            /\ Cardinality(Chld(Tail(exitNotifyChan["master"]))) = Cardinality(Chld(exitNotifyChan["master"])) - 1
        BY <3>1, <4>1, <4>2, ChldCount DEF One
      <4> QED BY <4>3
    <3>3. Uncounted + stopcnt <= Cardinality(Ended)
      BY <1>0, <2>1, <2>4 DEF TokenInv, Counting
    <3>4. Cardinality(Ended) >= stopcnt + 1
      <4>1. Cardinality(Chld(sigChan["master"])) \in Nat /\ Cardinality(Chld(exitNotifyChan["master"])) \in Nat
        BY <1>0, ForkFinite
      <4>2. stopcnt \in Nat BY <1>0 DEF ForkType
      <4> QED BY <1>b, <3>2, <3>3, <4>1, <4>2 DEF Uncounted, One
    <3>5. pidList = Ended
      <4>1. stopcnt \in Nat BY <1>0 DEF ForkType
      <4> QED BY <1>b, <3>1, <3>4, <4>1
    <3> QED BY <1>a, <2>1, <3>5 DEF AllEnded
  <2>5. CASE spurious
    BY <2>1, <2>2, <2>5 DEF AllEnded
  <2> QED BY <2>3, <2>4, <2>5
<1>3. CASE Fork!WorkerStopped
  <2>1. UNCHANGED <<why, spurious, pidList>> /\ mpc = "stop" /\ aliveChan > 0
    BY <1>3 DEF Fork!WorkerStopped
  <2>2. CASE result' # "ok"
    BY <1>0, <1>a, <2>1, <2>2 DEF AllEnded
  <2>3. CASE result' = "ok"
    <3>1. stopcnt + 1 >= Cardinality(pidList)
      BY <1>0, <1>3, <2>1, <2>3, ForkCardinality DEF Fork!WorkerStopped, PollInv
    <3>2. Cardinality(stopped) >= Cardinality(pidList)
      BY <1>0, <1>b, <2>1, <3>1 DEF PollInv, ForkType
    <3>3. pidList \subseteq Ended
      BY <1>0, <1>b, <3>2 DEF PollInv
    <3> QED BY <1>a, <2>1, <3>3 DEF AllEnded
  <2> QED BY <2>2, <2>3
<1>4. CASE Fork!StopTimeout
  BY <1>0, <1>4, <1>a DEF Fork!StopTimeout, AllEnded
<1>5. CASE Fork!StartNotify \/ Fork!StressFork \/ Fork!StressForkFails \/ Fork!Forked \/ Fork!StressCount \/ Fork!Terminate
  BY <1>1, <1>5 DEF Fork!StartNotify, Fork!StressFork, Fork!StressForkFails, Fork!Forked, Fork!StressCount, Fork!Terminate
<1>6. ASSUME NEW w \in Workers, Fork!Poll(w) \/ Fork!Die(w) \/ Fork!Reap(w) \/ Fork!JobControl(w) PROVE AllEnded'
  BY <1>1, <1>6 DEF Fork!Poll, Fork!Die, Fork!Reap, Fork!JobControl
<1>7. CASE Fork!ExitSignal \/ Fork!HandleStep \/ (\E s \in Signal : Fork!DeliverStep(s)) \/ UNCHANGED Fork!vars
  BY <1>1, <1>7 DEF Fork!ExitSignal, Fork!HandleStep, Fork!DeliverStep, Fork!vars
<1> QED BY <1>2, <1>3, <1>4, <1>5, <1>6, <1>7
    DEF Fork!Next, Fork!MasterStep, Fork!PollStep, Fork!WorkerStep, Fork!WorkerEnds, Fork!WorkerCrashes, Fork!Sigs, Signal

\* No step makes a SIGCHLD out of nothing: each goes from the kernel to
\* sigChan, to sigHandle and to exitNotifyChan, and is counted once.
LEMMA TokenStep == ForkInv /\ [Fork!Next]_(Fork!vars) => TokenInv'
<1> SUFFICES ASSUME ForkInv, [Fork!Next]_(Fork!vars), (Counting /\ ~spurious)'
             PROVE  Uncounted' + stopcnt' <= Cardinality(Ended')
  BY DEF TokenInv
<1> DEFINE sq == sigChan["master"]
           nq == exitNotifyChan["master"]
<1>0. ForkType /\ ForkPids /\ TokenInv /\ PollInv /\ AllEnded
  BY DEF ForkInv
<1>a. /\ Cardinality(Chld(sq)) \in Nat /\ Cardinality(Chld(nq)) \in Nat /\ Cardinality(Ended) \in Nat
      /\ IsFiniteSet(Ended) /\ stopcnt \in Nat /\ sq \in Seq({"exit", "chld"}) /\ nq \in Seq({"exit", "chld"})
      /\ sending["master"] \in {"exit", "chld", "no"} /\ "master" \in Proc
      /\ pending \in [Proc -> SUBSET Signal] /\ DOMAIN sending = Proc /\ DOMAIN sigChan = Proc
      /\ DOMAIN exitNotifyChan = Proc
  BY <1>0, ForkFinite, ToolsAssumption DEF ForkType, Signal
<1>b. worker' = worker /\ pidList' = pidList => Ended' = Ended
  BY <1>0, EndedStep
<1>c. Counting /\ ~spurious => Uncounted + stopcnt <= Cardinality(Ended)
  BY <1>0 DEF TokenInv
<1> HIDE DEF sq, nq
<1> USE DEF Fork!masterVars, Fork!workVars, Fork!sigVars, Fork!M, Counting
<1>d. ASSUME UNCHANGED <<sigChan, exitNotifyChan, sending, pending, stopcnt>>, Ended' = Ended, Counting, ~spurious
      PROVE  Uncounted' + stopcnt' <= Cardinality(Ended')
  BY <1>c, <1>d DEF Uncounted
<1>1. CASE Fork!StartNotify
  BY <1>1, <1>b, <1>d DEF Fork!StartNotify
<1>2. CASE Fork!StressFork
  <2>1. Ended' = Ended
    <3>1. next \in Workers
      BY <1>0, <1>2, ToolsAssumption DEF Fork!StressFork, ForkType, Workers
    <3>2. next \notin pidList
      BY <1>0, <1>2, ToolsAssumption DEF Fork!StressFork, ForkType, ForkPids, Workers
    <3> QED BY <1>0, <1>2, <3>1, <3>2 DEF Fork!StressFork, ForkType, Ended
  <2> QED BY <1>2, <1>d, <2>1 DEF Fork!StressFork
<1>3. CASE Fork!StressForkFails
  BY <1>3, <1>b, <1>d DEF Fork!StressForkFails
<1>4. CASE Fork!Forked \/ Fork!StressCount
  BY <1>4, <1>b, <1>d DEF Fork!Forked, Fork!StressCount
<1>5. CASE Fork!WaitSignal
  <2>1. /\ mpc = "wait" /\ nq # <<>> /\ Head(nq) = "chld" /\ stopcnt' = stopcnt + 1
        /\ nq' = Tail(nq) /\ UNCHANGED <<sigChan, sending, pending, spurious, worker, pidList>>
    BY <1>5, <1>a DEF Fork!WaitSignal, Fork!Receive, nq
  <2>2. Cardinality(Chld(nq')) = Cardinality(Chld(nq)) - 1
    BY <1>a, <2>1, ChldCount DEF One
  <2>3. One(sending["master"] = "chld") \in Nat /\ One("chld" \in pending["master"]) \in Nat
    BY DEF One
  <2>4. Ended' = Ended /\ Uncounted + stopcnt <= Cardinality(Ended)
    BY <1>b, <1>c, <2>1
  <2> QED BY <1>a, <2>1, <2>2, <2>3, <2>4, SMTT(60) DEF Uncounted, sq, nq
<1>6. CASE Fork!Terminate \/ Fork!WorkerStopped \/ Fork!StopTimeout
  BY <1>6 DEF Fork!Terminate, Fork!WorkerStopped, Fork!StopTimeout
<1>7. ASSUME NEW w \in Workers, Fork!Poll(w) PROVE FALSE
  BY <1>7 DEF Fork!Poll
<1>8. ASSUME NEW w \in Workers, Fork!Die(w) PROVE Uncounted' + stopcnt' <= Cardinality(Ended')
  <2>1. /\ worker[w] = "run" /\ worker' = [worker EXCEPT ![w] = "zombie"]
        /\ UNCHANGED <<sigChan, sending, exitNotifyChan, spurious, pidList, stopcnt, mpc>>
    BY <1>8 DEF Fork!Die
  <2>2. w \in pidList /\ w \notin Ended /\ Ended' = Ended \cup {w}
    BY <1>0, <2>1 DEF ForkType, ForkPids, Ended
  <2>3. Cardinality(Ended') = Cardinality(Ended) + 1
    BY <1>a, <2>2, FS_AddElement
  <2> QED BY <1>a, <1>c, <2>1, <2>3 DEF Uncounted, One, sq, nq
<1>9. ASSUME NEW w \in Workers, Fork!Reap(w) PROVE Uncounted' + stopcnt' <= Cardinality(Ended')
  <2>1. Ended' = Ended
    BY <1>0, <1>9 DEF Fork!Reap, Ended, ForkType
  <2> QED BY <1>9, <1>d, <2>1 DEF Fork!Reap
<1>10. ASSUME NEW w \in Workers, Fork!JobControl(w) PROVE FALSE
  BY <1>10 DEF Fork!JobControl
<1>11. CASE Fork!ExitSignal
  <2>1. /\ UNCHANGED <<sigChan, sending, exitNotifyChan, spurious, pidList, worker, stopcnt, mpc>>
        /\ "chld" \in pending'["master"] => "chld" \in pending["master"]
    BY <1>a, <1>11 DEF Fork!ExitSignal, Fork!Raise
  <2> QED BY <1>a, <1>b, <1>c, <2>1 DEF Uncounted, One, sq, nq
<1>12. ASSUME NEW s \in Signal, Fork!DeliverStep(s) PROVE Uncounted' + stopcnt' <= Cardinality(Ended')
  <2>1. /\ UNCHANGED <<sending, exitNotifyChan, spurious, pidList, worker, stopcnt, mpc>>
        /\ s \in pending["master"] /\ pending'["master"] = pending["master"] \ {s}
        /\ sq' = Append(sq, s) \/ sq' = sq
    BY <1>a, <1>12 DEF Fork!DeliverStep, Fork!Deliver, sq
  <2>2. One("chld" \in pending'["master"]) = One("chld" \in pending["master"]) - One(s = "chld")
    BY <2>1 DEF One
  <2>3. Cardinality(Chld(sq')) = Cardinality(Chld(sq)) + One(s = "chld") \/ sq' = sq
    <3>1. Cardinality(Chld(Append(sq, s))) = Cardinality(Chld(sq)) + One(s = "chld")
      BY <1>a, ChldCount DEF Signal
    <3> QED BY <2>1, <3>1
  <2>4. One(s = "chld") \in {0, 1} /\ One("chld" \in pending["master"]) \in Nat /\ One(sending["master"] = "chld") \in Nat
    BY DEF One
  <2>5. Ended' = Ended /\ Uncounted + stopcnt <= Cardinality(Ended)
    BY <1>b, <1>c, <2>1
  <2>6. CASE sq' = sq
    BY <1>a, <2>1, <2>2, <2>4, <2>5, <2>6 DEF Uncounted, sq, nq
  <2>7. CASE Cardinality(Chld(sq')) = Cardinality(Chld(sq)) + One(s = "chld")
    BY <1>a, <2>1, <2>2, <2>4, <2>5, <2>7, SMTT(60) DEF Uncounted, sq, nq
  <2> QED BY <2>3, <2>6, <2>7
<1>13. CASE Fork!HandleStep
  <2>0. UNCHANGED <<spurious, pidList, worker, stopcnt, mpc>>
    BY <1>13 DEF Fork!HandleStep
  <2>1. CASE Fork!SigHandle("master")
    <3>1. /\ sending["master"] = "no" /\ sq # <<>> /\ sq' = Tail(sq) /\ UNCHANGED <<pending, exitNotifyChan>>
          /\ sending'["master"] = "chld" => Head(sq) = "chld"
      BY <1>a, <2>1 DEF Fork!SigHandle, sq
    <3>2. Cardinality(Chld(sq')) = Cardinality(Chld(sq)) - One(Head(sq) = "chld")
      BY <1>a, <3>1, ChldCount
    <3> QED BY <1>a, <1>b, <1>c, <2>0, <3>1, <3>2, SMTT(60) DEF Uncounted, One, sq, nq
  <2>2. CASE Fork!SigSend("master")
    <3>1. /\ sending["master"] \in {"exit", "chld"} /\ sending'["master"] = "no"
          /\ nq' = Append(nq, sending["master"]) /\ UNCHANGED <<pending, sigChan>>
      BY <1>a, <2>2 DEF Fork!SigSend, nq
    <3>2. Cardinality(Chld(nq')) = Cardinality(Chld(nq)) + One(sending["master"] = "chld")
      BY <1>a, <3>1, ChldCount
    <3> QED BY <1>a, <1>b, <1>c, <2>0, <3>1, <3>2 DEF Uncounted, One, sq, nq
  <2> QED BY <1>13, <2>1, <2>2 DEF Fork!HandleStep, Fork!SigHandler
<1>14. CASE UNCHANGED Fork!vars
  BY <1>14, <1>b, <1>d DEF Fork!vars
<1> QED BY <1>1, <1>2, <1>3, <1>4, <1>5, <1>6, <1>7, <1>8, <1>9, <1>10, <1>11, <1>12, <1>13, <1>14
    DEF Fork!Next, Fork!MasterStep, Fork!PollStep, Fork!WorkerStep, Fork!WorkerEnds, Fork!WorkerCrashes, Fork!Sigs, Signal,
        Fork!Worker, Workers

LEMMA ForkInvariance == Fork!Spec => []ForkInv
<1>1. Fork!Init => ForkInv
  <2> SUFFICES ASSUME Fork!Init PROVE ForkInv
    OBVIOUS
  <2>0. /\ pending = [p \in Proc |-> {}] /\ sending = [p \in Proc |-> "no"]
        /\ sigChan = [p \in Proc |-> <<>>] /\ exitNotifyChan = [p \in Proc |-> <<>>]
    BY DEF Fork!Init, Fork!SigInit
  <2>1. ForkType /\ ForkPids
    <3>1. <<>> \in Seq(Signal)
      OBVIOUS
    <3>2. /\ pending \in [Proc -> SUBSET Signal] /\ sending \in [Proc -> Signal \cup {"no"}]
          /\ sigChan \in [Proc -> Seq(Signal)] /\ exitNotifyChan \in [Proc -> Seq(Signal)]
      BY <2>0, <3>1
    <3>3. /\ mpc = "notify" /\ next = 0 /\ pidList = {} /\ worker = [w \in Workers |-> "none"] /\ stopcnt = 0
          /\ aliveChan = 0 /\ stopped = {} /\ why = "no" /\ result = "no" /\ spurious = FALSE
      BY DEF Fork!Init, Fork!Worker, Workers
    <3>4. next \in 0 .. NumWorker
      BY <3>3, ToolsAssumption
    <3>5. ForkType
      BY <3>2, <3>3, <3>4 DEF ForkType
    <3> QED BY <3>3, <3>5 DEF ForkPids
  <2>2. Ended = {} /\ stopped = {} /\ Chld(<<>>) = {} /\ Cardinality({}) = 0
    BY FS_EmptySet DEF Fork!Init, Ended, Chld
  <2>3. TokenInv
    <3>1. /\ "chld" \notin pending["master"] /\ sending["master"] # "chld"
          /\ sigChan["master"] = <<>> /\ exitNotifyChan["master"] = <<>>
      BY <2>0, ToolsAssumption
    <3>2. Uncounted = 0 /\ stopcnt = 0
      <4>1. stopcnt = 0 BY DEF Fork!Init
      <4>2. Cardinality(Chld(sigChan["master"])) = 0 /\ Cardinality(Chld(exitNotifyChan["master"])) = 0
        BY <2>2, <3>1
      <4>3. One(sending["master"] = "chld") = 0 /\ One("chld" \in pending["master"]) = 0
        BY <3>1 DEF One
      <4> QED BY <4>1, <4>2, <4>3 DEF Uncounted
    <3> QED BY <2>2, <3>2 DEF TokenInv
  <2>4. PollInv /\ AllEnded
    BY <2>2 DEF Fork!Init, PollInv, AllEnded, Counting
  <2> QED BY <2>1, <2>3, <2>4 DEF ForkInv
<1>2. ForkInv /\ [Fork!Next]_(Fork!vars) => ForkInv'
  BY ForkTypeStep, TokenStep, PollStep, AllEndedStep DEF ForkInv
<1> QED BY <1>1, <1>2, PTL DEF Fork!Spec

\* The master of fork-cpuaffinity says that all workers have stopped, and
\* stressWait returns nil, only when every process of pidList has ended,
\* whatever the order of signals, the capacity of the channels and the number
\* of workers: a SIGCHLD may be lost, and is never counted twice.
THEOREM ForkCorrect == Fork!Spec => []StopSound
<1>1. ForkInv => StopSound
  BY DEF ForkInv, AllEnded, Ended, StopSound, Fork!StopSound, Fork!Dead
<1> QED BY <1>1, ForkInvariance, PTL

(***************************************************************************)
(* simplefilesearch                                                        *)
(***************************************************************************)
Searchers == 1 .. NCpu
Known == {n \in Name : allfiles[n] # "no"}      \* the keys of allfiles

SearchType ==
    /\ \A n \in Name : fs[n].kind \in {"none", "dir", "file"} /\ fs[n].names \subseteq Name /\ fs[n].hits \in Nat
    /\ \A n \in Name : fs[n].kind # "dir" => fs[n].names = {}
    /\ files \subseteq Name /\ allfiles \in [Name -> {"no", "new", "done"}]
    /\ newfilecnt \in Nat /\ todo \subseteq Name /\ idx \in 0 .. NCpu
    /\ smpc \in {"pass", "visit", "send", "wait", "closed", "ended"} /\ onefile \in Name
    /\ inCh \in Seq(Name)
    /\ outCh \in Nat /\ bufout \in Nat /\ stdout \in Nat /\ due \in Nat
    /\ searcher \in [Searchers -> {"none", "idle", "send", "ended"}] /\ left \in [Searchers -> Nat]

\* The names of a directory that is done are in the map, a file that is done
\* has been sent or is being sent, and an iteration that has found nothing new
\* has passed only by what is done.
WalkInv ==
    /\ files \subseteq Known
    /\ \A n \in Name : allfiles[n] = "done" =>
          /\ fs[n].names \subseteq Known
          /\ fs[n].kind = "file" => n \in searched \/ (smpc = "send" /\ n = onefile)
    /\ newfilecnt = 0 /\ smpc \in {"visit", "send"} => \A n \in Known : n \in todo \/ allfiles[n] = "done"
    /\ newfilecnt = 0 /\ smpc = "pass" => \A n \in Known : allfiles[n] = "done"
    /\ smpc \in {"wait", "closed", "ended"} => \A n \in Known : allfiles[n] = "done"

\* The matching lines of the files in inCh, one row for each.
InHits == [i \in 1 .. Len(inCh) |-> fs[inCh[i]].hits]

\* Every matching line of a file that was sent is in the file still, with a
\* searcher, in outCh, in the writer's buffer or written.
LinesInv == due = Cardinality(Cells(InHits)) + Cardinality(Cells(left)) + outCh + bufout + stdout

\* A file in inCh has a searcher that has not ended, unless it is empty.
SearcherInv ==
    /\ \A w \in Searchers : searcher[w] # "none" <=> w <= idx
    /\ \A w \in Searchers : searcher[w] = "send" <=> left[w] # 0
    /\ (\E w \in Searchers : searcher[w] = "ended") => inCh = <<>> /\ smpc \in {"wait", "closed", "ended"}
    /\ inCh # <<>> \/ smpc = "send" => idx > 0
    /\ smpc \in {"closed", "ended"} => inCh = <<>> /\ \A w \in Searchers : left[w] = 0 /\ searcher[w] # "idle"

SearchInv == SearchType /\ WalkInv /\ LinesInv /\ SearcherInv

LEMMA SearchCardinality == \A S : Search!Cardinality(S) = Cardinality(S)
BY DEF Search!Cardinality, Cardinality

\* A set of names that holds those of S and the names of its directories holds
\* all that S leads to.  The function by which Closure is defined exists, and
\* each of its values is within the set.
LEMMA ClosureWithin ==
  ASSUME NEW S, NEW K, S \subseteq K, \A n \in K : fs[n].names \subseteq K
  PROVE  Search!Closure(S) \subseteq K
<1> DEFINE N == Cardinality(Name)
           Step(X) == X \cup UNION {fs[n].names : n \in X}
           Is(f, k) == f = [i \in 0 .. k |-> IF i = 0 THEN S ELSE Step(f[i - 1])]
<1>1. N \in Nat
  BY ToolsAssumption, FS_CardinalityType
<1>2. \E f : Is(f, N)
  <2> DEFINE D == {k \in 0 .. N : \E f : Is(f, k)}
  <2>1. 0 \in D
    <3> DEFINE f == [i \in 0 .. 0 |-> S]
    <3>1. Is(f, 0)
      OBVIOUS
    <3>2. 0 \in 0 .. N
      BY <1>1
    <3> HIDE DEF f, N, Is
    <3> QED BY <3>1, <3>2
  <2>2. ASSUME NEW k \in 0 .. N - 1, k \in D PROVE k + 1 \in D
    <3>1. PICK f : Is(f, k)
      BY <2>2
    <3> DEFINE g == [i \in 0 .. k + 1 |-> IF i = k + 1 THEN Step(f[k]) ELSE f[i]]
    <3> HIDE DEF Step, N
    <3>2. ASSUME NEW i \in 0 .. k + 1 PROVE g[i] = IF i = 0 THEN S ELSE Step(g[i - 1])
      BY <1>1, <3>1
    <3>3. Is(g, k + 1)
      BY <3>2
    <3>4. k + 1 \in 0 .. N
      BY <1>1
    <3> QED BY <3>3, <3>4
  <2> HIDE DEF D, Step, Is, N
  <2>3. 0 .. N \subseteq D
    BY <1>1, <2>1, <2>2, IntervalInduction
  <2>4. N \in D
    BY <1>1, <2>3
  <2> QED BY <2>4 DEF D
<1> DEFINE below == CHOOSE f : Is(f, N)
<1>3. Is(below, N)
  BY <1>2
<1>4. Search!Closure(S) = below[N]
  BY SearchCardinality DEF Search!Closure
<1>5. below[N] \subseteq K
  <2> DEFINE D == {k \in 0 .. N : below[k] \subseteq K}
  <2> HIDE DEF below, N
  <2>1. 0 \in D
    BY <1>1, <1>3
  <2>2. ASSUME NEW k \in 0 .. N - 1, k \in D PROVE k + 1 \in D
    <3>1. below[k + 1] = Step(below[k])
      <4>1. k + 1 \in 0 .. N /\ k + 1 # 0 /\ (k + 1) - 1 = k
        BY <1>1
      <4> QED BY <1>3, <4>1
    <3>2. Step(below[k]) \subseteq K
      BY <2>2
    <3> QED BY <1>1, <3>1, <3>2
  <2> HIDE DEF D, Step, Is
  <2>3. 0 .. N \subseteq D
    BY <1>1, <2>1, <2>2, IntervalInduction
  <2>4. N \in D
    BY <1>1, <2>3
  <2> QED BY <2>4 DEF D
<1> QED BY <1>4, <1>5

LEMMA SearchTypeStep == SearchType /\ SearcherInv /\ [Search!Next]_(Search!vars) => SearchType'
<1> SUFFICES ASSUME SearchType, SearcherInv, [Search!Next]_(Search!vars) PROVE SearchType'
  OBVIOUS
<1> USE ToolsAssumption DEF SearchType, Searchers, Search!walkVars, Search!fixed
<1>1. CASE Search!NextPass \/ Search!PassEnds \/ Search!WgWait \/ Search!Return
  BY <1>1, SMTT(60) DEF Search!NextPass, Search!PassEnds, Search!WgWait, Search!Return
<1>2. CASE Search!SendInfo
  <2>1. inCh' \in Seq(Name) /\ due' \in Nat
    BY <1>2, SMTT(60) DEF Search!SendInfo
  <2> QED BY <1>2, <2>1 DEF Search!SendInfo
<1>3. ASSUME NEW n \in Name, Search!SkipDone(n) \/ Search!OpenFails(n) PROVE SearchType'
  <2>1. allfiles' \in [Name -> {"no", "new", "done"}] /\ newfilecnt' \in Nat /\ todo' \subseteq Name
    <3>1. CASE Search!SkipDone(n) BY <3>1 DEF Search!SkipDone
    <3>2. CASE Search!OpenFails(n) BY <3>2 DEF Search!OpenFails, Search!Reach
    <3> QED BY <1>3, <3>1, <3>2
  <2> QED BY <1>3, <2>1 DEF Search!SkipDone, Search!OpenFails
<1>4. ASSUME NEW n \in Name, Search!ListDir(n) PROVE SearchType'
  BY <1>4 DEF Search!ListDir, Search!Reach
<1>5. ASSUME NEW n \in Name, Search!StartSearch(n) PROVE SearchType'
  <2>1. allfiles' \in [Name -> {"no", "new", "done"}] /\ newfilecnt' \in Nat /\ todo' \subseteq Name
    BY <1>5 DEF Search!StartSearch, Search!Reach
  <2>2. idx' \in 0 .. NCpu
    BY <1>5 DEF Search!StartSearch
  <2>3. searcher' \in [Searchers -> {"none", "idle", "send", "ended"}]
    BY <1>5 DEF Search!StartSearch
  <2> QED BY <1>5, <2>1, <2>2, <2>3 DEF Search!StartSearch
<1>6. ASSUME NEW w \in Searchers, Search!Take(w) PROVE SearchType'
  <2>1. inCh' \in Seq(Name) /\ Head(inCh) \in Name
    BY <1>6 DEF Search!Take
  <2>2. left' \in [Searchers -> Nat] /\ searcher' \in [Searchers -> {"none", "idle", "send", "ended"}]
    BY <1>6, <2>1 DEF Search!Take, Search!Search
  <2> QED BY <1>6, <2>1, <2>2 DEF Search!Take
<1>7. ASSUME NEW w \in Searchers, Search!SendLine(w) PROVE SearchType'
  <2>1. left[w] - 1 \in Nat /\ outCh' \in Nat
    BY <1>7 DEF Search!SendLine, SearcherInv
  <2>2. left' \in [Searchers -> Nat] /\ searcher' \in [Searchers -> {"none", "idle", "send", "ended"}]
    BY <1>7, <2>1 DEF Search!SendLine, Search!Search
  <2> QED BY <1>7, <2>1, <2>2 DEF Search!SendLine
<1>8. ASSUME NEW w \in Searchers, Search!SearchEnds(w) PROVE SearchType'
  BY <1>8 DEF Search!SearchEnds
<1>9. CASE Search!WriteLine
  <2>1. outCh' \in Nat /\ bufout' \in Nat /\ stdout' \in Nat
    BY <1>9 DEF Search!WriteLine
  <2> QED BY <1>9, <2>1 DEF Search!WriteLine
<1>10. CASE UNCHANGED Search!vars
  BY <1>10 DEF Search!vars
<1> QED BY <1>1, <1>2, <1>3, <1>4, <1>5, <1>6, <1>7, <1>8, <1>9, <1>10
    DEF Search!Next, Search!MainStep, Search!SearchStep

\* An iteration may miss names that are added while it runs, and then it has
\* counted the directory that added them.
LEMMA WalkStep == SearchType /\ WalkInv /\ [Search!Next]_(Search!vars) => WalkInv'
<1> SUFFICES ASSUME SearchType, WalkInv, [Search!Next]_(Search!vars) PROVE WalkInv'
  OBVIOUS
<1> USE DEF SearchType, WalkInv, Known, Search!walkVars, Search!fixed
<1>1. CASE Search!NextPass
  BY <1>1 DEF Search!NextPass
<1>2. CASE Search!PassEnds
  BY <1>2 DEF Search!PassEnds
<1>3. CASE Search!WgWait \/ Search!Return
  BY <1>3 DEF Search!WgWait, Search!Return
<1>4. CASE Search!SendInfo
  BY <1>4 DEF Search!SendInfo
<1>5. ASSUME NEW n \in Name, Search!SkipDone(n) PROVE WalkInv'
  BY <1>5 DEF Search!SkipDone
<1>6. ASSUME NEW n \in Name, Search!OpenFails(n) PROVE WalkInv'
  BY <1>6 DEF Search!OpenFails, Search!Reach
<1>7. ASSUME NEW n \in Name, Search!ListDir(n) PROVE WalkInv'
  BY <1>7 DEF Search!ListDir, Search!Reach
<1>8. ASSUME NEW n \in Name, Search!StartSearch(n) PROVE WalkInv'
  BY <1>8 DEF Search!StartSearch, Search!Reach
<1>9. ASSUME NEW w \in Searchers, Search!Take(w) \/ Search!SendLine(w) \/ Search!SearchEnds(w) PROVE WalkInv'
  BY <1>9 DEF Search!Take, Search!SendLine, Search!SearchEnds
<1>10. CASE Search!WriteLine \/ UNCHANGED Search!vars
  BY <1>10 DEF Search!WriteLine, Search!vars
<1> QED BY <1>1, <1>2, <1>3, <1>4, <1>5, <1>6, <1>7, <1>8, <1>9, <1>10
    DEF Search!Next, Search!MainStep, Search!SearchStep, Searchers

\* A searcher ends only when inCh is closed and empty, and outCh is closed only
\* when all searchers that were started have ended.
LEMMA SearcherStep == SearchType /\ SearcherInv /\ [Search!Next]_(Search!vars) => SearcherInv'
<1> SUFFICES ASSUME SearchType, SearcherInv, [Search!Next]_(Search!vars) PROVE SearcherInv'
  OBVIOUS
<1> USE ToolsAssumption DEF SearchType, SearcherInv, Searchers, Search!walkVars, Search!fixed
<1>1. CASE Search!NextPass \/ Search!PassEnds \/ Search!Return
  BY <1>1 DEF Search!NextPass, Search!PassEnds, Search!Return
<1>2. CASE Search!WgWait
  BY <1>2 DEF Search!WgWait
<1>3. CASE Search!SendInfo
  BY <1>3 DEF Search!SendInfo
<1>4. ASSUME NEW n \in Name, Search!SkipDone(n) \/ Search!OpenFails(n) \/ Search!ListDir(n) PROVE SearcherInv'
  <2>1. UNCHANGED <<searcher, idx, left, inCh, smpc>>
    BY <1>4 DEF Search!SkipDone, Search!OpenFails, Search!ListDir
  <2> QED BY <2>1
<1>5. ASSUME NEW n \in Name, Search!StartSearch(n) PROVE SearcherInv'
  <2>1. smpc = "visit" /\ smpc' = "send" /\ UNCHANGED <<left, inCh>>
    BY <1>5 DEF Search!StartSearch, Search!Reach
  <2>2. CASE idx < NCpu
    <3>1. idx' = idx + 1 /\ idx + 1 \in Searchers /\ searcher' = [searcher EXCEPT ![idx + 1] = "idle"]
      BY <1>5, <2>2 DEF Search!StartSearch
    <3>2. searcher[idx + 1] = "none"
      BY <3>1
    <3> QED BY <2>1, <3>1, <3>2
  <2>3. CASE ~(idx < NCpu)
    BY <1>5, <2>1, <2>3 DEF Search!StartSearch
  <2> QED BY <2>2, <2>3
<1>6. ASSUME NEW w \in Searchers, Search!Take(w) PROVE SearcherInv'
  BY <1>6 DEF Search!Take, Search!Search
<1>7. ASSUME NEW w \in Searchers, Search!SendLine(w) PROVE SearcherInv'
  BY <1>7 DEF Search!SendLine, Search!Search
<1>8. ASSUME NEW w \in Searchers, Search!SearchEnds(w) PROVE SearcherInv'
  BY <1>8 DEF Search!SearchEnds
<1>9. CASE Search!WriteLine \/ UNCHANGED Search!vars
  BY <1>9 DEF Search!WriteLine, Search!vars
<1> QED BY <1>1, <1>2, <1>3, <1>4, <1>5, <1>6, <1>7, <1>8, <1>9
    DEF Search!Next, Search!MainStep, Search!SearchStep

\* No step loses a matching line, and none sends one twice.
LEMMA LinesStep ==
  SearchType /\ SearcherInv /\ LinesInv /\ [Search!Next]_(Search!vars) => LinesInv'
<1> SUFFICES ASSUME SearchType, SearcherInv, LinesInv, [Search!Next]_(Search!vars) PROVE LinesInv'
  OBVIOUS
<1> USE ToolsAssumption DEF Searchers, Search!walkVars, Search!fixed
<1>0. /\ Len(inCh) \in Nat /\ InHits \in [1 .. Len(inCh) -> Nat] /\ left \in [1 .. NCpu -> Nat]
      /\ outCh \in Nat /\ bufout \in Nat /\ stdout \in Nat /\ due \in Nat
  <2>1. Len(inCh) \in Nat /\ \A i \in 1 .. Len(inCh) : inCh[i] \in Name
    BY DEF SearchType
  <2>2. \A n \in Name : fs[n].hits \in Nat
    BY DEF SearchType
  <2> QED BY <2>1, <2>2 DEF SearchType, InHits
<1> DEFINE in == Cardinality(Cells(InHits))
           lt == Cardinality(Cells(left))
<1>f. IsFiniteSet(1 .. NCpu) /\ IsFiniteSet(1 .. Len(inCh))
  BY <1>0, FS_Interval
<1>b. in \in Nat
  BY <1>0, <1>f, CellsFinite
<1>c. due = in + lt + outCh + bufout + stdout
  BY DEF LinesInv
<1>d. due' = in' + lt' + outCh' + bufout' + stdout' => LinesInv'
  BY DEF LinesInv
<1>e. outCh \in Nat /\ bufout \in Nat /\ stdout \in Nat /\ due \in Nat
  BY <1>0
<1>a. lt \in Nat
  BY <1>0, <1>f, CellsFinite
<1>1. ASSUME UNCHANGED <<fs, inCh, left, outCh, bufout, stdout, due>> PROVE LinesInv'
  BY <1>1 DEF LinesInv, InHits
<1>2. CASE Search!SendInfo
  <2>1. /\ inCh' = Append(inCh, onefile) /\ onefile \in Name /\ due' = due + fs[onefile].hits
        /\ UNCHANGED <<fs, left, outCh, bufout, stdout>>
    BY <1>2 DEF Search!SendInfo, SearchType
  <2>2. /\ InHits' \in [1 .. Len(inCh) + 1 -> Nat] /\ InHits'[Len(inCh) + 1] = fs[onefile].hits
        /\ \A i \in 1 .. Len(inCh) : InHits'[i] = InHits[i]
        /\ fs[onefile].hits \in Nat
    <3>1. /\ Len(inCh') = Len(inCh) + 1 /\ inCh'[Len(inCh) + 1] = onefile
          /\ \A i \in 1 .. Len(inCh) : inCh'[i] = inCh[i] /\ inCh[i] \in Name
      BY <2>1 DEF SearchType
    <3>2. \A n \in Name : fs[n].hits \in Nat
      BY DEF SearchType
    <3>3. InHits' = [i \in 1 .. Len(inCh) + 1 |-> fs[inCh'[i]].hits]
      BY <2>1, <3>1 DEF InHits
    <3>4. \A i \in 1 .. Len(inCh) + 1 : inCh'[i] \in Name
      BY <1>0, <2>1, <3>1
    <3> QED BY <1>0, <2>1, <3>1, <3>2, <3>3, <3>4 DEF InHits
  <2>3. Cardinality(Cells(InHits')) = Cardinality(Cells(InHits)) + fs[onefile].hits
    <3> DEFINE g == InHits'
               h == InHits
    <3>1. g[Len(inCh) + 1] = fs[onefile].hits
      BY <2>2
    <3> HIDE DEF g, h
    <3>2. Cardinality(Cells(g)) = Cardinality(Cells(h)) + g[Len(inCh) + 1]
      BY <1>0, <2>2, CellsAppend DEF g, h
    <3> QED BY <3>1, <3>2 DEF g, h
  <2>4. lt' = lt
    BY <2>1
  <2>5. in' = in + fs[onefile].hits
    BY <2>3
  <2>6. due' = due + fs[onefile].hits /\ fs[onefile].hits \in Nat /\ UNCHANGED <<outCh, bufout, stdout>>
    BY <2>1, <2>2
  <2> HIDE DEF in, lt
  <2> QED BY <1>a, <1>b, <1>c, <1>d, <1>e, <2>4, <2>5, <2>6
<1>3. ASSUME NEW w \in Searchers, Search!Take(w) PROVE LinesInv'
  <2> DEFINE k == fs[Head(inCh)].hits
  <2>1. /\ inCh # <<>> /\ inCh' = Tail(inCh) /\ left' = [left EXCEPT ![w] = k] /\ left[w] = 0
        /\ UNCHANGED <<fs, outCh, bufout, stdout, due>>
    BY <1>3 DEF Search!Take, Search!Search, SearcherInv
  <2>2. PICK m \in Nat : Len(inCh) = m + 1
    <3>1. Len(inCh) \in Nat /\ Len(inCh) # 0
      BY <1>0, <2>1 DEF SearchType
    <3>2. Len(inCh) - 1 \in Nat /\ Len(inCh) = (Len(inCh) - 1) + 1
      BY <3>1
    <3> QED BY <3>2
  <2>3. /\ InHits' \in [1 .. m -> Nat] /\ InHits[1] = k /\ k \in Nat
        /\ \A i \in 1 .. m : InHits'[i] = InHits[i + 1]
    <3>1. /\ Len(inCh') = m /\ \A i \in 1 .. m : inCh'[i] = inCh[i + 1]
          /\ \A i \in 1 .. m + 1 : inCh[i] \in Name
          /\ inCh[1] = Head(inCh)
      BY <2>1, <2>2 DEF SearchType
    <3>2. \A n \in Name : fs[n].hits \in Nat
      BY DEF SearchType
    <3>3. InHits' = [i \in 1 .. m |-> fs[inCh'[i]].hits] /\ InHits = [i \in 1 .. m + 1 |-> fs[inCh[i]].hits]
      BY <2>1, <2>2, <3>1 DEF InHits
    <3>4. InHits' \in [1 .. m -> Nat]
      BY <3>1, <3>2, <3>3
    <3>5. InHits[1] = k /\ k \in Nat
      BY <3>1, <3>2, <3>3
    <3>6. \A i \in 1 .. m : InHits'[i] = InHits[i + 1]
      BY <2>1, <3>1, <3>3
    <3> QED BY <3>4, <3>5, <3>6
  <2>4. Cardinality(Cells(InHits')) = Cardinality(Cells(InHits)) - k
    <3> DEFINE g == InHits'
               h == InHits
    <3>1. h[1] = k
      BY <2>3
    <3> HIDE DEF g, h, k
    <3>2. Cardinality(Cells(g)) = Cardinality(Cells(h)) - h[1]
      BY <1>0, <2>2, <2>3, CellsTail DEF g, h
    <3> QED BY <3>1, <3>2 DEF g, h
  <2>5. Cardinality(Cells(left')) = Cardinality(Cells(left)) + k
    <3> HIDE DEF k
    <3>1. Cardinality(Cells([left EXCEPT ![w] = k])) = Cardinality(Cells(left)) - left[w] + k
      <4>1. left \in [1 .. NCpu -> Nat] /\ IsFiniteSet(1 .. NCpu) /\ w \in 1 .. NCpu /\ k \in Nat
        BY <1>0, <1>f, <2>3
      <4> QED BY <4>1, CellsSet
    <3> QED BY <1>a, <2>1, <2>3, <3>1
  <2>6. in' = in - k /\ lt' = lt + k /\ k \in Nat /\ UNCHANGED <<outCh, bufout, stdout, due>>
    BY <2>1, <2>3, <2>4, <2>5
  <2> HIDE DEF k, in, lt
  <2> QED BY <1>a, <1>b, <1>c, <1>d, <1>e, <2>6
<1>4. ASSUME NEW w \in Searchers, Search!SendLine(w) PROVE LinesInv'
  <2>1. /\ left[w] - 1 \in Nat /\ left' = [left EXCEPT ![w] = left[w] - 1] /\ outCh' = outCh + 1
        /\ UNCHANGED <<fs, inCh, bufout, stdout, due>> /\ left[w] \in Nat
    BY <1>0, <1>4, SMTT(60) DEF Search!SendLine, Search!Search, SearcherInv
  <2>2. Cardinality(Cells(left')) = Cardinality(Cells(left)) - left[w] + (left[w] - 1)
    <3> DEFINE j == left[w] - 1
    <3>1. left \in [1 .. NCpu -> Nat] /\ IsFiniteSet(1 .. NCpu) /\ w \in 1 .. NCpu /\ j \in Nat
      BY <1>0, <1>f, <2>1
    <3> HIDE DEF j
    <3>2. Cardinality(Cells([left EXCEPT ![w] = j])) = Cardinality(Cells(left)) - left[w] + j
      BY <3>1, CellsSet
    <3> QED BY <2>1, <3>2 DEF j
  <2>3. InHits' = InHits
    BY <2>1 DEF InHits
  <2>4. in' = in
    BY <2>3
  <2>5. lt' = lt - left[w] + (left[w] - 1)
    BY <2>2
  <2>6. outCh' = outCh + 1 /\ UNCHANGED <<bufout, stdout, due>> /\ left[w] \in Nat
    BY <2>1
  <2> HIDE DEF in, lt
  <2> QED BY <1>a, <1>b, <1>c, <1>d, <1>e, <2>4, <2>5, <2>6
<1>5. CASE Search!WriteLine
  <2>1. in' = in /\ lt' = lt /\ due' = due
    BY <1>5 DEF Search!WriteLine, InHits
  <2>2. outCh' = outCh - 1
    BY <1>5 DEF Search!WriteLine
  <2>3. \/ bufout' = 0 /\ stdout' = stdout + bufout + 1
        \/ bufout' = bufout + 1 /\ stdout' = stdout
    BY <1>5 DEF Search!WriteLine
  <2> HIDE DEF in, lt
  <2> QED BY <1>a, <1>b, <1>c, <1>d, <1>e, <2>1, <2>2, <2>3
<1>6. CASE Search!NextPass \/ Search!PassEnds \/ Search!WgWait \/ Search!Return
  BY <1>1, <1>6 DEF Search!NextPass, Search!PassEnds, Search!WgWait, Search!Return
<1>7. ASSUME NEW n \in Name, Search!SkipDone(n) \/ Search!OpenFails(n) \/ Search!ListDir(n) \/ Search!StartSearch(n)
      PROVE  LinesInv'
  BY <1>1, <1>7 DEF Search!SkipDone, Search!OpenFails, Search!ListDir, Search!StartSearch
<1>8. ASSUME NEW w \in Searchers, Search!SearchEnds(w) PROVE LinesInv'
  BY <1>1, <1>8 DEF Search!SearchEnds
<1>9. CASE UNCHANGED Search!vars
  BY <1>1, <1>9 DEF Search!vars
<1> QED BY <1>2, <1>3, <1>4, <1>5, <1>6, <1>7, <1>8, <1>9
    DEF Search!Next, Search!MainStep, Search!SearchStep

LEMMA SearchInvariance == Search!Spec => []SearchInv
<1>1. Search!Init => SearchInv
  <2> SUFFICES ASSUME Search!Init PROVE SearchInv
    OBVIOUS
  <2>1. SearchType
    <3>1. \A n \in Name : fs[n] \in Search!Entries
      BY DEF Search!Init
    <3>2. /\ \A n \in Name : fs[n].kind \in {"none", "dir", "file"} /\ fs[n].names \subseteq Name /\ fs[n].hits \in Nat
          /\ \A n \in Name : fs[n].kind # "dir" => fs[n].names = {}
      BY <3>1 DEF Search!Entries
    <3>3. files \subseteq Name /\ (CHOOSE n \in Name : TRUE) \in Name
      <4>1. files \in SUBSET Name /\ files # {}
        <5>1. files \in (SUBSET Name) \ {{}}
          BY Zenon DEF Search!Init
        <5> QED BY <5>1
      <4>2. PICK n \in Name : TRUE
        BY <4>1
      <4> QED BY <4>1, <4>2, Zenon
    <3>4. Cardinality(files) \in Nat
      BY <3>3, ToolsAssumption, FS_Subset, FS_CardinalityType
    <3>5. newfilecnt \in Nat /\ onefile \in Name /\ inCh \in Seq(Name)
      BY <3>3, <3>4, SearchCardinality DEF Search!Init
    <3> QED BY <3>2, <3>3, <3>5, ToolsAssumption DEF Search!Init, SearchType, Searchers
  <2>2. WalkInv
    <3>1. newfilecnt # 0
      <4>1. files \subseteq Name /\ files # {} /\ newfilecnt = Cardinality(files)
        <5>1. files \in (SUBSET Name) \ {{}} /\ newfilecnt = Search!Cardinality(files)
          BY Zenon DEF Search!Init
        <5> QED BY <5>1, SearchCardinality
      <4>2. IsFiniteSet(files)
        BY <4>1, ToolsAssumption, FS_Subset
      <4> QED BY <4>1, <4>2, FS_EmptySet
    <3> QED BY <3>1 DEF Search!Init, WalkInv, Known
  <2>3. LinesInv
    <3>1. Cells(InHits) = {} /\ Cells(left) = {}
      BY DEF Search!Init, Cells, InHits
    <3>2. Cardinality(Cells(InHits)) = 0 /\ Cardinality(Cells(left)) = 0
      BY <3>1, FS_EmptySet
    <3>3. due = 0 /\ outCh = 0 /\ bufout = 0 /\ stdout = 0
      BY DEF Search!Init
    <3> QED BY <3>2, <3>3 DEF LinesInv
  <2>4. SearcherInv
    BY DEF Search!Init, SearcherInv, Searchers
  <2> QED BY <2>1, <2>2, <2>3, <2>4 DEF SearchInv
<1>2. SearchInv /\ [Search!Next]_(Search!vars) => SearchInv'
  BY SearchTypeStep, WalkStep, SearcherStep, LinesStep DEF SearchInv
<1> QED BY <1>1, <1>2, PTL DEF Search!Spec

\* When main of simplefilesearch says "all done", every file that the command
\* line leads to has been searched, whatever part of its new entries each
\* iteration over the growing map has met, and every matching line has reached
\* outCh, the writer's buffer or the output, whatever the number of searchers
\* and the capacity of the channels.
THEOREM SearchCorrect == Search!Spec => []SearchComplete
<1>1. SearchInv => SearchComplete
  <2> SUFFICES ASSUME SearchInv, smpc = "closed"
               PROVE  /\ {n \in Search!Closure(files) : fs[n].kind = "file"} \subseteq searched
                      /\ outCh + bufout + stdout = due
    BY DEF SearchComplete, Search!SearchComplete
  <2>0. SearchType /\ WalkInv /\ LinesInv /\ SearcherInv
    BY DEF SearchInv
  <2>1. Search!Closure(files) \subseteq Known
    <3>1. files \subseteq Known /\ \A n \in Known : fs[n].names \subseteq Known
      BY <2>0 DEF WalkInv, Known
    <3> QED BY <3>1, ClosureWithin
  <2>2. {n \in Search!Closure(files) : fs[n].kind = "file"} \subseteq searched
    BY <2>0, <2>1 DEF WalkInv, Known
  <2>3. Cells(InHits) = {} /\ Cells(left) = {}
    <3>1. inCh = <<>> /\ \A w \in Searchers : left[w] = 0
      BY <2>0 DEF SearcherInv
    <3> QED BY <2>0, <3>1 DEF Cells, InHits, SearchType
  <2>4. due = outCh + bufout + stdout
    BY <2>0, <2>3, FS_EmptySet DEF LinesInv, SearchType
  <2> QED BY <2>2, <2>4
<1> QED BY <1>1, SearchInvariance, PTL

(***************************************************************************)
(* go-vs-php-file-parse                                                    *)
(***************************************************************************)
LEMMA RemainderIs ==
  ASSUME NEW m \in Nat \ {0}, NEW q \in Int, NEW r \in 0 .. m - 1
  PROVE  (m * q + r) % m = r
OBVIOUS

LEMMA DivideWhole ==
  ASSUME NEW m \in Nat \ {0}, NEW a \in Int
  PROVE  \E q \in Int : \E r \in 0 .. m - 1 : a = m * q + r
<1> DEFINE q == a \div m
<1>1. q \in Int /\ m * q <= a /\ a < m * (q + 1)
  OBVIOUS
<1> HIDE DEF q
<1>2. m * (q + 1) = m * q + m /\ m * q \in Int
  BY <1>1
<1> DEFINE x == m * q
<1>3. x \in Int /\ x <= a /\ a < x + m
  BY <1>1, <1>2
<1> HIDE DEF x
<1>4. a - x \in 0 .. m - 1 /\ a = x + (a - x)
  BY <1>3
<1> QED BY <1>1, <1>4 DEF x

\* A counter of the width of a word that is added to again and again is the sum
\* in that width.
LEMMA RemainderSum ==
  ASSUME NEW m \in Nat \ {0}, NEW a \in Nat, NEW b \in Nat
  PROVE  ((a % m) + b) % m = (a + b) % m /\ 0 % m = 0
<1>1. PICK q \in Int, r \in 0 .. m - 1 : a = m * q + r
  <2>1. a \in Int
    OBVIOUS
  <2> QED BY <2>1, DivideWhole
<1>2. PICK p \in Int, v \in 0 .. m - 1 : r + b = m * p + v
  <2>1. r + b \in Int
    OBVIOUS
  <2> QED BY <2>1, DivideWhole
<1>3. a % m = r
  <2>1. (m * q + r) % m = r
    BY RemainderIs
  <2> QED BY <1>1, <2>1
<1>4. (r + b) % m = v
  <2>1. (m * p + v) % m = v
    BY RemainderIs
  <2> QED BY <1>2, <2>1
<1>5. a + b = m * (q + p) + v /\ q + p \in Int
  <2>1. m * (q + p) = m * q + m * p
    OBVIOUS
  <2>2. m * q \in Int /\ m * p \in Int
    OBVIOUS
  <2> QED BY <1>1, <1>2, <2>1, <2>2
<1>6. (a + b) % m = v
  <2>1. (m * (q + p) + v) % m = v
    BY <1>5, RemainderIs
  <2> QED BY <1>5, <2>1
<1>7. 0 % m = 0
  OBVIOUS
<1> QED BY <1>3, <1>4, <1>6, <1>7

FileByte == {"sp", "1", "-", "x"}

LEMMA OneLine == \A S : \A x \in S : <<x>> \in Seq(S)
OBVIOUS

LEMMA FilesAreLines == Files \subseteq Seq(Seq(FileByte))
<1> DEFINE short == {<<>>, <<"sp", "1", "sp">>, <<"1", "sp", "x", "sp">>, <<"1", "1", "1", "1", "1", "1">>}
<1>1. short \subseteq Seq(FileByte)
  BY DEF FileByte
<1>2. \A n \in Nat : [1 .. n -> FileByte] \subseteq Seq(FileByte) /\ [1 .. n -> {"sp", "1"}] \subseteq Seq(FileByte)
  <2>1. {"sp", "1"} \subseteq FileByte
    BY DEF FileByte
  <2> HIDE DEF FileByte
  <2>2. ASSUME NEW n \in Nat, NEW f \in [1 .. n -> FileByte] PROVE f \in Seq(FileByte)
    OBVIOUS
  <2>3. ASSUME NEW n \in Nat, NEW f \in [1 .. n -> {"sp", "1"}] PROVE f \in [1 .. n -> FileByte]
    BY <2>1
  <2> QED BY <2>2, <2>3
<1> HIDE DEF short
<1>3. ASSUME NEW l, l \in (UNION {[1 .. n -> {"sp", "1", "-", "x"}] : n \in 0 .. 3}) \cup [1 .. 4 -> {"sp", "1"}]
      PROVE  <<l>> \in Seq(Seq(FileByte))
  <2>1. l \in Seq(FileByte)
    <3>1. CASE l \in [1 .. 4 -> {"sp", "1"}]
      BY <1>2, <3>1
    <3>2. CASE l \in UNION {[1 .. n -> {"sp", "1", "-", "x"}] : n \in 0 .. 3}
      <4>1. PICK n \in 0 .. 3 : l \in [1 .. n -> FileByte]
        BY <3>2 DEF FileByte
      <4>2. n \in Nat
        OBVIOUS
      <4> QED BY <1>2, <4>1, <4>2
    <3> QED BY <1>3, <3>1, <3>2
  <2> HIDE DEF FileByte
  <2> QED BY <2>1, OneLine
<1>4. UNION {[1 .. n -> short] : n \in 0 .. 3} \subseteq Seq(Seq(FileByte))
  <2>1. ASSUME NEW n \in 0 .. 3, NEW f \in [1 .. n -> short] PROVE f \in Seq(Seq(FileByte))
    <3>1. f \in [1 .. n -> Seq(FileByte)] /\ n \in Nat
      BY <1>1
    <3> QED BY <3>1
  <2> QED BY <2>1
<1> QED BY <1>3, <1>4 DEF Files, short

\* Bytes of the first n lines.
Sizes(n) == [i \in 1 .. n |-> Len(file[i]) + 1]
SizeOf(n) == Cardinality(Cells(Sizes(n)))

ParseType ==
    /\ file \in Seq(Seq(FileByte)) /\ tail \in BOOLEAN /\ (tail => file # <<>>)
    /\ at \in Nat
    /\ DOMAIN stat = {"lines", "bytes", "sizes", "done"} /\ stat.done \in BOOLEAN

\* The one stat counts the lines that have been read, in the width of its
\* counters, and it is marked as done only when all of them are.
ParseCount ==
    /\ ppc \in {"create", "gen", "open", "start"} => spc = "none"
    /\ ppc \in {"open", "start"} => at = 0 /\ stat.lines = 0 /\ stat.bytes = 0 /\ ~stat.done
    /\ spc # "none" => /\ at <= Parse!Whole
                       /\ stat.lines = Parse!Word(at) /\ stat.bytes = Parse!Word(SizeOf(at))
                       /\ stat.done => at = Parse!Whole
    /\ spc = "ended" => stat.done /\ report = <<stat.lines, stat.bytes>>

ParseInv == ParseType /\ ParseCount

LEMMA SizeFacts ==
  ASSUME file \in Seq(Seq(FileByte)), NEW n \in 0 .. Len(file)
  PROVE  /\ Sizes(n) \in [1 .. n -> Nat] /\ SizeOf(n) \in Nat
         /\ n = 0 => SizeOf(n) = 0
         /\ n < Len(file) => SizeOf(n + 1) = SizeOf(n) + (Len(file[n + 1]) + 1)
<1>0. \A i \in 1 .. Len(file) : Len(file[i]) \in Nat /\ Len(file) \in Nat
  <2> HIDE DEF FileByte
  <2>1. \A i \in 1 .. Len(file) : file[i] \in Seq(FileByte)
    OBVIOUS
  <2> QED BY <2>1
<1>1. Sizes(n) \in [1 .. n -> Nat]
  <2>1. \A i \in 1 .. n : i \in 1 .. Len(file)
    OBVIOUS
  <2>2. \A i \in 1 .. n : Len(file[i]) + 1 \in Nat
    BY <1>0, <2>1
  <2> QED BY <2>2 DEF Sizes
<1>2. SizeOf(n) \in Nat
  BY <1>1, FS_Interval, CellsFinite DEF SizeOf
<1>3. ASSUME n = 0 PROVE SizeOf(n) = 0
  <2>1. Cells(Sizes(n)) = {}
    BY <1>1, <1>3 DEF Cells
  <2> QED BY <2>1, FS_EmptySet DEF SizeOf
<1>4. ASSUME n < Len(file) PROVE SizeOf(n + 1) = SizeOf(n) + (Len(file[n + 1]) + 1)
  <2>1. \A i \in 1 .. n + 1 : i \in 1 .. Len(file)
    BY <1>4
  <2>2. \A i \in 1 .. n + 1 : Len(file[i]) + 1 \in Nat
    BY <1>0, <2>1
  <2>3. Sizes(n + 1) \in [1 .. n + 1 -> Nat] /\ \A i \in 1 .. n : Sizes(n + 1)[i] = Sizes(n)[i]
    BY <2>2 DEF Sizes
  <2>4. Sizes(n + 1)[n + 1] = Len(file[n + 1]) + 1
    BY DEF Sizes
  <2>5. n \in Nat
    OBVIOUS
  <2> QED BY <1>1, <2>3, <2>4, <2>5, CellsAppend DEF SizeOf
<1> QED BY <1>1, <1>2, <1>3, <1>4

LEMMA ParseStep == ParseInv /\ [Parse!Next]_(Parse!vars) => ParseInv'
<1> SUFFICES ASSUME ParseInv, [Parse!Next]_(Parse!vars) PROVE ParseInv'
  OBVIOUS
<1> USE DEF Parse!genVars
<1>0. /\ file \in Seq(Seq(FileByte)) /\ tail \in BOOLEAN /\ (tail => file # <<>>)
      /\ at \in Nat /\ DOMAIN stat = {"lines", "bytes", "sizes", "done"} /\ stat.done \in BOOLEAN
  BY DEF ParseInv, ParseType
<1>a. /\ ppc \in {"create", "gen", "open", "start"} => spc = "none"
      /\ ppc \in {"open", "start"} => at = 0 /\ stat.lines = 0 /\ stat.bytes = 0 /\ ~stat.done
      /\ spc # "none" => /\ at <= Parse!Whole
                         /\ stat.lines = Parse!Word(at) /\ stat.bytes = Parse!Word(SizeOf(at))
                         /\ stat.done => at = Parse!Whole
      /\ spc = "ended" => stat.done /\ report = <<stat.lines, stat.bytes>>
  BY DEF ParseInv, ParseCount
<1>w. Parse!Whole \in 0 .. Len(file) /\ Len(file) \in Nat
  <2>1. Len(file) \in Nat /\ (file # <<>> => Len(file) # 0)
    BY <1>0
  <2> QED BY <1>0, <2>1 DEF Parse!Whole
\* What counts depends on these variables alone.
<1>b. ASSUME UNCHANGED <<file, tail, at, stat>>
      PROVE  ParseType' /\ Parse!Whole' = Parse!Whole /\ Parse!Word(at)' = Parse!Word(at)
             /\ Parse!Word(SizeOf(at))' = Parse!Word(SizeOf(at))
  BY <1>0, <1>b DEF ParseType, Parse!Whole, Parse!Word, SizeOf, Sizes
<1>c. ASSUME UNCHANGED <<file, tail, at, stat, report>>,
             ppc' \in {"create", "gen", "open", "start"} => spc' = "none",
             ppc' \in {"open", "start"} => ppc \in {"open", "start"},
             spc # "none" \/ spc' = spc, spc' = "ended" => spc = "ended"
      PROVE  ParseInv'
  BY <1>a, <1>b, <1>c DEF ParseInv, ParseCount
<1>1. CASE Parse!GenStep
  <2>1. CASE Parse!GenLine
    <3>1. UNCHANGED <<file, tail, stat, spc, report>> /\ ppc = "gen" /\ ppc' = "gen" /\ at' = at + 1
      BY <2>1 DEF Parse!GenLine
    <3> QED BY <1>0, <1>a, <3>1 DEF ParseInv, ParseType, ParseCount
  <2>2. CASE Parse!GenOpen \/ Parse!GenWriteFails \/ Parse!GenFlush
    <3>1. /\ UNCHANGED <<file, tail, at, stat, spc, report>> /\ ppc \in {"create", "gen"}
          /\ ppc' \notin {"open", "start"}
      BY <2>2 DEF Parse!GenOpen, Parse!GenWriteFails, Parse!GenFlush
    <3> QED BY <1>a, <1>c, <3>1
  <2> QED BY <1>1, <2>1, <2>2 DEF Parse!GenStep
<1>2. CASE Parse!OpenFile
  <2>1. UNCHANGED <<file, tail, at, stat, spc, report>> /\ ppc = "open" /\ ppc' \in {"start", "fatal"}
    BY <1>2 DEF Parse!OpenFile
  <2> QED BY <1>a, <1>c, <2>1
<1>3. CASE Parse!StartShow
  <2>1. UNCHANGED <<file, tail, at, stat, report>> /\ ppc = "start" /\ ppc' = "read" /\ spc' = "take"
    BY <1>3 DEF Parse!StartShow
  <2>2. at = 0 /\ stat.lines = 0 /\ stat.bytes = 0 /\ ~stat.done
    BY <1>a, <2>1
  <2>3. Parse!Word(at) = 0 /\ Parse!Word(SizeOf(at)) = 0 /\ at <= Parse!Whole
    <3>1. SizeOf(at) = 0
      BY <1>0, <1>w, <2>2, SizeFacts
    <3> QED BY <1>w, <2>2, <3>1, ParseAssumption, RemainderSum DEF Parse!Word
  <2> QED BY <1>b, <2>1, <2>2, <2>3 DEF ParseInv, ParseCount
<1>4. CASE Parse!ReadLine
  <2> DEFINE b == Len(file[at + 1])
  <2>1. /\ UNCHANGED <<file, tail, spc, report>> /\ ppc = "read" /\ ppc' \in {"read", "send"}
        /\ at < Parse!Whole /\ at' = at + 1
    BY <1>4 DEF Parse!ReadLine
  <2>2. /\ DOMAIN stat' = DOMAIN stat
        /\ stat'.bytes = Parse!Word(stat.bytes + (b + 1)) /\ stat'.lines = Parse!Word(stat.lines + 1)
        /\ stat'.done = stat.done
    <3>1. Len(Append(file[at + 1], "nl")) = b + 1
      <4>1. at + 1 \in 1 .. Len(file)
        BY <1>0, <1>w, <2>1
      <4>2. file[at + 1] \in Seq(FileByte)
        BY <1>0, <4>1
      <4> QED BY <4>2
    <3>2. \E size : stat' = [stat EXCEPT !.bytes = Parse!Word(@ + Len(Append(file[at + 1], "nl"))),
                                         !.lines = Parse!Word(@ + 1), !.sizes = Parse!Word(@ + size)]
      BY <1>4 DEF Parse!ReadLine
    <3> HIDE DEF b
    <3> QED BY <1>0, <3>1, <3>2
  <2>3. /\ at \in 0 .. Len(file) /\ at < Len(file) /\ b \in Nat /\ SizeOf(at) \in Nat
        /\ SizeOf(at + 1) = SizeOf(at) + (b + 1)
    <3>1. at \in 0 .. Len(file) /\ at < Len(file) /\ at + 1 \in 1 .. Len(file)
      BY <1>0, <1>w, <2>1
    <3>2. file[at + 1] \in Seq(FileByte)
      BY <1>0, <3>1
    <3> QED BY <1>0, <3>1, <3>2, SizeFacts
  <2> HIDE DEF b
  <2>4. ASSUME spc # "none"
        PROVE  stat'.lines = Parse!Word(at + 1) /\ stat'.bytes = Parse!Word(SizeOf(at + 1))
    <3>1. stat.lines = at % 2^Width /\ stat.bytes = SizeOf(at) % 2^Width
      BY <1>a, <2>4 DEF Parse!Word
    <3>2. ((at % 2^Width) + 1) % 2^Width = (at + 1) % 2^Width
      BY <1>0, ParseAssumption, RemainderSum
    <3>3. ((SizeOf(at) % 2^Width) + (b + 1)) % 2^Width = (SizeOf(at) + (b + 1)) % 2^Width
      <4>1. b + 1 \in Nat
        BY <2>3
      <4> QED BY <2>3, <4>1, ParseAssumption, RemainderSum
    <3> QED BY <2>2, <2>3, <3>1, <3>2, <3>3 DEF Parse!Word
  <2>5. /\ Parse!Whole' = Parse!Whole /\ Parse!Word(at)' = Parse!Word(at + 1)
        /\ Parse!Word(SizeOf(at))' = Parse!Word(SizeOf(at + 1))
    BY <2>1 DEF Parse!Whole, Parse!Word, SizeOf, Sizes
  <2>6. ParseType'
    BY <1>0, <2>1, <2>2 DEF ParseType
  <2>7. spc # "none" => ~stat.done /\ spc # "ended"
    BY <1>a, <1>w, <1>0, <2>1
  <2>8. at + 1 <= Parse!Whole
    BY <1>0, <1>w, <2>1
  <2> QED BY <2>1, <2>2, <2>4, <2>5, <2>6, <2>7, <2>8 DEF ParseInv, ParseCount
<1>5. CASE Parse!ReadFails \/ Parse!SendStat \/ Parse!SendLast \/ Parse!WgWait
  <2>1. /\ UNCHANGED <<file, tail, at, stat, spc, report>>
        /\ ppc' \notin {"create", "gen", "open", "start"}
    BY <1>5 DEF Parse!ReadFails, Parse!SendStat, Parse!SendLast, Parse!WgWait
  <2> QED BY <1>c, <2>1
<1>6. CASE Parse!ReadEnds
  <2>1. /\ UNCHANGED <<file, tail, at, spc, report>> /\ ppc' = "last" /\ at = Parse!Whole
        /\ stat' = [stat EXCEPT !.done = TRUE]
    BY <1>6 DEF Parse!ReadEnds
  <2>2. DOMAIN stat' = DOMAIN stat /\ stat'.lines = stat.lines /\ stat'.bytes = stat.bytes /\ stat'.done = TRUE
    BY <1>0, <2>1
  <2>3. /\ Parse!Whole' = Parse!Whole /\ Parse!Word(at)' = Parse!Word(at)
        /\ Parse!Word(SizeOf(at))' = Parse!Word(SizeOf(at))
    BY <2>1 DEF Parse!Whole, Parse!Word, SizeOf, Sizes
  <2>4. ParseType'
    BY <1>0, <2>1, <2>2 DEF ParseType
  <2> QED BY <1>a, <2>1, <2>2, <2>3, <2>4 DEF ParseInv, ParseCount
<1>7. CASE Parse!ShowTake
  <2>1. UNCHANGED <<file, tail, ppc, at, stat, report>> /\ spc = "take" /\ spc' = "print"
    BY <1>7 DEF Parse!ShowTake
  <2> QED BY <1>a, <1>c, <2>1
<1>8. CASE Parse!ShowPrint
  <2>1. /\ UNCHANGED <<file, tail, ppc, at, stat>> /\ spc = "print"
        /\ spc' = (IF stat.done THEN "ended" ELSE "take") /\ report' = <<stat.lines, stat.bytes>>
    BY <1>8 DEF Parse!ShowPrint
  <2>2. ppc' \notin {"create", "gen", "open", "start"}
    BY <1>a, <2>1
  <2> QED BY <1>a, <1>b, <2>1, <2>2 DEF ParseInv, ParseCount
<1>9. CASE UNCHANGED Parse!vars
  <2>1. UNCHANGED <<file, tail, ppc, at, stat, spc, report>>
    BY <1>9 DEF Parse!vars
  <2> QED BY <1>a, <1>c, <2>1
<1> QED BY <1>1, <1>2, <1>3, <1>4, <1>5, <1>6, <1>7, <1>8, <1>9
    DEF Parse!Next, Parse!ParserStep, Parse!ShowStep

LEMMA ParseInvariance == Parse!Spec => []ParseInv
<1>1. Parse!Init => ParseInv
  <2> SUFFICES ASSUME Parse!Init PROVE ParseInv
    OBVIOUS
  <2>1. file \in Seq(Seq(FileByte)) /\ tail \in BOOLEAN /\ (tail => file # <<>>)
    <3>1. \/ file \in Files /\ tail \in BOOLEAN /\ (tail => file # <<>>)
          \/ file = <<>> /\ tail = FALSE
      BY DEF Parse!Init
    <3>2. \A S : <<>> \in Seq(S)
      OBVIOUS
    <3> QED BY <3>1, <3>2, FilesAreLines
  <2>2. /\ at = 0 /\ spc = "none"
        /\ stat = [lines |-> 0, bytes |-> 0, sizes |-> 0, done |-> FALSE]
    BY DEF Parse!Init
  <2> QED BY <2>1, <2>2 DEF ParseInv, ParseType, ParseCount
<1> QED BY <1>1, ParseStep, PTL DEF Parse!Spec

\* The last report of show counts every line and every byte up to the last end
\* of line, in the width of the counters, although show reads the stat that
\* parser is still writing to, whatever the capacity of statCh.
THEOREM ParseCorrect == Parse!Spec => []ReportComplete
<1>1. ParseInv => ReportComplete
  <2> SUFFICES ASSUME ParseInv, spc = "ended"
               PROVE  report = <<Parse!Word(Parse!Whole),
                                 Parse!Word(Parse!MapThenSumSet(LAMBDA i : Len(file[i]) + 1, 1 .. Parse!Whole))>>
    BY DEF ReportComplete, Parse!ReportComplete
  <2> DEFINE w == Parse!Whole
             h == Sizes(w)
  <2>1. report = <<Parse!Word(w), Parse!Word(SizeOf(w))>>
    BY DEF ParseInv, ParseCount
  <2>2. h \in [1 .. w -> Nat] /\ IsFiniteSet(1 .. w)
    <3>1. file \in Seq(Seq(FileByte)) /\ tail \in BOOLEAN /\ (tail => file # <<>>)
      BY DEF ParseInv, ParseType
    <3>2. Len(file) \in Nat /\ (file # <<>> => Len(file) # 0)
      BY <3>1
    <3>3. w \in 0 .. Len(file) /\ w \in Int
      BY <3>1, <3>2 DEF Parse!Whole
    <3> HIDE DEF w
    <3>4. Sizes(w) \in [1 .. w -> Nat]
      BY <3>1, <3>3, SizeFacts
    <3>5. IsFiniteSet(1 .. w)
      BY <3>3, FS_Interval
    <3> QED BY <3>4, <3>5
  <2>3. Parse!MapThenSumSet(LAMBDA i : Len(file[i]) + 1, 1 .. w) = Cardinality(Cells(h))
    <3> DEFINE S == 1 .. w
    <3> DEFINE iter[s \in SUBSET S] ==
                 IF s = {} THEN 0
                 ELSE LET x == CHOOSE x \in s : TRUE
                      IN  h[x] + iter[s \ {x}]
               sum[s \in SUBSET S] ==
                 IF s = {} THEN 0
                 ELSE LET x == CHOOSE x \in s : TRUE
                      IN  (Len(file[x]) + 1) + sum[s \ {x}]
    <3>1. iter[S] = Cardinality(Cells(h))
      BY <2>2, SumCounts
    <3>2. sum = iter
      BY DEF Sizes
    <3>3. Parse!MapThenSumSet(LAMBDA i : Len(file[i]) + 1, S) = sum[S]
      BY DEF Parse!MapThenSumSet, Parse!MapThenFoldSet
    <3> QED BY <3>1, <3>2, <3>3
  <2> QED BY <2>1, <2>3 DEF SizeOf
<1> QED BY <1>1, ParseInvariance, PTL

\* A seed that the generator accepts holds two lines; the next line starts one
\* line before the last that the seed holds, at the latest, or at shift.
SeedInv ==
    /\ seed \in Nat /\ seekpos \in Nat /\ shift \in Nat
    /\ ppc = "create" => seekpos = 0 /\ shift = 0
    /\ ppc = "gen" => seed >= 2 * LineLen /\ seekpos + LineLen <= seed

\* However many lines -gen writes, and however often it starts again in its
\* seed, it copies bytes of the seed alone.
THEOREM CopyCorrect == Parse!Spec => []Parse!CopyInBounds
<1>0. LineLen \in Nat /\ Seeds \subseteq Nat
  BY ParseAssumption
<1>1. Parse!Init => SeedInv
  <2> SUFFICES ASSUME Parse!Init PROVE SeedInv
    OBVIOUS
  <2>1. (ppc = "open" /\ seed = 0) \/ (ppc = "create" /\ seed \in Seeds)
    BY DEF Parse!Init
  <2>2. seekpos = 0 /\ shift = 0
    BY DEF Parse!Init
  <2>3. seed \in Nat
    <3>1. CASE seed = 0
      BY <3>1
    <3>2. CASE seed \in Seeds
      BY <1>0, <3>2
    <3> QED BY <2>1, <3>1, <3>2
  <2> QED BY <2>1, <2>2, <2>3 DEF SeedInv
<1>2. SeedInv /\ [Parse!Next]_(Parse!vars) => SeedInv'
  <2> SUFFICES ASSUME SeedInv, [Parse!Next]_(Parse!vars) PROVE SeedInv'
    OBVIOUS
  <2>0. /\ seed \in Nat /\ seekpos \in Nat /\ shift \in Nat
        /\ ppc = "create" => seekpos = 0 /\ shift = 0
        /\ ppc = "gen" => seed >= 2 * LineLen /\ seekpos + LineLen <= seed
    BY DEF SeedInv
  <2>a. ASSUME UNCHANGED <<seed, seekpos, shift>>, ppc' \notin {"create", "gen"} \/ ppc' = ppc PROVE SeedInv'
    BY <2>0, <2>a DEF SeedInv
  <2>1. CASE Parse!GenOpen
    <3>1. /\ UNCHANGED <<seed, seekpos, shift>> /\ ppc = "create"
          /\ (seed >= 2 * LineLen /\ ppc' = "gen") \/ ppc' = "fatal"
      BY <2>1 DEF Parse!GenOpen, Parse!genVars
    <3> QED BY <1>0, <2>0, <3>1 DEF SeedInv
  <2>2. CASE Parse!GenLine
    <3> DEFINE wrap == seekpos + LineLen > seed - LineLen
    <3>1. /\ UNCHANGED seed /\ ppc = "gen" /\ ppc' = "gen"
          /\ shift' = IF ~wrap THEN shift ELSE IF shift + 1 >= seed - 2 * LineLen THEN 0 ELSE shift + 1
          /\ seekpos' = IF wrap THEN shift' ELSE seekpos + LineLen
      BY <2>2 DEF Parse!GenLine
    <3>2. seed >= 2 * LineLen
      BY <2>0, <3>1
    <3>3. CASE wrap /\ shift + 1 >= seed - 2 * LineLen
      BY <1>0, <2>0, <3>1, <3>2, <3>3 DEF SeedInv
    <3>4. CASE wrap /\ ~(shift + 1 >= seed - 2 * LineLen)
      BY <1>0, <2>0, <3>1, <3>2, <3>4 DEF SeedInv
    <3>5. CASE ~wrap
      BY <1>0, <2>0, <3>1, <3>2, <3>5 DEF SeedInv
    <3> QED BY <3>3, <3>4, <3>5
  <2>3. CASE Parse!GenWriteFails \/ Parse!GenFlush
    BY <2>a, <2>3 DEF Parse!GenWriteFails, Parse!GenFlush, Parse!genVars
  <2>4. CASE Parse!OpenFile \/ Parse!StartShow
    BY <2>a, <2>4 DEF Parse!OpenFile, Parse!StartShow, Parse!genVars
  <2>5. CASE Parse!ReadFails \/ Parse!ReadLine \/ Parse!SendStat \/ Parse!ReadEnds
    <3>1. UNCHANGED <<seed, seekpos, shift>> /\ (ppc' = ppc \/ ppc' \in {"fatal", "send", "read", "last"})
      BY <2>5 DEF Parse!ReadFails, Parse!ReadLine, Parse!SendStat, Parse!ReadEnds, Parse!genVars
    <3> QED BY <2>a, <3>1
  <2>6. CASE Parse!SendLast \/ Parse!WgWait
    BY <2>a, <2>6 DEF Parse!SendLast, Parse!WgWait, Parse!genVars
  <2>7. CASE Parse!ShowTake \/ Parse!ShowPrint
    BY <2>a, <2>7 DEF Parse!ShowTake, Parse!ShowPrint, Parse!genVars
  <2>8. CASE UNCHANGED Parse!vars
    BY <2>a, <2>8 DEF Parse!vars, Parse!genVars
  <2> QED BY <2>1, <2>2, <2>3, <2>4, <2>5, <2>6, <2>7, <2>8
          DEF Parse!Next, Parse!ParserStep, Parse!GenStep, Parse!ShowStep
<1>3. SeedInv => Parse!CopyInBounds
  BY <1>0 DEF SeedInv, Parse!CopyInBounds
<1> QED BY <1>1, <1>2, <1>3, PTL DEF Parse!Spec

(***************************************************************************)
(* SplitBytes and AtoIntOfBytes                                            *)
(***************************************************************************)
\* The wrapped value differs from the number by a multiple of 2^Width, and
\* numbers that do so have the same wrapped value.
LEMMA SignedFacts ==
  ASSUME NEW n \in Int
  PROVE  /\ Parse!Signed(n) \in Int
         /\ \E q \in Int : Parse!Signed(n) = n + 2^Width * q
         /\ \A q \in Int : Parse!Signed(n + 2^Width * q) = Parse!Signed(n)
<1> DEFINE m == 2^Width
           h == 2^(Width - 1)
<1>1. m \in Nat \ {0} /\ h \in Int
  BY ParseAssumption
<1>2. \A x : Parse!Signed(x) = ((x + h) % m) - h
  BY DEF Parse!Signed
<1> HIDE DEF m, h
<1>3. PICK p \in Int, r \in 0 .. m - 1 : n + h = m * p + r
  <2>1. n + h \in Int
    BY <1>1
  <2> QED BY <1>1, <2>1, DivideWhole
<1>4. ASSUME NEW q \in Int PROVE ((n + m * q) + h) % m = r
  <2>1. m * (p + q) = m * p + m * q /\ m * p \in Int /\ m * q \in Int
    BY <1>1
  <2>2. (n + m * q) + h = m * (p + q) + r
    BY <1>1, <1>3, <2>1
  <2>3. (m * (p + q) + r) % m = r
    <3>1. p + q \in Int
      OBVIOUS
    <3> QED BY <1>1, <3>1, RemainderIs
  <2> QED BY <2>2, <2>3
<1>5. (n + h) % m = r
  <2>1. (m * p + r) % m = r
    BY <1>1, RemainderIs
  <2> QED BY <1>3, <2>1
<1>6. Parse!Signed(n) = r - h /\ r - h \in Int
  <2>1. Parse!Signed(n) = ((n + h) % m) - h
    BY <1>2
  <2>2. r - h \in Int
    BY <1>1
  <2> QED BY <1>5, <2>1, <2>2
<1>7. r - h = n + m * (-p)
  <2>1. m * (-p) = -(m * p) /\ m * p \in Int
    BY <1>1
  <2> QED BY <1>1, <1>3, <2>1
<1>8. \A q \in Int : Parse!Signed(n + m * q) = r - h
  BY <1>2, <1>4
<1>9. -p \in Int
  OBVIOUS
<1>10. \E q \in Int : Parse!Signed(n) = n + m * q
  BY <1>6, <1>7, <1>9
<1> QED BY <1>6, <1>8, <1>10 DEF m

\* Wrapping after each digit, and at a change of the sign, or once at the end.
LEMMA SignedOnce ==
  ASSUME NEW v \in Int
  PROVE  /\ Parse!Signed(Parse!Signed(v) * 10 + 1) = Parse!Signed(v * 10 + 1)
         /\ Parse!Signed(-Parse!Signed(v)) = Parse!Signed(-v)
         /\ Parse!Signed(0) = 0
<1> DEFINE m == 2^Width
<1>1. m \in Int
  BY ParseAssumption
<1>2. PICK q \in Int : Parse!Signed(v) = v + m * q
  BY SignedFacts
<1>3. /\ v * 10 + 1 \in Int /\ \A p \in Int : Parse!Signed((v * 10 + 1) + m * p) = Parse!Signed(v * 10 + 1)
      /\ -v \in Int /\ \A p \in Int : Parse!Signed((-v) + m * p) = Parse!Signed(-v)
  BY SignedFacts
<1>4. Parse!Signed(0) = 0
  <2>1. \A k \in Nat \ {0} : \A h \in 0 .. k - 1 : ((0 + h) % k) - h = 0
    OBVIOUS
  <2> QED BY <2>1, ParseAssumption DEF Parse!Signed
<1> HIDE DEF m
<1>5. (v + m * q) * 10 + 1 = (v * 10 + 1) + m * (q * 10) /\ -(v + m * q) = (-v) + m * (-q)
  <2>1. m * (q * 10) = (m * q) * 10 /\ m * (-q) = -(m * q) /\ m * q \in Int
    BY <1>1
  <2> QED BY <2>1
<1>6. q * 10 \in Int /\ -q \in Int
  OBVIOUS
<1> QED BY <1>2, <1>3, <1>4, <1>5, <1>6

\* Both loops over the digits have a value, and the one that wraps gives the
\* wrapped value of the other.
LEMMA AccumulatedIs ==
  ASSUME NEW d \in Nat
  PROVE  Parse!Ones(d) \in Int /\ Parse!Accumulated(d) = Parse!Signed(Parse!Ones(d))
<1> DEFINE IsRes(f) == f = [i \in 0 .. d |-> IF i = 0 THEN 0 ELSE Parse!Signed(f[i - 1] * 10 + 1)]
           IsOnes(f) == f = [i \in 0 .. d |-> IF i = 0 THEN 0 ELSE f[i - 1] * 10 + 1]
           res == CHOOSE f : IsRes(f)
           v == CHOOSE f : IsOnes(f)
<1>1. Parse!Accumulated(d) = res[d]
  BY DEF Parse!Accumulated
<1>2. Parse!Ones(d) = v[d]
  BY DEF Parse!Ones
<1>3. IsRes(res)
  <2> DEFINE step == [i \in 1 .. d |-> [x \in Int |-> Parse!Signed(x * 10 + 1)]]
  <2>1. step \in LoopBody(d, Int) /\ 0 \in Int
    <3>1. \A x \in Int : x * 10 + 1 \in Int
      OBVIOUS
    <3> QED BY <3>1, SignedFacts DEF LoopBody
  <2>2. PICK f : IsLoop(f, d, Int, 0, step)
    <3> HIDE DEF step
    <3> QED BY <2>1, LoopRecursion, Zenon
  <2>3. ASSUME NEW i \in 0 .. d PROVE f[i] = IF i = 0 THEN 0 ELSE Parse!Signed(f[i - 1] * 10 + 1)
    <3>1. CASE i = 0
      BY <2>2, <3>1 DEF IsLoop
    <3>2. CASE i # 0
      <4>1. i \in 1 .. d /\ i - 1 \in 0 .. d
        BY <3>2
      <4>2. f[i] = step[i][f[i - 1]] /\ f[i - 1] \in Int
        BY <2>2, <3>2, <4>1 DEF IsLoop
      <4> QED BY <3>2, <4>1, <4>2
    <3> QED BY <3>1, <3>2
  <2>4. IsRes(f)
    BY <2>2, <2>3 DEF IsLoop
  <2> HIDE DEF IsRes
  <2> QED BY <2>4
<1>4. IsOnes(v)
  <2> DEFINE step == [i \in 1 .. d |-> [x \in Int |-> x * 10 + 1]]
  <2>1. step \in LoopBody(d, Int) /\ 0 \in Int
    <3>1. \A x \in Int : x * 10 + 1 \in Int
      OBVIOUS
    <3> QED BY <3>1 DEF LoopBody
  <2>2. PICK f : IsLoop(f, d, Int, 0, step)
    <3> HIDE DEF step
    <3> QED BY <2>1, LoopRecursion, Zenon
  <2>3. ASSUME NEW i \in 0 .. d PROVE f[i] = IF i = 0 THEN 0 ELSE f[i - 1] * 10 + 1
    <3>1. CASE i = 0
      BY <2>2, <3>1 DEF IsLoop
    <3>2. CASE i # 0
      <4>1. i \in 1 .. d /\ i - 1 \in 0 .. d
        BY <3>2
      <4>2. f[i] = step[i][f[i - 1]] /\ f[i - 1] \in Int
        BY <2>2, <3>2, <4>1 DEF IsLoop
      <4> QED BY <3>2, <4>1, <4>2
    <3> QED BY <3>1, <3>2
  <2>4. IsOnes(f)
    BY <2>2, <2>3 DEF IsLoop
  <2> HIDE DEF IsOnes
  <2> QED BY <2>4
<1>5. /\ res[0] = 0 /\ \A i \in 1 .. d : res[i] = Parse!Signed(res[i - 1] * 10 + 1)
      /\ v[0] = 0 /\ \A i \in 1 .. d : v[i] = v[i - 1] * 10 + 1
  <2> HIDE DEF res, v
  <2> QED BY <1>3, <1>4
<1> DEFINE D == {i \in 0 .. d : v[i] \in Int /\ res[i] = Parse!Signed(v[i])}
<1> HIDE DEF res, v
<1>6. 0 \in D
  <2>1. 0 \in Int
    OBVIOUS
  <2> QED BY <1>5, <2>1, SignedOnce
<1>7. ASSUME NEW i \in 0 .. d - 1, i \in D PROVE i + 1 \in D
  <2>1. i + 1 \in 1 .. d /\ (i + 1) - 1 = i /\ i + 1 \in 0 .. d
    OBVIOUS
  <2>2. v[i + 1] = v[i] * 10 + 1 /\ res[i + 1] = Parse!Signed(res[i] * 10 + 1)
    BY <1>5, <2>1
  <2>3. v[i] \in Int /\ res[i] = Parse!Signed(v[i])
    BY <1>7
  <2> QED BY <2>1, <2>2, <2>3, SignedOnce
<1>8. d \in D
  <2> HIDE DEF D
  <2>1. 0 .. d \subseteq D
    BY <1>6, <1>7, IntervalInduction
  <2> QED BY <2>1
<1> QED BY <1>1, <1>2, <1>8

\* AtoIntOfBytes gives the number that the digits mean in the width of int, and
\* an error for anything else, whatever the length of the field.
THEOREM NumberCorrect == \A l \in Seq(FileByte) : Parse!NumberRight(l)
<1> SUFFICES ASSUME NEW l \in Seq(FileByte) PROVE Parse!NumberRight(l)
  OBVIOUS
<1> DEFINE neg == l # <<>> /\ Head(l) = "-"
           digits == IF neg THEN Tail(l) ELSE l
           d == IF neg THEN Len(l) - 1 ELSE Len(l)
           bad == \E i \in DOMAIN digits : digits[i] # "1"
<1>1. neg = (l # <<>> /\ l[1] = "-")
  OBVIOUS
<1>2. d \in Nat /\ Len(digits) = d
  OBVIOUS
<1>3. bad = ~(\A i \in DOMAIN l : l[i] = "1" \/ (i = 1 /\ neg))
  <2>1. CASE ~neg
    BY <2>1
  <2>2. CASE neg
    <3>1. Len(l) \in Nat \ {0} /\ DOMAIN l = 1 .. Len(l)
      BY <2>2
    <3>2. DOMAIN digits = 1 .. Len(l) - 1 /\ \A i \in 1 .. Len(l) - 1 : digits[i] = l[i + 1]
      BY <2>2
    <3>3. ASSUME NEW i \in 2 .. Len(l) PROVE i - 1 \in 1 .. Len(l) - 1 /\ digits[i - 1] = l[i]
      BY <3>1, <3>2
    <3>4. ASSUME NEW i \in 1 .. Len(l) - 1 PROVE i + 1 \in DOMAIN l /\ i + 1 # 1
      BY <3>1
    <3>5. ASSUME NEW i \in 1 .. Len(l), i # 1 PROVE i \in 2 .. Len(l)
      BY <3>1, <3>5
    <3>6. ASSUME bad PROVE ~(\A i \in DOMAIN l : l[i] = "1" \/ (i = 1 /\ neg))
      <4> HIDE DEF digits, neg
      <4> QED BY <3>2, <3>4, <3>6
    <3>7. ASSUME ~bad PROVE \A i \in DOMAIN l : l[i] = "1" \/ (i = 1 /\ neg)
      <4> HIDE DEF digits, neg
      <4> QED BY <2>2, <3>1, <3>2, <3>3, <3>5, <3>7
    <3> QED BY <3>6, <3>7
  <2> QED BY <2>1, <2>2
<1>4. Parse!Ones(d) \in Int /\ Parse!Accumulated(d) = Parse!Signed(Parse!Ones(d))
  BY <1>2, AccumulatedIs
<1>5. Parse!Signed(-Parse!Accumulated(d)) = Parse!Signed(-Parse!Ones(d))
  BY <1>4, SignedOnce
<1>6. Parse!AtoIntOfBytes(l) = IF bad THEN [size |-> 0, ok |-> FALSE]
                              ELSE [size |-> IF neg THEN Parse!Signed(-Parse!Accumulated(d)) ELSE Parse!Accumulated(d),
                                    ok |-> TRUE]
  BY <1>1, <1>2 DEF Parse!AtoIntOfBytes
<1>7. Parse!NumberRight(l) = IF ~bad THEN Parse!AtoIntOfBytes(l) =
                                [size |-> Parse!Signed(IF neg THEN -Parse!Ones(d) ELSE Parse!Ones(d)), ok |-> TRUE]
                             ELSE ~Parse!AtoIntOfBytes(l).ok
  BY <1>3 DEF Parse!NumberRight
<1> HIDE DEF neg, bad, d
<1>8. CASE bad
  <2>1. Parse!AtoIntOfBytes(l) = [size |-> 0, ok |-> FALSE]
    BY <1>6, <1>8
  <2>2. ~Parse!AtoIntOfBytes(l).ok
    BY <2>1
  <2> QED BY <1>7, <1>8, <2>2
<1>9. CASE ~bad
  BY <1>4, <1>5, <1>6, <1>7, <1>9
<1> QED BY <1>8, <1>9

\* The bytes of a line with its end, and what the loop of SplitBytes holds.
LineByte == FileByte \cup {"nl"}
Scans == [rcnt : Nat, pos : Nat \ {0}, out : Seq(Seq(LineByte)), stop : BOOLEAN]

LEMMA LineFacts == /\ "sp" \in LineByte /\ <<"sp">> \in Seq(LineByte) /\ <<>> \in Seq(LineByte)
                   /\ \A l \in Seq(FileByte) : l \in Seq(LineByte)
<1>1. FileByte \subseteq LineByte /\ "sp" \in LineByte
  BY DEF LineByte, FileByte
<1>2. \A l \in Seq(FileByte) : l \in Seq(LineByte)
  BY <1>1, SeqMonotonic
<1> QED BY <1>1, <1>2, OneLine, EmptySeq

LEMMA PieceFacts ==
  ASSUME NEW s \in Seq(LineByte), NEW p \in Nat \ {0}, NEW i \in 0 .. Len(s)
  PROVE  /\ SubSeq(s, p, i) \in Seq(LineByte)
         /\ p <= i + 1 => Len(SubSeq(s, p, i)) = i + 1 - p
         /\ \A j \in 1 .. i + 1 - p : SubSeq(s, p, i)[j] = s[p + j - 1]
         /\ (\A j \in p .. i : s[j] # "sp") => ~Parse!Has(SubSeq(s, p, i), "sp")
<1>1. \A j \in p .. i : s[j] \in LineByte
  OBVIOUS
<1>2. /\ SubSeq(s, p, i) \in Seq(LineByte) /\ p \in Int /\ i \in Int
      /\ Len(SubSeq(s, p, i)) = IF p <= i THEN i - p + 1 ELSE 0
      /\ \A j \in 1 .. i - p + 1 : SubSeq(s, p, i)[j] = s[p + j - 1]
  <2>1. p \in Int /\ i \in Int
    OBVIOUS
  <2> QED BY <1>1, <2>1, SubSeqProperties
<1>3. i - p + 1 = i + 1 - p
  BY <1>2
<1>4. ASSUME \A j \in p .. i : s[j] # "sp" PROVE ~Parse!Has(SubSeq(s, p, i), "sp")
  <2> SUFFICES ASSUME NEW j \in DOMAIN SubSeq(s, p, i), SubSeq(s, p, i)[j] = "sp" PROVE FALSE
    BY DEF Parse!Has
  <2> DEFINE t == SubSeq(s, p, i)
  <2>1. DOMAIN t = 1 .. Len(t) /\ Len(t) \in Nat
    BY <1>2, LenProperties
  <2>2. j \in 1 .. Len(t) /\ Len(t) = IF p <= i THEN i - p + 1 ELSE 0
    BY <1>2, <2>1
  <2>3. j \in 1 .. i - p + 1 /\ p + j - 1 \in p .. i
    <3>1. \A x \in Int : (x = IF p <= i THEN i - p + 1 ELSE 0) /\ j \in 1 .. x => j \in 1 .. i - p + 1
      OBVIOUS
    <3>2. j \in 1 .. i - p + 1
      BY <2>1, <2>2, <3>1
    <3> QED BY <3>2
  <2> QED BY <1>2, <1>4, <2>3
<1>5. p <= i + 1 => Len(SubSeq(s, p, i)) = i + 1 - p
  BY <1>2
<1> QED BY <1>2, <1>3, <1>4, <1>5

LEMMA ScanType ==
  ASSUME NEW s \in Seq(LineByte), NEW k \in Int, NEW a \in Scans, NEW i \in 1 .. Len(s)
  PROVE  Parse!ScanByte(s, "sp", k, a, i) \in Scans
<1>1. a.rcnt \in Nat /\ a.pos \in Nat \ {0} /\ a.out \in Seq(Seq(LineByte))
  BY DEF Scans
<1>2. Len(s) \in 0 .. Len(s) /\ i - 1 \in 0 .. Len(s)
  OBVIOUS
<1>3. Parse!From(s, a.pos) \in Seq(LineByte) /\ SubSeq(s, a.pos, i - 1) \in Seq(LineByte)
  BY <1>1, <1>2, PieceFacts DEF Parse!From
<1>4. /\ Append(a.out, Parse!From(s, a.pos)) \in Seq(Seq(LineByte))
      /\ Append(a.out, SubSeq(s, a.pos, i - 1)) \in Seq(Seq(LineByte))
  BY <1>1, <1>3, AppendProperties
<1>5. a.rcnt + 1 \in Nat /\ Len(s) + 1 \in Nat \ {0} /\ i + 1 \in Nat \ {0}
  BY <1>1
<1> QED BY <1>4, <1>5 DEF Parse!ScanByte, Scans

\* The loop has a value after every byte.
LEMMA ScannedIs ==
  ASSUME NEW s \in Seq(LineByte), NEW k \in Int
  PROVE  LET scan == Parse!Scanned(s, "sp", k)
         IN  /\ scan[0] = Parse!ScanStart
             /\ \A i \in 0 .. Len(s) : scan[i] \in Scans
             /\ \A i \in 1 .. Len(s) : scan[i] = Parse!ScanByte(s, "sp", k, scan[i - 1], i)
<1> DEFINE Is(f) == f = [i \in 0 .. Len(s) |-> IF i = 0 THEN Parse!ScanStart
                                              ELSE Parse!ScanByte(s, "sp", k, f[i - 1], i)]
           scan == CHOOSE f : Is(f)
           n == Len(s)
           step == [i \in 1 .. n |-> [a \in Scans |-> Parse!ScanByte(s, "sp", k, a, i)]]
<1>0. n \in Nat
  OBVIOUS
<1>1. Parse!Scanned(s, "sp", k) = scan
  BY DEF Parse!Scanned
<1>2. n \in Nat /\ step \in LoopBody(n, Scans)
  <2>1. \A i \in 1 .. n : [a \in Scans |-> Parse!ScanByte(s, "sp", k, a, i)] \in [Scans -> Scans]
    BY ScanType
  <2>2. n \in Nat
    OBVIOUS
  <2> HIDE DEF n
  <2> QED BY <2>1, <2>2 DEF LoopBody
<1>3. Parse!ScanStart \in Scans
  BY DEF Parse!ScanStart, Scans
<1>4. PICK f : IsLoop(f, n, Scans, Parse!ScanStart, step)
  <2> HIDE DEF n, step
  <2> QED BY <1>2, <1>3, LoopRecursion, Zenon
<1>5. /\ f \in [0 .. n -> Scans] /\ f[0] = Parse!ScanStart
      /\ \A i \in 1 .. n : f[i] = step[i][f[i - 1]]
  BY <1>4 DEF IsLoop
<1>6. ASSUME NEW i \in 1 .. n PROVE f[i] = Parse!ScanByte(s, "sp", k, f[i - 1], i)
  <2>1. i - 1 \in 0 .. n
    <3> HIDE DEF n
    <3> QED BY <1>0
  <2>2. f[i - 1] \in Scans
    BY <1>5, <2>1
  <2> QED BY <1>5, <2>2
<1>7. Is(f)
  <2>1. ASSUME NEW i \in 0 .. n
        PROVE  f[i] = IF i = 0 THEN Parse!ScanStart ELSE Parse!ScanByte(s, "sp", k, f[i - 1], i)
    <3> HIDE DEF step, n
    <3>1. i # 0 => i \in 1 .. n
      BY <1>0
    <3> QED BY <1>5, <1>6, <3>1
  <2> HIDE DEF step
  <2> QED BY <1>5, <2>1
<1>8. Is(scan)
  <2> HIDE DEF Is, step, n
  <2> QED BY <1>7
<1> HIDE DEF scan, step
<1>9. scan[0] = Parse!ScanStart /\ \A i \in 1 .. n : scan[i] = Parse!ScanByte(s, "sp", k, scan[i - 1], i)
  <2>1. 0 \in 0 .. n /\ \A i \in 1 .. n : i \in 0 .. n /\ i # 0
    BY <1>2
  <2> QED BY <1>8, <2>1
<1> DEFINE D == {i \in 0 .. n : scan[i] \in Scans}
<1>10. 0 \in D
  <2>1. 0 \in 0 .. n
    BY <1>2
  <2> QED BY <1>3, <1>9, <2>1
<1>11. ASSUME NEW i \in 0 .. n - 1, i \in D PROVE i + 1 \in D
  <2>1. i + 1 \in 1 .. n /\ (i + 1) - 1 = i /\ i + 1 \in 0 .. n
    BY <1>2
  <2> QED BY <1>9, <1>11, <2>1, ScanType
<1>12. 0 .. n \subseteq D
  <2> HIDE DEF D, n
  <2> QED BY <1>2, <1>10, <1>11, IntervalInduction
<1> QED BY <1>1, <1>9, <1>12

\* Pieces put together with one more of them.
LEMMA JoinFacts ==
  ASSUME NEW p \in Seq(Seq(LineByte))
  PROVE  /\ Parse!Join(p) \in Seq(LineByte)
         /\ p = <<>> => Parse!Join(p) = <<>>
         /\ \A x \in Seq(LineByte) :
              Parse!Join(Append(p, x)) = IF p = <<>> THEN x ELSE Parse!Join(p) \o <<"sp">> \o x
<1> DEFINE Line == Seq(LineByte)
           At(q, i, y) == IF i = 1 THEN q[1] ELSE y \o <<"sp">> \o q[i]
           Is(q, f) == f = [i \in 0 .. Len(q) |-> IF i = 0 THEN <<>> ELSE At(q, i, f[i - 1])]
           upto(q) == CHOOSE f : Is(q, f)
<1>1. ASSUME NEW q \in Seq(Line)
      PROVE  /\ Parse!Join(q) = upto(q)[Len(q)] /\ Len(q) \in Nat
             /\ upto(q)[0] = <<>>
             /\ \A i \in 1 .. Len(q) : upto(q)[i] = At(q, i, upto(q)[i - 1])
             /\ \A i \in 0 .. Len(q) : upto(q)[i] \in Line
  <2> DEFINE n == Len(q)
             step == [i \in 1 .. n |-> [y \in Line |-> At(q, i, y)]]
  <2>1. \A f : Is(q, f) <=> f = [i \in 0 .. Len(q) |-> IF i = 0 THEN <<>> ELSE IF i = 1 THEN q[1]
                                                      ELSE f[i - 1] \o <<"sp">> \o q[i]]
    OBVIOUS
  <2>2. Parse!Join(q) = upto(q)[n]
    BY DEF Parse!Join
  <2>3. n \in Nat /\ <<>> \in Line /\ \A i \in 1 .. n : q[i] \in Line
    BY LenProperties, ElementOfSeq, EmptySeq
  <2>4. ASSUME NEW i \in 1 .. n, NEW y \in Line PROVE At(q, i, y) \in Line
    <3>1. q[i] \in Line /\ 1 \in 1 .. n /\ q[1] \in Line
      <4>1. 1 \in 1 .. n
        OBVIOUS
      <4> QED BY <2>3, <4>1
    <3>2. y \o <<"sp">> \o q[i] \in Line
      BY <3>1, LineFacts, ConcatProperties
    <3> QED BY <3>1, <3>2
  <2> HIDE DEF At, n, Line
  <2>5. step \in LoopBody(n, Line)
    BY <2>4 DEF LoopBody
  <2>6. PICK f : IsLoop(f, n, Line, <<>>, step)
    <3> HIDE DEF step
    <3> QED BY <2>3, <2>5, LoopRecursion, Zenon
  <2>7. f \in [0 .. n -> Line] /\ f[0] = <<>> /\ \A i \in 1 .. n : f[i] = step[i][f[i - 1]]
    BY <2>6 DEF IsLoop
  <2>8. ASSUME NEW i \in 0 .. n PROVE f[i] = IF i = 0 THEN <<>> ELSE At(q, i, f[i - 1])
    <3>1. i # 0 => i \in 1 .. n /\ i - 1 \in 0 .. n
      BY <2>3
    <3>2. CASE i # 0
      <4>1. f[i - 1] \in Line /\ f[i] = step[i][f[i - 1]]
        <5> HIDE DEF step
        <5> QED BY <2>7, <3>1, <3>2
      <4> QED BY <3>1, <3>2, <4>1
    <3> HIDE DEF step
    <3> QED BY <2>7, <3>2
  <2>9. Is(q, f)
    <3> HIDE DEF step
    <3> QED BY <2>7, <2>8 DEF n
  <2>10. Is(q, upto(q))
    <3> HIDE DEF Is
    <3> QED BY <2>9
  <2> DEFINE g == upto(q)
  <2>11. g = [i \in 0 .. n |-> IF i = 0 THEN <<>> ELSE At(q, i, g[i - 1])]
    BY <2>10 DEF n
  <2> HIDE DEF g, step
  <2>12. g[0] = <<>> /\ \A i \in 1 .. n : g[i] = At(q, i, g[i - 1])
    <3>1. 0 \in 0 .. n /\ \A i \in 1 .. n : i \in 0 .. n /\ i # 0
      BY <2>3
    <3> QED BY <2>11, <3>1
  <2> DEFINE D == {i \in 0 .. n : g[i] \in Line}
  <2>13. 0 \in D
    BY <2>3, <2>12
  <2>14. ASSUME NEW i \in 0 .. n - 1, i \in D PROVE i + 1 \in D
    <3>1. i + 1 \in 1 .. n /\ (i + 1) - 1 = i /\ i + 1 \in 0 .. n
      BY <2>3
    <3> QED BY <2>4, <2>12, <2>14, <3>1
  <2>15. 0 .. n \subseteq D
    <3> HIDE DEF D
    <3> QED BY <2>3, <2>13, <2>14, IntervalInduction
  <2> QED BY <2>2, <2>3, <2>12, <2>15 DEF g, n
<1> HIDE DEF upto
<1>2. Parse!Join(p) \in Line /\ (p = <<>> => Parse!Join(p) = <<>>)
  <2>1. Len(p) \in 0 .. Len(p) /\ (p = <<>> => Len(p) = 0)
    OBVIOUS
  <2> HIDE DEF Line, At
  <2> QED BY <1>1, <2>1 DEF Line
<1>3. ASSUME NEW x \in Line PROVE Parse!Join(Append(p, x)) = IF p = <<>> THEN x ELSE Parse!Join(p) \o <<"sp">> \o x
  <2> DEFINE q == Append(p, x)
             n == Len(p)
  <2>1. q \in Seq(Line) /\ Len(q) = n + 1 /\ q[n + 1] = x /\ \A i \in 1 .. n : q[i] = p[i]
    BY AppendProperties
  <2>2. n \in Nat /\ (p = <<>> <=> n = 0)
    BY EmptySeq
  <2> DEFINE f == upto(p)
             g == upto(q)
  <2> HIDE DEF q, n
  <2>3. /\ Parse!Join(p) = f[n] /\ f[0] = <<>> /\ \A i \in 1 .. n : f[i] = At(p, i, f[i - 1])
        /\ Parse!Join(q) = g[n + 1] /\ g[0] = <<>> /\ \A i \in 1 .. n + 1 : g[i] = At(q, i, g[i - 1])
    <3> HIDE DEF At
    <3> QED BY <1>1, <2>1 DEF n
  <2> DEFINE D == {i \in 0 .. n : f[i] = g[i]}
  <2>4. 0 \in D
    BY <2>2, <2>3
  <2>5. ASSUME NEW i \in 0 .. n - 1, i \in D PROVE i + 1 \in D
    <3>1. i + 1 \in 1 .. n /\ i + 1 \in 1 .. n + 1 /\ (i + 1) - 1 = i /\ i + 1 \in 0 .. n /\ 1 \in 1 .. n
      BY <2>2
    <3>2. f[i + 1] = At(p, i + 1, f[i]) /\ g[i + 1] = At(q, i + 1, g[i]) /\ f[i] = g[i]
      <4> HIDE DEF At
      <4> QED BY <2>3, <2>5, <3>1
    <3>3. q[i + 1] = p[i + 1] /\ q[1] = p[1]
      BY <2>1, <3>1
    <3> QED BY <3>1, <3>2, <3>3
  <2>6. f[n] = g[n]
    <3> HIDE DEF D
    <3>1. 0 .. n \subseteq D
      BY <2>2, <2>4, <2>5, IntervalInduction
    <3>2. n \in 0 .. n
      BY <2>2
    <3> QED BY <3>1, <3>2 DEF D
  <2>7. g[n + 1] = At(q, n + 1, g[n])
    <3>1. n + 1 \in 1 .. n + 1 /\ (n + 1) - 1 = n
      BY <2>2
    <3> HIDE DEF At
    <3> QED BY <2>3, <3>1
  <2>8. CASE n = 0
    BY <2>1, <2>2, <2>3, <2>7, <2>8 DEF q
  <2>9. CASE n # 0
    <3>1. n + 1 # 1
      BY <2>2, <2>9
    <3> QED BY <2>1, <2>2, <2>3, <2>6, <2>7, <2>9, <3>1 DEF q
  <2> QED BY <2>8, <2>9
<1> QED BY <1>2, <1>3

\* The loop after i bytes: the pieces so far are what lies before pos, none of
\* them has a separator, and neither has what follows; after the break they are
\* the line.
ScanOn(s, k, a, i) ==
    /\ a.pos <= i + 1 /\ Len(a.out) = a.rcnt /\ (k > 0 => a.rcnt <= k)
    /\ \A j \in a.pos .. i : s[j] # "sp"
    /\ \A j \in DOMAIN a.out : ~Parse!Has(a.out[j], "sp")
    /\ a.out = <<>> => a.pos = 1
    /\ a.out # <<>> => Parse!Join(a.out) \o <<"sp">> = SubSeq(s, 1, a.pos - 1)
ScanOver(s, k, a) ==
    /\ k > 0 /\ Len(a.out) = k + 1 /\ a.pos = Len(s) + 1 /\ Parse!Join(a.out) = s
    /\ \A j \in 1 .. k : ~Parse!Has(a.out[j], "sp")
ScanInv(s, k, a, i) == a \in Scans /\ (~a.stop => ScanOn(s, k, a, i)) /\ (a.stop => ScanOver(s, k, a))

\* One more piece, which starts at pos and ends at i.
LEMMA JoinPiece ==
  ASSUME NEW s \in Seq(LineByte), NEW parts \in Seq(Seq(LineByte)), NEW i \in 0 .. Len(s), NEW p \in 1 .. i + 1,
         parts = <<>> => p = 1,
         parts # <<>> => Parse!Join(parts) \o <<"sp">> = SubSeq(s, 1, p - 1)
  PROVE  Parse!Join(Append(parts, SubSeq(s, p, i))) = SubSeq(s, 1, i)
<1>1. SubSeq(s, p, i) \in Seq(LineByte)
  <2>1. p \in Nat \ {0}
    OBVIOUS
  <2> QED BY <2>1, PieceFacts
<1>2. Parse!Join(Append(parts, SubSeq(s, p, i)))
        = IF parts = <<>> THEN SubSeq(s, p, i) ELSE Parse!Join(parts) \o <<"sp">> \o SubSeq(s, p, i)
  BY <1>1, JoinFacts
<1>3. CASE parts = <<>>
  BY <1>2, <1>3
<1>4. CASE parts # <<>>
  <2>1. Parse!Join(Append(parts, SubSeq(s, p, i))) = SubSeq(s, 1, p - 1) \o SubSeq(s, p, i)
    BY <1>2, <1>4
  <2>2. 1 \in 1 .. Len(s) + 1 /\ p - 1 \in 1 - 1 .. Len(s) /\ i \in p - 1 .. Len(s) /\ (p - 1) + 1 = p
    OBVIOUS
  <2>3. SubSeq(s, 1, p - 1) \o SubSeq(s, (p - 1) + 1, i) = SubSeq(s, 1, i)
    BY <2>2, ConcatAdjacentSubSeq
  <2> QED BY <2>1, <2>2, <2>3
<1> QED BY <1>3, <1>4

LEMMA ScanStep ==
  ASSUME NEW s \in Seq(LineByte), NEW k \in Int, NEW i \in 1 .. Len(s), NEW a, ScanInv(s, k, a, i - 1)
  PROVE  ScanInv(s, k, Parse!ScanByte(s, "sp", k, a, i), i)
<1> DEFINE b == Parse!ScanByte(s, "sp", k, a, i)
           piece == SubSeq(s, a.pos, i - 1)
           rest == Parse!From(s, a.pos)
<1> SUFFICES ScanInv(s, k, b, i)
  OBVIOUS
<1>1. a \in Scans /\ a.pos \in Nat \ {0} /\ a.rcnt \in Nat /\ a.out \in Seq(Seq(LineByte)) /\ a.stop \in BOOLEAN
  BY DEF ScanInv, Scans
<1>2. b \in Scans
  BY <1>1, ScanType
<1>3. CASE a.stop
  <2>1. b = a
    BY <1>3 DEF Parse!ScanByte
  <2> HIDE DEF b
  <2> QED BY <1>2, <1>3, <2>1 DEF ScanInv
<1>4. CASE ~a.stop
  <2>0. /\ a.pos <= i /\ Len(a.out) = a.rcnt /\ (k > 0 => a.rcnt <= k)
        /\ \A j \in a.pos .. i - 1 : s[j] # "sp"
        /\ \A j \in DOMAIN a.out : ~Parse!Has(a.out[j], "sp")
        /\ a.out = <<>> => a.pos = 1
        /\ a.out # <<>> => Parse!Join(a.out) \o <<"sp">> = SubSeq(s, 1, a.pos - 1)
    BY <1>1, <1>4 DEF ScanInv, ScanOn
  <2>a. /\ Len(s) \in Nat /\ i - 1 \in 0 .. Len(s) /\ a.pos \in 1 .. (i - 1) + 1
        /\ Len(s) \in 0 .. Len(s) /\ a.pos \in 1 .. Len(s) + 1
    BY <1>1, <2>0
  <2>b. piece \in Seq(LineByte) /\ ~Parse!Has(piece, "sp") /\ rest \in Seq(LineByte)
    BY <1>1, <2>0, <2>a, PieceFacts DEF Parse!From
  <2>c. Parse!Join(Append(a.out, piece)) = SubSeq(s, 1, i - 1)
    BY <1>1, <2>0, <2>a, JoinPiece
  <2>d. Parse!Join(Append(a.out, rest)) = s
    <3>1. Parse!Join(Append(a.out, rest)) = SubSeq(s, 1, Len(s))
      BY <1>1, <2>0, <2>a, JoinPiece DEF Parse!From
    <3> QED BY <3>1, SubSeqFull
  <2>1. CASE s[i] # "sp"
    <3>1. b = a
      BY <2>1 DEF Parse!ScanByte
    <3>2. a.pos <= i + 1 /\ \A j \in a.pos .. i : s[j] # "sp"
      <4>1. \A j \in a.pos .. i : j = i \/ j \in a.pos .. i - 1
        BY <1>1
      <4> QED BY <1>1, <2>0, <2>1, <4>1
    <3> HIDE DEF b
    <3>3. ScanOn(s, k, a, i)
      BY <2>0, <3>2 DEF ScanOn
    <3> QED BY <1>1, <1>4, <3>1, <3>3 DEF ScanInv
  <2>2. CASE s[i] = "sp" /\ k > 0 /\ a.rcnt + 1 > k
    <3>1. b = [rcnt |-> a.rcnt + 1, pos |-> Len(s) + 1, out |-> Append(a.out, rest), stop |-> TRUE]
      BY <1>4, <2>2 DEF Parse!ScanByte
    <3>2. b.stop /\ b.pos = Len(s) + 1 /\ b.out = Append(a.out, rest)
      BY <3>1
    <3>3. a.rcnt = k
      BY <1>1, <2>0, <2>2
    <3> HIDE DEF b, rest, piece
    <3>4. /\ Len(Append(a.out, rest)) = k + 1
          /\ \A j \in 1 .. k : j \in DOMAIN a.out /\ Append(a.out, rest)[j] = a.out[j]
      BY <1>1, <2>0, <2>b, <3>3, AppendProperties, LenProperties
    <3>5. \A j \in 1 .. k : ~Parse!Has(b.out[j], "sp")
      BY <2>0, <3>2, <3>4
    <3>6. ScanOver(s, k, b)
      BY <2>2, <2>d, <3>2, <3>4, <3>5 DEF ScanOver
    <3> QED BY <1>2, <3>2, <3>6 DEF ScanInv
  <2>3. CASE s[i] = "sp" /\ ~(k > 0 /\ a.rcnt + 1 > k)
    <3>1. b = [rcnt |-> a.rcnt + 1, pos |-> i + 1, out |-> Append(a.out, piece), stop |-> FALSE]
      BY <1>4, <2>3 DEF Parse!ScanByte
    <3>2. ~b.stop /\ b.pos = i + 1 /\ b.out = Append(a.out, piece) /\ b.rcnt = a.rcnt + 1
      BY <3>1
    <3> HIDE DEF b, rest, piece
    <3>3. /\ Len(b.out) = a.rcnt + 1 /\ b.out # <<>> /\ b.out[a.rcnt + 1] = piece
          /\ DOMAIN b.out = 1 .. a.rcnt + 1
          /\ \A j \in 1 .. a.rcnt : j \in DOMAIN a.out /\ b.out[j] = a.out[j]
      <4>1. b.out \in Seq(Seq(LineByte)) /\ DOMAIN a.out = 1 .. a.rcnt
        BY <1>1, <2>0, <2>b, <3>2, AppendProperties, LenProperties
      <4>2. /\ Len(b.out) = Len(a.out) + 1 /\ b.out # <<>> /\ b.out[Len(a.out) + 1] = piece
            /\ \A j \in 1 .. Len(a.out) : b.out[j] = a.out[j]
        <5> DEFINE q == a.out
        <5>1. q \in Seq(Seq(LineByte)) /\ b.out = Append(q, piece)
          BY <1>1, <3>2
        <5> HIDE DEF q
        <5>2. /\ Len(Append(q, piece)) = Len(q) + 1 /\ Append(q, piece) # <<>> /\ Append(q, piece)[Len(q) + 1] = piece
              /\ \A j \in 1 .. Len(q) : Append(q, piece)[j] = q[j]
          BY <2>b, <5>1, AppendProperties
        <5> QED BY <5>1, <5>2 DEF q
      <4>3. Len(b.out) = a.rcnt + 1 /\ b.out[a.rcnt + 1] = piece /\ \A j \in 1 .. a.rcnt : b.out[j] = a.out[j]
        BY <2>0, <4>2
      <4> QED BY <4>1, <4>2, <4>3, LenProperties
    <3>4. \A j \in DOMAIN b.out : ~Parse!Has(b.out[j], "sp")
      <4>1. \A j \in 1 .. a.rcnt + 1 : j = a.rcnt + 1 \/ j \in 1 .. a.rcnt
        BY <1>1
      <4> QED BY <2>0, <2>b, <3>3, <4>1
    <3>5. Parse!Join(b.out) \o <<"sp">> = SubSeq(s, 1, (i + 1) - 1)
      <4>1. 1 \in 1 .. Len(s) /\ i \in 1 .. Len(s) /\ (i + 1) - 1 = i
        BY <2>a
      <4>2. SubSeq(s, 1, i) = SubSeq(s, 1, i - 1) \o <<s[i]>>
        BY <4>1, SubSeqRecursiveSecond
      <4> QED BY <2>3, <2>c, <3>2, <4>1, <4>2
    <3>6. b.pos <= i + 1 /\ (k > 0 => a.rcnt + 1 <= k) /\ \A j \in i + 1 .. i : FALSE
      BY <1>1, <2>3, <3>2
    <3>7. ScanOn(s, k, b, i)
      BY <3>2, <3>3, <3>4, <3>5, <3>6 DEF ScanOn
    <3> QED BY <1>2, <3>2, <3>7 DEF ScanInv
  <2> QED BY <2>1, <2>2, <2>3
<1> QED BY <1>1, <1>3, <1>4

\* The pieces of SplitBytes, put together again, are the line, but for an empty
\* piece at its end; for every n but 0 and 1 there are not more than n > 0 asks
\* for, and only the last of n may have a separator; for every line.  (With n = 1
\* the code cuts at every separator, against its comment.)
THEOREM SplitBytesCorrect ==
    \A s \in Seq(LineByte) : \A n \in Int \ {0, 1} : \A old : Parse!SplitRight(s, n, Parse!SplitBytes(s, "sp", n, old))
<1> SUFFICES ASSUME NEW s \in Seq(LineByte), NEW n \in Int \ {0, 1}, NEW old
             PROVE  Parse!SplitRight(s, n, Parse!SplitBytes(s, "sp", n, old))
  OBVIOUS
<1> DEFINE k == IF n > 0 THEN n - 1 ELSE n
           scan == Parse!Scanned(s, "sp", k)
           end == scan[Len(s)]
           rest == Parse!From(s, end.pos)
           parts == IF end.pos <= Len(s) THEN Append(end.out, rest) ELSE end.out
           D == {i \in 0 .. Len(s) : ScanInv(s, k, scan[i], i)}
<1>0. Parse!SplitBytes(s, "sp", n, old) = parts
  BY DEF Parse!SplitBytes
<1>1. k \in Int /\ Len(s) \in Nat /\ (n > 0 <=> n > 1) /\ (n > 1 <=> k > 0) /\ (n > 1 => k = n - 1)
  OBVIOUS
<1> HIDE DEF k, scan
<1>2. /\ scan[0] = Parse!ScanStart /\ \A i \in 0 .. Len(s) : scan[i] \in Scans
      /\ \A i \in 1 .. Len(s) : scan[i] = Parse!ScanByte(s, "sp", k, scan[i - 1], i)
  BY <1>1, ScannedIs DEF scan
<1>3. 0 \in D
  <2>1. ScanInv(s, k, scan[0], 0)
    <3>1. scan[0] \in Scans /\ \A j \in 1 .. 0 : FALSE
      BY <1>1, <1>2
    <3>2. ScanOn(s, k, Parse!ScanStart, 0) /\ ~Parse!ScanStart.stop
      BY <1>1, <3>1 DEF Parse!ScanStart, ScanOn
    <3> QED BY <1>2, <3>1, <3>2 DEF ScanInv
  <2> QED BY <1>1, <2>1
<1>4. ASSUME NEW i \in 0 .. Len(s) - 1, i \in D PROVE i + 1 \in D
  <2>1. i + 1 \in 1 .. Len(s) /\ (i + 1) - 1 = i /\ i + 1 \in 0 .. Len(s)
    BY <1>1
  <2>2. ScanInv(s, k, scan[i], i)
    BY <1>4
  <2>3. ScanInv(s, k, Parse!ScanByte(s, "sp", k, scan[i], i + 1), i + 1)
    BY <1>1, <2>1, <2>2, ScanStep
  <2> QED BY <1>2, <2>1, <2>3
<1>5. ScanInv(s, k, end, Len(s))
  <2> HIDE DEF D
  <2>1. 0 .. Len(s) \subseteq D
    BY <1>1, <1>3, <1>4, IntervalInduction
  <2>2. Len(s) \in 0 .. Len(s)
    BY <1>1
  <2> QED BY <2>1, <2>2 DEF D
<1> HIDE DEF D, end
<1>6. end.pos \in Nat \ {0} /\ end.rcnt \in Nat /\ end.out \in Seq(Seq(LineByte)) /\ end.stop \in BOOLEAN
  BY <1>5 DEF ScanInv, Scans
<1>7. CASE end.stop
  <2>1. parts = end.out
    BY <1>1, <1>5, <1>6, <1>7 DEF ScanInv, ScanOver
  <2>2. /\ n > 1 /\ k > 0 /\ Len(end.out) = n /\ Parse!Join(end.out) = s
        /\ \A j \in 1 .. k : ~Parse!Has(end.out[j], "sp")
    BY <1>1, <1>5, <1>7 DEF ScanInv, ScanOver
  <2>3. \A j \in DOMAIN end.out : j = n \/ j \in 1 .. k
    BY <1>1, <1>6, <2>2, LenProperties
  <2>4. s \in {Parse!Join(end.out), Append(Parse!Join(end.out), "sp")} /\ n <= n
    BY <2>2
  <2>5. \A j \in DOMAIN end.out : Parse!Has(end.out[j], "sp") => j = n /\ n > 1
    BY <2>2, <2>3
  <2> HIDE DEF parts
  <2> QED BY <1>0, <1>1, <2>1, <2>2, <2>4, <2>5 DEF Parse!SplitRight
<1>8. CASE ~end.stop
  <2>0. /\ end.pos <= Len(s) + 1 /\ Len(end.out) = end.rcnt /\ (k > 0 => end.rcnt <= k)
        /\ \A j \in end.pos .. Len(s) : s[j] # "sp"
        /\ \A j \in DOMAIN end.out : ~Parse!Has(end.out[j], "sp")
        /\ end.out = <<>> => end.pos = 1
        /\ end.out # <<>> => Parse!Join(end.out) \o <<"sp">> = SubSeq(s, 1, end.pos - 1)
    BY <1>5, <1>8 DEF ScanInv, ScanOn
  <2>1. CASE end.pos <= Len(s)
    <3>1. parts = Append(end.out, rest)
      BY <2>1
    <3>2. Len(s) \in 0 .. Len(s) /\ end.pos \in 1 .. Len(s) + 1
      BY <1>1, <1>6, <2>0
    <3>3. rest \in Seq(LineByte) /\ ~Parse!Has(rest, "sp")
      BY <1>6, <2>0, <3>2, PieceFacts DEF Parse!From
    <3>4. Parse!Join(parts) = s
      <4>1. Parse!Join(Append(end.out, SubSeq(s, end.pos, Len(s)))) = SubSeq(s, 1, Len(s))
        BY <1>6, <2>0, <3>2, JoinPiece
      <4> QED BY <3>1, <4>1, SubSeqFull DEF Parse!From
    <3> HIDE DEF rest, parts
    <3>5. /\ Len(parts) = end.rcnt + 1 /\ DOMAIN parts = 1 .. end.rcnt + 1 /\ parts[end.rcnt + 1] = rest
          /\ \A j \in 1 .. end.rcnt : j \in DOMAIN end.out /\ parts[j] = end.out[j]
      <4>1. parts \in Seq(Seq(LineByte)) /\ DOMAIN end.out = 1 .. end.rcnt
        BY <1>6, <2>0, <3>1, <3>3, AppendProperties, LenProperties
      <4>2. Len(parts) = end.rcnt + 1 /\ parts[end.rcnt + 1] = rest
        BY <1>6, <2>0, <3>1, <3>3, AppendProperties
      <4>3. \A j \in 1 .. end.rcnt : parts[j] = end.out[j]
        BY <1>6, <2>0, <3>1, <3>3, AppendProperties
      <4> QED BY <4>1, <4>2, <4>3, LenProperties
    <3>6. \A j \in DOMAIN parts : ~Parse!Has(parts[j], "sp")
      <4>1. \A j \in 1 .. end.rcnt + 1 : j = end.rcnt + 1 \/ j \in 1 .. end.rcnt
        BY <1>6
      <4> QED BY <2>0, <3>3, <3>5, <4>1
    <3>7. n > 1 => Len(parts) <= n
      BY <1>1, <1>6, <2>0, <3>5
    <3> QED BY <1>0, <1>1, <3>4, <3>6, <3>7 DEF Parse!SplitRight
  <2>2. CASE ~(end.pos <= Len(s))
    <3>1. parts = end.out
      BY <2>2
    <3>2. end.pos = Len(s) + 1 /\ end.pos - 1 = Len(s)
      BY <1>1, <1>6, <2>0, <2>2
    <3>3. n > 1 => Len(end.out) <= n
      BY <1>1, <1>6, <2>0
    <3>4. s \in {Parse!Join(end.out), Append(Parse!Join(end.out), "sp")}
      <4>1. CASE end.out = <<>>
        <5>1. Len(s) = 0
          BY <1>1, <2>0, <3>2, <4>1
        <5>2. s = <<>>
          BY <5>1, EmptySeq
        <5> QED BY <1>6, <4>1, <5>2, JoinFacts
      <4>2. CASE end.out # <<>>
        <5>1. Parse!Join(end.out) \o <<"sp">> = s
          BY <2>0, <3>2, <4>2, SubSeqFull
        <5>2. Parse!Join(end.out) \in Seq(LineByte)
          BY <1>6, JoinFacts
        <5> QED BY <5>1, <5>2, LineFacts, AppendIsConcat
      <4> QED BY <4>1, <4>2
    <3> QED BY <1>0, <1>1, <2>0, <3>1, <3>3, <3>4 DEF Parse!SplitRight
  <2> QED BY <2>1, <2>2
<1> QED BY <1>6, <1>7, <1>8

\* A generated line: up to the end of the field that parser adds up, the loop
\* has cut a field of digits at each multiple of FieldLen; from there on the
\* fields stay.
DigitsOnly(x) == \A j \in DOMAIN x : x[j] = "1"
FieldsAt(a, i) ==
    /\ ~a.stop /\ Len(a.out) = a.rcnt /\ a.pos = FieldLen * a.rcnt + 1
    /\ FieldLen * a.rcnt <= i /\ i < FieldLen * a.rcnt + FieldLen
    /\ \A j \in DOMAIN a.out : DigitsOnly(a.out[j])
FieldsCut(a) == MinFields <= Len(a.out) /\ DigitsOnly(a.out[MinFields])
GenInv(a, i) ==
    /\ a \in Scans
    /\ i <= FieldLen * MinFields => FieldsAt(a, i)
    /\ FieldLen * MinFields <= i => FieldsCut(a)

LEMMA GenConstants ==
    /\ FieldLen \in Nat \ {0} /\ MinFields \in Nat \ {0} /\ MaxFields \in Nat /\ MinFields < MaxFields
    /\ LineLen \in Nat /\ FieldLen * MinFields \in Nat /\ FieldLen * MinFields < LineLen
<1>1. FieldLen \in Nat \ {0} /\ MinFields \in Nat \ {0} /\ MaxFields \in Nat /\ MinFields < MaxFields
      /\ LineLen \in Nat /\ MinFields * FieldLen < LineLen
  BY ParseAssumption
<1>2. FieldLen * MinFields = MinFields * FieldLen /\ FieldLen * MinFields \in Nat
  BY <1>1
<1> QED BY <1>1, <1>2

LEMMA ProductOrder ==
  ASSUME NEW f \in Nat \ {0}, NEW a \in Nat, NEW b \in Nat
  PROVE  /\ f * (a + 1) = f * a + f /\ f * a \in Nat
         /\ f * a <= f * b => a <= b
         /\ f * a < f * b => a < b
<1>1. f * (a + 1) = f * a + f /\ f * (b + 1) = f * b + f /\ f * a \in Nat /\ f * b \in Nat
  OBVIOUS
<1>2. ASSUME NEW x \in Nat, NEW y \in Nat, x <= y PROVE f * x <= f * y
  <2>1. f * y = f * x + f * (y - x) /\ f * x \in Nat
    OBVIOUS
  <2>2. y - x \in Nat
    BY <1>2
  <2>3. f * (y - x) \in Nat
    BY <2>2
  <2> QED BY <2>1, <2>3
<1>3. b < a => f * (b + 1) <= f * a
  BY <1>2
<1>4. b <= a => f * b <= f * a
  BY <1>2
<1> QED BY <1>1, <1>3, <1>4

LEMMA LinebufFacts ==
    /\ Parse!Linebuf \in Seq(LineByte) /\ Len(Parse!Linebuf) = LineLen
    /\ \A j \in 1 .. FieldLen * MinFields : Parse!Linebuf[j] = IF j % FieldLen = 0 THEN "sp" ELSE "1"
<1> DEFINE l == Parse!Linebuf
<1>1. \A j \in 1 .. LineLen : l[j] = IF j = LineLen THEN "nl" ELSE IF j % FieldLen = 0 THEN "sp" ELSE "1"
  BY DEF Parse!Linebuf
<1>2. DOMAIN l = 1 .. LineLen /\ l = [j \in 1 .. LineLen |-> l[j]]
  BY DEF Parse!Linebuf
<1>3. "nl" \in LineByte /\ "sp" \in LineByte /\ "1" \in LineByte
  BY DEF LineByte, FileByte
<1> HIDE DEF l
<1>4. \A j \in 1 .. LineLen : l[j] \in LineByte
  BY <1>1, <1>3
<1>5. l \in [1 .. LineLen -> LineByte]
  BY <1>2, <1>4
<1>6. l \in Seq(LineByte) /\ Len(l) = LineLen
  BY <1>5, GenConstants
<1>7. \A j \in 1 .. FieldLen * MinFields : j \in 1 .. LineLen /\ j # LineLen
  BY GenConstants
<1> QED BY <1>1, <1>6, <1>7 DEF l

LEMMA GenScanStep ==
  ASSUME NEW i \in 1 .. LineLen, NEW a, GenInv(a, i - 1)
  PROVE  GenInv(Parse!ScanByte(Parse!Linebuf, "sp", MaxFields - 1, a, i), i)
<1> DEFINE s == Parse!Linebuf
           k == MaxFields - 1
           b == Parse!ScanByte(s, "sp", k, a, i)
           m == FieldLen * MinFields
           piece == SubSeq(s, a.pos, i - 1)
           rest == Parse!From(s, a.pos)
<1> SUFFICES GenInv(b, i)
  OBVIOUS
<1>0. s \in Seq(LineByte) /\ Len(s) = LineLen /\ \A j \in 1 .. m : s[j] = IF j % FieldLen = 0 THEN "sp" ELSE "1"
  BY LinebufFacts
<1>a. m \in Nat /\ m < LineLen /\ LineLen \in Nat /\ k \in Nat \ {0} /\ MinFields <= k /\ k \in Int
  BY GenConstants
<1>1. a \in Scans /\ a.pos \in Nat \ {0} /\ a.rcnt \in Nat /\ a.out \in Seq(Seq(LineByte)) /\ a.stop \in BOOLEAN
  BY DEF GenInv, Scans
<1>2. b \in Scans
  BY <1>0, <1>1, <1>a, ScanType
<1>3. piece \in Seq(LineByte) /\ rest \in Seq(LineByte)
  <2>1. i - 1 \in 0 .. Len(s) /\ Len(s) \in 0 .. Len(s)
    BY <1>0, <1>a
  <2> QED BY <1>0, <1>1, <2>1, PieceFacts DEF Parse!From
<1>4. b.out = a.out \/ b.out = Append(a.out, piece) \/ b.out = Append(a.out, rest)
  BY DEF Parse!ScanByte
<1> HIDE DEF m, k, s
<1>5. ASSUME FieldsCut(a) PROVE FieldsCut(b)
  <2> HIDE DEF b, piece, rest
  <2>1. MinFields \in Nat \ {0} /\ MinFields <= Len(a.out) /\ DigitsOnly(a.out[MinFields]) /\ Len(a.out) \in Nat
    BY <1>1, <1>5, GenConstants, LenProperties DEF FieldsCut
  <2>2. ASSUME NEW x \in Seq(LineByte)
        PROVE  MinFields <= Len(Append(a.out, x)) /\ Append(a.out, x)[MinFields] = a.out[MinFields]
    <3>1. MinFields \in 1 .. Len(a.out)
      BY <2>1
    <3>2. Len(Append(a.out, x)) = Len(a.out) + 1 /\ Append(a.out, x)[MinFields] = a.out[MinFields]
      BY <1>1, <3>1, AppendProperties
    <3> QED BY <2>1, <3>2
  <2> QED BY <1>3, <1>4, <2>1, <2>2 DEF FieldsCut
<1>6. CASE m < i
  <2>1. FieldsCut(a)
    <3>1. m <= i - 1
      BY <1>6, <1>a
    <3> QED BY <3>1 DEF GenInv, m
  <2>2. ~(i <= m)
    BY <1>6, <1>a
  <2> HIDE DEF b
  <2> QED BY <1>2, <1>5, <2>1, <2>2 DEF GenInv, m
<1>7. CASE i <= m
  <2> DEFINE r == a.rcnt
             t == FieldLen * r
  <2>0. /\ ~a.stop /\ Len(a.out) = r /\ a.pos = t + 1 /\ t <= i - 1 /\ i - 1 < t + FieldLen
        /\ \A j \in DOMAIN a.out : DigitsOnly(a.out[j])
    <3>1. i - 1 <= m
      BY <1>7, <1>a
    <3> QED BY <3>1 DEF GenInv, FieldsAt, m
  <2>1. r \in Nat /\ t \in Nat /\ FieldLen \in Nat \ {0} /\ FieldLen * (r + 1) = t + FieldLen
    BY <1>1, GenConstants, ProductOrder
  <2> HIDE DEF r, t
  <2>2. i \in 1 .. m /\ i \in Nat
    BY <1>7, <1>a
  <2>3. ASSUME NEW j \in 1 .. m, t < j, j < t + FieldLen PROVE s[j] = "1"
    <3>1. j - t \in 0 .. FieldLen - 1 /\ j - t # 0 /\ j = t + (j - t) /\ r \in Int
      BY <2>1, <2>3
    <3>2. (FieldLen * r + (j - t)) % FieldLen = j - t
      BY <2>1, <3>1, RemainderIs
    <3>3. j % FieldLen # 0
      BY <3>1, <3>2 DEF t, r
    <3> QED BY <1>0, <3>3
  <2>4. CASE i < t + FieldLen
    <3>1. s[i] # "sp"
      <4>1. t < i
        BY <2>0, <2>1, <2>2
      <4>2. s[i] = "1"
        BY <2>2, <2>3, <2>4, <4>1
      <4> QED BY <4>2
    <3>2. b = a
      BY <3>1 DEF Parse!ScanByte
    <3>3. t <= i
      BY <2>0, <2>1, <2>2
    <3>4. FieldsAt(a, i)
      BY <2>0, <2>4, <3>3 DEF FieldsAt, t, r
    <3>5. i # m
      <4> SUFFICES ASSUME i = m PROVE FALSE
        OBVIOUS
      <4>1. (FieldLen * MinFields + 0) % FieldLen = 0 /\ FieldLen * MinFields + 0 = m
        <5>1. 0 \in 0 .. FieldLen - 1 /\ MinFields \in Int
          BY GenConstants
        <5> QED BY <1>a, <5>1, GenConstants, RemainderIs DEF m
      <4> QED BY <1>0, <2>2, <3>1, <4>1
    <3>6. ~(m <= i)
      BY <1>a, <2>2, <3>5
    <3> HIDE DEF b
    <3> QED BY <1>2, <3>2, <3>4, <3>6 DEF GenInv, m
  <2>5. CASE ~(i < t + FieldLen)
    <3>1. i = t + FieldLen /\ i = FieldLen * (r + 1)
      BY <2>0, <2>1, <2>2, <2>5
    <3>2. r + 1 <= MinFields /\ (i = m => r + 1 = MinFields)
      <4>1. FieldLen * (r + 1) <= FieldLen * MinFields
        BY <1>7, <3>1 DEF m
      <4>2. r + 1 \in Nat /\ MinFields \in Nat
        BY <2>1, GenConstants
      <4>3. FieldLen * MinFields <= FieldLen * (r + 1) => MinFields <= r + 1
        BY <2>1, <4>2, ProductOrder
      <4>4. i = m => FieldLen * MinFields <= FieldLen * (r + 1)
        BY <1>a, <2>2, <3>1 DEF m
      <4> QED BY <2>1, <4>1, <4>2, <4>3, <4>4, ProductOrder
    <3>3. s[i] = "sp"
      <4>1. (FieldLen * (r + 1) + 0) % FieldLen = 0 /\ FieldLen * (r + 1) + 0 = i
        <5>1. 0 \in 0 .. FieldLen - 1 /\ r + 1 \in Int
          BY <2>1
        <5> QED BY <2>1, <2>2, <3>1, <5>1, RemainderIs
      <4> QED BY <1>0, <2>2, <4>1
    <3>4. b = [rcnt |-> r + 1, pos |-> i + 1, out |-> Append(a.out, piece), stop |-> FALSE]
      <4>1. ~(k > 0 /\ r + 1 > k)
        BY <1>a, <2>1, <3>2, GenConstants
      <4> QED BY <2>0, <3>3, <4>1 DEF Parse!ScanByte, r
    <3>5. DigitsOnly(piece)
      <4>1. \A j \in a.pos .. i - 1 : s[j] = "1"
        <5> SUFFICES ASSUME NEW j \in a.pos .. i - 1 PROVE s[j] = "1"
          OBVIOUS
        <5>1. j \in 1 .. m /\ t < j /\ j < t + FieldLen
          BY <1>a, <2>0, <2>1, <2>2, <3>1
        <5> QED BY <2>3, <5>1
      <4>2. ASSUME NEW j \in DOMAIN piece PROVE piece[j] = "1"
        <5>1. i - 1 \in 0 .. Len(s) /\ a.pos <= (i - 1) + 1
          BY <1>0, <1>a, <2>0, <2>1, <2>2
        <5>2. /\ Len(piece) = (i - 1) + 1 - a.pos
              /\ \A h \in 1 .. (i - 1) + 1 - a.pos : piece[h] = s[a.pos + h - 1]
          BY <1>0, <1>1, <5>1, PieceFacts
        <5>3. j \in 1 .. (i - 1) + 1 - a.pos
          BY <1>3, <5>2, LenProperties
        <5>4. a.pos + j - 1 \in a.pos .. i - 1
          BY <1>1, <2>2, <5>3
        <5> QED BY <4>1, <5>2, <5>3, <5>4
      <4> HIDE DEF piece
      <4> QED BY <4>2 DEF DigitsOnly
    <3> DEFINE q == a.out
    <3> HIDE DEF b, piece, rest
    <3>6. ~b.stop /\ b.rcnt = r + 1 /\ b.pos = i + 1 /\ b.out = Append(q, piece) /\ q \in Seq(Seq(LineByte)) /\ Len(q) = r
      BY <1>1, <2>0, <3>4
    <3>7. /\ Len(b.out) = r + 1 /\ DOMAIN b.out = 1 .. r + 1 /\ b.out[r + 1] = piece
          /\ \A j \in 1 .. r : b.out[j] = q[j] /\ j \in DOMAIN q
      <4> HIDE DEF q
      <4>1. /\ Append(q, piece) \in Seq(Seq(LineByte)) /\ Len(Append(q, piece)) = Len(q) + 1
            /\ Append(q, piece)[Len(q) + 1] = piece /\ \A j \in 1 .. Len(q) : Append(q, piece)[j] = q[j]
        BY <1>3, <3>6, AppendProperties
      <4>2. DOMAIN Append(q, piece) = 1 .. Len(Append(q, piece)) /\ DOMAIN q = 1 .. Len(q)
        BY <3>6, <4>1, LenProperties
      <4> QED BY <3>6, <4>1, <4>2
    <3>8. \A j \in DOMAIN b.out : DigitsOnly(b.out[j])
      <4>1. \A j \in 1 .. r + 1 : j = r + 1 \/ j \in 1 .. r
        BY <2>1
      <4> QED BY <2>0, <3>5, <3>7, <4>1
    <3>9. FieldsAt(b, i)
      <4>1. FieldLen * b.rcnt = i /\ b.pos = FieldLen * b.rcnt + 1 /\ Len(b.out) = b.rcnt
        BY <3>1, <3>6, <3>7
      <4>2. i <= i /\ i < i + FieldLen
        BY <2>1, <2>2
      <4> QED BY <3>6, <3>8, <4>1, <4>2 DEF FieldsAt
    <3>10. m <= i => FieldsCut(b)
      <4> SUFFICES ASSUME m <= i PROVE FieldsCut(b)
        OBVIOUS
      <4>1. i = m
        BY <1>a, <2>2
      <4>2. MinFields = r + 1 /\ r + 1 \in DOMAIN b.out /\ r + 1 <= r + 1
        BY <2>1, <3>2, <3>7, <4>1
      <4> QED BY <3>7, <3>8, <4>2 DEF FieldsCut
    <3> QED BY <1>2, <3>9, <3>10 DEF GenInv, m
  <2> QED BY <2>4, <2>5
<1>8. m < i \/ i <= m
  BY <1>a
<1> QED BY <1>6, <1>7, <1>8

\* In a line of the generator parser finds the fields it needs, and a number in
\* the one it adds up.
LEMMA GenFields ==
  LET fields == Parse!SplitBytes(Parse!Linebuf, "sp", MaxFields, <<>>)
  IN  Len(fields) >= MinFields /\ Parse!AtoIntOfBytes(fields[MinFields]).ok
<1> DEFINE s == Parse!Linebuf
           k == IF MaxFields > 0 THEN MaxFields - 1 ELSE MaxFields
           scan == Parse!Scanned(s, "sp", k)
           end == scan[Len(s)]
           rest == Parse!From(s, end.pos)
           parts == IF end.pos <= Len(s) THEN Append(end.out, rest) ELSE end.out
           D == {i \in 0 .. LineLen : GenInv(scan[i], i)}
<1>0. s \in Seq(LineByte) /\ Len(s) = LineLen
  BY LinebufFacts
<1>1. k = MaxFields - 1 /\ k \in Int /\ MaxFields # 0 /\ LineLen \in Nat
  BY GenConstants
<1>2. Parse!SplitBytes(s, "sp", MaxFields, <<>>) = parts
  BY <1>1 DEF Parse!SplitBytes
<1> HIDE DEF scan, k, s
<1>3. /\ scan[0] = Parse!ScanStart /\ \A i \in 0 .. LineLen : scan[i] \in Scans
      /\ \A i \in 1 .. LineLen : scan[i] = Parse!ScanByte(s, "sp", k, scan[i - 1], i)
  BY <1>0, <1>1, ScannedIs DEF scan
<1>4. 0 \in D
  <2>1. FieldsAt(Parse!ScanStart, 0)
    <3>1. FieldLen * 0 = 0 /\ FieldLen \in Nat \ {0}
      BY GenConstants
    <3> QED BY <3>1 DEF Parse!ScanStart, FieldsAt
  <2>2. ~(FieldLen * MinFields <= 0)
    <3>1. FieldLen * MinFields # 0
      BY GenConstants
    <3> QED BY <3>1, GenConstants
  <2>3. 0 \in 0 .. LineLen
    BY <1>1
  <2> QED BY <1>3, <2>1, <2>2, <2>3 DEF GenInv
<1>5. ASSUME NEW i \in 0 .. LineLen - 1, i \in D PROVE i + 1 \in D
  <2>1. i + 1 \in 1 .. LineLen /\ (i + 1) - 1 = i /\ i + 1 \in 0 .. LineLen
    BY <1>1
  <2>2. GenInv(scan[i], (i + 1) - 1)
    BY <1>5, <2>1
  <2>3. GenInv(Parse!ScanByte(s, "sp", MaxFields - 1, scan[i], i + 1), i + 1)
    BY <2>1, <2>2, GenScanStep DEF s
  <2> QED BY <1>1, <1>3, <2>1, <2>3
<1>6. GenInv(end, LineLen)
  <2> HIDE DEF D
  <2>1. 0 .. LineLen \subseteq D
    BY <1>1, <1>4, <1>5, IntervalInduction
  <2>2. LineLen \in 0 .. LineLen
    BY <1>1
  <2> QED BY <1>0, <2>1, <2>2 DEF D
<1> HIDE DEF D, end
<1>7. end.pos \in Nat \ {0} /\ end.out \in Seq(Seq(LineByte)) /\ FieldsCut(end)
  <2>1. FieldLen * MinFields <= LineLen
    BY GenConstants
  <2> QED BY <1>6, <2>1 DEF GenInv, Scans
<1>8. rest \in Seq(LineByte)
  <2>1. Len(s) \in 0 .. Len(s)
    BY <1>0
  <2> QED BY <1>0, <1>7, <2>1, PieceFacts DEF Parse!From
<1> HIDE DEF rest
<1>9. MinFields \in 1 .. Len(end.out) /\ Len(end.out) \in Nat /\ end.out[MinFields] \in Seq(LineByte)
      /\ DigitsOnly(end.out[MinFields])
  <2>1. MinFields \in 1 .. Len(end.out) /\ Len(end.out) \in Nat /\ DigitsOnly(end.out[MinFields])
    BY <1>7, GenConstants, LenProperties DEF FieldsCut
  <2> QED BY <1>7, <2>1, ElementOfSeq
<1>10. Len(parts) >= MinFields /\ parts[MinFields] = end.out[MinFields]
  <2>1. Len(Append(end.out, rest)) = Len(end.out) + 1 /\ Append(end.out, rest)[MinFields] = end.out[MinFields]
    BY <1>7, <1>8, <1>9, AppendProperties
  <2> QED BY <1>9, <2>1
<1>11. ASSUME NEW x \in Seq(LineByte), DigitsOnly(x) PROVE Parse!AtoIntOfBytes(x).ok
  <2>1. ~(x # <<>> /\ x[1] = "-")
    <3>1. x # <<>> => 1 \in DOMAIN x
      BY EmptySeq, LenProperties
    <3> QED BY <1>11, <3>1 DEF DigitsOnly
  <2>2. Parse!AtoIntOfBytes(x) = [size |-> Parse!Accumulated(Len(x)), ok |-> TRUE]
    BY <1>11, <2>1 DEF DigitsOnly, Parse!AtoIntOfBytes
  <2> QED BY <2>2
<1> QED BY <1>2, <1>9, <1>10, <1>11 DEF s

\* SplitBytes and AtoIntOfBytes do with every line of the file what their
\* callers expect, and however many lines are generated, the bytes copied are
\* bytes of the seed and the line has the fields and the number that parser
\* looks for; for every width, every field and line length and every limit on
\* the fields.
THEOREM SplitCorrect == Parse!Spec => []SplitExact
<1>1. ParseInv => Parse!SplitExact
  <2> SUFFICES ASSUME ParseInv, NEW i \in DOMAIN file
               PROVE  /\ \A n \in {-1, 2, 3} : Parse!SplitRight(file[i], n, Parse!SplitBytes(file[i], "sp", n, slice))
                      /\ Parse!NumberRight(file[i])
    BY DEF Parse!SplitExact
  <2>1. file \in Seq(Seq(FileByte))
    BY DEF ParseInv, ParseType
  <2>2. file[i] \in Seq(FileByte)
    BY <2>1, LenProperties, ElementOfSeq
  <2>3. file[i] \in Seq(LineByte) /\ {-1, 2, 3} \subseteq Int \ {0, 1}
    BY <2>2, LineFacts
  <2> QED BY <2>2, <2>3, SplitBytesCorrect, NumberCorrect
<1>2. Parse!CopyInBounds => Parse!SeedInBounds
  BY GenFields DEF Parse!SeedInBounds
<1> QED BY <1>1, <1>2, ParseInvariance, CopyCorrect, PTL DEF SplitExact
=============================================================================
