------------------------ MODULE QpsHttpServerProofs ------------------------
(***************************************************************************)
(* Proofs about QpsHttpServer for every limit, channel size, mode and set  *)
(* of connections.                                                         *)
(***************************************************************************)
EXTENDS QpsHttpServer, FiniteSetTheorems, TLAPS

Event == {"state", "destroyed"}

\* The steps of a handler between its start and its last.
Inner(c) ==
    \/ HandlerSend(c) \/ HandlerRead(c) \/ HandlerParsed(c) \/ HandlerReject(c)
    \/ HandlerMore(c) \/ HandlerSpin(c) \/ HandlerAnswer(c) \/ HandlerHeader(c)
    \/ HandlerNoResponse(c) \/ HandlerBody(c) \/ HandlerFinish(c) \/ HandlerDrain(c)

\* The announcements in a sequence of events are finitely many.
LEMMA GoneFinite ==
  ASSUME NEW s \in Seq(Event)
  PROVE  IsFiniteSet(GoneIn(s)) /\ Cardinality(GoneIn(s)) \in Nat
<1>1. DOMAIN s = 1 .. Len(s) /\ Len(s) \in Nat
  OBVIOUS
<1>2. IsFiniteSet(DOMAIN s)
  BY <1>1, FS_Interval
<1>3. GoneIn(s) \in SUBSET DOMAIN s
  BY DEF GoneIn
<1>4. IsFiniteSet(GoneIn(s))
  BY <1>2, <1>3, FS_Subset
<1> QED BY <1>4, FS_CardinalityType

\* Sending a state leaves the announcements alone, sending Destroyed adds one.
LEMMA GoneAppend ==
  ASSUME NEW s \in Seq(Event)
  PROVE  /\ GoneIn(Append(s, "state")) = GoneIn(s)
         /\ Cardinality(GoneIn(Append(s, "destroyed"))) = Cardinality(GoneIn(s)) + 1
<1>1. DOMAIN s = 1 .. Len(s) /\ Len(s) \in Nat
  OBVIOUS
<1>2. ASSUME NEW e \in Event
      PROVE  /\ DOMAIN Append(s, e) = 1 .. (Len(s) + 1)
             /\ \A i \in 1 .. Len(s) : Append(s, e)[i] = s[i]
             /\ Append(s, e)[Len(s) + 1] = e
  BY DEF Event
<1>3. GoneIn(Append(s, "state")) = GoneIn(s)
  BY <1>1, <1>2 DEF GoneIn, Event
<1>4. GoneIn(Append(s, "destroyed")) = GoneIn(s) \cup {Len(s) + 1}
  BY <1>1, <1>2 DEF GoneIn, Event
<1>5. Len(s) + 1 \notin GoneIn(s)
  BY <1>1 DEF GoneIn
<1> QED BY <1>3, <1>4, <1>5, GoneFinite, FS_AddElement

\* Receiving an announcement takes one away, receiving a state none.
LEMMA GoneTail ==
  ASSUME NEW s \in Seq(Event), s # <<>>
  PROVE  Cardinality(GoneIn(Tail(s))) = Cardinality(GoneIn(s)) - One(Head(s) = "destroyed")
<1> DEFINE T == GoneIn(Tail(s))
           R == GoneIn(s) \ {1}
           f == [i \in T |-> i + 1]
<1>1. /\ DOMAIN s = 1 .. Len(s) /\ Len(s) \in Nat /\ Len(s) > 0 /\ Head(s) = s[1]
      /\ DOMAIN Tail(s) = 1 .. (Len(s) - 1)
      /\ \A i \in 1 .. (Len(s) - 1) : Tail(s)[i] = s[i + 1]
  OBVIOUS
<1>2. Tail(s) \in Seq(Event)
  OBVIOUS
<1>3. IsFiniteSet(T) /\ IsFiniteSet(GoneIn(s))
  BY <1>2, GoneFinite
<1>4. T \subseteq 1 .. (Len(s) - 1) /\ \A i \in T : i + 1 \in R
  BY <1>1 DEF GoneIn
<1>5. \A j \in R : j - 1 \in T /\ j \in Nat
  BY <1>1 DEF GoneIn
<1>6. f \in Bijection(T, R)
  <2>1. f \in [T -> R]
    BY <1>4
  <2>2. \A i, k \in T : f[i] = f[k] => i = k
    BY <1>4
  <2>3. \A j \in R : \E i \in T : f[i] = j
    <3> TAKE j \in R
    <3>1. j - 1 \in T /\ f[j - 1] = j
      BY <1>5
    <3> QED BY <3>1
  <2> QED BY <2>1, <2>2, <2>3 DEF Bijection, Injection, Surjection, IsInjective
<1>7. Cardinality(R) = Cardinality(T)
  BY <1>3, <1>6, FS_Bijection DEF ExistsBijection
<1>8. Cardinality(R) = Cardinality(GoneIn(s)) - One(1 \in GoneIn(s))
  <2>1. Cardinality(R) = IF 1 \in GoneIn(s) THEN Cardinality(GoneIn(s)) - 1 ELSE Cardinality(GoneIn(s))
    BY <1>3, FS_RemoveElement
  <2>2. Cardinality(GoneIn(s)) \in Nat
    BY GoneFinite
  <2> QED BY <2>1, <2>2 DEF One
<1>9. 1 \in GoneIn(s) <=> Head(s) = "destroyed"
  BY <1>1 DEF GoneIn
<1> QED BY <1>7, <1>8, <1>9 DEF One

\* Who is active, served, leaked and owed are finite sets.
LEMMA SetsFinite ==
  ASSUME TypeOK
  PROVE  /\ IsFiniteSet(Active) /\ IsFiniteSet(Served) /\ IsFiniteSet(Owed)
         /\ Cardinality(Active) \in Nat /\ Cardinality(Served) \in Nat /\ Cardinality(Owed) \in Nat
         /\ Cardinality(Served) <= Cardinality(Owed)
<1>1. Active \subseteq Conn /\ Served \subseteq Owed /\ Owed \subseteq Conn
  BY DEF TypeOK, Active, Served, Owed, Leaked
<1>2. IsFiniteSet(Active) /\ IsFiniteSet(Owed)
  BY <1>1, ServerAssumption, FS_Subset
<1>3. IsFiniteSet(Served) /\ Cardinality(Served) <= Cardinality(Owed)
  BY <1>1, <1>2, FS_Subset
<1> QED BY <1>2, <1>3, FS_CardinalityType

\* A step inside a handler leaves the sets of connections alone and sends
\* nothing but states.
LEMMA InnerStep ==
  ASSUME TypeOK, NEW c \in Conn, Inner(c)
  PROVE  /\ hpc[c] \notin {"free", "leave", "close", "destroy"} \/ HandlerSend(c)
         /\ hpc'[c] \notin {"free", "destroy"} \/ HandlerSend(c)
         /\ hpc' = [hpc EXCEPT ![c] = hpc'[c]]
         /\ mode # "readlonly" /\ hpc[c] # "drain" /\ ~HandlerSend(c) => hpc'[c] \notin {"drain", "leave"}
         /\ HandlerSend(c) => hpc' = hpc
         /\ events' \in {events, Append(events, "state")}
         /\ UNCHANGED <<ticks, acctVars, acceptVars, busy, open>>
<1> USE DEF TypeOK, Decide, chanVars, acctVars, acceptVars, flagVars
<1>1. CASE HandlerSend(c) BY <1>1 DEF HandlerSend
<1>2. CASE HandlerRead(c) BY <1>2 DEF HandlerRead, HandlerSend
<1>3. CASE HandlerParsed(c) \/ HandlerReject(c) BY <1>3 DEF HandlerParsed, HandlerReject, HandlerSend
<1>4. CASE HandlerMore(c) BY <1>4 DEF HandlerMore, HandlerSend
<1>5. CASE HandlerSpin(c) \/ HandlerAnswer(c) BY <1>5 DEF HandlerSpin, HandlerAnswer, HandlerSend
<1>6. CASE HandlerHeader(c) \/ HandlerNoResponse(c) BY <1>6 DEF HandlerHeader, HandlerNoResponse, HandlerSend
<1>7. CASE HandlerBody(c) BY <1>7 DEF HandlerBody, HandlerSend
<1>8. CASE HandlerFinish(c) BY <1>8 DEF HandlerFinish, HandlerSend
<1>9. CASE HandlerDrain(c) BY <1>9 DEF HandlerDrain, HandlerSend
<1> QED BY <1>1, <1>2, <1>3, <1>4, <1>5, <1>6, <1>7, <1>8, <1>9 DEF Inner

\* A decision stays within the types.
LEMMA DecideType ==
  ASSUME TypeOK, NEW c \in Conn, NEW from, NEW pc \in HandlerPC, NEW n \in 0 .. 4, Decide(c, from, pc, n)
  PROVE  /\ hpc' \in [Conn -> HandlerPC] /\ todo' \in [Conn -> 0 .. 4]
         /\ UNCHANGED <<chanVars, acctVars, acceptVars, open>>
BY DEF TypeOK, Decide

\* Typing of every step.
LEMMA TypeStep == TypeOK /\ CurInv /\ [Next]_vars => TypeOK'
<1> SUFFICES ASSUME TypeOK, CurInv, [Next]_vars PROVE TypeOK'
  OBVIOUS
<1>0. UNCHANGED mode
  BY DEF Next, Running, vars
<1> USE <1>0 DEF TypeOK, HandlerPC, chanVars, acctVars, acceptVars, flagVars, connVars
<1>1. CASE TimerTick BY <1>1, ServerAssumption DEF TimerTick
<1>2. CASE CounterStep
  <2>1. CASE CounterReceive BY <2>1 DEF CounterReceive
  <2>2. CASE CounterDec BY <2>2 DEF CounterDec
  <2>3. CASE CounterClosed BY <2>3 DEF CounterClosed
  <2> QED BY <1>2, <2>1, <2>2, <2>3 DEF CounterStep
<1>3. CASE AcceptStep
  <2>1. CASE AcceptInit BY <2>1 DEF AcceptInit
  <2>2. CASE AcceptAdd BY <2>2 DEF AcceptAdd
  <2>3. CASE AcceptCheck
    <3>1. cur \in Conn
      BY <2>3 DEF AcceptCheck, CurInv
    <3>2. /\ hpc' \in [Conn -> HandlerPC] /\ todo' \in [Conn -> 0 .. 4] /\ tries' \in [Conn -> Nat]
      BY <2>3, <3>1 DEF AcceptCheck, Spawn, Opening
    <3>3. /\ busy' \in [Conn -> BOOLEAN] /\ rejected' \in [Conn -> BOOLEAN]
          /\ again' \in [Conn -> BOOLEAN] /\ keepalive' \in [Conn -> BOOLEAN]
      <4>1. (count > MaxConn) \in BOOLEAN
        OBVIOUS
      <4> QED BY <2>3, <3>1, <4>1, Zenon DEF AcceptCheck, Spawn
    <3> QED BY <2>3, <3>2, <3>3 DEF AcceptCheck
  <2> QED BY <1>3, <2>1, <2>2, <2>3 DEF AcceptStep
<1>4. CASE AcceptError BY <1>4 DEF AcceptError
<1>5. CASE MainPoll BY <1>5 DEF MainPoll
<1>6. CASE MainReturn BY <1>6 DEF MainReturn
<1>7. ASSUME NEW c \in Conn, Accept(c) PROVE TypeOK'
  BY <1>7 DEF Accept
<1>8. ASSUME NEW c \in Conn, HandlerStep(c) PROVE TypeOK'
  <2> USE DEF Decide
  <2>1. CASE HandlerSend(c) BY <2>1 DEF HandlerSend
  <2>2. CASE HandlerRead(c)
    <3>1. \E pc \in HandlerPC : Decide(c, "read", pc, 2)
      BY <2>2 DEF HandlerRead
    <3>2. tries' \in [Conn -> Nat]
      BY <2>2 DEF HandlerRead
    <3> HIDE DEF Decide
    <3> QED BY <2>2, <3>1, <3>2, DecideType DEF HandlerRead
  <2>3. CASE HandlerParsed(c) BY <2>3 DEF HandlerParsed
  <2>4. CASE HandlerReject(c) BY <2>4 DEF HandlerReject
  <2>5. CASE HandlerMore(c) BY <2>5 DEF HandlerMore
  <2>6. CASE HandlerSpin(c) BY <2>6 DEF HandlerSpin
  <2>7. CASE HandlerAnswer(c) BY <2>7 DEF HandlerAnswer
  <2>8. CASE HandlerHeader(c)
    <3>1. keepalive' \in [Conn -> BOOLEAN]
      <4>1. (mode = "keepalive" /\ ~busy[c] /\ ~rejected[c]) \in BOOLEAN
        OBVIOUS
      <4> QED BY <2>8, <4>1, Zenon DEF HandlerHeader
    <3>2. \E pc \in HandlerPC, n \in 0 .. 4 : Decide(c, "header", pc, n)
      BY <2>8 DEF HandlerHeader
    <3> HIDE DEF Decide
    <3> QED BY <2>8, <3>1, <3>2, DecideType DEF HandlerHeader
  <2>9. CASE HandlerNoResponse(c) BY <2>9 DEF HandlerNoResponse
  <2>10. CASE HandlerBody(c)
    <3>1. \E n \in 0 .. 4 : Decide(c, "body", "finish", n)
      BY <2>10 DEF HandlerBody
    <3> HIDE DEF Decide
    <3> QED BY <2>10, <3>1, DecideType DEF HandlerBody
  <2>11. CASE HandlerFinish(c)
    <3>1. CASE keepalive[c] /\ ~busy[c] /\ ~rejected[c]
      <4>1. Decide(c, "finish", "read", Opening) /\ Opening \in 0 .. 4
        BY <2>11, <3>1 DEF HandlerFinish, Opening
      <4> HIDE DEF Decide
      <4>2. tries' \in [Conn -> Nat]
        BY <2>11, <3>1, SMTT(60) DEF HandlerFinish
      <4>3. again' \in [Conn -> BOOLEAN] /\ keepalive' \in [Conn -> BOOLEAN]
        BY <2>11, <3>1 DEF HandlerFinish
      <4> QED BY <2>11, <3>1, <4>1, <4>2, <4>3, DecideType DEF HandlerFinish
    <3>2. CASE ~(keepalive[c] /\ ~busy[c] /\ ~rejected[c])
      BY <2>11, <3>2 DEF HandlerFinish
    <3> QED BY <3>1, <3>2
  <2>12. CASE HandlerDrain(c)
    <3>1. \E pc \in HandlerPC, n \in 0 .. 4 : Decide(c, "drain", pc, n)
      BY <2>12 DEF HandlerDrain
    <3> HIDE DEF Decide
    <3> QED BY <2>12, <3>1, DecideType DEF HandlerDrain
  <2>13. CASE HandlerLeave(c) BY <2>13 DEF HandlerLeave
  <2>14. CASE HandlerClose(c) BY <2>14 DEF HandlerClose
  <2>15. CASE HandlerDestroy(c) BY <2>15 DEF HandlerDestroy
  <2> QED BY <1>8, <2>1, <2>2, <2>3, <2>4, <2>5, <2>6, <2>7, <2>8, <2>9, <2>10, <2>11,
          <2>12, <2>13, <2>14, <2>15 DEF HandlerStep
<1>9. CASE UNCHANGED vars BY <1>9 DEF vars
<1> QED BY <1>1, <1>2, <1>3, <1>4, <1>5, <1>6, <1>7, <1>8, <1>9 DEF Next

\* A step inside a handler changes none of the sets that are counted.
LEMMA InnerSame ==
  ASSUME TypeOK, UNCHANGED mode, NEW c \in Conn, Inner(c)
  PROVE  /\ Active' = Active /\ Served' = Served /\ Leaked' = Leaked /\ Gone' = Gone
         /\ OpenInv /\ LeakInv => OpenInv' /\ LeakInv'
         /\ UNCHANGED <<acctVars, acceptVars>>
<1>1. /\ hpc \in [Conn -> HandlerPC] /\ events \in Seq(Event) /\ open \subseteq Conn
  BY DEF TypeOK, Event
<1>2. /\ busy' = busy /\ open' = open /\ cur' = cur /\ UNCHANGED <<acctVars, acceptVars>>
      /\ events' \in {events, Append(events, "state")}
  BY InnerStep DEF acceptVars
<1>3. \A d \in Conn : (hpc'[d] = "free" <=> hpc[d] = "free") /\ (hpc'[d] = "destroy" <=> hpc[d] = "destroy")
  BY <1>1, InnerStep
<1>4. Active' = Active /\ Served' = Served
  BY <1>2, <1>3 DEF Active, Served
<1>5. Leaked' = Leaked
  BY <1>1, <1>2, <1>3 DEF Leaked
<1>6. Gone' = Gone
  BY <1>1, <1>2, GoneAppend DEF Gone
<1>7. OpenInv => OpenInv'
  BY <1>2, <1>3 DEF OpenInv
<1>8. LeakInv => LeakInv'
  BY <1>1, <1>5, InnerStep DEF LeakInv
<1> QED BY <1>2, <1>4, <1>5, <1>6, <1>7, <1>8

\* The invariant survives a step that leaves the connections alone and keeps
\* the balance of the counter.
LEMMA QuietStep ==
  ASSUME IndInv, TypeOK', UNCHANGED <<mode, hpc, busy, open, cur>>,
         accpc' \in {"init", "add", "check"} <=> accpc \in {"init", "add", "check"},
         count' - Cardinality(Gone') - One(counterpc' = "dec") - One(accpc' = "check")
            = count - Cardinality(Gone) - One(counterpc = "dec") - One(accpc = "check")
  PROVE  IndInv'
<1>1. Active' = Active /\ Served' = Served /\ Leaked' = Leaked /\ Owed' = Owed
  BY DEF Active, Served, Leaked, Owed
<1>2. CurInv' /\ OpenInv' /\ LeakInv' /\ ServedWithinMax'
  BY <1>1 DEF IndInv, CurInv, OpenInv, LeakInv, ServedWithinMax
<1>3. CountInv'
  <2>1. /\ Cardinality(Owed) \in Nat /\ Cardinality(Gone) \in Nat /\ Cardinality(Gone') \in Nat
        /\ count \in Int /\ count' \in Int
    BY SetsFinite, GoneFinite DEF IndInv, TypeOK, Gone, Event
  <2>2. /\ One(counterpc = "dec") \in Nat /\ One(counterpc' = "dec") \in Nat
        /\ One(accpc = "check") \in Nat /\ One(accpc' = "check") \in Nat
    BY DEF One
  <2>3. count = Cardinality(Owed) + Cardinality(Gone) + One(accpc = "check") + One(counterpc = "dec")
    BY DEF IndInv, CountInv
  <2>4. count' = Cardinality(Owed) + Cardinality(Gone') + One(accpc' = "check") + One(counterpc' = "dec")
    BY <2>1, <2>2, <2>3
  <2> QED BY <1>1, <2>4 DEF CountInv
<1> QED BY <1>2, <1>3 DEF IndInv

\* The initial state.
LEMMA IndInit == Init => IndInv
<1> SUFFICES ASSUME Init PROVE IndInv
  OBVIOUS
<1>1. TypeOK
  BY ServerAssumption DEF Init, TypeOK, HandlerPC
<1>2. Active = {} /\ Served = {} /\ Leaked = {} /\ Owed = {} /\ Gone = {}
  BY DEF Init, Active, Served, Leaked, Owed, Gone, GoneIn
<1>3. CountInv /\ ServedWithinMax
  BY <1>2, FS_EmptySet, ServerAssumption DEF Init, CountInv, ServedWithinMax, One
<1>4. CurInv /\ OpenInv /\ LeakInv
  BY <1>2 DEF Init, CurInv, OpenInv, LeakInv
<1> QED BY <1>1, <1>3, <1>4 DEF IndInv

\* The steps of the timer, the counter, main and the accept loop without a
\* connection changing hands.
LEMMA LoopStep ==
  ASSUME IndInv, TypeOK', UNCHANGED mode,
         TimerTick \/ CounterStep \/ AcceptInit \/ AcceptAdd \/ AcceptError \/ MainPoll \/ MainReturn
  PROVE  IndInv'
<1>0. /\ events \in Seq(Event) /\ count \in Int /\ Cardinality(Gone) \in Nat
  BY GoneFinite DEF IndInv, TypeOK, Event, Gone
<1> USE DEF chanVars, acctVars, acceptVars, connVars, flagVars
<1>1. CASE TimerTick
  <2>1. Gone' = Gone
    BY <1>0, <1>1, GoneAppend DEF TimerTick, Gone
  <2> QED BY <1>1, <2>1, QuietStep DEF TimerTick
<1>2. CASE CounterStep
  <2>1. CASE CounterReceive
    <3>1. Cardinality(Gone') = Cardinality(Gone) - One(Head(events) = "destroyed")
      BY <1>0, <2>1, GoneTail DEF CounterReceive, Gone
    <3>2. One(counterpc' = "dec") = One(Head(events) = "destroyed") /\ One(counterpc = "dec") = 0
      BY <2>1 DEF CounterReceive, One
    <3>3. UNCHANGED <<hpc, busy, open, cur, accpc, count>>
      BY <2>1 DEF CounterReceive
    <3>4. One(Head(events) = "destroyed") \in Nat /\ One(accpc = "check") \in Nat
      BY DEF One
    <3>5. count' - Cardinality(Gone') - One(counterpc' = "dec") - One(accpc' = "check")
            = count - Cardinality(Gone) - One(counterpc = "dec") - One(accpc = "check")
      BY <1>0, <3>1, <3>2, <3>3, <3>4
    <3> QED BY <3>3, <3>5, QuietStep
  <2>2. CASE CounterDec
    <3>1. UNCHANGED <<hpc, busy, open, cur, accpc, events>> /\ Gone' = Gone
      BY <2>2 DEF CounterDec, Gone
    <3>2. count' = count - 1 /\ One(counterpc = "dec") = 1 /\ One(counterpc' = "dec") = 0
          /\ One(accpc = "check") \in Nat
      BY <2>2 DEF CounterDec, One
    <3>3. count' - Cardinality(Gone') - One(counterpc' = "dec") - One(accpc' = "check")
            = count - Cardinality(Gone) - One(counterpc = "dec") - One(accpc = "check")
      BY <1>0, <3>1, <3>2
    <3> QED BY <3>1, <3>3, QuietStep
  <2>3. CASE CounterClosed
    <3>1. Gone' = Gone
      BY <1>0, <2>3, GoneAppend DEF CounterClosed, Gone
    <3>2. One(counterpc = "dec") = 0 /\ One(counterpc' = "dec") = 0
      BY <2>3 DEF CounterClosed, One
    <3> QED BY <2>3, <3>1, <3>2, QuietStep DEF CounterClosed
  <2> QED BY <1>2, <2>1, <2>2, <2>3 DEF CounterStep
<1>3. CASE AcceptInit
  <2>1. Gone' = Gone
    BY <1>0, <1>3, GoneAppend DEF AcceptInit, Gone
  <2>2. One(accpc = "check") = 0 /\ One(accpc' = "check") = 0
    BY <1>3 DEF AcceptInit, One
  <2> QED BY <1>3, <2>1, <2>2, QuietStep DEF AcceptInit
<1>4. CASE AcceptAdd
  <2>1. UNCHANGED <<hpc, busy, open, cur, counterpc, events>> /\ Gone' = Gone
    BY <1>4 DEF AcceptAdd, Gone
  <2>2. count' = count + 1 /\ One(accpc = "check") = 0 /\ One(accpc' = "check") = 1
        /\ One(counterpc = "dec") \in Nat
    BY <1>4 DEF AcceptAdd, One
  <2>3. count' - Cardinality(Gone') - One(counterpc' = "dec") - One(accpc' = "check")
            = count - Cardinality(Gone) - One(counterpc = "dec") - One(accpc = "check")
    BY <1>0, <2>1, <2>2
  <2> QED BY <1>4, <2>1, <2>3, QuietStep DEF AcceptAdd
<1>5. CASE AcceptError \/ MainPoll \/ MainReturn
  <2>1. UNCHANGED <<hpc, busy, open, cur, count, counterpc, events>> /\ Gone' = Gone
    BY <1>5 DEF AcceptError, MainPoll, MainReturn, Gone
  <2>2. accpc' = accpc \/ {accpc, accpc'} \subseteq {"accept", "quit", "done"}
    BY <1>5 DEF AcceptError, MainPoll, MainReturn
  <2>3. One(accpc' = "check") = One(accpc = "check")
    BY <2>2 DEF One
  <2> QED BY <2>1, <2>2, <2>3, QuietStep
<1> QED BY <1>1, <1>2, <1>3, <1>4, <1>5

\* A new connection in the hands of the accept loop is not counted yet.
LEMMA AcceptKeeps ==
  ASSUME IndInv, TypeOK', UNCHANGED mode, NEW c \in Conn, Accept(c)
  PROVE  IndInv'
<1> USE DEF chanVars, acctVars, acceptVars, connVars, flagVars
<1>1. /\ cur = None /\ cur' = c /\ open' = open \cup {c} /\ hpc[c] = "free" /\ c \notin open
      /\ UNCHANGED <<hpc, busy, count, counterpc, events>> /\ c # None
  BY ServerAssumption DEF IndInv, CurInv, Accept
<1>2. Active' = Active /\ Served' = Served /\ Gone' = Gone
  BY <1>1 DEF Active, Served, Gone
<1>3. Leaked' = Leaked
  BY <1>1, ServerAssumption DEF Leaked, IndInv, TypeOK
<1>4. One(accpc = "check") = 0 /\ One(accpc' = "check") = 0
  BY DEF Accept, One
<1>5. CurInv' /\ OpenInv' /\ LeakInv'
  BY <1>1, <1>3 DEF IndInv, CurInv, OpenInv, LeakInv, Accept
<1>6. CountInv' /\ ServedWithinMax'
  BY <1>1, <1>2, <1>3, <1>4 DEF IndInv, CountInv, ServedWithinMax, Owed
<1> QED BY <1>5, <1>6 DEF IndInv

\* The limit: a connection is served only if the counter, which covers every
\* active connection and the new one, is within it.
LEMMA CheckKeeps ==
  ASSUME IndInv, TypeOK', UNCHANGED mode, AcceptCheck
  PROVE  IndInv'
<1> USE DEF chanVars, acctVars, acceptVars, connVars, flagVars
<1>1. /\ cur \in Conn /\ cur \in open /\ hpc[cur] = "free" /\ cur' = None /\ None \notin Conn
      /\ UNCHANGED <<open, count, counterpc, events>>
      /\ accpc = "check" /\ accpc' = "accept"
  BY ServerAssumption DEF IndInv, CurInv, TypeOK, AcceptCheck
<1>2. /\ hpc \in [Conn -> HandlerPC] /\ busy \in [Conn -> BOOLEAN] /\ open \subseteq Conn
      /\ hpc' = [hpc EXCEPT ![cur] = "read"] /\ busy' = [busy EXCEPT ![cur] = count > MaxConn]
  BY DEF IndInv, TypeOK, AcceptCheck, Spawn
<1>3. Active' = Active \cup {cur} /\ cur \notin Active
  BY <1>1, <1>2 DEF Active
<1>4. Leaked' = Leaked /\ cur \notin Leaked
  BY <1>1, <1>2 DEF Leaked
<1>5. Owed' = Owed \cup {cur} /\ cur \notin Owed
  BY <1>3, <1>4 DEF Owed
<1>6. /\ count > MaxConn => Served' \subseteq Served
      /\ Served' \subseteq Served \cup {cur}
  <2>1. \A c \in Served' : c \in Active \cup {cur} /\ c \in Conn /\ ~busy'[c]
    BY <1>1, <1>3 DEF Served, Active
  <2>2. \A c \in Conn : c # cur => busy'[c] = busy[c]
    BY <1>2
  <2>3. count > MaxConn => busy'[cur]
    BY <1>1, <1>2
  <2> QED BY <2>1, <2>2, <2>3 DEF Served
<1>7. /\ Cardinality(Owed) \in Nat /\ Cardinality(Gone) \in Nat /\ count \in Int /\ MaxConn \in Nat
      /\ IsFiniteSet(Owed) /\ IsFiniteSet(Served) /\ Cardinality(Served) \in Nat
      /\ Cardinality(Served) <= Cardinality(Owed)
  BY SetsFinite, GoneFinite, ServerAssumption DEF IndInv, TypeOK, Gone, Event
<1>8. /\ One(accpc = "check") = 1 /\ One(accpc' = "check") = 0 /\ One(counterpc = "dec") \in Nat
      /\ Gone' = Gone
  BY <1>1 DEF One, Gone
<1>9. count = Cardinality(Owed) + Cardinality(Gone) + 1 + One(counterpc = "dec")
  BY <1>8 DEF IndInv, CountInv
<1>10. CountInv'
  <2>1. Cardinality(Owed') = Cardinality(Owed) + 1
    BY <1>5, <1>7, FS_AddElement
  <2> QED BY <1>1, <1>7, <1>8, <1>9, <2>1 DEF CountInv
<1>11. ServedWithinMax'
  <2>1. CASE count > MaxConn
    <3>1. Cardinality(Served') <= Cardinality(Served) /\ Cardinality(Served') \in Nat
      BY <1>6, <1>7, <2>1, FS_Subset, FS_CardinalityType
    <3> QED BY <1>7, <3>1 DEF IndInv, ServedWithinMax
  <2>2. CASE ~(count > MaxConn)
    <3>1. IsFiniteSet(Served \cup {cur}) /\ Cardinality(Served \cup {cur}) <= Cardinality(Served) + 1
      <4>1. /\ IsFiniteSet(Served \cup {cur})
            /\ Cardinality(Served \cup {cur}) = IF cur \in Served THEN Cardinality(Served) ELSE Cardinality(Served) + 1
        BY <1>7, FS_AddElement
      <4> QED BY <1>7, <4>1
    <3>2. Cardinality(Served') <= Cardinality(Served \cup {cur}) /\ Cardinality(Served') \in Nat
      BY <1>6, <3>1, FS_Subset, FS_CardinalityType
    <3>3. Cardinality(Served \cup {cur}) \in Nat
      BY <3>1, FS_CardinalityType
    <3>4. Cardinality(Owed) + 1 <= MaxConn
      BY <1>7, <1>8, <1>9, <2>2
    <3> QED BY <1>7, <3>1, <3>2, <3>3, <3>4 DEF ServedWithinMax
  <2> QED BY <2>1, <2>2
<1>12. CurInv' /\ OpenInv' /\ LeakInv'
  BY <1>1, <1>2, <1>4 DEF IndInv, CurInv, OpenInv, LeakInv
<1> QED BY <1>10, <1>11, <1>12 DEF IndInv

\* The last steps of a handler: a connection leaves the count only with an
\* announcement on its way, or stays in it for ever (mode readlonly).
LEMMA LastKeeps ==
  ASSUME IndInv, TypeOK', UNCHANGED mode, NEW c \in Conn, HandlerLeave(c) \/ HandlerClose(c) \/ HandlerDestroy(c)
  PROVE  IndInv'
<1> USE DEF chanVars, acctVars, acceptVars, connVars, flagVars
<1>0. /\ hpc \in [Conn -> HandlerPC] /\ open \subseteq Conn /\ events \in Seq(Event)
      /\ None \notin Conn /\ cur \in Conn \cup {None} /\ count \in Int
      /\ Cardinality(Owed) \in Nat /\ Cardinality(Gone) \in Nat /\ IsFiniteSet(Owed)
      /\ IsFiniteSet(Served) /\ Cardinality(Served) \in Nat /\ MaxConn \in Nat
  BY SetsFinite, GoneFinite, ServerAssumption DEF IndInv, TypeOK, Event, Gone
<1>1. /\ hpc[c] # "free" /\ c # cur /\ (c \in open <=> hpc[c] # "destroy")
      /\ UNCHANGED <<accpc, cur, count, counterpc, busy>>
  BY <1>0 DEF HandlerLeave, HandlerClose, HandlerDestroy, Decide, IndInv, CurInv, OpenInv
<1>2. Served' \subseteq Served
  BY <1>0, <1>1 DEF Served, Active, HandlerLeave, HandlerClose, HandlerDestroy, Decide
<1>3. ServedWithinMax'
  <2>1. Cardinality(Served') <= Cardinality(Served) /\ Cardinality(Served') \in Nat
    BY <1>0, <1>2, FS_Subset, FS_CardinalityType
  <2> QED BY <1>0, <2>1 DEF IndInv, ServedWithinMax
<1>4. CASE HandlerLeave(c)
  <2>1. hpc[c] = "leave" /\ hpc' = [hpc EXCEPT ![c] = "free"] /\ UNCHANGED <<open, events>>
    BY <1>4 DEF HandlerLeave, Decide
  <2>2. Active' = Active \ {c} /\ Leaked' = Leaked \cup {c} /\ c \in Active
    BY <1>0, <1>1, <2>1 DEF Active, Leaked
  <2>3. Owed' = Owed /\ Gone' = Gone
    BY <2>1, <2>2 DEF Owed, Gone
  <2>4. CountInv'
    BY <1>1, <2>3 DEF IndInv, CountInv
  <2>5. CurInv' /\ OpenInv' /\ LeakInv'
    BY <1>0, <1>1, <2>1 DEF IndInv, CurInv, OpenInv, LeakInv
  <2> QED BY <1>3, <2>4, <2>5 DEF IndInv
<1>5. CASE HandlerClose(c)
  <2>1. hpc[c] = "close" /\ hpc' = [hpc EXCEPT ![c] = "destroy"] /\ open' = open \ {c} /\ UNCHANGED events
    BY <1>5 DEF HandlerClose
  <2>2. Active' = Active /\ Leaked' = Leaked
    BY <1>0, <1>1, <2>1 DEF Active, Leaked
  <2>3. Owed' = Owed /\ Gone' = Gone
    BY <2>1, <2>2 DEF Owed, Gone
  <2>4. CountInv'
    BY <1>1, <2>3 DEF IndInv, CountInv
  <2>5. CurInv' /\ OpenInv'
    BY <1>0, <1>1, <2>1 DEF IndInv, CurInv, OpenInv
  <2>6. LeakInv'
    BY <1>0, <2>1, <2>2 DEF IndInv, LeakInv
  <2> QED BY <1>3, <2>4, <2>5, <2>6 DEF IndInv
<1>6. CASE HandlerDestroy(c)
  <2>1. /\ hpc[c] = "destroy" /\ hpc' = [hpc EXCEPT ![c] = "free"] /\ UNCHANGED open
        /\ events' = Append(events, "destroyed")
    BY <1>6 DEF HandlerDestroy
  <2>2. Active' = Active \ {c} /\ Leaked' = Leaked /\ c \in Active /\ c \notin Leaked
    BY <1>0, <1>1, <2>1 DEF Active, Leaked
  <2>3. Owed' = Owed \ {c} /\ c \in Owed
    BY <2>2 DEF Owed
  <2>4. Cardinality(Owed') = Cardinality(Owed) - 1
    BY <1>0, <2>3, FS_RemoveElement
  <2>5. Cardinality(Gone') = Cardinality(Gone) + 1
    BY <1>0, <2>1, GoneAppend DEF Gone
  <2>6. CountInv'
    <3>1. One(accpc = "check") \in Nat /\ One(counterpc = "dec") \in Nat
      BY DEF One
    <3> QED BY <1>0, <1>1, <2>4, <2>5, <3>1 DEF IndInv, CountInv
  <2>7. CurInv' /\ OpenInv'
    BY <1>0, <1>1, <2>1 DEF IndInv, CurInv, OpenInv
  <2>8. LeakInv'
    BY <1>0, <2>1, <2>2 DEF IndInv, LeakInv
  <2> QED BY <1>3, <2>6, <2>7, <2>8 DEF IndInv
<1> QED BY <1>4, <1>5, <1>6

\* The inductive step.
LEMMA IndStep == IndInv /\ [Next]_vars => IndInv'
<1> SUFFICES ASSUME IndInv, [Next]_vars PROVE IndInv'
  OBVIOUS
<1>0. UNCHANGED mode
  BY DEF Next, Running, vars
<1>1. TypeOK'
  BY TypeStep DEF IndInv
<1> USE <1>0
<1>2. ASSUME NEW c \in Conn, Inner(c) PROVE IndInv'
  <2>1. /\ Active' = Active /\ Served' = Served /\ Leaked' = Leaked /\ Gone' = Gone
        /\ OpenInv' /\ LeakInv' /\ UNCHANGED <<acctVars, acceptVars>>
    BY <1>2, InnerSame DEF IndInv
  <2>2. CountInv' /\ ServedWithinMax'
    BY <2>1 DEF IndInv, CountInv, ServedWithinMax, Owed, acctVars, acceptVars
  <2>3. CurInv'
    <3>1. UNCHANGED <<cur, accpc, open>> /\ \A d \in Conn : hpc[d] = "free" => hpc'[d] = "free"
      BY <1>2, <2>1, InnerStep DEF IndInv, Active, acceptVars
    <3> QED BY <3>1 DEF IndInv, TypeOK, CurInv
  <2> QED BY <1>1, <2>1, <2>2, <2>3 DEF IndInv
<1>3. ASSUME NEW c \in Conn, Accept(c) \/ HandlerStep(c) PROVE IndInv'
  <2>1. Accept(c) \/ Inner(c) \/ HandlerLeave(c) \/ HandlerClose(c) \/ HandlerDestroy(c)
    BY <1>3 DEF HandlerStep, Inner
  <2> QED BY <1>1, <1>2, <2>1, AcceptKeeps, LastKeeps
<1>4. CASE UNCHANGED vars
  <2>1. UNCHANGED <<hpc, busy, open, cur, accpc, count, counterpc, Gone>>
    BY <1>4 DEF vars, chanVars, acctVars, acceptVars, connVars, flagVars, Gone
  <2> QED BY <1>1, <2>1, QuietStep
<1>5. CASE TimerTick \/ CounterStep \/ AcceptStep \/ AcceptError \/ MainPoll \/ MainReturn
  BY <1>1, <1>5, LoopStep, CheckKeeps DEF AcceptStep
<1> QED BY <1>3, <1>4, <1>5 DEF Next

\* The accounting of the server is right in every reachable state: the counter
\* covers every connection that is active or leaked and every announcement on
\* its way, and the limit holds.
THEOREM Invariance == Spec => []IndInv
BY IndInit, IndStep, PTL DEF Spec

\* Never more than srv_cfg_max_connections connections are served, in any mode.
THEOREM LimitCorrect == Spec => []ServedWithinMax
<1>1. IndInv => ServedWithinMax
  BY DEF IndInv
<1> QED BY <1>1, Invariance, PTL

\* But for mode readlonly no socket is leaked and "connections running" is
\* exact.
THEOREM CounterCorrect == Spec => [](NoneLeaked /\ CounterExact)
<1>1. IndInv => NoneLeaked /\ CounterExact
  <2> SUFFICES ASSUME IndInv, mode # "readlonly" PROVE Leaked = {} /\ CounterExact
    BY DEF NoneLeaked, CounterExact
  <2>1. Leaked = {}
    BY DEF IndInv, LeakInv
  <2>2. Owed = Active
    BY <2>1 DEF Owed
  <2> QED BY <2>1, <2>2 DEF CounterExact, IndInv, CountInv
<1> QED BY <1>1, Invariance, PTL

\* The server implements the abstract gate: the start of a handler that is not
\* busy is Enter, its return is Leave.
THEOREM ServerImplementsGate == Spec => GateSpec
<1> USE DEF chanVars, acctVars, acceptVars, connVars, flagVars
<1>1. Init => Gate!Init
  <2> SUFFICES ASSUME Init PROVE Served = {}
    BY FS_EmptySet DEF Gate!Init
  <2> QED BY DEF Init, Served, Active
<1>2. IndInv /\ [Next]_vars => [Gate!Next]_<<Cardinality(Served), "open">>
  <2> SUFFICES ASSUME IndInv, [Next]_vars, Cardinality(Served') # Cardinality(Served)
               PROVE  Gate!Next
    OBVIOUS
  <2>0. /\ hpc \in [Conn -> HandlerPC] /\ busy \in [Conn -> BOOLEAN] /\ MaxConn \in Nat
        /\ IsFiniteSet(Served) /\ Cardinality(Served) \in Nat /\ TypeOK
    BY SetsFinite, ServerAssumption DEF IndInv, TypeOK
  <2>1. ASSUME UNCHANGED <<hpc, busy>> PROVE FALSE
    BY <2>1 DEF Served, Active
  <2>2. ~UNCHANGED vars /\ ~TimerTick /\ ~AcceptInit /\ ~AcceptAdd /\ ~AcceptError /\ ~MainPoll /\ ~MainReturn
    BY <2>1 DEF vars, TimerTick, AcceptInit, AcceptAdd, AcceptError, MainPoll, MainReturn
  <2>3. ~CounterStep
    BY <2>1 DEF CounterStep, CounterReceive, CounterDec, CounterClosed
  <2>4. CASE AcceptCheck
    <3>1. /\ cur \in Conn /\ hpc[cur] = "free"
          /\ hpc' = [hpc EXCEPT ![cur] = "read"] /\ busy' = [busy EXCEPT ![cur] = count > MaxConn]
      BY <2>4 DEF IndInv, CurInv, TypeOK, AcceptCheck, Spawn
    <3>2. \A c \in Conn : c # cur => busy'[c] = busy[c] /\ hpc'[c] = hpc[c]
      BY <2>0, <3>1
    <3>3. Served' = Served \/ Served' = Served \cup {cur}
      BY <2>0, <3>1, <3>2 DEF Served, Active
    <3>4. Served' = Served \cup {cur} /\ cur \notin Served
      BY <3>1, <3>3 DEF Served, Active
    <3>5. Cardinality(Served') = Cardinality(Served) + 1
      BY <2>0, <3>4, FS_AddElement
    <3>6. Cardinality(Served') <= MaxConn
      BY IndStep DEF IndInv, ServedWithinMax
    <3> QED BY <2>0, <3>5, <3>6 DEF Gate!Next, Gate!Enter
  <2>5. ASSUME NEW c \in Conn, Accept(c) \/ HandlerStep(c) PROVE Gate!Next
    <3>1. ~Accept(c)
      BY <2>1 DEF Accept
    <3>2. ~Inner(c)
      BY <2>0, InnerSame DEF Next, Running, vars
    <3>3. HandlerLeave(c) \/ HandlerClose(c) \/ HandlerDestroy(c)
      BY <2>5, <3>1, <3>2 DEF HandlerStep, Inner
    <3>4. /\ hpc[c] # "free" /\ busy' = busy
          /\ hpc' = [hpc EXCEPT ![c] = "free"] \/ hpc' = [hpc EXCEPT ![c] = "destroy"]
      BY <3>3 DEF HandlerLeave, HandlerClose, HandlerDestroy, Decide
    <3>5. Served' = Served \/ Served' = Served \ {c}
      BY <2>0, <3>4 DEF Served, Active
    <3>6. Served' = Served \ {c} /\ c \in Served
      BY <3>5
    <3>7. Cardinality(Served') = Cardinality(Served) - 1 /\ Cardinality(Served) > 0
      BY <2>0, <3>6, FS_RemoveElement, FS_EmptySet
    <3> QED BY <3>7 DEF Gate!Next, Gate!Leave
  <2> QED BY <2>2, <2>3, <2>4, <2>5 DEF Next, AcceptStep
<1> QED BY <1>1, <1>2, Invariance, PTL DEF Spec, GateSpec, Gate!Spec

\* The counter is stuck, and connection c has something left to announce.
StuckWith(c) == Stuck /\ (todo[c] > 0 \/ hpc[c] = "destroy")

\* Nobody empties the channel for the counter, or passes by it.
LEMMA StuckStep == ASSUME NEW c \in Conn PROVE IndInv /\ StuckWith(c) /\ [Next]_vars => StuckWith(c)' /\ count' >= count
<1> SUFFICES ASSUME IndInv, StuckWith(c), [Next]_vars PROVE StuckWith(c)' /\ count' >= count
  OBVIOUS
<1> USE DEF chanVars, acctVars, acceptVars, connVars, flagVars
<1>0. /\ counterpc = "closed" /\ ~Room /\ (todo[c] > 0 \/ hpc[c] = "destroy")
      /\ hpc \in [Conn -> HandlerPC] /\ todo \in [Conn -> 0 .. 4] /\ count \in Int
  BY DEF StuckWith, Stuck, IndInv, TypeOK
<1>1. ASSUME events' = events, counterpc' = counterpc, count' \in {count, count + 1},
             todo'[c] > 0 \/ hpc'[c] = "destroy"
      PROVE  StuckWith(c)' /\ count' >= count
  BY <1>0, <1>1 DEF StuckWith, Stuck, Room
<1>2. ~TimerTick /\ ~CounterStep /\ ~AcceptInit
  BY <1>0 DEF TimerTick, CounterStep, CounterReceive, CounterDec, CounterClosed, AcceptInit
<1>3. CASE AcceptAdd \/ AcceptError \/ MainPoll \/ MainReturn \/ UNCHANGED vars
  BY <1>0, <1>1, <1>3 DEF AcceptAdd, AcceptError, MainPoll, MainReturn, vars
<1>4. CASE AcceptCheck
  <2>1. /\ cur \in Conn /\ UNCHANGED <<events, counterpc, count>>
        /\ hpc' = [hpc EXCEPT ![cur] = "read"] /\ todo' = [todo EXCEPT ![cur] = Opening]
    BY <1>4 DEF AcceptCheck, Spawn, IndInv, CurInv, TypeOK
  <2>2. Opening > 0
    BY DEF Opening
  <2>3. todo'[c] > 0 \/ hpc'[c] = "destroy"
    BY <1>0, <2>1, <2>2
  <2> QED BY <1>1, <2>1, <2>3
<1>5. ASSUME NEW d \in Conn, Accept(d) PROVE StuckWith(c)' /\ count' >= count
  BY <1>0, <1>1, <1>5 DEF Accept
<1>6. ASSUME NEW d \in Conn, HandlerStep(d) PROVE StuckWith(c)' /\ count' >= count
  <2>1. ~HandlerSend(d) /\ ~HandlerDestroy(d)
    BY <1>0 DEF HandlerSend, HandlerDestroy
  <2>2. /\ hpc[d] # "destroy" /\ todo[d] = 0 /\ UNCHANGED <<events, counterpc, count>>
        /\ \E to \in HandlerPC, n \in 0 .. 4 : hpc' = [hpc EXCEPT ![d] = to] /\ todo' = [todo EXCEPT ![d] = n]
    <3>1. CASE HandlerClose(d)
      <4>1. todo' = [todo EXCEPT ![d] = 0]
        BY <1>0, <3>1 DEF HandlerClose
      <4>2. /\ hpc[d] = "close" /\ todo[d] = 0 /\ UNCHANGED <<events, counterpc, count>>
            /\ hpc' = [hpc EXCEPT ![d] = "destroy"]
        BY <3>1 DEF HandlerClose
      <4>3. "destroy" \in HandlerPC /\ 0 \in 0 .. 4
        BY DEF HandlerPC
      <4> QED BY <4>1, <4>2, <4>3, Zenon
    <3>2. ASSUME NEW from \in HandlerPC \ {"destroy"}, NEW to \in HandlerPC, NEW n \in 0 .. 4, Decide(d, from, to, n)
          PROVE  /\ hpc[d] # "destroy" /\ todo[d] = 0 /\ UNCHANGED <<events, counterpc, count>>
                 /\ \E t \in HandlerPC, m \in 0 .. 4 : hpc' = [hpc EXCEPT ![d] = t] /\ todo' = [todo EXCEPT ![d] = m]
      BY <3>2 DEF Decide
    <3>3. ~HandlerClose(d) => \E from \in HandlerPC \ {"destroy"}, to \in HandlerPC, n \in 0 .. 4 : Decide(d, from, to, n)
      BY <1>6, <2>1 DEF HandlerStep, HandlerRead, HandlerParsed, HandlerReject, HandlerMore, HandlerSpin, HandlerAnswer,
         HandlerHeader, HandlerNoResponse, HandlerBody, HandlerFinish, HandlerDrain, HandlerLeave, HandlerPC, Opening
    <3> QED BY <3>1, <3>2, <3>3
  <2>3. d # c
    BY <1>0, <2>2
  <2>4. todo'[c] > 0 \/ hpc'[c] = "destroy"
    BY <1>0, <2>2, <2>3
  <2> QED BY <1>1, <2>2, <2>4
<1> QED BY <1>2, <1>3, <1>4, <1>5, <1>6 DEF Next, AcceptStep

\* When the counter waits for room in the channel that it alone empties, it
\* waits for ever, no handler that has anything left to announce, the end of
\* its connection included, gets on with it, and the count of connections is
\* never lowered again: what EndsUnlessStuck excepts is no passing state, for
\* any limit, channel size and mode.
THEOREM StuckForGood ==
  ASSUME NEW c \in Conn
  PROVE  Spec => [](StuckWith(c) => []StuckWith(c)) /\ [][StuckWith(c) => count' >= count]_vars
<1>1. IndInv /\ StuckWith(c) /\ [Next]_vars => StuckWith(c)'
  BY StuckStep
<1>2. IndInv /\ [Next]_vars => [StuckWith(c) => count' >= count]_vars
  BY StuckStep
<1> QED BY <1>1, <1>2, Invariance, PTL DEF Spec
============================================================================
