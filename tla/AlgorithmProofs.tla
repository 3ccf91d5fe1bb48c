-------------------------- MODULE AlgorithmProofs ---------------------------
(***************************************************************************)
(* Proofs about the sequential parts that MCAlgorithms checks: the local   *)
(* addresses of tcpengine's client (HostList), its rate control (QpsCtl),  *)
(* reader and writer of qps-http-app-server (HttpRead, HttpWrite) and the  *)
(* header of fasthttpserver (FastHttpParse).                               *)
(***************************************************************************)
EXTENDS MCAlgorithms, CountingLemmas, SequenceTheorems, TLAPS

(***************************************************************************)
(* HostList.  The map is the union of what the entries read so far add.    *)
(***************************************************************************)
ListInv ==
    /\ todo \in Seq(Entry) /\ done \in Seq(Entry)
    /\ maxConcurrent \in Nat /\ IsFiniteSet(iplist)
    /\ iplist = IF hostport THEN {} ELSE UNION {Hosts(e) : e \in Read}
    /\ portlist = IF hostport THEN UNION {HostPorts(e) : e \in Read} ELSE {}

\* The ends of a range are numbers.
LEMMA NumbersOf ==
  ASSUME NEW e \in Entry, IsRange(e)
  PROVE  e.last \in Nat /\ e.to \in Nat
<1>1. e.last \in Last \cup {None} /\ e.to \in Last \cup {None, Junk}
  BY DEF Entry, Fields
<1> QED BY <1>1, SizeAssumption DEF IsRange

\* An entry adds finitely many hosts.
LEMMA HostsFinite ==
  ASSUME NEW e \in Entry PROVE IsFiniteSet(Hosts(e))
<1> DEFINE I == IF e.last # None /\ e.to \notin {None, Junk} THEN Counted(e.last, e.to) ELSE {}
<1>1. IsFiniteSet(I)
  <2>1. CASE e.last # None /\ e.to \notin {None, Junk}
    <3>1. e.last \in Int /\ e.to \in Int /\ e.last + 1 \in Int /\ e.to + 1 \in Int
      BY <2>1, NumbersOf DEF IsRange
    <3>2. IsFiniteSet((e.last + 1) .. e.to)
      <4> DEFINE a == e.last + 1
                 b == e.to
      <4>1. a \in Int /\ b \in Int
        BY <3>1
      <4> HIDE DEF a, b
      <4>2. IsFiniteSet(a .. b)
        BY <4>1, FS_Interval
      <4> QED BY <4>2 DEF a, b
    <3>3. IsFiniteSet((e.to + 1) .. e.last)
      <4> DEFINE a == e.to + 1
                 b == e.last
      <4>1. a \in Int /\ b \in Int
        BY <3>1
      <4> HIDE DEF a, b
      <4>2. IsFiniteSet(a .. b)
        BY <4>1, FS_Interval
      <4> QED BY <4>2 DEF a, b
    <3> QED BY <2>1, <3>2, <3>3 DEF Counted
  <2>2. CASE ~(e.last # None /\ e.to \notin {None, Junk})
    BY <2>2, FS_EmptySet
  <2> QED BY <2>1, <2>2
<1>2. Hosts(e) \subseteq {<<Scheme, None>>} \cup ({<<e.name, e.last>>} \cup ({e.name} \X I))
  BY DEF Hosts
<1> HIDE DEF I
<1>3. IsFiniteSet({e.name} \X I)
  BY <1>1, FS_Singleton, FS_Product
<1>4. IsFiniteSet({<<Scheme, None>>}) /\ IsFiniteSet({<<e.name, e.last>>})
  BY FS_Singleton
<1>5. IsFiniteSet({<<e.name, e.last>>} \cup ({e.name} \X I))
  BY <1>3, <1>4, FS_Union
<1>6. IsFiniteSet({<<Scheme, None>>} \cup ({<<e.name, e.last>>} \cup ({e.name} \X I)))
  BY <1>4, <1>5, FS_Union
<1> QED BY <1>2, <1>6, FS_Subset

\* addressParse leaves a plan that fits: a list that is too short has at least
\* the ports of one host, from which the reserve can be taken.
LEMMA PlanStep ==
  ASSUME ListInv, ParseAddrs
  PROVE  maxConcurrent' \in Nat /\ PlanFits'
<1>1. PICK resolved \in SUBSET iplist :
        LET all   == Cardinality(resolved) * PortsPerHost
            count == IF maxConcurrent > 0 /\ all > 2 * maxConcurrent
                     THEN 2 * maxConcurrent ELSE all
        IN /\ laddrCount' = count
           /\ maxConcurrent' = IF count = 0 THEN maxConcurrent ELSE Lowered(maxConcurrent, count)
  BY DEF ParseAddrs
<1> DEFINE r == Cardinality(resolved)
           all == r * PortsPerHost
           count == IF maxConcurrent > 0 /\ all > 2 * maxConcurrent THEN 2 * maxConcurrent ELSE all
<1>2. r \in Nat /\ maxConcurrent \in Nat
  BY FS_Subset, FS_CardinalityType DEF ListInv
<1>3. /\ laddrCount' = count
      /\ maxConcurrent' = IF count = 0 THEN maxConcurrent ELSE Lowered(maxConcurrent, count)
  BY <1>1
<1> HIDE DEF r
<1>4. all \in Nat /\ (all # 0 => all >= PortsPerHost)
  BY <1>2, SizeAssumption
<1> HIDE DEF all
<1>5. /\ count \in Nat
      /\ maxConcurrent > count => count = all
      /\ maxConcurrent # 0 => count <= 2 * maxConcurrent
  BY <1>2, <1>4
<1> HIDE DEF count
<1>6. CASE count = 0
  BY <1>2, <1>3, <1>6 DEF PlanFits
<1>7. CASE count # 0 /\ maxConcurrent > count
  <2>1. maxConcurrent' \in {count - Reserve, count}
    BY <1>3, <1>7 DEF Lowered
  <2>2. {PortsPerHost, Reserve} \subseteq Nat /\ 2 * Reserve <= PortsPerHost /\ PortsPerHost > Reserve
    BY SizeAssumption
  <2>3. count >= PortsPerHost
    BY <1>4, <1>5, <1>7
  <2>4. maxConcurrent' \in Nat /\ 0 < maxConcurrent' /\ maxConcurrent' <= count /\ count <= 2 * maxConcurrent'
    <3>1. PortsPerHost \in Nat /\ Reserve \in Nat /\ count \in Nat
      BY <1>5, <2>2
    <3>2. CASE maxConcurrent' = count - Reserve BY <2>2, <2>3, <3>1, <3>2
    <3>3. CASE maxConcurrent' = count BY <1>7, <3>1, <3>3
    <3> QED BY <2>1, <3>2, <3>3
  <2> QED BY <1>3, <2>4 DEF PlanFits
<1>8. CASE count # 0 /\ ~(maxConcurrent > count)
  <2>1. maxConcurrent' = maxConcurrent
    BY <1>3, <1>8 DEF Lowered
  <2> QED BY <1>2, <1>3, <1>5, <1>8, <2>1 DEF PlanFits
<1> QED BY <1>6, <1>7, <1>8

\* The invariant of reading the list.
LEMMA ListInvariance == Spec => []ListInv
<1>1. Init => ListInv
  <2> SUFFICES ASSUME Init PROVE ListInv
    OBVIOUS
  <2>1. PICK n \in 1 .. MaxEntries : todo \in [1 .. n -> Entry]
    BY DEF Init
  <2>2. todo \in Seq(Entry)
    BY <2>1, SizeAssumption
  <2>3. /\ done = <<>> /\ iplist = {} /\ portlist = {} /\ Read = {} /\ done \in Seq(Entry)
        /\ maxConcurrent \in Nat
    BY SizeAssumption DEF Init, Read
  <2> QED BY <2>2, <2>3, FS_EmptySet DEF ListInv
<1>2. ListInv /\ [Next]_vars => ListInv'
  <2> SUFFICES ASSUME ListInv, [Next]_vars PROVE ListInv'
    OBVIOUS
  <2>1. CASE ReadHost \/ ReadHostPort
    <3> DEFINE e == Head(todo)
    <3>1. e \in Entry /\ todo' \in Seq(Entry) /\ done' \in Seq(Entry) /\ done' = Append(done, e)
      <4>1. todo # <<>> /\ todo' = Tail(todo) /\ done' = Append(done, e)
        BY <2>1, Zenon DEF ReadHost, ReadHostPort
      <4>2. todo \in Seq(Entry) /\ done \in Seq(Entry)
        BY DEF ListInv
      <4>3. e \in Entry /\ todo' \in Seq(Entry)
        BY <4>1, <4>2
      <4> QED BY <4>1, <4>2, <4>3
    <3>2. /\ iplist' = (IF hostport THEN iplist ELSE iplist \cup Hosts(e))
          /\ portlist' = (IF hostport THEN portlist \cup HostPorts(e) ELSE portlist)
          /\ maxConcurrent' = maxConcurrent /\ hostport' = hostport
      <4>1. CASE ReadHost BY <4>1 DEF ReadHost
      <4>2. CASE ReadHostPort BY <4>2 DEF ReadHostPort
      <4> QED BY <2>1, <4>1, <4>2
    <3> HIDE DEF e
    <3>3. Read' = Read \cup {e}
      <4>1. /\ Len(done) \in Nat /\ DOMAIN done = 1 .. Len(done) /\ DOMAIN done' = 1 .. Len(done) + 1
            /\ done'[Len(done) + 1] = e /\ \A i \in 1 .. Len(done) : done'[i] = done[i]
        BY <3>1 DEF ListInv
      <4> QED BY <4>1 DEF Read
    <3>4. IsFiniteSet(iplist')
      BY <3>1, <3>2, HostsFinite, FS_Union DEF ListInv
    <3>5. /\ iplist' = IF hostport' THEN {} ELSE UNION {Hosts(x) : x \in Read'}
          /\ portlist' = IF hostport' THEN UNION {HostPorts(x) : x \in Read'} ELSE {}
      BY <3>2, <3>3 DEF ListInv
    <3> QED BY <3>1, <3>2, <3>4, <3>5 DEF ListInv
  <2>2. CASE ParseAddrs
    <3>1. UNCHANGED <<hostport, todo, done, iplist, portlist>>
      BY <2>2 DEF ParseAddrs
    <3>2. maxConcurrent' \in Nat
      BY <2>2, PlanStep
    <3> QED BY <3>1, <3>2 DEF ListInv, Read
  <2>3. CASE UNCHANGED vars
    BY <2>3 DEF vars, ListInv, Read
  <2> QED BY <2>1, <2>2, <2>3 DEF Next
<1> QED BY <1>1, <1>2, PTL DEF Spec

\* What an entry adds is what it stands for, less the lower end of a range that
\* is written from high to low.
LEMMA HostsMeant ==
  ASSUME NEW e \in Entry PROVE Hosts(e) = Meant(e) \ Lost(e)
<1>1. CASE e.scheme BY <1>1 DEF Hosts, Meant, Lost
<1>2. CASE ~e.scheme /\ ~IsRange(e) BY <1>2 DEF Hosts, Meant, Lost, IsRange
<1>3. CASE ~e.scheme /\ IsRange(e)
  <2>1. e.last \in Nat /\ e.to \in Nat BY <1>3, NumbersOf
  <2>2. Hosts(e) = {<<e.name, e.last>>} \cup {<<e.name, i>> : i \in Counted(e.last, e.to)}
    BY <1>3 DEF Hosts, IsRange
  <2>3. CASE e.last <= e.to
    <3>1. e.last .. e.to = {e.last} \cup Counted(e.last, e.to) BY <2>1, <2>3 DEF Counted
    <3>2. Lost(e) = {} BY <2>1, <2>3 DEF Lost
    <3>3. Meant(e) = {e.name} \X (e.last .. e.to) BY <1>3, <2>3 DEF Meant
    <3> QED BY <2>2, <3>1, <3>2, <3>3
  <2>4. CASE ~(e.last <= e.to)
    <3>1. (e.to .. e.last) \ {e.to} = {e.last} \cup Counted(e.last, e.to) BY <2>1, <2>4 DEF Counted
    <3>2. Lost(e) = {<<e.name, e.to>>} BY <1>3, <2>1, <2>4 DEF Lost
    <3>3. Meant(e) = {e.name} \X (e.to .. e.last) BY <1>3, <2>4 DEF Meant
    <3>4. ({e.name} \X (e.to .. e.last)) \ {<<e.name, e.to>>} = {e.name} \X ((e.to .. e.last) \ {e.to})
      OBVIOUS
    <3> QED BY <2>2, <3>1, <3>2, <3>3, <3>4
  <2> QED BY <2>3, <2>4
<1> QED BY <1>1, <1>2, <1>3

\* The same for a host:port entry.
LEMMA PortsMeant ==
  ASSUME NEW e \in Entry PROVE HostPorts(e) = MeantPorts(e) \ (Lost(e) \X {PortOf(e)})
<1>1. CASE PortOf(e) = Junk BY <1>1 DEF HostPorts, MeantPorts
<1>2. CASE PortOf(e) # Junk /\ NoHost(e)
  <2>1. Lost(e) = {}
    BY <1>2 DEF Lost, NoHost, IsRange
  <2> QED BY <1>2, <2>1 DEF HostPorts, MeantPorts
<1>3. CASE PortOf(e) # Junk /\ ~NoHost(e)
  <2>1. HostPorts(e) = Hosts(e) \X {PortOf(e)} /\ MeantPorts(e) = Meant(e) \X {PortOf(e)}
    BY <1>3 DEF HostPorts, MeantPorts
  <2> QED BY <2>1, HostsMeant
<1> QED BY <1>1, <1>2, <1>3

\* Both lists have exactly what their entries stand for, but for the lower end
\* of a reversed range, for any entries in any order; 0.0.0.0 stands for a
\* missing host, and an empty host comes only from an entry that begins with
\* its "-".
THEOREM RangesCorrect == Spec => []RangesExpanded
<1>1. ListInv => RangesExpanded
  <2> SUFFICES ASSUME ListInv PROVE RangesExpanded
    OBVIOUS
  <2>0. Read \subseteq Entry
    BY DEF ListInv, Read
  <2>1. \A e \in Read : Hosts(e) = Meant(e) \ Lost(e)
    BY <2>0, HostsMeant
  <2>2. \A e \in Read : HostPorts(e) = MeantPorts(e) \ (Lost(e) \X {PortOf(e)})
    BY <2>0, PortsMeant
  <2>3. iplist \subseteq UNION {Meant(e) : e \in Read}
    BY <2>1 DEF ListInv
  <2>4. portlist \subseteq UNION {MeantPorts(e) : e \in Read}
    BY <2>2 DEF ListInv
  <2>5. ASSUME NEW e \in Read
        PROVE  IF hostport THEN MeantPorts(e) \ (Lost(e) \X {PortOf(e)}) \subseteq portlist
                           ELSE Meant(e) \ Lost(e) \subseteq iplist
    <3>1. CASE hostport BY <2>2, <3>1 DEF ListInv
    <3>2. CASE ~hostport BY <2>1, <3>2 DEF ListInv
    <3> QED BY <3>1, <3>2
  <2>6. ASSUME NEW hp \in portlist, hp[1] = <<NoName, None>>
        PROVE  \E e \in Read : e.name = NoName /\ e.to # None
    <3>1. PICK e \in Read : hp \in HostPorts(e)
      BY DEF ListInv
    <3>2. hp[1] \in IF NoHost(e) THEN {<<Zero, 0>>} ELSE Hosts(e)
      BY <3>1 DEF HostPorts
    <3>3. NoName # Zero /\ NoName # Scheme
      BY SizeAssumption
    <3>4. ~NoHost(e) /\ hp[1] \in Hosts(e)
      BY <2>6, <3>2, <3>3
    <3>5. ~e.scheme /\ e.name = NoName
      BY <2>6, <3>3, <3>4 DEF Hosts
    <3> QED BY <3>4, <3>5 DEF NoHost
  <2> QED BY <2>3, <2>4, <2>5, <2>6 DEF RangesExpanded
<1> QED BY <1>1, ListInvariance, PTL

\* With a limit there are at least as many local addresses as connections, and
\* at most twice as many, once addressParse has run.
THEOREM PlanCorrect == Spec => []PlanFits
<1>1. Init => PlanFits
  BY DEF Init, PlanFits
<1>2. ListInv /\ PlanFits /\ [Next]_vars => PlanFits'
  <2> SUFFICES ASSUME ListInv, PlanFits, [Next]_vars PROVE PlanFits'
    OBVIOUS
  <2>1. CASE ParseAddrs
    BY <2>1, PlanStep
  <2>2. CASE ReadHost \/ ReadHostPort \/ UNCHANGED vars
    BY <2>2 DEF ReadHost, ReadHostPort, vars, PlanFits
  <2> QED BY <2>1, <2>2 DEF Next
<1> QED BY <1>1, <1>2, ListInvariance, PTL DEF Spec

(***************************************************************************)
(* QpsCtl.  While it searches every shorter tick was too short: the limit  *)
(* is less than the ticks of a second of the last one tried.               *)
(***************************************************************************)
RateInv ==
    /\ pc \in {"search", "batch", "tick"} /\ limit \in Limits
    /\ k \in 1 .. 501 /\ batch \in Nat /\ left \in Nat /\ sent \in Nat /\ now \in Nat
    /\ (pc = "search" => sent = 0) /\ (pc = "tick" => left = 0)
    /\ pc = "search" /\ k > 1 => limit < Rate!Split(k - 1)
    /\ pc # "search" => batch > 0 /\ batch * Rate!Split(k) <= limit /\ limit < 2 * batch * Rate!Split(k)
    /\ pc # "search" => 1000 * (sent + left - batch) <= 2 * limit * now

\* Division of naturals.
LEMMA Quotient ==
  ASSUME NEW a \in Nat, NEW b \in Nat \ {0}
  PROVE  LET q == a \div b IN q \in Nat /\ q * b <= a /\ a < (q + 1) * b
OBVIOUS

\* Ticks per second: at least one up to a second, and at most one beyond half
\* of it; a tick of at most 501 milliseconds times their number is at least
\* half a second.
LEMMA SplitFacts ==
  ASSUME NEW ms \in 1 .. 501
  PROVE  /\ Rate!Split(ms) \in Nat \ {0}
         /\ ms = 501 => Rate!Split(ms) = 1
         /\ 2 * (Rate!Split(ms) * ms) >= 1000
<1> DEFINE q == 1000 \div ms
<1>1. q \in Nat /\ q * ms <= 1000 /\ 1000 < (q + 1) * ms
  BY Quotient
<1>2. Rate!Split(ms) = q
  BY DEF Rate!Split
<1> HIDE DEF q
<1>3. q # 0
  BY <1>1
<1>4. ms = 501 => q = 1
  BY <1>1, <1>3
<1>5. (q + 1) * ms = q * ms + ms /\ q * ms \in Nat
  BY <1>1
<1>6. 2 * (q * ms) >= 1000
  BY <1>1, <1>5
<1> QED BY <1>1, <1>2, <1>3, <1>4, <1>6

\* One round of the search.
LEMMA SearchRound ==
  ASSUME RateInv, Rate!Search
  PROVE  RateInv'
<1> DEFINE s == Rate!Split(k)
           q == limit \div s
<1>1. /\ pc = "search" /\ limit \in Nat \ {0} /\ k \in 1 .. 501 /\ limit \in Limits
      /\ s \in Nat \ {0} /\ (k = 501 => s = 1)
      /\ left \in Nat /\ sent = 0 /\ now \in Nat /\ batch \in Nat
  BY AlgorithmsAssumption, SplitFacts DEF RateInv, Rate!Search
<1> HIDE DEF s
<1>2. q \in Nat /\ q * s <= limit /\ limit < (q + 1) * s
  BY <1>1, Quotient
<1> HIDE DEF q
<1>3. CASE q > 0
  <2>1. pc' = "batch" /\ batch' = q /\ left' = q /\ UNCHANGED <<k, limit, sent, now>>
    BY <1>3 DEF Rate!Search, s, q
  <2>2. Rate!Split(k') = s
    BY <2>1 DEF s
  <2>3. limit < 2 * q * s
    <3>1. (q + 1) * s <= 2 * q * s
      BY <1>1, <1>2, <1>3
    <3>2. (q + 1) * s \in Int /\ 2 * q * s \in Int
      BY <1>1, <1>2
    <3> QED BY <1>1, <1>2, <3>1, <3>2
  <2>4. 1000 * (sent + q - q) <= 2 * limit * now
    <3>1. 2 * limit * now \in Nat
      BY <1>1
    <3> QED BY <1>1, <1>2, <3>1
  <2>5. batch' * Rate!Split(k') <= limit' /\ limit' < 2 * batch' * Rate!Split(k')
    BY <1>2, <2>1, <2>2, <2>3
  <2>6. 1000 * (sent' + left' - batch') <= 2 * limit' * now'
    BY <2>1, <2>4
  <2> QED BY <1>1, <1>2, <1>3, <2>1, <2>5, <2>6 DEF RateInv
<1>4. CASE ~(q > 0)
  <2>1. k' = k + 1 /\ UNCHANGED <<pc, batch, left, limit, sent, now>>
    BY <1>4 DEF Rate!Search, s, q
  <2>2. limit < s
    <3>1. q = 0
      BY <1>2, <1>4
    <3> QED BY <1>1, <1>2, <3>1
  <2>3. k # 501
    BY <1>1, <2>2
  <2>4. k' \in 1 .. 501 /\ k' - 1 = k
    BY <1>1, <2>1, <2>3
  <2>5. limit' < Rate!Split(k' - 1)
    BY <2>1, <2>2, <2>4 DEF s
  <2> QED BY <1>1, <2>1, <2>4, <2>5 DEF RateInv
<1> QED BY <1>3, <1>4

\* A tick adds a batch, which is at most twice what the limit gives for its
\* milliseconds.
LEMMA TickKeeps ==
  ASSUME RateInv, Rate!Tick
  PROVE  1000 * (sent' + left' - batch') <= 2 * limit' * now'
<1> DEFINE s == Rate!Split(k)
<1>1. /\ pc = "tick" /\ limit \in Nat /\ k \in 1 .. 501 /\ s \in Nat /\ 2 * (s * k) >= 1000
      /\ batch \in Nat /\ sent \in Nat /\ now \in Nat /\ left = 0
      /\ batch * s <= limit /\ 1000 * (sent + 0 - batch) <= 2 * limit * now
  BY AlgorithmsAssumption, SplitFacts DEF RateInv, Rate!Tick
<1>2. now' = now + k /\ left' = batch /\ UNCHANGED <<limit, batch, sent>>
  BY DEF Rate!Tick
<1> HIDE DEF s
<1>3. 1000 * batch <= 2 * limit * k
  <2>1. (batch * s) * k <= limit * k
    BY <1>1
  <2>2. batch * (2 * (s * k)) >= batch * 1000
    BY <1>1
  <2>3. batch * (2 * (s * k)) = 2 * ((batch * s) * k)
    BY <1>1
  <2>4. 2 * ((batch * s) * k) <= 2 * (limit * k) /\ 2 * (limit * k) = 2 * limit * k
    BY <1>1, <2>1
  <2> QED BY <1>1, <2>2, <2>3, <2>4
<1>4. 2 * limit * (now + k) = 2 * limit * now + 2 * limit * k
  BY <1>1
<1>5. 1000 * (sent + batch - batch) <= 2 * limit * (now + k)
  <2>1. 2 * limit * now \in Int /\ 2 * limit * k \in Int
    BY <1>1
  <2> QED BY <1>1, <1>3, <1>4, <2>1
<1> QED BY <1>2, <1>5

LEMMA RateInvariance == Rate!Spec => []RateInv
<1>1. Rate!Init => RateInv
  <2> SUFFICES ASSUME Rate!Init PROVE RateInv
    OBVIOUS
  <2> QED BY DEF Rate!Init, RateInv
<1>2. RateInv /\ [Rate!Next]_(Rate!vars) => RateInv'
  <2> SUFFICES ASSUME RateInv, [Rate!Next]_(Rate!vars) PROVE RateInv'
    OBVIOUS
  <2>0. /\ k \in 1 .. 501 /\ batch \in Nat /\ left \in Nat /\ sent \in Nat /\ now \in Nat
    BY DEF RateInv
  <2>1. CASE Rate!Search
    BY <2>1, SearchRound
  <2>2. CASE Rate!Send
    <3>1. CASE left > 0
      <4>1. /\ pc = "batch" /\ sent' = sent + 1 /\ left' = left - 1
            /\ UNCHANGED <<pc, limit, k, batch, now>>
        BY <2>2, <3>1 DEF Rate!Send
      <4>2. sent' \in Nat /\ left' \in Nat /\ sent' + left' - batch = sent + left - batch
        BY <2>0, <3>1, <4>1
      <4> QED BY <4>1, <4>2 DEF RateInv
    <3>2. CASE ~(left > 0)
      <4>1. pc = "batch" /\ pc' = "tick" /\ left = 0 /\ UNCHANGED <<sent, left, limit, k, batch, now>>
        BY <2>0, <2>2, <3>2 DEF Rate!Send
      <4> QED BY <4>1 DEF RateInv
    <3> QED BY <3>1, <3>2
  <2>3. CASE Rate!Tick
    <3>1. /\ pc = "tick" /\ pc' = "batch" /\ now' = now + k /\ left' = batch
          /\ UNCHANGED <<limit, k, batch, sent>>
      BY <2>3 DEF Rate!Tick
    <3>2. now' \in Nat
      BY <2>0, <3>1
    <3>3. 1000 * (sent' + left' - batch') <= 2 * limit' * now'
      BY <2>3, TickKeeps
    <3> QED BY <3>1, <3>2, <3>3 DEF RateInv
  <2>4. CASE Rate!Take \/ UNCHANGED Rate!vars
    BY <2>4 DEF Rate!Take, Rate!vars, RateInv
  <2> QED BY <2>1, <2>2, <2>3, <2>4 DEF Rate!Next
<1> QED BY <1>1, <1>2, PTL DEF Rate!Spec

\* The search for a tick ends before the code divides by zero, with at least
\* half of -q planned, and the tokens of any span of time are less than twice
\* the limit.
THEOREM RateCorrect == Rate!Spec => []RateSound
<1>1. RateInv => RateSound
  <2> SUFFICES ASSUME RateInv PROVE RateSound
    OBVIOUS
  <2>1. Rate!SearchEnds
    BY DEF RateInv, Rate!SearchEnds
  <2>2. Rate!RateBelowTwice
    <3> SUFFICES ASSUME pc # "search" PROVE sent - batch <= (2 * limit * now) \div 1000
      BY DEF Rate!RateBelowTwice
    <3> DEFINE x == 2 * limit * now
               q == x \div 1000
    <3>1. limit \in Nat /\ now \in Nat /\ sent \in Nat /\ batch \in Nat /\ left \in Nat
      BY AlgorithmsAssumption DEF RateInv
    <3>2. x \in Nat
      BY <3>1
    <3>3. 1000 * (sent + left - batch) <= x
      BY DEF RateInv
    <3> HIDE DEF x
    <3>4. q \in Nat /\ x < (q + 1) * 1000
      BY <3>2, Quotient
    <3> HIDE DEF q
    <3>5. sent - batch <= q
      BY <3>1, <3>2, <3>3, <3>4
    <3> QED BY <3>5 DEF q, x
  <2> QED BY <2>1, <2>2 DEF RateSound
<1> QED BY <1>1, RateInvariance, PTL

(***************************************************************************)
(* HttpWrite.  What the kernel has taken are the first bytes of the        *)
(* response, as many as were written before and of the current text.       *)
(***************************************************************************)
Byte == {"header", "body"} \X Nat
Size(t) == IF t = "header" THEN HeaderLen ELSE BodyLen
Before(t) == IF t = "header" THEN 0 ELSE HeaderLen

WriteInv ==
    /\ text \in {"header", "body"} /\ total \in 0 .. Size(text)
    /\ wtries \in 0 .. WriteTries /\ (wpc = "write" => wtries < WriteTries)
    /\ taken \in Seq(Byte) /\ Len(taken) = Before(text) + total
    /\ \A i \in 1 .. Len(taken) : taken[i] = Writer!Response[i]
    /\ IF wpc = "done" THEN text = "body" /\ total = BodyLen
       ELSE text = "body" => total < BodyLen

\* A function on the first n numbers is a sequence.
LEMMA FunctionSeq ==
  ASSUME NEW n \in Nat, NEW S, NEW f \in [1 .. n -> S]
  PROVE  f \in Seq(S) /\ Len(f) = n
<1>1. f \in Seq(S)
  BY SeqDef
<1>2. Len(f) \in Nat /\ DOMAIN f = 1 .. Len(f) /\ DOMAIN f = 1 .. n
  BY <1>1, LenProperties
<1> QED BY <1>1, <1>2

\* The bytes of a text, of the response and of the rest of a text.
LEMMA ResponseBytes ==
  /\ Writer!Response \in Seq(Byte) /\ Len(Writer!Response) = HeaderLen + BodyLen
  /\ \A t \in {"header", "body"} : \A i \in 1 .. Size(t) : Writer!Response[Before(t) + i] = <<t, i>>
<1> USE AlgorithmsAssumption
<1>0. HeaderLen \in Nat /\ BodyLen \in Nat
  OBVIOUS
<1>1. ASSUME NEW t \in {"header", "body"}
      PROVE  /\ Writer!Text(t) \in Seq(Byte) /\ Len(Writer!Text(t)) = Size(t)
             /\ \A i \in 1 .. Size(t) : Writer!Text(t)[i] = <<t, i>>
  <2>1. Size(t) \in Nat
    BY <1>0 DEF Size
  <2>2. Writer!Text(t) = [i \in 1 .. Size(t) |-> <<t, i>>]
    BY DEF Writer!Text, Size
  <2>3. \A i \in 1 .. Size(t) : <<t, i>> \in Byte
    BY <2>1 DEF Byte
  <2>4. Writer!Text(t) \in [1 .. Size(t) -> Byte]
    BY <2>2, <2>3
  <2>5. Writer!Text(t) \in Seq(Byte) /\ Len(Writer!Text(t)) = Size(t)
    BY <2>1, <2>4
  <2> QED BY <2>2, <2>5
<1> DEFINE h == Writer!Text("header")
           b == Writer!Text("body")
<1>2. /\ h \in Seq(Byte) /\ Len(h) = HeaderLen /\ \A i \in 1 .. HeaderLen : h[i] = <<"header", i>>
      /\ b \in Seq(Byte) /\ Len(b) = BodyLen /\ \A i \in 1 .. BodyLen : b[i] = <<"body", i>>
  BY <1>1 DEF Size
<1>3. Writer!Response = h \o b
  BY DEF Writer!Response
<1> HIDE DEF h, b
<1>4. /\ h \o b \in Seq(Byte) /\ Len(h \o b) = HeaderLen + BodyLen
      /\ \A i \in 1 .. HeaderLen + BodyLen : (h \o b)[i] = IF i <= HeaderLen THEN h[i] ELSE b[i - HeaderLen]
  BY <1>2, ConcatProperties, SMTT(60)
<1>5. \A i \in 1 .. HeaderLen : (h \o b)[i] = h[i]
  BY <1>0, <1>4
<1>6. ASSUME NEW i \in 1 .. BodyLen PROVE (h \o b)[HeaderLen + i] = b[i]
  <2>1. HeaderLen + i \in 1 .. HeaderLen + BodyLen /\ ~(HeaderLen + i <= HeaderLen) /\ (HeaderLen + i) - HeaderLen = i
    BY <1>0
  <2> QED BY <1>4, <2>1
<1>7. ASSUME NEW t \in {"header", "body"}, NEW i \in 1 .. Size(t)
      PROVE  Writer!Response[Before(t) + i] = <<t, i>>
  BY <1>0, <1>2, <1>3, <1>5, <1>6 DEF Size, Before
<1> QED BY <1>3, <1>4, <1>7

\* n more bytes of the current text are taken.
LEMMA TakeMore ==
  ASSUME WriteInv, NEW n \in 0 .. Len(Writer!Rest), taken' = taken \o SubSeq(Writer!Rest, 1, n)
  PROVE  /\ n \in Nat /\ Len(Writer!Rest) = Size(text) - total /\ total + n <= Size(text)
         /\ taken' \in Seq(Byte) /\ Len(taken') = Before(text) + total + n
         /\ \A i \in 1 .. Len(taken') : taken'[i] = Writer!Response[i]
<1> USE AlgorithmsAssumption
<1> DEFINE x == Writer!Text(text)
           r == Writer!Rest
           m == SubSeq(r, 1, n)
<1>0. /\ text \in {"header", "body"} /\ total \in Nat /\ total <= Size(text) /\ Size(text) \in Nat
      /\ Before(text) \in Nat
      /\ taken \in Seq(Byte) /\ Len(taken) = Before(text) + total
      /\ \A i \in 1 .. Len(taken) : taken[i] = Writer!Response[i]
  BY DEF WriteInv, Size, Before
<1>1. x \in Seq(Byte) /\ Len(x) = Size(text) /\ \A i \in 1 .. Size(text) : x[i] = <<text, i>>
  <2>1. x = [i \in 1 .. Size(text) |-> <<text, i>>]
    BY DEF Writer!Text, Size
  <2>2. x \in [1 .. Size(text) -> Byte]
    BY <1>0, <2>1 DEF Byte
  <2>3. x \in Seq(Byte) /\ Len(x) = Size(text)
    <3>1. Size(text) \in Nat
      BY <1>0
    <3> HIDE DEF x
    <3> QED BY <2>2, <3>1, FunctionSeq
  <2> QED BY <2>1, <2>3
<1>2. r = SubSeq(x, total + 1, Len(x))
  BY DEF Writer!Rest
<1> HIDE DEF x, r
<1>3. /\ r \in Seq(Byte) /\ Len(r) = Size(text) - total
      /\ \A j \in 1 .. Len(r) : r[j] = x[total + j]
  <2>1. total + 1 \in Int /\ Len(x) \in Int /\ \A i \in total + 1 .. Len(x) : x[i] \in Byte
    BY <1>0, <1>1, ElementOfSeq
  <2>2. /\ r \in Seq(Byte) /\ Len(r) = IF total + 1 <= Len(x) THEN Len(x) - (total + 1) + 1 ELSE 0
        /\ \A i \in 1 .. Len(x) - (total + 1) + 1 : r[i] = x[(total + 1) + i - 1]
    BY <1>2, <2>1, SubSeqProperties
  <2>3. Len(x) - (total + 1) + 1 = Size(text) - total /\ Len(r) = Size(text) - total
    BY <1>0, <1>1, <2>2, SMTT(60)
  <2>4. ASSUME NEW i \in 1 .. Len(r) PROVE r[i] = x[total + i]
    <3>1. (total + 1) + i - 1 = total + i /\ i \in 1 .. Len(x) - (total + 1) + 1
      BY <1>0, <2>3
    <3> QED BY <2>2, <3>1
  <2> QED BY <2>2, <2>3, <2>4
<1>4. n \in Nat /\ n <= Len(r)
  BY <1>3 DEF r
<1>5. m \in Seq(Byte) /\ Len(m) = n /\ \A j \in 1 .. n : m[j] = r[j]
  BY <1>3, <1>4
<1>6. taken' = taken \o m
  BY DEF r
<1> HIDE DEF m
<1>7. /\ taken' \in Seq(Byte) /\ Len(taken') = Len(taken) + n
      /\ \A i \in 1 .. Len(taken) : taken'[i] = taken[i]
      /\ \A j \in 1 .. n : taken'[Len(taken) + j] = m[j]
  <2>1. /\ taken \o m \in Seq(Byte) /\ Len(taken \o m) = Len(taken) + n
        /\ \A i \in 1 .. Len(taken) + n : (taken \o m)[i] = IF i <= Len(taken) THEN taken[i] ELSE m[i - Len(taken)]
    BY <1>0, <1>5, ConcatProperties, ZenonT(60)
  <2>2. Len(taken) \in Nat
    BY <1>0
  <2>3. ASSUME NEW j \in 1 .. n PROVE (taken \o m)[Len(taken) + j] = m[j]
    <3>1. /\ Len(taken) + j \in 1 .. Len(taken) + n /\ ~(Len(taken) + j <= Len(taken))
          /\ (Len(taken) + j) - Len(taken) = j
      BY <1>4, <2>2
    <3> QED BY <2>1, <3>1
  <2>4. \A i \in 1 .. Len(taken) : (taken \o m)[i] = taken[i]
    BY <1>4, <2>1, <2>2
  <2> QED BY <1>6, <2>1, <2>3, <2>4
<1>8. ASSUME NEW i \in 1 .. Len(taken') PROVE taken'[i] = Writer!Response[i]
  <2>1. CASE i <= Len(taken)
    BY <1>0, <1>7, <2>1
  <2>2. CASE ~(i <= Len(taken))
    <3> DEFINE j == i - Len(taken)
    <3>0. Len(taken) \in Nat /\ Len(taken') = Len(taken) + n /\ n \in Nat /\ i \in 1 .. Len(taken')
      BY <1>0, <1>4, <1>7
    <3>1. j \in 1 .. n /\ i = Len(taken) + j
      BY <2>2, <3>0
    <3> HIDE DEF j
    <3>2. taken'[i] = x[total + j]
      <4>1. taken'[i] = m[j] /\ m[j] = r[j] /\ j \in 1 .. Len(r)
        BY <1>3, <1>4, <1>5, <1>7, <3>1
      <4> QED BY <1>3, <4>1
    <3>3. total + j \in 1 .. Size(text) /\ i = Before(text) + (total + j)
      <4>1. /\ total \in Nat /\ Size(text) \in Nat /\ Before(text) \in Nat /\ n \in Nat
            /\ n <= Size(text) - total /\ Len(taken) = Before(text) + total
        BY <1>0, <1>3, <1>4
      <4> QED BY <3>1, <4>1
    <3>4. Writer!Response[Before(text) + (total + j)] = <<text, total + j>>
      BY <1>0, <3>3, ResponseBytes
    <3> QED BY <1>1, <3>2, <3>3, <3>4
  <2> QED BY <2>1, <2>2
<1>9. total + n <= Size(text) /\ Len(taken') = Before(text) + total + n
  BY <1>0, <1>3, <1>4, <1>7
<1> QED BY <1>3, <1>4, <1>7, <1>8, <1>9 DEF r

LEMMA WriteInvariance == Writer!Spec => []WriteInv
<1> USE AlgorithmsAssumption
<1>0. HeaderLen \in Nat /\ BodyLen \in Nat \ {0} /\ WriteTries \in Nat \ {0}
  OBVIOUS
<1>1. Writer!Init => WriteInv
  <2> SUFFICES ASSUME Writer!Init PROVE WriteInv
    OBVIOUS
  <2>1. text = "header" /\ total = 0 /\ wtries = 0 /\ wpc = "write" /\ taken = <<>>
    BY DEF Writer!Init
  <2>2. taken \in Seq(Byte) /\ Len(taken) = 0
    BY <2>1
  <2> QED BY <1>0, <2>1, <2>2 DEF WriteInv, Size, Before
<1>2. WriteInv /\ [Writer!Next]_(Writer!vars) => WriteInv'
  <2> SUFFICES ASSUME WriteInv, [Writer!Next]_(Writer!vars) PROVE WriteInv'
    OBVIOUS
  <2>0. /\ text \in {"header", "body"} /\ total \in Nat /\ Size(text) \in Nat /\ Before(text) \in Nat
        /\ total <= Size(text) /\ wtries \in 0 .. WriteTries /\ Before("body") = HeaderLen
    BY <1>0 DEF WriteInv, Size, Before
  <2>1. CASE Writer!WriteRest
    <3> DEFINE n == Len(Writer!Rest)
    <3>1. wpc = "write" /\ taken' = taken \o Writer!Rest /\ text' = "body"
      BY <2>1 DEF Writer!WriteRest
    <3>2. Writer!Rest \in Seq(Byte) /\ n \in Nat /\ n \in 0 .. n
      <4>1. Writer!Text(text) \in [1 .. Size(text) -> Byte]
        BY <2>0 DEF Writer!Text, Size, Byte
      <4>2. Writer!Text(text) \in Seq(Byte)
        BY <2>0, <4>1, FunctionSeq
      <4> DEFINE x == Writer!Text(text)
      <4>3. total + 1 \in Int /\ Len(x) \in Int /\ \A i \in total + 1 .. Len(x) : x[i] \in Byte
        BY <2>0, <4>2, ElementOfSeq
      <4>4. Writer!Rest = SubSeq(x, total + 1, Len(x))
        BY DEF Writer!Rest
      <4> HIDE DEF x
      <4> QED BY <4>3, <4>4, SubSeqProperties
    <3>3. SubSeq(Writer!Rest, 1, n) = Writer!Rest
      <4> DEFINE r == Writer!Rest
      <4> HIDE DEF r
      <4>1. r \in Seq(Byte)
        BY <3>2 DEF r
      <4>2. SubSeq(r, 1, Len(r)) = r
        BY <4>1, SubSeqFull
      <4> QED BY <4>2 DEF r
    <3>4. taken' = taken \o SubSeq(Writer!Rest, 1, n)
      BY <3>1, <3>3
    <3> HIDE DEF n
    <3>5. /\ n \in Nat /\ n = Size(text) - total
          /\ taken' \in Seq(Byte) /\ Len(taken') = Before(text) + total + n
          /\ \A i \in 1 .. Len(taken') : taken'[i] = Writer!Response[i]
      BY <3>2, <3>4, TakeMore DEF n
    <3>6. Len(taken') = Before(text) + Size(text)
      BY <2>0, <3>5
    <3>7. CASE text = "header"
      <4>1. total' = 0 /\ wtries' = 0 /\ wpc' = "write"
        BY <2>1, <3>1, <3>7 DEF Writer!WriteRest
      <4>2. Len(taken') = HeaderLen + 0
        BY <1>0, <3>6, <3>7 DEF Size, Before
      <4> QED BY <1>0, <3>1, <3>5, <4>1, <4>2 DEF WriteInv, Size, Before
    <3>8. CASE text = "body"
      <4>1. total' = total + n /\ wtries' = wtries /\ wpc' = "done"
        BY <2>1, <3>1, <3>8 DEF Writer!WriteRest, n
      <4>2. total' = BodyLen /\ Len(taken') = HeaderLen + BodyLen
        BY <1>0, <2>0, <3>5, <3>6, <3>8, <4>1 DEF Size, Before
      <4> QED BY <1>0, <2>0, <3>1, <3>5, <4>1, <4>2 DEF WriteInv, Size, Before
    <3> QED BY <2>0, <3>7, <3>8
  <2>2. CASE Writer!WriteTimeOut \/ Writer!WriteError
    <3>1. PICK n \in 0 .. Len(Writer!Rest) - 1 : taken' = taken \o SubSeq(Writer!Rest, 1, n) /\ total' = total + n
      BY <2>2 DEF Writer!WriteTimeOut, Writer!WriteError
    <3>2. /\ wpc = "write" /\ wtries' = wtries + 1 /\ text' = text
          /\ wpc' \in {"timeout", "write", "error"} /\ (wpc' = "write" => wtries' < WriteTries)
      BY <1>0, <2>0, <2>2 DEF Writer!WriteTimeOut, Writer!WriteError
    <3>3. n \in 0 .. Len(Writer!Rest)
      OBVIOUS
    <3>4. /\ n \in Nat /\ Len(Writer!Rest) = Size(text) - total
          /\ taken' \in Seq(Byte) /\ Len(taken') = Before(text) + total + n
          /\ \A i \in 1 .. Len(taken') : taken'[i] = Writer!Response[i]
      BY <3>1, <3>3, TakeMore
    <3>5. total' \in 0 .. Size(text) /\ total' < Size(text) /\ Len(taken') = Before(text) + total'
      <4>1. /\ n \in Nat /\ n <= Len(Writer!Rest) - 1 /\ Len(Writer!Rest) = Size(text) - total
            /\ total' = total + n /\ Len(taken') = Before(text) + total + n
        BY <3>1, <3>4
      <4>2. total \in Nat /\ Size(text) \in Nat /\ Before(text) \in Nat
        BY <2>0
      <4> QED BY <4>1, <4>2
    <3>6. wtries' \in 0 .. WriteTries
      BY <1>0, <2>0, <3>2 DEF WriteInv
    <3>7. Size(text') = Size(text) /\ Before(text') = Before(text) /\ (text = "body" => Size(text) = BodyLen)
      BY <3>2 DEF Size
    <3> QED BY <2>0, <3>2, <3>4, <3>5, <3>6, <3>7 DEF WriteInv
  <2>3. CASE UNCHANGED Writer!vars
    BY <2>3 DEF Writer!vars, WriteInv, Size, Before
  <2> QED BY <2>1, <2>2, <2>3 DEF Writer!Next
<1> QED BY <1>1, <1>2, PTL DEF Writer!Spec

\* However often a write is cut by its deadline, the peer is sent a prefix of
\* header and body, and all of it exactly when the response counts as sent.
THEOREM ResponseCorrect == Writer!Spec => []ResponseWhole
<1> USE AlgorithmsAssumption
<1>1. WriteInv => ResponseWhole
  <2> SUFFICES ASSUME WriteInv PROVE ResponseWhole
    OBVIOUS
  <2> DEFINE R == Writer!Response
  <2>0. HeaderLen \in Nat /\ BodyLen \in Nat \ {0}
    OBVIOUS
  <2>1. /\ taken \in Seq(Byte) /\ Len(taken) \in Nat /\ Len(taken) = Before(text) + total
        /\ \A i \in 1 .. Len(taken) : taken[i] = R[i]
    BY DEF WriteInv
  <2>2. R \in Seq(Byte) /\ Len(R) = HeaderLen + BodyLen
    BY ResponseBytes
  <2> HIDE DEF R
  <2>3. Len(taken) <= Len(R) /\ (Len(taken) = Len(R) <=> wpc = "done")
    <3>1. /\ total \in Nat /\ (text = "header" \/ text = "body")
          /\ text = "header" => total <= HeaderLen /\ Len(taken) = 0 + total /\ wpc # "done"
          /\ text = "body" => total <= BodyLen /\ Len(taken) = HeaderLen + total /\ (wpc = "done" <=> total = BodyLen)
      BY <2>0, <2>1 DEF WriteInv, Size, Before
    <3> QED BY <2>0, <2>2, <3>1
  <2>4. Writer!IsPrefix(taken, R)
    <3>1. SubSeq(taken, 1, Len(taken)) = taken
      BY <2>1, SubSeqFull
    <3> DEFINE p == SubSeq(R, 1, Len(taken))
    <3>2. \A i \in 1 .. Len(taken) : R[i] \in Byte
      BY <2>1, <2>2, <2>3, ElementOfSeq
    <3>3. p \in Seq(Byte) /\ Len(p) = Len(taken) /\ \A i \in 1 .. Len(taken) : p[i] = R[i]
      <4> DEFINE m == Len(taken)
      <4>1. m \in Nat /\ m - 1 + 1 = m /\ \A i \in 1 .. m : 1 + i - 1 = i
        BY <2>1
      <4> HIDE DEF m
      <4>2. /\ SubSeq(R, 1, m) \in Seq(Byte) /\ Len(SubSeq(R, 1, m)) = IF 1 <= m THEN m - 1 + 1 ELSE 0
            /\ \A i \in 1 .. m - 1 + 1 : SubSeq(R, 1, m)[i] = R[1 + i - 1]
        BY <3>2, <4>1, SubSeqProperties DEF m
      <4>3. Len(SubSeq(R, 1, m)) = m
        BY <4>1, <4>2
      <4>4. \A i \in 1 .. m : SubSeq(R, 1, m)[i] = R[i]
        BY <4>1, <4>2
      <4> QED BY <4>2, <4>3, <4>4 DEF m
    <3> HIDE DEF p
    <3>4. p = taken
      BY <2>1, <3>3, SeqEqual
    <3> QED BY <2>3, <3>1, <3>4 DEF Writer!IsPrefix, p
  <2>5. wpc = "done" <=> taken = R
    <3>1. Len(taken) = Len(R) => taken = R
      BY <2>1, <2>2, SeqEqual
    <3> QED BY <2>3, <3>1
  <2>6. wtries <= WriteTries
    BY DEF WriteInv
  <2> QED BY <2>4, <2>5, <2>6 DEF ResponseWhole, Writer!ResponseWhole, R
<1> QED BY <1>1, WriteInvariance, PTL

(***************************************************************************)
(* FastHttpParse.  httpURIParser goes from line to line; what it returns   *)
(* is compared with the ends of a header in what it was given.             *)
(***************************************************************************)
LEMMA HeaderMin ==
  ASSUME NEW T, T \subseteq Nat, T # {}
  PROVE  Header!Min(T) \in T /\ \A j \in T : Header!Min(T) <= j
<1>1. \E m \in T : \A j \in T : m <= j
  BY LeastNatural
<1> QED BY <1>1 DEF Header!Min

\* The position of the first \n from i on.
LEMMA FirstNewLine ==
  ASSUME NEW s, Len(s) \in Nat, NEW i \in 1 .. Len(s) + 1,
         {j \in i .. Len(s) : s[j] = "N"} # {}
  PROVE  LET p == Header!Min({j \in i .. Len(s) : s[j] = "N"})
         IN  p \in i .. Len(s) /\ s[p] = "N" /\ \A j \in i .. p - 1 : s[j] # "N"
<1> DEFINE T == {j \in i .. Len(s) : s[j] = "N"}
           p == Header!Min(T)
<1>1. T \subseteq Nat /\ T # {}
  OBVIOUS
<1> HIDE DEF T
<1>2. p \in T /\ \A j \in T : p <= j
  BY <1>1, HeaderMin
<1> HIDE DEF p
<1>3. p \in i .. Len(s) /\ s[p] = "N"
  BY <1>2 DEF T
<1>4. ASSUME NEW j \in i .. p - 1 PROVE s[j] # "N"
  <2>1. j \in i .. Len(s) /\ ~(p <= j)
    BY <1>3
  <2> QED BY <1>2, <2>1 DEF T
<1> QED BY <1>3, <1>4 DEF p, T

\* The function by which httpURIParser is defined exists.
LEMMA UriCode ==
  ASSUME NEW s, Len(s) \in Nat
  PROVE  \E code :
           /\ Header!httpURIParser(s) = code[1]
           /\ code = [i \in 1 .. Len(s) + 1 |->
                LET nls == {j \in i .. Len(s) : s[j] = "N"}
                    p == Header!Min(nls)
                IN IF nls = {} THEN 1
                   ELSE IF p - i < MiniSize THEN 2
                   ELSE IF p + 1 > Len(s) THEN 1
                   ELSE IF s[p + 1] = "N" THEN 0
                   ELSE IF p + 2 > Len(s) THEN 1
                   ELSE IF <<s[p - 1], s[p + 1], s[p + 2]>> = <<"R", "R", "N">> THEN 0
                   ELSE code[p + 1]]
<1> DEFINE L == Len(s)
           Nls(i) == {j \in i .. L : s[j] = "N"}
           P(i) == Header!Min(Nls(i))
           Ends(i) == <<s[P(i) - 1], s[P(i) + 1], s[P(i) + 2]>> = <<"R", "R", "N">>
           Is(f) == f = [i \in 1 .. L + 1 |->
                IF Nls(i) = {} THEN 1
                ELSE IF P(i) - i < MiniSize THEN 2
                ELSE IF P(i) + 1 > L THEN 1
                ELSE IF s[P(i) + 1] = "N" THEN 0
                ELSE IF P(i) + 2 > L THEN 1
                ELSE IF Ends(i) THEN 0
                ELSE f[P(i) + 1]]
           Stop(i) == Nls(i) = {} \/ P(i) - i < MiniSize \/ P(i) + 1 > L \/ s[P(i) + 1] = "N" \/ P(i) + 2 > L \/ Ends(i)
           v == [i \in 1 .. L + 1 |-> IF Nls(i) = {} THEN 1
                                      ELSE IF P(i) - i < MiniSize THEN 2
                                      ELSE IF P(i) + 1 > L THEN 1
                                      ELSE IF s[P(i) + 1] = "N" THEN 0
                                      ELSE IF P(i) + 2 > L THEN 1 ELSE 0]
           nx == [i \in 1 .. L + 1 |-> IF Stop(i) THEN 0 ELSE P(i) + 1]
<1>1. ASSUME NEW i \in 1 .. L + 1 PROVE nx[i] = 0 \/ nx[i] \in i + 1 .. L + 1
  <2>1. CASE Stop(i)
    BY <2>1
  <2>2. CASE ~Stop(i)
    <3>1. P(i) \in i .. L
      BY <2>2, FirstNewLine
    <3> HIDE DEF P, Stop
    <3> QED BY <2>2, <3>1
  <2> QED BY <2>1, <2>2
<1>2. v \in [1 .. L + 1 -> Nat] /\ nx \in [1 .. L + 1 -> Nat]
  <2>1. v \in [1 .. L + 1 -> Nat]
    OBVIOUS
  <2>2. \A i \in 1 .. L + 1 : nx[i] \in Nat
    <3> HIDE DEF nx
    <3> QED BY <1>1
  <2> QED BY <2>1, <2>2
<1>3. PICK f \in [1 .. L + 1 -> Nat] : \A i \in 1 .. L + 1 : f[i] = IF nx[i] = 0 THEN v[i] ELSE f[nx[i]]
  <2> HIDE DEF nx, v
  <2> DEFINE n == L + 1
  <2>1. n \in Nat
    OBVIOUS
  <2>2. \A i \in 1 .. n : nx[i] = 0 \/ nx[i] \in i + 1 .. n
    BY <1>1
  <2>3. v \in [1 .. n -> Nat] /\ nx \in [1 .. n -> Nat]
    BY <1>2
  <2> HIDE DEF n
  <2>4. \E f \in [1 .. n -> Nat] : \A i \in 1 .. n : f[i] = IF nx[i] = 0 THEN v[i] ELSE f[nx[i]]
    BY <2>1, <2>2, <2>3, ForwardRecursion
  <2> QED BY <2>4 DEF n
<1>4. ASSUME NEW i \in 1 .. L + 1
      PROVE f[i] = IF Nls(i) = {} THEN 1
                ELSE IF P(i) - i < MiniSize THEN 2
                ELSE IF P(i) + 1 > L THEN 1
                ELSE IF s[P(i) + 1] = "N" THEN 0
                ELSE IF P(i) + 2 > L THEN 1
                ELSE IF Ends(i) THEN 0
                ELSE f[P(i) + 1]
  <2>1. f[i] = IF nx[i] = 0 THEN v[i] ELSE f[nx[i]]
    BY <1>3
  <2>2. ~Stop(i) => P(i) + 1 # 0
    <3>1. ~Stop(i) => P(i) \in i .. L
      BY FirstNewLine
    <3> HIDE DEF P, Stop
    <3> QED BY <3>1
  <2> HIDE DEF Nls, P, Ends
  <2> QED BY <2>1, <2>2
<1>5. Is(f)
  BY <1>3, <1>4
<1> HIDE DEF Is, v, nx, Stop
<1> DEFINE code == CHOOSE g : Is(g)
<1>6. Is(code)
  BY <1>5
<1>7. Header!httpURIParser(s) = code[1]
  BY DEF Header!httpURIParser, Is
<1> HIDE DEF code
<1> QED BY <1>6, <1>7 DEF Is

\* The ends of a header, byte by byte.
LEMMA EndShape ==
  ASSUME NEW s \in Seq(Header!Symbol), NEW e \in 2 .. Len(s)
  PROVE  e \in Header!HeaderEnds(s) <=>
           s[e] = "N" /\ (s[e - 1] = "N" \/ (e > 3 /\ s[e - 3] = "R" /\ s[e - 2] = "N" /\ s[e - 1] = "R"))
<1>1. ASSUME e > 3
      PROVE  SubSeq(s, e - 3, e - 1) = <<"R", "N", "R">> <=> s[e - 3] = "R" /\ s[e - 2] = "N" /\ s[e - 1] = "R"
  <2> DEFINE m == e - 3
             n == e - 1
             q == SubSeq(s, m, n)
  <2>1. m \in Int /\ n \in Int /\ m <= n /\ n - m + 1 = 3 /\ m >= 1 /\ n <= Len(s)
        /\ m + 1 - 1 = e - 3 /\ m + 2 - 1 = e - 2 /\ m + 3 - 1 = e - 1
    BY <1>1
  <2>2. \A i \in m .. n : s[i] \in Header!Symbol
    BY <2>1, ElementOfSeq
  <2> HIDE DEF m, n
  <2>3. /\ q \in Seq(Header!Symbol) /\ Len(q) = 3
        /\ \A i \in 1 .. 3 : q[i] = s[m + i - 1]
    <3>1. /\ q \in Seq(Header!Symbol) /\ Len(q) = IF m <= n THEN n - m + 1 ELSE 0
          /\ \A i \in 1 .. n - m + 1 : q[i] = s[m + i - 1]
      BY <2>1, <2>2, SubSeqProperties
    <3> QED BY <2>1, <3>1
  <2>4. q[1] = s[e - 3] /\ q[2] = s[e - 2] /\ q[3] = s[e - 1]
    BY <2>1, <2>3
  <2> HIDE DEF q
  <2>5. q = <<"R", "N", "R">> <=> q[1] = "R" /\ q[2] = "N" /\ q[3] = "R"
    BY <2>3
  <2> QED BY <2>4, <2>5 DEF q, m, n
<1> QED BY <1>1 DEF Header!HeaderEnds

\* What httpURIParser says of the rest of its buffer: an empty line is there, or
\* none is that follows lines of sufficient length.
LEMMA UriCodeSound ==
  ASSUME NEW s \in Seq(Header!Symbol)
  PROVE  /\ Header!httpURIParser(s) = 0 => Header!HeaderEnds(s) # {}
         /\ Header!httpURIParser(s) # 0 => \A e \in Header!HeaderEnds(s) : Header!ShortLine(s, e)
<1> USE HeaderAssumption
<1> DEFINE L == Len(s)
<1>0. L \in Nat /\ MiniSize \in Nat \ {0}
  BY LenProperties
<1>1. PICK code :
           /\ Header!httpURIParser(s) = code[1]
           /\ code = [i \in 1 .. L + 1 |->
                LET nls == {j \in i .. L : s[j] = "N"}
                    p == Header!Min(nls)
                IN IF nls = {} THEN 1
                   ELSE IF p - i < MiniSize THEN 2
                   ELSE IF p + 1 > L THEN 1
                   ELSE IF s[p + 1] = "N" THEN 0
                   ELSE IF p + 2 > L THEN 1
                   ELSE IF <<s[p - 1], s[p + 1], s[p + 2]>> = <<"R", "R", "N">> THEN 0
                   ELSE code[p + 1]]
  BY <1>0, UriCode
<1> DEFINE LineStart(i) == i = 1 \/ s[i - 1] = "N"
           Good(i) == /\ code[i] = 0 => Header!HeaderEnds(s) # {}
                      /\ code[i] # 0 /\ LineStart(i) =>
                           \A e \in Header!HeaderEnds(s) : e >= i + 2 => Header!ShortLine(s, e)
           G == {i \in 1 .. L + 1 : Good(i)}
<1>2. ASSUME NEW i \in 1 .. L + 1, \A j \in i + 1 .. L + 1 : j \in G PROVE i \in G
  <2> DEFINE nls == {j \in i .. L : s[j] = "N"}
             p == Header!Min(nls)
  <2>1. code[i] = IF nls = {} THEN 1
                   ELSE IF p - i < MiniSize THEN 2
                   ELSE IF p + 1 > L THEN 1
                   ELSE IF s[p + 1] = "N" THEN 0
                   ELSE IF p + 2 > L THEN 1
                   ELSE IF <<s[p - 1], s[p + 1], s[p + 2]>> = <<"R", "R", "N">> THEN 0
                   ELSE code[p + 1]
    BY <1>1
  <2>2. nls # {} => p \in i .. L /\ s[p] = "N" /\ \A j \in i .. p - 1 : s[j] # "N"
    BY <1>0, FirstNewLine
  <2>3. nls = {} => \A j \in i .. L : s[j] # "N"
    OBVIOUS
  <2>4. \A e \in i .. L : s[e] = "N" => nls # {}
    OBVIOUS
  <2> HIDE DEF nls
  <2> HIDE DEF p
  <2>5. <<s[p - 1], s[p + 1], s[p + 2]>> = <<"R", "R", "N">> <=> s[p - 1] = "R" /\ s[p + 1] = "R" /\ s[p + 2] = "N"
    OBVIOUS
  <2>6. i \in Nat /\ i >= 1 /\ i <= L + 1
    BY <1>0
  <2>7. ASSUME code[i] = 0 PROVE Header!HeaderEnds(s) # {}
    <3>1. nls # {} /\ p - i >= MiniSize /\ p + 1 <= L
      BY <1>0, <2>1, <2>2, <2>6, <2>7
    <3>2. p \in Nat /\ p >= i + 1 /\ p >= 2 /\ p <= L /\ s[p] = "N"
      BY <1>0, <2>2, <2>6, <3>1
    <3>3. CASE s[p + 1] = "N"
      <4>1. p + 1 \in 2 .. Len(s) /\ (p + 1) - 1 = p
        BY <1>0, <3>1, <3>2
      <4>2. p + 1 \in Header!HeaderEnds(s)
        BY <3>2, <3>3, <4>1, EndShape
      <4> QED BY <4>2
    <3>4. CASE s[p + 1] # "N" /\ p + 2 <= L /\ s[p - 1] = "R" /\ s[p + 1] = "R" /\ s[p + 2] = "N"
      <4> DEFINE e == p + 2
      <4>1. e \in 2 .. Len(s) /\ e - 1 = p + 1 /\ e - 2 = p /\ e - 3 = p - 1 /\ e > 3
        BY <1>0, <3>2, <3>4
      <4>2. s[e] = "N" /\ s[e - 3] = "R" /\ s[e - 2] = "N" /\ s[e - 1] = "R"
        BY <3>2, <3>4, <4>1
      <4> HIDE DEF e
      <4>3. e \in Header!HeaderEnds(s)
        BY <4>1, <4>2, EndShape
      <4> QED BY <4>3
    <3>5. CASE s[p + 1] # "N" /\ ~(p + 2 > L) /\ ~(s[p - 1] = "R" /\ s[p + 1] = "R" /\ s[p + 2] = "N")
      <4>1. code[p + 1] = 0
        BY <1>0, <2>1, <2>5, <2>7, <3>1, <3>2, <3>5
      <4>2. p + 1 \in i + 1 .. L + 1
        BY <1>0, <2>6, <3>2
      <4>3. Good(p + 1)
        BY <1>2, <4>2
      <4> QED BY <4>1, <4>3
    <3>6. s[p + 1] = "N" \/ p + 2 <= L
      BY <1>0, <2>1, <2>7, <3>1, <3>2
    <3>7. p + 2 <= L <=> ~(p + 2 > L)
      BY <1>0, <3>2
    <3> QED BY <3>3, <3>4, <3>5, <3>6, <3>7
  <2>8. ASSUME code[i] # 0, LineStart(i), NEW e \in Header!HeaderEnds(s), e >= i + 2
        PROVE  Header!ShortLine(s, e)
    <3>1. e \in 2 .. L /\ s[e] = "N"
      BY <1>0 DEF Header!HeaderEnds
    <3>2. s[e - 1] = "N" \/ (e > 3 /\ s[e - 3] = "R" /\ s[e - 2] = "N" /\ s[e - 1] = "R")
      BY <3>1, EndShape
    <3>3. e \in i .. L /\ e - 1 \in i .. L /\ e - 2 \in i .. L
      BY <1>0, <2>6, <2>8, <3>1
    <3>4. nls # {} /\ p \in i .. L /\ s[p] = "N" /\ \A j \in i .. p - 1 : s[j] # "N"
      BY <2>2, <2>4, <3>1, <3>3
    <3>5. p <= e - 1
      <4>1. ASSUME NEW x \in i .. L, s[x] = "N" PROVE p <= x
        BY <1>0, <2>6, <3>4, <4>1
      <4>2. p <= e - 1 \/ p <= e - 2
        BY <3>2, <3>3, <4>1
      <4> QED BY <1>0, <2>6, <3>1, <3>4, <4>2
    <3>6. CASE p - i < MiniSize
      <4>1. p \in 1 .. e - 1 /\ i \in 1 .. p
        BY <1>0, <2>6, <3>1, <3>4, <3>5
      <4> QED BY <2>8, <3>4, <3>6, <4>1 DEF Header!ShortLine
    <3>7. CASE ~(p - i < MiniSize)
      <4>1. p \in Nat /\ p >= 2 /\ p <= L /\ ~(p + 1 > L) /\ e \in Nat /\ e <= L
        BY <1>0, <2>6, <3>1, <3>4, <3>5, <3>7
      <4>2. s[p + 1] # "N"
        BY <2>1, <2>8, <3>4, <3>7, <4>1
      <4>3. e # p + 1
        BY <3>1, <4>2
      <4>4. e >= p + 2 /\ ~(p + 2 > L)
        BY <1>0, <3>5, <4>1, <4>3
      <4>5. ~(s[p - 1] = "R" /\ s[p + 1] = "R" /\ s[p + 2] = "N") /\ code[i] = code[p + 1]
        BY <2>1, <2>5, <2>8, <3>4, <3>7, <4>1, <4>2, <4>4
      <4>6. e # p + 2
        <5>1. ASSUME e = p + 2 PROVE e - 1 = p + 1 /\ e - 3 = p - 1
          BY <4>1, <5>1
        <5> QED BY <3>1, <3>2, <4>2, <4>5, <5>1
      <4>7. e >= (p + 1) + 2 /\ (p + 1) - 1 = p /\ p + 1 \in i + 1 .. L + 1
        BY <1>0, <2>6, <3>4, <4>1, <4>4, <4>6
      <4>8. Good(p + 1)
        BY <1>2, <4>7
      <4> QED BY <2>8, <3>4, <4>5, <4>7, <4>8
    <3> QED BY <3>6, <3>7
  <2> QED BY <2>7, <2>8
<1> HIDE DEF Good
<1>3. 1 \in G
  <2> DEFINE n == L + 1
  <2>1. n \in Nat /\ 1 \in 1 .. n
    BY <1>0
  <2>2. \A i \in 1 .. n : (\A j \in i + 1 .. n : j \in G) => i \in G
    BY <1>2
  <2> HIDE DEF n, G
  <2>3. 1 .. n \subseteq G
    BY <2>1, <2>2, BackwardInduction
  <2> QED BY <2>1, <2>3
<1>4. Good(1)
  BY <1>3
<1>5. ASSUME Header!httpURIParser(s) # 0, NEW e \in Header!HeaderEnds(s) PROVE Header!ShortLine(s, e)
  <2>1. e \in 2 .. L /\ s[e] = "N"
    BY <1>0 DEF Header!HeaderEnds
  <2>2. CASE e = 2
    <3>1. s[1] = "N"
      BY <2>1, <2>2, EndShape
    <3>2. 1 \in 1 .. e - 1 /\ 1 \in 1 .. 1 /\ 1 - 1 < MiniSize /\ \A j \in 1 .. 1 - 1 : s[j] # "N"
      BY <1>0, <2>2
    <3> QED BY <3>1, <3>2 DEF Header!ShortLine
  <2>3. CASE e # 2
    <3>1. e >= 1 + 2
      BY <1>0, <2>1, <2>3
    <3> QED BY <1>1, <1>4, <1>5, <3>1 DEF Good
  <2> QED BY <2>2, <2>3
<1> QED BY <1>1, <1>4, <1>5 DEF Good

\* An end of a header in the end of s is one in s.
LEMMA EndsOfSuffix ==
  ASSUME NEW s \in Seq(Header!Symbol), NEW b \in Nat, b <= Len(s),
         Header!HeaderEnds(SubSeq(s, Len(s) - b + 1, Len(s))) # {}
  PROVE  Header!HeaderEnds(s) # {}
<1> DEFINE L == Len(s)
           m == L - b + 1
           q == SubSeq(s, m, L)
           o == L - b
<1>1. L \in Nat /\ m \in Int /\ L \in Int /\ m >= 1 /\ m = o + 1 /\ o \in Nat /\ L - m + 1 = b /\ (m <= L <=> b # 0)
  BY LenProperties
<1>2. \A i \in m .. L : s[i] \in Header!Symbol
  BY <1>1, ElementOfSeq
<1>3. PICK e : e \in Header!HeaderEnds(q)
  OBVIOUS
<1> HIDE DEF L, m, o
<1>4. /\ q \in Seq(Header!Symbol) /\ Len(q) = b
      /\ \A i \in 1 .. b : q[i] = s[o + i]
  <2>1. /\ q \in Seq(Header!Symbol) /\ Len(q) = IF m <= L THEN L - m + 1 ELSE 0
        /\ \A i \in 1 .. L - m + 1 : q[i] = s[m + i - 1]
    BY <1>1, <1>2, SubSeqProperties
  <2> HIDE DEF q
  <2>2. \A i \in 1 .. b : m + i - 1 = o + i
    BY <1>1
  <2> QED BY <1>1, <2>1, <2>2
<1> HIDE DEF q
<1>5. e \in 2 .. b
  BY <1>3, <1>4 DEF Header!HeaderEnds
<1>6. q[e] = "N" /\ (q[e - 1] = "N" \/ (e > 3 /\ q[e - 3] = "R" /\ q[e - 2] = "N" /\ q[e - 1] = "R"))
  BY <1>3, <1>4, <1>5, EndShape
<1>7. /\ q[e] = s[o + e] /\ q[e - 1] = s[(o + e) - 1]
      /\ e > 3 => o + e > 3 /\ q[e - 2] = s[(o + e) - 2] /\ q[e - 3] = s[(o + e) - 3]
  <2>1. /\ e \in 1 .. b /\ e - 1 \in 1 .. b /\ o + (e - 1) = (o + e) - 1
        /\ e > 3 => /\ o + e > 3 /\ e - 2 \in 1 .. b /\ o + (e - 2) = (o + e) - 2
                    /\ e - 3 \in 1 .. b /\ o + (e - 3) = (o + e) - 3
    BY <1>1, <1>5
  <2> QED BY <1>4, <2>1
<1>8. o + e \in 2 .. Len(s)
  BY <1>1, <1>5 DEF L, o
<1>9. o + e \in Header!HeaderEnds(s)
  BY <1>6, <1>7, <1>8, EndShape
<1> QED BY <1>9

\* The buffer holds the end of what was read, all of it until it is recycled,
\* and the last answer of httpURIParser is known when the service is done and
\* when it reads on.
HeadInv ==
  /\ got \in Seq(Header!Symbol) /\ stream \in Seq(Header!Symbol)
  /\ bufiobytes \in Nat /\ bufiobytes <= Len(got)
  /\ ~recycled => bufiobytes = Len(got)
  /\ fpc = "done" => Header!httpURIParser(Header!Buf) = 0
  /\ fpc = "read" /\ ~recycled /\ Len(got) >= MiniSize => Header!httpURIParser(got) # 0

LEMMA HeadInvariance == Header!Spec => []HeadInv
<1> USE HeaderAssumption
<1>0. HeaderSize \in Nat /\ MiniSize \in Nat /\ TailSize \in Nat /\ MiniSize > 0 /\ TailSize < HeaderSize
  OBVIOUS
<1>1. Header!Init => HeadInv
  <2> SUFFICES ASSUME Header!Init PROVE HeadInv
    OBVIOUS
  <2>1. PICK n \in 1 .. MaxWire : stream \in [1 .. n -> Header!Symbol]
    BY DEF Header!Init
  <2>2. n \in Nat
    OBVIOUS
  <2>3. stream \in Seq(Header!Symbol)
    BY <2>1, <2>2, FunctionSeq
  <2>4. got = <<>> /\ bufiobytes = 0 /\ recycled = FALSE /\ fpc = "read"
    BY DEF Header!Init
  <2>5. got \in Seq(Header!Symbol) /\ Len(got) = 0
    BY <2>4
  <2> QED BY <1>0, <2>3, <2>4, <2>5 DEF HeadInv
<1>2. HeadInv /\ [Header!Next]_(Header!vars) => HeadInv'
  <2> SUFFICES ASSUME HeadInv, [Header!Next]_(Header!vars) PROVE HeadInv'
    OBVIOUS
  <2>0. /\ got \in Seq(Header!Symbol) /\ Len(got) \in Nat /\ stream \in Seq(Header!Symbol) /\ Len(stream) \in Nat
        /\ bufiobytes \in Nat /\ bufiobytes <= Len(got) /\ (~recycled => bufiobytes = Len(got))
    BY DEF HeadInv
  <2>1. CASE Header!Read
    <3>1. PICK n \in 1 .. Len(stream) :
             /\ got' = got \o SubSeq(stream, 1, n) /\ stream' = SubSeq(stream, n + 1, Len(stream))
             /\ bufiobytes' = bufiobytes + n
      BY <2>1 DEF Header!Read
    <3>2. fpc' = "parse" /\ recycled' = recycled
      BY <2>1 DEF Header!Read
    <3>3. /\ SubSeq(stream, 1, n) \in Seq(Header!Symbol) /\ Len(SubSeq(stream, 1, n)) = n
          /\ SubSeq(stream, n + 1, Len(stream)) \in Seq(Header!Symbol)
      <4>1. \A i \in 1 .. Len(stream) : stream[i] \in Header!Symbol
        BY <2>0, ElementOfSeq
      <4> QED BY <2>0, <3>1, <4>1, SubSeqProperties
    <3>4. got' \in Seq(Header!Symbol) /\ Len(got') = Len(got) + n
      <4> DEFINE a == SubSeq(stream, 1, n)
      <4>1. a \in Seq(Header!Symbol) /\ Len(a) = n /\ got' = got \o a
        BY <3>1, <3>3
      <4> HIDE DEF a
      <4> QED BY <2>0, <4>1, ConcatProperties
    <3>5. bufiobytes' \in Nat /\ bufiobytes' <= Len(got') /\ (~recycled' => bufiobytes' = Len(got'))
      <4>1. bufiobytes' = bufiobytes + n /\ n \in Nat
        BY <3>1
      <4>2. bufiobytes + n \in Nat /\ bufiobytes + n <= Len(got) + n /\ (~recycled => bufiobytes + n = Len(got) + n)
        BY <2>0, <4>1
      <4> QED BY <3>2, <3>4, <4>1, <4>2
    <3> QED BY <3>1, <3>2, <3>3, <3>4, <3>5 DEF HeadInv
  <2>2. CASE Header!ReadNothing
    <3>1. UNCHANGED <<stream, got, bufiobytes, recycled>> /\ (fpc' = fpc \/ fpc' = "closed")
      BY <2>2 DEF Header!ReadNothing
    <3> QED BY <3>1 DEF HeadInv, Header!Buf
  <2>3. CASE Header!ReadError
    BY <2>3 DEF Header!ReadError, HeadInv
  <2>4. CASE Header!NeedMore
    <3>1. UNCHANGED <<stream, got, bufiobytes, recycled>> /\ fpc' = "read" /\ ~(Len(got) >= MiniSize)
      BY <1>0, <2>0, <2>4 DEF Header!NeedMore
    <3> QED BY <3>1 DEF HeadInv
  <2>5. CASE Header!NotAllowed
    BY <2>5 DEF Header!NotAllowed, HeadInv
  <2>6. CASE Header!Found
    <3>1. /\ UNCHANGED <<stream, got, bufiobytes, recycled>> /\ fpc' = "done"
          /\ Header!httpURIParser(Header!Buf) = 0
      BY <2>6 DEF Header!Found
    <3> QED BY <3>1 DEF HeadInv, Header!Buf
  <2>7. CASE Header!ReadMore
    <3>1. /\ UNCHANGED <<stream, got>> /\ fpc' # "done" /\ Header!httpURIParser(Header!Buf) # 0
      BY <2>7 DEF Header!ReadMore
    <3>2. CASE bufiobytes' = TailSize /\ recycled' = TRUE /\ bufiobytes >= HeaderSize
      BY <1>0, <2>0, <3>1, <3>2 DEF HeadInv
    <3>3. CASE UNCHANGED <<bufiobytes, recycled>>
      <4>1. ~recycled => Header!Buf = got
        BY <2>0, SubSeqFull, SMTT(60) DEF Header!Buf
      <4> QED BY <2>0, <3>1, <3>3, <4>1 DEF HeadInv
    <3>4. (bufiobytes' = TailSize /\ recycled' = TRUE /\ bufiobytes >= HeaderSize) \/ UNCHANGED <<bufiobytes, recycled>>
      BY <2>7 DEF Header!ReadMore
    <3> QED BY <3>2, <3>3, <3>4
  <2>8. CASE UNCHANGED Header!vars
    BY <2>8 DEF HeadInv, Header!vars, Header!Buf
  <2> QED BY <2>1, <2>2, <2>3, <2>4, <2>5, <2>6, <2>7, <2>8 DEF Header!Next
<1> QED BY <1>1, <1>2, PTL DEF Header!Spec

\* tinyhttpservice takes a request for complete only when an empty line has
\* arrived, and while it reads on it has overlooked none that follows lines of
\* sufficient length in a buffer that was not recycled: for every stream, every
\* way the network cuts it and every size of the buffers.
THEOREM HeaderEndCorrect == Header!Spec => []HeaderEndExact
<1>1. HeadInv => HeaderEndExact
  <2> SUFFICES ASSUME HeadInv PROVE HeaderEndExact
    OBVIOUS
  <2>0. got \in Seq(Header!Symbol) /\ Len(got) \in Nat /\ bufiobytes \in Nat /\ bufiobytes <= Len(got)
    BY DEF HeadInv
  <2>1. ASSUME fpc = "done" PROVE Header!HeaderEnds(got) # {}
    <3> DEFINE m == Len(got) - bufiobytes + 1
               n == Len(got)
    <3>1. m \in Int /\ n \in Int /\ \A i \in m .. n : got[i] \in Header!Symbol
      BY <2>0, ElementOfSeq
    <3>2. Header!Buf = SubSeq(got, m, n)
      BY DEF Header!Buf
    <3> HIDE DEF m, n
    <3>3. Header!Buf \in Seq(Header!Symbol)
      BY <3>1, <3>2, SubSeqProperties
    <3>4. Header!HeaderEnds(Header!Buf) # {}
      BY <2>1, <3>3, UriCodeSound DEF HeadInv
    <3> QED BY <2>0, <3>2, <3>4, EndsOfSuffix DEF m, n
  <2>2. ASSUME fpc = "read", ~recycled, Len(got) >= MiniSize, NEW e \in Header!HeaderEnds(got)
        PROVE  Header!ShortLine(got, e)
    BY <2>0, <2>2, UriCodeSound DEF HeadInv
  <2> QED BY <2>1, <2>2 DEF HeaderEndExact, Header!HeaderEndExact
<1> QED BY <1>1, HeadInvariance, PTL

(***************************************************************************)
(* The room in the buffers FastHttpParse reads into.                       *)
(***************************************************************************)
\* Nothing has been read at first, and a method does not fit into nothing.
LEMMA RoomInit ==
    ASSUME Header!SizesFit, Header!Init PROVE Header!RoomInv
<1>1. stream \in Seq(Header!Symbol)
  <2>1. PICK n \in 1 .. MaxWire : stream \in [1 .. n -> Header!Symbol] BY DEF Header!Init
  <2>2. n \in Nat OBVIOUS
  <2> QED BY <2>1, <2>2
<1>2. got = <<>> /\ got \in Seq(Header!Symbol) /\ Len(got) = 0 BY DEF Header!Init
<1>3. bufiobytes = 0 /\ methodok = FALSE /\ fpc = "read" BY DEF Header!Init
<1>4. 0 < MiniSize /\ 0 <= MethodSize /\ 0 < HeaderSize /\ 0 < MaxRead BY DEF Header!SizesFit
<1>5. /\ bufiobytes \in Nat /\ bufiobytes <= HeaderSize
      /\ bufiobytes = Len(got) /\ bufiobytes <= MethodSize /\ bufiobytes < MiniSize
      /\ Len(got) < MaxRead /\ Len(got) < MaxRead + HeaderSize
  BY <1>2, <1>3, <1>4 DEF Header!SizesFit
<1> QED BY <1>1, <1>2, <1>3, <1>5, Zenon DEF Header!RoomInv

\* A read takes at most the room there is; whatever follows it leaves a buffer
\* that is not full or reads no more.
LEMMA RoomStep ==
    ASSUME Header!SizesFit, Header!RoomInv, [Header!Next]_(Header!vars) PROVE Header!RoomInv'
<1> USE DEF Header!SizesFit
<1>1. CASE Header!Read
  <2>1. PICK n \in 1 .. Len(stream) :
           /\ n <= Header!Room
           /\ got' = got \o SubSeq(stream, 1, n) /\ stream' = SubSeq(stream, n + 1, Len(stream))
           /\ bufiobytes' = bufiobytes + n
    BY <1>1 DEF Header!Read
  <2>2. /\ SubSeq(stream, 1, n) \in Seq(Header!Symbol) /\ Len(SubSeq(stream, 1, n)) = n
        /\ stream' \in Seq(Header!Symbol)
    BY <2>1 DEF Header!RoomInv
  <2>3. got' \in Seq(Header!Symbol) /\ Len(got') = Len(got) + n BY <2>1, <2>2 DEF Header!RoomInv
  <2>4. n \in Nat /\ n <= (IF methodok THEN HeaderSize ELSE MethodSize) - bufiobytes BY <2>1 DEF Header!Room, Header!RoomInv
  <2>5. fpc = "read" /\ fpc' = "parse" /\ methodok' = methodok BY <1>1 DEF Header!Read
  <2>6. bufiobytes' \in Nat /\ bufiobytes' = bufiobytes + n BY <2>1, <2>4 DEF Header!RoomInv
  <2>7. Len(got) \in Nat /\ Len(got) < MaxRead BY <2>5 DEF Header!RoomInv
  <2>8. ~methodok => bufiobytes' = Len(got') /\ bufiobytes' <= MethodSize BY <2>3, <2>4, <2>6, SMTT(60) DEF Header!RoomInv
  <2>9. methodok => MiniSize <= Len(got') BY <2>3, <2>4, <2>7 DEF Header!RoomInv
  <2>10. bufiobytes' <= HeaderSize BY <2>4, <2>6 DEF Header!RoomInv
  <2>11. Len(got') < MaxRead + HeaderSize BY <2>3, <2>4, <2>7 DEF Header!RoomInv
  <2> QED BY <2>2, <2>3, <2>5, <2>6, <2>8, <2>9, <2>10, <2>11 DEF Header!RoomInv
<1>2. CASE Header!ReadNothing BY <1>2 DEF Header!ReadNothing, Header!RoomInv
<1>3. CASE Header!ReadError BY <1>3 DEF Header!ReadError, Header!RoomInv
<1>4. CASE Header!NeedMore BY <1>4 DEF Header!NeedMore, Header!RoomInv
<1>5. CASE Header!NotAllowed BY <1>5 DEF Header!NotAllowed, Header!RoomInv
<1>6. CASE Header!Found BY <1>6 DEF Header!Found, Header!RoomInv
<1>7. CASE Header!ReadMore BY <1>7 DEF Header!ReadMore, Header!RoomInv
<1>8. CASE UNCHANGED Header!vars BY <1>8 DEF Header!vars, Header!RoomInv
<1> QED BY <1>1, <1>2, <1>3, <1>4, <1>5, <1>6, <1>7, <1>8 DEF Header!Next

\* tinyhttpservice never calls Read with an empty slice, which would return
\* nothing and be counted as an idle peer, and reads less than one header
\* buffer beyond HTTP_MAX_HEADER_READ_SIZE.
THEOREM RoomCorrect ==
    ASSUME Header!SizesFit PROVE Header!Spec => []Header!RoomToRead
<1>1. Header!Init => Header!RoomInv BY RoomInit
<1>2. Header!RoomInv /\ [Header!Next]_(Header!vars) => Header!RoomInv' BY RoomStep
<1>3. Header!RoomInv => Header!RoomToRead BY DEF Header!RoomInv, Header!RoomToRead, Header!Room, Header!SizesFit
<1> QED BY <1>1, <1>2, <1>3, PTL DEF Header!Spec

(***************************************************************************)
(* HttpRead.  The lines before seek are complete, and no read that follows *)
(* changes what they are.                                                  *)
(***************************************************************************)
LEMMA ReaderMin ==
  ASSUME NEW T, T \subseteq Nat, NEW m \in T, \A j \in T : m <= j
  PROVE  Reader!Min(T) = m
<1>1. \A x \in T : (\A y \in T : x <= y) => x = m
  OBVIOUS
<1> QED BY <1>1 DEF Reader!Min

\* NewLine(s, i) is the first \n from i on.
LEMMA NewLineIs ==
  ASSUME NEW s, Len(s) \in Nat, NEW i \in 1 .. Len(s) + 1, NEW p \in i .. Len(s),
         s[p] = "N", \A j \in i .. p - 1 : s[j] # "N"
  PROVE  Reader!NewLine(s, i) = p
<1> DEFINE T == {j \in i .. Len(s) : s[j] = "N"}
<1>1. T \subseteq Nat /\ p \in T /\ T # {}
  OBVIOUS
<1>2. ASSUME NEW j \in T PROVE p <= j
  <2>1. j \in i .. Len(s) /\ s[j] = "N"
    OBVIOUS
  <2> HIDE DEF T
  <2> QED BY <2>1
<1>3. Reader!NewLine(s, i) = Reader!Min(T)
  BY <1>1 DEF Reader!NewLine
<1> HIDE DEF T
<1> QED BY <1>1, <1>2, <1>3, ReaderMin

LEMMA NewLineFirst ==
  ASSUME NEW s, Len(s) \in Nat, NEW i \in 1 .. Len(s) + 1
  PROVE  LET nl == Reader!NewLine(s, i)
         IN  /\ nl # 0 => nl \in i .. Len(s) /\ s[nl] = "N" /\ \A j \in i .. nl - 1 : s[j] # "N"
             /\ nl = 0 => \A j \in i .. Len(s) : s[j] # "N"
<1> DEFINE T == {j \in i .. Len(s) : s[j] = "N"}
<1>1. CASE T = {}
  BY <1>1 DEF Reader!NewLine
<1>2. CASE T # {}
  <2>1. T \subseteq Nat
    OBVIOUS
  <2>2. PICK p \in T : \A j \in T : p <= j
    <3> HIDE DEF T
    <3> QED BY <1>2, <2>1, LeastNatural
  <2>3. p \in i .. Len(s) /\ s[p] = "N"
    OBVIOUS
  <2>4. ASSUME NEW j \in i .. p - 1 PROVE s[j] # "N"
    <3>1. j \in i .. Len(s) /\ ~(p <= j)
      BY <2>3
    <3> QED BY <2>2, <3>1
  <2>5. Reader!NewLine(s, i) = p
    BY <2>3, <2>4, NewLineIs
  <2> HIDE DEF T
  <2>6. p # 0
    BY <2>3
  <2> QED BY <2>3, <2>4, <2>5, <2>6
<1> QED BY <1>1, <1>2

\* The lines that begin before b, when one begins at b, are complete and stay
\* as they are in every t that s is a prefix of.
LEMMA LinesBefore ==
  ASSUME NEW s, NEW t, Len(s) \in Nat, Len(t) \in Nat, Len(s) <= Len(t), \A j \in 1 .. Len(s) : t[j] = s[j],
         NEW b \in 1 .. Len(s) + 1, b = 1 \/ s[b - 1] = "N", NEW i \in 1 .. b - 1
  PROVE  /\ s[i] = t[i]
         /\ i \in Reader!LineStarts(t) <=> i \in Reader!LineStarts(s)
         /\ i \in Reader!Empty(t) <=> i \in Reader!Empty(s)
<1> DEFINE p == Reader!NewLine(s, i)
<1>1. i \in 1 .. Len(s) /\ i \in 1 .. Len(t) /\ i \in 1 .. Len(s) + 1 /\ i \in 1 .. Len(t) + 1
  OBVIOUS
<1>2. b - 1 \in i .. Len(s) /\ s[b - 1] = "N"
  OBVIOUS
<1>3. p # 0 /\ p \in i .. Len(s) /\ s[p] = "N" /\ \A j \in i .. p - 1 : s[j] # "N"
  BY <1>1, <1>2, NewLineFirst
<1> HIDE DEF p
<1>4. p \in i .. Len(t) /\ p \in 1 .. Len(s) /\ \A j \in i .. p - 1 : j \in 1 .. Len(s)
  BY <1>1, <1>3
<1>5. t[p] = "N" /\ \A j \in i .. p - 1 : t[j] # "N"
  BY <1>3, <1>4
<1>6. Reader!NewLine(t, i) = p
  BY <1>1, <1>4, <1>5, NewLineIs
<1>7. t[i] = s[i] /\ (i = 1 \/ t[i - 1] = s[i - 1])
  <2>1. i = 1 \/ i - 1 \in 1 .. Len(s)
    BY <1>1
  <2> QED BY <1>1, <2>1
<1>8. i \in Reader!LineStarts(t) <=> i \in Reader!LineStarts(s)
  BY <1>1, <1>3, <1>6, <1>7 DEF Reader!LineStarts, p
<1> QED BY <1>6, <1>7, <1>8 DEF Reader!Empty, Reader!EmptyLine, p

\* One line begins at b and the next behind its \n.
LEMMA OneLine ==
  ASSUME NEW s, Len(s) \in Nat, NEW b \in 1 .. Len(s) + 1, b = 1 \/ s[b - 1] = "N",
         Reader!NewLine(s, b) # 0
  PROVE  LET nl == Reader!NewLine(s, b)
         IN  /\ nl \in b .. Len(s) /\ s[nl] = "N" /\ b \in 1 .. Len(s)
             /\ b \in Reader!LineStarts(s)
             /\ b \in Reader!Empty(s) <=> Reader!EmptyLine(s, b, nl)
             /\ \A i \in b + 1 .. nl : i \notin Reader!LineStarts(s) /\ i \notin Reader!Empty(s)
<1> DEFINE nl == Reader!NewLine(s, b)
<1>1. nl \in b .. Len(s) /\ s[nl] = "N" /\ \A j \in b .. nl - 1 : s[j] # "N"
  BY NewLineFirst
<1>2. b \in 1 .. Len(s)
  <2> HIDE DEF nl
  <2> QED BY <1>1
<1>3. b \in Reader!LineStarts(s)
  BY <1>2 DEF Reader!LineStarts
<1>4. b \in Reader!Empty(s) <=> Reader!EmptyLine(s, b, nl)
  BY <1>3 DEF Reader!Empty
<1> HIDE DEF nl
<1>5. ASSUME NEW i \in b + 1 .. nl PROVE i \notin Reader!LineStarts(s) /\ i \notin Reader!Empty(s)
  <2>1. i # 1 /\ i - 1 \in b .. nl - 1
    BY <1>1, <1>2
  <2>2. s[i - 1] # "N"
    BY <1>1, <2>1
  <2> QED BY <2>1, <2>2 DEF Reader!LineStarts, Reader!Empty
<1> QED BY <1>1, <1>2, <1>3, <1>4, <1>5 DEF nl

\* What httpReadRequest knows of the lines before b: while it looks for the
\* protocol line that they are empty, then where the protocol line is and that
\* no empty line followed it.
OnlyEmpty(s, b) ==
  \A i \in 1 .. b - 1 : s[i] \in {"N", "R"} /\ (i \in Reader!LineStarts(s) => i \in Reader!Empty(s))
RequestAt(s, r, b) ==
  /\ r \in 1 .. b - 1 /\ r \in Reader!LineStarts(s) /\ r \notin Reader!Empty(s)
  /\ \A i \in 1 .. r - 1 : i \in Reader!LineStarts(s) => i \in Reader!Empty(s)
  /\ \A i \in r + 1 .. b - 1 : i \notin Reader!Empty(s)
  /\ s[r] = "G"

\* The protocol line is the first line that is not empty.
LEMMA RequestIs ==
  ASSUME NEW s, NEW r \in Nat, r \in Reader!LineStarts(s), r \notin Reader!Empty(s),
         \A i \in 1 .. r - 1 : i \in Reader!LineStarts(s) => i \in Reader!Empty(s)
  PROVE  Reader!RequestLine(s) = r /\ Reader!LineStarts(s) \ Reader!Empty(s) # {}
<1> DEFINE T == Reader!LineStarts(s) \ Reader!Empty(s)
<1>1. T \subseteq Nat /\ r \in T
  BY DEF Reader!LineStarts
<1>2. ASSUME NEW j \in T PROVE r <= j
  <2>1. j \in Nat /\ j >= 1 /\ j \in Reader!LineStarts(s) /\ j \notin Reader!Empty(s)
    BY DEF Reader!LineStarts
  <2>2. j \notin 1 .. r - 1
    BY <2>1
  <2> HIDE DEF T
  <2> QED BY <2>1, <2>2
<1> HIDE DEF T
<1>3. Reader!Min(T) = r
  BY <1>1, <1>2, ReaderMin
<1> QED BY <1>1, <1>3 DEF Reader!RequestLine, T

\* None of it changes when s grows.
LEMMA LinesStay ==
  ASSUME NEW s, NEW t, Len(s) \in Nat, Len(t) \in Nat, Len(s) <= Len(t), \A j \in 1 .. Len(s) : t[j] = s[j],
         NEW b \in 1 .. Len(s) + 1, b = 1 \/ s[b - 1] = "N"
  PROVE  /\ OnlyEmpty(s, b) => OnlyEmpty(t, b)
         /\ \A r : RequestAt(s, r, b) => RequestAt(t, r, b)
<1>1. \A i \in 1 .. b - 1 : /\ s[i] = t[i]
                            /\ i \in Reader!LineStarts(t) <=> i \in Reader!LineStarts(s)
                            /\ i \in Reader!Empty(t) <=> i \in Reader!Empty(s)
  BY LinesBefore
<1>2. OnlyEmpty(s, b) => OnlyEmpty(t, b)
  BY <1>1 DEF OnlyEmpty
<1>3. ASSUME NEW r, RequestAt(s, r, b) PROVE RequestAt(t, r, b)
  <2>1. r \in 1 .. b - 1 /\ \A i \in 1 .. r - 1 : i \in 1 .. b - 1
    BY <1>3 DEF RequestAt
  <2>2. \A i \in r + 1 .. b - 1 : i \in 1 .. b - 1
    BY <2>1
  <2> QED BY <1>1, <1>3, <2>1, <2>2 DEF RequestAt
<1> QED BY <1>2, <1>3

ReadInv ==
  /\ raw \in Seq(Reader!Symbol) /\ wire \in Seq(Reader!Symbol)
  /\ seek \in 1 .. Len(raw) + 1 /\ (seek = 1 \/ raw[seek - 1] = "N")
  /\ ~methodOk => OnlyEmpty(raw, seek)
  /\ methodOk => \E r : RequestAt(raw, r, seek)
  /\ rpc \in {"read", "method", "headers"} => state = "ReadHeader"
  /\ VerdictSound

\* An empty line is skipped: the lines before the next one are still empty.
LEMMA SkipOne ==
  ASSUME NEW s, Len(s) \in Nat, NEW b \in 1 .. Len(s) + 1, b = 1 \/ s[b - 1] = "N", OnlyEmpty(s, b),
         Reader!NewLine(s, b) # 0, Reader!EmptyLine(s, b, Reader!NewLine(s, b))
  PROVE  OnlyEmpty(s, Reader!NewLine(s, b) + 1)
<1> DEFINE nl == Reader!NewLine(s, b)
<1>1. /\ nl \in b .. Len(s) /\ s[nl] = "N"
      /\ b \in Reader!Empty(s)
      /\ \A i \in b + 1 .. nl : i \notin Reader!LineStarts(s)
  BY OneLine
<1>2. nl = b \/ (nl = b + 1 /\ s[b] = "R")
  BY DEF Reader!EmptyLine
<1> HIDE DEF nl
<1> SUFFICES ASSUME NEW i \in 1 .. (nl + 1) - 1
             PROVE  s[i] \in {"N", "R"} /\ (i \in Reader!LineStarts(s) => i \in Reader!Empty(s))
  BY DEF OnlyEmpty, nl
<1>3. CASE i \in 1 .. b - 1
  BY <1>3 DEF OnlyEmpty
<1>4. CASE i = b
  BY <1>1, <1>2, <1>4
<1>5. CASE i \in b + 1 .. nl
  <2>1. i = nl
    BY <1>1, <1>2, <1>5
  <2> QED BY <1>1, <1>5, <2>1
<1> QED BY <1>1, <1>3, <1>4, <1>5

\* The first line that is not empty is the protocol line.
LEMMA FirstLine ==
  ASSUME NEW s, Len(s) \in Nat, NEW b \in 1 .. Len(s) + 1, b = 1 \/ s[b - 1] = "N", OnlyEmpty(s, b),
         Reader!NewLine(s, b) # 0, ~Reader!EmptyLine(s, b, Reader!NewLine(s, b))
  PROVE  /\ Reader!RequestLine(s) = b
         /\ s[b] = "G" => RequestAt(s, b, Reader!NewLine(s, b) + 1)
<1> DEFINE nl == Reader!NewLine(s, b)
<1>1. /\ nl \in b .. Len(s) /\ b \in 1 .. Len(s)
      /\ b \in Reader!LineStarts(s) /\ b \notin Reader!Empty(s)
      /\ \A i \in b + 1 .. nl : i \notin Reader!Empty(s)
  BY OneLine
<1>2. \A i \in 1 .. b - 1 : i \in Reader!LineStarts(s) => i \in Reader!Empty(s)
  BY DEF OnlyEmpty
<1> HIDE DEF nl
<1>3. b \in 1 .. (nl + 1) - 1 /\ (nl + 1) - 1 = nl
  BY <1>1
<1>4. Reader!RequestLine(s) = b
  BY <1>1, <1>2, RequestIs
<1>5. s[b] = "G" => RequestAt(s, b, nl + 1)
  BY <1>1, <1>2, <1>3 DEF RequestAt
<1> QED BY <1>4, <1>5 DEF nl

\* A header line that is not empty is passed, an empty one is the first after
\* the protocol line.
LEMMA NextLine ==
  ASSUME NEW s, Len(s) \in Nat, NEW b \in 1 .. Len(s) + 1, b = 1 \/ s[b - 1] = "N",
         NEW r, RequestAt(s, r, b), Reader!NewLine(s, b) # 0
  PROVE  /\ ~Reader!EmptyLine(s, b, Reader!NewLine(s, b)) => RequestAt(s, r, Reader!NewLine(s, b) + 1)
         /\ Reader!EmptyLine(s, b, Reader!NewLine(s, b)) =>
              LET after == {i \in Reader!Empty(s) : i > Reader!RequestLine(s)}
              IN  after # {} /\ Reader!Min(after) = b
         /\ Reader!RequestLine(s) = r /\ Reader!LineStarts(s) \ Reader!Empty(s) # {}
<1> DEFINE nl == Reader!NewLine(s, b)
<1>1. /\ nl \in b .. Len(s) /\ b \in 1 .. Len(s)
      /\ b \in Reader!Empty(s) <=> Reader!EmptyLine(s, b, nl)
      /\ \A i \in b + 1 .. nl : i \notin Reader!Empty(s)
  BY OneLine
<1>2. /\ r \in 1 .. b - 1 /\ r \in Reader!LineStarts(s) /\ r \notin Reader!Empty(s)
      /\ \A i \in 1 .. r - 1 : i \in Reader!LineStarts(s) => i \in Reader!Empty(s)
      /\ \A i \in r + 1 .. b - 1 : i \notin Reader!Empty(s)
      /\ s[r] = "G"
  BY DEF RequestAt
<1>3. Reader!RequestLine(s) = r /\ Reader!LineStarts(s) \ Reader!Empty(s) # {}
  <2>1. r \in Nat
    BY <1>2
  <2> QED BY <1>2, <2>1, RequestIs
<1> HIDE DEF nl
<1>4. ASSUME ~Reader!EmptyLine(s, b, nl) PROVE RequestAt(s, r, nl + 1)
  <2>1. r \in 1 .. (nl + 1) - 1
    BY <1>1, <1>2
  <2>2. ASSUME NEW i \in r + 1 .. (nl + 1) - 1 PROVE i \notin Reader!Empty(s)
    <3>1. i \in r + 1 .. b - 1 \/ i = b \/ i \in b + 1 .. nl
      BY <1>1, <1>2
    <3> QED BY <1>1, <1>2, <1>4, <3>1
  <2> QED BY <1>2, <2>1, <2>2 DEF RequestAt
<1>5. ASSUME Reader!EmptyLine(s, b, nl)
      PROVE  LET after == {i \in Reader!Empty(s) : i > Reader!RequestLine(s)}
             IN  after # {} /\ Reader!Min(after) = b
  <2> DEFINE T == {i \in Reader!Empty(s) : i > Reader!RequestLine(s)}
  <2>1. T \subseteq Nat
    BY DEF Reader!Empty, Reader!LineStarts
  <2>2. b \in T
    BY <1>1, <1>2, <1>3, <1>5
  <2>3. ASSUME NEW j \in T PROVE b <= j
    <3>1. j \in Nat /\ j > r /\ j \in Reader!Empty(s)
      BY <1>3, <2>1
    <3>2. j \notin r + 1 .. b - 1
      BY <1>2, <3>1
    <3> HIDE DEF T
    <3> QED BY <1>2, <3>1, <3>2
  <2> HIDE DEF T
  <2>4. Reader!Min(T) = b
    BY <2>1, <2>2, <2>3, ReaderMin
  <2> QED BY <2>2, <2>4 DEF T
<1> QED BY <1>3, <1>4, <1>5 DEF nl

\* The verdict is about raw, and a state that is no verdict says nothing.
LEMMA NoVerdict ==
  ASSUME state \notin {"PaseDone", "400", "405"} PROVE VerdictSound
BY DEF VerdictSound, Reader!DoneSound, Reader!RejectSound

LEMMA ReadInvariance == Reader!Spec => []ReadInv
<1> USE ReaderAssumption
<1>1. Reader!Init => ReadInv
  <2> SUFFICES ASSUME Reader!Init PROVE ReadInv
    OBVIOUS
  <2>1. PICK n \in 1 .. MaxLen : wire \in [1 .. n -> Reader!Symbol]
    BY DEF Reader!Init
  <2>2. n \in Nat
    OBVIOUS
  <2>3. wire \in Seq(Reader!Symbol)
    BY <2>1, <2>2, FunctionSeq
  <2>4. raw = <<>> /\ seek = 1 /\ methodOk = FALSE /\ rpc = "read" /\ state = "ReadHeader"
    BY DEF Reader!Init
  <2>5. raw \in Seq(Reader!Symbol) /\ Len(raw) = 0
    BY <2>4
  <2>6. seek \in 1 .. Len(raw) + 1 /\ OnlyEmpty(raw, seek)
    BY <2>4, <2>5 DEF OnlyEmpty
  <2>7. VerdictSound
    BY <2>4, NoVerdict
  <2> QED BY <2>3, <2>4, <2>5, <2>6, <2>7 DEF ReadInv
<1>2. ReadInv /\ [Reader!Next]_(Reader!vars) => ReadInv'
  <2> SUFFICES ASSUME ReadInv, [Reader!Next]_(Reader!vars) PROVE ReadInv'
    OBVIOUS
  <2>0. /\ raw \in Seq(Reader!Symbol) /\ Len(raw) \in Nat /\ wire \in Seq(Reader!Symbol) /\ Len(wire) \in Nat
        /\ seek \in 1 .. Len(raw) + 1 /\ (seek = 1 \/ raw[seek - 1] = "N")
        /\ ~methodOk => OnlyEmpty(raw, seek)
        /\ methodOk => \E r : RequestAt(raw, r, seek)
        /\ rpc \in {"read", "method", "headers"} => state = "ReadHeader"
    BY DEF ReadInv
  <2> DEFINE nl == Reader!NewLine(raw, seek)
  \* A step that finds nothing and gives no verdict.
  <2>a. ASSUME UNCHANGED <<raw, wire, seek, methodOk>>,
               rpc' \in {"read", "method", "headers"} => state' = "ReadHeader",
               state' \notin {"PaseDone", "400", "405"}
        PROVE  ReadInv'
    <3>1. VerdictSound'
      BY <2>a DEF VerdictSound, Reader!DoneSound, Reader!RejectSound
    <3> QED BY <2>0, <2>a, <3>1 DEF ReadInv
  \* A step that leaves what was read and the verdict alone.
  <2>b. ASSUME UNCHANGED <<raw, seek, methodOk, bodyAt, state>>, wire' \in Seq(Reader!Symbol),
               rpc' \in {"read", "method", "headers"} => rpc \in {"read", "method", "headers"}
        PROVE  ReadInv'
    <3>1. VerdictSound'
      BY <2>b DEF ReadInv, VerdictSound, Reader!DoneSound, Reader!RejectSound, Reader!LineStarts, Reader!Empty,
                  Reader!RequestLine
    <3> QED BY <2>0, <2>b, <3>1 DEF ReadInv
  <2>1. CASE Reader!ReadData
    <3>1. PICK n \in 1 .. Len(wire) :
             raw' = raw \o SubSeq(wire, 1, n) /\ wire' = SubSeq(wire, n + 1, Len(wire))
      BY <2>1 DEF Reader!ReadData
    <3>2. UNCHANGED <<seek, methodOk, state>> /\ rpc = "read"
      BY <2>1 DEF Reader!ReadData, Reader!found
    <3>3. /\ SubSeq(wire, 1, n) \in Seq(Reader!Symbol) /\ SubSeq(wire, n + 1, Len(wire)) \in Seq(Reader!Symbol)
      <4>1. \A i \in 1 .. Len(wire) : wire[i] \in Reader!Symbol
        BY <2>0, ElementOfSeq
      <4> QED BY <2>0, <3>1, <4>1, SubSeqProperties
    <3>4. /\ raw' \in Seq(Reader!Symbol) /\ Len(raw') \in Nat /\ Len(raw) <= Len(raw')
          /\ \A j \in 1 .. Len(raw) : raw'[j] = raw[j]
      <4> DEFINE a == SubSeq(wire, 1, n)
      <4>1. a \in Seq(Reader!Symbol) /\ Len(a) \in Nat /\ raw' = raw \o a
        BY <3>1, <3>3
      <4> HIDE DEF a
      <4> QED BY <2>0, <4>1, ConcatProperties
    <3>5. seek' \in 1 .. Len(raw') + 1 /\ (seek' = 1 \/ raw'[seek' - 1] = "N")
      <4>1. seek = 1 \/ seek - 1 \in 1 .. Len(raw)
        BY <2>0
      <4> QED BY <2>0, <3>2, <3>4, <4>1
    <3>6. (OnlyEmpty(raw, seek) => OnlyEmpty(raw', seek)) /\ \A r : RequestAt(raw, r, seek) => RequestAt(raw', r, seek)
      BY <2>0, <3>4, LinesStay
    <3>7. (~methodOk => OnlyEmpty(raw, seek))' /\ (methodOk => \E r : RequestAt(raw, r, seek))'
      BY <2>0, <3>2, <3>6
    <3>8. state' = "ReadHeader" /\ VerdictSound'
      BY <2>0, <3>2 DEF VerdictSound, Reader!DoneSound, Reader!RejectSound
    <3> QED BY <3>1, <3>3, <3>4, <3>5, <3>7, <3>8 DEF ReadInv
  <2>2. CASE Reader!ReadTimeOut
    <3>1. /\ UNCHANGED <<raw, wire, seek, methodOk>> /\ rpc = "read"
          /\ (rpc' = "done" /\ state' = "ReadHeaderTimeOut") \/ state' = state
      BY <2>2 DEF Reader!ReadTimeOut, Reader!found
    <3> QED BY <2>0, <2>a, <3>1
  <2>3. CASE Reader!ReadError
    <3>1. /\ UNCHANGED <<raw, wire, seek, methodOk>> /\ rpc = "read"
          /\ (rpc' = "done" /\ state' = "ReadHeaderError") \/ state' = state
      BY <2>3 DEF Reader!ReadError, Reader!found
    <3> QED BY <2>0, <2>a, <3>1
  <2>4. CASE Reader!FindMethod
    <3>1. UNCHANGED <<raw, wire>> /\ state = "ReadHeader" /\ rpc = "method"
      BY <2>0, <2>4 DEF Reader!FindMethod, Reader!input
    <3>2. CASE methodOk \/ nl = 0
      <4>1. UNCHANGED <<raw, wire, seek, methodOk, state>>
        BY <2>4, <3>1, <3>2 DEF Reader!FindMethod, Reader!found
      <4> QED BY <2>a, <3>1, <4>1
    <3>3. CASE ~(methodOk \/ nl = 0) /\ Reader!EmptyLine(raw, seek, nl)
      <4>1. Reader!SkipEmpty(nl) /\ ~methodOk
        BY <2>4, <3>3 DEF Reader!FindMethod
      <4>2. nl \in seek .. Len(raw) /\ raw[nl] = "N"
        BY <2>0, <3>3, OneLine
      <4>3. OnlyEmpty(raw, nl + 1)
        BY <2>0, <3>3, <4>1, SkipOne
      <4> HIDE DEF nl
      <4>4. CASE seek - 1 > MaxSkip
        <5>1. UNCHANGED <<seek, methodOk>> /\ state' = "400" /\ rpc' = "done"
          BY <4>1, <4>4 DEF Reader!SkipEmpty, Reader!Reject, Reader!found
        <5>2. \A i \in 1 .. MaxSkip + 1 : i \in 1 .. seek - 1
          BY <2>0, <4>4
        <5>3. \A i \in 1 .. MaxSkip + 1 : raw[i] \in {"N", "R"}
          BY <2>0, <4>1, <5>2 DEF OnlyEmpty
        <5>4. VerdictSound'
          BY <3>1, <5>1, <5>3 DEF VerdictSound, Reader!DoneSound, Reader!RejectSound
        <5> QED BY <2>0, <3>1, <5>1, <5>4 DEF ReadInv
      <4>5. CASE ~(seek - 1 > MaxSkip)
        <5>1. seek' = nl + 1 /\ methodOk' = methodOk /\ state' = state
          BY <4>1, <4>5 DEF Reader!SkipEmpty
        <5>2. VerdictSound'
          BY <3>1, <5>1 DEF VerdictSound, Reader!DoneSound, Reader!RejectSound
        <5>3. seek' \in 1 .. Len(raw') + 1 /\ raw'[seek' - 1] = "N"
          BY <2>0, <3>1, <4>2, <5>1
        <5> QED BY <2>0, <3>1, <4>1, <4>3, <5>1, <5>2, <5>3 DEF ReadInv
      <4> QED BY <4>4, <4>5
    <3>4. CASE ~(methodOk \/ nl = 0) /\ ~Reader!EmptyLine(raw, seek, nl)
      <4>1. Reader!ProtocolLine(nl) /\ ~methodOk
        BY <2>4, <3>4 DEF Reader!FindMethod
      <4>2. nl \in seek .. Len(raw) /\ raw[nl] = "N"
        BY <2>0, <3>4, OneLine
      <4>3. Reader!RequestLine(raw) = seek /\ (raw[seek] = "G" => RequestAt(raw, seek, nl + 1))
        BY <2>0, <3>4, <4>1, FirstLine
      <4> HIDE DEF nl
      <4>4. CASE Len(raw) < MinBytes
        <5>1. UNCHANGED <<seek, methodOk>> /\ state' = "400" /\ rpc' = "done"
          BY <4>1, <4>4 DEF Reader!ProtocolLine, Reader!Reject, Reader!found
        <5>2. VerdictSound'
          BY <3>1, <4>4, <5>1 DEF VerdictSound, Reader!DoneSound, Reader!RejectSound
        <5> QED BY <2>0, <3>1, <5>1, <5>2 DEF ReadInv
      <4>5. CASE ~(Len(raw) < MinBytes) /\ raw[seek] # "G"
        <5>1. UNCHANGED <<seek, methodOk>> /\ state' = "405" /\ rpc' = "done"
          BY <4>1, <4>5 DEF Reader!ProtocolLine, Reader!Reject, Reader!found
        <5>2. raw'[Reader!RequestLine(raw')] # "G"
          BY <3>1, <4>3, <4>5
        <5>3. VerdictSound'
          BY <3>1, <5>1, <5>2 DEF VerdictSound, Reader!DoneSound, Reader!RejectSound, Reader!RequestLine,
                                  Reader!LineStarts, Reader!Empty
        <5> QED BY <2>0, <3>1, <5>1, <5>3 DEF ReadInv
      <4>6. CASE ~(Len(raw) < MinBytes) /\ raw[seek] = "G"
        <5>1. seek' = nl + 1 /\ methodOk' = TRUE /\ state' = state
          BY <4>1, <4>6 DEF Reader!ProtocolLine
        <5>2. VerdictSound'
          BY <3>1, <5>1 DEF VerdictSound, Reader!DoneSound, Reader!RejectSound
        <5>3. seek' \in 1 .. Len(raw') + 1 /\ raw'[seek' - 1] = "N"
          BY <2>0, <3>1, <4>2, <5>1
        <5>4. \E r : RequestAt(raw', r, seek')
          BY <3>1, <4>3, <4>6, <5>1
        <5> QED BY <2>0, <3>1, <5>1, <5>2, <5>3, <5>4 DEF ReadInv
      <4> QED BY <4>4, <4>5, <4>6
    <3> QED BY <3>2, <3>3, <3>4
  <2>5. CASE Reader!HeaderLine
    <3>1. UNCHANGED <<raw, wire, methodOk>> /\ methodOk /\ rpc = "headers" /\ nl # 0 /\ state = "ReadHeader"
      BY <2>0, <2>5 DEF Reader!HeaderLine, Reader!InHeaders, Reader!input
    <3>2. PICK r : RequestAt(raw, r, seek)
      BY <2>0, <3>1
    <3>3. nl \in seek .. Len(raw) /\ raw[nl] = "N"
      BY <2>0, <3>1, OneLine
    <3>4. /\ ~Reader!EmptyLine(raw, seek, nl) => RequestAt(raw, r, nl + 1)
          /\ Reader!EmptyLine(raw, seek, nl) =>
               LET after == {i \in Reader!Empty(raw) : i > Reader!RequestLine(raw)}
               IN  after # {} /\ Reader!Min(after) = seek
          /\ Reader!RequestLine(raw) = r /\ Reader!LineStarts(raw) \ Reader!Empty(raw) # {}
      BY <2>0, <3>1, <3>2, NextLine
    <3>5. CASE Reader!EmptyLine(raw, seek, nl)
      <4>1. /\ UNCHANGED <<seek, methodOk>> /\ rpc' \notin {"read", "method", "headers"}
            /\ state' = "PaseDone" /\ bodyAt' = nl + 1
        BY <2>5, <3>5 DEF Reader!HeaderLine, Reader!HeaderEnds
      <4> DEFINE after == {i \in Reader!Empty(raw) : i > Reader!RequestLine(raw)}
      <4>2. after # {} /\ bodyAt' = Reader!NewLine(raw, Reader!Min(after)) + 1
        BY <3>4, <3>5, <4>1
      <4>3. raw[Reader!RequestLine(raw)] = "G"
        BY <3>2, <3>4 DEF RequestAt
      <4> HIDE DEF nl
      <4>4. VerdictSound'
        <5>1. Reader!DoneSound'
          BY <3>1, <3>4, <4>2, <4>3 DEF Reader!DoneSound, Reader!RequestLine, Reader!LineStarts, Reader!Empty
        <5>2. Reader!RejectSound'
          BY <4>1 DEF Reader!RejectSound
        <5> QED BY <5>1, <5>2 DEF VerdictSound
      <4> QED BY <2>0, <3>1, <4>1, <4>4 DEF ReadInv
    <3>6. CASE ~Reader!EmptyLine(raw, seek, nl)
      <4>1. seek' = nl + 1 /\ UNCHANGED <<rpc, state, methodOk>>
        BY <2>5, <3>6 DEF Reader!HeaderLine, Reader!HeaderEnds
      <4> HIDE DEF nl
      <4>2. VerdictSound'
        BY <3>1, <4>1 DEF VerdictSound, Reader!DoneSound, Reader!RejectSound
      <4>3. seek' \in 1 .. Len(raw') + 1 /\ raw'[seek' - 1] = "N"
        BY <2>0, <3>1, <3>3, <4>1
      <4>4. \E q : RequestAt(raw', q, seek')
        BY <3>1, <3>4, <3>6, <4>1
      <4> QED BY <2>0, <3>1, <4>1, <4>2, <4>3, <4>4 DEF ReadInv
    <3> QED BY <3>5, <3>6
  <2>6. CASE Reader!HeaderSpin
    <3>1. UNCHANGED <<raw, wire, seek, methodOk, bodyAt, state>> /\ rpc' = "spin"
      BY <2>6 DEF Reader!HeaderSpin, Reader!input, Reader!found
    <3> QED BY <2>0, <2>b, <3>1
  <2>7. CASE Reader!NextRound
    <3>1. UNCHANGED <<raw, wire, seek, methodOk, bodyAt, state>> /\ rpc = "headers"
      BY <2>7 DEF Reader!NextRound, Reader!input, Reader!found
    <3> QED BY <2>0, <2>b, <3>1
  <2>8. CASE Reader!DrainData
    <3>1. PICK n \in 1 .. Len(wire) : wire' = SubSeq(wire, n + 1, Len(wire))
      BY <2>8 DEF Reader!DrainData
    <3>2. UNCHANGED <<rpc, raw, seek, methodOk, bodyAt, state>>
      BY <2>8 DEF Reader!DrainData, Reader!found
    <3>3. wire' \in Seq(Reader!Symbol)
      <4>1. \A i \in 1 .. Len(wire) : wire[i] \in Reader!Symbol
        BY <2>0, ElementOfSeq
      <4> QED BY <2>0, <3>1, <4>1, SubSeqProperties
    <3> QED BY <2>b, <3>2, <3>3
  <2>9. CASE Reader!DrainEnd
    <3>1. UNCHANGED <<raw, wire, seek, methodOk, bodyAt, state>> /\ rpc' = "done"
      BY <2>9 DEF Reader!DrainEnd, Reader!input, Reader!found
    <3> QED BY <2>0, <2>b, <3>1
  <2>10. CASE Reader!DrainDeadline
    <3>1. UNCHANGED <<raw, wire, seek, methodOk, bodyAt, state>> /\ rpc' = "cut"
      BY <2>10 DEF Reader!DrainDeadline, Reader!input, Reader!found
    <3> QED BY <2>0, <2>b, <3>1
  <2>11. CASE UNCHANGED Reader!vars
    <3>1. UNCHANGED <<rpc, raw, wire, seek, methodOk, bodyAt, state>>
      BY <2>11 DEF Reader!vars
    <3> QED BY <2>0, <2>b, <3>1
  <2> QED BY <2>1, <2>2, <2>3, <2>4, <2>5, <2>6, <2>7, <2>8, <2>9, <2>10, <2>11
          DEF Reader!Next, Reader!ReaderStep
<1> QED BY <1>1, <1>2, PTL DEF Reader!Spec

\* httpReadRequest takes a request for complete only at the first empty line
\* after its protocol line, finds its body right there, and answers 405 and 400
\* only for their reasons: for every stream and every way the network cuts it.
THEOREM VerdictCorrect == Reader!Spec => []VerdictSound
<1>1. ReadInv => VerdictSound
  BY DEF ReadInv
<1> QED BY <1>1, ReadInvariance, PTL
=============================================================================
