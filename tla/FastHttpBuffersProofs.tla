----------------------- MODULE FastHttpBuffersProofs ------------------------
(***************************************************************************)
(* Proofs about FastHttpBuffers, for any number of connections, buffers    *)
(* and requests and every size.  A buffer has one user or is pooled, and   *)
(* what a service has read is the beginning of its current buffer.         *)
(***************************************************************************)
EXTENDS MCFastHttp, TLAPS

State == {"idle", "read", "parse", "lower", "look", "answer", "close", "puthdr", "putcmp"}
Busy == {"read", "parse", "lower", "look"}

TypeInv ==
    /\ DOMAIN mem = Buf!Buffer /\ \A b \in Buf!Buffer : mem[b] \in [1 .. Buf!Size(b) -> Buf!Symbol]
    /\ pool \subseteq Buf!Buffer
    /\ methodbuf \in [Conn -> MBuf \cup {None}]
    /\ hdrbuf \in [Conn -> HBuf \cup {None}] /\ cmpbuf \in [Conn -> HBuf \cup {None}]
    /\ spc \in [Conn -> State] /\ req \in [Conn -> Seq(Buf!Symbol)]
    /\ requestbytes \in [Conn -> Nat] /\ bufiobytes \in [Conn -> Nat]
    /\ methodok \in [Conn -> BOOLEAN] /\ keep \in [Conn -> BOOLEAN]

\* No buffer has two users, and none in a pool has one.
OwnInv ==
    /\ \A c, d \in Conn : methodbuf[c] # None /\ methodbuf[c] = methodbuf[d] => c = d
    /\ \A c, d \in Conn : hdrbuf[c] # None /\ hdrbuf[c] = hdrbuf[d] => c = d
    /\ \A c, d \in Conn : cmpbuf[c] # None /\ cmpbuf[c] = cmpbuf[d] => c = d
    /\ \A c, d \in Conn : hdrbuf[c] # None => hdrbuf[c] # cmpbuf[d]
    /\ \A c \in Conn : methodbuf[c] \notin pool /\ hdrbuf[c] \notin pool /\ cmpbuf[c] \notin pool

\* A service has the buffers it works with.
PhaseInv ==
    \A c \in Conn :
        /\ spc[c] \in Busy \cup {"answer"} => methodbuf[c] # None
        /\ spc[c] \in Busy /\ methodok[c] => hdrbuf[c] # None
        /\ spc[c] \in {"lower", "look"} => cmpbuf[c] # None

\* Its current buffer begins with what it has read, all of it unless the
\* request is longer than the buffer.
Begins(c) ==
    spc[c] \in Busy =>
        /\ bufiobytes[c] <= Buf!Size(Buf!Iobuf(c)) /\ bufiobytes[c] <= requestbytes[c]
        /\ requestbytes[c] <= Len(req[c])
        /\ bufiobytes[c] # requestbytes[c] => HeaderSize < Len(req[c])
        /\ spc[c] \in {"lower", "look"} => requestbytes[c] = Len(req[c])
        /\ \A i \in 1 .. bufiobytes[c] :
              /\ mem[Buf!Iobuf(c)][i] # "x" => \E j \in DOMAIN req[c] : mem[Buf!Iobuf(c)][i] = req[c][j]
              /\ bufiobytes[c] = requestbytes[c] => mem[Buf!Iobuf(c)][i] = req[c][i]

\* The copy is what was read in lower case.
Copied(c) ==
    spc[c] = "look" => \A i \in 1 .. bufiobytes[c] : mem[cmpbuf[c]][i] = Buf!Lower(mem[Buf!Iobuf(c)][i])

Sound(c) ==
    spc[c] = "answer" =>
        /\ keep[c] => Buf!Asks(req[c])
        /\ Len(req[c]) <= HeaderSize =>
              (keep[c] <=> Buf!Asks(req[c]) /\ ~Buf!Has(req[c], "connection: close"))

Inv == TypeInv /\ OwnInv /\ PhaseInv /\ \A c \in Conn : Begins(c) /\ Copied(c) /\ Sound(c)

\* The buffers a service looks at.
Used(d) == {Buf!Iobuf(d)} \cup (IF spc[d] = "look" THEN {cmpbuf[d]} ELSE {})

Same(d) ==
    /\ spc'[d] = spc[d] /\ req'[d] = req[d] /\ requestbytes'[d] = requestbytes[d]
    /\ bufiobytes'[d] = bufiobytes[d] /\ methodok'[d] = methodok[d] /\ keep'[d] = keep[d]
    /\ methodbuf'[d] = methodbuf[d] /\ hdrbuf'[d] = hdrbuf[d] /\ cmpbuf'[d] = cmpbuf[d]

\* A service that takes no step and whose buffers nobody writes to.
LEMMA Frame ==
  ASSUME NEW d \in Conn, Begins(d), Copied(d), Sound(d), Same(d),
         spc[d] \in Busy => \A b \in Used(d) : mem'[b] = mem[b]
  PROVE  Begins(d)' /\ Copied(d)' /\ Sound(d)'
<1>1. Buf!Iobuf(d)' = Buf!Iobuf(d) BY DEF Buf!Iobuf, Same
<1>2. Begins(d)'
  <2>1. spc[d] \in Busy => mem'[Buf!Iobuf(d)] = mem[Buf!Iobuf(d)] BY DEF Used
  <2> HIDE DEF Buf!Iobuf
  <2> QED BY <1>1, <2>1 DEF Begins, Same
<1>3. Copied(d)'
  <2>1. spc[d] = "look" => mem'[Buf!Iobuf(d)] = mem[Buf!Iobuf(d)] /\ mem'[cmpbuf[d]] = mem[cmpbuf[d]]
    BY DEF Used, Busy
  <2> QED BY <1>1, <2>1 DEF Copied, Same
<1>4. Sound(d)' BY DEF Sound, Same
<1> QED BY <1>2, <1>3, <1>4

\* The buffers of two services differ.
LEMMA Apart ==
  ASSUME TypeInv, OwnInv, PhaseInv, NEW c \in Conn, NEW d \in Conn, d # c, spc[d] \in Busy
  PROVE  /\ hdrbuf[c] \notin Used(d) \ {None} /\ cmpbuf[c] \notin Used(d) \ {None}
         /\ methodbuf[c] \notin Used(d) \ {None}
         /\ Used(d) \cap pool = {} /\ Used(d) \subseteq Buf!Held \ {None}
<1>1. spc[d] = "look" => cmpbuf[d] # None BY DEF PhaseInv
<1>2. Buf!Iobuf(d) # None BY DEF PhaseInv, Buf!Iobuf
<1>3. Buf!Iobuf(d) \in {hdrbuf[d], methodbuf[d]} BY DEF Buf!Iobuf
<1>4. /\ hdrbuf[c] # None => hdrbuf[c] # hdrbuf[d] /\ hdrbuf[c] # cmpbuf[d] /\ hdrbuf[c] # methodbuf[d]
      /\ cmpbuf[c] # None => cmpbuf[c] # hdrbuf[d] /\ cmpbuf[c] # cmpbuf[d] /\ cmpbuf[c] # methodbuf[d]
      /\ methodbuf[c] # None =>
            methodbuf[c] # hdrbuf[d] /\ methodbuf[c] # cmpbuf[d] /\ methodbuf[c] # methodbuf[d]
  BY BuffersAssumption DEF TypeInv, OwnInv
<1>5. Used(d) \subseteq {hdrbuf[d], methodbuf[d], cmpbuf[d]} BY <1>3 DEF Used
<1>6. Used(d) \cap pool = {} BY <1>5 DEF OwnInv
<1>7. None \notin Used(d) BY <1>1, <1>2 DEF Used
<1> QED BY <1>4, <1>5, <1>6, <1>7 DEF Buf!Held

LEMMA BuffersInit == Buf!Init => Inv
<1> SUFFICES ASSUME Buf!Init PROVE Inv OBVIOUS
<1>1. TypeInv BY BuffersAssumption DEF Buf!Init, TypeInv, State, Buf!Buffer, Buf!Size, Buf!Blank, Buf!Symbol
<1>2. OwnInv BY DEF Buf!Init, OwnInv
<1>3. PhaseInv BY DEF Buf!Init, PhaseInv, Busy
<1>4. \A c \in Conn : Begins(c) /\ Copied(c) /\ Sound(c) BY DEF Buf!Init, Begins, Copied, Sound, Busy
<1> QED BY <1>1, <1>2, <1>3, <1>4 DEF Inv

\* An action of c leaves the other services what they are.
LEMMA Others ==
  ASSUME Inv, NEW c \in Conn, NEW w,
         \A d \in Conn \ {c} : Same(d),
         \A b \in Buf!Buffer : b # w => mem'[b] = mem[b],
         w \in {methodbuf[c], hdrbuf[c], cmpbuf[c]} \cup pool \cup (Buf!Buffer \ Buf!Held)
  PROVE  \A d \in Conn \ {c} : Begins(d)' /\ Copied(d)' /\ Sound(d)'
<1> SUFFICES ASSUME NEW d \in Conn, d # c PROVE Begins(d)' /\ Copied(d)' /\ Sound(d)' OBVIOUS
<1>1. ASSUME spc[d] \in Busy, NEW b \in Used(d) PROVE mem'[b] = mem[b]
  <2>1. b \notin pool /\ b \in Buf!Held \ {None} /\ b # methodbuf[c] /\ b # hdrbuf[c] /\ b # cmpbuf[c]
    BY <1>1, Apart DEF Inv
  <2>2. b \in Buf!Buffer BY <2>1 DEF Buf!Held, Inv, TypeInv, Buf!Buffer
  <2> QED BY <2>1, <2>2
<1> QED BY <1>1, Frame DEF Inv

LEMMA CollectStep ==
  ASSUME Inv, NEW x \in Buf!Buffer, Buf!Collect(x) PROVE Inv'
<1>0. /\ x \in pool /\ pool' = pool \ {x} /\ mem' = [mem EXCEPT ![x] = Buf!Blank(x)]
      /\ UNCHANGED <<Buf!bufs, spc, Buf!request, keep>>
  BY DEF Buf!Collect
<1>1. TypeInv' BY <1>0 DEF Inv, TypeInv, Buf!bufs, Buf!request, Buf!Blank, Buf!Symbol
<1>2. OwnInv' BY <1>0 DEF Inv, OwnInv, Buf!bufs
<1>3. PhaseInv' BY <1>0 DEF Inv, PhaseInv, Buf!bufs, Buf!request
<1>4. ASSUME NEW d \in Conn PROVE Begins(d)' /\ Copied(d)' /\ Sound(d)'
  <2>1. Same(d) BY <1>0 DEF Same, Buf!bufs, Buf!request
  <2>2. ASSUME spc[d] \in Busy, NEW b \in Used(d) PROVE mem'[b] = mem[b]
    <3>1. b # x /\ b \in {methodbuf[d], hdrbuf[d], cmpbuf[d]} BY <1>0 DEF Used, Buf!Iobuf, Inv, OwnInv
    <3>2. b # None BY <2>2 DEF Used, Buf!Iobuf, Inv, PhaseInv, Busy
    <3>3. b \in Buf!Buffer BY <3>1, <3>2 DEF Inv, TypeInv, Buf!Buffer
    <3> QED BY <1>0, <3>1, <3>3 DEF Inv, TypeInv
  <2> QED BY <2>1, <2>2, Frame DEF Inv
<1> QED BY <1>1, <1>2, <1>3, <1>4 DEF Inv

\* What Get returns belongs to nobody.
LEMMA GetFree ==
  ASSUME Inv, NEW kind \in {MBuf, HBuf}, NEW b \in Buf!Get(kind)
  PROVE  b \in kind /\ b \in Buf!Buffer /\ b # None /\ b \notin Buf!Held /\ b \in pool \cup (Buf!Buffer \ Buf!Held)
<1>1. b \in kind /\ b \in Buf!Buffer /\ b # None BY BuffersAssumption DEF Buf!Get, Buf!Buffer
<1>2. b \notin Buf!Held BY DEF Buf!Get, Buf!Held, Inv, OwnInv
<1> QED BY <1>1, <1>2

\* A service that begins a request has read nothing of it.
LEMMA Begun ==
  ASSUME Inv, NEW c \in Conn, Buf!BeginRequest(c), methodbuf' \in [Conn -> MBuf \cup {None}]
  PROVE  /\ spc' \in [Conn -> State] /\ req' \in [Conn -> Seq(Buf!Symbol)]
         /\ requestbytes' \in [Conn -> Nat] /\ bufiobytes' \in [Conn -> Nat] /\ methodok' \in [Conn -> BOOLEAN]
         /\ spc'[c] = "read" /\ methodok'[c] = FALSE
         /\ Begins(c)' /\ Copied(c)' /\ Sound(c)'
<1>1. /\ spc' \in [Conn -> State] /\ req' \in [Conn -> Seq(Buf!Symbol)]
      /\ requestbytes' \in [Conn -> Nat] /\ bufiobytes' \in [Conn -> Nat] /\ methodok' \in [Conn -> BOOLEAN]
  BY BuffersAssumption DEF Buf!BeginRequest, Inv, TypeInv, State
<1>2. spc'[c] = "read" /\ methodok'[c] = FALSE /\ bufiobytes'[c] = 0 /\ requestbytes'[c] = 0
  BY DEF Buf!BeginRequest, Inv, TypeInv
<1>3. Buf!Size(Buf!Iobuf(c))' \in Nat BY BuffersAssumption DEF Buf!Size
<1>4. Begins(c)' BY <1>1, <1>2, <1>3 DEF Begins
<1> QED BY <1>1, <1>2, <1>4 DEF Copied, Sound

LEMMA StartStep ==
  ASSUME Inv, NEW c \in Conn, Buf!Start(c) PROVE Inv'
<1>0. PICK b \in Buf!Get(MBuf) : methodbuf' = [methodbuf EXCEPT ![c] = b] /\ pool' = pool \ {b}
  BY DEF Buf!Start
<1>1. Buf!BeginRequest(c) /\ UNCHANGED <<mem, hdrbuf, cmpbuf, keep>> BY DEF Buf!Start
<1>2. b \in MBuf /\ b # None /\ b \notin Buf!Held BY <1>0, GetFree
<1>3. methodbuf' \in [Conn -> MBuf \cup {None}] BY <1>0, <1>2 DEF Inv, TypeInv
<1>4. TypeInv' BY <1>0, <1>1, <1>3, Begun DEF Inv, TypeInv
<1>5. OwnInv' BY <1>0, <1>1, <1>2, <1>3 DEF Inv, OwnInv, TypeInv, Buf!Held
<1>6. PhaseInv' BY <1>0, <1>1, <1>2, <1>3, Begun DEF Inv, PhaseInv, TypeInv, Buf!BeginRequest
<1>7. \A d \in Conn \ {c} : Same(d) BY <1>0, <1>1 DEF Same, Buf!BeginRequest, Inv, TypeInv
<1>8. \A d \in Conn \ {c} : Begins(d)' /\ Copied(d)' /\ Sound(d)' BY <1>1, <1>7, Others
<1>9. Begins(c)' /\ Copied(c)' /\ Sound(c)' BY <1>1, <1>3, Begun
<1> QED BY <1>4, <1>5, <1>6, <1>8, <1>9 DEF Inv

LEMMA KeepOpenStep ==
  ASSUME Inv, NEW c \in Conn, Buf!KeepOpen(c) PROVE Inv'
<1>1. spc[c] = "answer" /\ Buf!BeginRequest(c) /\ UNCHANGED <<mem, pool, methodbuf, hdrbuf, cmpbuf, keep>>
  BY DEF Buf!KeepOpen, Buf!bufs
<1>3. methodbuf' \in [Conn -> MBuf \cup {None}] BY <1>1 DEF Inv, TypeInv
<1>4. TypeInv' BY <1>1, <1>3, Begun DEF Inv, TypeInv
<1>5. OwnInv' BY <1>1 DEF Inv, OwnInv
<1>6. PhaseInv' BY <1>1, <1>3, Begun DEF Inv, PhaseInv, TypeInv, Buf!BeginRequest
<1>7. \A d \in Conn \ {c} : Same(d) BY <1>1 DEF Same, Buf!BeginRequest, Inv, TypeInv
<1>8. \A d \in Conn \ {c} : Begins(d)' /\ Copied(d)' /\ Sound(d)' BY <1>1, <1>7, Others
<1>9. Begins(c)' /\ Copied(c)' /\ Sound(c)' BY <1>1, <1>3, Begun
<1> QED BY <1>4, <1>5, <1>6, <1>8, <1>9 DEF Inv

\* A service that reads or parses writes to a buffer of its own.
LEMMA IobufOwn ==
  ASSUME Inv, NEW c \in Conn, spc[c] \in Busy
  PROVE  Buf!Iobuf(c) \in Buf!Buffer /\ Buf!Iobuf(c) # None /\ Buf!Iobuf(c) \in {methodbuf[c], hdrbuf[c]}
<1>1. Buf!Iobuf(c) \in {methodbuf[c], hdrbuf[c]} /\ Buf!Iobuf(c) # None BY DEF Inv, PhaseInv, Buf!Iobuf
<1> QED BY <1>1 DEF Inv, TypeInv, Buf!Buffer

LEMMA ReadStep ==
  ASSUME Inv, NEW c \in Conn, Buf!Read(c) PROVE Inv'
<1> DEFINE io == Buf!Iobuf(c)
           k == bufiobytes[c]
           q == requestbytes[c]
<1>0. PICK n \in 1 .. Len(req[c]) - q :
          /\ n <= Buf!Size(io) - k
          /\ mem' = [mem EXCEPT ![io] = [i \in DOMAIN mem[io] |->
                        IF i \in k + 1 .. k + n THEN req[c][q + i - k] ELSE mem[io][i]]]
          /\ requestbytes' = [requestbytes EXCEPT ![c] = q + n]
          /\ bufiobytes' = [bufiobytes EXCEPT ![c] = k + n]
          /\ spc' = [spc EXCEPT ![c] = IF q + n < MiniSize THEN "read" ELSE "parse"]
  BY DEF Buf!Read, Inv, TypeInv
<1>1. spc[c] = "read" /\ UNCHANGED <<pool, methodbuf, hdrbuf, cmpbuf, req, methodok, keep>>
  BY DEF Buf!Read, Buf!bufs
<1>2. spc[c] \in Busy /\ io \in Buf!Buffer /\ io # None /\ io \in {methodbuf[c], hdrbuf[c]}
  BY <1>1, IobufOwn DEF Busy
<1>3. Len(req[c]) \in Nat /\ k \in Nat /\ q \in Nat /\ n \in Nat /\ n > 0 /\ q + n <= Len(req[c])
  BY <1>0 DEF Inv, TypeInv
<1>4. DOMAIN mem[io] = 1 .. Buf!Size(io) /\ Buf!Size(io) \in Nat
  BY <1>2, BuffersAssumption DEF Inv, TypeInv, Buf!Size
<1>5. k <= q /\ k <= Buf!Size(io) BY <1>2 DEF Inv, Begins
<1>6. mem'[io] \in [1 .. Buf!Size(io) -> Buf!Symbol]
  <2>1. \A i \in k + 1 .. k + n : q + i - k \in 1 .. Len(req[c]) BY <1>3, <1>5
  <2>2. \A j \in 1 .. Len(req[c]) : req[c][j] \in Buf!Symbol BY DEF Inv, TypeInv
  <2>3. \A i \in 1 .. Buf!Size(io) : mem[io][i] \in Buf!Symbol BY <1>2 DEF Inv, TypeInv
  <2>4. mem'[io] = [i \in 1 .. Buf!Size(io) |-> IF i \in k + 1 .. k + n THEN req[c][q + i - k] ELSE mem[io][i]]
    BY <1>0, <1>2, <1>4 DEF Inv, TypeInv
  <2> HIDE DEF io, k, q
  <2> QED BY <2>1, <2>2, <2>3, <2>4
<1>7. \A b \in Buf!Buffer : b # io => mem'[b] = mem[b] BY <1>0 DEF Inv, TypeInv
<1>8. TypeInv'
  <2>1. DOMAIN mem' = Buf!Buffer /\ \A b \in Buf!Buffer : mem'[b] \in [1 .. Buf!Size(b) -> Buf!Symbol]
    <3>1. DOMAIN mem' = Buf!Buffer BY <1>0 DEF Inv, TypeInv
    <3> QED BY <1>6, <1>7, <3>1 DEF Inv, TypeInv
  <2> QED BY <1>0, <1>1, <1>3, <2>1 DEF Inv, TypeInv, State
<1>9. OwnInv' BY <1>1 DEF Inv, OwnInv
<1>10. spc' \in [Conn -> State] /\ spc'[c] \in {"read", "parse"} /\ \A d \in Conn \ {c} : spc'[d] = spc[d]
  BY <1>0 DEF Inv, TypeInv, State
<1>11. PhaseInv' BY <1>1, <1>2, <1>10 DEF Inv, PhaseInv, Busy
<1>12. \A d \in Conn \ {c} : Same(d) BY <1>0, <1>1, <1>10 DEF Same, Inv, TypeInv
<1>13. \A d \in Conn \ {c} : Begins(d)' /\ Copied(d)' /\ Sound(d)'
  <2> HIDE DEF io, k, q
  <2> QED BY <1>2, <1>7, <1>12, Others
<1>14. Buf!Iobuf(c)' = io BY <1>1 DEF Buf!Iobuf
<1>15. bufiobytes'[c] = k + n /\ requestbytes'[c] = q + n /\ req'[c] = req[c]
  BY <1>0, <1>1 DEF Inv, TypeInv
<1>16. Begins(c)'
  <2>1. /\ k # q => HeaderSize < Len(req[c])
        /\ \A i \in 1 .. k : /\ mem[io][i] # "x" => \E j \in DOMAIN req[c] : mem[io][i] = req[c][j]
                             /\ k = q => mem[io][i] = req[c][i]
    BY <1>2 DEF Inv, Begins
  <2>2. mem'[io] = [i \in 1 .. Buf!Size(io) |-> IF i \in k + 1 .. k + n THEN req[c][q + i - k] ELSE mem[io][i]]
    BY <1>0, <1>2, <1>4 DEF Inv, TypeInv
  <2>3. DOMAIN req[c] = 1 .. Len(req[c]) BY DEF Inv, TypeInv
  <2>4. k + n <= Buf!Size(io) BY <1>0, <1>3, <1>4
  <2> HIDE DEF io, k, q
  <2>5. ASSUME NEW i \in 1 .. k + n
        PROVE  /\ mem'[io][i] # "x" => \E j \in DOMAIN req[c] : mem'[io][i] = req[c][j]
               /\ k + n = q + n => mem'[io][i] = req[c][i]
    <3>1. CASE i <= k
      <4>1. i \in 1 .. k /\ i \in 1 .. Buf!Size(io) /\ i \notin k + 1 .. k + n BY <1>3, <1>4, <2>4, <3>1
      <4>2. mem'[io][i] = mem[io][i] BY <2>2, <4>1
      <4> QED BY <1>3, <2>1, <4>1, <4>2
    <3>2. CASE i > k
      <4>1. i \in k + 1 .. k + n /\ i \in 1 .. Buf!Size(io) /\ q + i - k \in 1 .. Len(req[c])
        BY <1>3, <1>4, <1>5, <2>4, <3>2
      <4>2. mem'[io][i] = req[c][q + i - k] BY <2>2, <4>1
      <4>3. k + n = q + n => q + i - k = i BY <1>3, <4>1
      <4> QED BY <2>3, <4>1, <4>2, <4>3
    <3> QED BY <1>3, <3>1, <3>2
  <2>6. /\ k + n <= q + n /\ (k + n # q + n => HeaderSize < Len(req[c])) /\ q + n <= Len(req[c])
    BY <1>3, <1>5, <2>1
  <2> QED BY <1>10, <1>14, <1>15, <2>4, <2>5, <2>6 DEF Begins
<1>17. Copied(c)' /\ Sound(c)' BY <1>10 DEF Copied, Sound
<1> QED BY <1>8, <1>9, <1>11, <1>13, <1>16, <1>17 DEF Inv

LEMMA UseHeaderStep ==
  ASSUME Inv, NEW c \in Conn, Buf!UseHeader(c) PROVE Inv'
<1> DEFINE m == methodbuf[c]
           k == bufiobytes[c]
<1>0. PICK b \in IF hdrbuf[c] = None THEN Buf!Get(HBuf) ELSE {hdrbuf[c]} :
          /\ hdrbuf' = [hdrbuf EXCEPT ![c] = b] /\ pool' = pool \ {b}
          /\ mem' = [mem EXCEPT ![b] = [i \in DOMAIN mem[b] |->
                        IF i <= MethodSize THEN mem[m][i] ELSE mem[b][i]]]
  BY DEF Buf!UseHeader
<1>1. /\ spc[c] = "parse" /\ ~methodok[c] /\ methodok' = [methodok EXCEPT ![c] = TRUE]
      /\ UNCHANGED <<methodbuf, cmpbuf, spc, req, requestbytes, bufiobytes, keep>>
  BY DEF Buf!UseHeader
<1>2. /\ b \in HBuf /\ b # None /\ b \in Buf!Buffer
      /\ b = hdrbuf[c] \/ (hdrbuf[c] = None /\ b \notin Buf!Held)
      /\ b \in {methodbuf[c], hdrbuf[c], cmpbuf[c]} \cup pool \cup (Buf!Buffer \ Buf!Held)
  <2>1. CASE hdrbuf[c] = None BY <1>0, <2>1, GetFree
  <2>2. CASE hdrbuf[c] # None BY <1>0, <2>2 DEF Inv, TypeInv, Buf!Buffer
  <2> QED BY <2>1, <2>2
<1>3. m \in MBuf /\ m \in Buf!Buffer /\ Buf!Iobuf(c) = m /\ m # b
  BY <1>1, <1>2, BuffersAssumption DEF Inv, TypeInv, PhaseInv, Buf!Iobuf, Buf!Buffer, Busy
<1>4. /\ Buf!Size(b) = HeaderSize /\ Buf!Size(m) = MethodSize
      /\ HeaderSize \in Nat /\ MethodSize \in Nat /\ MethodSize <= HeaderSize
  BY <1>2, <1>3, BuffersAssumption DEF Buf!Size
<1>5. mem[b] \in [1 .. HeaderSize -> Buf!Symbol] /\ mem[m] \in [1 .. MethodSize -> Buf!Symbol]
  BY <1>2, <1>3, <1>4 DEF Inv, TypeInv
<1>6. mem'[b] = [i \in 1 .. HeaderSize |-> IF i <= MethodSize THEN mem[m][i] ELSE mem[b][i]]
  BY <1>0, <1>2, <1>5 DEF Inv, TypeInv
<1>7. \A x \in Buf!Buffer : x # b => mem'[x] = mem[x] BY <1>0 DEF Inv, TypeInv
<1>8. hdrbuf' \in [Conn -> HBuf \cup {None}] /\ hdrbuf'[c] = b /\ \A d \in Conn \ {c} : hdrbuf'[d] = hdrbuf[d]
  BY <1>0, <1>2 DEF Inv, TypeInv
<1>9. methodok' \in [Conn -> BOOLEAN] /\ methodok'[c] /\ \A d \in Conn \ {c} : methodok'[d] = methodok[d]
  BY <1>1 DEF Inv, TypeInv
<1> HIDE DEF m, k
<1>10. TypeInv'
  <2>1. mem'[b] \in [1 .. Buf!Size(b) -> Buf!Symbol] BY <1>4, <1>5, <1>6
  <2>2. DOMAIN mem' = Buf!Buffer BY <1>0 DEF Inv, TypeInv
  <2> QED BY <1>0, <1>1, <1>7, <1>8, <1>9, <2>1, <2>2 DEF Inv, TypeInv
<1>11. OwnInv'
  <2>1. \A d \in Conn \ {c} : b # hdrbuf[d] BY <1>2 DEF Buf!Held, Inv, OwnInv
  <2>2. \A d \in Conn : b # cmpbuf[d] BY <1>2 DEF Buf!Held, Inv, OwnInv
  <2> QED BY <1>0, <1>1, <1>8, <2>1, <2>2 DEF Inv, OwnInv
<1>12. PhaseInv' BY <1>1, <1>2, <1>8, <1>9 DEF Inv, PhaseInv
<1>13. \A d \in Conn \ {c} : Same(d) BY <1>1, <1>8, <1>9 DEF Same
<1>14. \A d \in Conn \ {c} : Begins(d)' /\ Copied(d)' /\ Sound(d)' BY <1>2, <1>7, <1>13, Others
<1>15. Buf!Iobuf(c)' = b BY <1>8, <1>9 DEF Buf!Iobuf
<1>16. Begins(c)'
  <2>1. k \in Nat /\ k <= MethodSize BY <1>1, <1>3, <1>4 DEF Inv, TypeInv, Begins, Busy, k
  <2>2. \A i \in 1 .. k : mem'[b][i] = mem[m][i] BY <1>4, <1>6, <2>1
  <2>3. k <= Buf!Size(b) BY <1>4, <2>1
  <2> QED BY <1>1, <1>3, <1>15, <2>2, <2>3 DEF Inv, Begins, k, Busy
<1>17. Copied(c)' /\ Sound(c)' BY <1>1 DEF Copied, Sound
<1> QED BY <1>10, <1>11, <1>12, <1>14, <1>16, <1>17 DEF Inv

LEMMA ReadOnStep ==
  ASSUME Inv, NEW c \in Conn, Buf!ReadOn(c) PROVE Inv'
<1> DEFINE h == hdrbuf[c]
           k == bufiobytes[c]
<1>1. /\ spc[c] = "parse" /\ requestbytes[c] < Len(req[c]) /\ methodok[c]
      /\ spc' = [spc EXCEPT ![c] = "read"]
      /\ UNCHANGED <<pool, methodbuf, hdrbuf, cmpbuf, req, requestbytes, methodok, keep>>
  BY DEF Buf!ReadOn, Buf!bufs
<1>2. h \in HBuf /\ h \in Buf!Buffer /\ Buf!Iobuf(c) = h /\ spc[c] \in Busy
  BY <1>1 DEF Inv, TypeInv, PhaseInv, Buf!Iobuf, Buf!Buffer, Busy
<1>3. Buf!Size(h) = HeaderSize /\ HeaderSize \in Nat /\ TailSize \in Nat /\ TailSize < HeaderSize
  BY <1>2, BuffersAssumption DEF Buf!Size
<1>4. mem[h] \in [1 .. HeaderSize -> Buf!Symbol] BY <1>2, <1>3 DEF Inv, TypeInv
<1>5. k \in Nat /\ k <= HeaderSize /\ requestbytes[c] \in Nat /\ k <= requestbytes[c] /\ Len(req[c]) \in Nat
  BY <1>2, <1>3 DEF Inv, TypeInv, Begins
<1>6. spc' \in [Conn -> State] /\ spc'[c] = "read" /\ \A d \in Conn \ {c} : spc'[d] = spc[d]
  BY <1>1 DEF Inv, TypeInv, State
<1>7. /\ bufiobytes' \in [Conn -> Nat] /\ \A d \in Conn \ {c} : bufiobytes'[d] = bufiobytes[d]
      /\ DOMAIN mem' = Buf!Buffer /\ \A b \in Buf!Buffer : b # h => mem'[b] = mem[b]
      /\ mem'[h] \in [1 .. HeaderSize -> Buf!Symbol]
      /\ \/ bufiobytes'[c] = k /\ mem'[h] = mem[h]
         \/ /\ k = HeaderSize /\ bufiobytes'[c] = TailSize
            /\ \A i \in 1 .. TailSize : mem'[h][i] = "x" \/ mem'[h][i] = mem[h][k - TailSize + i]
  <2>1. CASE k >= HeaderSize
    <3>1. PICK whole \in BOOLEAN :
             mem' = [mem EXCEPT ![h] = [i \in DOMAIN mem[h] |->
                       IF i > TailSize THEN mem[h][i]
                       ELSE IF whole THEN mem[h][k - TailSize + i] ELSE "x"]]
      BY <2>1 DEF Buf!ReadOn
    <3>2. bufiobytes' = [bufiobytes EXCEPT ![c] = TailSize] BY <2>1 DEF Buf!ReadOn
    <3>3. k = HeaderSize BY <1>3, <1>5, <2>1
    <3>4. mem'[h] = [i \in 1 .. HeaderSize |->
                       IF i > TailSize THEN mem[h][i]
                       ELSE IF whole THEN mem[h][k - TailSize + i] ELSE "x"]
      BY <1>2, <1>4, <3>1 DEF Inv, TypeInv
    <3>5. DOMAIN mem' = Buf!Buffer /\ \A b \in Buf!Buffer : b # h => mem'[b] = mem[b]
      BY <3>1 DEF Inv, TypeInv
    <3>6. /\ bufiobytes' \in [Conn -> Nat] /\ bufiobytes'[c] = TailSize
          /\ \A d \in Conn \ {c} : bufiobytes'[d] = bufiobytes[d]
      BY <1>3, <3>2 DEF Inv, TypeInv
    <3> HIDE DEF h, k
    <3>7. \A i \in 1 .. HeaderSize : i <= TailSize => k - TailSize + i \in 1 .. HeaderSize BY <1>3, <3>3
    <3>8. "x" \in Buf!Symbol BY DEF Buf!Symbol
    <3>9. mem'[h] \in [1 .. HeaderSize -> Buf!Symbol] BY <1>3, <1>4, <3>4, <3>7, <3>8
    <3>10. \A i \in 1 .. TailSize : mem'[h][i] = "x" \/ mem'[h][i] = mem[h][k - TailSize + i]
      BY <1>3, <3>4
    <3> QED BY <3>3, <3>5, <3>6, <3>9, <3>10
  <2>2. CASE ~(k >= HeaderSize)
    <3>1. UNCHANGED <<mem, bufiobytes>> BY <2>2 DEF Buf!ReadOn
    <3> QED BY <1>4, <3>1 DEF Inv, TypeInv
  <2> QED BY <2>1, <2>2
<1>8. TypeInv' BY <1>1, <1>3, <1>6, <1>7 DEF Inv, TypeInv
<1>9. OwnInv' BY <1>1 DEF Inv, OwnInv
<1>10. PhaseInv' BY <1>1, <1>6 DEF Inv, PhaseInv, Busy
<1>11. \A d \in Conn \ {c} : Same(d) BY <1>1, <1>6, <1>7 DEF Same
<1>12. \A d \in Conn \ {c} : Begins(d)' /\ Copied(d)' /\ Sound(d)' BY <1>7, <1>11, Others
<1>13. Buf!Iobuf(c)' = h BY <1>1 DEF Buf!Iobuf
<1>14. Begins(c)'
  <2>1. /\ k # requestbytes[c] => HeaderSize < Len(req[c])
        /\ \A i \in 1 .. k : /\ mem[h][i] # "x" => \E j \in DOMAIN req[c] : mem[h][i] = req[c][j]
                             /\ k = requestbytes[c] => mem[h][i] = req[c][i]
    BY <1>2 DEF Inv, Begins
  <2> HIDE DEF h, k
  <2>2. CASE bufiobytes'[c] = k /\ mem'[h] = mem[h]
    BY <1>1, <1>3, <1>5, <1>6, <1>13, <2>1, <2>2 DEF Begins
  <2>3. CASE /\ k = HeaderSize /\ bufiobytes'[c] = TailSize
             /\ \A i \in 1 .. TailSize : mem'[h][i] = "x" \/ mem'[h][i] = mem[h][k - TailSize + i]
    <3>1. TailSize < requestbytes[c] /\ HeaderSize < Len(req[c]) BY <1>1, <1>3, <1>5, <2>3
    <3>2. \A i \in 1 .. TailSize : k - TailSize + i \in 1 .. k BY <1>3, <2>3
    <3>3. \A i \in 1 .. TailSize : mem'[h][i] # "x" => \E j \in DOMAIN req[c] : mem'[h][i] = req[c][j]
      BY <2>1, <2>3, <3>2
    <3>4. /\ TailSize <= Buf!Size(h) /\ TailSize <= requestbytes[c]
          /\ TailSize # requestbytes[c] /\ requestbytes[c] <= Len(req[c])
      BY <1>1, <1>3, <1>5, <3>1
    <3> QED BY <1>1, <1>6, <1>13, <2>3, <3>1, <3>3, <3>4 DEF Begins
  <2> QED BY <1>7, <2>2, <2>3
<1>15. Copied(c)' /\ Sound(c)' BY <1>6 DEF Copied, Sound
<1> QED BY <1>8, <1>9, <1>10, <1>12, <1>14, <1>15 DEF Inv

LEMMA FoundStep ==
  ASSUME Inv, NEW c \in Conn, Buf!Found(c) PROVE Inv'
<1>0. PICK b \in IF cmpbuf[c] = None THEN Buf!Get(HBuf) ELSE {cmpbuf[c]} :
          cmpbuf' = [cmpbuf EXCEPT ![c] = b] /\ pool' = pool \ {b}
  BY DEF Buf!Found
<1>1. /\ spc[c] = "parse" /\ requestbytes[c] = Len(req[c]) /\ spc' = [spc EXCEPT ![c] = "lower"]
      /\ UNCHANGED <<mem, methodbuf, hdrbuf, req, requestbytes, bufiobytes, methodok, keep>>
  BY DEF Buf!Found, Buf!request
<1>2. b \in HBuf /\ b # None /\ (b = cmpbuf[c] \/ (cmpbuf[c] = None /\ b \notin Buf!Held))
  <2>1. CASE cmpbuf[c] = None BY <1>0, <2>1, GetFree
  <2>2. CASE cmpbuf[c] # None BY <1>0, <2>2 DEF Inv, TypeInv
  <2> QED BY <2>1, <2>2
<1>3. cmpbuf' \in [Conn -> HBuf \cup {None}] /\ cmpbuf'[c] = b /\ \A d \in Conn \ {c} : cmpbuf'[d] = cmpbuf[d]
  BY <1>0, <1>2 DEF Inv, TypeInv
<1>4. spc' \in [Conn -> State] /\ spc'[c] = "lower" /\ \A d \in Conn \ {c} : spc'[d] = spc[d]
  BY <1>1 DEF Inv, TypeInv, State
<1>5. TypeInv' BY <1>0, <1>1, <1>3, <1>4 DEF Inv, TypeInv
<1>6. OwnInv'
  <2>1. \A d \in Conn \ {c} : b # cmpbuf[d] BY <1>2 DEF Buf!Held, Inv, OwnInv
  <2>2. \A d \in Conn : b # hdrbuf[d] BY <1>2 DEF Buf!Held, Inv, OwnInv
  <2> QED BY <1>0, <1>1, <1>3, <2>1, <2>2 DEF Inv, OwnInv
<1>7. PhaseInv' BY <1>1, <1>2, <1>3, <1>4 DEF Inv, PhaseInv, Busy
<1>8. \A d \in Conn \ {c} : Same(d) BY <1>1, <1>3, <1>4 DEF Same
<1>9. \A d \in Conn \ {c} : Begins(d)' /\ Copied(d)' /\ Sound(d)' BY <1>1, <1>8, Others
<1>10. Begins(c)'
  <2>1. Buf!Iobuf(c)' = Buf!Iobuf(c) BY <1>1 DEF Buf!Iobuf
  <2> QED BY <1>1, <1>4, <2>1 DEF Inv, Begins, Busy
<1>11. Copied(c)' /\ Sound(c)' BY <1>4 DEF Copied, Sound
<1> QED BY <1>5, <1>6, <1>7, <1>9, <1>10, <1>11 DEF Inv

\* All of what is in the buffer is looked at.
LEMMA Whole ==
  ASSUME Inv, NEW c \in Conn, spc[c] \in Busy
  PROVE  /\ Buf!Rlen(c) = bufiobytes[c] /\ bufiobytes[c] \in Nat
         /\ bufiobytes[c] <= Buf!Size(Buf!Iobuf(c)) /\ bufiobytes[c] <= HeaderSize
<1>1. bufiobytes[c] \in Nat /\ bufiobytes[c] <= Buf!Size(Buf!Iobuf(c)) BY DEF Inv, TypeInv, Begins
<1>2. Buf!Size(Buf!Iobuf(c)) <= HeaderSize /\ HeaderSize \in Nat /\ Buf!Size(Buf!Iobuf(c)) \in Nat
  BY BuffersAssumption DEF Buf!Size
<1> QED BY <1>1, <1>2 DEF Buf!Rlen

\* A small letter is a symbol.
LEMMA LowerSymbol ==
  ASSUME NEW s \in Buf!Symbol PROVE Buf!Lower(s) \in Buf!Symbol
BY DEF Buf!Lower, Buf!Symbol, Buf!Small, Buf!Large

LEMMA ToLowerStep ==
  ASSUME Inv, NEW c \in Conn, Buf!ToLower(c) PROVE Inv'
<1> DEFINE io == Buf!Iobuf(c)
           cb == cmpbuf[c]
<1>1. /\ spc[c] = "lower" /\ spc' = [spc EXCEPT ![c] = "look"]
      /\ mem' = [mem EXCEPT ![cb] = [i \in DOMAIN mem[cb] |->
                  IF i <= Buf!Rlen(c) THEN Buf!Lower(mem[io][i]) ELSE mem[cb][i]]]
      /\ UNCHANGED <<pool, methodbuf, hdrbuf, cmpbuf, req, requestbytes, bufiobytes, methodok, keep>>
  BY DEF Buf!ToLower, Buf!bufs, Buf!request
<1>2. /\ cb \in HBuf /\ cb \in Buf!Buffer /\ io \in Buf!Buffer /\ io # cb /\ spc[c] \in Busy
  <2>1. spc[c] \in Busy /\ cb # None BY <1>1 DEF Busy, Inv, PhaseInv
  <2>2. cb \in HBuf BY <2>1 DEF Inv, TypeInv
  <2>3. io \in Buf!Buffer /\ io # None /\ io \in {methodbuf[c], hdrbuf[c]} BY <2>1, IobufOwn
  <2>4. io # cb BY <2>2, <2>3, BuffersAssumption DEF Inv, OwnInv, TypeInv
  <2> QED BY <2>1, <2>2, <2>3, <2>4 DEF Buf!Buffer
<1>3. Buf!Size(cb) = HeaderSize /\ mem[cb] \in [1 .. HeaderSize -> Buf!Symbol] /\ HeaderSize \in Nat
  BY <1>2, BuffersAssumption DEF Inv, TypeInv, Buf!Size
<1>4. /\ Buf!Rlen(c) = bufiobytes[c] /\ bufiobytes[c] \in Nat
      /\ bufiobytes[c] <= Buf!Size(io) /\ bufiobytes[c] <= HeaderSize
  BY <1>2, Whole
<1>5. mem'[cb] = [i \in 1 .. HeaderSize |-> IF i <= bufiobytes[c] THEN Buf!Lower(mem[io][i]) ELSE mem[cb][i]]
  BY <1>1, <1>2, <1>3, <1>4 DEF Inv, TypeInv
<1>6. DOMAIN mem' = Buf!Buffer /\ \A b \in Buf!Buffer : b # cb => mem'[b] = mem[b] BY <1>1 DEF Inv, TypeInv
<1>7. spc' \in [Conn -> State] /\ spc'[c] = "look" /\ \A d \in Conn \ {c} : spc'[d] = spc[d]
  BY <1>1 DEF Inv, TypeInv, State
<1>8. mem[io] \in [1 .. Buf!Size(io) -> Buf!Symbol] /\ Buf!Size(io) \in Nat
  BY <1>2, BuffersAssumption DEF Inv, TypeInv, Buf!Size
<1> HIDE DEF io, cb
<1>9. TypeInv'
  <2>1. \A i \in 1 .. HeaderSize : i <= bufiobytes[c] => Buf!Lower(mem[io][i]) \in Buf!Symbol
    BY <1>4, <1>8, LowerSymbol
  <2>2. mem'[cb] \in [1 .. HeaderSize -> Buf!Symbol] BY <1>3, <1>5, <2>1
  <2> QED BY <1>1, <1>3, <1>6, <1>7, <2>2 DEF Inv, TypeInv
<1>10. OwnInv' BY <1>1 DEF Inv, OwnInv
<1>11. PhaseInv' BY <1>1, <1>7 DEF Inv, PhaseInv, Busy
<1>12. \A d \in Conn \ {c} : Same(d) BY <1>1, <1>7 DEF Same
<1>13. \A d \in Conn \ {c} : Begins(d)' /\ Copied(d)' /\ Sound(d)' BY <1>6, <1>12, Others DEF cb
<1>14. Buf!Iobuf(c)' = io /\ mem'[io] = mem[io] BY <1>1, <1>2, <1>6 DEF Buf!Iobuf, io
<1>15. Begins(c)' BY <1>1, <1>2, <1>7, <1>14 DEF Inv, Begins, io
<1>16. Copied(c)'
  <2>1. \A i \in 1 .. bufiobytes[c] : mem'[cb][i] = Buf!Lower(mem[io][i]) BY <1>3, <1>4, <1>5
  <2> QED BY <1>1, <1>14, <2>1 DEF Copied, cb
<1>17. Sound(c)' BY <1>7 DEF Sound
<1> QED BY <1>9, <1>10, <1>11, <1>13, <1>15, <1>16, <1>17 DEF Inv

\* What the searches find is in the request; and what is in a request that fits
\* is found.
LEMMA FoundMarks ==
  ASSUME Inv, NEW c \in Conn, spc[c] = "look", NEW mark \in Buf!Small
  PROVE  /\ Buf!FoundIn(mark, c) => Buf!Has(req[c], mark)
         /\ Len(req[c]) <= HeaderSize => (Buf!FoundIn(mark, c) <=> Buf!Has(req[c], mark))
<1> DEFINE io == Buf!Iobuf(c)
           k == bufiobytes[c]
<1>1. spc[c] \in Busy BY DEF Busy
<1>2. Buf!Rlen(c) = k /\ k \in Nat BY <1>1, Whole
<1>3. \A i \in 1 .. k : mem[cmpbuf[c]][i] = Buf!Lower(mem[io][i]) BY DEF Inv, Copied
<1>4. /\ requestbytes[c] = Len(req[c]) /\ (k # requestbytes[c] => HeaderSize < Len(req[c]))
      /\ \A i \in 1 .. k : /\ mem[io][i] # "x" => \E j \in DOMAIN req[c] : mem[io][i] = req[c][j]
                           /\ k = requestbytes[c] => mem[io][i] = req[c][i]
  BY <1>1 DEF Inv, Begins
<1>5. DOMAIN req[c] = 1 .. Len(req[c]) /\ Len(req[c]) \in Nat /\ HeaderSize \in Nat
  BY BuffersAssumption DEF Inv, TypeInv
<1>6. Buf!Lower("x") # mark BY DEF Buf!Lower, Buf!Small
<1> HIDE DEF io, k
<1>7. Buf!FoundIn(mark, c) => Buf!Has(req[c], mark)
  <2> SUFFICES ASSUME Buf!FoundIn(mark, c) PROVE Buf!Has(req[c], mark) OBVIOUS
  <2>1. PICK i \in 1 .. k : mem[cmpbuf[c]][i] = mark BY <1>2 DEF Buf!FoundIn
  <2>2. Buf!Lower(mem[io][i]) = mark /\ mem[io][i] # "x" BY <1>3, <1>6, <2>1
  <2>3. PICK j \in DOMAIN req[c] : mem[io][i] = req[c][j] BY <1>4, <2>2
  <2> QED BY <2>2, <2>3 DEF Buf!Has
<1>8. ASSUME Len(req[c]) <= HeaderSize, Buf!Has(req[c], mark) PROVE Buf!FoundIn(mark, c)
  <2>1. k = Len(req[c]) BY <1>2, <1>4, <1>5, <1>8
  <2>2. PICK j \in 1 .. k : Buf!Lower(req[c][j]) = mark BY <1>5, <1>8, <2>1 DEF Buf!Has
  <2>3. mem[cmpbuf[c]][j] = mark BY <1>3, <1>4, <2>1, <2>2
  <2> QED BY <1>2, <2>3 DEF Buf!FoundIn
<1> QED BY <1>7, <1>8

LEMMA LookStep ==
  ASSUME Inv, NEW c \in Conn, Buf!Look(c) PROVE Inv'
<1>1. /\ spc[c] = "look" /\ keep' = [keep EXCEPT ![c] = Buf!httpKeepAliveParse(c)]
      /\ bufiobytes' = [bufiobytes EXCEPT ![c] = 0] /\ spc' = [spc EXCEPT ![c] = "answer"]
      /\ UNCHANGED <<mem, pool, methodbuf, hdrbuf, cmpbuf, req, requestbytes, methodok>>
  BY DEF Buf!Look, Buf!bufs
<1>2. spc' \in [Conn -> State] /\ spc'[c] = "answer" /\ \A d \in Conn \ {c} : spc'[d] = spc[d]
  BY <1>1 DEF Inv, TypeInv, State
<1>3. Buf!httpKeepAliveParse(c) \in BOOLEAN BY DEF Buf!httpKeepAliveParse
<1>4. /\ keep' \in [Conn -> BOOLEAN] /\ keep'[c] = Buf!httpKeepAliveParse(c)
      /\ \A d \in Conn \ {c} : keep'[d] = keep[d]
  BY <1>1, <1>3 DEF Inv, TypeInv
<1>5. bufiobytes' \in [Conn -> Nat] /\ \A d \in Conn \ {c} : bufiobytes'[d] = bufiobytes[d]
  BY <1>1 DEF Inv, TypeInv
<1>6. TypeInv' BY <1>1, <1>2, <1>4, <1>5 DEF Inv, TypeInv
<1>7. OwnInv' BY <1>1 DEF Inv, OwnInv
<1>8. PhaseInv' BY <1>1, <1>2 DEF Inv, PhaseInv, Busy
<1>9. \A d \in Conn \ {c} : Same(d) BY <1>1, <1>2, <1>4, <1>5 DEF Same
<1>10. \A d \in Conn \ {c} : Begins(d)' /\ Copied(d)' /\ Sound(d)' BY <1>1, <1>9, Others
<1>11. Begins(c)' /\ Copied(c)' BY <1>2 DEF Begins, Copied, Busy
<1>12. Sound(c)'
  <2>1. \A mark \in Buf!Small : /\ Buf!FoundIn(mark, c) => Buf!Has(req[c], mark)
                                /\ Len(req[c]) <= HeaderSize => (Buf!FoundIn(mark, c) <=> Buf!Has(req[c], mark))
    BY <1>1, FoundMarks
  <2>2. req'[c] = req[c] BY <1>1
  <2> DEFINE Close == "connection: close"
             Stay == "connection: keep-alive"
             Eleven == "http/1.1"
  <2>3. Close \in Buf!Small /\ Stay \in Buf!Small /\ Eleven \in Buf!Small BY DEF Buf!Small
  <2> HIDE DEF Close, Stay, Eleven
  <2>4. keep'[c] <=> ~Buf!FoundIn(Close, c) /\ (Buf!FoundIn(Stay, c) \/ Buf!FoundIn(Eleven, c))
    BY <1>4 DEF Buf!httpKeepAliveParse, Close, Stay, Eleven
  <2>5. Buf!Asks(req[c]) <=> Buf!Has(req[c], Stay) \/ Buf!Has(req[c], Eleven)
    BY DEF Buf!Asks, Stay, Eleven
  <2> DEFINE F(mark) == Buf!FoundIn(mark, c)
             R(mark) == Buf!Has(req[c], mark)
             Fits == Len(req[c]) <= HeaderSize
  <2>6. /\ (F(Close) => R(Close)) /\ (Fits => (F(Close) <=> R(Close)))
        /\ (F(Stay) => R(Stay)) /\ (Fits => (F(Stay) <=> R(Stay)))
        /\ (F(Eleven) => R(Eleven)) /\ (Fits => (F(Eleven) <=> R(Eleven)))
    BY <2>1, <2>3, Zenon DEF F, R, Fits
  <2> HIDE DEF F, R, Fits
  <2>7. keep'[c] => Buf!Asks(req[c]) BY <2>4, <2>5, <2>6, Zenon DEF F, R
  <2>8. Fits => (keep'[c] <=> Buf!Asks(req[c]) /\ ~R(Close)) BY <2>4, <2>5, <2>6, Zenon DEF F, R
  <2> QED BY <2>2, <2>7, <2>8, Zenon DEF Sound, Close, Fits, R, Buf!Asks, Buf!Has
<1> QED BY <1>6, <1>7, <1>8, <1>10, <1>11, <1>12 DEF Inv

LEMMA LeaveStep ==
  ASSUME Inv, NEW c \in Conn, Buf!Leave(c) PROVE Inv'
<1>1. /\ spc' = [spc EXCEPT ![c] = "close"] /\ req' = [req EXCEPT ![c] = <<>>]
      /\ requestbytes' = [requestbytes EXCEPT ![c] = 0] /\ bufiobytes' = [bufiobytes EXCEPT ![c] = 0]
      /\ methodok' = [methodok EXCEPT ![c] = FALSE] /\ keep' = [keep EXCEPT ![c] = FALSE]
      /\ UNCHANGED <<mem, pool, methodbuf, hdrbuf, cmpbuf>>
  BY DEF Buf!Leave, Buf!bufs
<1>2. spc' \in [Conn -> State] /\ spc'[c] = "close" /\ \A d \in Conn \ {c} : spc'[d] = spc[d]
  BY <1>1 DEF Inv, TypeInv, State
<1>3. TypeInv' BY <1>1, <1>2 DEF Inv, TypeInv
<1>4. OwnInv' BY <1>1 DEF Inv, OwnInv
<1>5. \A d \in Conn \ {c} : Same(d) BY <1>1, <1>2 DEF Same, Inv, TypeInv
<1>6. PhaseInv' BY <1>1, <1>2, <1>5 DEF Inv, PhaseInv, Busy, Same
<1>7. \A d \in Conn \ {c} : Begins(d)' /\ Copied(d)' /\ Sound(d)' BY <1>1, <1>5, Others
<1>8. Begins(c)' /\ Copied(c)' /\ Sound(c)' BY <1>2 DEF Begins, Copied, Sound, Busy
<1> QED BY <1>3, <1>4, <1>6, <1>7, <1>8 DEF Inv

\* What a service puts back it does not use any more.
LEMMA PutStep ==
  ASSUME Inv, NEW c \in Conn, Buf!PutMethod(c) \/ Buf!PutHeader(c) \/ Buf!PutCmp(c) PROVE Inv'
<1>1. PICK w \in {methodbuf[c], hdrbuf[c], cmpbuf[c]} :
        /\ pool' = pool \cup ({w} \ {None})
        /\ \/ w = methodbuf[c] /\ methodbuf' = [methodbuf EXCEPT ![c] = None] /\ UNCHANGED <<hdrbuf, cmpbuf>>
           \/ w = hdrbuf[c] /\ hdrbuf' = [hdrbuf EXCEPT ![c] = None] /\ UNCHANGED <<methodbuf, cmpbuf>>
           \/ w = cmpbuf[c] /\ cmpbuf' = [cmpbuf EXCEPT ![c] = None] /\ UNCHANGED <<methodbuf, hdrbuf>>
  BY DEF Buf!PutMethod, Buf!PutHeader, Buf!PutCmp, Buf!Put
<1>2. /\ UNCHANGED <<mem, req, requestbytes, bufiobytes, methodok, keep>>
      /\ spc' \in [Conn -> State] /\ spc[c] \in {"close", "puthdr", "putcmp"}
      /\ spc'[c] \in {"puthdr", "putcmp", "idle"} /\ \A d \in Conn \ {c} : spc'[d] = spc[d]
  BY DEF Buf!PutMethod, Buf!PutHeader, Buf!PutCmp, Buf!request, Inv, TypeInv, State
<1>3. TypeInv'
  <2>1. pool' \subseteq Buf!Buffer BY <1>1 DEF Inv, TypeInv, Buf!Buffer
  <2>2. methodbuf' \in [Conn -> MBuf \cup {None}] BY <1>1 DEF Inv, TypeInv
  <2>3. hdrbuf' \in [Conn -> HBuf \cup {None}] /\ cmpbuf' \in [Conn -> HBuf \cup {None}]
    BY <1>1 DEF Inv, TypeInv
  <2> QED BY <1>2, <2>1, <2>2, <2>3 DEF Inv, TypeInv
<1>4. OwnInv'
  <2>1. CASE w = methodbuf[c] /\ methodbuf' = [methodbuf EXCEPT ![c] = None] /\ UNCHANGED <<hdrbuf, cmpbuf>>
    BY <1>1, <2>1, BuffersAssumption DEF Inv, OwnInv, TypeInv, Buf!Buffer
  <2>2. CASE w = hdrbuf[c] /\ hdrbuf' = [hdrbuf EXCEPT ![c] = None] /\ UNCHANGED <<methodbuf, cmpbuf>>
    BY <1>1, <2>2, BuffersAssumption DEF Inv, OwnInv, TypeInv, Buf!Buffer
  <2>3. CASE w = cmpbuf[c] /\ cmpbuf' = [cmpbuf EXCEPT ![c] = None] /\ UNCHANGED <<methodbuf, hdrbuf>>
    BY <1>1, <2>3, BuffersAssumption DEF Inv, OwnInv, TypeInv, Buf!Buffer
  <2> QED BY <1>1, <2>1, <2>2, <2>3
<1>5. \A d \in Conn \ {c} : Same(d) BY <1>1, <1>2 DEF Same, Inv, TypeInv
<1>6. PhaseInv' BY <1>2, <1>5 DEF Inv, PhaseInv, Busy, Same
<1>7. \A d \in Conn \ {c} : Begins(d)' /\ Copied(d)' /\ Sound(d)' BY <1>2, <1>5, Others
<1>8. Begins(c)' /\ Copied(c)' /\ Sound(c)' BY <1>2 DEF Begins, Copied, Sound, Busy
<1> QED BY <1>3, <1>4, <1>6, <1>7, <1>8 DEF Inv

LEMMA StutterStep ==
  ASSUME Inv, UNCHANGED Buf!vars PROVE Inv'
<1>1. TypeInv' BY DEF Buf!vars, Inv, TypeInv
<1>2. OwnInv' BY DEF Buf!vars, Inv, OwnInv
<1>3. PhaseInv' BY DEF Buf!vars, Inv, PhaseInv
<1>4. ASSUME NEW d \in Conn PROVE Begins(d)' /\ Copied(d)' /\ Sound(d)'
  <2>1. Same(d) /\ UNCHANGED mem BY DEF Buf!vars, Same
  <2> QED BY <2>1, Frame DEF Inv
<1> QED BY <1>1, <1>2, <1>3, <1>4 DEF Inv

\* Whether a connection is kept depends on its own request alone, for any
\* number of services that share the pools, whatever the pooled buffers hold
\* and however the reads are cut.
THEOREM KeepAliveCorrect == Buf!Spec => []KeepAliveSound
<1>1. Buf!Init => Inv BY BuffersInit
<1>2. Inv /\ [Buf!Next]_(Buf!vars) => Inv'
  <2> SUFFICES ASSUME Inv, [Buf!Next]_(Buf!vars) PROVE Inv' OBVIOUS
  <2>1. ASSUME NEW b \in Buf!Buffer, Buf!Collect(b) PROVE Inv' BY <2>1, CollectStep
  <2>2. ASSUME NEW c \in Conn,
               \/ Buf!Start(c) \/ Buf!Read(c) \/ Buf!UseHeader(c) \/ Buf!ReadOn(c)
               \/ Buf!Found(c) \/ Buf!ToLower(c) \/ Buf!Look(c)
               \/ Buf!KeepOpen(c) \/ Buf!Leave(c) \/ Buf!PutMethod(c) \/ Buf!PutHeader(c) \/ Buf!PutCmp(c)
        PROVE  Inv'
    BY <2>2, StartStep, ReadStep, UseHeaderStep, ReadOnStep, FoundStep, ToLowerStep, LookStep,
       KeepOpenStep, LeaveStep, PutStep
  <2> QED BY <2>1, <2>2, StutterStep DEF Buf!Next
<1>3. Inv => KeepAliveSound BY DEF Inv, Sound, KeepAliveSound, Buf!KeepAliveSound
<1> QED BY <1>1, <1>2, <1>3, PTL DEF Buf!Spec
=============================================================================
