-------------------------- MODULE FastHttpBuffers ---------------------------
(***************************************************************************)
(* The buffers of fasthttpserver.go.  Every tinyhttpservice takes a        *)
(* methodbuf, and when it needs them a header buffer and a buffer for the  *)
(* lower case copy of a request, from pools that all connections of a      *)
(* worker share.  A pooled buffer still holds what an earlier connection   *)
(* left in it.  httpKeepAliveParse decides from such buffers whether a     *)
(* connection is kept.                                                     *)
(*                                                                         *)
(* A request is a sequence of symbols: everything that has been read when  *)
(* the end of its header is found (FastHttpParse is about how it is found).*)
(* The marks httpKeepAliveParse looks for are one symbol each, written in  *)
(* lower case or not; "x" is any other byte, zeroes included.  Deadlines,  *)
(* the counters and the response are in FastHttpServer.                    *)
(***************************************************************************)
EXTENDS Integers, Sequences, FiniteSetsExt

CONSTANTS
    Conn,       \* connections, a number serves many of them in turn
    MBuf, HBuf, \* the buffers methodBufPool and headerBufPool may ever make
    None,
    Request,    \* the requests peers send
    MiniSize,   \* HTTP_MINI_HEADER_SIZE
    MethodSize, \* HTTP_INIT_HEADER_SIZE
    HeaderSize, \* HTTP_MAX_HEADER_SIZE
    TailSize    \* HTTP_TAIL_HEADER_SIZE

Small == {"http/1.1", "connection: close", "connection: keep-alive"}
Large == {"HTTP/1.1", "Connection: Close", "Connection: Keep-Alive"}
Symbol == Small \cup Large \cup {"x"}

VARIABLES
    mem,            \* what every buffer holds
    pool,           \* the buffers in the two pools
    methodbuf, hdrbuf, cmpbuf,  \* of each service, None for nil
    spc,            \* idle, read, parse, lower, look, answer, close, puthdr, putcmp
    req,            \* the request on its way
    requestbytes, bufiobytes, methodok, isKeepAlive

vars == <<mem, pool, methodbuf, hdrbuf, cmpbuf, spc, req, requestbytes, bufiobytes, methodok, isKeepAlive>>
bufs == <<methodbuf, hdrbuf, cmpbuf>>
request == <<req, requestbytes, bufiobytes, methodok>>

Buffer == MBuf \cup HBuf
Size(b) == IF b \in MBuf THEN MethodSize ELSE HeaderSize
Blank(b) == [i \in 1 .. Size(b) |-> "x"]    \* make([]byte, ...)

Init ==
    /\ mem = [b \in Buffer |-> Blank(b)] /\ pool = {}
    /\ methodbuf = [c \in Conn |-> None] /\ hdrbuf = methodbuf /\ cmpbuf = methodbuf
    /\ spc = [c \in Conn |-> "idle"] /\ req = [c \in Conn |-> <<>>]
    /\ requestbytes = [c \in Conn |-> 0] /\ bufiobytes = requestbytes
    /\ methodok = [c \in Conn |-> FALSE] /\ isKeepAlive = methodok

(***************************************************************************)
(* The pools.                                                              *)
(***************************************************************************)
Held == {methodbuf[c] : c \in Conn} \cup {hdrbuf[c] : c \in Conn} \cup {cmpbuf[c] : c \in Conn}

\* Get returns any pooled buffer as it is, or makes one.
Get(kind) == (pool \cap kind) \cup {b \in kind \ (pool \cup Held) : mem[b] = Blank(b)}

\* The garbage collector empties a pool piece by piece.
Collect(b) ==
    /\ b \in pool /\ pool' = pool \ {b}
    /\ mem' = [mem EXCEPT ![b] = Blank(b)]
    /\ UNCHANGED <<bufs, spc, request, isKeepAlive>>

(***************************************************************************)
(* Reading a request.                                                      *)
(***************************************************************************)
\* State KEEPALIVE.
BeginRequest(c) ==
    /\ \E r \in Request : req' = [req EXCEPT ![c] = r]
    /\ requestbytes' = [requestbytes EXCEPT ![c] = 0] /\ bufiobytes' = [bufiobytes EXCEPT ![c] = 0]
    /\ methodok' = [methodok EXCEPT ![c] = FALSE]
    /\ spc' = [spc EXCEPT ![c] = "read"]

Start(c) ==
    /\ spc[c] = "idle"
    /\ \E b \in Get(MBuf) : methodbuf' = [methodbuf EXCEPT ![c] = b] /\ pool' = pool \ {b}
    /\ BeginRequest(c)
    /\ UNCHANGED <<mem, hdrbuf, cmpbuf, isKeepAlive>>

Iobuf(c) == IF methodok[c] THEN hdrbuf[c] ELSE methodbuf[c]

\* A read that returns n bytes; with less than the shortest method it reads on.
Read(c) ==
    /\ spc[c] = "read"
    /\ \E n \in 1 .. Len(req[c]) - requestbytes[c] :
          /\ n <= Size(Iobuf(c)) - bufiobytes[c]
          /\ mem' = [mem EXCEPT ![Iobuf(c)] = [i \in DOMAIN @ |->
                        IF i \in bufiobytes[c] + 1 .. bufiobytes[c] + n
                        THEN req[c][requestbytes[c] + i - bufiobytes[c]] ELSE @[i]]]
          /\ requestbytes' = [requestbytes EXCEPT ![c] = @ + n]
          /\ bufiobytes' = [bufiobytes EXCEPT ![c] = @ + n]
          /\ spc' = [spc EXCEPT ![c] = IF requestbytes[c] + n < MiniSize THEN "read" ELSE "parse"]
    /\ UNCHANGED <<pool, bufs, req, methodok, isKeepAlive>>

\* The header does not end in methodbuf: all of it, old bytes too, is copied
\* into a header buffer, which the service keeps for its next requests.
UseHeader(c) ==
    /\ spc[c] = "parse" /\ requestbytes[c] < Len(req[c]) /\ ~methodok[c]
    /\ \E b \in IF hdrbuf[c] = None THEN Get(HBuf) ELSE {hdrbuf[c]} :
          /\ hdrbuf' = [hdrbuf EXCEPT ![c] = b] /\ pool' = pool \ {b}
          /\ mem' = [mem EXCEPT ![b] = [i \in DOMAIN @ |->
                        IF i <= MethodSize THEN mem[methodbuf[c]][i] ELSE @[i]]]
    /\ methodok' = [methodok EXCEPT ![c] = TRUE]
    /\ UNCHANGED <<methodbuf, cmpbuf, spc, req, requestbytes, bufiobytes, isKeepAlive>>

\* It does not end in the header buffer either: read on, in a full buffer
\* behind its last bytes.  They are fewer than a mark has, so that a mark may
\* not be whole any more.
ReadOn(c) ==
    /\ spc[c] = "parse" /\ requestbytes[c] < Len(req[c]) /\ methodok[c]
    /\ spc' = [spc EXCEPT ![c] = "read"]
    /\ IF bufiobytes[c] >= HeaderSize
         THEN /\ bufiobytes' = [bufiobytes EXCEPT ![c] = TailSize]
              /\ \E whole \in BOOLEAN :
                    mem' = [mem EXCEPT ![hdrbuf[c]] = [i \in DOMAIN @ |->
                              IF i > TailSize THEN @[i]
                              ELSE IF whole THEN @[bufiobytes[c] - TailSize + i] ELSE "x"]]
         ELSE UNCHANGED <<mem, bufiobytes>>
    /\ UNCHANGED <<pool, bufs, req, requestbytes, methodok, isKeepAlive>>

\* The end of the header is there.
Found(c) ==
    /\ spc[c] = "parse" /\ requestbytes[c] = Len(req[c])
    /\ \E b \in IF cmpbuf[c] = None THEN Get(HBuf) ELSE {cmpbuf[c]} :
          cmpbuf' = [cmpbuf EXCEPT ![c] = b] /\ pool' = pool \ {b}
    /\ spc' = [spc EXCEPT ![c] = "lower"]
    /\ UNCHANGED <<mem, methodbuf, hdrbuf, request, isKeepAlive>>

(***************************************************************************)
(* httpKeepAliveParse, in two steps: others run between the copy and the   *)
(* searches in it.                                                         *)
(***************************************************************************)
Lower(s) ==
    CASE s = "HTTP/1.1" -> "http/1.1"
      [] s = "Connection: Close" -> "connection: close"
      [] s = "Connection: Keep-Alive" -> "connection: keep-alive"
      [] OTHER -> s

\* len(rbuf): no more than cmpbuf has.
Rlen(c) == IF bufiobytes[c] > HeaderSize THEN HeaderSize ELSE bufiobytes[c]

ToLower(c) ==
    /\ spc[c] = "lower"
    /\ mem' = [mem EXCEPT ![cmpbuf[c]] = [i \in DOMAIN @ |->
                  IF i <= Rlen(c) THEN Lower(mem[Iobuf(c)][i]) ELSE @[i]]]
    /\ spc' = [spc EXCEPT ![c] = "look"]
    /\ UNCHANGED <<pool, bufs, request, isKeepAlive>>

\* Mutant: the marks are looked for in all of cmpbuf.
FoundInAll(mark, c) == \E i \in DOMAIN mem[cmpbuf[c]] : mem[cmpbuf[c]][i] = mark

\* bytes.Index(cmpbuf[:len(rbuf)], mark) >= 0
FoundIn(mark, c) == \E i \in 1 .. Rlen(c) : mem[cmpbuf[c]][i] = mark

httpKeepAliveParse(c) ==
    /\ ~FoundIn("connection: close", c)
    /\ FoundIn("connection: keep-alive", c) \/ FoundIn("http/1.1", c)

Look(c) ==
    /\ spc[c] = "look"
    /\ isKeepAlive' = [isKeepAlive EXCEPT ![c] = httpKeepAliveParse(c)]
    /\ bufiobytes' = [bufiobytes EXCEPT ![c] = 0]
    /\ spc' = [spc EXCEPT ![c] = "answer"]
    /\ UNCHANGED <<mem, pool, bufs, req, requestbytes, methodok>>

(***************************************************************************)
(* After the response, and the end of a connection.                        *)
(***************************************************************************)
\* The response is out and the connection stays.
KeepOpen(c) ==
    /\ spc[c] = "answer" /\ isKeepAlive[c] /\ BeginRequest(c)
    /\ UNCHANGED <<mem, pool, bufs, isKeepAlive>>

\* The connection is not kept, a read or a write fails, the method is not
\* allowed, the header is too long or the server exits.  What the service
\* knows of the request is not used any more.
Leave(c) ==
    /\ \/ spc[c] \in {"read", "answer"}
       \/ spc[c] = "parse" /\ (requestbytes[c] < Len(req[c]) \/ ~methodok[c])
    /\ spc' = [spc EXCEPT ![c] = "close"]
    /\ req' = [req EXCEPT ![c] = <<>>] /\ requestbytes' = [requestbytes EXCEPT ![c] = 0]
    /\ bufiobytes' = [bufiobytes EXCEPT ![c] = 0] /\ methodok' = [methodok EXCEPT ![c] = FALSE]
    /\ isKeepAlive' = [isKeepAlive EXCEPT ![c] = FALSE]
    /\ UNCHANGED <<mem, pool, bufs>>

Put(b) == pool' = pool \cup ({b} \ {None})

PutMethod(c) ==
    /\ spc[c] = "close" /\ spc' = [spc EXCEPT ![c] = "puthdr"]
    /\ Put(methodbuf[c]) /\ methodbuf' = [methodbuf EXCEPT ![c] = None]
    /\ UNCHANGED <<mem, hdrbuf, cmpbuf, request, isKeepAlive>>

PutHeader(c) ==
    /\ spc[c] = "puthdr" /\ spc' = [spc EXCEPT ![c] = "putcmp"]
    /\ Put(hdrbuf[c]) /\ hdrbuf' = [hdrbuf EXCEPT ![c] = None]
    /\ UNCHANGED <<mem, methodbuf, cmpbuf, request, isKeepAlive>>

PutCmp(c) ==
    /\ spc[c] = "putcmp" /\ spc' = [spc EXCEPT ![c] = "idle"]
    /\ Put(cmpbuf[c]) /\ cmpbuf' = [cmpbuf EXCEPT ![c] = None]
    /\ UNCHANGED <<mem, methodbuf, hdrbuf, request, isKeepAlive>>

Next ==
    \/ \E b \in Buffer : Collect(b)
    \/ \E c \in Conn :
          \/ Start(c) \/ Read(c) \/ UseHeader(c) \/ ReadOn(c) \/ Found(c) \/ ToLower(c) \/ Look(c)
          \/ KeepOpen(c) \/ Leave(c) \/ PutMethod(c) \/ PutHeader(c) \/ PutCmp(c)

Spec == Init /\ [][Next]_vars

(***************************************************************************)
(* Properties.                                                             *)
(***************************************************************************)
Has(r, mark) == \E i \in DOMAIN r : Lower(r[i]) = mark
Asks(r) == Has(r, "connection: keep-alive") \/ Has(r, "http/1.1")

\* The answer of httpKeepAliveParse is about this request, whatever its buffers
\* held before, whoever had them and however the reads were cut: a connection
\* is kept only if its request asks for it, and if the request fits into the
\* header buffer exactly if it asks for it and does not ask for a close.  (Of a
\* longer request the code has forgotten the beginning.)
KeepAliveSound ==
    \A c \in Conn : spc[c] = "answer" =>
        /\ isKeepAlive[c] => Asks(req[c])
        /\ Len(req[c]) <= HeaderSize =>
              (isKeepAlive[c] <=> Asks(req[c]) /\ ~Has(req[c], "connection: close"))
=============================================================================
