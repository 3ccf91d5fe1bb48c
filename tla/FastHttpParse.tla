--------------------------- MODULE FastHttpParse ---------------------------
(***************************************************************************)
(* How tinyhttpservice of fasthttpserver.go reads one request: into        *)
(* methodbuf until the method is known, then into a header buffer of fixed *)
(* size of which only the tail is kept when it is full; httpURIParser looks*)
(* at what the buffer holds after every read, however the network cuts the *)
(* stream.                                                                 *)
(*                                                                         *)
(* The bytes are abstracted to four symbols: N (\n), R (\r), G (a byte of  *)
(* "GET /") and X (any other).  methodbuf, the header buffer and the tail  *)
(* kept from it are all the end of what was read, so only their length is  *)
(* state.                                                                  *)
(***************************************************************************)
EXTENDS Integers, Sequences, FiniteSetsExt

CONSTANTS
    MaxWire,    \* length of the stream a peer sends (a bound)
    MethodSize, \* HTTP_INIT_HEADER_SIZE
    HeaderSize, \* HTTP_MAX_HEADER_SIZE
    MiniSize,   \* HTTP_MINI_HEADER_SIZE
    TailSize,   \* HTTP_TAIL_HEADER_SIZE
    MaxRead,    \* HTTP_MAX_HEADER_READ_SIZE
    MaxEmpty    \* MAX_EMPTY_IO

VARIABLES
    stream,     \* symbols that have not been read yet
    got,        \* symbols read for this request, requestbytes is its length
    bufiobytes,
    methodok,
    emptyio,
    recycled,   \* the buffer has been reused
    fpc         \* read, parse, done, closed

Symbol == {"N", "R", "X", "G"}
vars == <<stream, got, bufiobytes, methodok, emptyio, recycled, fpc>>

Init ==
    /\ \E n \in 1 .. MaxWire : stream \in [1 .. n -> Symbol]
    /\ \A i \in DOMAIN stream : stream[i] = "G" => i < MiniSize
    /\ got = <<>> /\ bufiobytes = 0 /\ methodok = FALSE /\ emptyio = 0 /\ recycled = FALSE
    /\ fpc = "read"

Room == (IF methodok THEN HeaderSize ELSE MethodSize) - bufiobytes
Buf == SubSeq(got, Len(got) - bufiobytes + 1, Len(got))     \* iobuf[:bufiobytes]

(***************************************************************************)
(* One read: bytes; none and no error; an error, the peer's end or the     *)
(* deadline.                                                               *)
(***************************************************************************)
Read ==
    /\ fpc = "read"
    /\ \E n \in 1 .. Len(stream) :
          /\ n <= Room
          /\ got' = got \o SubSeq(stream, 1, n) /\ stream' = SubSeq(stream, n + 1, Len(stream))
          /\ bufiobytes' = bufiobytes + n
    /\ fpc' = "parse"
    /\ UNCHANGED <<methodok, emptyio, recycled>>

ReadNothing ==
    /\ fpc = "read"
    /\ IF emptyio >= MaxEmpty
         THEN fpc' = "closed" /\ UNCHANGED emptyio
         ELSE emptyio' = emptyio + 1 /\ UNCHANGED fpc
    /\ UNCHANGED <<stream, got, bufiobytes, methodok, recycled>>

ReadError ==
    /\ fpc = "read" /\ fpc' = "closed"
    /\ UNCHANGED <<stream, got, bufiobytes, methodok, emptyio, recycled>>

(***************************************************************************)
(* The parsers.                                                            *)
(***************************************************************************)
\* httpMethodParser finds a method it allows.
Allowed(buf) == \A i \in 1 .. MiniSize - 1 : buf[i] = "G"

\* Mutant: two bytes are asked for behind an end of line before the first of
\* them is looked at.
UriCodeLate(buf) ==
    LET code[i \in 1 .. Len(buf) + 1] ==
            LET nls == {j \in i .. Len(buf) : buf[j] = "N"}
                p == Min(nls)
            IN IF nls = {} THEN 1
               ELSE IF p - i < MiniSize THEN 2
               ELSE IF p + 2 > Len(buf) THEN 1
               ELSE IF buf[p + 1] = "N" THEN 0
               ELSE IF <<buf[p - 1], buf[p + 1], buf[p + 2]>> = <<"R", "R", "N">> THEN 0
               ELSE code[p + 1]
    IN code[1]

\* httpURIParser, from line to line: 0 for found, 1 for read more, 2 for a
\* line that is too short.
httpURIParser(buf) ==
    LET code[i \in 1 .. Len(buf) + 1] ==
            LET nls == {j \in i .. Len(buf) : buf[j] = "N"}
                p == Min(nls)
            IN IF nls = {} THEN 1
               ELSE IF p - i < MiniSize THEN 2
               ELSE IF p + 1 > Len(buf) THEN 1
               ELSE IF buf[p + 1] = "N" THEN 0
               ELSE IF p + 2 > Len(buf) THEN 1
               ELSE IF <<buf[p - 1], buf[p + 1], buf[p + 2]>> = <<"R", "R", "N">> THEN 0
               ELSE code[p + 1]
    IN code[1]

(***************************************************************************)
(* What follows a read that returned bytes.                                *)
(***************************************************************************)
NeedMore ==
    /\ fpc = "parse" /\ Len(got) < MiniSize /\ fpc' = "read"
    /\ UNCHANGED <<stream, got, bufiobytes, methodok, emptyio, recycled>>

NotAllowed ==
    /\ fpc = "parse" /\ Len(got) >= MiniSize /\ ~methodok /\ ~Allowed(Buf)
    /\ fpc' = "closed"
    /\ UNCHANGED <<stream, got, bufiobytes, methodok, emptyio, recycled>>

\* The empty line is there: from methodbuf at once, else from the header
\* buffer.
Found ==
    /\ fpc = "parse" /\ Len(got) >= MiniSize /\ (methodok \/ Allowed(Buf))
    /\ httpURIParser(Buf) = 0
    /\ fpc' = "done"
    /\ UNCHANGED <<stream, got, bufiobytes, methodok, emptyio, recycled>>

\* It is not, which a line that is too short is taken for as well: up to a
\* limit go on reading into the header buffer, behind its tail if it is full.
ReadMore ==
    /\ fpc = "parse" /\ Len(got) >= MiniSize /\ (methodok \/ Allowed(Buf))
    /\ httpURIParser(Buf) > 0
    /\ methodok' = TRUE
    /\ fpc' = IF Len(got) >= MaxRead THEN "closed" ELSE "read"
    /\ IF Len(got) < MaxRead /\ bufiobytes >= HeaderSize
         THEN bufiobytes' = TailSize /\ recycled' = TRUE
         ELSE UNCHANGED <<bufiobytes, recycled>>
    /\ UNCHANGED <<stream, got, emptyio>>

Next == Read \/ ReadNothing \/ ReadError \/ NeedMore \/ NotAllowed \/ Found \/ ReadMore

Spec == Init /\ [][Next]_vars

(***************************************************************************)
(* Properties.                                                             *)
(***************************************************************************)
\* Positions of s at which a header ends: \n\n or \r\n\r\n.
HeaderEnds(s) ==
    {p \in 2 .. Len(s) :
        s[p] = "N" /\ (s[p - 1] = "N" \/ (p > 3 /\ SubSeq(s, p - 3, p - 1) = <<"R", "N", "R">>))}

\* A line of s before position e that httpURIParser does not accept.
ShortLine(s, e) ==
    \E p \in 1 .. e - 1 : s[p] = "N" /\ \E i \in 1 .. p : p - i < MiniSize /\ (i = 1 \/ s[i - 1] = "N") /\ \A j \in i .. p - 1 : s[j] # "N"

\* A request is taken for complete only when an empty line has arrived, and a
\* service that reads on has not overlooked one, but for a header with a line
\* shorter than six bytes before it and for one longer than the buffer.
HeaderEndExact ==
    /\ fpc = "done" => HeaderEnds(got) # {}
    /\ (fpc = "read" /\ ~recycled /\ Len(got) >= MiniSize) => \A e \in HeaderEnds(got) : ShortLine(got, e)

\* There is room for a byte whenever the service reads, so that a full buffer
\* is never taken for a peer that sends nothing; and what is read of one
\* request exceeds the limit by less than a buffer.
RoomToRead ==
    /\ fpc = "read" => Room > 0
    /\ Len(got) < MaxRead + HeaderSize

\* How the sizes of fasthttpserver.go relate: 6 < 48 <= 128 <= 128 * 1024 and
\* 4 < 128.
SizesFit ==
    /\ MethodSize \in Nat /\ HeaderSize \in Nat /\ MiniSize \in Nat /\ TailSize \in Nat /\ MaxRead \in Nat
    /\ 0 < MiniSize /\ MiniSize <= MethodSize /\ MethodSize <= HeaderSize /\ HeaderSize <= MaxRead
    /\ TailSize < HeaderSize

\* What makes RoomToRead inductive: the buffer holds what was read until it is
\* recycled, and a service that reads has either too little for a method or a
\* header buffer that is not full.
RoomInv ==
    /\ got \in Seq(Symbol) /\ stream \in Seq(Symbol)
    /\ bufiobytes \in Nat /\ methodok \in BOOLEAN
    /\ fpc \in {"read", "parse", "done", "closed"}
    /\ ~methodok => bufiobytes = Len(got) /\ bufiobytes <= MethodSize
    /\ methodok => MiniSize <= Len(got)
    /\ bufiobytes <= HeaderSize
    /\ fpc = "read" => Len(got) < MaxRead
    /\ fpc = "read" => IF methodok THEN bufiobytes < HeaderSize ELSE bufiobytes < MiniSize
    /\ Len(got) < MaxRead + HeaderSize
=============================================================================
