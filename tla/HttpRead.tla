------------------------------ MODULE HttpRead ------------------------------
(***************************************************************************)
(* The request reader of qps-http-app-server.go: httpReadRawStream appends *)
(* what one read of the socket returns to ReadRawStream, httpReadRequest   *)
(* looks for the protocol line and for the empty line that ends the header *)
(* after each read, however the network cuts the stream.                   *)
(*                                                                         *)
(* The bytes are abstracted to four symbols: N (\n), R (\r), G (the text   *)
(* "GET /" or "POST /") and X (any other text).  Positions are counted     *)
(* from 1.  A request is read once; then its handler answers, or in mode   *)
(* readlonly goes on reading (httpConnectionHandler).                      *)
(***************************************************************************)
EXTENDS Integers, Sequences, FiniteSetsExt

CONSTANTS
    MaxLen,     \* length of the stream a peer sends (a bound)
    MinBytes,   \* 16, "GET / HTTP/1.0\r\n"
    MaxSkip,    \* 14, bytes of empty lines that are skipped
    Limit,      \* readTimeOut: srv_cfg_net_timeout, seconds
    RawTries    \* 5, tries of one second of one httpReadRawStream

Symbol == {"N", "R", "G", "X"}

VARIABLES
    readlonly,  \* srv_cfg_mode = "readlonly"
    wire,       \* symbols that have not been read yet
    ends,       \* the peer closes after them; else it stays silent
    pc,         \* read, method, headers, spin, drain, cut, done
    raw,        \* ReadRawStream, TotalReadBytes is its length
    seek,       \* RawStreamSeekPos + 1
    methodOk,   \* http_method_ok
    headerAt,   \* http_header_startPos + 1, 0 before
    bodyAt,     \* first position of ReadBodyStream, 0 before
    tries,      \* io_try_count
    ioError,    \* httpConnectionInfo.ioError # nil
    waited,     \* seconds spent in reads that timed out
    state       \* httpConnectionInfo.state, or the status of the rejection

vars == <<readlonly, wire, ends, pc, raw, seek, methodOk, headerAt, bodyAt, tries, ioError, waited, state>>
input == <<readlonly, wire, ends, raw, tries, ioError, waited>>
found == <<seek, methodOk, headerAt, bodyAt>>

Init ==
    /\ \E n \in 1 .. MaxLen : wire \in [1 .. n -> Symbol]
    /\ readlonly \in BOOLEAN /\ ends \in BOOLEAN /\ pc = "read" /\ raw = <<>> /\ seek = 1
    /\ methodOk = FALSE /\ headerAt = 0 /\ bodyAt = 0 /\ tries = 0
    /\ ioError = FALSE /\ waited = 0 /\ state = "ReadHeader"

\* Position of the first \n from i on, 0 if there is none.
NewLine(s, i) ==
    LET ns == {j \in i .. Len(s) : s[j] = "N"} IN IF ns = {} THEN 0 ELSE Min(ns)

\* The line at i, which ends at nl, is empty.
EmptyLine(s, i, nl) == nl = i \/ (nl = i + 1 /\ s[i] = "R")

(***************************************************************************)
(* httpReadRawStream                                                       *)
(***************************************************************************)
ReadData ==
    /\ pc = "read"
    /\ \E n \in 1 .. Len(wire) :
          raw' = raw \o SubSeq(wire, 1, n) /\ wire' = SubSeq(wire, n + 1, Len(wire))
    /\ tries' = tries + 1 /\ pc' = "method"
    /\ UNCHANGED <<readlonly, ends, ioError, waited, state, found>>

\* Five tries of a second without a byte.  ioError stops the caller's loop
\* after this round, whatever the limit.
ReadTimeOut ==
    /\ pc = "read"
    /\ tries' = tries + 1 /\ ioError' = TRUE /\ waited' = waited + RawTries
    /\ IF Len(raw) < MinBytes /\ tries' = Limit
         THEN pc' = "done" /\ state' = "ReadHeaderTimeOut"
         ELSE pc' = "method" /\ UNCHANGED state
    /\ UNCHANGED <<readlonly, wire, ends, raw, found>>

\* The peer has closed.
ReadError ==
    /\ pc = "read" /\ wire = <<>> /\ ends
    /\ tries' = tries + 1 /\ ioError' = TRUE
    /\ IF Len(raw) < MinBytes \/ tries' = Limit
         THEN pc' = "done" /\ state' = "ReadHeaderError"
         ELSE pc' = "method" /\ UNCHANGED state
    /\ UNCHANGED <<readlonly, wire, ends, raw, waited, found>>

(***************************************************************************)
(* httpReadRequest                                                         *)
(***************************************************************************)
\* Answer 400 or 405 and return.
Reject(status) == pc' = "done" /\ state' = status /\ UNCHANGED found

\* One empty line is skipped in each round, up to a limit.
SkipEmpty(nl) ==
    IF seek - 1 > MaxSkip THEN Reject("400")
    ELSE seek' = nl + 1 /\ pc' = "headers" /\ UNCHANGED <<methodOk, headerAt, bodyAt, state>>

\* The first line that is not empty.  The start of the header is counted from
\* the start of this line, not of the stream.
ProtocolLine(nl) ==
    IF Len(raw) < MinBytes THEN Reject("400")
    ELSE IF raw[seek] # "G" THEN Reject("405")
    ELSE /\ methodOk' = TRUE /\ headerAt' = nl - seek + 2
         /\ seek' = nl + 1 /\ pc' = "headers"
         /\ UNCHANGED <<bodyAt, state>>

FindMethod ==
    /\ pc = "method"
    /\ LET nl == NewLine(raw, seek) IN
         IF methodOk \/ nl = 0 THEN pc' = "headers" /\ UNCHANGED <<found, state>>
         ELSE IF EmptyLine(raw, seek, nl) THEN SkipEmpty(nl) ELSE ProtocolLine(nl)
    /\ UNCHANGED input

InHeaders == pc = "headers" /\ methodOk /\ seek <= Len(raw)

\* Mutant: a line that begins with \r ends the header.
HeaderEndsCR(nl) == nl = seek \/ raw[seek] = "R"

HeaderEnds(nl) == EmptyLine(raw, seek, nl)

\* Mutant: does not move forward.
HeaderLineStays ==
    /\ InHeaders
    /\ LET nl == NewLine(raw, seek) IN
         /\ nl # 0
         /\ IF HeaderEnds(nl)
              THEN /\ state' = "PaseDone" /\ bodyAt' = nl + 1
                   /\ pc' = IF readlonly THEN "drain" ELSE "done"
                   /\ UNCHANGED <<seek, methodOk, headerAt>>
              ELSE UNCHANGED <<seek, pc, state, methodOk, headerAt, bodyAt>>
    /\ UNCHANGED input

\* One header line, or the end of the header.
HeaderLine ==
    /\ InHeaders
    /\ LET nl == NewLine(raw, seek) IN
         /\ nl # 0
         /\ IF HeaderEnds(nl)
              THEN /\ state' = "PaseDone" /\ bodyAt' = nl + 1
                   /\ pc' = IF readlonly THEN "drain" ELSE "done"
                   /\ UNCHANGED <<seek, methodOk, headerAt>>
              ELSE /\ seek' = nl + 1
                   /\ UNCHANGED <<pc, state, methodOk, headerAt, bodyAt>>
    /\ UNCHANGED input

\* The rest of the stream has no \n: the loop goes round without reading.
HeaderSpin ==
    /\ InHeaders /\ NewLine(raw, seek) = 0
    /\ pc' = "spin"
    /\ UNCHANGED <<input, found, state>>

\* for ioError == nil && io_try_count < readTimeOut
NextRound ==
    /\ pc = "headers" /\ ~InHeaders
    /\ pc' = IF ioError \/ tries >= Limit THEN "done" ELSE "read"
    /\ UNCHANGED <<input, found, state>>

(***************************************************************************)
(* The loop of mode readlonly in httpConnectionHandler.  No deadline is    *)
(* set, but the one of the last httpReadRawStream is still in force.       *)
(***************************************************************************)
DrainData ==
    /\ pc = "drain"
    /\ \E n \in 1 .. Len(wire) : wire' = SubSeq(wire, n + 1, Len(wire))
    /\ UNCHANGED <<readlonly, ends, pc, raw, tries, ioError, waited, found, state>>

DrainEnd ==
    /\ pc = "drain" /\ wire = <<>> /\ ends
    /\ pc' = "done" /\ UNCHANGED <<input, found, state>>

DrainDeadline ==
    /\ pc = "drain" /\ tries > 0
    /\ pc' = "cut" /\ UNCHANGED <<input, found, state>>

-----------------------------------------------------------------------------
ReaderStep == FindMethod \/ HeaderLine \/ HeaderSpin \/ NextRound

Next ==
    \/ ReadData \/ ReadTimeOut \/ ReadError \/ ReaderStep
    \/ DrainData \/ DrainEnd \/ DrainDeadline

Spec == Init /\ [][Next]_vars

\* A read returns, with data, at its deadline or with an error.
Fairness == WF_vars(ReadData \/ ReadTimeOut \/ ReadError) /\ WF_vars(ReaderStep)

FairSpec == Spec /\ Fairness

(***************************************************************************)
(* Properties.                                                             *)
(***************************************************************************)
\* Starts of the lines of s that are complete, and among them the empty ones.
LineStarts(s) == {i \in 1 .. Len(s) : (i = 1 \/ s[i - 1] = "N") /\ NewLine(s, i) # 0}
Empty(s) == {i \in LineStarts(s) : EmptyLine(s, i, NewLine(s, i))}
RequestLine(s) == Min(LineStarts(s) \ Empty(s))

\* A request is taken as complete only at the first empty line after its
\* protocol line, and its body begins right there, however the stream was cut
\* into reads.
DoneSound ==
    state = "PaseDone" =>
        /\ LineStarts(raw) \ Empty(raw) # {} /\ raw[RequestLine(raw)] = "G"
        /\ LET after == {i \in Empty(raw) : i > RequestLine(raw)}
           IN after # {} /\ bodyAt = NewLine(raw, Min(after)) + 1

\* 405 only for a protocol line that is complete and names no known method;
\* 400 only for too many empty lines or when too little had arrived.
RejectSound ==
    /\ state = "405" => raw[RequestLine(raw)] # "G"
    /\ state = "400" => Len(raw) < MinBytes
                        \/ \A i \in 1 .. (MaxSkip + 1) : raw[i] \in {"N", "R"}

\* The reader comes to an end, with a result or in the search for a \n that
\* has not arrived.
ReturnsUnlessSpinning == <>(pc \notin {"read", "method", "headers"})
=============================================================================
