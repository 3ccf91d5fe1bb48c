---------------------------- MODULE MCAlgorithms ----------------------------
(***************************************************************************)
(* The sequential parts of the tools for TLC, one behaviour of one part at *)
(* a time: the local addresses of tcpengine's client (HostList), its rate  *)
(* control (QpsCtl), the request reader and the response writer of         *)
(* qps-http-app-server (HttpRead, HttpWrite) and the request reader of     *)
(* fasthttpserver (FastHttpParse).  The parts that do not run rest in      *)
(* states in which they have nothing to do.                                *)
(***************************************************************************)
EXTENDS HostList

CONSTANTS
    Limits, Horizon,                                \* of QpsCtl
    MaxLen, MinBytes, MaxSkip, Limit, RawTries,     \* of HttpRead
    HeaderLen, BodyLen, WriteTries,                 \* of HttpWrite
    MaxWire, MethodSize, HeaderSize, MiniSize, TailSize, MaxRead, MaxEmpty  \* of FastHttpParse

ASSUME AlgorithmsAssumption ==
    /\ Limits \subseteq Nat \ {0} /\ Limits # {}
    /\ HeaderLen \in Nat /\ {BodyLen, WriteTries} \subseteq Nat \ {0}

ASSUME ReaderAssumption == MaxSkip \in Nat

ASSUME HeaderAssumption ==
    /\ {HeaderSize, MiniSize, TailSize} \subseteq Nat
    /\ MiniSize > 0 /\ TailSize < HeaderSize

VARIABLES
    part,                                           \* which part runs
    pc, limit, k, batch, left, queued, sent, now,   \* of QpsCtl
    readlonly, wire, ends, rpc, raw, seek, methodOk, headerAt, bodyAt, tries,
    ioError, waited, state,                         \* of HttpRead
    text, total, wtries, wpc, taken,                \* of HttpWrite
    stream, got, bufiobytes, methodok, emptyio, recycled, fpc   \* of FastHttpParse

Rate == INSTANCE QpsCtl
Reader == INSTANCE HttpRead WITH pc <- rpc
Writer == INSTANCE HttpWrite
Header == INSTANCE FastHttpParse

rateVars == <<pc, limit, k, batch, left, queued, sent, now>>
readVars == <<readlonly, wire, ends, rpc, raw, seek, methodOk, headerAt, bodyAt, tries, ioError, waited, state>>
writeVars == <<text, total, wtries, wpc, taken>>
headVars == <<stream, got, bufiobytes, methodok, emptyio, recycled, fpc>>

RestHosts ==
    /\ hostport = FALSE /\ todo = <<>> /\ done = <<>> /\ iplist = {} /\ portlist = {}
    /\ maxConcurrent = 0 /\ laddrCount = 0

RestRate == Rate!Init /\ limit = CHOOSE l \in Limits : TRUE

RestRead ==
    /\ wire = <<>> /\ raw = <<>> /\ readlonly = FALSE /\ ends = TRUE /\ rpc = "done"
    /\ seek = 1 /\ methodOk = FALSE /\ headerAt = 0 /\ bodyAt = 0 /\ tries = 0
    /\ ioError = FALSE /\ waited = 0 /\ state = "ReadHeader"

RestWrite == text = "body" /\ total = 0 /\ wtries = 0 /\ wpc = "error" /\ taken = <<>>

RestHead ==
    /\ stream = <<>> /\ got = <<>> /\ bufiobytes = 0 /\ methodok = FALSE /\ emptyio = 0
    /\ recycled = FALSE /\ fpc = "closed"

MCInit ==
    \/ part = "hosts" /\ Init /\ RestRate /\ RestRead /\ RestWrite /\ RestHead
    \/ part = "rate" /\ Rate!Init /\ RestHosts /\ RestRead /\ RestWrite /\ RestHead
    \/ part = "read" /\ Reader!Init /\ RestHosts /\ RestRate /\ RestWrite /\ RestHead
    \/ part = "write" /\ Writer!Init /\ RestHosts /\ RestRate /\ RestRead /\ RestHead
    \/ part = "head" /\ Header!Init /\ RestHosts /\ RestRate /\ RestRead /\ RestWrite

MCNext ==
    \/ part = "hosts" /\ Next /\ UNCHANGED <<part, rateVars, readVars, writeVars, headVars>>
    \/ part = "rate" /\ Rate!Next /\ UNCHANGED <<part, vars, readVars, writeVars, headVars>>
    \/ part = "read" /\ Reader!Next /\ UNCHANGED <<part, vars, rateVars, writeVars, headVars>>
    \/ part = "write" /\ Writer!Next /\ UNCHANGED <<part, vars, rateVars, readVars, headVars>>
    \/ part = "head" /\ Header!Next /\ UNCHANGED <<part, vars, rateVars, readVars, writeVars>>

MCSpec == MCInit /\ [][MCNext]_<<part, vars, rateVars, readVars, writeVars, headVars>> /\ Reader!Fairness

\* qpsctl's search for a tick ends before it divides by zero, and what it then
\* sends is less than twice the tokens that -q asks for.
RateSound == Rate!SearchEnds /\ Rate!RateBelowTwice

\* A request is complete only at the first empty line after its protocol line,
\* and rejected only for the reasons httpReadRequest gives.
VerdictSound == Reader!DoneSound /\ Reader!RejectSound

\* httpReadRequest leaves its loops or is in its search for a line end.
ReturnsUnlessSpinning == Reader!ReturnsUnlessSpinning

\* tinyhttpservice finds the end of a header wherever the reads are cut.
HeaderEndExact == Header!HeaderEndExact

\* The response reaches the kernel whole or as a prefix.
ResponseWhole == Writer!ResponseWhole
=============================================================================
