------------------------------ MODULE MCTools -------------------------------
(***************************************************************************)
(* The small tools with processes or goroutines for TLC, one behaviour of  *)
(* one tool at a time: the event loop proxy (EpollProxy), fork-cpuaffinity *)
(* (ForkMaster), drop-privileges (DropPrivileges), go-vs-php-file-parse    *)
(* (FileParse), simplefilesearch (FileSearch) and tinytcpserver (TinyTcp). *)
(* The tools that do not run rest in a state in which they have ended.     *)
(***************************************************************************)
EXTENDS Integers, Sequences, FiniteSets

CONSTANTS
    Bytes, Rounds, SockBuf, PipeBuf, Pages, MaxFaults,  \* of EpollProxy
    Proc, ChanSize,                                     \* of Signals
    NumWorker, MaxForkFails,                            \* of ForkMaster
    MaxSignals,                                         \* of DropPrivileges
    BufSize, MinFields, MaxFields, StatSize, Width,     \* of FileParse
    Seeds, LineLen, FieldLen, GenLines,
    Name, MaxHits, NCpu, InCap, OutCap, Block, MaxLists,    \* of FileSearch
    NAcceptor, Sock                                     \* of TinyTcp

ASSUME ToolsAssumption ==
    /\ {NumWorker, NAcceptor} \subseteq Nat /\ NCpu \in Nat \ {0}
    /\ IsFiniteSet(Name) /\ IsFiniteSet(Sock)
    /\ "master" \in Proc

ASSUME ParseAssumption ==
    /\ 2^Width \in Nat \ {0} /\ 2^(Width - 1) \in 0 .. 2^Width - 1
    /\ Seeds \subseteq Nat /\ LineLen \in Nat
    /\ {MinFields, FieldLen} \subseteq Nat \ {0} /\ MaxFields \in Nat
    /\ MinFields < MaxFields /\ MinFields * FieldLen < LineLen

VARIABLES
    part,                                               \* which tool runs
    tpc, conns, inBuf, canRead, canWrite, pipe, lpc, cur, evs, batch, armed,
    tosend, rbuf, out, gone, echo, rounds, faults,      \* of EpollProxy
    disp, pending, sigChan, exitNotifyChan, sending, exiting, lost,     \* of Signals
    mpc, next, pidList, worker, doomed, stopcnt, why, stopped, aliveChan,
    result, fails, spurious,                            \* of ForkMaster
    dpc, relay, wpc, outside,                           \* of DropPrivileges
    file, tail, showstat, ppc, at, seed, seekpos, shift, slice, stat, statCh, spc, report,  \* of FileParse
    fs, files, allfiles, newfilecnt, todo, lists, idx, smpc, onefile, inCh, outCh, searcher, left,
    bufout, stdout, searched, due,                      \* of FileSearch
    tmpc, started, apc, rpc, wg, totalcount             \* of TinyTcp

\* Every line of up to three bytes and every line of four separators and digits
\* alone, and files of up to three lines of
\* which one has too few fields, one the fields it needs, one no number in the
\* field that is added up and one does not fit into the buffer.
Files ==
    LET short == {<<>>, <<"sp", "1", "sp">>, <<"1", "sp", "x", "sp">>, <<"1", "1", "1", "1", "1", "1">>}
    IN {<<l>> : l \in (UNION {[1 .. n -> {"sp", "1", "-", "x"}] : n \in 0 .. 3}) \cup [1 .. 4 -> {"sp", "1"}]}
       \cup UNION {[1 .. n -> short] : n \in 0 .. 3}

Epoll == INSTANCE EpollProxy
Fork == INSTANCE ForkMaster
Drop == INSTANCE DropPrivileges
Parse == INSTANCE FileParse WITH result <- stat
Search == INSTANCE FileSearch
Tiny == INSTANCE TinyTcp

sigVars == <<disp, pending, sigChan, exitNotifyChan, sending, exiting, lost>>
epollVars == <<tpc, conns, inBuf, canRead, canWrite, pipe, lpc, cur, evs, batch, armed,
               tosend, rbuf, out, gone, echo, rounds, faults>>
forkVars == <<mpc, next, pidList, worker, doomed, stopcnt, why, stopped, aliveChan, result, fails, spurious>>
dropVars == <<dpc, relay, wpc, outside>>
parseVars == <<file, tail, showstat, ppc, at, seed, seekpos, shift, slice, stat, statCh, spc, report>>
searchVars == <<fs, files, allfiles, newfilecnt, todo, lists, idx, smpc, onefile, inCh, outCh, searcher, left,
                bufout, stdout, searched, due>>
tinyVars == <<tmpc, started, apc, rpc, wg, totalcount>>
vars == <<part, epollVars, sigVars, forkVars, dropVars, parseVars, searchVars, tinyVars>>

RestEpoll ==
    /\ tpc = "done" /\ lpc = "ended" /\ conns = {} /\ armed = {} /\ cur = 1 /\ evs = {}
    /\ batch = <<{}, {}>> /\ inBuf = <<0, 0>> /\ pipe = <<0, 0>>
    /\ canRead = <<FALSE, FALSE>> /\ canWrite = <<FALSE, FALSE>>
    /\ tosend = <<0, 0>> /\ rbuf = <<0, 0>> /\ out = <<0, 0>> /\ gone = <<"no", "no">>
    /\ echo = FALSE /\ rounds = 0 /\ faults = 0

RestFork ==
    /\ mpc = "ended" /\ next = 0 /\ pidList = {} /\ worker = [w \in 0 .. NumWorker - 1 |-> "none"]
    /\ doomed = {} /\ stopcnt = 0 /\ why = "no" /\ stopped = {} /\ aliveChan = 0 /\ result = "no"
    /\ fails = 0 /\ spurious = FALSE

RestDrop == dpc = "ended" /\ relay = "none" /\ wpc = "dead" /\ outside = 0

RestParse ==
    /\ file = <<>> /\ tail = FALSE /\ showstat = FALSE /\ ppc = "returned" /\ at = 0 /\ slice = <<>>
    /\ seed = 0 /\ seekpos = 0 /\ shift = 0
    /\ stat = [lines |-> 0, bytes |-> 0, sizes |-> 0, done |-> TRUE]
    /\ statCh = 0 /\ spc = "none" /\ report = <<0, 0>>

RestSearch ==
    /\ fs = [n \in Name |-> [kind |-> "none", names |-> {}, hits |-> 0]] /\ files = {}
    /\ allfiles = [n \in Name |-> "no"] /\ newfilecnt = 0 /\ todo = {} /\ lists = 0 /\ idx = 0
    /\ smpc = "ended" /\ onefile = (CHOOSE n \in Name : TRUE) /\ inCh = <<>> /\ outCh = 0
    /\ searcher = [w \in 1 .. NCpu |-> "none"] /\ left = [w \in 1 .. NCpu |-> 0] /\ bufout = 0 /\ stdout = 0 /\ searched = {} /\ due = 0

RestTiny ==
    /\ tmpc = "returned" /\ started = 0 /\ wg = 0 /\ totalcount = 0
    /\ apc = [i \in 0 .. NAcceptor |-> "ended"] /\ rpc = [c \in Sock |-> "none"]

MCInit ==
    \/ part = "epoll" /\ Epoll!Init /\ Fork!SigInit /\ RestFork /\ RestDrop /\ RestParse /\ RestSearch /\ RestTiny
    \/ part = "fork" /\ Fork!Init /\ RestEpoll /\ RestDrop /\ RestParse /\ RestSearch /\ RestTiny
    \/ part = "drop" /\ Drop!Init /\ RestEpoll /\ RestFork /\ RestParse /\ RestSearch /\ RestTiny
    \/ part = "parse" /\ Parse!Init /\ Fork!SigInit /\ RestEpoll /\ RestFork /\ RestDrop /\ RestSearch /\ RestTiny
    \/ part = "search" /\ Search!Init /\ Fork!SigInit /\ RestEpoll /\ RestFork /\ RestDrop /\ RestParse /\ RestTiny
    \/ part = "tiny" /\ Tiny!Init /\ Fork!SigInit /\ RestEpoll /\ RestFork /\ RestDrop /\ RestParse /\ RestSearch

MCNext ==
    \/ part = "epoll" /\ Epoll!Next /\ UNCHANGED <<part, sigVars, forkVars, dropVars, parseVars, searchVars, tinyVars>>
    \/ part = "fork" /\ Fork!Next /\ UNCHANGED <<part, epollVars, dropVars, parseVars, searchVars, tinyVars>>
    \/ part = "drop" /\ Drop!Next /\ UNCHANGED <<part, epollVars, forkVars, parseVars, searchVars, tinyVars>>
    \/ part = "parse" /\ Parse!Next /\ UNCHANGED <<part, sigVars, epollVars, forkVars, dropVars, searchVars, tinyVars>>
    \/ part = "search" /\ Search!Next /\ UNCHANGED <<part, sigVars, epollVars, forkVars, dropVars, parseVars, tinyVars>>
    \/ part = "tiny" /\ Tiny!Next /\ UNCHANGED <<part, sigVars, epollVars, forkVars, dropVars, parseVars, searchVars>>

MCSpec ==
    /\ MCInit /\ [][MCNext]_vars
    /\ Epoll!Fairness /\ Fork!Fairness /\ Drop!Fairness /\ Parse!Fairness /\ Search!Fairness

\* The event loop follows the pointer to a partner only when it has been set.
PeerKnown == Epoll!PeerKnown

\* Every byte of a message comes back through the event loop's pipes.
EchoReturns == Epoll!EchoReturns

\* The event loop closes the socket of a peer that has hung up.
HangupCloses == Epoll!HangupCloses

\* The master of fork-cpuaffinity says that its workers have stopped, or that
\* it has stopped them, only when they have.
StopSound == Fork!StopSound

\* The master of fork-cpuaffinity ends on a signal and after its last worker.
MasterEnds == Fork!MasterEnds

\* Master and worker of drop-privileges end together.
StopsTogether == Drop!StopsTogether

\* SplitBytes, for every limit but 1, and AtoIntOfBytes are exact, and the generator
\* reads inside its seed and writes lines that parser counts.
SplitExact == Parse!SplitExact /\ Parse!SeedInBounds

\* The last report of show counts the whole file.
ReportComplete == Parse!ReportComplete

\* main of go-vs-php-file-parse returns.
MainReturns == Parse!MainReturns

\* simplefilesearch has searched all files when it says so.
SearchComplete == Search!SearchComplete

\* main of simplefilesearch returns.
SearchReturns == Search!SearchReturns

\* The wait group of tinytcpserver is one short, and by no more.
OneLeftBehind == Tiny!OneLeftBehind
=============================================================================
