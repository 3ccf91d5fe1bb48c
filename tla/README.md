# TLA+ models of wander

wander is a collection of Go programs that measure and exercise the Go runtime,
the Linux network stack and TCP servers. It has no library core: every
directory is a program. Four of them carry most of the concurrent logic, and
they are the centre of this project:

* `tcpengine/tcpengine.go` - a TCP load generator, server or client;
* `qps-http-app-server/qps-http-app-server.go` - an HTTP server that answers
  with a given rate, delay and size, and counts its connections;
* `fasthttpserver/fasthttpserver.go` - an HTTP server whose workers accept in
  batches;
* `netsplice-echo-proxy` - TCP proxies over splice(2) with an epoll loop of
  their own.

Six smaller tools with processes, signals or goroutines follow: the event loop
proxy in `dada-funny/proxy-main`, `fork-cpuaffinity`, `drop-privileges`,
`go-vs-php-file-parse`, `simplefilesearch` and `tinytcpserver`.

Everything is translated from the Go source. Where a comment, a flag
description or a test says something else than the code does, the model follows
the code and the difference is written down under *Findings*.

## 1. Inventory

### tcpengine: connection engine

*State.* The `TCPEngine` object: `closing`, `closed`, `listenfds`, `aliveCount`
(atomic), `conns` (map from index to connection), `workswitch` (a channel that
is closed to start the work load), `workloadon`, `maxLock` and `maxCond`,
`laddrPool` (one channel of local addresses per connector), `qpschannel`.

*Operations and goroutines.* `Start` launches one `acceptor` or `connector` per
cpu, then `qpsctl`, `maxUnlock` and the display. A worker takes a connection
from the network, waits under `maxLock`/`maxCond` until there is room, registers
the connection and starts `serverHandle` or `clientHandle`. `sigHandle` sets
`closing` on the first signal and calls `os.Exit` when signals go on. `Close` is
called when `-d` seconds are over. `workerWait` waits for the workers, closes
the registered connections, opens the work switch and polls until no handler is
left. `maxUnlock` broadcasts `maxCond` once per tick while there is room.

*Interaction.* All of it is shared memory, guarded partly by `maxLock`, partly
by `eng.m`, partly by atomics and partly by nothing (`closing`, `workloadon`,
`qpschannel`).

*Hard.* The admission check and the increment are apart, and handlers lower the
counter without the lock; three places close the same channel, and a second
close panics; a wake-up can be lost; the address of a connection is at the same
time its key in `conns`; shutdown can begin at any step of anybody.

*Correct when* the limit holds; the switch is closed once; every connection that
is served can be found by the shutdown; `Wait` returns with nobody left; local
addresses are not shared; a channel described as "never block" never blocks; a
shutdown comes to its end.

### tcpengine: local address lists and rate control

`ResolveHostList`, `ResolveHostPortList` and `addressParse` turn the `-i` list
into local addresses and adapt the limit; `qpsctl` searches for a tick in which
a positive number of tokens can be handed out and then hands them out. No state
survives the calls. *Hard:* the edges (reversed and one-element ranges, missing
ports, too few addresses; integer division that rounds to zero and then
divides). *Correct when* a range gives exactly its hosts, an entry with a port
is usable, the plan fits the limit, the search ends before it divides by zero
and the rate stays near the limit.

### qps-http-app-server

*State.* The connection counter, one bounded channel of events, one record per
connection with its state, keep-alive flag and buffers.

*Operations and goroutines.* A timer that sends one event per second; the
counter goroutine, the only receiver, which also sends; the accept loop; main,
which polls for the end of the accept loop; one handler per connection
(`httpConnectionHandler`, `httpReadRequest`, `httpReadRawStream`,
`httpSendResponse`, `httpConnectionKeepalive`). The reader collects bytes until
it has seen a method line and an empty line, over any number of reads.

*Hard.* Each change of state waits for room in the same channel; the limit is
read in a second step after the increment and lowered by another goroutine; the
network cuts a request anywhere; retry loops are nested. *Correct when* the
limit holds, the counter is right up to what is on its way, no socket is
forgotten, a request is complete exactly at its empty line, and everything ends.

### fasthttpserver

*State.* The listener, a batch per worker, wait groups, three statistics
channels, the counters of `requestCounter`, the state machine of each service,
two pools of buffers per worker that its services share.
*Operations.* `acceptWorker`s accept into a batch and start its services when it
is full or when a tick comes; services run the state machine; the first signal
closes the listener, ten more abort; main waits for the workers, each of which
waits for its services, closes the channels one after the other and waits for
the last report. *Hard:* a send on a closed channel panics; a connection can sit
in a batch; the last report depends on the order in which channels are closed;
a pooled buffer still holds what another connection left in it.
*Correct when* nobody sends on a closed channel, the report is complete, whoever
got a service is closed, shutdown ends, a batch is not forgotten, and a
connection is kept or closed for what its own request says.

### netsplice-echo-proxy

*State.* `Proxy.conns`, a table of sockets by number, and an epoll descriptor;
per socket two flags (`rWaitFlag`, `wWaitFlag`: free, locked, waiting, closed),
two condition variables whose lock does nothing, and an error; per direction a
pipe and the count `inbuf` of the bytes in it. *Operations.* `Transfer` adds two
sockets and runs `splice` for each direction in a goroutine; a goroutine whose
call gives EAGAIN waits for the event loop's signal; whoever ends first calls
`delConn` for both sockets, which closes flags and descriptors; the event loop
closes a socket whose peer has hung up. *Hard:* the flags, the condition
variables and the edge-triggered events are three views of one fact and are
changed without a common lock; a socket is closed by three goroutines; calls are
cut short anywhere. *Correct when* bytes are passed on, none is lost with the
pipe, and a hang up ends both directions and leaves nothing open.

### The tools

*dada-funny/proxy-main.* No goroutine per connection: one loop splices a ready
socket into its pipe and the pipe of its partner into it, and remembers in
`canRead` and `canWrite` what an edge-triggered epoll will not report again.
*Correct when* it follows no partner that is not linked yet, passes on what it
read and closes what has hung up.

*fork-cpuaffinity and drop-privileges.* Two programs around the same `sigHandle`,
which forwards signals from one bounded channel to another. The master of the
first starts workers, counts SIGCHLDs until all have stopped or an exit signal
comes, and then terminates and polls them for at most five seconds. The second
starts itself again as another user; the master relays its first signal to the
worker, ignores all later ones and kills the worker after a second. *Hard:*
signals are merged by the kernel and dropped at full channels; a worker may fail,
be stopped or end at any moment, before the handlers are there too. *Correct
when* "all stopped" is true when it is said, and nobody waits or stays for ever.

*go-vs-php-file-parse.* A generator that moves a window over a seed, a parser
that splits and sums, a goroutine that prints reports from a record that the
parser keeps writing to. *Correct when* splitting loses nothing, the window stays
inside the seed, the last report counts everything and main returns.

*simplefilesearch.* main iterates over a map that grows while it does, and hands
files to searchers, which hand lines to a writer, through bounded channels.
*Correct when* all files are searched before it says so, and it ends.

*tinytcpserver.* Acceptors and one reader per connection in one wait group, which
main waits for. *Correct when* main returns after the last of them.

### The other programs

| program | what it does | in this project |
|---|---|---|
| syscall-cpuaffinity | sets the CPU masks of its threads, waits for a signal | no: only its `sigHandle`, which is `Signals` |
| channel demos | show what the runtime does with channels | no: they promise nothing |
| tcpconn tests, writevtest | observe what the kernel and the runtime do with sockets | no: no state of their own |
| hash-test, cgo demos, benchmarks and runtime experiments | timing of third-party hashes, cgo, collector, maps, pools | no: what they show is a measurement |
| small demos | a few straight-line statements each | no: nothing to state |

`PROJECT.json` lists them all with their files, and under `hazards` the lines of
the modelled programs that are hard to test.

## 2. Modules

| module | models | how |
|---|---|---|
| `ConnGate` | what both accounting servers promise | abstract: a number of connections inside, a limit, the phases open, draining, closed; no connection enters a full or a draining gate, and a gate is closed only when empty |
| `TcpEngine` | tcpengine's goroutines | one program counter per goroutine; an action is the code between two points where somebody else can interfere |
| `HostList` | `ResolveHostList`, `ResolveHostPortList`, `addressParse` | entries made of tokens, read one after the other; `hostport` says which of the two functions reads them; beside it what an entry stands for |
| `QpsCtl` | the tick search and the tokens of `qpsctl` | a state machine that counts milliseconds |
| `QpsHttpServer` | timer, counter, accept loop, main and handlers of qps-http-app-server | events are `destroyed` or `state`, as the counter tells no others apart; `todo` counts those a handler has still to send before its next decision |
| `HttpRead` | `httpReadRawStream`, `httpReadRequest`, the loop of mode readlonly | a stream over four symbols, cut into reads in every way |
| `FastHttpServer` | workers, services, main, signals, `requestCounter` | wait groups are sets, channels are sequences or counts |
| `SpliceProxy` | `Transfer`, `splice`, `netPD` and `eventLoop` of netsplice-echo-proxy/dada-funny | bytes are counted; the goroutine of a direction is named by the socket it reads; the kernel's buffers and ready list are state |
| `ByteRelay` | what `Transfer` promises its peers | abstract: per direction the bytes unsent, waiting, taken and leaving, and the ends that are down; bytes are lost only with an end |
| `FastHttpParse` | how a service of fasthttpserver reads a header into its buffers, and `httpMethodParser`, `httpURIParser` | a stream of symbols cut into reads in every way; what the buffer keeps is the end of what was read |
| `FastHttpBuffers` | the buffers that the services of fasthttpserver share through pools, and `httpKeepAliveParse` | the content of every buffer is state, old bytes included; the copy into `cmpbuf` and the searches in it are two steps |
| `HttpWrite` | `httpWriteResponser` and `httpSendResponse` of qps-http-app-server | header and body as counts; deadlines, short writes and errors are choices |
| `EpollProxy` | dada-funny/proxy-main | as `SpliceProxy`, with the loop's place inside an event as its program counter |
| `Signals` | `sigHandle`, shared by fork-cpuaffinity and drop-privileges | per process: disposition, pending set (the kernel merges), two bounded channels |
| `ForkMaster` | fork-cpuaffinity, with `Signals` | workers run, end, crash, become zombies and are reaped |
| `DropPrivileges` | drop-privileges, both processes, with `Signals` | the worker may die wherever it is |
| `FileParse` | go-vs-php-file-parse | lines of a few bytes; `int` has `Width` bits; the shared `stat` is one variable that parser writes and show reads |
| `FileSearch` | simplefilesearch | a small file system; a file is its number of matching lines |
| `TinyTcp` | tinytcpserver | the wait group is its counter |
| `MCTcpEngine`, `MCQpsHttpServer` | - | symmetry sets for TLC |
| `MCFastHttp` | - | `FastHttpServer` or `FastHttpBuffers`, one at a time, with the requests of the latter |
| `MCAlgorithms` | - | puts the cases of `HostList`, `QpsCtl`, `HttpRead`, `HttpWrite` and `FastHttpParse` into one run |
| `MCTools` | - | one behaviour of one tool at a time, the others at rest |
| `TcpEngineProofs`, `QpsHttpServerProofs`, `FastHttpServerProofs`, `FastHttpBuffersProofs`, `SpliceProxyProofs`, `ToolsProofs`, `AlgorithmProofs` | - | theorems |
| `CountingLemmas` | - | lemmas on induction, sums and recursive functions that the proofs share |

`TcpEngine` and `QpsHttpServer` each INSTANCE `ConnGate` with a refinement
mapping. In `TcpEngine` `inside` is `aliveCount` and the phase follows
`workerWait`; in `QpsHttpServer` `inside` is the number of connections served
with anything but 503, so the gate is a promise that no single variable of the
server keeps. `SpliceProxy` INSTANCEs `ByteRelay`: `taken` is what is in the
pipe, whatever `inbuf` says, and an end is down once its error is set or its
peer has reset it.

A variable keeps the name of its Go counterpart where there is one; `wpc`, `hpc`,
`accpc` and the like are program counters. `PROJECT.json` maps each definition to
its lines. Operators whose comment says *Mutant* are plausible mistakes in the
operator that follows them; no specification uses them, they serve to show that
each property can fail.

What is left out everywhere: payloads, AES, log output, profiling and counters
that are only printed. What the network does is a choice: accept, dial, read and
write may succeed, fail or, where the code sets no deadline, take for ever.

Undefined or racy behaviour is kept as a choice. A handler that reaches
`<-eng.qpschannel` before `Start` has made the channel waits on nil for ever
(`nilchan`); `closing` is read without a lock at each place where the code reads
it.

## 3. Runs

| run | kind | properties |
|---|---|---|
| `tcp_server` | safety | SwitchedOnce, ConnsTracked, CleanShutdown, GateSpec (refinement) |
| `tcp_client` | safety | AddressesDistinct, PoolNeverBlocks, EntriesCurrent |
| `tcp_shutdown` | liveness | ShutdownCompletes |
| `tcp_client_tracking` | violation | ConnsTracked |
| `algorithms` | all inputs | RangesExpanded, PlanFits, RateSound, VerdictSound, HeaderEndExact, ResponseWhole, ReturnsUnlessSpinning (liveness) |
| `qps_server` | safety | CounterExact, GateSpec (refinement) |
| `qps_ends` | liveness | EndsUnlessStuck, QuitCompletes |
| `qps_stuck` | violation | BusyAnswered |
| `fast_http` | safety | NoSendOnClosed, LastReport; KeepAliveSound (FastHttpBuffers) |
| `fast_http_ends` | liveness | ShutdownCompletes, BatchServed |
| `splice_proxy` | safety, liveness | ClosedOnReturn, TransferReturns, DeliveredUnlessStalled, RelaySpec (refinement) |
| `tools` | safety, liveness | PeerKnown, EchoReturns, HangupCloses (EpollProxy); StopSound, MasterEnds (ForkMaster); StopsTogether (DropPrivileges); SplitExact (with SeedInBounds), ReportComplete, MainReturns (FileParse); SearchComplete, SearchReturns (FileSearch); OneLeftBehind (TinyTcp) |

What the properties of the newer modules say, and where the code gives less than
one would hope, so that the property names an exception that does happen:

* `EntriesCurrent`: the map of tcpengine holds no connection whose handler has
  returned, and under the index of a served one nobody else; a client may lack
  the entry (section 5).
* `RelaySpec`: bytes leave once, and are lost only with an end that is reset or
  being closed: those that wait at it, those on their way to it, and one of
  those taken from it (the -1 of a failed read). An orderly end loses none.
* `HeaderEndExact`: fasthttpserver finds the end of a header wherever the reads
  are cut, except that a line which is too short is an error, and that the end
  may lie in bytes that were recycled.
* `KeepAliveSound`: a connection is kept or closed for what its own request says,
  whatever its pooled buffers still hold and whoever runs meanwhile. Of a request
  longer than the header buffer the code forgets what it recycles, its
  `Connection: close` too; for those the property says only that no connection is
  kept unasked.
* `RangesExpanded`: both address lists have exactly what their entries stand for,
  0.0.0.0 for a missing host, but for the lower end of a range that is written
  from high to low; and a host:port with no host comes only from an entry with
  nothing before its "-".
* `EndsUnlessStuck`: every connection in mode short is closed in the end, unless
  the counter has blocked itself (section 5) or its own handler is in the endless
  search at 870. A handler in that search keeps no other connection from ending.
* `SplitExact`: `SplitBytes` loses and adds nothing and keeps its limit, for every
  limit but 1, for which it does not keep it (section 5).
* `ResponseWhole`: the kernel has been given a prefix of the response, and all of
  it when the call says so, over any number of write deadlines.
* `PeerKnown`: the loop follows a partner only when it is set, but for a pair of
  which the second socket could not be added.
* `EchoReturns`: every byte of an echoed message comes back; a stream in one
  direction only may stop.
* `StopSound`: when the master says that all workers have stopped, or
  `stressWait` returns nil, they have; unless a SIGCHLD that was counted was not
  the end of a worker.
* `MasterEnds`: an exit signal, or the end of all workers, ends the master;
  unless two SIGCHLDs were merged into one.
* `StopsTogether`: once the master catches signals, an exit signal to it or the
  end of the worker ends both.
* `ReportComplete`, `MainReturns`: the last report counts the whole file, and
  main returns unless `statCh` filled up behind the last report.
* `SearchComplete`, `SearchReturns`: at "all done" every file was searched and
  every match handed to the writer; main returns unless a directory leads to its
  own name.
* `OneLeftBehind`: as the first acceptor is not counted, main may return with one
  acceptor or reader left, but never with two, and `Done` panics only when nobody
  is left.

**Bounds.** A connection of `TcpEngine` or `QpsHttpServer` is free again after
its handler, so a behaviour has no end; only the number at one time is bounded.
Two workers and three connections with a limit of two (`tcp_server`,
`tcp_client`) let one worker wait at the limit while another holds the lock and
a handler leaves. `NAddr` is 3 for a limit of 2, within what `addressParse`
produces. Two connections, a limit of one and two slots of events (`qps_server`)
have a busy connection, a full channel and a counter that lags; with a third
slot nothing new can block. In `qps_ends` requests arrive whole or cut
(`Fragments`); `qps_stuck` has whole ones only, so that what it shows is the
blocked counter and not the endless search. `MaxTicks` bounds the timer. In `HttpRead` the four
symbols are those the code tells apart, a minimal request has `MinBytes`, the
limits of the code (empty lines skipped, bytes of a line, retries) are small
constants, and a stream of `MaxLen` symbols passes each of them. `fast_http` has
two workers, two connections and channels of one slot, so each sender may wait;
`MaxRequests` and `Report` are one, so each request reports. The lists of
`algorithms` have up to two entries over three last numbers and one name or
none, with and without scheme, range and port; the
`-q` values include those around each boundary of the tick search.

In `FastHttpParse` every buffer is a few symbols (header 6, method 4, tail 1, at
most 7 to read) and a stream of 8 overruns each of them. In `FastHttpBuffers` there are
two services, a method buffer each, two header buffers for the up to four that
two services want, so that one gets what the other has left,
and requests of one, two and three symbols over buffers of one and two. `HttpWrite` has a header
of 3, a body of 2 and 5 tries. `tools`: two messages of two bytes through socket
buffers of one and pipes of two pages, and without an echo two bytes one way and
one the other with one fault anywhere; two workers, one of which may fail to
start, signal channels of one slot, two signals from outside; every line of up to
three bytes over separator, digit, sign and other, lines of four bytes over
separator and digit, files of up to three lines, `int` of six bits so that sums
and conversions wrap, four seeds around each limit of the window and 40 generated
lines; every file system of two names, with two searchers, channels of one slot,
two matches per file and a buffer of two lines; three acceptors and two
connections at a time. `MaxLists` bounds the listings of
a directory that leads to itself; no other one reaches it.

`splice_proxy` has one socket that receives two bytes, a socket buffer of one and
a pipe of two, so reads and writes are partial, and one fault (a peer that ends
or resets, a call that fails) at any point; two faults were checked for the
invariants with the same result. The two locks and pipe2 are three steps, so that
a close comes between any two. Some neighbouring steps of `SpliceProxy` are
one action because nobody can tell them apart: setting the error with the removal
from the table, and closing the read flag with the descriptor.

`SpliceProxy` and `EpollProxy` have one pair of sockets and take a closed
descriptor number to stay closed. The code is exposed to more: a number that is
closed a second time (`netFD.Close` by up to three goroutines), or that the
partner still points to (`delConn` of proxy-main), may by then belong to a pipe
or to another connection. No property speaks of that.

Deadlock is not checked in the runs in which the program ends; that it ends is
what the liveness properties say.

**Symmetry** over connections (and workers of fasthttpserver) is used in safety
runs only.

**Fairness.** Weak fairness for each goroutine: Go schedules every runnable
goroutine, and the model's action of a goroutine is enabled only where the
goroutine can run. Strong fairness for a goroutine that waits for room in a
channel or for a lock-free hand-over: the runtime queues waiting senders first
in, first out, so nobody is passed over for ever although room comes and goes;
and for the flush of a batch, because the ticker keeps ticking. Reads, writes,
dials and accepts that have a deadline return. The peers of a
proxy read what they are sent, and those of `EpollProxy` send what they have. A
pending signal is delivered, a terminated or killed process dies, and a zombie
is reaped by whoever waits for it. There is no fairness for connecting clients or
for who sends a signal, and none for the traffic of a tcpengine peer under `-N`. With a work load the peer of tcpengine is the same program in
the other mode, and keeps its traffic up.

## 4. Proofs

TLAPS proves what follows for all values of the constants that satisfy the named
assumptions of the modules:

| assumption | says | because in the code |
|---|---|---|
| `ConfigAssumption`, `ServerAssumption`, `FastAssumption`, `SpliceAssumption` | limits, channel sizes and buffers are numbers of the right sign, connections and workers finite sets | they are flags, constants and lengths |
| `SizeAssumption` | twice the reserve fits into a host's ports | there are 57001 ports (956), and 500 are kept in reserve |
| `AlgorithmsAssumption` | a limit that is set, a body that is not empty, at least one try to write | `-q 0` starts no qpsctl; the body holds a line with the time |
| `ReaderAssumption` | the number of empty lines that are skipped is a number | it is 14 |
| `BuffersAssumption` | the sizes of the buffers are in order, the two pools have no buffer in common, and a complete request is not shorter than the shortest header | 6 < 48 <= 128 and 4 < 128; two `sync.Pool`s; fewer bytes are read on (383) |
| `HeaderAssumption`, `SizesFit` | the tail that recycling keeps is smaller than the buffer, the limit leaves room for a read | 6 < 48 <= 128 and 4 < 128 |
| `ToolsAssumption` | at least one cpu, finite sets of names and sockets | - |
| `ParseAssumption` | `2^Width` is a positive number, `2^(Width - 1)` is less than it; a generated line has room for the fields that the parser needs, which are fewer than it cuts off | the prover has no arithmetic of powers; 9 fields of 5 bytes are less than 50, and 9 < 10 |

TLC has checked each inductive invariant on the instances of section 3 (the sums
over rows with bounded rows).

**TcpEngineProofs.** `IndInv` has one conjunct per reason. The limit alone is not
inductive: the increment is safe because the worker that passed the check still
holds `maxLock` (`LockInv`), no other worker can be between check and increment,
and handlers only lower `aliveCount`, which equals the number of running
handlers (`AliveInv`). `SwitchInv` says who may still close the work switch: a
worker that has set `workloadon` and still holds the lock, or `workerWait` if
`workloadon` was never set, which it knows because all workers have returned
(`WaitInv`, `StartInv`). `HeldInv` and `ArgInv` keep a worker's new connection
apart from those that are served; `OpenInv` and `TrackInv` tie sockets and map
entries to their handlers. From it: `TypeCorrect`, `GateCorrect`,
`SwitchCorrect`, `ShutdownCorrect`, `ServerTracks` (for a server; the client's
case is false, see below) and `EngineImplementsGate`, step by step: registering
enters the gate, the decrement leaves it, `workerWait` changes the phase, the
rest stutters.

The client's address pool needs two invariants more. `AddrInv`: an address is in
one channel, with one connector that dials, or with one connection, and in that
place once. `RoomInv`: what is in a connector's channel and what is out of it
are together no more than the share it was dealt, which is the channel's
capacity. `AddressesCorrect` follows from the first, `PoolCorrect` from the
second: whoever returns an address has it out, so there is room.

The same `AddrInv` carries `EntriesCorrect`: when a connection is registered
nobody else who is served has its index, so the entry that is overwritten, if
any, is one whose handler is between giving its address back and deleting.

**QpsHttpServerProofs.** `CountInv`: the counter equals the connections it still
owes (handlers that run, and sockets that mode readlonly has left behind), plus
the announcements in the channel, plus one while the accept loop is between
increment and check, plus one while the counter goroutine is between receive and
decrement. The limit follows: a connection is marked busy unless the counter,
which is never too small, allows it. The lemmas say how the set of announcements
in the channel changes with an append and a tail. From it: `LimitCorrect`,
`CounterCorrect` and `ServerImplementsGate`. `StuckForGood` says of the finding
`qps_stuck` that it is final for every limit and channel size: who waits for room
in the full channel while the counter does waits for ever, and nothing lowers the
counter.

**FastHttpServerProofs.** `ServiceInv`: a running service is in the wait group of
its worker. `WaitInv`: a worker that is done has an empty group, main is past its
wait only after all workers, and closes no channel before. `BatchInv`: a
connection that waits is in one batch. From it: `NoPanic` and `ServedAreClosed`.
`AccountInv` keeps the books of the three statistics channels: what
`requestCounter` has counted and what is in the channel are together what was
sent, and it leaves a channel only when that is closed and empty (`AcceptInv`,
`CloseInv`, `RequestInv`, `LeftInv`). So every step balances
(`AccountsBalance`), and the last report misses nothing (`ReportCorrect`).

**FastHttpBuffersProofs.** `KeepAliveCorrect`: for any number of services, any
requests and any sizes of the buffers. `KeepAliveSound` speaks of an answer that
was computed from memory other connections have used, so the invariant follows
the memory. `OwnInv`: a buffer is with one service, and there in one place, or in
the pool, or nobody's; without it another service could write between the copy
and the searches. `PhaseInv` says which buffers and counts a service has at each
step. `Begins`: as long as nothing was recycled the buffer that is read into
begins with the bytes of the request read so far, after the copy from `methodbuf`
too; after a recycling each of its symbols up to `bufiobytes` is one of the
request or no mark. `Copied`: `cmpbuf` has the same in lower case up to the length
that is searched.

**SpliceProxyProofs.** `FlagMatches` (a flag says 2 exactly while its goroutine
waits or is about to) and `FlushComplete` (what is destroyed with a pipe could not
have been delivered, but for one byte) are parts of the inductive invariant.
`FlagMatches` is not inductive without the reasons why a
flag may be overwritten: who copies holds both its locks or finds them closed,
and who is between the two lock steps holds the first or finds it closed
(`LockInv`), who closes a socket has set its error first (`CloserInv`), and the
goroutines delete the sockets in one order (`DeleteInv`). `CopyInv` relates a
direction's count, its pipe and the place of its goroutine; it allows for the
-1 that a failed call adds to the count. From it: `FlagsCorrect`, `FlushCorrect`,
`ReturnCorrect`, and the action property `ClosingIsFinal`: once the goroutines
run, no step opens a socket again or takes back the mark "closed" of a flag,
whichever of goroutines and event loop close at the same time.

`TransferImplementsRelay` shows the refinement step by step: a peer's send and
receive, a splice in and a splice out are the relay's Send, Deliver, Take and
Pass; a reset, an error that is set and the destruction of a pipe that is not
empty are its Break; the rest stutters. It needs `DownInv` besides: a socket is
closed only after its error is set, and a read fails only on a socket that is
reset or being closed. With `FlushComplete` that is why what is destroyed with a
pipe is lost to an end that is down.

**ToolsProofs.** One invariant per program.

* `TinyCorrect`: the wait group is one short of those that have not called Done
  (`TinyCount`), for the acceptor that nobody added.
* `EpollCorrect`: `Transfer` adds the first socket before the second, so an event
  of a pair without partners is one of socket 1 after a failed `Transfer`.
* `ForkCorrect`: each SIGCHLD that is pending, in a channel, in hand or counted
  stands for a worker of its own that has ended, as long as none came from
  outside (`TokenInv`); `stressWait` counts each worker it found dead once
  (`PollInv`).
* `SearchCorrect`: an iteration that finds nothing new has passed only names that
  are done (`WalkInv`), and `ClosureWithin` draws the conclusion about the whole
  tree; every matching line of a file that was sent is in the file, with a
  searcher, in `outCh`, in the buffer or written (`LinesInv`); a file in `inCh`
  has a searcher left to take it (`SearcherInv`).
* `ParseCorrect`: what the parser has added to `stat` is the sum over the lines
  before `at`, modulo the word size; show's last report is made after `done`.
* `CopyCorrect`: `-gen` reads nothing outside its seed (`CopyInBounds`, the first
  part of `SeedInBounds`), wherever it starts again.
* `SplitCorrect`: `SplitExact` for lines of any length and any width of `int`. It
  rests on two theorems about the pure functions. `SplitBytesCorrect`: the scan of
  `SplitBytes`, as a fold of `ScanByte` over the line, keeps the pieces cut off so
  far joined with the bytes since the last cut equal to the bytes scanned
  (`ScanInv`); so, for every n but 0 and 1, the pieces join to the line, there are
  at most n if n is positive, and only the n-th may have a separator. `NumberCorrect`: the loop of `AtoInt` over the digits
  of a field is the value of the field modulo the word size, sign and all
  (`AccumulatedIs` relates the two recursions digit by digit, `SignedOnce` the
  wrap-around). That a generated line has enough fields, each a number, is shown
  by the same scan over `Linebuf` (`GenInv`).

**AlgorithmProofs.** All inputs, where the run has bounded ones.

* `RangesCorrect`, `PlanCorrect`: the list after any prefix of the entries is the
  union of what each of them adds (`ListInv`), and what an entry adds is what it
  stands for, less the lower end of a reversed range (`HostsMeant`, `PortsMeant`).
* `RateCorrect`: while the search goes on the limit is less than the ticks tried so
  far would give (`RateInv`), so the batch is at least 1 and half the limit; the
  tokens of any time are less than twice the limit.
* `ResponseCorrect`: the kernel has the first bytes of header and body, as many as
  were written (`WriteInv`).
* `RoomCorrect`: for all sizes of the buffers that satisfy `SizesFit`, as the
  defaults of the code do, and for every stream, a service never calls read with a
  buffer that has no room left; the zero bytes that came back would be taken for an
  idle peer, and the connection closed. `RoomInv` bounds what is in the buffer when
  the service is about to read: the recycling at 434 leaves the tail, and below the
  limit there is room for one more byte.
* `HeaderEndCorrect`: the buffer is the end of what was read,
  all of it until it is recycled, and the parser's last verdict is known when the
  service reads on (`HeadInv`). What `httpURIParser` answers is shown by backward
  induction over the place in the buffer (`UriCodeSound`).
* `VerdictCorrect`: `seek` is behind a line end; before it there are empty lines
  alone, or those, one protocol line and lines that are not empty (`ReadInv`), and
  none of that changes when more is read (`LinesStay`).

**CountingLemmas** states what these proofs share: induction over an interval,
forward and backward, from the least counterexample (the library's induction
takes an operator, which no installed prover can instantiate); the sum of a
table as the number of its cells, and how it changes with a row, an append and a
tail (`RowCount`, `CellsSet`, `CellsAppend`, `CellsTail`, `ChannelCells`), which
ties the models' `MapThenSumSet` to cardinalities (`SumCounts`); and that a
function defined by recursion over an interval exists (`ForwardRecursion`,
`LoopRecursion` for a loop whose body depends on its place).

**Only model-checked.**

* All liveness (ShutdownCompletes, ReturnsUnlessSpinning, EndsUnlessStuck,
  QuitCompletes, BatchServed, TransferReturns, DeliveredUnlessStalled, EchoReturns,
  HangupCloses, MasterEnds, StopsTogether, MainReturns, SearchReturns): fairness
  and ENABLED are outside the prover.
* The client's `ConnsTracked` and the server's `BusyAnswered` are false: section 5.

Conversely `GateHolds`, `ServedWithinMax`, `NoneLeaked`, `ServedClosed`,
`RoomToRead`, `ClosedForGood`, `StuckForGood` and the balance of the accounts are proved and not
part of a run.

## 5. Findings

Two runs show that the code does something else than the repository says of it:

1. `tcp_client_tracking`: `clientHandle` returns its address to the pool (819)
   before it deletes its map entry (821-825). The connector may reuse the address
   and register a new connection in between; the late delete removes the new
   entry, and the shutdown cannot close that connection.
2. `qps_stuck`: the counter goroutine sends into the channel that it alone
   empties; with the channel full everybody waits on everybody, and a connection
   above the limit is neither answered nor closed.

Seen while modelling, in the models, and without a run of their own:

* tcpengine:489: `Close` sets `closing` but wakes nobody. A server at its limit
  with `-N` and silent peers keeps its acceptor in `maxCond.Wait` and does not
  exit after `-d` seconds (`ShutdownCompletes` fails with `NoWorkload` set and one
  cpu in `tcp_shutdown.cfg`).
* tcpengine:1134-1139: the two ends of a range that is written from high to low
  are swapped, and then the lower one is skipped, which no line has added.
* tcpengine:1188: the empty host of `:8080` becomes 0.0.0.0, but that of `-5:8080`
  stays empty.
* tcpengine:1098 keeps the text before `://` where the comment says it is cut off.
* tcpengine:835: with `-q 1` the rounding of the tick hands out about two tokens
  per second; the rate is only bounded by twice the limit (`RateSound`).
* tcpengine:612: `-E` ends one acceptor; acceptors with listeners of their own
  wait on for connections that need not come.
* tcpengine:559: a connector can wait for an address while the handlers, the only
  source of addresses, wait for the work switch that needs the connector.
* tcpengine: with `-q` and no limit on connections a handler may wait on the nil
  `qpschannel` for ever.
* qps-http-app-server:639: in mode readlonly a handler returns without closing
  its socket or announcing the end, so the counter never falls.
* qps-http-app-server:870: the search for a header's line end does not advance
  when the end has not arrived: the handler spins.
* qps-http-app-server:636, 684: a deadline set by an earlier read ends the loop
  that is described as endless; five seconds of silence end a request whatever
  `-t` says.
* dada-funny/proxy_linux.go:72: a signal between EAGAIN and `Wait` is lost. After a
  partial write the rest stays in the pipe until more arrives to be read
  (splice_linux.go:57). The echo test (`proxy_test.go`) expects all bytes back;
  `DeliveredUnlessStalled` says that bytes stay behind in these two cases only. A goroutine that flushes when it
  misses its signal keeps `Transfer` from returning.
* dada-funny/splice_linux.go:163, 198: the result -1 of a failed call goes into
  `inbuf`; a failed read leaves one byte in the pipe (`RelaySpec` allows for it).
* dada-funny/proxy_linux.go:228, 239, 264: an interrupted epoll_wait ends the
  loop; a peer's end of stream closes the socket with unread bytes in it; a
  second socket that cannot be added leaks the first.
* fasthttpserver: connections of a batch are dropped when their worker ends; the
  bytes of a second request in the same read are dropped; a header that was
  recycled at 434 forgets its `Connection: close`.
* proxy-main/proxy_linux.go:269: after a write `canWrite` stays cleared, so a
  stream in one direction can stop with bytes in the pipe. A pair of which the
  second socket could not be added is never linked, and an event of the first
  makes the loop follow nil.
* fork-cpuaffinity:120: merged SIGCHLDs leave the count short, and the master
  waits for a worker that has ended; the SIGCHLD of a worker whose exec failed
  (91) is counted although the worker is not in `pidList`.
* drop-privileges: a signal before `signal.Notify` ends the master alone.
* go-vs-php-file-parse:309 promises at most n subslices for n > 0, the last one
  unsplit. The code lowers n to 0 for n = 1 and compares only while n > 0 (329), so
  n = 1 cuts at every separator; with n = 0 it returns its old result, where the
  comment says an empty one. main calls it with 10. Line 239: main blocks if `statCh` is full when show has left.
* simplefilesearch: nobody flushes `bufout` or waits for the writer, so the last
  lines are lost; the names of a directory are opened relative to the working
  directory; a directory that leads to its own name is searched again and again;
  a last line without an end is never matched.
* tinytcpserver:46: the first acceptor is not added to the wait group, so main
  returns when the others have ended although it still serves.
* qps-http-app-server: `netListenStringFormat` drops the brackets of IPv6 hosts.

## 6. Not modelled

* `hash-test`: `NewhashTester` calls `os.Exit(1)` at line 113 before any goroutine
  starts; what follows is SVG text and the arithmetic of third-party hashes.
* `splicetest/funny` is a copy of dada-funny but for the `*os.File`, whose finalizer
  may close the descriptor under a transfer: a matter of the collector's timing,
  after which the number may belong to anybody. `splicetest` itself and its
  `io.Copy` proxy are a driver and two library calls.
* In the modelled programs: command lines, log output, statistics that are only
  printed, profiling, CPU masks, payloads and AES, setting up listeners, and the
  copying of a child's output.
* The programs marked *no* in section 1: they measure or demonstrate the runtime
  or the kernel and state nothing about themselves.

## 7. Plan

Done: all modules of section 2, their runs, and a proof of every safety property
and every refinement of a passing run, for all values of the constants. Left:

1. A relay for `EpollProxy`. It does not implement `ByteRelay`: `delConn` closes a
   socket with its pipe, so an orderly end loses what was taken from it. Its peers
   also send back what they get, for which the abstract relay has no action.
2. What a client's map lacks: that an entry is missing only after the late delete
   of an earlier handler with the same address needs a history of deletes.
3. The liveness properties stay with TLC.
