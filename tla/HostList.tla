------------------------------ MODULE HostList ------------------------------
(***************************************************************************)
(* The local addresses of tcpengine's client: ResolveHostList expands the  *)
(* -i list ("10.0.0.1-100,10.0.0.201,www.163.com") into a set of hosts,    *)
(* ResolveHostPortList does the same for a list of host:port entries, and  *)
(* addressParse pairs every host with the ports 8535..65535 until it has   *)
(* twice as many addresses as connections and lowers the limit when it has *)
(* too few.                                                                *)
(*                                                                         *)
(* A list entry is a record: an optional scheme (the text before "://"), a *)
(* host name, which may be empty, the last number of its dotted name (or   *)
(* None), the text after the first "-": nothing (None), not a number       *)
(* (Junk), or a number; and for host:port entries the port: None, Junk or  *)
(* a number.  A resolved host is <<name, last number>>.                    *)
(***************************************************************************)
EXTENDS Integers, Sequences, FiniteSets

CONSTANTS
    None, Junk,
    Names,      \* dotted prefixes or host names
    NoName,      \* no name at all, as in ":8080"
    Zero,       \* the prefix of 0.0.0.0
    Scheme,     \* the host "http" that is left of a URL
    Last,       \* last numbers of a dotted name
    PortsPerHost, Threshold, Reserve, \* 57001, 10000 and 500 in the code
    MaxConns,   \* the values of conf.maxConcurrent
    MaxEntries  \* bound on the entries of a list

ASSUME SizeAssumption ==
    /\ {PortsPerHost, Threshold, Reserve, MaxEntries} \subseteq Nat
    /\ 2 * Reserve <= PortsPerHost /\ PortsPerHost > Reserve
    /\ MaxConns \subseteq Nat /\ Last \subseteq Nat
    /\ Scheme \notin Names /\ NoName \notin Names \cup {Scheme, Zero}

Fields ==
    [scheme : BOOLEAN, name : Names \cup {NoName}, last : Last \cup {None},
     to : Last \cup {None, Junk}, port : {None, Junk, 80, 8080}]

Entry == {e \in Fields : e.name = NoName => e.last = None}

VARIABLES
    hostport,       \* whether it is ResolveHostPortList that reads the list
    todo,           \* entries still to be read
    done,           \* entries read, in order
    iplist,         \* the map of ResolveHostList
    portlist,       \* the map of ResolveHostPortList
    maxConcurrent,  \* conf.maxConcurrent
    laddrCount      \* len(laddrList) once addressParse has run, None before

vars == <<hostport, todo, done, iplist, portlist, maxConcurrent, laddrCount>>

\* Mutant: stops before the last number.
CountedShort(first, end) ==
    IF end < first THEN (end + 1) .. (first - 1) ELSE (first + 1) .. (end - 1)

\* Swap a reversed range, skip its first number, which the entry itself has
\* already added, and count up to the last.
Counted(first, end) ==
    IF end < first THEN (end + 1) .. first ELSE (first + 1) .. end

\* What one entry adds.  Everything after "://" is cut off, not the scheme.
Hosts(e) ==
    IF e.scheme THEN {<<Scheme, None>>}
    ELSE {<<e.name, e.last>>} \cup
         {<<e.name, i>> : i \in IF e.last # None /\ e.to \notin {None, Junk}
                                THEN Counted(e.last, e.to) ELSE {}}

\* Port 80 by default, also after a scheme, which cuts the port off.
PortOf(e) == IF e.scheme \/ e.port = None THEN 80 ELSE e.port

\* There is nothing before the port.
NoHost(e) == ~e.scheme /\ e.name = NoName /\ e.to = None

\* Without a host it is 0.0.0.0; an entry whose port is no number is skipped.
HostPorts(e) ==
    IF PortOf(e) = Junk THEN {}
    ELSE (IF NoHost(e) THEN {<<Zero, 0>>} ELSE Hosts(e)) \X {PortOf(e)}

Init ==
    /\ \E n \in 1 .. MaxEntries : todo \in [1 .. n -> Entry]
    /\ hostport \in BOOLEAN /\ (~hostport => \A i \in DOMAIN todo : todo[i].port = None)
    /\ done = <<>> /\ iplist = {} /\ portlist = {}
    /\ maxConcurrent \in MaxConns /\ laddrCount = None

\* One entry in the loop of ResolveHostList, and of ResolveHostPortList.
ReadHost ==
    /\ ~hostport /\ todo # <<>>
    /\ iplist' = iplist \cup Hosts(Head(todo))
    /\ todo' = Tail(todo) /\ done' = Append(done, Head(todo))
    /\ UNCHANGED <<hostport, portlist, maxConcurrent, laddrCount>>

ReadHostPort ==
    /\ hostport /\ todo # <<>>
    /\ portlist' = portlist \cup HostPorts(Head(todo))
    /\ todo' = Tail(todo) /\ done' = Append(done, Head(todo))
    /\ UNCHANGED <<hostport, iplist, maxConcurrent, laddrCount>>

LoweredNever(max, count) == max     \* mutant: the limit stays

\* The limit after a list that is too short: all addresses, less a reserve for
\* large limits.
Lowered(max, count) ==
    IF max > count THEN (IF max > Threshold THEN count - Reserve ELSE count) ELSE max

\* addressParse: every port of every host that resolves, at most twice the
\* limit.  Start exits when there is no address at all.
ParseAddrs ==
    /\ ~hostport /\ todo = <<>> /\ laddrCount = None
    /\ \E resolved \in SUBSET iplist :
          LET all   == Cardinality(resolved) * PortsPerHost
              count == IF maxConcurrent > 0 /\ all > 2 * maxConcurrent
                       THEN 2 * maxConcurrent ELSE all
          IN /\ laddrCount' = count
             /\ maxConcurrent' = IF count = 0 THEN maxConcurrent ELSE Lowered(maxConcurrent, count)
    /\ UNCHANGED <<hostport, todo, done, iplist, portlist>>

Next == ReadHost \/ ReadHostPort \/ ParseAddrs

Spec == Init /\ [][Next]_vars

-----------------------------------------------------------------------------
Read == {done[i] : i \in DOMAIN done}
IsRange(e) == e.last # None /\ e.to \notin {None, Junk}

\* What an entry stands for: "10.0.0.1-100" and "10.0.0.100-1" for all hosts
\* between the two numbers, both included.
Meant(e) ==
    IF e.scheme THEN {<<Scheme, None>>}
    ELSE {e.name} \X (IF ~IsRange(e) THEN {e.last}
                      ELSE IF e.last <= e.to THEN e.last .. e.to ELSE e.to .. e.last)

\* What the swap of the two numbers loses: 10.0.0.1 in "10.0.0.100-1".
Lost(e) == IF ~e.scheme /\ IsRange(e) /\ e.to < e.last THEN {<<e.name, e.to>>} ELSE {}

\* ... and an entry of a host:port list, in which no host is any host.
MeantPorts(e) ==
    IF PortOf(e) = Junk THEN {} ELSE (IF NoHost(e) THEN {<<Zero, 0>>} ELSE Meant(e)) \X {PortOf(e)}

\* Both lists have exactly what their entries stand for, whatever their order
\* and duplicates, but for the lower end of a range that is written from high
\* to low; and an empty host gets into a host:port list only from an entry with
\* nothing before its "-".
RangesExpanded ==
    /\ iplist \subseteq UNION {Meant(e) : e \in Read}
    /\ portlist \subseteq UNION {MeantPorts(e) : e \in Read}
    /\ \A e \in Read :
          IF hostport THEN MeantPorts(e) \ (Lost(e) \X {PortOf(e)}) \subseteq portlist
                      ELSE Meant(e) \ Lost(e) \subseteq iplist
    /\ \A hp \in portlist : hp[1] = <<NoName, None>> => \E e \in Read : e.name = NoName /\ e.to # None

\* The address plan the connectors rely on: with a limit there are at least as
\* many addresses as connections and at most twice as many.
PlanFits ==
    (laddrCount \notin {None, 0} /\ maxConcurrent # 0) =>
        /\ 0 < maxConcurrent /\ maxConcurrent <= laddrCount
        /\ laddrCount <= 2 * maxConcurrent
=============================================================================
