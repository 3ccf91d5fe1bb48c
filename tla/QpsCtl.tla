------------------------------- MODULE QpsCtl -------------------------------
(***************************************************************************)
(* qpsctl of tcpengine.go, the goroutine behind -q: it looks for a tick of *)
(* k milliseconds such that QPSLimit divided by the ticks of a second is   *)
(* at least 1, then puts a batch of tokens into qpschannel (2 * QPSLimit   *)
(* slots) at every tick; a handler takes one token per round.              *)
(***************************************************************************)
EXTENDS Integers

CONSTANTS
    Limits,     \* the values of conf.QPSLimit, positive
    Horizon     \* milliseconds observed (a bound)

VARIABLES
    pc,         \* search (for the tick), batch (sending), tick (waiting)
    limit,      \* conf.QPSLimit
    k,          \* qpsdelay in milliseconds
    batch,      \* tokens per tick
    left,       \* tokens of the current batch still to send
    queued,     \* tokens in qpschannel
    sent,       \* tokens sent so far
    now         \* milliseconds since the work switch opened

vars == <<pc, limit, k, batch, left, queued, sent, now>>

\* int(time.Second / qpsdelay)
Split(ms) == 1000 \div ms

Init ==
    /\ pc = "search" /\ limit \in Limits /\ k = 1 /\ batch = 0
    /\ left = 0 /\ queued = 0 /\ sent = 0 /\ now = 0

\* Mutant: the delay grows past a second.
SearchSlow ==
    /\ pc = "search"
    /\ IF limit \div Split(k) > 1
         THEN pc' = "batch" /\ batch' = limit \div Split(k) /\ left' = batch' /\ UNCHANGED k
         ELSE k' = k + 1 /\ UNCHANGED <<pc, batch, left>>
    /\ UNCHANGED <<limit, queued, sent, now>>

\* One round of the search.
Search ==
    /\ pc = "search"
    /\ IF limit \div Split(k) > 0
         THEN pc' = "batch" /\ batch' = limit \div Split(k) /\ left' = batch' /\ UNCHANGED k
         ELSE k' = k + 1 /\ UNCHANGED <<pc, batch, left>>
    /\ UNCHANGED <<limit, queued, sent, now>>

\* eng.qpschannel <- chanSignal, blocking while the channel is full.
Send ==
    /\ pc = "batch"
    /\ IF left > 0
         THEN /\ queued < 2 * limit
              /\ queued' = queued + 1 /\ sent' = sent + 1 /\ left' = left - 1
              /\ UNCHANGED pc
         ELSE pc' = "tick" /\ UNCHANGED <<queued, sent, left>>
    /\ UNCHANGED <<limit, k, batch, now>>

\* <-tk.C, k milliseconds after the previous tick at the earliest.
Tick ==
    /\ pc = "tick" /\ now < Horizon
    /\ now' = now + k /\ left' = batch /\ pc' = "batch"
    /\ UNCHANGED <<limit, k, batch, queued, sent>>

\* A handler's <-eng.qpschannel.
Take ==
    /\ queued > 0
    /\ queued' = queued - 1
    /\ UNCHANGED <<pc, limit, k, batch, left, sent, now>>

Next == Search \/ Send \/ Tick \/ Take

Spec == Init /\ [][Next]_vars

-----------------------------------------------------------------------------
\* The search ends before the delay exceeds a second: the number of ticks per
\* second never becomes 0, by which the code divides, and at least half of the
\* limit is planned.
SearchEnds ==
    /\ k <= 501
    /\ pc # "search" => batch * Split(k) <= limit /\ limit < 2 * batch * Split(k)

\* The tokens of any span of time are less than twice the limit, not counting
\* the first batch.
RateBelowTwice == sent - batch <= (2 * limit * now) \div 1000 \/ pc = "search"
=============================================================================
