----------------------------- MODULE MCFastHttp -----------------------------
(***************************************************************************)
(* fasthttpserver for TLC, one part at a time: its goroutines              *)
(* (FastHttpServer) or the buffers its services share (FastHttpBuffers).   *)
(* The other part stays in its initial state.                              *)
(***************************************************************************)
EXTENDS FastHttpServer, TLC

CONSTANTS MBuf, HBuf, Request, MiniSize, MethodSize, HeaderSize, TailSize   \* of FastHttpBuffers

VARIABLES
    part,           \* which part runs
    mem, pool, methodbuf, hdrbuf, cmpbuf, spc, req,
    requestbytes, bufiobytes, methodok, keep        \* of FastHttpBuffers

Buf == INSTANCE FastHttpBuffers WITH isKeepAlive <- keep

ASSUME BuffersAssumption ==
    /\ {MiniSize, MethodSize, HeaderSize, TailSize} \subseteq Nat
    /\ 0 < MiniSize /\ MiniSize <= MethodSize /\ MethodSize <= HeaderSize /\ TailSize < HeaderSize
    /\ MBuf \cap HBuf = {} /\ None \notin MBuf \cup HBuf
    /\ Request \subseteq Seq(Buf!Symbol) /\ \A r \in Request : Len(r) >= MiniSize

\* One request each that fits into methodbuf, into the header buffer, and into
\* neither; each mark early and late.
MCRequest ==
    {<<"HTTP/1.1">>, <<"x">>, <<"http/1.1", "Connection: Close">>,
     <<"x", "x", "Connection: Keep-Alive">>}

MCSymmetry == Permutations(Conn) \cup Permutations(Worker)

bufferVars ==
    <<mem, pool, methodbuf, hdrbuf, cmpbuf, spc, req, requestbytes, bufiobytes, methodok, keep>>

MCInit == part \in {"server", "buffers"} /\ Init /\ Buf!Init

MCNext ==
    \/ part = "server" /\ Next /\ UNCHANGED <<part, bufferVars>>
    \/ part = "buffers" /\ Buf!Next /\ UNCHANGED <<part, vars>>

MCSpec == MCInit /\ [][MCNext]_<<part, vars, bufferVars>>

\* Whether a connection is kept follows from its own request, whatever the
\* pooled buffers held before.
KeepAliveSound == Buf!KeepAliveSound
=============================================================================
