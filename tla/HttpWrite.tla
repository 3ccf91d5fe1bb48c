----------------------------- MODULE HttpWrite ------------------------------
(***************************************************************************)
(* How qps-http-app-server writes a response: httpSendResponse hands the   *)
(* header and then the body to httpWriteResponser, which calls Write again *)
(* with the rest after a deadline has passed, at most five times.          *)
(*                                                                         *)
(* Write returns when all it was given has been taken by the kernel or on  *)
(* an error, with the number of bytes taken.  A byte is named by its text  *)
(* and its place in it.                                                    *)
(***************************************************************************)
EXTENDS Integers, SequencesExt

CONSTANTS
    HeaderLen, BodyLen,     \* len(text_body) of the two calls
    WriteTries              \* 5

VARIABLES
    text,       \* which of the two is being written
    total,      \* write_total_bytes
    wtries,     \* io_try_count
    wpc,        \* write, or how it ended: done, timeout, error
    taken       \* history: the bytes the kernel has taken

vars == <<text, total, wtries, wpc, taken>>

Text(t) == [i \in 1 .. IF t = "header" THEN HeaderLen ELSE BodyLen |-> <<t, i>>]
Response == Text("header") \o Text("body")

\* text_body[write_total_bytes:]
Rest == SubSeq(Text(text), total + 1, Len(Text(text)))

Init == text = "header" /\ total = 0 /\ wtries = 0 /\ wpc = "write" /\ taken = <<>>

\* Everything is taken: after the header the body is written, after the body
\* the response is counted.
WriteRest ==
    /\ wpc = "write" /\ taken' = taken \o Rest /\ text' = "body"
    /\ IF text = "header"
         THEN total' = 0 /\ wtries' = 0 /\ UNCHANGED wpc
         ELSE total' = total + Len(Rest) /\ wpc' = "done" /\ UNCHANGED wtries

\* Mutant: what was taken before the deadline is written again.
WriteTimeOutAgain ==
    /\ wpc = "write" /\ wtries' = wtries + 1
    /\ \E n \in 0 .. Len(Rest) - 1 : taken' = taken \o SubSeq(Rest, 1, n)
    /\ wpc' = IF wtries' >= WriteTries THEN "timeout" ELSE "write"
    /\ UNCHANGED <<text, total>>

\* The deadline passes, or the error is temporary: some bytes may have been
\* taken.
WriteTimeOut ==
    /\ wpc = "write" /\ wtries' = wtries + 1
    /\ \E n \in 0 .. Len(Rest) - 1 : taken' = taken \o SubSeq(Rest, 1, n) /\ total' = total + n
    /\ wpc' = IF wtries' >= WriteTries THEN "timeout" ELSE "write"
    /\ UNCHANGED text

WriteError ==
    /\ wpc = "write" /\ wpc' = "error" /\ wtries' = wtries + 1
    /\ \E n \in 0 .. Len(Rest) - 1 : taken' = taken \o SubSeq(Rest, 1, n) /\ total' = total + n
    /\ UNCHANGED text

Next == WriteRest \/ WriteTimeOut \/ WriteError

Spec == Init /\ [][Next]_vars

(***************************************************************************)
(* Properties.                                                             *)
(***************************************************************************)
\* However often a write is cut by its deadline, the peer is sent a prefix of
\* header and body with no byte missing or twice, nothing of the body before
\* all of the header, and the response counts as sent exactly when all of it
\* was taken.  Five tries at most go into each of the two.
ResponseWhole ==
    /\ IsPrefix(taken, Response) /\ wtries <= WriteTries
    /\ wpc = "done" <=> taken = Response
=============================================================================
