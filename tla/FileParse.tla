----------------------------- MODULE FileParse ------------------------------
(***************************************************************************)
(* go-vs-php-file-parse: parser reads the file line by line, splits a line *)
(* into fields and adds up one of them; on a tick of its ticker it sends   *)
(* show the pointer to the one stat it keeps writing to.  main sends the   *)
(* pointer once more at the end and waits for show.  With -gen main writes *)
(* such a file from a seed of digits instead.                              *)
(*                                                                         *)
(* A file is a sequence of lines of the bytes "sp", "1", "-" and "x"; the  *)
(* fields that matter are the last of MinFields, at most MaxFields are cut *)
(* off.  The times and rates that show prints are left out.                *)
(***************************************************************************)
EXTENDS Integers, Sequences, FiniteSetsExt

CONSTANTS
    Files,          \* the files
    BufSize,        \* readbufsize
    MinFields,      \* 9
    MaxFields,      \* 10
    StatSize,       \* capacity of statCh
    Width,          \* bits of int and uint64
    Seeds,          \* lengths of seedBuf
    LineLen,        \* 50, bytes of a generated line
    FieldLen,       \* 5, bytes of a field and the separator after it
    GenLines        \* totalline

VARIABLES
    file, tail,     \* the lines; whether the last one has no end
    showstat,       \* -stat
    ppc,            \* main and parser: create, gen, open, start, read, send, last, wait, returned, fatal
    at,             \* lines read or generated
    seed, seekpos, shift,   \* of the generator
    slice,          \* slice of parser
    result,         \* the stat
    statCh,         \* number of pointers in statCh
    spc,            \* show: none, take, print, ended
    report          \* what show has printed last

genVars == <<seed, seekpos, shift>>
vars == <<file, tail, showstat, ppc, at, genVars, slice, result, statCh, spc, report>>

Word(n) == n % 2^Width
Signed(n) == ((n + 2^(Width - 1)) % 2^Width) - 2^(Width - 1)

(***************************************************************************)
(* SplitBytes and AtoIntOfBytes                                            *)
(***************************************************************************)
From(s, i) == SubSeq(s, i, Len(s))

\* Mutant: the rest is cut at the separator that is one too many.
ScanByteCut(s, sep, k, a, i) ==
    IF a.stop \/ s[i] # sep THEN a
    ELSE IF k > 0 /\ a.rcnt + 1 > k
      THEN [rcnt |-> a.rcnt + 1, pos |-> Len(s) + 1, out |-> Append(a.out, SubSeq(s, a.pos, i - 1)), stop |-> TRUE]
      ELSE [rcnt |-> a.rcnt + 1, pos |-> i + 1, out |-> Append(a.out, SubSeq(s, a.pos, i - 1)), stop |-> FALSE]

\* One byte in the loop; after its break, stop, nothing changes any more.
ScanByte(s, sep, k, a, i) ==
    IF a.stop \/ s[i] # sep THEN a
    ELSE IF k > 0 /\ a.rcnt + 1 > k
      THEN [rcnt |-> a.rcnt + 1, pos |-> Len(s) + 1, out |-> Append(a.out, From(s, a.pos)), stop |-> TRUE]
      ELSE [rcnt |-> a.rcnt + 1, pos |-> i + 1, out |-> Append(a.out, SubSeq(s, a.pos, i - 1)), stop |-> FALSE]

ScanStart == [rcnt |-> 0, pos |-> 1, out |-> <<>>, stop |-> FALSE]

\* The loop after i bytes.
Scanned(s, sep, k) ==
    LET scan[i \in 0 .. Len(s)] == IF i = 0 THEN ScanStart ELSE ScanByte(s, sep, k, scan[i - 1], i)
    IN scan

\* n is lowered first, so n = 1 cuts like n < 0; n = 0 leaves what the last
\* call has put there; what follows a separator at the end is dropped.
SplitBytes(s, sep, n, old) ==
    LET end == Scanned(s, sep, IF n > 0 THEN n - 1 ELSE n)[Len(s)]
    IN IF n = 0 THEN old
       ELSE IF end.pos <= Len(s) THEN Append(end.out, From(s, end.pos)) ELSE end.out

\* res after d digits, all of them "1".
Accumulated(d) ==
    LET res[i \in 0 .. d] == IF i = 0 THEN 0 ELSE Signed(res[i - 1] * 10 + 1)
    IN res[d]

\* Anything but digits after a first "-" is an error, and nothing at all is 0.
AtoIntOfBytes(s) ==
    LET neg == s # <<>> /\ s[1] = "-"
        digits == IF neg THEN Tail(s) ELSE s
        res == Accumulated(Len(digits))
    IN IF \E i \in DOMAIN digits : digits[i] # "1"
         THEN [size |-> 0, ok |-> FALSE]
         ELSE [size |-> IF neg THEN Signed(-res) ELSE res, ok |-> TRUE]

-----------------------------------------------------------------------------
Init ==
    /\ \/ /\ ppc = "open" /\ file \in Files /\ tail \in BOOLEAN /\ (tail => file # <<>>)
          /\ showstat \in BOOLEAN /\ seed = 0
       \/ ppc = "create" /\ file = <<>> /\ tail = FALSE /\ showstat = FALSE /\ seed \in Seeds
    /\ at = 0 /\ seekpos = 0 /\ shift = 0 /\ slice = <<>>
    /\ result = [lines |-> 0, bytes |-> 0, sizes |-> 0, done |-> FALSE]
    /\ statCh = 0 /\ spc = "none" /\ report = <<0, 0>>

\* The lines that ReadSlice returns without an error; an end of the file inside
\* a line is EOF.
Whole == Len(file) - (IF tail THEN 1 ELSE 0)

(***************************************************************************)
(* The generator                                                           *)
(***************************************************************************)
\* The file exists already without -force, or cannot be opened, or the seed is
\* too short for two lines.
GenOpen ==
    /\ ppc = "create"
    /\ \/ seed >= 2 * LineLen /\ ppc' = "gen"
       \/ ppc' = "fatal"
    /\ UNCHANGED <<file, tail, showstat, at, genVars, slice, result, statCh, spc, report>>

\* linebuf, with one digit for all of the seed's.
Linebuf == [i \in 1 .. LineLen |-> IF i = LineLen THEN "nl" ELSE IF i % FieldLen = 0 THEN "sp" ELSE "1"]

\* A line is written; the next one starts behind it in the seed, or, when the
\* seed does not hold another one, at the next shift.
GenLine ==
    /\ ppc = "gen" /\ at < GenLines /\ at' = at + 1
    /\ LET wrap == seekpos + LineLen > seed - LineLen
       IN /\ shift' = IF ~wrap THEN shift ELSE IF shift + 1 >= seed - 2 * LineLen THEN 0 ELSE shift + 1
          /\ seekpos' = IF wrap THEN shift' ELSE seekpos + LineLen
    /\ UNCHANGED <<file, tail, showstat, ppc, seed, slice, result, statCh, spc, report>>

GenWriteFails ==
    /\ ppc = "gen" /\ at < GenLines /\ ppc' = "fatal"
    /\ UNCHANGED <<file, tail, showstat, at, genVars, slice, result, statCh, spc, report>>

\* The rest of the buffer is written, or not, and main returns; a failed sync
\* is a warning only.
GenFlush ==
    /\ ppc = "gen" /\ at = GenLines /\ ppc' \in {"returned", "fatal"}
    /\ UNCHANGED <<file, tail, showstat, at, genVars, slice, result, statCh, spc, report>>

(***************************************************************************)
(* parser                                                                  *)
(***************************************************************************)
\* main opens the file, unless the buffer is too small, the file is missing, a
\* directory or unreadable, or the address of -profile is in use.
OpenFile ==
    /\ ppc = "open"
    /\ \/ ppc' = "start"
       \/ ppc' = "fatal"
    /\ UNCHANGED <<file, tail, showstat, at, genVars, slice, result, statCh, spc, report>>

StartShow ==
    /\ ppc = "start" /\ ppc' = "read" /\ spc' = "take"
    /\ UNCHANGED <<file, tail, showstat, at, genVars, slice, result, statCh, report>>

\* A line does not fit into the buffer (bufio.ErrBufferFull): Fatalf.
ReadFails ==
    /\ ppc = "read" /\ at < Len(file) /\ Len(file[at + 1]) >= BufSize
    /\ ppc' = "fatal"
    /\ UNCHANGED <<file, tail, showstat, at, genVars, slice, result, statCh, spc, report>>

\* The line is counted; with too few fields that is all, otherwise its size
\* is added, 0 when it is no number, and the ticker is looked at.
ReadLine ==
    /\ ppc = "read" /\ at < Whole /\ Len(file[at + 1]) < BufSize
    /\ at' = at + 1
    /\ LET line == Append(file[at + 1], "nl")
           fields == SplitBytes(line, "sp", MaxFields, slice)
           short == Len(fields) < MinFields
           size == IF short THEN 0 ELSE AtoIntOfBytes(fields[MinFields]).size
       IN /\ slice' = fields
          /\ result' = [result EXCEPT !.bytes = Word(@ + Len(line)), !.lines = Word(@ + 1),
                                      !.sizes = Word(@ + size)]
          /\ \/ UNCHANGED ppc
             \/ ~short /\ showstat /\ ppc' = "send"
    /\ UNCHANGED <<file, tail, showstat, genVars, statCh, spc, report>>

SendStat ==
    /\ ppc = "send" /\ statCh < StatSize
    /\ statCh' = statCh + 1 /\ ppc' = "read"
    /\ UNCHANGED <<file, tail, showstat, at, genVars, slice, result, spc, report>>

\* Mutant: the stat is not marked as done.
ReadEndsNotDone ==
    /\ ppc = "read" /\ at = Whole /\ (tail => Len(file[at + 1]) < BufSize)
    /\ ppc' = "last"
    /\ UNCHANGED <<file, tail, showstat, at, genVars, slice, result, statCh, spc, report>>

ReadEnds ==
    /\ ppc = "read" /\ at = Whole /\ (tail => Len(file[at + 1]) < BufSize)
    /\ result' = [result EXCEPT !.done = TRUE] /\ ppc' = "last"
    /\ UNCHANGED <<file, tail, showstat, at, genVars, slice, statCh, spc, report>>

(***************************************************************************)
(* main and show                                                           *)
(***************************************************************************)
SendLast ==
    /\ ppc = "last" /\ statCh < StatSize
    /\ statCh' = statCh + 1 /\ ppc' = "wait"
    /\ UNCHANGED <<file, tail, showstat, at, genVars, slice, result, spc, report>>

WgWait ==
    /\ ppc = "wait" /\ spc = "ended" /\ ppc' = "returned"
    /\ UNCHANGED <<file, tail, showstat, at, genVars, slice, result, statCh, spc, report>>

ShowTake ==
    /\ spc = "take" /\ statCh > 0 /\ ppc # "fatal"
    /\ statCh' = statCh - 1 /\ spc' = "print"
    /\ UNCHANGED <<file, tail, showstat, ppc, at, genVars, slice, result, report>>

\* Mutant: the counters of the final report are those of an earlier pointer.
ShowPrintLate ==
    /\ spc = "print" /\ ppc # "fatal"
    /\ spc' = IF result.done THEN "ended" ELSE "take"
    /\ report' = IF result.done THEN report ELSE <<result.lines, result.bytes>>
    /\ UNCHANGED <<file, tail, showstat, ppc, at, genVars, slice, result, statCh>>

\* show looks at the stat when it prints, not when the pointer was sent: a
\* pointer that was sent before the end may make the final report.
ShowPrint ==
    /\ spc = "print" /\ ppc # "fatal"
    /\ spc' = IF result.done THEN "ended" ELSE "take"
    /\ report' = <<result.lines, result.bytes>>
    /\ UNCHANGED <<file, tail, showstat, ppc, at, genVars, slice, result, statCh>>

GenStep == GenOpen \/ GenLine \/ GenWriteFails \/ GenFlush
ParserStep ==
    \/ GenStep \/ OpenFile \/ StartShow
    \/ ReadFails \/ ReadLine \/ SendStat \/ ReadEnds \/ SendLast \/ WgWait
ShowStep == ShowTake \/ ShowPrint

Next == ParserStep \/ ShowStep

Spec == Init /\ [][Next]_vars
Fairness == WF_vars(ParserStep) /\ WF_vars(ShowStep)

(***************************************************************************)
(* Properties                                                              *)
(***************************************************************************)
Join(parts) ==
    LET upto[i \in 0 .. Len(parts)] ==
            IF i = 0 THEN <<>> ELSE IF i = 1 THEN parts[1] ELSE upto[i - 1] \o <<"sp">> \o parts[i]
    IN upto[Len(parts)]

Has(s, c) == \E i \in DOMAIN s : s[i] = c

\* The number of d digits "1".
Ones(d) ==
    LET v[i \in 0 .. d] == IF i = 0 THEN 0 ELSE v[i - 1] * 10 + 1
    IN v[d]

\* What the comment of SplitBytes asks for when n is not 0: for n > 0 at most n
\* subslices, of which only the last may still have separators.  (An empty
\* piece at the end of the line is left out.)
SplitRight(l, n, out) ==
    /\ l \in {Join(out), Append(Join(out), "sp")}
    /\ n > 0 => Len(out) <= n
    /\ \A i \in DOMAIN out : Has(out[i], "sp") => i = n

\* What AtoIntOfBytes is to make of it.
NumberRight(l) ==
    LET neg == l # <<>> /\ Head(l) = "-"
        value == Ones(IF neg THEN Len(l) - 1 ELSE Len(l))
    IN IF \A i \in DOMAIN l : l[i] = "1" \/ (i = 1 /\ neg)
         THEN AtoIntOfBytes(l) = [size |-> Signed(IF neg THEN -value ELSE value), ok |-> TRUE]
         ELSE ~AtoIntOfBytes(l).ok

\* The pieces of SplitBytes, put together again, are the line, but for an
\* empty piece at its end; without a limit none of them has a separator, and
\* with a limit of 2 or more there are not more of them and only the last has
\* one.  (A limit of 1 is left out: the comment promises one piece, the code,
\* which has counted n down to 0 by then, takes it for no limit.)  AtoIntOfBytes gives the number modulo the width of int.
SplitExact ==
    ppc = "open" => \A l \in {file[i] : i \in DOMAIN file} :
        /\ \A n \in {-1, 2, 3} : SplitRight(l, n, SplitBytes(l, "sp", n, slice))
        /\ NumberRight(l)

\* The line that the generator copies next lies in the seed.
CopyInBounds == ppc = "gen" => seekpos >= 0 /\ seekpos + LineLen - 1 <= seed

\* However many lines are generated, the bytes copied are bytes of the seed,
\* and parser finds enough fields in a line and a number in the one it adds up.
SeedInBounds ==
    /\ CopyInBounds
    /\ ppc = "gen" =>
         LET fields == SplitBytes(Linebuf, "sp", MaxFields, <<>>)
         IN Len(fields) >= MinFields /\ AtoIntOfBytes(fields[MinFields]).ok

\* Although show reads the one stat that parser is still writing to, and
\* pointers pile up in statCh, its last report counts every line and byte up to
\* the last end of line.
ReportComplete ==
    spc = "ended" =>
        report = <<Word(Whole), Word(MapThenSumSet(LAMBDA i : Len(file[i]) + 1, 1 .. Whole))>>

\* main returns or gives up, although show may leave with pointers still in
\* the channel; unless parser has filled the channel again while show was busy
\* with the report that turned out to be its last (8192 ticks in the code).
MainReturns == <>(ppc \in {"returned", "fatal"} \/ (spc = "ended" /\ statCh = StatSize))
=============================================================================
