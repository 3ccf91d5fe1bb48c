----------------------------- MODULE FileSearch -----------------------------
(***************************************************************************)
(* simplefilesearch: main walks through the files and directories of the   *)
(* command line, adds the names of a directory to the same map it iterates *)
(* over, and sends files to up to ncpu searchers, which send matching      *)
(* lines to a writer.  The names of a directory are opened as they are,    *)
(* relative to the working directory.                                      *)
(*                                                                         *)
(* A file is the number of its matching lines (a last line without an end  *)
(* is never one), a directory the set of its names.                        *)
(***************************************************************************)
EXTENDS Integers, Sequences, FiniteSets

CONSTANTS
    Name,           \* names of files and directories
    MaxHits,        \* matching lines of a file (a bound)
    NCpu,           \* ncpu
    InCap, OutCap,  \* capacities of inCh and outCh
    Block,          \* matching lines that fit into bufout
    MaxLists        \* directories listed (a bound: a map may list itself for ever)

VARIABLES
    fs,             \* what os.Open finds under a name
    files,          \* the names of the command line
    allfiles,       \* no, new, done
    newfilecnt, idx,
    todo,           \* names that this iteration over allfiles has not reached
    smpc,           \* main: pass, visit, send, wait, closed, ended
    onefile,        \* the file main sends
    inCh, outCh,    \* outCh is a number of lines
    searcher,       \* none, idle, send, ended
    left,           \* the matching lines that a searcher will still send
    bufout, stdout, \* lines in the writer's buffer and written
    lists,          \* directories listed
    searched, due   \* history: files sent to inCh, and their matching lines

walkVars == <<allfiles, newfilecnt, todo, lists>>
fixed == <<fs, files>>
vars == <<fixed, walkVars, idx, smpc, onefile, inCh, outCh, searcher, left, bufout, stdout, searched, due>>

Entries ==
    {[kind |-> "none", names |-> {}, hits |-> 0]}
    \cup [kind : {"dir"}, names : SUBSET Name, hits : {0}]
    \cup [kind : {"file"}, names : {{}}, hits : 0 .. MaxHits]

Init ==
    /\ fs \in [Name -> Entries] /\ files \in (SUBSET Name) \ {{}}
    /\ allfiles = [n \in Name |-> IF n \in files THEN "new" ELSE "no"]
    /\ newfilecnt = Cardinality(files) /\ idx = 0 /\ todo = {} /\ lists = 0
    /\ smpc = "pass" /\ onefile = (CHOOSE n \in Name : TRUE)
    /\ inCh = <<>> /\ outCh = 0 /\ searcher = [w \in 1 .. NCpu |-> "none"]
    /\ left = [w \in 1 .. NCpu |-> 0]
    /\ bufout = 0 /\ stdout = 0 /\ searched = {} /\ due = 0

(***************************************************************************)
(* main                                                                    *)
(***************************************************************************)
\* Mutant: inCh is left open.
NextPassOpen ==
    /\ smpc = "pass" /\ newfilecnt > 0
    /\ smpc' = "visit" /\ newfilecnt' = 0 /\ todo' = {n \in Name : allfiles[n] # "no"}
    /\ UNCHANGED <<fixed, allfiles, lists, idx, onefile, inCh, outCh, searcher, left, bufout, stdout, searched, due>>

\* Another iteration over allfiles, or inCh is closed.
NextPass ==
    /\ smpc = "pass"
    /\ IF newfilecnt > 0
         THEN smpc' = "visit" /\ newfilecnt' = 0 /\ todo' = {n \in Name : allfiles[n] # "no"}
         ELSE smpc' = "wait" /\ UNCHANGED <<newfilecnt, todo>>
    /\ UNCHANGED <<fixed, allfiles, lists, idx, onefile, inCh, outCh, searcher, left, bufout, stdout, searched, due>>

PassEnds ==
    /\ smpc = "visit" /\ todo = {} /\ smpc' = "pass"
    /\ UNCHANGED <<fixed, walkVars, idx, onefile, inCh, outCh, searcher, left, bufout, stdout, searched, due>>

SkipDone(n) ==
    /\ smpc = "visit" /\ n \in todo /\ allfiles[n] = "done" /\ todo' = todo \ {n}
    /\ UNCHANGED <<fixed, allfiles, newfilecnt, lists, idx, smpc, onefile, inCh, outCh, searcher, left, bufout, stdout, searched, due>>

Reach(n) == smpc = "visit" /\ n \in todo /\ allfiles[n] = "new" /\ newfilecnt' = newfilecnt + 1

OpenFails(n) ==
    /\ Reach(n) /\ fs[n].kind = "none"
    /\ todo' = todo \ {n} /\ allfiles' = [allfiles EXCEPT ![n] = "done"]
    /\ UNCHANGED <<fixed, lists, idx, smpc, onefile, inCh, outCh, searcher, left, bufout, stdout, searched, due>>

\* Every name of the directory gets a new entry, also one that was done.  A
\* name that is new in the map may be reached in this iteration or not.
ListDir(n) ==
    /\ Reach(n) /\ fs[n].kind = "dir" /\ lists < MaxLists /\ lists' = lists + 1
    /\ allfiles' = [m \in Name |-> IF m \in fs[n].names THEN "new" ELSE IF m = n THEN "done" ELSE allfiles[m]]
    /\ \E more \in SUBSET {m \in fs[n].names : allfiles[m] = "no"} : todo' = (todo \ {n}) \cup more
    /\ UNCHANGED <<fixed, idx, smpc, onefile, inCh, outCh, searcher, left, bufout, stdout, searched, due>>

\* Each of the first ncpu files starts a searcher before it is sent.
StartSearch(n) ==
    /\ Reach(n) /\ fs[n].kind = "file"
    /\ todo' = todo \ {n} /\ allfiles' = [allfiles EXCEPT ![n] = "done"]
    /\ IF idx < NCpu
         THEN idx' = idx + 1 /\ searcher' = [searcher EXCEPT ![idx + 1] = "idle"]
         ELSE UNCHANGED <<idx, searcher>>
    /\ smpc' = "send" /\ onefile' = n
    /\ UNCHANGED <<fixed, lists, inCh, outCh, left, bufout, stdout, searched, due>>

SendInfo ==
    /\ smpc = "send" /\ Len(inCh) < InCap
    /\ inCh' = Append(inCh, onefile) /\ smpc' = "visit"
    /\ searched' = searched \cup {onefile} /\ due' = due + fs[onefile].hits
    /\ UNCHANGED <<fixed, walkVars, idx, onefile, outCh, searcher, left, bufout, stdout>>

\* Mutant: main does not wait for the searchers.
WgWaitNot ==
    /\ smpc = "wait" /\ smpc' = "closed"
    /\ UNCHANGED <<fixed, walkVars, idx, onefile, inCh, outCh, searcher, left, bufout, stdout, searched, due>>

\* All searchers have ended, and outCh is closed.
WgWait ==
    /\ smpc = "wait" /\ \A w \in 1 .. NCpu : searcher[w] \in {"none", "ended"}
    /\ smpc' = "closed"
    /\ UNCHANGED <<fixed, walkVars, idx, onefile, inCh, outCh, searcher, left, bufout, stdout, searched, due>>

\* Nobody waits for the writer, and nobody flushes its buffer.
Return ==
    /\ smpc = "closed" /\ smpc' = "ended"
    /\ UNCHANGED <<fixed, walkVars, idx, onefile, inCh, outCh, searcher, left, bufout, stdout, searched, due>>

(***************************************************************************)
(* bufsearch and the writer                                                *)
(***************************************************************************)
\* A searcher with n lines left of its file: it sends them or takes another.
Search(w, n) ==
    /\ left' = [left EXCEPT ![w] = n]
    /\ searcher' = [searcher EXCEPT ![w] = IF n = 0 THEN "idle" ELSE "send"]

Take(w) ==
    /\ smpc # "ended" /\ searcher[w] = "idle" /\ inCh # <<>>
    /\ inCh' = Tail(inCh) /\ Search(w, fs[Head(inCh)].hits)
    /\ UNCHANGED <<fixed, walkVars, idx, smpc, onefile, outCh, bufout, stdout, searched, due>>

SendLine(w) ==
    /\ smpc # "ended" /\ searcher[w] = "send" /\ outCh < OutCap
    /\ outCh' = outCh + 1 /\ Search(w, left[w] - 1)
    /\ UNCHANGED <<fixed, walkVars, idx, smpc, onefile, inCh, bufout, stdout, searched, due>>

SearchEnds(w) ==
    /\ searcher[w] = "idle" /\ inCh = <<>> /\ smpc \in {"wait", "closed"}
    /\ searcher' = [searcher EXCEPT ![w] = "ended"]
    /\ UNCHANGED <<fixed, walkVars, idx, smpc, onefile, inCh, outCh, left, bufout, stdout, searched, due>>

WriteLine ==
    /\ smpc # "ended" /\ outCh > 0 /\ outCh' = outCh - 1
    /\ IF bufout + 1 >= Block
         THEN bufout' = 0 /\ stdout' = stdout + bufout + 1
         ELSE bufout' = bufout + 1 /\ UNCHANGED stdout
    /\ UNCHANGED <<fixed, walkVars, idx, smpc, onefile, inCh, searcher, left, searched, due>>

-----------------------------------------------------------------------------
MainStep ==
    \/ NextPass \/ PassEnds \/ SendInfo \/ WgWait \/ Return
    \/ \E n \in Name : SkipDone(n) \/ OpenFails(n) \/ ListDir(n) \/ StartSearch(n)

SearchStep(w) == Take(w) \/ SendLine(w) \/ SearchEnds(w)

Next == MainStep \/ WriteLine \/ \E w \in 1 .. NCpu : SearchStep(w)

Spec == Init /\ [][Next]_vars

Fairness == WF_vars(MainStep) /\ WF_vars(WriteLine) /\ \A w \in 1 .. NCpu : WF_vars(SearchStep(w))

(***************************************************************************)
(* Properties                                                              *)
(***************************************************************************)
\* What the names in S lead to, through directories.
Closure(S) ==
    LET below[i \in 0 .. Cardinality(Name)] ==
            IF i = 0 THEN S ELSE below[i - 1] \cup UNION {fs[n].names : n \in below[i - 1]}
    IN below[Cardinality(Name)]

\* A directory that leads to its own name: its entry is made new again and
\* again.
Endless == \E n \in Closure(files) : n \in Closure(fs[n].names)

\* When main says "all done", every file that the command line leads to has
\* been searched, although the map grew under the iteration, and every matching
\* line has been handed to the writer; some may still be in outCh or in bufout,
\* and those are lost when main returns.
SearchComplete ==
    smpc = "closed" =>
        /\ {n \in Closure(files) : fs[n].kind = "file"} \subseteq searched
        /\ outCh + bufout + stdout = due

\* main returns, although everybody waits for everybody's room, unless a
\* directory leads to its own name, as the copy of a directory inside itself
\* or a file named like its directory does.
SearchReturns == <>(smpc = "ended" \/ Endless)
=============================================================================
