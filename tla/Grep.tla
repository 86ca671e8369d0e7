-------------------------------- MODULE Grep --------------------------------
(***************************************************************************)
(* One grep invocation: Exec of command/internal/grep/grep.go, the search  *)
(* loop of search.go and the collection of files of files.go, while        *)
(* another job removes files and the command's context may be cancelled.   *)
(*                                                                         *)
(* A line is the number of its matches, or one of three ways to fail on    *)
(* it.  A written item is a record of the line it is about, so output      *)
(* sizes, like context sizes, are counted in items; prefixes, wording and  *)
(* regular expressions are left out.  A path is a sequence of names, a     *)
(* name a number, which gives the order of names; the working directory is *)
(* <<>>, and Dot may only stand in front.  The Stat of a path and the      *)
(* ReadDir or Open after it are one step: a removal between them gives     *)
(* what a removal before them gives.  Each of the three may also fail for  *)
(* a path that is there, for want of permission or a failed request.       *)
(***************************************************************************)
EXTENDS Integers, Sequences, FiniteSets, SequencesExt

CONSTANTS
    Jobs,           \* command lines and the files they meet, see below
    MaxWork,        \* maxSearchWork
    MaxResults,     \* maxSearchResults
    MaxOutput,      \* maxSearchOutput, in items
    MaxContext,     \* maxSearchContext, in lines
    MaxTraversal,   \* maxTraversalOperations
    MaxEntries,     \* maxTraversalResults
    MaxDepth        \* maxDepth

Broken == -1        \* the read fails: errInput
TooLong == -2       \* errLineLimit
Runaway == -3       \* the regular expression engine gives up

Dot == -1           \* the name "."
Dash == 0           \* the name "-"
Hidden == 9         \* a name with a leading dot
Stdin == <<Dash>>   \* the operand "-"

\* A job is [opts, setup, operands, stdin, disk, gone, faulty, faults].  opts holds the
\* set `on` of options given, the numbers before, after and maxCount, and the
\* names of --exclude and --exclude-dir.
\* setup is how far Exec gets before it looks at a file: "ok", with an unknown
\* option, an unreadable pattern file, a bad pattern, no pattern at all, or
\* with patterns read from standard input.  An operand is a path, or a glob
\* whose last part matches `names` ("leaf"), below any directory ("deep").
\* disk holds what exists at the start, gone what another job may remove, faulty
\* the paths whose Stat, ReadDir or Open may fail.
Line == Nat \cup {Broken, TooLong, Runaway}
Path == {p \in Seq(Nat \cup {Dot}) : \A i \in 2..Len(p) : p[i] # Dot}
Option == {"invert", "only", "count", "quiet", "list", "listWithout", "recursive"}

ASSUME GrepAssumption ==
    /\ \A n \in {MaxWork, MaxResults, MaxOutput, MaxContext, MaxTraversal,
                 MaxEntries, MaxDepth} : n \in Nat
    /\ \A j \in Jobs :
         /\ DOMAIN j.disk \subseteq Seq(Nat) /\ IsFiniteSet(DOMAIN j.disk)
         /\ \A p \in DOMAIN j.disk : /\ j.disk[p].dir \in BOOLEAN
                                    /\ j.disk[p].lines \in Seq(Line)
         /\ \A p \in DOMAIN j.disk : \A n \in 0..(Len(p) - 1) :
              SubSeq(p, 1, n) \in DOMAIN j.disk /\ j.disk[SubSeq(p, 1, n)].dir
         /\ j.operands \in Seq([path : Path, glob : {"no", "leaf", "deep"},
                                names : SUBSET Nat])
         /\ j.stdin \in Seq(Line)
         /\ {j.opts.before, j.opts.after, j.opts.maxCount} \subseteq Nat
         /\ j.setup \in {"ok", "unknown", "unreadable", "invalid", "empty", "stdin"}
         /\ j.faulty \subseteq Seq(Nat) /\ j.faults \subseteq {"cancel", "write"}

VARIABLES
    job,       \* the command line
    disk,      \* paths that exist |-> [dir, lines]
    cancelled, \* the context is done
    pc,        \* where Exec is
    todo,      \* operands and directories still to look at
    trav,      \* traversalBudget
    entries,   \* files to search
    next,      \* index of the entry being searched
    input,     \* lines not read yet
    loop,      \* local variables of search
    budget,    \* searchBudget
    claimed,   \* stdinClaimed
    found,     \* history: what opening each entry gave
    stdout,    \* items written
    any,       \* anyMatch and anyError
    status     \* how the command ended

vars == <<job, disk, cancelled, pc, todo, trav, entries, next, input, loop,
          budget, claimed, found, stdout, any, status>>
world == <<job, disk, cancelled>>
search == <<input, loop, budget>>
walk == <<todo, trav, entries>>
o == job.opts
On(option) == option \in o.on
-----------------------------------------------------------------------------
(* files.go *)
Base(p) == IF p = <<>> THEN Dot ELSE Last(p)
AcceptFile(p) == Base(p) \notin o.exclude
ResolvePath(p) == IF p # <<>> /\ Head(p) = Dot THEN Tail(p) ELSE p
Exists(p) == ResolvePath(p) \in DOMAIN disk
IsDir(p) == disk[ResolvePath(p)].dir
MayFail(p) == ResolvePath(p) \in job.faulty

\* Mutant: a file named "-" looks like standard input.
ChildPath_Plain(p, name) == Append(p, name)

\* childPath: an entry "-" of the working directory is not standard input.
ChildPath(p, name) == IF p = <<>> /\ name = Dash THEN <<Dot, Dash>>
                                                 ELSE Append(p, name)

\* Names in a directory, and a set of names in order.
ReadDir(p) ==
    LET d == ResolvePath(p) IN
    {Last(q) : q \in {q \in DOMAIN disk : Len(q) = Len(d) + 1 /\ IsPrefix(d, q)}}
Sortings(S) ==
    {s \in [1..Cardinality(S) -> S] :
        ToSet(s) = S /\ \A i, k \in 1..Cardinality(S) : i < k => s[i] < s[k]}

\* expandGlob and walkGlob, and the operations they are charged for.  Where a
\* call fails they go on without what is there: unseen are these paths.
Before(p, q) == \/ IsStrictPrefix(p, q)
                \/ \E i \in DOMAIN p \cap DOMAIN q :
                      p[i] < q[i] /\ SubSeq(p, 1, i - 1) = SubSeq(q, 1, i - 1)
Below(p, depth, unseen) ==
    LET r == ResolvePath(p) IN
    {q \in DOMAIN disk : /\ IsPrefix(r, q) /\ Len(q) - Len(r) < depth
                         /\ ~\E d \in unseen : IsPrefix(r, d) /\ IsStrictPrefix(d, q)}
Names(p, unseen) == IF ResolvePath(p) \in unseen THEN {} ELSE ReadDir(p)
Spelled(p, q) ==
    LET rest == SubSeq(q, Len(ResolvePath(p)) + 1, Len(q)) IN
    IF rest = <<>> THEN p ELSE ChildPath(p, Head(rest)) \o Tail(rest)
ExpandGlob(op, unseen) ==
    CASE op.glob = "no" -> <<op.path>>
      [] op.glob = "leaf" ->
            LET names == SetToSortSeq(Names(op.path, unseen) \cap op.names, <)
            IN [i \in DOMAIN names |-> ChildPath(op.path, names[i])]
      [] op.glob = "deep" ->
            LET files == SetToSortSeq({q \in Below(op.path, MaxDepth, unseen) \ unseen :
                                         ~disk[q].dir /\ Last(q) \in op.names}, Before)
            IN [i \in DOMAIN files |-> Spelled(op.path, files[i])]
GlobCost(op, unseen) ==
    CASE op.glob = "no" -> 0
      [] op.glob = "leaf" -> 1 + Cardinality(Names(op.path, unseen))
      [] op.glob = "deep" ->
            1 + Cardinality({ResolvePath(op.path)} \cup Below(op.path, MaxDepth + 1, unseen))

InBudget(t) == t.operations <= MaxTraversal /\ t.results <= MaxEntries
Charge(ops, results) == [operations |-> trav.operations + ops,
                         results |-> trav.results + results]

\* What is left of an aborted collection is never searched.
Ends(s) == pc' = "done" /\ status' = s
Collected(t, entry, more) ==
    /\ trav' = t
    /\ IF InBudget(t)
         THEN /\ todo' = more /\ entries' = entries \o entry
              /\ UNCHANGED <<pc, status>>
         ELSE Ends("2") /\ UNCHANGED <<todo, entries>>
    /\ UNCHANGED <<world, next, search, claimed, found, stdout, any>>

\* One operand of collectFiles.
TakeOperand ==
    /\ pc = "collect" /\ ~cancelled
    /\ todo # <<>> /\ Head(todo).what = "operand"
    /\ \E unseen \in SUBSET job.faulty :
       LET op == Head(todo).arg
           names == ExpandGlob(op, unseen)
           cost == 1 + GlobCost(op, unseen)
           globbed == IF op.glob = "no" THEN 0 ELSE Len(names)
       IN IF ~On("recursive") \/ (op.path = Stdin /\ op.glob = "no")
            THEN Collected(Charge(cost, globbed + Len(names)), names, Tail(todo))
            ELSE Collected(Charge(cost, globbed), <<>>,
                           [i \in DOMAIN names |->
                              [what |-> "walk", arg |-> names[i], depth |-> 0]]
                           \o Tail(todo))

\* walkFiles on one path: nothing is said of one whose Stat or ReadDir fails.
WalkFiles ==
    /\ pc = "collect" /\ ~cancelled
    /\ todo # <<>> /\ Head(todo).what = "walk"
    /\ LET p == Head(todo).arg
           depth == Head(todo).depth
           all == ReadDir(p)
       IN \/ /\ depth >= MaxDepth \/ ~Exists(p) \/ MayFail(p)
             /\ Collected(Charge(1, 0), <<>>, Tail(todo))
          \/ /\ depth < MaxDepth /\ Exists(p) /\ MayFail(p)
             /\ IsDir(p) /\ Base(p) \notin o.excludeDir
             /\ Collected(Charge(2, 0), <<>>, Tail(todo))
          \/ /\ depth < MaxDepth /\ Exists(p) /\ ~IsDir(p)
             /\ IF AcceptFile(p) THEN Collected(Charge(1, 1), <<p>>, Tail(todo))
                                 ELSE Collected(Charge(1, 0), <<>>, Tail(todo))
          \/ /\ depth < MaxDepth /\ Exists(p) /\ IsDir(p)
             /\ IF Base(p) \in o.excludeDir
                  THEN Collected(Charge(1, 0), <<>>, Tail(todo))
                  ELSE \E shown \in Sortings(all \ {Hidden}) :
                         Collected(Charge(2 + Cardinality(all), 0), <<>>,
                           [i \in DOMAIN shown |->
                              [what |-> "walk", arg |-> ChildPath(p, shown[i]),
                               depth |-> depth + 1]] \o Tail(todo))
-----------------------------------------------------------------------------
Start0 == [index |-> 0, pending |-> <<>>, after |-> 0, selected |-> 0,
           count |-> 0, lastPrinted |-> 0, out |-> <<>>]
NoBudget == [work |-> 0, results |-> 0, output |-> 0]
Spend(b, w, r, n) == [work |-> b.work + w, results |-> b.results + r,
                      output |-> b.output + n]
Fits(b) == b.work <= MaxWork /\ b.results <= MaxResults /\ b.output <= MaxOutput

Separator == [line |-> 0, mark |-> "--"]
Context(i) == [line |-> i, mark |-> "-"]
Hit(i) == [line |-> i, mark |-> ":"]
Total(n) == [line |-> n, mark |-> "count"]
Name(k) == [line |-> k, mark |-> "name"]

Implicit == job.operands = <<>>
Listing == (On("list") \/ On("listWithout")) /\ ~Implicit
BriefMode == On("quiet") \/ Listing
WithContext == ~BriefMode /\ (o.before > 0 \/ o.after > 0)
\* Mutant: one line more than -m asks for.
Exhausted_OneMore == o.maxCount > 0 /\ loop.selected > o.maxCount

Exhausted == o.maxCount > 0 /\ loop.selected >= o.maxCount
Selects(line) == line >= 0 /\ ((line > 0) # On("invert"))

Done(result) == /\ pc' = result
                /\ UNCHANGED <<world, walk, next, claimed, found, stdout, any, status>>

\* The iteration of the loop for a selected line: counting, the separator, the
\* pending context and the line or its matches.
SelectedLine(line) ==
    LET i == loop.index + 1
        each == On("only") /\ On("count") /\ ~On("invert")
        count == loop.count + IF each THEN line ELSE 1
        results == IF each THEN line ELSE IF On("only") /\ ~On("count") THEN 0 ELSE 1
        first == IF loop.pending = <<>> THEN i ELSE Head(loop.pending)
        sep == IF WithContext /\ loop.lastPrinted > 0 /\ first > loop.lastPrinted + 1
                 THEN <<Separator>> ELSE <<>>
        hits == [k \in 1..(IF On("only") THEN line ELSE 1) |-> Hit(i)]
        items == sep \o [k \in DOMAIN loop.pending |-> Context(loop.pending[k])] \o hits
        perHit == IF On("only") THEN line ELSE 0
    IN IF On("count")
         THEN /\ loop' = [loop EXCEPT !.index = i, !.selected = @ + 1, !.count = count]
              /\ budget' = Spend(budget, 1 + results, results, 0)
         ELSE /\ loop' = [loop EXCEPT !.index = i, !.selected = @ + 1, !.count = count,
                                      !.out = @ \o items, !.pending = <<>>,
                                      !.lastPrinted = i, !.after = o.after]
              /\ budget' = Spend(budget, 1 + results + Len(items) + perHit,
                                 results + perHit, Len(items))

\* The iteration for any other line: trailing context, or leading context that
\* is kept until a line is selected.
OtherLine ==
    LET i == loop.index + 1 IN
    \/ /\ On("count") \/ (loop.after = 0 /\ (o.before = 0 \/ BriefMode))
       /\ loop' = [loop EXCEPT !.index = i]
       /\ budget' = Spend(budget, 1, 0, 0)
    \/ /\ ~On("count") /\ loop.after > 0
       /\ loop' = [loop EXCEPT !.index = i, !.out = Append(@, Context(i)),
                               !.lastPrinted = i, !.after = @ - 1]
       /\ budget' = Spend(budget, 2, 0, 1)
    \/ /\ ~On("count") /\ loop.after = 0 /\ o.before > 0 /\ ~BriefMode
       /\ loop' = [loop EXCEPT !.index = i,
                     !.pending = Append(IF Len(@) = o.before THEN Tail(@) ELSE @, i)]
       /\ budget' = Spend(budget, 1, 0, 0)

SearchLine ==
    /\ pc = "search" /\ ~cancelled
    /\ ~(Exhausted /\ (On("count") \/ loop.after = 0))
    /\ input # <<>>
    /\ input' = Tail(input)
    /\ LET line == Head(input) IN
       \/ /\ line = Broken \/ line = TooLong \/ (line = Runaway /\ ~Exhausted)
          /\ budget' = Spend(budget, 1, 0, 0)
          /\ Done(IF line = Broken /\ Fits(budget') THEN "unread" ELSE "limit")
          /\ UNCHANGED loop
       \/ /\ ~Exhausted /\ Selects(line) /\ BriefMode
          /\ loop' = [loop EXCEPT !.selected = @ + 1, !.out = <<>>]
          /\ budget' = Spend(budget, 1, 0, 0)
          /\ Done(IF Fits(budget') THEN "searched" ELSE "limit")
       \/ /\ ~Exhausted /\ Selects(line) /\ ~BriefMode
          /\ SelectedLine(line)
          /\ Done(IF Fits(budget') THEN "search" ELSE "limit")
       \/ /\ (Exhausted /\ line \notin {Broken, TooLong}) \/ (line >= 0 /\ ~Selects(line))
          /\ OtherLine
          /\ Done(IF Fits(budget') /\ Len(loop'.pending) <= MaxContext
                    THEN "search" ELSE "limit")

\* The loop ends with the input, or when -m has had enough.
SearchEnd ==
    /\ pc = "search" /\ ~cancelled
    /\ \/ Exhausted /\ (On("count") \/ loop.after = 0)
       \/ input = <<>>
    /\ LET total == IF On("count") THEN <<Total(loop.count)>> ELSE <<>>
           atEnd == IF Exhausted /\ (On("count") \/ loop.after = 0) THEN 0 ELSE 1
       IN /\ loop' = [loop EXCEPT !.out = @ \o total]
          /\ budget' = Spend(budget, atEnd + Len(total), 0, Len(total))
    /\ UNCHANGED input
    /\ Done(IF Fits(budget') THEN "searched" ELSE "limit")
-----------------------------------------------------------------------------
(* grep.go *)
Init ==
    /\ job \in Jobs /\ disk = job.disk
    /\ cancelled = FALSE /\ pc = "start" /\ todo = <<>> /\ entries = <<>>
    /\ trav = [operations |-> 0, results |-> 0]
    /\ next = 0 /\ input = <<>> /\ loop = Start0 /\ budget = NoBudget
    /\ claimed = FALSE /\ found = <<>> /\ stdout = <<>>
    /\ any = [match |-> FALSE, error |-> FALSE] /\ status = "running"

\* Options, patterns, and what is searched.
Setup ==
    /\ pc = "start" /\ ~cancelled
    /\ \/ /\ job.setup \in {"unknown", "unreadable", "invalid"}
          /\ Ends(IF job.setup = "unknown" THEN "1" ELSE "2")
          /\ UNCHANGED <<todo, input>>
       \/ /\ job.setup = "empty" /\ ~On("invert") /\ ~On("listWithout")
          /\ Ends("1") /\ UNCHANGED <<todo, input>>
       \/ /\ job.setup \in {"ok", "stdin"} \/ On("invert") \/ On("listWithout")
          /\ job.setup \notin {"unknown", "unreadable", "invalid"}
          /\ IF Implicit
               THEN /\ pc' = "search"
                    /\ input' = IF job.setup = "stdin" THEN <<>> ELSE job.stdin
                    /\ UNCHANGED todo
               ELSE /\ pc' = "collect"
                    /\ todo' = [i \in DOMAIN job.operands |->
                                  [what |-> "operand", arg |-> job.operands[i]]]
                    /\ UNCHANGED input
          /\ UNCHANGED status
    /\ UNCHANGED <<world, trav, entries, next, loop, budget, claimed, found, stdout, any>>

CollectEnd ==
    /\ pc = "collect" /\ todo = <<>>
    /\ pc' = "next"
    /\ UNCHANGED <<world, walk, next, search, claimed, found, stdout, any, status>>

\* openInput: standard input is given once, even when it was not read to its end.
OpenInput ==
    /\ pc = "next" /\ ~cancelled /\ next < Len(entries)
    /\ next' = next + 1
    /\ \E fails \in BOOLEAN :
       LET p == entries[next']
           kind == IF p = Stdin THEN "stdin"
                   ELSE IF ~On("recursive") /\ ~AcceptFile(p) THEN "skipped"
                   ELSE IF ~Exists(p) \/ (fails /\ MayFail(p)) THEN "missing"
                   ELSE IF IsDir(p) THEN "directory" ELSE "file"
           opens == kind \in {"file", "stdin"}
       IN /\ found' = Append(found, kind)
          /\ any' = [any EXCEPT !.error = @ \/ kind = "missing"]
          /\ pc' = IF opens THEN "search" ELSE "next"
          /\ claimed' = (claimed \/ kind = "stdin")
          /\ input' = IF ~opens THEN input
                      ELSE IF kind = "file" THEN disk[ResolvePath(p)].lines
                      ELSE IF claimed \/ job.setup = "stdin" THEN <<>> ELSE job.stdin
          /\ loop' = IF opens THEN Start0 ELSE loop
    /\ UNCHANGED <<world, walk, budget, stdout, status>>

\* Mutant: the diagnostic does not change the exit status.
Unread_Forgotten ==
    /\ pc = "unread" /\ ~cancelled
    /\ IF Implicit THEN Ends("2") ELSE pc' = "next" /\ UNCHANGED status
    /\ UNCHANGED <<world, walk, next, search, claimed, found, stdout, any>>

\* A read error is a diagnostic for one file; implicit input has no other.
Unread ==
    /\ pc = "unread" /\ ~cancelled
    /\ any' = [any EXCEPT !.error = TRUE]
    /\ IF Implicit THEN Ends("2") ELSE pc' = "next" /\ UNCHANGED status
    /\ UNCHANGED <<world, walk, next, search, claimed, found, stdout>>

\* searchError: a limit ends the command.
Limit ==
    /\ pc = "limit" /\ ~cancelled
    /\ Ends("2")
    /\ UNCHANGED <<world, walk, next, search, claimed, found, stdout, any>>

\* What one file contributes is written when its search is over.
Matched == loop.selected > 0
Output ==
    CASE On("quiet") -> <<>>
      [] ~On("quiet") /\ Implicit -> loop.out
      [] ~On("quiet") /\ ~Implicit /\ Matched ->
            IF On("list") THEN <<Name(next)>> ELSE IF On("listWithout") THEN <<>> ELSE loop.out
      [] ~On("quiet") /\ ~Implicit /\ ~Matched ->
            IF On("listWithout") THEN <<Name(next)>>
            ELSE IF ~On("count") \/ On("list") THEN <<>> ELSE loop.out

FileDone ==
    /\ pc = "searched"
    /\ LET listed == ~On("quiet") /\ Listing
           b == IF listed THEN Spend(budget, 1, 0, Len(Output)) ELSE budget
       IN \/ /\ On("quiet") /\ Matched
             /\ Ends("0") /\ UNCHANGED <<stdout, budget>>
          \/ /\ ~(On("quiet") /\ Matched) /\ ~Fits(b)
             /\ budget' = b /\ Ends("2") /\ UNCHANGED stdout
          \/ /\ ~(On("quiet") /\ Matched) /\ Fits(b)
             /\ budget' = b /\ stdout' = stdout \o Output
             /\ IF Implicit THEN Ends(IF Matched THEN "0" ELSE "1")
                            ELSE pc' = "next" /\ UNCHANGED status
          \/ /\ ~On("quiet") /\ Fits(b) /\ "write" \in job.faults
             /\ budget' = b /\ Ends("write") /\ UNCHANGED stdout
    /\ any' = [any EXCEPT !.match = @ \/ Matched]
    /\ UNCHANGED <<world, walk, next, input, loop, claimed, found>>

AllDone ==
    /\ pc = "next" /\ next = Len(entries)
    /\ \/ Ends(IF any.error THEN "2" ELSE IF any.match THEN "0" ELSE "1")
       \/ "write" \in job.faults /\ ~On("quiet") /\ Ends("write")
    /\ UNCHANGED <<world, walk, next, search, claimed, found, stdout, any>>

\* Every loop looks at its context first.
Cancelled ==
    /\ cancelled
    /\ \/ pc \in {"start", "search", "unread", "limit"}
       \/ pc = "collect" /\ todo # <<>>
       \/ pc = "next" /\ next < Len(entries)
    /\ Ends("cancelled")
    /\ UNCHANGED <<world, walk, next, search, claimed, found, stdout, any>>

\* The shell cancels the context; another job removes a file or a tree.
Cancel ==
    /\ ~cancelled /\ "cancel" \in job.faults /\ pc # "done"
    /\ cancelled' = TRUE
    /\ UNCHANGED <<job, disk, pc, todo, trav, entries, next, input, loop, budget,
                   claimed, found, stdout, any, status>>
Vanish ==
    /\ pc # "done"
    /\ \E p \in job.gone \cap DOMAIN disk :
         disk' = [q \in {q \in DOMAIN disk : ~IsPrefix(p, q)} |-> disk[q]]
    /\ UNCHANGED <<job, cancelled, pc, todo, trav, entries, next, input, loop,
                   budget, claimed, found, stdout, any, status>>

Step == \/ Setup \/ TakeOperand \/ WalkFiles \/ CollectEnd
        \/ OpenInput \/ SearchLine \/ SearchEnd
        \/ Unread \/ Limit \/ FileDone \/ AllDone \/ Cancelled
Over == pc = "done" /\ UNCHANGED vars
Next == Step \/ Cancel \/ Vanish \/ Over
Spec == Init /\ [][Next]_vars
-----------------------------------------------------------------------------
(* Properties *)

\* The lines of an input that are selected: the first -m of those that match
\* (that do not, with -v).
SelectedLines(l) ==
    LET hits == {i \in DOMAIN l : Selects(l[i])} IN
    {i \in hits : o.maxCount = 0
                  \/ Cardinality({j \in hits : j <= i}) <= o.maxCount}
Full(l) == o.maxCount > 0 /\ Cardinality(SelectedLines(l)) = o.maxCount
LastRead(l) ==
    LET S == SelectedLines(l) IN
    IF BriefMode /\ S # {} THEN Min(S)
    ELSE IF Full(l) THEN Min({Len(l), Max(S) + IF On("count") THEN 0 ELSE o.after})
    ELSE Len(l)
\* The failure a search of l ends with, if any: the first one it meets.  The
\* regular expression is not tried on the lines after the last selected one.
Fails(l, i) == l[i] < 0 /\ ~(l[i] = Runaway /\ Full(l) /\ i > Max(SelectedLines(l)))
Faults(l) ==
    {l[i] : i \in {i \in 1..LastRead(l) :
                     Fails(l, i) /\ \A j \in 1..(i - 1) : ~Fails(l, j)}}

\* What grep is to print of line i of l: the selected lines with their context,
\* a separator wherever lines are left out.
Shown(l) ==
    SelectedLines(l)
    \cup {i \in DOMAIN l : /\ WithContext
                           /\ \E s \in SelectedLines(l) : i \in (s - o.before)..(s + o.after)}
Gap(l, i) == WithContext /\ (\E j \in Shown(l) : j < i) /\ (i - 1) \notin Shown(l)
Piece(l, i) ==
    IF i \notin Shown(l) THEN <<>>
    ELSE (IF Gap(l, i) THEN <<Separator>> ELSE <<>>)
         \o IF i \notin SelectedLines(l) THEN <<Context(i)>>
            ELSE [m \in 1..(IF On("only") THEN l[i] ELSE 1) |-> Hit(i)]
\* What -c is to count: matches with -o, else lines.
Counted(l, lines) ==
    IF On("only") /\ ~On("invert")
      THEN Cardinality(UNION {{i} \X (1..l[i]) : i \in lines})
      ELSE Cardinality(lines)
\* What grep is to print for entry k with lines l.
Expected(k, l) ==
    IF On("quiet") THEN <<>>
    ELSE IF Listing
      THEN IF IF SelectedLines(l) # {} THEN On("list") ELSE On("listWithout")
             THEN <<Name(k)>> ELSE <<>>
    ELSE IF On("count") THEN <<Total(Counted(l, SelectedLines(l)))>>
    ELSE FlattenSeq([i \in DOMAIN l |-> Piece(l, i)])

\* The lines entry k stands for: standard input belongs to the first "-".
Lines(k) ==
    IF found[k] = "file" THEN job.disk[ResolvePath(entries[k])].lines
    ELSE IF found[k] = "stdin" /\ job.setup # "stdin"
            /\ \A j \in 1..(k - 1) : found[j] # "stdin" THEN job.stdin
    ELSE <<>>
Searched(k) == found[k] \in {"file", "stdin"} /\ Faults(Lines(k)) = {}
Whole(n) == FlattenSeq([k \in 1..n |-> IF Searched(k) THEN Expected(k, Lines(k)) ELSE <<>>])

\* Exec gives up before it looks at any input.
Refused == \/ job.setup \in {"unknown", "unreadable", "invalid"}
           \/ job.setup = "empty" /\ ~On("invert") /\ ~On("listWithout")
Piped == IF job.setup = "stdin" THEN <<>> ELSE job.stdin

\* search keeps its place in locals while it reads on; whatever the options
\* and the line it stops at, standard output holds exactly what the selected
\* lines call for, file by file, and a file whose search fails adds nothing
\* (search returns its output as a whole, search.go:115-274).
OutputIsReference ==
    IF Implicit
      THEN stdout = IF status \in {"0", "1"} /\ ~Refused THEN Expected(0, Piped)
                                                         ELSE <<>>
      ELSE \E n \in {next - 1, next} \cap Nat :
             /\ stdout = Whole(n)
             /\ pc = "next" \/ status \in {"0", "1"} => n = next

\* The exit status sums up all inputs (grep.go:127-233): 2 when one of them
\* could not be read or a limit was met, 0 when a line was selected, 1 when
\* none was; a directory is no error, and with -q a selected line comes first.
OverLimit == \/ ~Fits(budget) \/ ~InBudget(trav)
             \/ ~(Len(loop.pending) <= MaxContext)
StatusTruth ==
    LET inputs == IF Implicit THEN {Piped} ELSE {Lines(k) : k \in 1..next}
        failed == (\E k \in 1..next : found[k] = "missing")
                  \/ \E l \in inputs : Faults(l) # {}
        hit == \E l \in inputs : Faults(l) = {} /\ SelectedLines(l) # {}
    IN status \in {"0", "1", "2"} /\ ~Refused =>
         status = IF OverLimit THEN "2"
                  ELSE IF hit /\ On("quiet") /\ ~\E l \in inputs : Faults(l) \cap {TooLong, Runaway} # {}
                    THEN "0"
                  ELSE IF failed THEN "2" ELSE IF hit THEN "0" ELSE "1"

\* The files grep -r is to search below path p of a tree d.
Wanted(d, p) ==
    {q \in DOMAIN d :
       LET from == Len(p)
           dirs == {SubSeq(q, 1, i) : i \in from..(Len(q) - 1)}
       IN /\ IsPrefix(p, q) /\ ~d[q].dir /\ AcceptFile(q)
          /\ Len(q) - from < MaxDepth
          /\ \A i \in (from + 1)..Len(q) : q[i] # Hidden
          /\ \A dir \in dirs : Base(dir) \notin o.excludeDir}

\* No call on the way to q fails.
Sure(q) == \A i \in 0..Len(q) : SubSeq(q, 1, i) \notin job.faulty

\* The tree changes under walkFiles: every file that is there all the time is
\* searched, unless a Stat or ReadDir on the way to it may fail, none that was
\* never there, in order, and only a "-" of the command line stands for standard
\* input, never a file of that name (childPath).
EntriesTruth ==
    LET roots == {ResolvePath(op.path) : op \in {op \in ToSet(job.operands) : op.path # Stdin}}
        files == [k \in DOMAIN entries |-> ResolvePath(entries[k])]
        within(d) == UNION {Wanted(d, p) : p \in roots}
    IN On("recursive") /\ pc \notin {"start", "collect"} /\ ~OverLimit /\ ~Refused
       /\ status # "cancelled" /\ (\A op \in ToSet(job.operands) : op.glob = "no")
       => /\ {q \in within(disk) : Sure(q)} \subseteq {files[k] : k \in DOMAIN files}
          /\ \A k \in DOMAIN files :
               \/ entries[k] # Stdin /\ files[k] \in within(job.disk)
               \/ entries[k] = Stdin /\ \E op \in ToSet(job.operands) : op.path = Stdin
          /\ Len(job.operands) = 1 =>
               \A k \in 2..Len(files) : Before(files[k - 1], files[k])
=============================================================================
