-------------------------------- MODULE Diff --------------------------------
(***************************************************************************)
(* One diff command: Exec, diffFiles, diffDirs, filesEqual and the five    *)
(* writers of command/internal/diff/diff.go, while another job rewrites or *)
(* removes files between the reads and calls on some paths may fail.       *)
(*                                                                         *)
(* A line is [t, v, nl]: its text, how it is spelled (case and blanks,     *)
(* which -i and -b ignore), and whether it ends in a newline.  The matcher *)
(* is an external library: any alignment of equal lines is a possible      *)
(* answer of it.  A range lo,hi is kept as two numbers; names, time stamps *)
(* and layout are left out.  Every read of a file is a step.  A directory  *)
(* that is gone is an error to osfs and an empty listing to s3fs, where    *)
(* every directory is taken to have a placeholder.                         *)
(***************************************************************************)
EXTENDS Integers, Sequences, FiniteSets, SequencesExt

CONSTANT Jobs  \* [left, right, format, context, ignore, brief, same,
               \*  recursive, stdin, disk, changes, faulty]: changes are the
               \*  paths another job may touch, faulty those at which any call
               \*  may fail (for a permission, a lost request)

Dash == <<-1>>      \* the operand "-", standard input; names are numbers
Path == Seq(Nat)
File == [dir : BOOLEAN, lines : Seq([t : Nat, v : Nat, nl : BOOLEAN])]
Formats == {"normal", "ed", "forward", "unified", "context"}

\* A tree has finitely many paths, and what has something below it is a directory.
ASSUME DiffAssumption ==
    \A j \in Jobs :
      /\ j.left \in Path \cup {Dash} /\ j.right \in Path \cup {Dash}
      /\ j.recursive \in BOOLEAN /\ j.brief \in BOOLEAN
      /\ j.faulty \subseteq Path \cup {Dash}
      /\ DOMAIN j.disk \subseteq Path /\ IsFiniteSet(DOMAIN j.disk)
      /\ \A p \in DOMAIN j.disk : j.disk[p] \in File
      /\ \A p \in DOMAIN j.disk : \A n \in 0..(Len(p) - 1) :
           SubSeq(p, 1, n) \in DOMAIN j.disk /\ j.disk[SubSeq(p, 1, n)].dir

VARIABLES
    job, disk,
    stdin,     \* lines of standard input not read yet
    touched,   \* paths another job has changed
    pc,
    todo,      \* pairs of paths still to compare
    names,     \* names of the left directory, once it is read
    pre,       \* what filesEqual has read
    a, b,      \* what diffFiles has read
    differed,
    out,       \* what was printed
    status

vars == <<job, disk, stdin, touched, pc, todo, names, pre, a, b, differed, out, status>>
-----------------------------------------------------------------------------
(* Lines, and the answers of difflib *)
Normalize(l) == IF job.ignore THEN [l EXCEPT !.v = 0] ELSE l
Same(x, y) == /\ Len(x) = Len(y)
              /\ \A i \in DOMAIN x : Normalize(x[i]) = Normalize(y[i])

\* Pairs of lines taken for equal, increasing on both sides.
Alignments(x, y) ==
    LET equal == {p \in (DOMAIN x) \X (DOMAIN y) : Normalize(x[p[1]]) = Normalize(y[p[2]])}
    IN {M \in SUBSET equal : \A p, q \in M : p # q => (p[1] < q[1]) = (p[2] < q[2])
                                                     /\ p[1] # q[1] /\ p[2] # q[2]}

\* GetOpCodes: runs of equal lines, and what is between them.
Op(tag, i1, i2, j1, j2) == [tag |-> tag, i1 |-> i1, i2 |-> i2, j1 |-> j1, j2 |-> j2]
Gap(i1, i2, j1, j2) ==
    IF i1 = i2 /\ j1 = j2 THEN <<>>
    ELSE <<Op(IF i1 = i2 THEN "i" ELSE IF j1 = j2 THEN "d" ELSE "r", i1, i2, j1, j2)>>
OpCodes(x, y, M) ==
    LET pairs == SetToSortSeq(M, LAMBDA p, q : p[1] < q[1])
        add(ops, p) ==
          LET i == IF ops = <<>> THEN 0 ELSE Last(ops).i2
              j == IF ops = <<>> THEN 0 ELSE Last(ops).j2
          IN IF ops # <<>> /\ Last(ops).tag = "e" /\ i = p[1] - 1 /\ j = p[2] - 1
               THEN Append(Front(ops), [Last(ops) EXCEPT !.i2 = p[1], !.j2 = p[2]])
               ELSE ops \o Gap(i, p[1] - 1, j, p[2] - 1) \o <<Op("e", p[1] - 1, p[1], p[2] - 1, p[2])>>
        ops == FoldLeft(add, <<>>, pairs)
        i == IF ops = <<>> THEN 0 ELSE Last(ops).i2
        j == IF ops = <<>> THEN 0 ELSE Last(ops).j2
    IN ops \o Gap(i, Len(x), j, Len(y))

\* GetGroupedOpCodes: changes with at most n equal lines around them.
Front0(c, n) == [c EXCEPT !.i2 = Min({c.i2, c.i1 + n}), !.j2 = Min({c.j2, c.j1 + n})]
Back0(c, n) == [c EXCEPT !.i1 = Max({c.i1, c.i2 - n}), !.j1 = Max({c.j1, c.j2 - n})]
GroupedOpCodes(ops, n) ==
    LET trim(k) == LET c == ops[k]
                       d == IF k = 1 /\ c.tag = "e" THEN Back0(c, n) ELSE c
                   IN IF k = Len(ops) /\ d.tag = "e" THEN Front0(d, n) ELSE d
        codes == [k \in DOMAIN ops |-> trim(k)]
        add(gs, c) ==
          IF c.tag = "e" /\ c.i2 - c.i1 > n + n
            THEN Append(Append(Front(gs), Append(Last(gs), Front0(c, n))), <<Back0(c, n)>>)
            ELSE Append(Front(gs), Append(Last(gs), c))
        groups == FoldLeft(add, << <<>> >>, codes)
    IN SelectSeq(groups, LAMBDA g : g # <<>> /\ ~(Len(g) = 1 /\ g[1].tag = "e"))
-----------------------------------------------------------------------------
(* The writers *)
Part(s, lo, hi) == SubSeq(s, lo + 1, hi)
Marked(mark, s) == [k \in DOMAIN s |-> [mark |-> mark, line |-> s[k]]]
WithNL(s) == [k \in DOMAIN s |-> [s[k] EXCEPT !.nl = TRUE]]
Changes(ops) == SelectSeq(ops, LAMBDA c : c.tag # "e")
Letter(c) == CASE c.tag = "r" -> "c" [] c.tag = "d" -> "d" [] c.tag = "i" -> "a"

\* The range of lines lo+1..hi, or the line an insertion follows.
RangeOf(lo, hi) == IF lo = hi THEN <<lo, lo>> ELSE <<lo + 1, hi>>

WriteNormal(x, y, ops) ==
    LET cs == Changes(ops) IN
    [k \in DOMAIN cs |-> [cmd |-> Letter(cs[k]), range |-> RangeOf(cs[k].i1, cs[k].i2),
                          to |-> RangeOf(cs[k].j1, cs[k].j2),
                          old |-> Part(x, cs[k].i1, cs[k].i2),
                          new |-> Part(y, cs[k].j1, cs[k].j2)]]

\* A body is followed by a line "."; a last line without newline gets one.
EdHunk(c, y) == [cmd |-> Letter(c), range |-> RangeOf(c.i1, c.i2),
                 new |-> WithNL(Part(y, c.j1, c.j2))]
WriteForwardEd(y, ops) == LET cs == Changes(ops) IN [k \in DOMAIN cs |-> EdHunk(cs[k], y)]

\* Mutant: the ed script runs from top to bottom.
WriteEd_Forward(y, ops) == WriteForwardEd(y, ops)
WriteEd(y, ops) == Reverse(WriteForwardEd(y, ops))

UnifiedBody(x, y, g) ==
    FlattenSeq([k \in DOMAIN g |->
      LET c == g[k] IN
      IF c.tag = "e" THEN Marked(" ", Part(x, c.i1, c.i2))
      ELSE Marked("-", Part(x, c.i1, c.i2)) \o Marked("+", Part(y, c.j1, c.j2))])
\* unifiedRange: start and count; a range without lines names the line before.
UnifiedRange(start, count) == IF count = 0 THEN <<start, 0>> ELSE <<start + 1, count>>
WriteUnified(x, y, groups) ==
    [k \in DOMAIN groups |->
       LET g == groups[k] IN
       [from |-> UnifiedRange(g[1].i1, Last(g).i2 - g[1].i1),
        to |-> UnifiedRange(g[1].j1, Last(g).j2 - g[1].j1),
        body |-> UnifiedBody(x, y, g)]]

\* A side without changes is left out of a context hunk.
Side(s, g, skip, lo, hi, mark) ==
    IF \A k \in DOMAIN g : g[k].tag \in {"e", skip} THEN <<>>
    ELSE FlattenSeq([k \in DOMAIN g |->
           LET c == g[k] IN
           IF c.tag = skip THEN <<>>
           ELSE Marked(CASE c.tag = "e" -> " " [] c.tag = "r" -> "!" [] OTHER -> mark,
                       Part(s, c[lo], c[hi]))])
WriteContext(x, y, groups) ==
    [k \in DOMAIN groups |->
       LET g == groups[k] IN
       [from |-> RangeOf(g[1].i1, Last(g).i2), to |-> RangeOf(g[1].j1, Last(g).j2),
        old |-> Side(x, g, "i", "i1", "i2", "-"),
        new |-> Side(y, g, "d", "j1", "j2", "+")]]

Script(x, y, M) ==
    LET ops == OpCodes(x, y, M)
        groups == GroupedOpCodes(ops, job.context)
    IN CASE job.format = "normal" -> WriteNormal(x, y, ops)
         [] job.format = "ed" -> WriteEd(y, ops)
         [] job.format = "forward" -> WriteForwardEd(y, ops)
         [] job.format = "unified" -> WriteUnified(x, y, groups)
         [] job.format = "context" -> WriteContext(x, y, groups)
-----------------------------------------------------------------------------
(* The command *)
Exists(p) == p \in DOMAIN disk
IsDirectory(p) == p # Dash /\ Exists(p) /\ disk[p].dir
Readable(p) == p = Dash \/ (Exists(p) /\ ~disk[p].dir)
\* A read may fail also if the file is there.
Fails(p) == ~Readable(p) \/ p \in job.faulty
\* The answers of isDirectory where its error is dropped: FALSE if Stat fails.
SeenAsDirectory(p) == {IsDirectory(p)} \cup IF p \in job.faulty THEN {FALSE} ELSE {}
Content(p) == IF p = Dash THEN stdin ELSE disk[p].lines
NamesIn(d, p) == {Last(q) : q \in {q \in DOMAIN d : Len(q) = Len(p) + 1 /\ IsPrefix(p, q)}}
\* A finite set of names in order: there is one way to list it.
Sortings(S) ==
    {s \in [1..Cardinality(S) -> S] :
        ToSet(s) = S /\ \A i, k \in 1..Cardinality(S) : i < k => s[i] < s[k]}

Pair(what, p1, p2) == [what |-> what, p1 |-> p1, p2 |-> p2]
Current == Head(todo)
Say(event) == out' = Append(out, event)
Ends(s) == pc' = "done" /\ status' = s
world == <<job, disk, touched>>

Init ==
    /\ job \in Jobs /\ disk = job.disk /\ stdin = job.stdin /\ touched = {}
    /\ pc = "start" /\ todo = <<>> /\ names = {} /\ pre = <<>> /\ a = <<>> /\ b = <<>>
    /\ differed = FALSE /\ out = <<>> /\ status = "running"

\* Exec: a directory and a file are the file and the one of its name in there.
Start ==
    /\ pc = "start"
    /\ LET l == job.left
           r == job.right
           base(p) == IF p = <<>> THEN p ELSE <<Last(p)>>
           missing == {p \in {l, r} : p # Dash /\ ~Exists(p)}
       IN \/ /\ missing # {} \/ \E p \in {l, r} : p # Dash /\ p \in job.faulty
             /\ Ends("2") /\ UNCHANGED todo
          \/ /\ missing = {}
             /\ pc' = IF IsDirectory(l) /\ IsDirectory(r) THEN "dir" ELSE "read"
             /\ todo' = <<Pair("both", IF IsDirectory(l) /\ ~IsDirectory(r) THEN l \o base(r) ELSE l,
                               IF IsDirectory(r) /\ ~IsDirectory(l) THEN r \o base(l) ELSE r)>>
             /\ UNCHANGED status
    /\ UNCHANGED <<world, stdin, names, pre, a, b, differed, out>>

\* diffDirs: the names on the left, then those on the right.
Unlisted(p) == ~IsDirectory(p) \/ p \in job.faulty
ReadLeft ==
    /\ pc = "dir"
    /\ \/ names' = NamesIn(disk, Current.p1) /\ pc' = "dir2" /\ UNCHANGED status
       \/ Unlisted(Current.p1) /\ Ends("2") /\ UNCHANGED names
    /\ UNCHANGED <<world, stdin, todo, pre, a, b, differed, out>>
\* Mutant: only the names on the left are looked at.
UnionNames_Left(left, right) == left
UnionNames(left, right) == left \cup right
ReadRight ==
    /\ pc = "dir2"
    /\ LET right == NamesIn(disk, Current.p2)
           what(n) == IF n \notin right THEN "left only"
                      ELSE IF n \notin names THEN "right only" ELSE "both"
       IN \/ /\ \E all \in Sortings(UnionNames(names, right)) :
                  todo' = [k \in DOMAIN all |->
                             Pair(what(all[k]), Append(Current.p1, all[k]), Append(Current.p2, all[k]))]
                          \o Tail(todo)
             /\ pc' = "next" /\ UNCHANGED status
          \/ Unlisted(Current.p2) /\ Ends("2") /\ UNCHANGED todo
    /\ UNCHANGED <<world, stdin, names, pre, a, b, differed, out>>

\* One name: said at once, or read as a directory, or compared as a file.
NextName ==
    /\ pc = "next" /\ todo # <<>>
    /\ \E d1 \in SeenAsDirectory(Current.p1), d2 \in SeenAsDirectory(Current.p2) :
          \/ /\ Current.what # "both"
             /\ Say(Current) /\ differed' = TRUE /\ todo' = Tail(todo) /\ UNCHANGED pc
          \/ /\ Current.what = "both" /\ d1 /\ d2 /\ job.recursive
             /\ pc' = "dir" /\ UNCHANGED <<todo, differed, out>>
          \/ /\ Current.what = "both" /\ d1 /\ d2 /\ ~job.recursive
             /\ Say(Pair("common", Current.p1, Current.p2))
             /\ todo' = Tail(todo) /\ UNCHANGED <<pc, differed>>
          \/ /\ Current.what = "both" /\ d1 # d2
             /\ Say(Pair("kinds", Current.p1, Current.p2))
             /\ differed' = TRUE /\ todo' = Tail(todo) /\ UNCHANGED pc
          \/ /\ Current.what = "both" /\ ~d1 /\ ~d2
             /\ pc' = "equal" /\ UNCHANGED <<todo, differed, out>>
    /\ UNCHANGED <<world, stdin, names, pre, a, b, status>>

\* filesEqual reads both files once to decide about the header; what it cannot
\* read counts as different.
Header == IF job.brief THEN UNCHANGED out ELSE Say(Pair("diff", Current.p1, Current.p2))
EqualLeft ==
    /\ pc = "equal"
    /\ \/ /\ Readable(Current.p1)
          /\ pre' = Content(Current.p1) /\ pc' = "equal2" /\ UNCHANGED out
       \/ Fails(Current.p1) /\ Header /\ pc' = "read" /\ UNCHANGED pre
    /\ UNCHANGED <<world, stdin, todo, names, a, b, differed, status>>
\* Mutant: the header is printed for equal files too.
SameAsRead_Never == FALSE
SameAsRead == Readable(Current.p2) /\ Same(pre, Content(Current.p2))
EqualRight ==
    /\ pc = "equal2"
    /\ \/ SameAsRead /\ UNCHANGED out
       \/ (~SameAsRead \/ Current.p2 \in job.faulty) /\ Header
    /\ pc' = "read"
    /\ UNCHANGED <<world, stdin, todo, names, pre, a, b, differed, status>>

\* diffFiles reads them again; one that cannot be read ends the command.
\* Standard input is read to its end the first time.
ReadA ==
    /\ pc = "read"
    /\ \/ /\ Readable(Current.p1)
          /\ a' = Content(Current.p1) /\ pc' = "read2" /\ UNCHANGED status
          /\ stdin' = IF Current.p1 = Dash THEN <<>> ELSE stdin
       \/ Fails(Current.p1) /\ Ends("2") /\ UNCHANGED <<a, stdin>>
    /\ UNCHANGED <<world, todo, names, pre, b, differed, out>>
ReadB ==
    /\ pc = "read2"
    /\ \/ /\ Readable(Current.p2)
          /\ b' = Content(Current.p2) /\ pc' = "write" /\ UNCHANGED status
          /\ stdin' = IF Current.p2 = Dash THEN <<>> ELSE stdin
       \/ Fails(Current.p2) /\ Ends("2") /\ UNCHANGED <<b, stdin>>
    /\ UNCHANGED <<world, todo, names, pre, a, differed, out>>
Write ==
    /\ pc = "write"
    /\ \/ /\ Same(a, b)
          /\ IF job.same THEN Say(Pair("identical", Current.p1, Current.p2)) ELSE UNCHANGED out
          /\ UNCHANGED differed
       \/ /\ ~Same(a, b) /\ job.brief
          /\ Say(Pair("differ", Current.p1, Current.p2)) /\ differed' = TRUE
       \/ /\ ~Same(a, b) /\ ~job.brief
          /\ \E M \in Alignments(a, b) :
               Say([what |-> "script", p1 |-> Current.p1, p2 |-> Current.p2,
                    a |-> a, b |-> b, text |-> Script(a, b, M)])
          /\ differed' = TRUE
    /\ pc' = "next" /\ todo' = Tail(todo)
    /\ UNCHANGED <<world, stdin, names, pre, a, b, status>>

AllDone ==
    /\ pc = "next" /\ todo = <<>>
    /\ Ends(IF differed THEN "1" ELSE "0")
    /\ UNCHANGED <<world, stdin, todo, names, pre, a, b, differed, out>>

\* Another job removes a path with all that is below it, or writes one line to
\* a file.
Interfere ==
    /\ pc # "done"
    /\ \E p \in (job.changes \ touched) \cap DOMAIN disk :
         \/ LET gone == {q \in DOMAIN disk : IsPrefix(p, q)}
            IN disk' = [q \in DOMAIN disk \ gone |-> disk[q]] /\ touched' = touched \cup gone
         \/ /\ ~disk[p].dir /\ touched' = touched \cup {p}
            /\ disk' = [disk EXCEPT ![p].lines = <<[t |-> 1, v |-> 0, nl |-> TRUE]>>]
    /\ UNCHANGED <<job, stdin, pc, todo, names, pre, a, b, differed, out, status>>

Over == pc = "done" /\ UNCHANGED vars
Next == \/ Start \/ ReadLeft \/ ReadRight \/ NextName \/ EqualLeft \/ EqualRight
        \/ ReadA \/ ReadB \/ Write \/ AllDone \/ Interfere \/ Over
Spec == Init /\ [][Next]_vars
-----------------------------------------------------------------------------
(* Properties *)

\* A list of changes by line number, each said of the lines as they were.
ByNumber(x, cmds) ==
    LET gone(i) == \E k \in DOMAIN cmds : /\ cmds[k].cmd # "a"
                                          /\ i \in cmds[k].range[1]..cmds[k].range[2]
        after(i) == FlattenSeq([k \in DOMAIN cmds |->
                      IF cmds[k].cmd # "d" /\ cmds[k].range[2] = i THEN cmds[k].new ELSE <<>>])
    IN after(0) \o FlattenSeq([i \in DOMAIN x |-> (IF gone(i) THEN <<>> ELSE <<x[i]>>) \o after(i)])

\* ed carries its commands out one after the other.
EdStep(x, c) ==
    LET lo == IF c.cmd = "a" THEN c.range[1] ELSE c.range[1] - 1
    IN SubSeq(x, 1, lo) \o (IF c.cmd = "d" THEN <<>> ELSE c.new)
       \o SubSeq(x, c.range[2] + 1, Len(x))

\* patch on hunks with context: the old lines must be there, and the line
\* numbers of the other side must be those of the result.
LinesOf(body, marks) ==
    LET keep == SelectSeq(body, LAMBDA l : l.mark \in marks)
    IN [k \in DOMAIN keep |-> keep[k].line]
Replaces(lo, n, new) == [cmd |-> IF n = 0 THEN "a" ELSE "c",
                         range |-> IF n = 0 THEN <<lo, lo>> ELSE <<lo + 1, lo + n>>, new |-> new]
UnifiedLine(r) == IF r[2] = 0 THEN r[1] ELSE r[1] - 1
UnifiedFits(x, hunks) ==
    LET shift(k) == MapThenSumSet(LAMBDA m : hunks[m].to[2] - hunks[m].from[2], 1..(k - 1)) IN
    \A k \in DOMAIN hunks :
      LET h == hunks[k]
          lo == UnifiedLine(h.from)
          old == LinesOf(h.body, {" ", "-"})
      IN /\ Len(old) = h.from[2] /\ old = SubSeq(x, lo + 1, lo + h.from[2])
         /\ Len(LinesOf(h.body, {" ", "+"})) = h.to[2]
         /\ UnifiedLine(h.to) = lo + shift(k)
UnifiedPatch(x, hunks) ==
    ByNumber(x, [k \in DOMAIN hunks |->
      Replaces(UnifiedLine(hunks[k].from), hunks[k].from[2], LinesOf(hunks[k].body, {" ", "+"}))])
ContextPatch(x, hunks) ==
    ByNumber(x, [k \in DOMAIN hunks |->
      LET h == hunks[k]
          n == IF h.old = <<>> THEN Len(LinesOf(h.new, {" "})) ELSE Len(h.old)
          new == IF h.new = <<>> THEN LinesOf(h.old, {" "}) ELSE LinesOf(h.new, {" ", "!", "+"})
      IN Replaces(IF n = 0 THEN h.from[1] ELSE h.from[1] - 1, n, new)])

\* Whichever alignment the matcher chose, the printed script turns the left
\* file into the right one: ed in the order printed, the others by their line
\* numbers and context (ed writes whole lines; no text here is a lone period,
\* which would end a body of ed early).
ScriptApplies(x, y, text) ==
    CASE job.format = "normal" -> Same(ByNumber(x, text), y)
      [] job.format = "forward" -> Same(WithNL(ByNumber(x, text)), WithNL(y))
      [] job.format = "ed" -> Same(WithNL(FoldLeft(EdStep, x, text)), WithNL(y))
      [] job.format = "unified" -> UnifiedFits(x, text) /\ Same(UnifiedPatch(x, text), y)
      [] job.format = "context" -> Same(ContextPatch(x, text), y)
ScriptsApply ==
    \A k \in DOMAIN out : out[k].what = "script" => ScriptApplies(out[k].a, out[k].b, out[k].text)

\* Two trees differ below a pair of paths that nobody has changed.
Relative(d, p) == {SubSeq(q, Len(p) + 1, Len(q)) : q \in {q \in DOMAIN d : IsPrefix(p, q)}}
DiffersAt(d, p1, p2, q) ==
    LET in1 == (p1 \o q) \in DOMAIN d
        in2 == (p2 \o q) \in DOMAIN d
    IN \/ in1 # in2
       \/ /\ in1 /\ in2
          /\ \/ d[p1 \o q].dir # d[p2 \o q].dir
             \/ ~d[p1 \o q].dir /\ ~Same(d[p1 \o q].lines, d[p2 \o q].lines)
Compared == {q \in Relative(job.disk, job.left) \cup Relative(job.disk, job.right) :
               q # <<>> /\ (job.recursive \/ Len(q) = 1)}
Settled(q) == (job.left \o q) \notin touched /\ (job.right \o q) \notin touched

\* The exit status of a comparison of directories is that of all of it: 0 only
\* if no two paths that stayed as they were differ, whatever other jobs do and
\* whichever call fails; and if nobody interferes and no call fails, 1 exactly if
\* some differ and never 2 (diff.go:240-334).
DirStatus ==
    LET dirs == \A p \in {job.left, job.right} : p \in DOMAIN job.disk /\ job.disk[p].dir
        differs(q) == DiffersAt(job.disk, job.left, job.right, q)
    IN pc = "done" /\ dirs =>
         /\ status = "0" => \A q \in Compared : Settled(q) => ~differs(q)
         /\ touched \cup job.faulty = {} =>
              status = IF \E q \in Compared : differs(q) THEN "1" ELSE "0"

\* In a directory the header "diff X Y" stands before every script and before
\* nothing else, unless X or Y changed between filesEqual and diffFiles or cannot
\* be relied on to be read (diff.go:310-334, 338-360).
HeaderTruth ==
    pc = "next" /\ ~job.brief /\ job.left \in DOMAIN job.disk /\ job.disk[job.left].dir
    /\ job.right \in DOMAIN job.disk /\ job.disk[job.right].dir =>
      \A k \in DOMAIN out :
        {out[k].p1, out[k].p2} \cap (touched \cup job.faulty) = {} =>
          /\ out[k].what = "script" => k > 1 /\ out[k - 1] = Pair("diff", out[k].p1, out[k].p2)
          /\ out[k].what = "diff" => k < Len(out) /\ out[k + 1].what = "script"
=============================================================================
