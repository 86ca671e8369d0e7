-------------------------------- MODULE Find --------------------------------
(***************************************************************************)
(* One find command: Exec, the walker and apply of                         *)
(* command/internal/find/find.go, while another job removes and creates    *)
(* entries and the command's context may be cancelled.                     *)
(*                                                                         *)
(* The recursion of visit and visitChildren is the work list todo; a step  *)
(* makes at most one call on the file system (an Lstat and the ReadDir     *)
(* after it in deleteEntry are one step), and each may fail.  The file     *)
(* system is osfs or s3fs; on s3fs a directory is there only while an      *)
(* object is below it, a placeholder of its own included, and Remove of    *)
(* one does nothing (s3fs/basic.go:215-234, dir.go:19-76).  A name is a    *)
(* sequence of numbers (characters), a path a sequence of names, a         *)
(* starting point a path.                                                  *)
(* Symbolic links (-H) and the text of -printf are left out.  Output is    *)
(* flushed before diagnostics and commands (find.go:474-477, 515, 535),     *)
(* so the three are one sequence of events.                                *)
(***************************************************************************)
EXTENDS FindExpr

\* A job is [words, starts, store, disk, kept, faulty, changes, faults, runner,
\* contexts]: the command line, the file system and its tree, the directories
\* with a placeholder, the paths at which any call may fail (for a permission, a
\* lost request), the paths another job may remove or create, what else may fail,
\* whether commands can be run, and entries to try the expression on.
CONSTANT Jobs

ASSUME FindAssumption ==
    \A j \in Jobs :
       /\ \A p \in DOMAIN j.disk \ {<<>>} : j.disk[Front(p)].dir
       /\ j.faults \subseteq {"cancel", "exec"} /\ j.store \in {"osfs", "s3fs"}
       /\ j.store = "s3fs" =>
            \A p \in DOMAIN j.disk :
               /\ j.disk[p].lock # "denied"
               /\ \/ p = <<>>
                  \/ \E q \in DOMAIN j.disk :
                        IsPrefix(p, q) /\ (~j.disk[q].dir \/ q \in j.kept)

VARIABLES
    job,      \* the command line, and what may happen to it
    disk,     \* paths that exist |-> [dir, attr, dev, lock]
    touched,  \* paths another job has removed or created
    pc,       \* where Exec is
    opts,     \* options
    expr,     \* the expression
    todo,     \* nodes still to visit
    effects,  \* walker.effects
    tested,   \* history: the entries evaluated, in order
    next,     \* effects applied so far
    batches,  \* -exec + actions met, with their paths
    events,   \* what was printed, warned about, executed
    exitCode,
    status

vars == <<job, disk, touched, pc, opts, expr, todo, effects, tested, next,
          batches, events, exitCode, status>>
Diag(p) == [act |-> Nil, path |-> p]
PrintIt == [k |-> "-print"]
-----------------------------------------------------------------------------
(* The file system *)
Exists(p) == p \in DOMAIN disk
NameLess(a, b) == \/ IsStrictPrefix(a, b)
                  \/ \E i \in DOMAIN a \cap DOMAIN b :
                        a[i] < b[i] /\ SubSeq(a, 1, i - 1) = SubSeq(b, 1, i - 1)
NamesIn(d, p) == {Last(q) : q \in {q \in DOMAIN d : Len(q) = Len(p) + 1 /\ IsPrefix(p, q)}}

\* What a tree keeps of some of its paths: on s3fs a directory goes when nothing
\* is left below it, unless it has a placeholder or is the root.
Kept(paths, d) ==
    LET held == {q \in paths : ~d[q].dir \/ q \in job.kept \cup {<<>>}}
    IN IF job.store = "osfs" THEN paths
       ELSE {q \in paths : \E h \in held : IsPrefix(q, h)}
Without(gone) == [q \in Kept(DOMAIN disk \ gone, disk) |-> disk[q]]

\* How a ReadDir may fail at a path at which calls may fail: s3fs's errors are
\* none that unreadableReason knows.
Flaws(p) ==
    {"no"} \cup IF p \notin job.faulty THEN {}
                 ELSE IF job.store = "osfs" THEN {"unreadable", "fatal"} ELSE {"fatal"}

\* A node: info is what Lstat or the listing said; names and reading hold what
\* readDir found: "no" before it, then "ok", "unreadable" or "fatal".
Item(do, start, p, depth, info) ==
    [do |-> do, path |-> p, start |-> start, depth |-> depth, info |-> info,
     reading |-> "no", names |-> <<>>]

\* On s3fs what is no directory, or no more, has an empty listing.
ReadDir(n, flaw) ==
    LET there == Exists(n.path) /\ disk[n.path].dir
        lock == IF there THEN disk[n.path].lock ELSE "no"
    IN IF n.reading # "no" THEN n
       ELSE IF flaw # "no" THEN [n EXCEPT !.reading = flaw]
       ELSE IF lock = "denied" \/ (job.store = "osfs" /\ ~there)
         THEN [n EXCEPT !.reading = "unreadable"]
       ELSE IF lock = "lost" THEN [n EXCEPT !.reading = "fatal"]
       ELSE [n EXCEPT !.reading = "ok",
                      !.names = SetToSortSeq(NamesIn(disk, n.path), NameLess)]

HasAction == ActionsOf(expr) # <<>>
NeedStat == NeedsStat(expr) \/ opts.xdev
\* Mutant: -maxdepth counts one level too many.
AtMax_OneMore(n) == opts.maxDepth >= 0 /\ n.depth > opts.maxDepth
AtMax(n) == opts.maxDepth >= 0 /\ n.depth >= opts.maxDepth
OtherDevice(n) == opts.xdev /\ n.info.dev # n.start.dev

\* evaluate: the actions reached, whether -prune fired, and the node, whose
\* directory an -empty test may have read.
Evaluate(n, flaw) ==
    LET read == ReadDir(n, flaw)
        empty == IF n.info.dir THEN read.reading = "ok" /\ read.names = <<>>
                               ELSE n.info.attr = 0
        res == Eval(expr, [name |-> IF n.path = <<>> THEN <<>> ELSE Last(n.path),
                           dir |-> n.info.dir, attr |-> n.info.attr, empty |-> empty])
        shown(matches) == IF ~HasAction /\ matches THEN <<PrintIt>> ELSE <<>>
    IN IF n.depth < opts.minDepth THEN [node |-> n, acts |-> <<>>, pruned |-> FALSE]
       ELSE IF expr = Nil THEN [node |-> n, acts |-> <<PrintIt>>, pruned |-> FALSE]
       ELSE [node |-> IF res.reads /\ n.info.dir THEN read ELSE n,
             acts |-> res.actions \o shown(res.matches), pruned |-> res.pruned]

EffectsOf(n, acts) == [i \in DOMAIN acts |-> [act |-> acts[i], path |-> n.path]]
Diagnosis(n) == IF n.reading = "unreadable" THEN <<Diag(n.path)>> ELSE <<>>
TestedBy(n) == IF n.depth < opts.minDepth THEN <<>> ELSE <<n.path>>
Children(n) ==
    [i \in DOMAIN n.names |->
       LET p == Append(n.path, n.names[i])
       IN Item("child", n.start, p, n.depth + 1, disk[p])]
-----------------------------------------------------------------------------
Init ==
    /\ job \in Jobs /\ disk = job.disk /\ touched = {}
    /\ pc = "parse" /\ opts = NoOptions /\ expr = Nil /\ todo = <<>>
    /\ effects = <<>> /\ tested = <<>> /\ next = 0 /\ batches = <<>>
    /\ events = <<>> /\ exitCode = "0" /\ status = "running"

Ends(s) == pc' = "done" /\ status' = s
applied == <<next, batches, events, exitCode>>

\* Mutant: -delete leaves the order of the walk alone.
Deletes_Never(e) == FALSE
Deletes(e) == \E a \in ToSet(ActionsOf(e)) : a.k = "-delete"

\* Exec up to the walk: the expression is parsed before anything is read, and
\* -delete turns -depth on.
Parse ==
    /\ pc = "parse"
    /\ LET p == ParseExpression(job.words)
       IN /\ opts' = [p.opts EXCEPT !.depthFirst = @ \/ Deletes(p.expr)]
          /\ expr' = p.expr
          /\ \/ (p.opts.err \/ p.opts.help) /\ Ends(IF p.opts.err THEN "1" ELSE "0")
                /\ UNCHANGED todo
             \/ ~p.opts.err /\ ~p.opts.help /\ pc' = "walk" /\ UNCHANGED status
                /\ todo' = [i \in DOMAIN job.starts |->
                              Item("start", Nil, job.starts[i], 0, Nil)]
    /\ UNCHANGED <<job, disk, touched, effects, tested, applied>>

\* walkStart, and the Lstat of visitChildren, which is there only if a test needs
\* it: whatever its error, a start is reported as missing and a child skipped.
Look ==
    /\ pc = "walk" /\ todo # <<>> /\ Head(todo).do \in {"start", "child"}
    /\ LET n == Head(todo)
           asks == n.do = "start" \/ NeedStat
           info == IF asks THEN disk[n.path] ELSE n.info
           start == IF n.do = "start" THEN disk[n.path] ELSE n.start
       IN \/ /\ asks /\ (~Exists(n.path) \/ n.path \in job.faulty)
             /\ todo' = Tail(todo)
             /\ effects' = IF n.do = "start" THEN Append(effects, Diag(n.path)) ELSE effects
          \/ /\ Exists(n.path) \/ ~asks
             /\ todo' = <<Item("visit", start, n.path, n.depth, info)>> \o Tail(todo)
             /\ UNCHANGED effects
    /\ UNCHANGED <<job, disk, touched, pc, opts, expr, tested, applied, status>>

\* visit, without -depth: the entry, then its children.
VisitFirst ==
    /\ pc = "walk" /\ todo # <<>> /\ Head(todo).do = "visit" /\ ~opts.depthFirst
    /\ \E flaw \in Flaws(Head(todo).path) :
       LET n == Head(todo)
           res == Evaluate(n, flaw)
           descend == n.info.dir /\ ~res.pruned /\ ~AtMax(n) /\ ~OtherDevice(n)
           m == IF descend THEN ReadDir(res.node, flaw) ELSE res.node
       IN /\ tested' = tested \o TestedBy(n)
          /\ effects' = effects \o EffectsOf(n, res.acts) \o Diagnosis(m)
          /\ IF m.reading = "fatal"
               THEN Ends("fatal") /\ UNCHANGED todo
               ELSE /\ todo' = (IF descend THEN Children(m) ELSE <<>>) \o Tail(todo)
                    /\ UNCHANGED <<pc, status>>
    /\ UNCHANGED <<job, disk, touched, opts, expr, applied>>

\* visit, with -depth: the children, then the entry.
VisitLast ==
    /\ pc = "walk" /\ todo # <<>> /\ Head(todo).do = "visit" /\ opts.depthFirst
    /\ \E flaw \in Flaws(Head(todo).path) :
       LET n == Head(todo)
           m == IF n.info.dir /\ ~AtMax(n) /\ ~OtherDevice(n) THEN ReadDir(n, flaw) ELSE n
       IN IF m.reading = "fatal"
            THEN Ends("fatal") /\ UNCHANGED todo
            ELSE /\ todo' = Children(m) \o <<[m EXCEPT !.do = "post"]>> \o Tail(todo)
                 /\ UNCHANGED <<pc, status>>
    /\ UNCHANGED <<job, disk, touched, opts, expr, effects, tested, applied>>
VisitPost ==
    /\ pc = "walk" /\ todo # <<>> /\ Head(todo).do = "post"
    /\ \E flaw \in Flaws(Head(todo).path) :
       LET n == Head(todo)
           res == Evaluate(n, flaw)
       IN /\ tested' = tested \o TestedBy(n)
          /\ effects' = effects \o Diagnosis(res.node) \o EffectsOf(n, res.acts)
          /\ IF res.node.reading = "fatal"
               THEN Ends("fatal") /\ UNCHANGED todo
               ELSE todo' = Tail(todo) /\ UNCHANGED <<pc, status>>
    /\ UNCHANGED <<job, disk, touched, opts, expr, applied>>

\* Mutant: a command that is cancelled shows what it has found so far.
Cancelled_Applies ==
    /\ pc = "walk" /\ todo # <<>> /\ Head(todo).do = "visit"
    /\ "cancel" \in job.faults
    /\ pc' = "apply" /\ todo' = <<>> /\ status' = "cancelled"
    /\ UNCHANGED <<job, disk, touched, opts, expr, effects, tested, applied>>

\* visit looks at the context first; so does a command that is run.
Cancelled ==
    /\ pc = "walk" /\ todo # <<>> /\ Head(todo).do = "visit"
    /\ "cancel" \in job.faults
    /\ Ends("cancelled")
    /\ UNCHANGED <<job, disk, touched, opts, expr, todo, effects, tested, applied>>

\* apply refuses commands it cannot run before it does anything.
Execs(e) == e.act.k \in {"-exec", "-exec+"}
WalkEnd ==
    /\ pc = "walk" /\ todo = <<>>
    /\ IF ~job.runner /\ \E i \in DOMAIN effects : Execs(effects[i])
         THEN Ends("1") ELSE pc' = "apply" /\ UNCHANGED status
    /\ UNCHANGED <<job, disk, touched, opts, expr, todo, effects, tested, applied>>
-----------------------------------------------------------------------------
(* apply *)
Event(what, paths) == [what |-> what, paths |-> paths]
Current == effects[next + 1]
Applies == pc = "apply" /\ next < Len(effects)
walked == <<opts, expr, todo, effects, tested>>

Warn ==
    /\ Applies /\ Current.act = Nil
    /\ events' = Append(events, Event("warn", <<Current.path>>))
    /\ exitCode' = "1" /\ next' = next + 1
    /\ UNCHANGED <<job, disk, touched, pc, walked, batches, status>>
PrintPath ==
    /\ Applies /\ Current.act.k = "-print"
    /\ events' = Append(events, Event("print", <<Current.path>>))
    /\ next' = next + 1
    /\ UNCHANGED <<job, disk, touched, pc, walked, batches, exitCode, status>>

\* deleteEntry, up to its decision and then its Remove.
DeleteFails ==
    /\ events' = Append(events, Event("warn", <<Current.path>>))
    /\ exitCode' = "1" /\ next' = next + 1 /\ pc' = "apply"
DeleteLook ==
    /\ Applies /\ Current.act.k = "-delete"
    /\ LET p == Current.path
           allowed == Exists(p) /\ (disk[p].dir => disk[p].lock = "no" /\ NamesIn(disk, p) = {})
       IN \/ (~allowed \/ p \in job.faulty) /\ DeleteFails /\ UNCHANGED disk
          \/ allowed /\ pc' = "remove" /\ UNCHANGED <<disk, events, exitCode, next>>
    /\ UNCHANGED <<job, touched, walked, batches, status>>
\* Remove is external.  osfs takes a file or an empty directory and refuses what
\* is gone or is not empty; s3fs deletes the object of that name, if any, and so
\* leaves a directory as it is.  A request that fails may have been carried out.
Removed(p) ==
    IF job.store = "osfs" THEN Without({p})
    ELSE Without({q \in {p} \cap DOMAIN disk : ~disk[q].dir})
DeleteRemove ==
    /\ pc = "remove"
    /\ LET p == Current.path
           refused == job.store = "osfs" /\ (~Exists(p) \/ NamesIn(disk, p) # {})
       IN \/ /\ ~refused /\ disk' = Removed(p)
             /\ pc' = "apply" /\ next' = next + 1 /\ UNCHANGED <<events, exitCode>>
          \/ refused /\ DeleteFails /\ UNCHANGED disk
          \/ /\ p \in job.faulty /\ DeleteFails
             /\ disk' \in {disk} \cup IF job.store = "s3fs" THEN {Removed(p)} ELSE {}
    /\ UNCHANGED <<job, touched, walked, batches, status>>

\* runExec: the command's status, or an error that ends find.
RunExec(paths) ==
    \/ /\ events' = Append(events, Event("exec", paths))
       /\ exitCode' \in {exitCode} \cup IF "exec" \in job.faults THEN {"1"} ELSE {}
       /\ UNCHANGED <<pc, status>>
    \/ /\ "exec" \in job.faults
       /\ events' = Append(events, Event("exec", paths))
       /\ Ends("error") /\ UNCHANGED exitCode
Exec ==
    /\ Applies /\ Current.act.k = "-exec"
    /\ RunExec(<<Current.path>>)
    /\ next' = next + 1
    /\ UNCHANGED <<job, disk, touched, walked, batches>>

\* A batch keeps its paths; batches run in the order they were met.
Batch ==
    /\ Applies /\ Current.act.k = "-exec+"
    /\ LET seen == {i \in DOMAIN batches : batches[i].act = Current.act} IN
       batches' = IF seen = {}
                    THEN Append(batches, [act |-> Current.act, paths |-> <<Current.path>>])
                    ELSE [i \in DOMAIN batches |->
                            IF i \in seen
                              THEN [batches[i] EXCEPT !.paths = Append(@, Current.path)]
                              ELSE batches[i]]
    /\ next' = next + 1
    /\ UNCHANGED <<job, disk, touched, pc, walked, events, exitCode, status>>
RunBatch ==
    /\ pc = "apply" /\ next = Len(effects) /\ batches # <<>>
    /\ RunExec(Head(batches).paths)
    /\ batches' = Tail(batches)
    /\ UNCHANGED <<job, disk, touched, walked, next>>
AllDone ==
    /\ pc = "apply" /\ next = Len(effects) /\ batches = <<>>
    /\ Ends(exitCode)
    /\ UNCHANGED <<job, disk, touched, walked, applied>>
-----------------------------------------------------------------------------
\* Another job removes an entry with what is below it, or creates a file.  What
\* goes with the entry, on s3fs also from above it, counts as touched too.
Interfere ==
    /\ pc # "done"
    /\ \E p \in job.changes \ touched :
         /\ \/ /\ Exists(p)
               /\ disk' = Without({q \in DOMAIN disk : IsPrefix(p, q)})
            \/ /\ ~Exists(p) /\ Exists(Front(p)) /\ disk[Front(p)].dir
               /\ disk' = [q \in DOMAIN disk \cup {p} |->
                             IF q = p THEN [dir |-> FALSE, attr |-> 0, dev |-> 0, lock |-> "no"]
                                      ELSE disk[q]]
         /\ touched' = touched \cup {p} \cup (DOMAIN disk \ DOMAIN disk')
    /\ UNCHANGED <<job, pc, walked, applied, status>>

Over == pc = "done" /\ UNCHANGED vars
Next == \/ Parse \/ Look \/ VisitFirst \/ VisitLast \/ VisitPost \/ Cancelled \/ WalkEnd
        \/ Warn \/ PrintPath \/ DeleteLook \/ DeleteRemove \/ Exec \/ Batch \/ RunBatch
        \/ AllDone \/ Interfere \/ Over
Spec == Init /\ [][Next]_vars
-----------------------------------------------------------------------------
(* Properties *)
Min0 == opts.minDepth
First == job.disk

\* Whatever the words, parseExpression accepts what can be cut into predicates
\* with their operands and has an expression tree, gives the tree of find's
\* precedence, and refuses a negated -delete (parser.go:120-303, 415-527).
ParseIsReference ==
    LET o == Scan(job.words, 1, NoOptions)
        p == ParseExpression(job.words)
        t == TreeOf(o.tokens)
        good == o.tokens = <<>> \/ (t # Nil /\ 1 \notin Negations(t, 0))
    IN pc = "parse" /\ ~o.help =>
         /\ ScanAgrees(job.words, o)
         /\ ~o.err => /\ p.opts.err = ~good
                      /\ good => p.expr = t

\* eval gives the truth of the expression, and the actions and the -prune on
\* the way to it, with every leaf that short-circuiting leaves out left out;
\* matchGlob finds a match if there is one (matcher.go:37-111, 219-273).
EvalIsReference ==
    LET e == ParseExpression(job.words).expr IN
    pc = "parse" /\ e # Nil =>
      \A c \in job.contexts :
        LET v == Eval(e, c)
            on == Reached(e, c)
        IN /\ v.matches = Truth(e, c)
           /\ v.actions = SelectSeq(on, LAMBDA l : l.k \in Actions)
           /\ v.pruned = \E i \in DOMAIN on : on[i].k = "-prune"

\* What the expression says of entry p of the tree the command began with.
ContextOf(p) ==
    [name |-> IF p = <<>> THEN <<>> ELSE Last(p), dir |-> First[p].dir, attr |-> First[p].attr,
     empty |-> IF First[p].dir THEN First[p].lock = "no" /\ NamesIn(First, p) = {}
                               ELSE First[p].attr = 0]
ReachedAt(p) == IF expr = Nil THEN <<>> ELSE Reached(expr, ContextOf(p))
ActsAt(p) == LET acts == SelectSeq(ReachedAt(p), LAMBDA l : l.k \in Actions)
             IN IF HasAction THEN acts
                ELSE IF expr = Nil THEN <<PrintIt>>
                ELSE IF Truth(expr, ContextOf(p)) THEN <<PrintIt>> ELSE <<>>

\* The entries below start that are to be tested.
Enters(start, a) ==
    /\ First[a].lock = "no"
    /\ opts.xdev => First[a].dev = First[start].dev
    /\ opts.depthFirst \/ Len(a) - Len(start) < Min0
       \/ \A i \in DOMAIN ReachedAt(a) : ReachedAt(a)[i].k # "-prune"
ToTest(start) ==
    {p \in DOMAIN First :
       /\ start \in DOMAIN First /\ IsPrefix(start, p)
       /\ Len(p) - Len(start) >= Min0
       /\ opts.maxDepth < 0 \/ Len(p) - Len(start) <= opts.maxDepth
       /\ \A i \in Len(start)..(Len(p) - 1) : Enters(start, SubSeq(p, 1, i))}

\* Parents first, or last with -depth; else by name.
Precedes(p, q) ==
    IF IsPrefix(p, q) \/ IsPrefix(q, p) THEN IsPrefix(p, q) # opts.depthFirst
    ELSE \E i \in DOMAIN p \cap DOMAIN q :
           NameLess(p[i], q[i]) /\ SubSeq(p, 1, i - 1) = SubSeq(q, 1, i - 1)
Walked == pc \in {"apply", "remove"} \/ (pc = "done" /\ next > 0)
Undisturbed(p) == \A q \in touched : ~IsPrefix(q, p)

\* No call on an entry or on one of the directories above it may fail.
Sound(p) == \A q \in job.faulty : ~IsPrefix(q, p)

\* The walk goes on while other jobs change the tree and calls fail: entries the
\* others leave alone are tested as if nothing happened, each once, in order, and
\* none is tested that should not be; only entries that the walk cannot look at,
\* or reach, for a failing call are left out.  With neither, the collected effects
\* are those of the entries tested (find.go:240-460).
WalkTruth ==
    Walked =>
      LET seen == ToSet(tested)
          meant(p) == \E i \in DOMAIN job.starts : p \in ToTest(job.starts[i])
      IN
      /\ \A p \in DOMAIN First : Undisturbed(p) =>
           (p \in seen => meant(p)) /\ (Sound(p) /\ meant(p) => p \in seen)
      /\ Len(job.starts) = 1 =>
           \A i, j \in DOMAIN tested : i < j => Precedes(tested[i], tested[j])
      /\ touched = {} /\ job.faulty = {} =>
           SelectSeq(effects, LAMBDA e : e.act # Nil) =
             FlattenSeq([i \in DOMAIN tested |->
               LET acts == ActsAt(tested[i])
               IN [n \in DOMAIN acts |-> [act |-> acts[n], path |-> tested[i]]]])

\* What another job creates or nobody matched stays, a directory of s3fs as long as
\* something is in it.  When nobody interferes and no call fails, -delete takes
\* exactly the entries it was reached on, children first, and no directory that
\* something is left in, nor any of s3fs's by itself.  Exit status 0 means, calls
\* failing or not, that nothing was left over but a directory of s3fs that stays
\* without anything in it (find.go:504-512, 595-610).
Condemned == {effects[i].path : i \in {i \in DOMAIN effects : effects[i].act.k = "-delete"}}
DeleteTruth ==
    pc = "done" /\ status \in {"0", "1"} =>
      /\ \A p \in DOMAIN First \cup touched :
           p \notin Condemned /\ (p \in DOMAIN First => Undisturbed(p))
           /\ (p \in touched => p \notin DOMAIN First /\ Exists(Front(p)))
           /\ (p \in DOMAIN First /\ job.store = "s3fs" => ~First[p].dir) => Exists(p)
      /\ touched = {} /\ job.faulty = {} /\ next > 0 =>
           DOMAIN disk = Kept(DOMAIN First \
             {p \in Condemned :
                IF job.store = "s3fs" THEN ~First[p].dir
                ELSE \A q \in DOMAIN First : IsPrefix(p, q) => q \in Condemned
                                                            /\ First[q].lock = "no"}, First)
      /\ status = "0" /\ touched = {} =>
           \A p \in Condemned \cap DOMAIN disk :
              job.store = "s3fs" /\ p \in job.kept \cup {<<>>} /\ NamesIn(disk, p) = {}

\* A search that breaks off, on a lost directory or a cancelled context, has
\* printed, run and deleted nothing (find.go:167-178, 190-198).
AllOrNothing ==
    status \in {"fatal", "cancelled"} =>
      /\ events = <<>>
      /\ \A p \in DOMAIN First : Undisturbed(p) => Exists(p)
=============================================================================
