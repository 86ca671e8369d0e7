------------------------------- MODULE MCFind -------------------------------
(***************************************************************************)
(* Jobs of Find: all short expressions, globs and -exec commands, and      *)
(* searches of a small tree that another job changes.                      *)
(***************************************************************************)
EXTENDS Find

Word(w) == [w |-> w, pat |-> <<>>, num |-> -1, cmp |-> "="]
Number(n, cmp) == [w |-> "n", pat |-> <<n>>, num |-> n, cmp |-> cmp]
Glob(p) == [w |-> "g", pat |-> p, num |-> -1, cmp |-> "="]
Words(ws) == [i \in DOMAIN ws |-> Word(ws[i])]

Entry(names) == [name : names, dir : BOOLEAN, attr : {0, 1}, empty : BOOLEAN]
Empty == [p \in {<<>>} |-> [dir |-> TRUE, attr |-> 0, dev |-> 0, lock |-> "no"]]
Try(words, contexts) ==
    [words : words, starts : {<<>>}, store : {"osfs"}, disk : {Empty}, kept : {{}},
     faulty : {{}}, changes : {{}}, faults : {{}}, runner : {TRUE}, contexts : {contexts}]

\* Expressions on their own.
Expressions ==
    Try({Words(ws) : ws \in BoundedSeq({"(", ")", "!", "-a", "-o", "-empty", "-delete"}, 5)},
        {[name |-> <<1>>, dir |-> FALSE, attr |-> 1, empty |-> e] : e \in BOOLEAN})
    \cup Try({Words(ws) : ws \in BoundedSeq({"!", "-o", "-empty", "-print", "-prune", "-type", "d"}, 4)},
             [name : {<<1>>}, dir : BOOLEAN, attr : {1}, empty : BOOLEAN])
    \cup Try({Words(ws) : ws \in BoundedSeq({"-exec", ";", "+", "{}", "x", "-print"}, 5)},
             {})
    \cup Try({<<Word(w), n>> : w \in {"-test", "-maxdepth", "-mindepth", "-name"},
                               n \in {Number(n, c) : n \in {-1, 0, 1}, c \in {"+", "-", "="}}}
             \cup {Words(<<"-print", "--help", "x">>), Words(<<"-depth", "-xdev">>)},
             Entry({<<1>>}))
    \cup Try({<<Word("-name"), Glob(p)>> : p \in BoundedSeq({Star, AnyOne, 1, 2}, 4)},
             [name : BoundedSeq({1, 2}, 4), dir : {FALSE}, attr : {0}, empty : {FALSE}])

\* A tree: directories d, e, d/e and e/1, files elsewhere.
F(n) == <<n>>
D == <<<<4>>>>
E == <<<<5>>>>
Node1(p) == [dir |-> p \in {<<>>, D, E, D \o E, E \o <<F(1)>>}, attr |-> IF p = <<F(1)>> THEN 0 ELSE 1,
             dev |-> IF IsPrefix(E, p) THEN 1 ELSE 0, lock |-> "no"]
Paths == {<<>>, <<F(1)>>, D, D \o <<F(1)>>, D \o E, D \o E \o <<F(2)>>, E, E \o <<F(1)>>}
Tree == [p \in Paths |-> Node1(p)]
Locked(p, lock) == [Tree EXCEPT ![p].lock = lock]

Is1 == <<Word("-name"), Glob(F(1))>>
IsE == <<Word("-name"), Glob(F(5))>>
Search(words, starts, disks, changes, faults, runners) ==
    [words : words, starts : starts, store : {"osfs"}, disk : disks, kept : {{}},
     faulty : {{}}, changes : {changes}, faults : {faults}, runner : runners, contexts : {{}}]
On(store, kept, faulty, jobs) ==
    {[j EXCEPT !.store = store, !.kept = kept, !.faulty = faulty] : j \in jobs}
N(w, n) == <<Word(w), Number(n, "=")>>
W(w) == <<Word(w)>>
Tests == {<<>>, Is1, W("-empty"), W("!") \o IsE, N("-test", 0)}
Limits == {<<>>, N("-maxdepth", 1), N("-mindepth", 1) \o N("-maxdepth", 2), W("-xdev")}
Alone ==
    Search({l \o t \o a : l \in Limits, t \in Tests,
                          a \in {<<>>, W("-delete"), W("-print"), W("-depth"), W("-prune"),
                                 W("-prune") \o W("-o") \o W("-print"),
                                 Words(<<"-exec", "x", "{}", "+">>) \o Words(<<"-exec", "{}", ";">>)}},
           {<<<<>>>>, <<D, <<F(9)>>>>}, {Tree, Locked(D, "denied"), Locked(D \o E, "lost")},
           {}, {"cancel", "exec"}, BOOLEAN)

\* Another job removes a file or a directory, or creates a file.
Changes == {D \o E, D \o <<F(1)>>, D \o <<F(3)>>, E \o <<F(1), F(1)>>}
Disturbed ==
    Search({t \o a : t \in {<<>>, Is1, W("!") \o IsE, W("-empty")},
                     a \in {<<>>, W("-delete"), W("-depth"), IsE \o W("-prune") \o W("-o") \o W("-print")}},
           {<<<<>>>>}, {Tree}, Changes, {}, {TRUE})
    \cup Search({Is1 \o W("-delete")}, {<<<<>>>>}, {Locked(D, "lost")}, {E \o <<F(1)>>}, {}, {TRUE})

\* A bucket, in which the empty directory e/1 has a placeholder, and calls that fail at a
\* file, a directory or a start, in either file system.
InBucket ==
    On("s3fs", {E \o <<F(1)>>}, {},
       Search({t \o a : t \in Tests, a \in {<<>>, W("-delete"), W("-depth")}},
              {<<<<>>>>, <<D, E>>}, {Tree, Locked(D \o E, "lost")}, {}, {}, {TRUE}))
    \cup On("s3fs", {E \o <<F(1)>>}, {}, Search({W("-delete"), Is1 \o W("-delete"), W("-depth")},
                                   {<<<<>>>>}, {Tree}, Changes, {}, {TRUE}))
Failing ==
    UNION {On(s, {E \o <<F(1)>>}, f, Search({t \o a : t \in {<<>>, Is1, W("-empty"), N("-test", 0)},
                                          a \in {<<>>, W("-delete"), W("-depth")}},
                               {<<<<>>>>, <<D, E>>}, {Tree}, {}, {}, {TRUE})) :
           s \in {"osfs", "s3fs"}, f \in {{D}, {D \o E, E \o <<F(1)>>}, {D \o <<F(1)>>}}}

All == Expressions \cup Alone \cup Disturbed \cup InBucket \cup Failing
=============================================================================
