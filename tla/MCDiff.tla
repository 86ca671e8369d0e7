------------------------------- MODULE MCDiff -------------------------------
(***************************************************************************)
(* Jobs of Diff: all pairs of short files in every format, and two small   *)
(* trees that another job changes.                                         *)
(***************************************************************************)
EXTENDS Diff

Line(t, v, nl) == [t |-> t, v |-> v, nl |-> nl]
Text(ts) == [k \in DOMAIN ts |-> Line(ts[k], 0, TRUE)]
Cut(ts) == [k \in DOMAIN ts |-> Line(ts[k], 0, k < Len(ts))]
Spelled(ts) == [k \in DOMAIN ts |-> Line(ts[k], 1, TRUE)]
FileOf(l) == [dir |-> FALSE, lines |-> l]
Dir == [dir |-> TRUE, lines |-> <<>>]
L == <<1>>
R == <<2>>
Tree(l, r) == [p \in {<<>>, L, R} |-> IF p = <<>> THEN Dir ELSE IF p = L THEN FileOf(l) ELSE FileOf(r)]

Files(formats, contexts, ignores, disks) ==
    [left : {L}, right : {R}, format : formats, context : contexts, ignore : ignores,
     brief : {FALSE}, same : {FALSE}, recursive : {FALSE}, stdin : {<<>>}, disk : disks,
     changes : {{}}, faulty : {{}}]
Short == {Text(ts) : ts \in BoundedSeq({1, 2}, 3) \cup {<<1, 2, 3, 1>>, <<3, 1, 1, 2>>}}
         \cup {Cut(ts) : ts \in BoundedSeq({1, 2}, 2) \ {<<>>}}
Scripts ==
    Files({"normal", "ed", "forward"}, {0}, {FALSE}, {Tree(l, r) : l \in Short, r \in Short})
    \cup Files({"unified", "context"}, {0, 1}, {FALSE}, {Tree(l, r) : l \in Short, r \in Short})
    \cup Files(Formats, {1}, BOOLEAN,
               {Tree(Text(<<1, 2>>), Spelled(<<1, 3>>)), Tree(Spelled(<<1>>), Text(<<1>>)),
                Tree(Cut(<<1, 2>>), Spelled(<<1, 2, 2>>))})
    \cup Files({"unified", "context"}, {1, 2}, {FALSE},
               {Tree(Text(<<1, 2, 3, 4, 5>>), Text(<<9, 2, 3, 4, 8>>)),
                Tree(Text(<<1, 2, 3, 4, 5>>), Text(<<2, 3, 4, 5, 7>>)),
                Tree(Text(<<1, 2, 3, 4>>), Text(<<1, 2, 3, 4, 5>>))})

\* Trees <<1>> and <<2>> with the files 1 and 2 and the directory 3.
Below(p) == {p, Append(p, 1), Append(p, 2), Append(p, 3), p \o <<3, 1>>}
Full == [p \in {<<>>} \cup Below(L) \cup Below(R) |->
           IF p \in {<<>>, L, R, <<1, 3>>, <<2, 3>>} THEN Dir
           ELSE IF p = <<1, 3, 1>> THEN FileOf(Text(<<1, 2>>)) ELSE FileOf(Text(<<2>>))]
Without(d, ps) == [p \in DOMAIN d \ ps |-> d[p]]
Kinds == [p \in DOMAIN Full \ {<<2, 3, 1>>} |-> IF p = <<2, 3>> THEN FileOf(<<>>) ELSE Full[p]]
Trees(lefts, rights, briefs, disks, changes) ==
    [left : lefts, right : rights, format : {"normal"}, context : {0}, ignore : {FALSE},
     brief : briefs, same : BOOLEAN, recursive : BOOLEAN, stdin : {Text(<<2>>)}, disk : disks,
     changes : changes, faulty : {{}}]
Faulty(ps, jobs) == {[j EXCEPT !.faulty = ps] : j \in jobs}
Directories ==
    Trees({L}, {R}, BOOLEAN,
          {Full, Without(Full, {<<1, 1>>}), Without(Full, {<<2, 2>>}), Kinds,
           Without(Full, {<<1, 3, 1>>, <<2, 3, 1>>})},
          {{}, {<<1, 1>>, <<2, 3, 1>>}, {<<2, 2>>, <<2, 3>>}})
    \cup Trees({L, <<1, 1>>, Dash, <<7>>}, {R, <<2, 2>>, Dash, <<8>>}, {FALSE}, {Full}, {{<<1, 1>>}})
    \cup Trees({L}, {R}, {FALSE}, {Full}, {{L}, {R}, {<<1, 3>>, <<2, 3>>}})

\* Calls that fail at a file, a directory, an operand or standard input, also
\* while another job changes what is left.
Failing ==
    UNION {Faulty(ps, Trees({L}, {R}, BOOLEAN, {Full, Kinds, Without(Full, {<<1, 1>>})},
                            {{}, {<<1, 1>>, <<2, 3, 1>>}})) :
           ps \in {{<<1, 1>>}, {<<2, 2>>, <<1, 3, 1>>}, {<<1, 3>>}, {<<2, 3>>, <<1, 3>>}}}
    \cup UNION {Faulty(ps, Trees({L, <<1, 1>>, Dash}, {R, <<2, 2>>}, {FALSE}, {Full}, {{}})) :
                ps \in {{L}, {R, <<1, 1>>}, {Dash}}}

All == Scripts \cup Directories \cup Failing
=============================================================================
