------------------------------- MODULE MCGrep -------------------------------
(***************************************************************************)
(* Jobs of Grep: every short input under every combination of the options  *)
(* of search, several inputs with failures among them, and a small tree.   *)
(***************************************************************************)
EXTENDS Grep

File(l) == [dir |-> FALSE, lines |-> l]
Dir == [dir |-> TRUE, lines |-> <<>>]
Plain(p) == [path |-> p, glob |-> "no", names |-> {}]
Leaf(p, ns) == [path |-> p, glob |-> "leaf", names |-> ns]
Deep(p, ns) == [path |-> p, glob |-> "deep", names |-> ns]

Opts(befores, afters, maxes, ons) ==
    [before : befores, after : afters, maxCount : maxes, on : ons,
     exclude : {{}}, excludeDir : {{}}]
CommandLine(opts, setups, operands, stdins, disks, gone, faults) ==
    [opts : opts, setup : setups, operands : operands, stdin : stdins,
     disk : disks, gone : {gone}, faulty : {{}}, faults : {faults}]

Modes == {{}, {"only"}, {"count"}, {"only", "count"}, {"quiet"}}
Inverted(modes) == modes \cup {m \cup {"invert"} : m \in modes}
NoDisk == {[p \in {<<>>} |-> Dir]}

\* One input, read from standard input without operands.
Single ==
    CommandLine(Opts(0..3, 0..1, 0..2, Inverted(Modes)), {"ok"}, {<<>>},
         BoundedSeq({0, 1}, 4) \cup {<<0, 0, 2, 0, 0, 0, 1>>, <<2, 0, 0, 1, 2>>},
         NoDisk, {}, {})
    \cup CommandLine(Opts({0, 1}, {0, 1}, {0, 1}, {{}, {"only", "invert"}, {"count"}, {"list"}}),
              {"ok"}, {<<>>}, BoundedSeq({0, 2, Broken, TooLong, Runaway}, 3),
              NoDisk, {}, {"cancel", "write"})
    \cup CommandLine(Opts({0}, {0}, {0}, {{}, {"invert"}, {"listWithout"}}),
              {"unknown", "unreadable", "invalid", "empty", "stdin"}, {<<>>, <<Plain(Stdin)>>},
              {<<0, 0>>}, NoDisk, {}, {})

\* Several inputs: files, a directory, nothing, and "-" twice.
Two == {[p \in {<<>>, <<1>>, <<2>>, <<3>>, <<Hidden>>} |->
           IF p = <<>> \/ p = <<3>> THEN Dir
           ELSE IF p = <<1>> THEN File(l) ELSE IF p = <<2>> THEN File(m) ELSE File(<<1>>)] :
         l \in {<<0, 0>>, <<1, 0, 2>>, <<Broken, TooLong>>}, m \in {<<>>, <<0, 1>>, <<TooLong>>}}
Several ==
    CommandLine(Opts({0}, {0, 1}, {0, 1},
              {m \cup l : m \in {{}, {"count"}, {"quiet"}},
                          l \in {{}, {"list"}, {"listWithout"}, {"list", "listWithout"}}}),
         {"ok", "stdin"},
         {<<Plain(<<1>>), Plain(<<2>>)>>, <<Plain(Stdin), Plain(<<3>>), Plain(Stdin)>>,
          <<Plain(<<8>>), Plain(<<1>>)>>, <<Leaf(<<>>, {1, 2, Hidden})>>},
         {<<0, 1, 1>>}, Two, {<<2>>}, {"cancel", "write"})

\* A tree with a hidden file, a file "-", nested directories and one that goes.
Tree == {[p \in {<<>>, <<Dash>>, <<1>>, <<2>>, <<2, 1>>, <<2, 2>>, <<2, 2, 1>>, <<Hidden>>} |->
            IF p \in {<<>>, <<2>>, <<2, 2>>} THEN Dir ELSE File(<<1>>)]}
Recursive ==
    [opts : [before : {0}, after : {0}, maxCount : {0}, on : {{"recursive"}, {"recursive", "list"}},
             exclude : {{}, {1}}, excludeDir : {{}, {2}}],
     setup : {"ok"},
     operands : {<<Plain(<<>>)>>, <<Plain(<<Dot, 2>>)>>, <<Plain(<<2>>), Plain(<<2>>)>>, <<Plain(Stdin), Plain(<<2, 2>>)>>,
                 <<Plain(<<1>>), Plain(<<2, 2>>)>>, <<Leaf(<<>>, {Dash, 1, 2})>>,
                 <<Deep(<<>>, {Dash, 1})>>, <<Deep(<<8>>, {1})>>},
     stdin : {<<0>>}, disk : Tree, gone : {{<<1>>, <<2, 2>>, <<2, 1>>}}, faulty : {{}}, faults : {{"cancel"}}]
Globs == CommandLine(Opts({0}, {0}, {0}, {{}}), {"ok"},
              {<<Leaf(<<2>>, {1, 2}), Plain(<<1>>)>>, <<Deep(<<>>, {Dash, 1, Hidden})>>,
               <<Leaf(<<8>>, {1})>>},
              {<<1, 1>>}, Tree, {<<2, 2>>}, {})


\* Calls fail for a file, for a directory and for the whole tree.
Failing(jobs, sets) == UNION {{[j EXCEPT !.faulty = f] : f \in sets} : j \in jobs}
Faulty ==
    Failing({j \in Recursive : j.opts.on = {"recursive"} /\ j.opts.excludeDir = {}},
            {{<<1>>}, {<<2, 2>>, <<2, 1>>}, {<<>>}})
    \cup Failing(Globs, {{<<2, 2>>}, {<<2>>, <<1>>}})
    \cup Failing({j \in Several : j.opts.after = 0 /\ j.opts.maxCount = 0 /\ j.setup = "ok"},
                 {{<<1>>}, {<<2>>, <<3>>}})

All == Single \cup Several \cup Recursive \cup Globs \cup Faulty
=============================================================================
