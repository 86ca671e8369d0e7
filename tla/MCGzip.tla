------------------------------- MODULE MCGzip -------------------------------
(***************************************************************************)
(* Setups of Gzip: command lines over the names x, x.gz, x.gz.gz and y.    *)
(***************************************************************************)
EXTENDS Gzip, TLC

CONSTANTS p1, p2

X(n) == [at |-> 0, base |-> "x", n |-> n]
Y(n) == [at |-> 0, base |-> "y", n |-> n]

Lines(progs, forces, args) ==
    [prog : progs, force : forces, keep : BOOLEAN, stdout : {FALSE},
     bare : {FALSE}, args : args]

Idle == [prog |-> "gzip", force |-> FALSE, keep |-> FALSE, stdout |-> FALSE,
         bare |-> FALSE, args |-> <<>>]

Alone(lines) == {(p1 :> l) @@ (p2 :> Idle) : l \in lines}
Pairs(lines1, lines2) == {(p1 :> l) @@ (p2 :> m) : l \in lines1, m \in lines2}

Run(backends, heres, faults, cmds) ==
    [backend : backends, here : heres, faults : {faults}, cmd : cmds]

-----------------------------------------------------------------------------
\* gzip, gzip -d and gunzip of one and of two files, with and without -f and -k.
Single ==
    Lines({"gzip"}, BOOLEAN,
          {<<X(0)>>, <<X(0), Y(0)>>, <<X(1), X(0)>>, <<X(0), X(0)>>})
    \cup Lines({"gzip -d"}, BOOLEAN,
               {<<X(1)>>, <<X(2), X(1)>>, <<X(1), ThisDir>>})
    \cup Lines({"gunzip"}, BOOLEAN,
               {<<X(1)>>, <<X(1), X(2)>>, <<X(0), X(1)>>, <<ThisDir>>,
                <<ThisDir, X(1)>>})
    \cup [prog : {"gzip", "gzip -d", "gunzip"}, force : {FALSE}, keep : {FALSE},
          stdout : {TRUE}, bare : {FALSE}, args : {<<X(1)>>, <<X(0)>>}]

\* -S '', but not with both -d and -f: that writes the output over the source
\* and then removes it (gzip.go:461-488; gunzip has a guard, gunzip.go:216).
Bare ==
    [prog : {"gzip", "gzip -d", "gunzip"}, force : {FALSE}, keep : BOOLEAN,
     stdout : {FALSE}, bare : {TRUE}, args : {<<X(0)>>, <<X(1)>>}]
    \cup [prog : {"gzip", "gunzip"}, force : {TRUE}, keep : {FALSE},
          stdout : {FALSE}, bare : {TRUE}, args : {<<X(1)>>}]

\* Without -f: compressing x, and expanding x.gz.
Down == Lines({"gzip"}, {FALSE}, {<<X(0)>>, <<X(0), X(0)>>})
Up == Lines({"gzip -d", "gunzip"}, {FALSE}, {<<X(1)>>, <<X(1), X(1)>>})

\* One command on either file system, in the root directory or below it, with
\* every call but the Stat of the output failing at will; and two commands at
\* once in a bucket, of which one may undo what the other does.
Keeping ==
    Run({"osfs", "s3fs"}, {0, 1}, AllFaults \ {"look"}, Alone(Single \cup Bare))
    \cup Run({"s3fs"}, {0}, {}, Pairs(Down, Up))
=============================================================================
