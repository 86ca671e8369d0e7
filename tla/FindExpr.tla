------------------------------ MODULE FindExpr ------------------------------
(***************************************************************************)
(* The expressions of find: parseExpression and buildExpressionTree of     *)
(* command/internal/find/parser.go, eval and matchGlob of matcher.go, as   *)
(* pure operators, and beside them what they are to compute, defined the   *)
(* other way round: a token sequence is split at its last operator, a      *)
(* glob is matched from its end.                                           *)
(*                                                                         *)
(* A word of the command line is a record: w is the word, and pat, num and *)
(* cmp what it means as an operand, a glob, a number (-1 when it is none)  *)
(* and the sign in front of that number.  "-test" stands for -mtime,       *)
(* -newer, -size and -perm, which compare an attribute of the entry.       *)
(***************************************************************************)
EXTENDS Integers, Sequences, FiniteSets, SequencesExt

Star == -1          \* "*" in a glob
AnyOne == -2        \* "?" in a glob; other elements are characters

Nil == [k |-> "nil"]
Node(kind, l, r) == [k |-> kind, left |-> l, right |-> r]
Leaf(kind, word, at) == [k |-> kind, pat |-> word.pat, num |-> word.num,
                         cmp |-> word.cmp, type |-> word.w, at |-> at]
Operators == {"(", ")", "!", "-a", "-o"}
Branches == {"not", "and", "or"}
Actions == {"-print", "-delete", "-exec", "-exec+"}
Token(kind) == [k |-> kind]
-----------------------------------------------------------------------------
(* parser.go: words to tokens *)
NoOptions == [err |-> FALSE, help |-> FALSE, tokens |-> <<>>, maxDepth |-> -1,
              minDepth |-> 0, depthFirst |-> FALSE, xdev |-> FALSE]

\* Mutant: every "+" ends the command.
ExecEnd_AnyPlus(ws, i) ==
    LET ends == {j \in (i + 1)..Len(ws) : ws[j].w \in {";", "+"}}
    IN IF ends = {} THEN 0 ELSE Min(ends)

\* Where the command of the -exec at position i ends: at ";", or at a "+" right
\* after "{}"; 0 when it does not.
ExecEnd(ws, i) ==
    LET ends == {j \in (i + 1)..Len(ws) :
                   \/ ws[j].w = ";"
                   \/ ws[j].w = "+" /\ j > i + 1 /\ ws[j - 1].w = "{}"}
    IN IF ends = {} THEN 0 ELSE Min(ends)
CountBraces(ws, i, j) == Cardinality({n \in i..j : ws[n].w = "{}"})

RECURSIVE Scan(_, _, _)
Scan(ws, i, acc) ==
    LET w == ws[i].w
        operand == ws[i + 1]
        fail == [acc EXCEPT !.err = TRUE]
        push(tok) == [acc EXCEPT !.tokens = Append(@, tok)]
        end == ExecEnd(ws, i)
        batch == ws[end].w = "+"
    IN IF i > Len(ws) \/ acc.err \/ acc.help THEN acc
       ELSE CASE w \in Operators -> Scan(ws, i + 1, push(Token(w)))
              [] w = "--help" -> [acc EXCEPT !.help = TRUE]
              [] w \in {"-empty", "-prune", "-print", "-delete"} ->
                    Scan(ws, i + 1, push(Leaf(w, ws[i], i)))
              [] w = "-xdev" ->
                    Scan(ws, i + 1, [push(Leaf("true", ws[i], i)) EXCEPT !.xdev = TRUE])
              [] w = "-depth" -> Scan(ws, i + 1, [acc EXCEPT !.depthFirst = TRUE])
              [] w \in {"-name", "-type", "-test", "-maxdepth", "-mindepth"} ->
                    IF \/ i = Len(ws)
                       \/ w = "-type" /\ operand.w \notin {"d", "f"}
                       \/ w \in {"-test", "-maxdepth", "-mindepth"} /\ operand.num < 0
                      THEN fail
                      ELSE Scan(ws, i + 2,
                             CASE w = "-maxdepth" -> [acc EXCEPT !.maxDepth = operand.num]
                               [] w = "-mindepth" -> [acc EXCEPT !.minDepth = operand.num]
                               [] OTHER -> push(Leaf(w, operand, i)))
              [] w = "-exec" ->
                    IF end = 0 \/ end = i + 1 THEN fail
                    ELSE IF batch /\ CountBraces(ws, i + 1, end - 1) # 1 THEN fail
                    ELSE Scan(ws, end + 1,
                              push(Leaf(IF batch THEN "-exec+" ELSE "-exec", ws[i], i)))
              [] OTHER -> fail
-----------------------------------------------------------------------------
(* parser.go: tokens to a tree, by recursive descent *)
Result(e, pos, err) == [e |-> e, pos |-> pos, err |-> err]
IsNil(r) == r.e = Nil
Is(ts, pos, kinds) == pos <= Len(ts) /\ ts[pos].k \in kinds

RECURSIVE ParseOr(_, _), ParseNot(_, _), OrLoop(_, _), AndLoop(_, _)

Parenthesized(ts, r) ==
    IF IsNil(r) \/ ~Is(ts, r.pos, {")"}) THEN Result(Nil, r.pos, TRUE)
    ELSE Result(r.e, r.pos + 1, r.err)
ParsePrimary(ts, pos) ==
    IF Is(ts, pos, {"("}) THEN Parenthesized(ts, ParseOr(ts, pos + 1))
    ELSE IF pos <= Len(ts) /\ ts[pos].k \notin Operators
      THEN Result(ts[pos], pos + 1, FALSE)
    ELSE Result(Nil, pos, FALSE)

Negated(r) == IF IsNil(r) THEN Result(Nil, r.pos, TRUE)
              ELSE Result(Node("not", r.e, Nil), r.pos, r.err)
ParseNot(ts, pos) == IF Is(ts, pos, {"!"}) THEN Negated(ParseNot(ts, pos + 1))
                     ELSE ParsePrimary(ts, pos)

\* The loops of parseAnd and parseOr, from the left side st, with its next
\* operand r.  An error message stays set while an inner parser's caller goes on.
Joined(kind, st, r) == Result(Node(kind, st.e, r.e), r.pos, st.err \/ r.err)
AndWith(ts, st, explicit, r) ==
    IF ~IsNil(r) THEN AndLoop(ts, Joined("and", st, r))
    ELSE IF explicit THEN Result(Nil, r.pos, TRUE)
    ELSE Result(st.e, r.pos, st.err \/ r.err)
AndLoop(ts, st) ==
    IF Is(ts, st.pos, {"-a"}) THEN AndWith(ts, st, TRUE, ParseNot(ts, st.pos + 1))
    ELSE IF st.pos <= Len(ts) /\ ts[st.pos].k \notin {"-o", ")"}
      THEN AndWith(ts, st, FALSE, ParseNot(ts, st.pos))
    ELSE st
AndFrom(ts, r) == IF IsNil(r) THEN r ELSE AndLoop(ts, r)
ParseAnd(ts, pos) == AndFrom(ts, ParseNot(ts, pos))

OrWith(ts, st, r) ==
    IF IsNil(r) THEN Result(Nil, r.pos, TRUE) ELSE OrLoop(ts, Joined("or", st, r))
OrLoop(ts, st) ==
    IF Is(ts, st.pos, {"-o"}) THEN OrWith(ts, st, ParseAnd(ts, st.pos + 1)) ELSE st
OrFrom(ts, r) == IF IsNil(r) THEN r ELSE OrLoop(ts, r)
ParseOr(ts, pos) == OrFrom(ts, ParseAnd(ts, pos))

RECURSIVE ContainsNegatedDelete(_, _)
ContainsNegatedDelete(e, negated) ==
    CASE e.k = "-delete" -> negated
      [] e.k = "not" -> ContainsNegatedDelete(e.left, ~negated)
      [] e.k \in {"and", "or"} -> \/ ContainsNegatedDelete(e.left, negated)
                                  \/ ContainsNegatedDelete(e.right, negated)
      [] OTHER -> FALSE

BuildExpressionTree(ts) ==
    LET r == ParseOr(ts, 1)
        err == r.err \/ r.pos <= Len(ts) \/ (~IsNil(r) /\ ContainsNegatedDelete(r.e, FALSE))
    IN Result(IF err THEN Nil ELSE r.e, r.pos, err)

\* All of parseExpression; without tokens there is no expression.
ParseExpression(ws) ==
    LET o == Scan(ws, 1, NoOptions)
        tree == BuildExpressionTree(o.tokens)
    IN IF o.err \/ o.help \/ o.tokens = <<>> THEN [opts |-> o, expr |-> Nil]
       ELSE [opts |-> [o EXCEPT !.err = tree.err], expr |-> tree.e]
-----------------------------------------------------------------------------
(* matcher.go *)
Compare(got, cmp, n) ==
    CASE cmp = "+" -> got > n [] cmp = "-" -> got < n [] OTHER -> got = n

\* matchGlob goes back to the last star only.
RECURSIVE GlobLoop(_, _, _, _, _, _)
MatchOne(el, c) == el = AnyOne \/ el = c
GlobLoop(p, s, pi, si, starP, starS) ==
    IF si > Len(s)
      THEN \A i \in pi..Len(p) : p[i] = Star
    ELSE IF pi <= Len(p) /\ p[pi] = Star
      THEN GlobLoop(p, s, pi + 1, si, pi, si)
    ELSE IF pi <= Len(p) /\ MatchOne(p[pi], s[si])
      THEN GlobLoop(p, s, pi + 1, si + 1, starP, starS)
    ELSE IF starP = 0 THEN FALSE
    ELSE GlobLoop(p, s, starP + 1, starS + 1, starP, starS + 1)
MatchGlob(p, s) == GlobLoop(p, s, 1, 1, 0, 1)

\* One leaf on entry c = [name, dir, attr, empty].
Test(e, c) ==
    CASE e.k = "-name" -> MatchGlob(e.pat, c.name)
      [] e.k = "-type" -> c.dir = (e.type = "d")
      [] e.k = "-test" -> Compare(c.attr, e.cmp, e.num)
      [] e.k = "-empty" -> c.empty
      [] OTHER -> TRUE

\* evalResult, with the -empty tests reached: each reads a directory.
Value(matches, pruned, actions, reads) ==
    [matches |-> matches, pruned |-> pruned, actions |-> actions, reads |-> reads]
\* Mutant: the actions of the left side are lost.
Both_Right(l, r) == r
Both(l, r) == Value(r.matches, l.pruned \/ r.pruned, l.actions \o r.actions,
                    l.reads \/ r.reads)
RECURSIVE Eval(_, _)
Eval(e, c) ==
    CASE e.k = "not" -> [Eval(e.left, c) EXCEPT !.matches = ~@]
      [] e.k = "and" -> LET l == Eval(e.left, c) IN
                        IF ~l.matches THEN l ELSE Both(l, Eval(e.right, c))
      [] e.k = "or" -> LET l == Eval(e.left, c) IN
                       IF l.matches THEN l ELSE Both(l, Eval(e.right, c))
      [] OTHER -> Value(Test(e, c), e.k = "-prune",
                        IF e.k \in Actions THEN <<e>> ELSE <<>>, e.k = "-empty")

\* walk: the leaves of an expression from left to right.
RECURSIVE LeavesOf(_)
LeavesOf(e) == CASE e.k = "nil" -> <<>>
                 [] e.k = "not" -> LeavesOf(e.left)
                 [] e.k \in {"and", "or"} -> LeavesOf(e.left) \o LeavesOf(e.right)
                 [] OTHER -> <<e>>
ActionsOf(e) == SelectSeq(LeavesOf(e), LAMBDA l : l.k \in Actions)
NeedsStat(e) == \E l \in ToSet(LeavesOf(e)) : l.k \in {"-empty", "-test"}
-----------------------------------------------------------------------------
(* What the parser and the evaluator are to compute *)

\* Words a..b are one predicate with its operands.
IsUnit(ws, a, b) ==
    LET w == ws[a].w
        terminates(j) == ws[j].w = ";" \/ (ws[j].w = "+" /\ j > a + 1 /\ ws[j - 1].w = "{}")
    IN CASE w = "-exec" ->
              /\ b > a + 1 /\ terminates(b)
              /\ \A j \in (a + 1)..(b - 1) : ~terminates(j)
              /\ ws[b].w = "+" => \A j \in (a + 1)..(b - 2) : ws[j].w # "{}"
         [] w = "-name" -> b = a + 1
         [] w = "-type" -> b = a + 1 /\ ws[b].w \in {"d", "f"}
         [] w \in {"-test", "-maxdepth", "-mindepth"} -> b = a + 1 /\ ws[b].num >= 0
         [] w \in Operators \cup {"-empty", "-prune", "-print", "-delete", "-xdev", "-depth"} ->
              b = a
         [] OTHER -> FALSE

\* The places where predicates begin, when the words can be cut up that way.
Cuts(ws) ==
    {S \in SUBSET DOMAIN ws :
       /\ ws # <<>> => 1 \in S
       /\ \A a \in S : IsUnit(ws, a, Min({b \in S : b > a} \cup {Len(ws) + 1}) - 1)}
KindOf(ws, a) == IF ws[a].w = "-xdev" THEN "true" ELSE ws[a].w
ScanAgrees(ws, o) ==
    LET tokenAt(S) == {a \in S : ws[a].w \notin {"-depth", "-maxdepth", "-mindepth"}} IN
    IF o.err THEN Cuts(ws) = {}
    ELSE \E S \in Cuts(ws) :
           /\ Len(o.tokens) = Cardinality(tokenAt(S))
           /\ \A a \in tokenAt(S) :
                LET t == o.tokens[Cardinality({b \in tokenAt(S) : b <= a})]
                IN t.k = KindOf(ws, a) \/ (t.k = "-exec+" /\ ws[a].w = "-exec")

\* Or binds loosest, then and, then not: split at the last top-level -o, or
\* else where the last factor begins.
Depth(ts, i) == Cardinality({j \in 1..(i - 1) : ts[j].k = "("})
                - Cardinality({j \in 1..(i - 1) : ts[j].k = ")"})
RECURSIVE TreeOf(_)
TreeOf(ts) ==
    LET n == Len(ts)
        ors == {i \in 1..n : ts[i].k = "-o" /\ Depth(ts, i) = 0}
        factors == {i \in 2..n : /\ Depth(ts, i) = 0 /\ ts[i].k \notin {"-a", ")"}
                                 /\ ts[i - 1].k # "!"}
        join(kind, l, r) == IF l = Nil \/ r = Nil THEN Nil ELSE Node(kind, l, r)
    IN IF n = 0 THEN Nil
       ELSE IF ors # {}
         THEN join("or", TreeOf(SubSeq(ts, 1, Max(ors) - 1)), TreeOf(SubSeq(ts, Max(ors) + 1, n)))
       ELSE IF factors # {}
         THEN LET i == Max(factors) IN
              join("and", TreeOf(SubSeq(ts, 1, IF ts[i - 1].k = "-a" THEN i - 2 ELSE i - 1)),
                   TreeOf(SubSeq(ts, i, n)))
       ELSE IF ts[1].k = "!"
         THEN IF TreeOf(Tail(ts)) = Nil THEN Nil ELSE Node("not", TreeOf(Tail(ts)), Nil)
       ELSE IF ts[1].k = "("
         THEN IF ts[n].k = ")" THEN TreeOf(SubSeq(ts, 2, n - 1)) ELSE Nil
       ELSE IF n = 1 /\ ts[1].k \notin Operators THEN ts[1] ELSE Nil

\* How often each -delete is negated, modulo 2.
RECURSIVE Negations(_, _)
Negations(e, n) ==
    CASE e.k = "not" -> Negations(e.left, 1 - n)
      [] e.k \in {"and", "or"} -> Negations(e.left, n) \cup Negations(e.right, n)
      [] OTHER -> IF e.k = "-delete" THEN {n} ELSE {}

\* A glob matched from its end, a star by trying every length.
RECURSIVE GlobAgrees(_, _)
GlobAgrees(p, s) ==
    IF p = <<>> THEN s = <<>>
    ELSE IF Last(p) = Star THEN \E n \in 0..Len(s) : GlobAgrees(Front(p), SubSeq(s, 1, n))
    ELSE s # <<>> /\ Last(p) \in {AnyOne, Last(s)} /\ GlobAgrees(Front(p), Front(s))

\* Truth of an expression, and the leaves reached to find it out.
RECURSIVE Truth(_, _), Reached(_, _)
Truth(e, c) ==
    CASE e.k = "not" -> ~Truth(e.left, c)
      [] e.k = "and" -> Truth(e.left, c) /\ Truth(e.right, c)
      [] e.k = "or" -> Truth(e.left, c) \/ Truth(e.right, c)
      [] e.k = "-name" -> GlobAgrees(e.pat, c.name)
      [] OTHER -> Test(e, c)
Reached(e, c) ==
    CASE e.k = "not" -> Reached(e.left, c)
      [] e.k \in {"and", "or"} ->
            Reached(e.left, c) \o IF Truth(e.left, c) = (e.k = "and")
                                    THEN Reached(e.right, c) ELSE <<>>
      [] OTHER -> <<e>>
=============================================================================
