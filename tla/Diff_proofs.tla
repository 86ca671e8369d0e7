---------------------------- MODULE Diff_proofs ----------------------------
(***************************************************************************)
(* Proofs about a diff of two directories, for any trees, options, changes *)
(* that another job makes meanwhile and paths at which calls fail: the     *)
(* header stands before the scripts and nowhere else (HeaderTruth), and    *)
(* the exit status sums up all that was compared (DirStatus).              *)
(*                                                                         *)
(* Both rest on what is known of the tree while others change it: paths go *)
(* away and never change their kind, and what is not touched is as it was  *)
(* (DiskInv).  The header needs what was read of the pair in hand          *)
(* (Reading).  The status needs that every difference is either known or   *)
(* still below a pair of the work list (Ahead).                            *)
(***************************************************************************)
EXTENDS Diff, SequenceTheorems, FiniteSetTheorems, TLAPS

-----------------------------------------------------------------------------
(* Paths *)
LEMMA PathConcat ==
    ASSUME NEW l \in Path, NEW r \in Path
    PROVE  /\ l \o r \in Path /\ Len(l \o r) = Len(l) + Len(r)
           /\ Len(l) \in Nat /\ Len(r) \in Nat
           /\ SubSeq(l \o r, 1, Len(l)) = l
           /\ SubSeq(l \o r, Len(l) + 1, Len(l \o r)) = r
<1>1. l \o r \in Path /\ Len(l \o r) = Len(l) + Len(r) /\ Len(l) \in Nat /\ Len(r) \in Nat
  BY ConcatProperties, LenProperties DEF Path
<1>2. SubSeq(l \o r, 1, Len(l)) = l
  BY <1>1 DEF Path
<1>3. SubSeq(l \o r, Len(l) + 1, Len(l \o r)) = r
  BY <1>1 DEF Path
<1>. QED BY <1>1, <1>2, <1>3

LEMMA PathAppend ==
    ASSUME NEW l \in Path, NEW r \in Path, NEW n \in Nat
    PROVE  /\ Append(l \o r, n) = l \o Append(r, n)
           /\ Append(r, n) \in Path /\ Append(r, n) # <<>> /\ Len(Append(r, n)) = Len(r) + 1
<1>1. Append(r, n) \in Path /\ Append(r, n) # <<>> /\ Len(Append(r, n)) = Len(r) + 1
  BY DEF Path
<1>2. Append(l \o r, n) = l \o Append(r, n)
  <2>1. l \o r \in Path /\ <<n>> \in Path
    BY PathConcat DEF Path
  <2>2. Append(l \o r, n) = (l \o r) \o <<n>> /\ Append(r, n) = r \o <<n>>
    BY <2>1, AppendIsConcat DEF Path
  <2>3. (l \o r) \o <<n>> = l \o (r \o <<n>>)
    BY <2>1, ConcatAssociative DEF Path
  <2>. QED BY <2>2, <2>3
<1>. QED BY <1>1, <1>2

LEMMA PathAssociates ==
    ASSUME NEW l \in Path, NEW r \in Path, NEW s \in Path
    PROVE  (l \o r) \o s = l \o (r \o s)
  BY DEF Path

\* The first step from a path to one below it.
LEMMA PathStep ==
    ASSUME NEW r \in Path, NEW s \in Path, s # <<>>
    PROVE  \E n \in Nat, t \in Path : s = <<n>> \o t /\ r \o s = Append(r, n) \o t
<1>1. Head(s) \in Nat /\ Tail(s) \in Path /\ s = <<Head(s)>> \o Tail(s)
  BY DEF Path
<1>2. PICK n \in Nat, t \in Path : s = <<n>> \o t
  BY <1>1
<1>3. <<n>> \in Path /\ Append(r, n) = r \o <<n>>
  BY AppendIsConcat DEF Path
<1>4. (r \o <<n>>) \o t = r \o (<<n>> \o t)
  BY <1>3, PathAssociates
<1>5. r \o s = Append(r, n) \o t
  BY <1>2, <1>3, <1>4, Zenon
<1>. QED BY <1>2, <1>5

LEMMA PathEmpty ==
    ASSUME NEW r \in Path
    PROVE  r \o <<>> = r /\ <<>> \o r = r /\ <<>> \in Path /\ r # Dash
           /\ (r = <<>> <=> Len(r) = 0)
<1>1. r \o <<>> = r /\ <<>> \o r = r /\ <<>> \in Path /\ (r = <<>> <=> Len(r) = 0)
  BY DEF Path
<1>2. r # Dash
  BY DEF Path, Dash
<1>. QED BY <1>1, <1>2

\* What is below a directory, and the names in it.
LEMMA RelativeIs ==
    ASSUME NEW d, DOMAIN d \subseteq Path, NEW l \in Path, NEW q
    PROVE  q \in Relative(d, l) <=> q \in Path /\ l \o q \in DOMAIN d
<1>1. ASSUME NEW x \in DOMAIN d, IsPrefix(l, x)
      PROVE  SubSeq(x, Len(l) + 1, Len(x)) \in Path /\ l \o SubSeq(x, Len(l) + 1, Len(x)) = x
  <2>1. x \in Path /\ l \in Path /\ Len(l) <= Len(x)
        /\ SubSeq(l, 1, Len(l)) = SubSeq(x, 1, Len(l))
    BY <1>1 DEF IsPrefix
  <2>. QED BY <2>1, SMTT(30) DEF Path
<1>2. ASSUME q \in Path, l \o q \in DOMAIN d
      PROVE  IsPrefix(l, l \o q) /\ q = SubSeq(l \o q, Len(l) + 1, Len(l \o q))
  <2>1. Len(l) <= Len(l \o q) /\ SubSeq(l \o q, 1, Len(l)) = l
    BY <1>2, PathConcat
  <2>2. SubSeq(l, 1, Len(l)) = l
    BY DEF Path
  <2>. QED BY <1>2, <2>1, <2>2, PathConcat DEF IsPrefix
<1>. QED BY <1>1, <1>2 DEF Relative

LEMMA NamesAre ==
    ASSUME NEW d, DOMAIN d \subseteq Path, NEW p \in Path
    PROVE  /\ \A n : n \in NamesIn(d, p) <=> n \in Nat /\ Append(p, n) \in DOMAIN d
           /\ IsFiniteSet(DOMAIN d) => IsFiniteSet(NamesIn(d, p))
<1>. DEFINE Q == {q \in DOMAIN d : Len(q) = Len(p) + 1 /\ IsPrefix(p, q)}
<1>1. NamesIn(d, p) = {Last(q) : q \in Q}
  BY DEF NamesIn
<1>2. ASSUME NEW q \in Q PROVE Last(q) \in Nat /\ Append(p, Last(q)) = q
  <2>1. q \in Path /\ Len(q) = Len(p) + 1 /\ SubSeq(p, 1, Len(p)) = SubSeq(q, 1, Len(p))
    BY DEF IsPrefix
  <2>2. SubSeq(p, 1, Len(p)) = p /\ Len(p) \in Nat
    BY DEF Path
  <2>3. Last(q) = q[Len(q)] /\ q[Len(q)] \in Nat
    BY <2>1, <2>2 DEF Last, Path
  <2>4. Append(SubSeq(q, 1, Len(p)), q[Len(q)]) = q
    BY <2>1, <2>2 DEF Path
  <2>. QED BY <2>1, <2>2, <2>3, <2>4
<1>3. ASSUME NEW n \in Nat, Append(p, n) \in DOMAIN d
      PROVE  Append(p, n) \in Q /\ Last(Append(p, n)) = n
  <2>1. Len(Append(p, n)) = Len(p) + 1 /\ Len(p) \in Nat
        /\ SubSeq(Append(p, n), 1, Len(p)) = p /\ SubSeq(p, 1, Len(p)) = p
        /\ Append(p, n)[Len(p) + 1] = n
    BY DEF Path
  <2>2. IsPrefix(p, Append(p, n))
    BY <2>1 DEF IsPrefix
  <2>3. Last(Append(p, n)) = n
    BY <2>1 DEF Last
  <2>. QED BY <1>3, <2>1, <2>2, <2>3
<1>4. ASSUME IsFiniteSet(DOMAIN d) PROVE IsFiniteSet(NamesIn(d, p))
  <2>. DEFINE f == [q \in Q |-> Last(q)]
  <2>1. IsFiniteSet(Q)
    BY <1>4, FS_Subset
  <2>2. f \in Surjection(Q, NamesIn(d, p))
    <3>. HIDE DEF Q
    <3>. QED BY <1>1 DEF Surjection
  <2>. HIDE DEF f, Q
  <2>. QED BY <2>1, <2>2, FS_Surjection
<1>5. \A n : n \in NamesIn(d, p) <=> n \in Nat /\ Append(p, n) \in DOMAIN d
  <2>. SUFFICES ASSUME NEW n PROVE n \in NamesIn(d, p) <=> n \in Nat /\ Append(p, n) \in DOMAIN d
    OBVIOUS
  <2>1. ASSUME n \in NamesIn(d, p) PROVE n \in Nat /\ Append(p, n) \in DOMAIN d
    <3>1. PICK q \in Q : n = Last(q)
      BY <1>1, <2>1
    <3>. QED BY <1>2, <3>1
  <2>. HIDE DEF Q
  <2>. QED BY <1>1, <1>3, <2>1
<1>. QED BY <1>4, <1>5

\* The names of a directory in order.
LEMMA SortingIs ==
    ASSUME NEW S \in SUBSET Nat, IsFiniteSet(S), NEW s \in Sortings(S)
    PROVE  s \in Seq(S) /\ ToSet(s) = S
<1>1. Cardinality(S) \in Nat
  BY FS_CardinalityType
<1>2. s \in [1..Cardinality(S) -> S] /\ ToSet(s) = S
  BY DEF Sortings
<1>. QED BY <1>1, <1>2, SeqDef

-----------------------------------------------------------------------------
(* The tree *)
DiskInv ==
    /\ job \in Jobs
    /\ DOMAIN disk \subseteq DOMAIN job.disk
    /\ \A p \in DOMAIN disk : disk[p] \in File /\ disk[p].dir = job.disk[p].dir
    /\ \A p \in DOMAIN job.disk \ touched : p \in DOMAIN disk /\ disk[p] = job.disk[p]
    /\ \A p \in DOMAIN disk : \A n \in 0..(Len(p) - 1) : SubSeq(p, 1, n) \in DOMAIN disk

LEMMA DiskInit == Init => DiskInv
  BY DiffAssumption DEF Init, DiskInv

LEMMA PrefixBelow ==
    ASSUME NEW p \in Path, NEW q \in Path, NEW n \in 0..(Len(q) - 1),
           IsPrefix(p, SubSeq(q, 1, n))
    PROVE  IsPrefix(p, q)
<1>1. Len(q) \in Nat /\ Len(p) \in Nat
  BY DEF Path
<1>2. SubSeq(q, 1, n) \in Path /\ Len(SubSeq(q, 1, n)) = n
  BY <1>1 DEF Path
<1>3. Len(p) <= n /\ SubSeq(p, 1, Len(p)) = SubSeq(SubSeq(q, 1, n), 1, Len(p))
  BY <1>2 DEF IsPrefix
<1>4. SubSeq(SubSeq(q, 1, n), 1, Len(p)) = SubSeq(q, 1, Len(p))
  BY <1>1, <1>3 DEF Path
<1>. QED BY <1>1, <1>3, <1>4 DEF IsPrefix

\* Paths go away with all below them, and no path comes back.
LEMMA InterfereDisk ==
    ASSUME DiskInv, Interfere
    PROVE  /\ DiskInv' /\ DOMAIN disk' \subseteq DOMAIN disk
           /\ touched \subseteq touched' /\ touched' # {}
<1>0. DOMAIN job.disk \subseteq Path
  BY DiffAssumption DEF DiskInv
<1>1. PICK p \in (job.changes \ touched) \cap DOMAIN disk :
         \/ /\ disk' = [q \in DOMAIN disk \ {q \in DOMAIN disk : IsPrefix(p, q)} |-> disk[q]]
            /\ touched' = touched \cup {q \in DOMAIN disk : IsPrefix(p, q)}
         \/ /\ ~disk[p].dir /\ touched' = touched \cup {p}
            /\ disk' = [disk EXCEPT ![p].lines = <<[t |-> 1, v |-> 0, nl |-> TRUE]>>]
  BY DEF Interfere
<1>2. UNCHANGED job
  BY DEF Interfere
<1>3. CASE /\ disk' = [q \in DOMAIN disk \ {q \in DOMAIN disk : IsPrefix(p, q)} |-> disk[q]]
           /\ touched' = touched \cup {q \in DOMAIN disk : IsPrefix(p, q)}
  <2>. DEFINE gone == {q \in DOMAIN disk : IsPrefix(p, q)}
  <2>1. /\ DOMAIN disk' = DOMAIN disk \ gone /\ \A q \in DOMAIN disk \ gone : disk'[q] = disk[q]
        /\ touched' = touched \cup gone
    BY <1>3
  <2>2. p \in gone
    <3>1. p \in Path
      BY <1>0 DEF DiskInv
    <3>2. Len(p) \in Nat
      BY <3>1 DEF Path
    <3>. QED BY <3>2 DEF IsPrefix
  <2>3. ASSUME NEW q \in DOMAIN disk \ gone, NEW n \in 0..(Len(q) - 1)
        PROVE  SubSeq(q, 1, n) \in DOMAIN disk \ gone
    <3>1. SubSeq(q, 1, n) \in DOMAIN disk
      BY DEF DiskInv
    <3>2. p \in Path /\ q \in Path
      BY <1>0 DEF DiskInv
    <3>. QED BY <3>1, <3>2, PrefixBelow
  <2>. HIDE DEF gone
  <2>4. DiskInv'
    BY <1>2, <2>1, <2>3 DEF DiskInv
  <2>. QED BY <2>1, <2>2, <2>4
<1>4. CASE /\ ~disk[p].dir /\ touched' = touched \cup {p}
           /\ disk' = [disk EXCEPT ![p].lines = <<[t |-> 1, v |-> 0, nl |-> TRUE]>>]
  <2>. DEFINE new == <<[t |-> 1, v |-> 0, nl |-> TRUE]>>
              L == Seq([t : Nat, v : Nat, nl : BOOLEAN])
  <2>1. new \in L
    OBVIOUS
  <2>2. disk[p] \in [dir : BOOLEAN, lines : L]
    BY DEF DiskInv, File
  <2>. HIDE DEF new, L
  <2>3. [disk[p] EXCEPT !.lines = new] \in [dir : BOOLEAN, lines : L]
        /\ [disk[p] EXCEPT !.lines = new].dir = disk[p].dir
    BY <2>1, <2>2
  <2>4. /\ DOMAIN disk' = DOMAIN disk /\ disk'[p] = [disk[p] EXCEPT !.lines = new]
        /\ \A q \in DOMAIN disk \ {p} : disk'[q] = disk[q]
    BY <1>4 DEF new
  <2>5. \A q \in DOMAIN disk : disk'[q] \in File /\ disk'[q].dir = disk[q].dir
    BY <2>3, <2>4 DEF DiskInv, File, L
  <2>6. DiskInv'
    <3>1. \A q \in DOMAIN job.disk \ touched' : q \in DOMAIN disk' /\ disk'[q] = job.disk[q]
      BY <1>4, <2>4 DEF DiskInv
    <3>2. \A q \in DOMAIN disk' : disk'[q] \in File /\ disk'[q].dir = job.disk[q].dir
      BY <2>4, <2>5 DEF DiskInv
    <3>. QED BY <1>2, <2>4, <3>1, <3>2 DEF DiskInv
  <2>. QED BY <1>4, <2>4, <2>6
<1>. QED BY <1>1, <1>3, <1>4

\* All other steps only look at the tree.
Command == \/ Start \/ ReadLeft \/ ReadRight \/ NextName \/ EqualLeft \/ EqualRight
           \/ ReadA \/ ReadB \/ Write \/ AllDone \/ Over
LEMMA CommandKeepsTree ==
    ASSUME Command \/ UNCHANGED vars PROVE UNCHANGED world
  BY DEF Command, Start, ReadLeft, ReadRight, NextName, EqualLeft, EqualRight, ReadA, ReadB,
         Write, AllDone, Over, vars, world

LEMMA DiskNext == DiskInv /\ [Next]_vars => DiskInv'
<1>. SUFFICES ASSUME DiskInv, [Next]_vars PROVE DiskInv'
  OBVIOUS
<1>1. CASE Interfere
  BY <1>1, InterfereDisk
<1>2. CASE Command \/ UNCHANGED vars
  BY <1>2, CommandKeepsTree DEF world, DiskInv
<1>. QED BY <1>1, <1>2 DEF Next, Command

-----------------------------------------------------------------------------
(* The work list, when both operands are directories *)
Dirs == \A p \in {job.left, job.right} : p \in DOMAIN job.disk /\ job.disk[p].dir
Labels == {"start", "dir", "dir2", "next", "equal", "equal2", "read", "read2", "write", "done"}
Listing == {"dir", "dir2"}
Work == [what : {"both", "left only", "right only"}, p1 : Path, p2 : Path]

\* A pair is the two paths r below the operands.  r is a name that is compared; only
\* the pair in hand may be the operands themselves, or be about to be listed.
At(x, r) == x.p1 = job.left \o r /\ x.p2 = job.right \o r
Child(r) == r # <<>> /\ (job.recursive \/ Len(r) = 1)
Placed(i, r) ==
    /\ At(todo[i], r)
    /\ \/ Child(r) /\ (i = 1 /\ pc \in Listing => job.recursive)
       \/ r = <<>> /\ i = 1 /\ pc \in Listing \cup {"done"}
Walk ==
    /\ pc \in Labels /\ differed \in BOOLEAN
    /\ pc = "start" => out = <<>> /\ todo = <<>> /\ differed = FALSE
    /\ todo \in Seq(Work)
    /\ pc \notin {"start", "next", "done"} => todo # <<>>
    /\ \A i \in DOMAIN todo : \E r \in Path : Placed(i, r)

\* What has been read of the pair in hand.
Read(p, x) == /\ p \in DOMAIN job.disk /\ ~job.disk[p].dir
              /\ p \notin touched => x = job.disk[p].lines
AreDirs(x) == \A p \in {x.p1, x.p2} : p \in DOMAIN job.disk /\ job.disk[p].dir
Reading ==
    /\ pc \in Listing => AreDirs(Current)
    /\ pc = "dir2" => /\ NamesIn(disk, Current.p1) \subseteq names
                      /\ names \subseteq NamesIn(job.disk, Current.p1)
    /\ pc = "equal2" => Read(Current.p1, pre)
    /\ pc \in {"read2", "write"} => Read(Current.p1, a)
    /\ pc = "write" => Read(Current.p2, b)

TreeInv == DiskInv /\ (Dirs => Walk /\ Reading)

LEMMA WorkList ==
    ASSUME todo \in Seq(Work), todo # <<>>
    PROVE  /\ 1 \in DOMAIN todo /\ Current = todo[1] /\ Current \in Work
           /\ Tail(todo) \in Seq(Work)
           /\ \A i \in DOMAIN Tail(todo) : /\ i + 1 \in DOMAIN todo /\ i + 1 # 1
                                          /\ Tail(todo)[i] = todo[i + 1]
           /\ \A i \in DOMAIN todo : i # 1 => /\ i - 1 \in DOMAIN Tail(todo)
                                             /\ Tail(todo)[i - 1] = todo[i]
<1>1. Len(todo) \in Nat /\ Len(todo) # 0 /\ DOMAIN todo = 1..Len(todo)
  OBVIOUS
<1>2. Current = todo[1] /\ 1 \in DOMAIN todo
  BY <1>1 DEF Current
<1>3. Current \in Work
  BY <1>1, <1>2
<1>4. /\ Tail(todo) \in Seq(Work) /\ Len(Tail(todo)) = Len(todo) - 1
      /\ \A i \in 1..Len(todo) - 1 : Tail(todo)[i] = todo[i + 1]
  OBVIOUS
<1>5. DOMAIN Tail(todo) = 1..Len(todo) - 1
  BY <1>4
<1>6. \A i \in DOMAIN Tail(todo) : i + 1 \in DOMAIN todo /\ i + 1 # 1 /\ Tail(todo)[i] = todo[i + 1]
  BY <1>1, <1>4, <1>5
<1>7. ASSUME NEW i \in DOMAIN todo, i # 1
      PROVE  i - 1 \in DOMAIN Tail(todo) /\ Tail(todo)[i - 1] = todo[i]
  <2>1. i - 1 \in 1..Len(todo) - 1 /\ (i - 1) + 1 = i
    BY <1>1, <1>7
  <2>. QED BY <1>4, <1>5, <2>1
<1>. QED BY <1>2, <1>3, <1>4, <1>6, <1>7

\* The pair in hand is done.
LEMMA Popped ==
    ASSUME Walk, todo # <<>>, todo' = Tail(todo), pc' = "next", UNCHANGED job,
           differed' \in BOOLEAN
    PROVE  Walk'
<1>1. todo \in Seq(Work)
  BY DEF Walk
<1>2. ASSUME NEW i \in DOMAIN todo' PROVE \E r \in Path : Placed(i, r)'
  <2>1. i + 1 \in DOMAIN todo /\ i + 1 # 1 /\ todo'[i] = todo[i + 1]
    BY <1>1, WorkList
  <2>2. PICK r \in Path : Placed(i + 1, r)
    BY <2>1 DEF Walk
  <2>. QED BY <2>1, <2>2 DEF Placed, At, Child, Listing
<1>. QED BY <1>1, <1>2, WorkList DEF Walk, Labels

\* The pair in hand goes on to the next call, or the command ends.
LEMMA Carried ==
    ASSUME Walk, UNCHANGED <<job, todo, differed>>, pc # "start",
           pc' \in Labels \ {"start"}, pc' # "next" => todo # <<>> \/ pc' = "done",
           pc' \in Listing => pc \in Listing \/ job.recursive,
           pc \in Listing \cup {"done"} => pc' \in Listing \cup {"done"}
    PROVE  Walk'
<1>1. ASSUME NEW i \in DOMAIN todo PROVE \E r \in Path : Placed(i, r)'
  <2>1. PICK r \in Path : Placed(i, r)
    BY DEF Walk
  <2>2. CASE Child(r)
    BY <2>1, <2>2 DEF Placed, At, Child
  <2>3. CASE r = <<>>
    BY <2>1, <2>3 DEF Placed, At, Child, Listing
  <2>. QED BY <2>1, <2>2, <2>3 DEF Placed
<1>. QED BY <1>1 DEF Walk, Labels

\* The directories in hand are listed: their names take their place.
RightNames == NamesIn(disk, Current.p2)
Named(n) ==
    Pair(IF n \notin RightNames THEN "left only" ELSE IF n \notin names THEN "right only" ELSE "both",
         Append(Current.p1, n), Append(Current.p2, n))
LEMMA Expanded ==
    ASSUME todo \in Seq(Work), todo # <<>>, UnionNames(names, RightNames) \subseteq Nat,
           IsFiniteSet(UnionNames(names, RightNames)),
           NEW AllNames \in Sortings(UnionNames(names, RightNames)),
           todo' = [k \in DOMAIN AllNames |-> Named(AllNames[k])] \o Tail(todo)
    PROVE  /\ todo' \in Seq(Work)
           /\ \A i \in DOMAIN todo' :
                \/ \E n \in UnionNames(names, RightNames) : todo'[i] = Named(n)
                \/ \E j \in DOMAIN todo : j # 1 /\ todo'[i] = todo[j]
           /\ \A n \in UnionNames(names, RightNames) :
                \E i \in DOMAIN todo' : todo'[i] = Named(n)
           /\ \A j \in DOMAIN todo : j # 1 => \E i \in DOMAIN todo' : todo'[i] = todo[j]
<1>. DEFINE S == UnionNames(names, RightNames)
            new == [k \in DOMAIN AllNames |-> Named(AllNames[k])]
            rest == Tail(todo)
<1>1. S \in SUBSET Nat /\ IsFiniteSet(S) /\ AllNames \in Sortings(S)
  OBVIOUS
<1>2. AllNames \in Seq(S) /\ ToSet(AllNames) = S
  <2>. HIDE DEF S
  <2>. QED BY <1>1, SortingIs
<1>3. Current \in Work /\ rest \in Seq(Work)
  BY WorkList
<1>4. ASSUME NEW n \in S PROVE Named(n) \in Work
  <2>1. Append(Current.p1, n) \in Path /\ Append(Current.p2, n) \in Path
    <3>1. Current.p1 \in Path /\ Current.p2 \in Path /\ n \in Nat
      BY <1>1, <1>3 DEF Work
    <3>. QED BY <3>1, PathAppend
  <2>. QED BY <2>1 DEF Named, Pair, Work
<1>. HIDE DEF S
<1>5. Len(AllNames) \in Nat /\ DOMAIN AllNames = 1..Len(AllNames) /\ \A k \in 1..Len(AllNames) : AllNames[k] \in S
  BY <1>2
<1>6. new \in Seq(Work) /\ Len(new) = Len(AllNames)
      /\ \A k \in 1..Len(AllNames) : new[k] = Named(AllNames[k])
  <2>1. \A k \in 1..Len(AllNames) : Named(AllNames[k]) \in Work
    BY <1>4, <1>5
  <2>2. new \in [1..Len(AllNames) -> Work]
    BY <1>5, <2>1
  <2>. QED BY <1>5, <2>2
<1>7. todo' = new \o rest
  OBVIOUS
<1>. HIDE DEF new, rest
<1>8. /\ todo' \in Seq(Work) /\ Len(rest) \in Nat /\ DOMAIN rest = 1..Len(rest)
      /\ DOMAIN todo' = 1..Len(AllNames) + Len(rest)
      /\ \A i \in 1..Len(AllNames) + Len(rest) :
           todo'[i] = IF i <= Len(AllNames) THEN new[i] ELSE rest[i - Len(AllNames)]
  <2>1. /\ new \o rest \in Seq(Work) /\ Len(new \o rest) = Len(new) + Len(rest)
        /\ \A i \in 1..Len(new) + Len(rest) :
             (new \o rest)[i] = IF i <= Len(new) THEN new[i] ELSE rest[i - Len(new)]
    BY <1>3, <1>6, ConcatProperties
  <2>2. DOMAIN (new \o rest) = 1..Len(new \o rest)
    BY <2>1, LenProperties
  <2>3. Len(rest) \in Nat /\ DOMAIN rest = 1..Len(rest)
    BY <1>3, LenProperties
  <2>. QED BY <1>6, <1>7, <2>1, <2>2, <2>3
<1>9. ASSUME NEW i \in DOMAIN todo'
      PROVE  \/ \E n \in S : todo'[i] = Named(n)
             \/ \E j \in DOMAIN todo : j # 1 /\ todo'[i] = todo[j]
  <2>1. CASE i <= Len(AllNames)
    <3>1. i \in 1..Len(AllNames)
      BY <1>5, <1>8, <2>1
    <3>. QED BY <1>5, <1>6, <1>8, <2>1, <3>1
  <2>2. CASE ~(i <= Len(AllNames))
    <3>1. i - Len(AllNames) \in DOMAIN rest
      BY <1>5, <1>8, <2>2
    <3>2. todo'[i] = rest[i - Len(AllNames)]
      BY <1>8, <2>2
    <3>. QED BY <3>1, <3>2, WorkList DEF rest
  <2>. QED BY <2>1, <2>2
<1>10. ASSUME NEW n \in S PROVE \E i \in DOMAIN todo' : todo'[i] = Named(n)
  <2>1. PICK k \in 1..Len(AllNames) : AllNames[k] = n
    BY <1>2, <1>5 DEF ToSet
  <2>2. k \in DOMAIN todo' /\ k <= Len(AllNames)
    BY <1>5, <1>8
  <2>. QED BY <1>6, <1>8, <2>1, <2>2
<1>11. ASSUME NEW j \in DOMAIN todo, j # 1
       PROVE  \E i \in DOMAIN todo' : todo'[i] = todo[j]
  <2>1. j - 1 \in DOMAIN rest /\ rest[j - 1] = todo[j]
    BY <1>11, WorkList DEF rest
  <2>2. /\ Len(AllNames) + (j - 1) \in DOMAIN todo' /\ ~(Len(AllNames) + (j - 1) <= Len(AllNames))
        /\ (Len(AllNames) + (j - 1)) - Len(AllNames) = j - 1
    BY <1>5, <1>8, <2>1
  <2>. QED BY <1>8, <2>1, <2>2
<1>. QED BY <1>8, <1>9, <1>10, <1>11 DEF S

\* What the operands and the pair in hand are.
LEMMA Operands ==
    ASSUME DiskInv, Dirs
    PROVE  /\ DOMAIN job.disk \subseteq Path /\ DOMAIN disk \subseteq Path
           /\ IsFiniteSet(DOMAIN job.disk) /\ IsFiniteSet(DOMAIN disk)
           /\ job.left \in Path /\ job.right \in Path /\ job.left # Dash /\ job.right # Dash
<1>1. DOMAIN job.disk \subseteq Path /\ DOMAIN disk \subseteq Path /\ IsFiniteSet(DOMAIN job.disk)
  BY DiffAssumption DEF DiskInv
<1>2. IsFiniteSet(DOMAIN disk)
  BY <1>1, FS_Subset DEF DiskInv
<1>3. job.left \in Path /\ job.right \in Path
  BY <1>1 DEF Dirs
<1>. QED BY <1>1, <1>2, <1>3, PathEmpty

LEMMA InHand ==
    ASSUME DiskInv, Walk, todo # <<>>
    PROVE  /\ Current \in Work /\ Current.p1 \in Path /\ Current.p2 \in Path
           /\ Current.p1 # Dash /\ Current.p2 # Dash
           /\ \E r \in Path : Placed(1, r) /\ At(Current, r)
<1>1. Current \in Work /\ 1 \in DOMAIN todo /\ Current = todo[1]
  BY WorkList DEF Walk
<1>2. Current.p1 \in Path /\ Current.p2 \in Path
  BY <1>1 DEF Work
<1>3. \E r \in Path : Placed(1, r)
  BY <1>1 DEF Walk
<1>. QED BY <1>1, <1>2, <1>3, PathEmpty DEF Placed

\* A file that is read: what it was at first, unless it was touched.
LEMMA ReadFile ==
    ASSUME DiskInv, NEW p \in Path, Readable(p)
    PROVE  Read(p, Content(p))
<1>1. p # Dash
  BY PathEmpty
<1>. QED BY <1>1 DEF Readable, Exists, Content, Read, DiskInv

LEMMA IsDirectoryFacts ==
    ASSUME DiskInv, NEW p \in Path
    PROVE  /\ IsDirectory(p) <=> p \in DOMAIN disk /\ disk[p].dir
           /\ IsDirectory(p) => p \in DOMAIN job.disk /\ job.disk[p].dir
           /\ p \in DOMAIN job.disk /\ job.disk[p].dir /\ p \in DOMAIN disk => IsDirectory(p)
  BY PathEmpty DEF IsDirectory, Exists, DiskInv

LEMMA SeenFacts ==
    ASSUME NEW p, NEW d \in SeenAsDirectory(p)
    PROVE  /\ d \in BOOLEAN /\ (d => IsDirectory(p))
           /\ p \notin job.faulty => (d <=> IsDirectory(p))
  BY DEF SeenAsDirectory, IsDirectory

LEMMA TreeStart ==
    ASSUME DiskInv, Dirs, Walk, Start
    PROVE  /\ Walk' /\ Reading' /\ UNCHANGED <<job, out, differed>>
           /\ \/ pc' = "done" /\ todo' = <<>> /\ status' = "2"
                 /\ \E p \in {job.left, job.right} : p \notin DOMAIN disk \/ p \in job.faulty
              \/ /\ pc' = "dir" /\ todo' = <<Pair("both", job.left, job.right)>>
                 /\ IsDirectory(job.left) /\ IsDirectory(job.right) /\ UNCHANGED status
<1>. DEFINE l == job.left
            r == job.right
            missing == {p \in {l, r} : p # Dash /\ ~Exists(p)}
<1>0. pc = "start" /\ UNCHANGED <<job, disk, touched, stdin, names, pre, a, b, differed, out>>
  BY DEF Start, world
<1>1. todo = <<>> /\ differed = FALSE /\ out = <<>>
  BY <1>0 DEF Walk
<1>2. l \in Path /\ r \in Path /\ l # Dash /\ r # Dash
  BY Operands
<1>3. CASE /\ missing # {} \/ \E p \in {l, r} : p # Dash /\ p \in job.faulty
           /\ Ends("2") /\ UNCHANGED todo
  <2>1. pc' = "done" /\ status' = "2" /\ todo' = todo
    BY <1>3 DEF Ends
  <2>2. Walk'
    BY <1>0, <1>1, <2>1 DEF Walk, Labels
  <2>. QED BY <1>0, <1>1, <1>3, <2>1, <2>2 DEF Reading, Exists, Listing
<1>4. CASE /\ missing = {} /\ UNCHANGED status
           /\ pc' = IF IsDirectory(l) /\ IsDirectory(r) THEN "dir" ELSE "read"
           /\ IsDirectory(l) /\ IsDirectory(r) => todo' = <<Pair("both", l, r)>>
  <2>1. l \in DOMAIN disk /\ r \in DOMAIN disk
    BY <1>2, <1>4 DEF Exists
  <2>2. IsDirectory(l) /\ IsDirectory(r)
    BY <1>2, <2>1, IsDirectoryFacts DEF Dirs
  <2>3. pc' = "dir" /\ todo' = <<Pair("both", l, r)>> /\ UNCHANGED status
    BY <1>4, <2>2
  <2>4. todo' \in Seq(Work) /\ DOMAIN todo' = {1} /\ todo'[1] = Pair("both", l, r) /\ todo' # <<>>
    <3>1. Pair("both", l, r) \in Work
      BY <1>2 DEF Pair, Work
    <3>. QED BY <2>3, <3>1
  <2>5. <<>> \in Path /\ Placed(1, <<>>)'
    BY <1>0, <1>2, <2>3, <2>4, PathEmpty DEF Placed, At, Pair, Listing
  <2>6. Walk'
    BY <1>0, <1>1, <2>3, <2>4, <2>5 DEF Walk, Labels
  <2>7. AreDirs(Current)'
    BY <1>0, <2>3, <2>4 DEF AreDirs, Current, Pair, Dirs
  <2>. QED BY <1>0, <2>2, <2>3, <2>6, <2>7 DEF Reading, Listing
<1>. QED BY <1>3, <1>4 DEF Start

LEMMA TreeReadLeft ==
    ASSUME DiskInv, Dirs, Walk, Reading, ReadLeft
    PROVE  Walk' /\ Reading'
<1>0. /\ pc = "dir" /\ todo # <<>>
      /\ UNCHANGED <<job, disk, touched, stdin, todo, pre, a, b, differed, out>>
  BY DEF ReadLeft, world, Walk
<1>1. pc' \in {"dir2", "done"}
  BY DEF ReadLeft, Ends
<1>2. Walk'
  BY <1>0, <1>1, Carried DEF Labels, Listing
<1>3. CASE pc' = "dir2"
  <2>1. names' = NamesIn(disk, Current.p1)
    BY <1>3 DEF ReadLeft, Ends
  <2>2. Current' = Current
    BY <1>0 DEF Current
  <2>3. Current.p1 \in Path
    BY <1>0, InHand
  <2>4. AreDirs(Current)'
    BY <1>0, <2>2 DEF Reading, Listing, AreDirs
  <2>5. NamesIn(disk, Current.p1) \subseteq NamesIn(job.disk, Current.p1)
    BY <2>3, NamesAre, Operands DEF DiskInv
  <2>. QED BY <1>0, <1>2, <1>3, <2>1, <2>2, <2>4, <2>5 DEF Reading
<1>4. CASE pc' = "done"
  BY <1>2, <1>4 DEF Reading, Listing
<1>. QED BY <1>1, <1>3, <1>4

\* Both directories are listed: each name of them is a pair of its own.
LEMMA RightListed ==
    ASSUME DiskInv, Dirs, Walk, Reading, ReadRight, pc' # "done"
    PROVE  /\ todo' \in Seq(Work) /\ pc' = "next" /\ UNCHANGED status
           /\ names \subseteq Nat /\ RightNames \subseteq Nat
           /\ \A i \in DOMAIN todo' :
                \/ \E n \in names \cup RightNames : todo'[i] = Named(n)
                \/ \E j \in DOMAIN todo : j # 1 /\ todo'[i] = todo[j]
           /\ \A n \in names \cup RightNames :
                \E i \in DOMAIN todo' : todo'[i] = Named(n)
           /\ \A j \in DOMAIN todo : j # 1 => \E i \in DOMAIN todo' : todo'[i] = todo[j]
<1>0. pc = "dir2" /\ todo # <<>> /\ todo \in Seq(Work)
  BY DEF ReadRight, Walk
<1>1. /\ pc' = "next" /\ UNCHANGED status
      /\ \E all \in Sortings(UnionNames(names, RightNames)) :
           todo' = [k \in DOMAIN all |-> Named(all[k])] \o Tail(todo)
  BY DEF ReadRight, Named, RightNames, Ends
<1>2. Current.p1 \in Path /\ Current.p2 \in Path
  BY <1>0, InHand
<1>3. RightNames \subseteq Nat /\ IsFiniteSet(RightNames)
  BY <1>2, NamesAre, Operands DEF RightNames
<1>4. names \subseteq Nat /\ IsFiniteSet(names)
  <2>1. names \subseteq NamesIn(job.disk, Current.p1)
    BY <1>0 DEF Reading
  <2>2. /\ NamesIn(job.disk, Current.p1) \subseteq Nat
        /\ IsFiniteSet(NamesIn(job.disk, Current.p1))
    BY <1>2, NamesAre, Operands
  <2>. QED BY <2>1, <2>2, FS_Subset
<1>5. UnionNames(names, RightNames) = names \cup RightNames
  BY DEF UnionNames
<1>6. UnionNames(names, RightNames) \subseteq Nat /\ IsFiniteSet(UnionNames(names, RightNames))
  BY <1>3, <1>4, <1>5, FS_Union
<1>7. /\ todo' \in Seq(Work)
      /\ \A i \in DOMAIN todo' :
           \/ \E n \in UnionNames(names, RightNames) : todo'[i] = Named(n)
           \/ \E j \in DOMAIN todo : j # 1 /\ todo'[i] = todo[j]
      /\ \A n \in UnionNames(names, RightNames) :
           \E i \in DOMAIN todo' : todo'[i] = Named(n)
      /\ \A j \in DOMAIN todo : j # 1 => \E i \in DOMAIN todo' : todo'[i] = todo[j]
  <2>1. PICK all \in Sortings(UnionNames(names, RightNames)) :
               todo' = [k \in DOMAIN all |-> Named(all[k])] \o Tail(todo)
    BY <1>1
  <2>. QED BY <1>0, <1>6, <2>1, Expanded
<1>. QED BY <1>1, <1>3, <1>4, <1>5, <1>7, Zenon

\* Where the pairs of the new list are.
LEMMA NamedPlace ==
    ASSUME Dirs, DiskInv, NEW r \in Path, At(Current, r), NEW n \in Nat
    PROVE  /\ Append(r, n) \in Path /\ At(Named(n), Append(r, n))
           /\ Append(r, n) # <<>> /\ Len(Append(r, n)) = Len(r) + 1
<1>1. job.left \in Path /\ job.right \in Path
  BY Operands
<1>2. /\ Append(job.left \o r, n) = job.left \o Append(r, n)
      /\ Append(job.right \o r, n) = job.right \o Append(r, n)
  BY <1>1, PathAppend
<1>3. /\ Named(n).p1 = Append(Current.p1, n)
      /\ Named(n).p2 = Append(Current.p2, n)
  BY DEF Named, Pair
<1>4. At(Named(n), Append(r, n))
  BY <1>2, <1>3 DEF At
<1>. QED BY <1>1, <1>4, PathAppend

LEMMA TreeReadRight ==
    ASSUME DiskInv, Dirs, Walk, Reading, ReadRight
    PROVE  Walk' /\ Reading'
<1>0. /\ pc = "dir2" /\ todo # <<>>
      /\ UNCHANGED <<job, disk, touched, stdin, names, pre, a, b, differed, out>>
  BY DEF ReadRight, world, Walk
<1>1. CASE pc' = "done"
  <2>1. UNCHANGED todo
    BY <1>1 DEF ReadRight, Ends
  <2>2. Walk'
    BY <1>0, <1>1, <2>1, Carried DEF Labels, Listing
  <2>. QED BY <1>1, <2>2 DEF Reading, Listing
<1>2. CASE pc' # "done"
  <2>1. /\ todo' \in Seq(Work) /\ pc' = "next" /\ names \subseteq Nat /\ RightNames \subseteq Nat
        /\ \A i \in DOMAIN todo' :
             \/ \E n \in names \cup RightNames : todo'[i] = Named(n)
             \/ \E j \in DOMAIN todo : j # 1 /\ todo'[i] = todo[j]
    BY <1>2, RightListed
  <2>2. PICK r \in Path : Placed(1, r) /\ At(Current, r)
    BY <1>0, InHand
  <2>3. ASSUME NEW i \in DOMAIN todo' PROVE \E x \in Path : Placed(i, x)'
    <3>1. CASE \E n \in names \cup RightNames : todo'[i] = Named(n)
      <4>1. PICK n \in names \cup RightNames : todo'[i] = Named(n)
        BY <3>1
      <4>2. n \in Nat
        BY <2>1
      <4>3. /\ Append(r, n) \in Path /\ At(todo'[i], Append(r, n))
            /\ Append(r, n) # <<>> /\ Len(Append(r, n)) = Len(r) + 1
        BY <2>2, <4>1, <4>2, NamedPlace
      <4>4. job.recursive \/ Len(Append(r, n)) = 1
        <5>1. job.recursive \/ r = <<>>
          BY <1>0, <2>2 DEF Placed, Listing
        <5>2. r = <<>> => Len(r) = 0
          BY PathEmpty
        <5>. QED BY <4>3, <5>1, <5>2
      <4>5. Child(Append(r, n))
        BY <4>3, <4>4 DEF Child
      <4>. QED BY <1>0, <2>1, <4>3, <4>5 DEF Placed, At, Child, Listing
    <3>2. CASE \E j \in DOMAIN todo : j # 1 /\ todo'[i] = todo[j]
      <4>1. PICK j \in DOMAIN todo : j # 1 /\ todo'[i] = todo[j]
        BY <3>2
      <4>2. PICK x \in Path : Placed(j, x)
        BY DEF Walk
      <4>. QED BY <1>0, <2>1, <4>1, <4>2 DEF Placed, At, Child, Listing
    <3>. QED BY <2>1, <3>1, <3>2
  <2>4. Walk'
    BY <1>0, <2>1, <2>3 DEF Walk, Labels
  <2>. QED BY <2>1, <2>4 DEF Reading, Listing
<1>. QED BY <1>1, <1>2

\* The steps for one name.
LEMMA TreeNextName ==
    ASSUME DiskInv, Dirs, Walk, NextName
    PROVE  Walk' /\ Reading'
<1>0. pc = "next" /\ todo # <<>> /\ UNCHANGED <<job, disk, touched, stdin, names, pre, a, b, status>>
  BY DEF NextName, world
<1>1. CASE todo' = Tail(todo) /\ UNCHANGED pc
  <2>1. differed' \in BOOLEAN
    BY <1>1 DEF NextName, Walk
  <2>2. Walk'
    BY <1>0, <1>1, <2>1, Popped
  <2>. QED BY <1>0, <1>1, <2>2 DEF Reading, Listing
<1>2. CASE /\ pc' = "dir" /\ job.recursive /\ UNCHANGED <<todo, differed, out>>
           /\ IsDirectory(Current.p1) /\ IsDirectory(Current.p2)
  <2>1. Walk'
    BY <1>0, <1>2, Carried DEF Labels, Listing
  <2>2. Current.p1 \in Path /\ Current.p2 \in Path
    BY <1>0, InHand
  <2>3. AreDirs(Current)
    BY <1>2, <2>2, IsDirectoryFacts DEF AreDirs
  <2>4. AreDirs(Current)'
    BY <1>0, <1>2, <2>3 DEF AreDirs, Current
  <2>. QED BY <1>2, <2>1, <2>4 DEF Reading
<1>3. CASE pc' = "equal" /\ UNCHANGED <<todo, differed, out>>
  <2>1. Walk'
    BY <1>0, <1>3, Carried DEF Labels, Listing
  <2>. QED BY <1>3, <2>1 DEF Reading, Listing
<1>4. PICK d1 \in SeenAsDirectory(Current.p1), d2 \in SeenAsDirectory(Current.p2) :
         \/ todo' = Tail(todo) /\ UNCHANGED pc
         \/ d1 /\ d2 /\ pc' = "dir" /\ job.recursive /\ UNCHANGED <<todo, differed, out>>
         \/ pc' = "equal" /\ UNCHANGED <<todo, differed, out>>
  BY DEF NextName
<1>5. (d1 => IsDirectory(Current.p1)) /\ (d2 => IsDirectory(Current.p2))
  BY SeenFacts
<1>. QED BY <1>1, <1>2, <1>3, <1>4, <1>5

LEMMA TreeEqual ==
    ASSUME DiskInv, Dirs, Walk, Reading, EqualLeft \/ EqualRight
    PROVE  Walk' /\ Reading'
<1>0. /\ pc \in {"equal", "equal2"} /\ todo # <<>> /\ pc' \in {"equal2", "read"}
      /\ UNCHANGED <<job, disk, touched, stdin, todo, names, a, b, differed, status>>
  BY DEF EqualLeft, EqualRight, world, Walk
<1>1. Walk'
  BY <1>0, Carried DEF Labels, Listing
<1>2. CASE pc' = "equal2"
  <2>1. Readable(Current.p1) /\ pre' = Content(Current.p1)
    BY <1>0, <1>2 DEF EqualLeft, EqualRight, Fails
  <2>2. Current.p1 \in Path
    BY <1>0, InHand
  <2>3. Read(Current.p1, pre')
    BY <2>1, <2>2, ReadFile
  <2>. QED BY <1>0, <1>1, <1>2, <2>3 DEF Reading, Read, Current, Listing
<1>3. CASE pc' = "read"
  BY <1>1, <1>3 DEF Reading, Listing
<1>. QED BY <1>0, <1>2, <1>3

LEMMA TreeRead ==
    ASSUME DiskInv, Dirs, Walk, Reading, ReadA \/ ReadB
    PROVE  Walk' /\ Reading'
<1>0. /\ pc \in {"read", "read2"} /\ todo # <<>> /\ pc' \in {"read2", "write", "done"}
      /\ UNCHANGED <<job, disk, touched, todo, names, pre, differed, out>>
  BY DEF ReadA, ReadB, Ends, world, Walk
<1>1. Walk'
  BY <1>0, Carried DEF Labels, Listing
<1>2. Current.p1 \in Path /\ Current.p2 \in Path
  BY <1>0, InHand
<1>3. CASE pc' = "read2"
  <2>1. Readable(Current.p1) /\ a' = Content(Current.p1)
    BY <1>3 DEF ReadA, ReadB, Ends
  <2>2. Read(Current.p1, a')
    BY <1>2, <2>1, ReadFile
  <2>. QED BY <1>0, <1>1, <1>3, <2>2 DEF Reading, Read, Current, Listing
<1>4. CASE pc' = "write"
  <2>1. pc = "read2" /\ Readable(Current.p2) /\ b' = Content(Current.p2) /\ UNCHANGED a
    BY <1>4 DEF ReadA, ReadB, Ends
  <2>2. Read(Current.p2, b')
    BY <1>2, <2>1, ReadFile
  <2>3. Read(Current.p1, a)
    BY <2>1 DEF Reading
  <2>. QED BY <1>0, <1>1, <1>4, <2>1, <2>2, <2>3 DEF Reading, Read, Current, Listing
<1>5. CASE pc' = "done"
  BY <1>1, <1>5 DEF Reading, Listing
<1>. QED BY <1>0, <1>3, <1>4, <1>5

LEMMA TreeWrite ==
    ASSUME DiskInv, Dirs, Walk, Write \/ AllDone
    PROVE  Walk' /\ Reading'
<1>1. CASE Write
  <2>1. /\ pc = "write" /\ todo # <<>> /\ pc' = "next" /\ todo' = Tail(todo)
        /\ UNCHANGED job /\ differed' \in BOOLEAN
    BY <1>1 DEF Write, world, Walk
  <2>2. Walk'
    BY <2>1, Popped
  <2>. QED BY <2>1, <2>2 DEF Reading, Listing
<1>2. CASE AllDone
  <2>1. pc = "next" /\ pc' = "done" /\ UNCHANGED <<job, todo, differed>>
    BY <1>2 DEF AllDone, Ends, world
  <2>2. Walk'
    BY <2>1, Carried DEF Labels, Listing
  <2>. QED BY <2>1, <2>2 DEF Reading, Listing
<1>. QED BY <1>1, <1>2

LEMMA TreeInterfere ==
    ASSUME DiskInv, Dirs, Walk, Reading, Interfere
    PROVE  Walk' /\ Reading'
<1>0. /\ DiskInv' /\ DOMAIN disk' \subseteq DOMAIN disk /\ touched \subseteq touched'
      /\ UNCHANGED <<job, stdin, pc, todo, names, pre, a, b, differed, out, status>>
  BY InterfereDisk DEF Interfere
<1>1. Walk'
  <2>1. \A i \in DOMAIN todo : \A r \in Path : Placed(i, r)' <=> Placed(i, r)
    BY <1>0 DEF Placed, At, Child
  <2>. QED BY <1>0, <2>1 DEF Walk
<1>2. CASE pc = "dir2"
  <2>1. Current.p1 \in Path /\ Current' = Current
    BY <1>0, <1>2, InHand DEF Walk, Current
  <2>2. NamesIn(disk', Current.p1) \subseteq NamesIn(disk, Current.p1)
    <3>1. DOMAIN disk \subseteq Path
      BY Operands
    <3>. QED BY <1>0, <2>1, <3>1, NamesAre
  <2>. QED BY <1>0, <1>1, <1>2, <2>1, <2>2 DEF Reading, AreDirs
<1>3. CASE pc # "dir2"
  BY <1>0, <1>1, <1>3 DEF Reading, Read, Current, AreDirs
<1>. QED BY <1>2, <1>3

LEMMA TreeInit == Init => TreeInv
<1>. SUFFICES ASSUME Init PROVE DiskInv /\ Walk /\ Reading
  BY DEF TreeInv
<1>1. Walk
  <2>1. todo = <<>> /\ pc = "start" /\ differed = FALSE /\ out = <<>>
    BY DEF Init
  <2>2. <<>> \in Seq(Work) /\ DOMAIN <<>> = {}
    OBVIOUS
  <2>. QED BY <2>1, <2>2 DEF Walk, Labels
<1>2. Reading
  BY DEF Init, Reading, Listing
<1>. QED BY <1>1, <1>2, DiskInit

LEMMA TreeNext == TreeInv /\ [Next]_vars => TreeInv'
<1>. SUFFICES ASSUME TreeInv, [Next]_vars PROVE TreeInv'
  OBVIOUS
<1>1. DiskInv /\ DiskInv'
  BY DiskNext DEF TreeInv
<1>2. UNCHANGED job
  <2>1. CASE Interfere
    BY <2>1 DEF Interfere
  <2>2. CASE Command \/ UNCHANGED vars
    BY <2>2, CommandKeepsTree DEF world
  <2>. QED BY <2>1, <2>2 DEF Next, Command
<1>3. ASSUME Dirs PROVE Walk' /\ Reading'
  <2>0. Walk /\ Reading
    BY <1>3 DEF TreeInv
  <2>1. CASE Start
    BY <1>1, <1>3, <2>0, <2>1, TreeStart
  <2>2. CASE ReadLeft
    BY <1>1, <1>3, <2>0, <2>2, TreeReadLeft
  <2>3. CASE ReadRight
    BY <1>1, <1>3, <2>0, <2>3, TreeReadRight
  <2>4. CASE NextName
    BY <1>1, <1>3, <2>0, <2>4, TreeNextName
  <2>5. CASE EqualLeft \/ EqualRight
    BY <1>1, <1>3, <2>0, <2>5, TreeEqual
  <2>6. CASE ReadA \/ ReadB
    BY <1>1, <1>3, <2>0, <2>6, TreeRead
  <2>7. CASE Write \/ AllDone
    BY <1>1, <1>3, <2>0, <2>7, TreeWrite
  <2>8. CASE Interfere
    BY <1>1, <1>3, <2>0, <2>8, TreeInterfere
  <2>9. CASE UNCHANGED vars
    <3>1. Walk'
      BY <2>0, <2>9, ZenonT(30) DEF vars, Walk, Placed, At, Child
    <3>2. Reading'
      BY <2>0, <2>9 DEF vars, Reading, Read, Current, NamesIn, AreDirs
    <3>. QED BY <3>1, <3>2
  <2>. QED BY <2>1, <2>2, <2>3, <2>4, <2>5, <2>6, <2>7, <2>8, <2>9 DEF Next, Over
<1>. QED BY <1>1, <1>2, <1>3 DEF TreeInv, Dirs

-----------------------------------------------------------------------------
(* The header *)
IsSequence(s) == s \in Seq({s[k] : k \in DOMAIN s})
Quiet(x) == {x.p1, x.p2} \cap (touched \cup job.faulty) = {}

\* A script has its header, and a header its script, if nobody has touched the files
\* and no call on them may fail.
Settles(k) ==
    Quiet(out[k]) =>
        /\ out[k].what = "script" => k > 1 /\ out[k - 1] = Pair("diff", out[k].p1, out[k].p2)
        /\ out[k].what = "diff" => k < Len(out) /\ out[k + 1].what = "script"

\* The header for the pair in hand is printed, if the files differ.
Pending == pc \in {"read", "read2", "write"}
HeadPrinted == out # <<>> /\ out[Len(out)] = Pair("diff", Current.p1, Current.p2)
SameFiles ==
    /\ Current.p1 \in DOMAIN job.disk /\ ~job.disk[Current.p1].dir
    /\ Current.p2 \in DOMAIN job.disk /\ ~job.disk[Current.p2].dir
    /\ Same(job.disk[Current.p1].lines, job.disk[Current.p2].lines)
Headers ==
    /\ IsSequence(out)
    /\ pc # "done" =>
         /\ \A k \in DOMAIN out : Settles(k) \/ (Pending /\ k = Len(out) /\ HeadPrinted)
         /\ Pending /\ Quiet(Current) => (HeadPrinted <=> ~SameFiles)
HeaderIInv == TreeInv /\ (Dirs /\ ~job.brief => Headers)

LEMMA SequenceIs ==
    ASSUME NEW s, IsSequence(s)
    PROVE  Len(s) \in Nat /\ DOMAIN s = 1..Len(s) /\ (s = <<>> <=> Len(s) = 0)
  BY DEF IsSequence

LEMMA Said ==
    ASSUME IsSequence(out), NEW e, out' = Append(out, e)
    PROVE  /\ IsSequence(out') /\ Len(out') = Len(out) + 1 /\ DOMAIN out' = 1..Len(out) + 1
           /\ \A k \in 1..Len(out) : out'[k] = out[k]
           /\ out'[Len(out) + 1] = e /\ out' # <<>>
<1>. DEFINE S == {out[k] : k \in DOMAIN out} \cup {e}
            t == Append(out, e)
<1>1. out \in Seq(S) /\ e \in S
  <2>1. out \in Seq({out[k] : k \in DOMAIN out})
    BY DEF IsSequence
  <2>. QED BY <2>1, SeqMonotonic
<1>. HIDE DEF S
<1>2. /\ t \in Seq(S) /\ Len(t) = Len(out) + 1 /\ DOMAIN t = 1..Len(out) + 1 /\ Len(out) \in Nat
      /\ \A k \in 1..Len(out) : t[k] = out[k]
      /\ t[Len(out) + 1] = e /\ t # <<>>
  BY <1>1
<1>. HIDE DEF t
<1>3. IsSequence(t)
  <2>1. t \in [1..Len(t) -> {t[k] : k \in DOMAIN t}]
    BY <1>2
  <2>2. Len(t) \in Nat
    BY <1>2
  <2>. QED BY <2>1, <2>2, SeqDef DEF IsSequence
<1>. QED BY <1>2, <1>3 DEF t

\* What is settled stays so, whatever is printed and touched after it.
LEMMA StaysSettled ==
    ASSUME IsSequence(out), NEW e, out' = Append(out, e) \/ out' = out, touched \subseteq touched',
           UNCHANGED job, NEW k \in DOMAIN out, Settles(k)
    PROVE  Settles(k)'
<1>1. Len(out) \in Nat /\ DOMAIN out = 1..Len(out)
  BY SequenceIs
<1>2. k \in 1..Len(out) /\ (k > 1 => k - 1 \in 1..Len(out)) /\ (k < Len(out) => k + 1 \in 1..Len(out))
  BY <1>1
<1>3. Len(out') >= Len(out) /\ Len(out') \in Nat /\ \A i \in 1..Len(out) : out'[i] = out[i]
  <2>1. CASE out' = out
    BY <1>1, <2>1
  <2>2. CASE out' = Append(out, e)
    <3>1. Len(out') = Len(out) + 1 /\ \A i \in 1..Len(out) : out'[i] = out[i]
      BY <2>2, Said
    <3>. QED BY <1>1, <3>1
  <2>. QED BY <2>1, <2>2
<1>4. {out'[k].p1, out'[k].p2} \cap (touched' \cup job'.faulty) = {} => Quiet(out[k])
  BY <1>2, <1>3 DEF Quiet
<1>5. ASSUME k < Len(out) PROVE k < Len(out') /\ out'[k + 1] = out[k + 1]
  BY <1>1, <1>2, <1>3, <1>5
<1>6. ASSUME k > 1 PROVE out'[k - 1] = out[k - 1]
  BY <1>2, <1>3, <1>6
<1>. QED BY <1>2, <1>3, <1>4, <1>5, <1>6 DEF Settles, Pair, Quiet

\* Printing anything but a header, with a script only after its header.
LEMMA SayEvent ==
    ASSUME IsSequence(out), NEW e, out' = Append(out, e), UNCHANGED <<job, touched>>,
           e.what # "diff",
           \A k \in DOMAIN out :
              Settles(k) \/ (k = Len(out) /\ out[k].what = "diff" /\ e.what = "script"),
           e.what = "script" /\ Quiet(e) =>
              out # <<>> /\ out[Len(out)] = Pair("diff", e.p1, e.p2)
    PROVE  IsSequence(out)' /\ \A k \in DOMAIN out' : Settles(k)'
<1>1. /\ IsSequence(out') /\ Len(out') = Len(out) + 1 /\ DOMAIN out' = 1..Len(out) + 1
      /\ \A k \in 1..Len(out) : out'[k] = out[k]
      /\ out'[Len(out) + 1] = e
  BY Said
<1>2. Len(out) \in Nat /\ DOMAIN out = 1..Len(out) /\ (out = <<>> <=> Len(out) = 0)
  BY SequenceIs
<1>3. ASSUME NEW k \in DOMAIN out PROVE Settles(k)'
  <2>1. CASE Settles(k)
    BY <2>1, StaysSettled
  <2>2. CASE k = Len(out) /\ out[k].what = "diff" /\ e.what = "script"
    <3>1. out'[k] = out[k] /\ out'[k + 1] = e /\ k < Len(out')
      BY <1>1, <1>2, <2>2
    <3>. QED BY <2>2, <3>1 DEF Settles
  <2>. QED BY <2>1, <2>2
<1>4. ASSUME NEW k, k = Len(out) + 1 PROVE Settles(k)'
  <2>1. out'[k] = e /\ k - 1 = Len(out)
    BY <1>1, <1>2, <1>4
  <2>2. ASSUME Quiet(e), e.what = "script"
        PROVE  k > 1 /\ out'[k - 1] = Pair("diff", e.p1, e.p2)
    <3>1. Len(out) # 0 /\ out[Len(out)] = Pair("diff", e.p1, e.p2)
      BY <1>2, <2>2
    <3>2. k > 1 /\ Len(out) \in 1..Len(out)
      BY <1>2, <1>4, <3>1
    <3>. QED BY <1>1, <2>1, <3>1, <3>2
  <2>. QED BY <2>1, <2>2 DEF Settles, Quiet, Pair
<1>5. \A k \in DOMAIN out' : k \in DOMAIN out \/ k = Len(out) + 1
  BY <1>1, <1>2
<1>. QED BY <1>1, <1>3, <1>4, <1>5

\* Outside of Pending a header for the pair in hand has not been printed, or is old.
LEMMA NoHeadYet ==
    ASSUME Headers, pc # "done", ~Pending, Quiet(Current)
    PROVE  ~HeadPrinted
<1>. SUFFICES ASSUME HeadPrinted PROVE FALSE
  OBVIOUS
<1>1. Len(out) \in Nat /\ DOMAIN out = 1..Len(out) /\ Len(out) # 0
  BY SequenceIs DEF Headers, HeadPrinted
<1>2. Len(out) \in DOMAIN out /\ ~(Len(out) < Len(out))
  BY <1>1
<1>3. Settles(Len(out))
  BY <1>2 DEF Headers
<1>4. out[Len(out)] = Pair("diff", Current.p1, Current.p2)
  BY DEF HeadPrinted
<1>5. Quiet(out[Len(out)]) /\ out[Len(out)].what = "diff"
  BY <1>4 DEF Quiet, Pair
<1>. QED BY <1>2, <1>3, <1>5 DEF Settles

\* Nothing is printed, outside of Pending or within it.
LEMMA HeadersStay ==
    ASSUME Headers, pc # "done", UNCHANGED <<job, out, touched>>,
           \/ pc' = "done"
           \/ ~Pending /\ ~Pending'
           \/ Pending /\ Pending' /\ UNCHANGED todo
    PROVE  Headers'
<1>1. IsSequence(out')
  BY DEF Headers
<1>2. \A k \in DOMAIN out : Settles(k) => Settles(k)'
  BY DEF Settles, Quiet
<1>3. CASE pc' = "done"
  BY <1>1, <1>3 DEF Headers
<1>4. CASE ~Pending /\ ~Pending'
  BY <1>1, <1>2, <1>4 DEF Headers
<1>5. CASE Pending /\ Pending' /\ UNCHANGED todo
  <2>1. Current' = Current /\ (HeadPrinted' <=> HeadPrinted) /\ (Quiet(Current)' <=> Quiet(Current))
    BY <1>5 DEF Current, HeadPrinted, Quiet
  <2>2. SameFiles' <=> SameFiles
    BY <2>1 DEF SameFiles, Same, Normalize
  <2>. QED BY <1>1, <1>2, <1>5, <2>1, <2>2 DEF Headers
<1>. QED BY <1>3, <1>4, <1>5

\* The header is printed, or left out, for the pair in hand.
LEMMA HeaderSaid ==
    ASSUME Headers, pc # "done", ~Pending, UNCHANGED <<job, touched, todo>>, pc' = "read",
           \/ /\ out' = Append(out, Pair("diff", Current.p1, Current.p2))
              /\ Quiet(Current) => ~SameFiles
           \/ out' = out /\ (Quiet(Current) => SameFiles)
    PROVE  Headers'
<1>0. IsSequence(out) /\ \A k \in DOMAIN out : Settles(k)
  BY DEF Headers
<1>1. Current' = Current /\ (Quiet(Current)' <=> Quiet(Current)) /\ Pending'
  BY DEF Current, Quiet, Pending
<1>2. SameFiles' <=> SameFiles
  BY <1>1 DEF SameFiles, Same, Normalize
<1>3. CASE out' = out /\ (Quiet(Current) => SameFiles)
  <2>1. \A k \in DOMAIN out : Settles(k)'
    BY <1>0, <1>3 DEF Settles, Quiet
  <2>2. Quiet(Current) => ~HeadPrinted'
    BY <1>1, <1>3, NoHeadYet DEF HeadPrinted
  <2>. QED BY <1>0, <1>1, <1>2, <1>3, <2>1, <2>2 DEF Headers
<1>4. CASE /\ out' = Append(out, Pair("diff", Current.p1, Current.p2))
           /\ Quiet(Current) => ~SameFiles
  <2>. DEFINE e == Pair("diff", Current.p1, Current.p2)
  <2>1. /\ IsSequence(out') /\ Len(out') = Len(out) + 1 /\ DOMAIN out' = 1..Len(out) + 1
        /\ out'[Len(out) + 1] = e /\ out' # <<>>
    <3>. HIDE DEF e
    <3>1. out' = Append(out, e)
      BY <1>4 DEF e
    <3>. QED BY <1>0, <3>1, Said
  <2>2. HeadPrinted'
    BY <1>1, <2>1 DEF HeadPrinted
  <2>3. \A k \in DOMAIN out : Settles(k)'
    BY <1>0, <1>4, StaysSettled
  <2>4. \A k \in DOMAIN out' : k \in DOMAIN out \/ k = Len(out')
    <3>1. Len(out) \in Nat /\ DOMAIN out = 1..Len(out)
      BY <1>0, SequenceIs
    <3>. QED BY <2>1, <3>1
  <2>. QED BY <1>1, <1>2, <1>4, <2>1, <2>2, <2>3, <2>4 DEF Headers
<1>. QED BY <1>3, <1>4

\* filesEqual tells whether files that nobody touches are the same.
LEMMA HeaderEqual ==
    ASSUME DiskInv, Dirs, Walk, Reading, Headers, ~job.brief, EqualLeft \/ EqualRight
    PROVE  Headers'
<1>0. /\ pc \in {"equal", "equal2"} /\ todo # <<>>
      /\ UNCHANGED <<job, disk, touched, stdin, todo, names, a, b, differed, status>>
  BY DEF EqualLeft, EqualRight, world, Walk
<1>1. Current.p1 \in Path /\ Current.p2 \in Path /\ Current.p1 # Dash /\ Current.p2 # Dash
  BY <1>0, InHand
<1>2. ~Pending /\ pc # "done"
  BY <1>0 DEF Pending
<1>3. Header => out' = Append(out, Pair("diff", Current.p1, Current.p2))
  BY DEF Header, Say
<1>4. CASE pc' = "equal2" /\ out' = out
  <2>1. pc' = "equal2" /\ out' = out
    BY <1>4
  <2>. QED BY <1>0, <1>2, <2>1, HeadersStay DEF Pending
<1>5. CASE Fails(Current.p1) /\ pc' = "read" /\ Header
  <2>1. pc' = "read" /\ Header
    BY <1>5
  <2>2. Quiet(Current) => ~SameFiles
    BY <1>1, <1>5 DEF Fails, Quiet, SameFiles, Readable, Exists, DiskInv
  <2>. QED BY <1>0, <1>2, <1>3, <2>1, <2>2, HeaderSaid
<1>6. CASE EqualRight
  <2>1. /\ pc' = "read" /\ pc = "equal2"
        /\ \/ SameAsRead /\ UNCHANGED out
           \/ (~SameAsRead \/ Current.p2 \in job.faulty) /\ Header
    BY <1>6 DEF EqualRight
  <2>2. Read(Current.p1, pre)
    BY <2>1 DEF Reading
  <2>3. Readable(Current.p2) => Read(Current.p2, Content(Current.p2))
    BY <1>1, ReadFile
  <2>4. ASSUME Quiet(Current) PROVE (SameAsRead <=> SameFiles) /\ Current.p2 \notin job.faulty
    <3>1. /\ Current.p1 \notin touched /\ Current.p2 \notin touched
          /\ Current.p2 \notin job.faulty
      BY <2>4 DEF Quiet
    <3>2. Current.p2 \in DOMAIN job.disk /\ ~job.disk[Current.p2].dir => Readable(Current.p2)
      BY <3>1 DEF Readable, Exists, DiskInv
    <3>. QED BY <2>2, <2>3, <3>1, <3>2 DEF SameAsRead, SameFiles, Read
  <2>. QED BY <1>0, <1>2, <1>3, <2>1, <2>4, HeaderSaid
<1>. QED BY <1>4, <1>5, <1>6 DEF EqualLeft

\* A name that is said at once is no script.
LEMMA HeaderNextName ==
    ASSUME DiskInv, Dirs, Walk, Headers, NextName
    PROVE  Headers'
<1>0. pc = "next" /\ ~Pending /\ todo # <<>> /\ UNCHANGED <<job, touched>>
  BY DEF NextName, world, Pending
<1>1. CASE UNCHANGED out /\ pc' \in {"dir", "equal"}
  BY <1>0, <1>1, HeadersStay DEF Pending
<1>2. ASSUME NEW w \in {"left only", "right only", "common", "kinds"},
             out' = Append(out, Pair(w, Current.p1, Current.p2)), UNCHANGED pc
      PROVE  Headers'
  <2>. DEFINE e == Pair(w, Current.p1, Current.p2)
  <2>1. e.what # "diff" /\ e.what # "script" /\ out' = Append(out, e)
    BY <1>2 DEF Pair
  <2>. HIDE DEF e
  <2>2. IsSequence(out) /\ \A k \in DOMAIN out : Settles(k)
    BY <1>0 DEF Headers
  <2>3. IsSequence(out)' /\ \A k \in DOMAIN out' : Settles(k)'
    BY <1>0, <2>1, <2>2, SayEvent
  <2>. QED BY <1>0, <1>2, <2>3 DEF Headers, Pending
<1>3. Current \in Work /\ (Current.what # "both" =>
         Current = Pair(Current.what, Current.p1, Current.p2)
         /\ Current.what \in {"left only", "right only"})
  BY <1>0, InHand DEF Work, Pair
<1>4. CASE Current.what # "both" /\ Say(Current) /\ UNCHANGED pc
  BY <1>2, <1>3, <1>4 DEF Say
<1>5. CASE Say(Pair("common", Current.p1, Current.p2)) /\ UNCHANGED pc
  BY <1>2, <1>5 DEF Say
<1>6. CASE Say(Pair("kinds", Current.p1, Current.p2)) /\ UNCHANGED pc
  BY <1>2, <1>6 DEF Say
<1>. QED BY <1>1, <1>4, <1>5, <1>6 DEF NextName

\* diffFiles finds the same as filesEqual, if nobody touches the files.
LEMMA HeaderWrite ==
    ASSUME DiskInv, Dirs, Walk, Reading, Headers, ~job.brief, Write
    PROVE  Headers'
<1>0. /\ pc = "write" /\ Pending /\ pc' = "next" /\ ~Pending' /\ todo # <<>>
      /\ UNCHANGED <<job, touched>>
  BY DEF Write, world, Pending, Walk
<1>1. Read(Current.p1, a) /\ Read(Current.p2, b)
  BY <1>0 DEF Reading
<1>2. Quiet(Current) => (SameFiles <=> Same(a, b))
  BY <1>1 DEF Quiet, SameFiles, Read
<1>3. /\ IsSequence(out) /\ (Quiet(Current) => (HeadPrinted <=> ~SameFiles))
      /\ \A k \in DOMAIN out : Settles(k) \/ (k = Len(out) /\ HeadPrinted)
  BY <1>0 DEF Headers
<1>4. CASE Same(a, b) /\ (out' = out \/ out' = Append(out, Pair("identical", Current.p1, Current.p2)))
  <2>1. \A k \in DOMAIN out : Settles(k)
    <3>. SUFFICES ASSUME NEW k \in DOMAIN out, k = Len(out), HeadPrinted PROVE Settles(k)
      BY <1>3
    <3>1. ~Quiet(Current)
      BY <1>2, <1>3, <1>4
    <3>2. ~Quiet(out[k])
      BY <3>1 DEF HeadPrinted, Quiet, Pair
    <3>. QED BY <3>2 DEF Settles
  <2>2. CASE out' = out
    BY <1>0, <1>3, <2>1, <2>2 DEF Headers, Settles, Quiet
  <2>3. CASE out' = Append(out, Pair("identical", Current.p1, Current.p2))
    <3>. DEFINE e == Pair("identical", Current.p1, Current.p2)
    <3>1. e.what # "diff" /\ e.what # "script" /\ out' = Append(out, e)
      BY <2>3 DEF Pair
    <3>. HIDE DEF e
    <3>2. IsSequence(out)' /\ \A k \in DOMAIN out' : Settles(k)'
      BY <1>0, <1>3, <2>1, <3>1, SayEvent
    <3>. QED BY <1>0, <3>2 DEF Headers
  <2>. QED BY <1>4, <2>2, <2>3
<1>5. ASSUME ~Same(a, b), NEW e, e.what = "script", e.p1 = Current.p1, e.p2 = Current.p2,
             out' = Append(out, e)
      PROVE  Headers'
  <2>1. \A k \in DOMAIN out : Settles(k) \/ (k = Len(out) /\ out[k].what = "diff")
    BY <1>3 DEF HeadPrinted, Pair
  <2>2. Quiet(e) => out # <<>> /\ out[Len(out)] = Pair("diff", e.p1, e.p2)
    BY <1>2, <1>3, <1>5 DEF Quiet, HeadPrinted
  <2>3. IsSequence(out)' /\ \A k \in DOMAIN out' : Settles(k)'
    BY <1>0, <1>3, <1>5, <2>1, <2>2, SayEvent
  <2>. QED BY <1>0, <2>3 DEF Headers
<1>6. CASE ~Same(a, b)
  <2>1. PICK M \in Alignments(a, b) :
           out' = Append(out, [what |-> "script", p1 |-> Current.p1, p2 |-> Current.p2,
                               a |-> a, b |-> b, text |-> Script(a, b, M)])
    BY <1>6 DEF Write, Say
  <2>. DEFINE e == [what |-> "script", p1 |-> Current.p1, p2 |-> Current.p2,
                    a |-> a, b |-> b, text |-> Script(a, b, M)]
  <2>2. e.what = "script" /\ e.p1 = Current.p1 /\ e.p2 = Current.p2 /\ out' = Append(out, e)
    BY <2>1
  <2>. HIDE DEF e
  <2>. QED BY <1>5, <1>6, <2>2
<1>7. CASE Same(a, b)
  BY <1>4, <1>7 DEF Write, Say
<1>. QED BY <1>6, <1>7

LEMMA HeaderInterfere ==
    ASSUME DiskInv, Headers, Interfere
    PROVE  Headers'
<1>0. /\ touched \subseteq touched'
      /\ UNCHANGED <<job, stdin, pc, todo, names, pre, a, b, differed, out, status>>
  BY InterfereDisk DEF Interfere
<1>1. IsSequence(out) /\ IsSequence(out')
  BY <1>0 DEF Headers
<1>2. \A k \in DOMAIN out : Settles(k) => Settles(k)'
  BY <1>0, <1>1, StaysSettled
<1>3. /\ Current' = Current /\ (HeadPrinted' <=> HeadPrinted) /\ (Pending' <=> Pending)
      /\ (Quiet(Current)' => Quiet(Current))
  BY <1>0 DEF Current, HeadPrinted, Pending, Quiet
<1>4. SameFiles' <=> SameFiles
  BY <1>0, <1>3 DEF SameFiles, Same, Normalize
<1>. QED BY <1>0, <1>1, <1>2, <1>3, <1>4 DEF Headers

LEMMA HeaderInit == Init => HeaderIInv
<1>. SUFFICES ASSUME Init PROVE Headers
  BY TreeInit DEF HeaderIInv
<1>1. out = <<>> /\ pc = "start"
  BY DEF Init
<1>2. IsSequence(<<>>) /\ DOMAIN <<>> = {}
  BY DEF IsSequence
<1>. QED BY <1>1, <1>2 DEF Headers, Pending

LEMMA HeaderNext == HeaderIInv /\ [Next]_vars => HeaderIInv'
<1>. SUFFICES ASSUME HeaderIInv, [Next]_vars PROVE HeaderIInv'
  OBVIOUS
<1>1. TreeInv /\ TreeInv' /\ DiskInv
  BY TreeNext DEF HeaderIInv, TreeInv
<1>2. UNCHANGED job
  <2>1. CASE Interfere
    BY <2>1 DEF Interfere
  <2>2. CASE Command \/ UNCHANGED vars
    BY <2>2, CommandKeepsTree DEF world
  <2>. QED BY <2>1, <2>2 DEF Next, Command
<1>3. ASSUME Dirs, ~job.brief PROVE Headers'
  <2>0. Walk /\ Reading /\ Headers
    BY <1>1, <1>3 DEF TreeInv, HeaderIInv
  <2>1. CASE Start
    <3>1. pc = "start" /\ UNCHANGED <<job, out, touched>> /\ pc' \in {"dir", "done"}
      BY <1>1, <1>3, <2>0, <2>1, TreeStart DEF Start, world
    <3>. QED BY <2>0, <3>1, HeadersStay DEF Pending
  <2>2. CASE ReadLeft \/ ReadRight
    <3>1. pc \in Listing /\ UNCHANGED <<job, out, touched>> /\ pc' \in {"dir2", "next", "done"}
      BY <2>2 DEF ReadLeft, ReadRight, world, Ends, Listing
    <3>. QED BY <2>0, <3>1, HeadersStay DEF Pending, Listing
  <2>3. CASE NextName
    BY <1>1, <1>3, <2>0, <2>3, HeaderNextName
  <2>4. CASE EqualLeft \/ EqualRight
    BY <1>1, <1>3, <2>0, <2>4, HeaderEqual
  <2>5. CASE ReadA \/ ReadB
    <3>1. /\ Pending /\ pc # "done" /\ UNCHANGED <<job, out, touched, todo>>
          /\ pc' = "done" \/ Pending'
      BY <2>5 DEF ReadA, ReadB, world, Ends, Pending
    <3>. QED BY <2>0, <3>1, HeadersStay
  <2>6. CASE Write
    BY <1>1, <1>3, <2>0, <2>6, HeaderWrite
  <2>7. CASE AllDone
    <3>1. pc = "next" /\ UNCHANGED <<job, out, touched>> /\ pc' = "done"
      BY <2>7 DEF AllDone, world, Ends
    <3>. QED BY <2>0, <3>1, HeadersStay
  <2>8. CASE Interfere
    BY <1>1, <2>0, <2>8, HeaderInterfere
  <2>9. CASE UNCHANGED vars
    <3>1. UNCHANGED <<job, out, touched, todo, pc>>
      BY <2>9 DEF vars
    <3>2. CASE pc = "done"
      BY <2>0, <3>1, <3>2 DEF Headers
    <3>3. CASE pc # "done"
      BY <2>0, <3>1, <3>3, HeadersStay DEF Pending
    <3>. QED BY <3>2, <3>3
  <2>. QED BY <2>1, <2>2, <2>3, <2>4, <2>5, <2>6, <2>7, <2>8, <2>9 DEF Next, Over
<1>. QED BY <1>1, <1>2, <1>3 DEF HeaderIInv, Dirs

(***************************************************************************)
(* In a diff of directories every script has its header and every header   *)
(* its script, between any two files that nobody changes meanwhile and on  *)
(* which no call may fail, whatever happens to all others                  *)
(* (diff.go:310-334, 338-360).                                             *)
(***************************************************************************)
THEOREM HeadersAreTrue == Spec => []HeaderTruth
<1>1. HeaderIInv => HeaderTruth
  <2>. SUFFICES ASSUME HeaderIInv, pc = "next", ~job.brief, Dirs, NEW k \in DOMAIN out,
                       {out[k].p1, out[k].p2} \cap (touched \cup job.faulty) = {}
                PROVE  /\ out[k].what = "script" =>
                             k > 1 /\ out[k - 1] = Pair("diff", out[k].p1, out[k].p2)
                       /\ out[k].what = "diff" => k < Len(out) /\ out[k + 1].what = "script"
    BY DEF HeaderTruth, Dirs
  <2>1. Settles(k)
    BY DEF HeaderIInv, Headers, Pending
  <2>. QED BY <2>1 DEF Settles, Quiet
<1>. QED BY <1>1, HeaderInit, HeaderNext, PTL DEF Spec

-----------------------------------------------------------------------------
(* The exit status *)
Differs(q) == DiffersAt(job.disk, job.left, job.right, q)

\* What is still below a pair of the work list.
Ahead(q) == \E i \in DOMAIN todo : \E r, t \in Path : At(todo[i], r) /\ q = r \o t

\* A difference that nobody touches is known or still ahead.
Known ==
    /\ pc # "done" => status = "running"
    /\ pc \notin {"start", "done"} /\ differed = FALSE =>
         \A q \in Compared : Settled(q) /\ Differs(q) => Ahead(q)
    /\ status = "0" => \A q \in Compared : Settled(q) => ~Differs(q)

LEMMA ComparedIs ==
    ASSUME DiskInv, Dirs, NEW q
    PROVE  q \in Compared <=> /\ q \in Path /\ Child(q)
                              /\ \/ job.left \o q \in DOMAIN job.disk
                                 \/ job.right \o q \in DOMAIN job.disk
<1>1. DOMAIN job.disk \subseteq Path /\ job.left \in Path /\ job.right \in Path
  BY Operands
<1>2. /\ q \in Relative(job.disk, job.left) <=> q \in Path /\ job.left \o q \in DOMAIN job.disk
      /\ q \in Relative(job.disk, job.right) <=> q \in Path /\ job.right \o q \in DOMAIN job.disk
  BY <1>1, RelativeIs
<1>. QED BY <1>2 DEF Compared, Child

\* What is above a path that exists.
LEMMA Above ==
    ASSUME DiskInv, NEW l \in Path, NEW r \in Path, NEW t \in Path
    PROVE  /\ l \o (r \o t) \in DOMAIN job.disk /\ t # <<>> =>
                 l \o r \in DOMAIN job.disk /\ job.disk[l \o r].dir
           /\ l \o (r \o t) \in DOMAIN disk => l \o r \in DOMAIN disk
<1>. DEFINE u == l \o r
            v == u \o t
            n == Len(u)
<1>1. v = l \o (r \o t)
  BY PathAssociates
<1>2. u \in Path /\ v \in Path /\ Len(v) = n + Len(t) /\ n \in Nat /\ SubSeq(v, 1, n) = u
  BY PathConcat
<1>3. t = <<>> => v = u
  BY <1>2, PathEmpty
<1>4. t # <<>> => n \in 0..(Len(v) - 1)
  BY <1>2, PathEmpty, PathConcat
<1>. HIDE DEF u, v, n
<1>5. ASSUME v \in DOMAIN job.disk, t # <<>> PROVE u \in DOMAIN job.disk /\ job.disk[u].dir
  BY <1>2, <1>4, <1>5, DiffAssumption DEF DiskInv
<1>6. ASSUME v \in DOMAIN disk PROVE u \in DOMAIN disk
  BY <1>2, <1>3, <1>4, <1>6 DEF DiskInv
<1>. QED BY <1>1, <1>5, <1>6 DEF u

\* A pair is at one place.
LEMMA OnePlace ==
    ASSUME DiskInv, Dirs, NEW x, NEW r \in Path, NEW t \in Path, At(x, r), At(x, t)
    PROVE  r = t
<1>1. job.left \in Path /\ job.left \o r = job.left \o t
  BY Operands DEF At
<1>2. /\ SubSeq(job.left \o r, Len(job.left) + 1, Len(job.left \o r)) = r
      /\ SubSeq(job.left \o t, Len(job.left) + 1, Len(job.left \o t)) = t
  BY <1>1, PathConcat
<1>. QED BY <1>1, <1>2

\* The trees of the operands are those of the start.
LEMMA JobStays ==
    ASSUME UNCHANGED job
    PROVE  Compared' = Compared /\ \A q : Differs(q)' <=> Differs(q)
<1>1. Compared' = Compared
  BY DEF Compared
<1>2. ASSUME NEW q PROVE Differs(q)' <=> Differs(q)
  BY DEF Differs, DiffersAt, Same, Normalize
<1>. QED BY <1>1, <1>2

\* Two directories, or two files that are the same, do not differ.
LEMMA Alike ==
    ASSUME DiskInv, NEW q, NEW x \in DOMAIN job.disk, NEW y \in DOMAIN job.disk,
           x = job.left \o q, y = job.right \o q,
           \/ job.disk[x].dir /\ job.disk[y].dir
           \/ /\ ~job.disk[x].dir /\ ~job.disk[y].dir
              /\ Same(job.disk[x].lines, job.disk[y].lines)
    PROVE  ~Differs(q)
<1>1. job.disk[x].dir \in BOOLEAN /\ job.disk[y].dir \in BOOLEAN
  BY DiffAssumption DEF DiskInv, File
<1>2. job.disk[x].dir = job.disk[y].dir
  BY <1>1, Zenon
<1>3. job.disk[x].dir \/ Same(job.disk[x].lines, job.disk[y].lines)
  OBVIOUS
<1>. QED BY <1>2, <1>3 DEF Differs, DiffersAt

\* A pair that is left behind has nothing below it that differs.
LEMMA KnownPop ==
    ASSUME DiskInv, Dirs, Walk, Known, pc \notin {"start", "done"}, todo # <<>>,
           todo' = Tail(todo), pc' = "next", UNCHANGED <<job, touched, status>>,
           \/ differed' = TRUE
           \/ /\ UNCHANGED differed
              /\ \A q \in Compared : \A r, t \in Path :
                    At(Current, r) /\ q = r \o t /\ Settled(q) => ~Differs(q)
    PROVE  Known'
<1>0. status' = "running"
  BY DEF Known
<1>1. CASE differed' = TRUE
  BY <1>0, <1>1 DEF Known
<1>2. CASE /\ UNCHANGED differed
           /\ \A q \in Compared : \A r, t \in Path :
                 At(Current, r) /\ q = r \o t /\ Settled(q) => ~Differs(q)
  <2>. SUFFICES ASSUME differed = FALSE, NEW q \in Compared', Settled(q)', Differs(q)'
                PROVE  Ahead(q)'
    BY <1>0, <1>2 DEF Known
  <2>1. q \in Compared /\ Settled(q) /\ Differs(q)
    <3>1. Settled(q)
      BY DEF Settled
    <3>. QED BY <3>1, JobStays
  <2>2. PICK i \in DOMAIN todo, r \in Path, t \in Path : At(todo[i], r) /\ q = r \o t
    BY <2>1 DEF Known, Ahead
  <2>3. todo \in Seq(Work)
    BY DEF Walk
  <2>4. i # 1
    <3>1. Current = todo[1]
      BY <2>3, WorkList
    <3>. QED BY <1>2, <2>1, <2>2, <3>1
  <2>5. i - 1 \in DOMAIN todo' /\ todo'[i - 1] = todo[i]
    BY <2>3, <2>4, WorkList
  <2>. QED BY <2>2, <2>5 DEF Ahead, At
<1>. QED BY <1>1, <1>2

\* The work list stays as it is.
LEMMA KnownStay ==
    ASSUME DiskInv, Dirs, Known, pc \notin {"start", "done"}, pc' # "start",
           UNCHANGED <<job, todo, differed>>, touched \subseteq touched',
           pc' # "done" => UNCHANGED status, pc' = "done" => status' = "2"
    PROVE  Known'
<1>1. \A q : Settled(q)' => Settled(q)
  BY DEF Settled
<1>2. \A q : Ahead(q)' <=> Ahead(q)
  BY DEF Ahead, At
<1>3. Compared' = Compared /\ \A q : Differs(q)' <=> Differs(q)
  BY JobStays
<1>4. status = "running"
  BY DEF Known
<1>. QED BY <1>1, <1>2, <1>3, <1>4 DEF Known

\* Below two directories that are listed every difference has a name in the lists.
LEMMA KnownReadRight ==
    ASSUME DiskInv, Dirs, Walk, Reading, Known, ReadRight
    PROVE  Known'
<1>0. pc = "dir2" /\ todo # <<>> /\ todo \in Seq(Work) /\ UNCHANGED <<job, disk, touched, differed>>
  BY DEF ReadRight, world, Walk
<1>1. CASE pc' = "done"
  <2>1. status' = "2" /\ UNCHANGED todo
    BY <1>1 DEF ReadRight, Ends
  <2>. QED BY <1>0, <1>1, <2>1, KnownStay
<1>2. CASE pc' # "done"
  <2>1. /\ pc' = "next" /\ UNCHANGED status
        /\ \A n \in names \cup RightNames : \E i \in DOMAIN todo' : todo'[i] = Named(n)
        /\ \A j \in DOMAIN todo : j # 1 => \E i \in DOMAIN todo' : todo'[i] = todo[j]
    BY <1>2, RightListed
  <2>. SUFFICES ASSUME differed = FALSE, NEW q \in Compared', Settled(q)', Differs(q)'
                PROVE  Ahead(q)'
    BY <1>0, <2>1 DEF Known
  <2>2. q \in Compared /\ Settled(q) /\ Differs(q)
    <3>1. Settled(q)
      BY <1>0 DEF Settled
    <3>. QED BY <1>0, <3>1, JobStays
  <2>3. PICK j \in DOMAIN todo, r \in Path, t \in Path : At(todo[j], r) /\ q = r \o t
    BY <1>0, <2>2 DEF Known, Ahead
  <2>4. CASE j # 1
    <3>1. PICK i \in DOMAIN todo' : todo'[i] = todo[j]
      BY <2>1, <2>4
    <3>. QED BY <1>0, <2>3, <3>1 DEF Ahead, At
  <2>5. CASE j = 1
    <3>1. At(Current, r) /\ Current.p1 \in Path /\ Current.p2 \in Path
      <4>1. Current = todo[1]
        BY <1>0, WorkList
      <4>. QED BY <1>0, <2>3, <2>5, <4>1, InHand
    <3>2. /\ Current.p1 \in DOMAIN job.disk /\ job.disk[Current.p1].dir
          /\ Current.p2 \in DOMAIN job.disk /\ job.disk[Current.p2].dir
          /\ NamesIn(disk, Current.p1) \subseteq names
      BY <1>0 DEF Reading, Listing, AreDirs
    <3>3. t # <<>>
      <4>. SUFFICES ASSUME t = <<>> PROVE ~Differs(q)
        BY <2>2
      <4>1. q = r
        BY <2>3, PathEmpty
      <4>2. Current.p1 = job.left \o q /\ Current.p2 = job.right \o q
        BY <3>1, <4>1 DEF At
      <4>. QED BY <3>2, <4>2, Alike
    <3>4. PICK n \in Nat, u \in Path : q = Append(r, n) \o u
      <4>1. \E n \in Nat, u \in Path : t = <<n>> \o u /\ r \o t = Append(r, n) \o u
        BY <3>3, PathStep
      <4>. QED BY <2>3, <4>1
    <3>5. Append(r, n) \in Path /\ At(Named(n), Append(r, n))
      BY <3>1, NamedPlace
    <3>6. job.left \in Path /\ job.right \in Path /\ DOMAIN disk \subseteq Path
      BY Operands
    <3>7. \/ job.left \o q \in DOMAIN disk
          \/ job.right \o q \in DOMAIN disk
      BY <2>2, ComparedIs DEF Settled, DiskInv
    <3>8. \/ job.left \o Append(r, n) \in DOMAIN disk
          \/ job.right \o Append(r, n) \in DOMAIN disk
      BY <3>4, <3>5, <3>6, <3>7, Above
    <3>9. \/ Append(Current.p1, n) \in DOMAIN disk
          \/ Append(Current.p2, n) \in DOMAIN disk
      <4>1. /\ Append(Current.p1, n) = job.left \o Append(r, n)
            /\ Append(Current.p2, n) = job.right \o Append(r, n)
        <5>1. Current.p1 = job.left \o r /\ Current.p2 = job.right \o r
          BY <3>1 DEF At
        <5>2. Append(job.left \o r, n) = job.left \o Append(r, n)
          BY <3>6, PathAppend
        <5>3. Append(job.right \o r, n) = job.right \o Append(r, n)
          BY <3>6, PathAppend
        <5>. QED BY <5>1, <5>2, <5>3
      <4>. QED BY <3>8, <4>1
    <3>10. n \in names \cup RightNames
      BY <3>1, <3>2, <3>6, <3>9, NamesAre DEF RightNames
    <3>11. PICK i \in DOMAIN todo' : todo'[i] = Named(n)
      BY <2>1, <3>10
    <3>12. todo'[i].p1 = job'.left \o Append(r, n) /\ todo'[i].p2 = job'.right \o Append(r, n)
      BY <1>0, <3>5, <3>11 DEF At
    <3>. HIDE DEF Path
    <3>. QED BY <3>4, <3>5, <3>11, <3>12 DEF Ahead, At
  <2>. QED BY <2>4, <2>5
<1>. QED BY <1>1, <1>2

LEMMA KnownNextName ==
    ASSUME DiskInv, Dirs, Walk, Known, NextName
    PROVE  Known'
<1>0. pc = "next" /\ todo # <<>> /\ todo \in Seq(Work) /\ UNCHANGED <<job, disk, touched, status>>
  BY DEF NextName, world, Walk
<1>1. CASE differed' = TRUE /\ todo' = Tail(todo) /\ UNCHANGED pc
  BY <1>0, <1>1, KnownPop
<1>2. CASE /\ IsDirectory(Current.p1) /\ IsDirectory(Current.p2) /\ ~job.recursive
           /\ todo' = Tail(todo) /\ UNCHANGED <<pc, differed>>
  <2>. SUFFICES ASSUME NEW q \in Compared, NEW r \in Path, NEW t \in Path,
                       At(Current, r), q = r \o t
                PROVE  ~Differs(q)
    BY <1>0, <1>2, KnownPop
  <2>1. Current.p1 \in Path /\ Current.p2 \in Path
    BY <1>0, InHand
  <2>2. PICK s \in Path : Placed(1, s) /\ At(Current, s)
    BY <1>0, InHand
  <2>3. r = s
    BY <2>2, OnePlace
  <2>4. Len(r) = 1
    BY <1>0, <1>2, <2>2, <2>3 DEF Placed, Child, Listing
  <2>5. Len(q) = 1
    BY <1>2, ComparedIs DEF Child
  <2>6. t = <<>> /\ q = r
    <3>1. Len(q) = Len(r) + Len(t) /\ Len(t) \in Nat
      BY PathConcat
    <3>2. Len(t) = 0
      BY <2>4, <2>5, <3>1
    <3>. QED BY <3>2, PathEmpty
  <2>7. /\ Current.p1 \in DOMAIN job.disk /\ job.disk[Current.p1].dir
        /\ Current.p2 \in DOMAIN job.disk /\ job.disk[Current.p2].dir
    BY <1>2, <2>1, IsDirectoryFacts
  <2>8. Current.p1 = job.left \o q /\ Current.p2 = job.right \o q
    BY <2>6 DEF At
  <2>. QED BY <2>7, <2>8, Alike
<1>3. CASE UNCHANGED <<todo, differed>> /\ pc' \in {"dir", "equal"}
  BY <1>0, <1>3, KnownStay
<1>4. PICK d1 \in SeenAsDirectory(Current.p1), d2 \in SeenAsDirectory(Current.p2) :
         \/ differed' = TRUE /\ todo' = Tail(todo) /\ UNCHANGED pc
         \/ d1 /\ d2 /\ ~job.recursive /\ todo' = Tail(todo) /\ UNCHANGED <<pc, differed>>
         \/ UNCHANGED <<todo, differed>> /\ pc' \in {"dir", "equal"}
  BY DEF NextName
<1>5. (d1 => IsDirectory(Current.p1)) /\ (d2 => IsDirectory(Current.p2))
  BY SeenFacts
<1>. QED BY <1>1, <1>2, <1>3, <1>4, <1>5

\* Two files that are read as equal are not a difference.
LEMMA KnownWrite ==
    ASSUME DiskInv, Dirs, Walk, Reading, Known, Write
    PROVE  Known'
<1>0. /\ pc = "write" /\ pc' = "next" /\ todo # <<>> /\ todo' = Tail(todo)
      /\ UNCHANGED <<job, touched, status>>
  BY DEF Write, world, Walk
<1>1. CASE differed' = TRUE
  BY <1>0, <1>1, KnownPop
<1>2. CASE Same(a, b) /\ UNCHANGED differed
  <2>. SUFFICES ASSUME NEW q \in Compared, NEW r \in Path, NEW t \in Path,
                       At(Current, r), q = r \o t, Settled(q)
                PROVE  ~Differs(q)
    BY <1>0, <1>2, KnownPop
  <2>1. Read(Current.p1, a) /\ Read(Current.p2, b)
    BY <1>0 DEF Reading
  <2>2. job.left \in Path /\ job.right \in Path
    BY Operands
  <2>3. t = <<>>
    <3>1. \/ job.left \o q \in DOMAIN job.disk
          \/ job.right \o q \in DOMAIN job.disk
      BY ComparedIs
    <3>2. ~job.disk[job.left \o r].dir /\ ~job.disk[job.right \o r].dir
      BY <2>1 DEF Read, At
    <3>. QED BY <2>2, <3>1, <3>2, Above
  <2>4. q = r
    BY <2>3, PathEmpty
  <2>5. Current.p1 = job.left \o q /\ Current.p2 = job.right \o q
    BY <2>4 DEF At
  <2>6. /\ a = job.disk[job.left \o q].lines /\ b = job.disk[job.right \o q].lines
        /\ job.left \o q \in DOMAIN job.disk /\ job.right \o q \in DOMAIN job.disk
        /\ ~job.disk[job.left \o q].dir /\ ~job.disk[job.right \o q].dir
    BY <2>1, <2>5 DEF Read, Settled
  <2>7. Same(job.disk[job.left \o q].lines, job.disk[job.right \o q].lines)
    BY <1>2, <2>6
  <2>. QED BY <2>6, <2>7, Alike
<1>. QED BY <1>1, <1>2 DEF Write

LEMMA KnownNext ==
    ASSUME DiskInv, Dirs, Walk, Reading, Known, [Next]_vars
    PROVE  Known'
<1>1. CASE Start
  <2>1. pc = "start" /\ UNCHANGED <<job, touched>>
    BY <1>1 DEF Start, world
  <2>2. status = "running"
    BY <2>1 DEF Known
  <2>3. CASE pc' = "done" /\ status' = "2"
    BY <2>3 DEF Known
  <2>4. CASE pc' = "dir" /\ todo' = <<Pair("both", job.left, job.right)>> /\ UNCHANGED status
    <3>. SUFFICES ASSUME NEW q \in Compared' PROVE Ahead(q)'
      BY <2>2, <2>4 DEF Known
    <3>1. q \in Path
      BY <2>1, JobStays, ComparedIs
    <3>2. job.left \in Path /\ job.right \in Path
      BY Operands
    <3>3. <<>> \in Path /\ q = <<>> \o q /\ job.left \o <<>> = job.left /\ job.right \o <<>> = job.right
      BY <3>1, <3>2, PathEmpty
    <3>4. /\ 1 \in DOMAIN todo' /\ todo'[1].p1 = job'.left \o <<>>
          /\ todo'[1].p2 = job'.right \o <<>>
      BY <2>1, <2>4, <3>3 DEF Pair
    <3>. HIDE DEF Path
    <3>. QED BY <3>1, <3>3, <3>4 DEF Ahead, At
  <2>. QED BY <1>1, <2>3, <2>4, TreeStart
<1>2. CASE ReadLeft \/ EqualLeft \/ EqualRight \/ ReadA \/ ReadB
  <2>1. /\ pc \notin {"start", "done"} /\ pc' # "start" /\ UNCHANGED <<job, todo, differed, touched>>
        /\ pc' # "done" => UNCHANGED status
        /\ pc' = "done" => status' = "2"
    BY <1>2 DEF ReadLeft, EqualLeft, EqualRight, ReadA, ReadB, world, Ends
  <2>. QED BY <2>1, KnownStay
<1>3. CASE ReadRight
  BY <1>3, KnownReadRight
<1>4. CASE NextName
  BY <1>4, KnownNextName
<1>5. CASE Write
  BY <1>5, KnownWrite
<1>6. CASE AllDone
  <2>1. /\ pc = "next" /\ pc' = "done" /\ todo = <<>> /\ UNCHANGED <<job, touched>>
        /\ status' = IF differed THEN "1" ELSE "0"
    BY <1>6 DEF AllDone, Ends, world
  <2>. SUFFICES ASSUME status' = "0", NEW q \in Compared', Settled(q)' PROVE ~Differs(q)'
    BY <2>1 DEF Known
  <2>2. differed = FALSE
    BY <2>1 DEF Walk
  <2>3. q \in Compared /\ Settled(q)
    BY <2>1, JobStays DEF Settled
  <2>4. ~Ahead(q)
    BY <2>1 DEF Ahead
  <2>5. ~Differs(q)
    BY <2>1, <2>2, <2>3, <2>4 DEF Known
  <2>. QED BY <2>1, <2>5, JobStays
<1>7. CASE Interfere
  <2>1. /\ pc # "done" /\ UNCHANGED <<job, pc, todo, differed, status>> /\ touched \subseteq touched'
    BY <1>7, InterfereDisk DEF Interfere
  <2>2. CASE pc = "start"
    BY <2>1, <2>2 DEF Known
  <2>. QED BY <2>1, <2>2, KnownStay
<1>8. CASE Over \/ UNCHANGED vars
  <2>1. UNCHANGED <<job, pc, todo, differed, status, touched>>
    BY <1>8 DEF Over, vars
  <2>2. \A q : (Settled(q)' <=> Settled(q)) /\ (Ahead(q)' <=> Ahead(q))
    BY <2>1 DEF Settled, Ahead, At
  <2>. QED BY <2>1, <2>2, JobStays DEF Known
<1>. QED BY <1>1, <1>2, <1>3, <1>4, <1>5, <1>6, <1>7, <1>8 DEF Next

-----------------------------------------------------------------------------
(* Without interference and without failing calls *)
Calm == touched \cup job.faulty = {}

\* What a pair says of the two trees.
Told(x) == /\ x.what # "right only" <=> x.p1 \in DOMAIN job.disk
           /\ x.what # "left only" <=> x.p2 \in DOMAIN job.disk
Comparing == {"equal", "equal2", "read", "read2", "write"}
AreFiles(x) == \A p \in {x.p1, x.p2} : p \in DOMAIN job.disk /\ ~job.disk[p].dir
Found == \E q \in Compared : Differs(q)
Alone ==
    /\ pc = "done" => status = IF differed THEN "1" ELSE "0"
    /\ differed = TRUE => Found
    /\ \A i \in DOMAIN todo : Told(todo[i])
    /\ pc \in Listing => AreDirs(Current)
    /\ pc \in Comparing => AreFiles(Current)
StatusIInv == TreeInv /\ (Dirs => Known /\ (Calm => Alone))

\* The tree is still that of the start.
LEMMA Untouched ==
    ASSUME DiskInv, touched = {}
    PROVE  /\ DOMAIN disk = DOMAIN job.disk /\ \A p \in DOMAIN disk : disk[p] = job.disk[p]
           /\ \A p \in DOMAIN disk : disk[p].dir \in BOOLEAN
  BY DEF DiskInv, File

\* A pair that is found to differ is a difference of the trees.
LEMMA FindsIt ==
    ASSUME DiskInv, Dirs, Walk, todo # <<>>, pc \notin Listing \cup {"done"},
           \/ (Current.p1 \in DOMAIN job.disk) # (Current.p2 \in DOMAIN job.disk)
           \/ /\ Current.p1 \in DOMAIN job.disk /\ Current.p2 \in DOMAIN job.disk
              /\ \/ job.disk[Current.p1].dir # job.disk[Current.p2].dir
                 \/ /\ ~job.disk[Current.p1].dir
                    /\ ~Same(job.disk[Current.p1].lines, job.disk[Current.p2].lines)
    PROVE  Found
<1>1. PICK r \in Path : Placed(1, r) /\ At(Current, r)
  BY InHand
<1>2. Child(r)
  BY <1>1 DEF Placed
<1>3. Current.p1 = job.left \o r /\ Current.p2 = job.right \o r
  BY <1>1 DEF At
<1>4. r \in Compared
  BY <1>2, <1>3, ComparedIs
<1>5. Differs(r)
  BY <1>3 DEF Differs, DiffersAt
<1>. QED BY <1>4, <1>5 DEF Found

LEMMA AlonePop ==
    ASSUME Walk, Alone, todo # <<>>, todo' = Tail(todo), pc' = "next", UNCHANGED job,
           differed' = TRUE => Found
    PROVE  Alone'
<1>1. todo \in Seq(Work)
  BY DEF Walk
<1>2. ASSUME NEW i \in DOMAIN todo' PROVE Told(todo[i])'
  <2>1. i + 1 \in DOMAIN todo /\ todo'[i] = todo[i + 1]
    BY <1>1, WorkList
  <2>2. Told(todo[i + 1])
    BY <2>1 DEF Alone
  <2>. QED BY <2>1, <2>2 DEF Told
<1>3. Found' <=> Found
  BY JobStays DEF Found
<1>. QED BY <1>2, <1>3 DEF Alone, Listing, Comparing

LEMMA AloneStay ==
    ASSUME Alone, UNCHANGED <<job, todo, differed>>, pc' # "done",
           pc' \in Listing => AreDirs(Current), pc' \in Comparing => AreFiles(Current)
    PROVE  Alone'
<1>1. \A i \in DOMAIN todo : Told(todo[i])' <=> Told(todo[i])
  BY DEF Told
<1>2. (AreDirs(Current)' <=> AreDirs(Current)) /\ (AreFiles(Current)' <=> AreFiles(Current))
  BY DEF AreDirs, AreFiles, Current
<1>3. Found' <=> Found
  BY JobStays DEF Found
<1>. QED BY <1>1, <1>2, <1>3 DEF Alone

LEMMA AloneStart ==
    ASSUME DiskInv, Dirs, Walk, Calm, Start
    PROVE  Alone'
<1>1. UNCHANGED job /\ differed' = FALSE
  BY TreeStart DEF Walk, Start
<1>2. job.left \in DOMAIN disk /\ job.right \in DOMAIN disk
  BY Untouched DEF Dirs, Calm
<1>3. pc' = "dir" /\ todo' = <<Pair("both", job.left, job.right)>>
  BY <1>2, TreeStart DEF Calm
<1>4. /\ DOMAIN todo' = {1} /\ todo'[1] = Pair("both", job.left, job.right)
      /\ Current' = Pair("both", job.left, job.right)
  BY <1>3 DEF Current
<1>5. Told(todo[1])'
  BY <1>1, <1>4 DEF Told, Pair, Dirs
<1>6. AreDirs(Current)'
  BY <1>1, <1>4 DEF AreDirs, Pair, Dirs
<1>. QED BY <1>1, <1>3, <1>4, <1>5, <1>6 DEF Alone, Comparing

LEMMA AloneReadLeft ==
    ASSUME DiskInv, Dirs, Walk, Alone, Calm, ReadLeft
    PROVE  Alone'
<1>1. pc = "dir" /\ todo # <<>> /\ UNCHANGED <<job, todo, differed>>
  BY DEF ReadLeft, world, Walk
<1>2. AreDirs(Current)
  BY <1>1 DEF Alone, Listing
<1>3. IsDirectory(Current.p1)
  BY <1>1, <1>2, InHand, Untouched, IsDirectoryFacts DEF AreDirs, Calm
<1>4. pc' = "dir2"
  BY <1>3 DEF ReadLeft, Unlisted, Calm
<1>. QED BY <1>1, <1>2, <1>4, AloneStay DEF Comparing

\* Each name of the two lists is on the sides its pair says.
LEMMA AloneReadRight ==
    ASSUME DiskInv, Dirs, Walk, Reading, Alone, Calm, ReadRight
    PROVE  Alone'
<1>1. pc = "dir2" /\ todo # <<>> /\ UNCHANGED <<job, disk, differed, names>>
  BY DEF ReadRight, world, Walk
<1>2. AreDirs(Current)
  BY <1>1 DEF Alone, Listing
<1>3. Current.p1 \in Path /\ Current.p2 \in Path
  BY <1>1, InHand
<1>4. pc' # "done"
  <2>1. IsDirectory(Current.p2)
    BY <1>2, <1>3, Untouched, IsDirectoryFacts DEF AreDirs, Calm
  <2>. QED BY <2>1 DEF ReadRight, Unlisted, Calm
<1>5. /\ pc' = "next" /\ names \subseteq Nat /\ RightNames \subseteq Nat
      /\ \A i \in DOMAIN todo' :
           \/ \E n \in names \cup RightNames : todo'[i] = Named(n)
           \/ \E j \in DOMAIN todo : j # 1 /\ todo'[i] = todo[j]
  BY <1>4, RightListed
<1>6. ASSUME NEW n \in names \cup RightNames PROVE Told(Named(n))
  <2>1. n \in Nat
    BY <1>5
  <2>2. DOMAIN disk = DOMAIN job.disk /\ DOMAIN disk \subseteq Path
    BY Untouched, Operands DEF Calm
  <2>3. n \in names <=> Append(Current.p1, n) \in DOMAIN job.disk
    <3>1. /\ NamesIn(disk, Current.p1) \subseteq names
          /\ names \subseteq NamesIn(job.disk, Current.p1)
      BY <1>1 DEF Reading
    <3>2. /\ n \in NamesIn(disk, Current.p1) <=> Append(Current.p1, n) \in DOMAIN disk
          /\ n \in NamesIn(job.disk, Current.p1) <=> Append(Current.p1, n) \in DOMAIN job.disk
      BY <1>3, <2>1, <2>2, NamesAre
    <3>. QED BY <2>2, <3>1, <3>2
  <2>4. n \in RightNames <=> Append(Current.p2, n) \in DOMAIN job.disk
    BY <1>3, <2>1, <2>2, NamesAre DEF RightNames
  <2>5. /\ Named(n).p1 = Append(Current.p1, n) /\ Named(n).p2 = Append(Current.p2, n)
        /\ Named(n).what = IF n \notin RightNames THEN "left only"
                           ELSE IF n \notin names THEN "right only" ELSE "both"
    BY DEF Named, Pair
  <2>. QED BY <2>3, <2>4, <2>5 DEF Told
<1>7. ASSUME NEW i \in DOMAIN todo' PROVE Told(todo[i])'
  <2>1. CASE \E n \in names \cup RightNames : todo'[i] = Named(n)
    <3>1. PICK n \in names \cup RightNames : todo'[i] = Named(n)
      BY <2>1
    <3>. QED BY <1>1, <1>6, <3>1 DEF Told
  <2>2. CASE \E j \in DOMAIN todo : j # 1 /\ todo'[i] = todo[j]
    <3>1. PICK j \in DOMAIN todo : todo'[i] = todo[j]
      BY <2>2
    <3>2. Told(todo[j])
      BY DEF Alone
    <3>. QED BY <1>1, <3>1, <3>2 DEF Told
  <2>. QED BY <1>5, <2>1, <2>2
<1>8. Found' <=> Found
  BY <1>1, JobStays DEF Found
<1>. QED BY <1>1, <1>5, <1>7, <1>8 DEF Alone, Listing, Comparing

LEMMA AloneNextName ==
    ASSUME DiskInv, Dirs, Walk, Alone, Calm, NextName
    PROVE  Alone'
<1>0. pc = "next" /\ todo # <<>> /\ UNCHANGED job
  BY DEF NextName, world
<1>1. Current.p1 \in Path /\ Current.p2 \in Path /\ Current \in Work
  BY <1>0, InHand
<1>2. Told(Current)
  BY <1>0, WorkList DEF Alone, Walk
<1>3. \A p \in {Current.p1, Current.p2} :
        IsDirectory(p) <=> p \in DOMAIN job.disk /\ job.disk[p].dir
  BY <1>1, Untouched, IsDirectoryFacts DEF Calm
<1>4. CASE Current.what # "both" /\ todo' = Tail(todo) /\ UNCHANGED pc
  <2>1. (Current.p1 \in DOMAIN job.disk) # (Current.p2 \in DOMAIN job.disk)
    BY <1>1, <1>2, <1>4 DEF Told, Work
  <2>2. Found
    BY <1>0, <2>1, FindsIt DEF Listing
  <2>. QED BY <1>0, <1>4, <2>2, AlonePop
<1>5. CASE /\ Current.what = "both" /\ IsDirectory(Current.p1) # IsDirectory(Current.p2)
           /\ todo' = Tail(todo) /\ UNCHANGED pc
  <2>1. Current.p1 \in DOMAIN job.disk /\ Current.p2 \in DOMAIN job.disk
    BY <1>2, <1>5 DEF Told
  <2>2. job.disk[Current.p1].dir # job.disk[Current.p2].dir
    <3>1. /\ IsDirectory(Current.p1) <=> job.disk[Current.p1].dir
          /\ IsDirectory(Current.p2) <=> job.disk[Current.p2].dir
      BY <1>3, <2>1
    <3>2. ~(IsDirectory(Current.p1) <=> IsDirectory(Current.p2))
      BY <1>5 DEF IsDirectory
    <3>. QED BY <3>1, <3>2
  <2>3. Found
    BY <1>0, <2>1, <2>2, FindsIt DEF Listing
  <2>. QED BY <1>0, <1>5, <2>3, AlonePop
<1>6. CASE todo' = Tail(todo) /\ UNCHANGED <<pc, differed>>
  <2>1. differed' = TRUE => Found
    BY <1>6 DEF Alone
  <2>. QED BY <1>0, <1>6, <2>1, AlonePop
<1>7. CASE /\ IsDirectory(Current.p1) /\ IsDirectory(Current.p2) /\ pc' = "dir"
           /\ UNCHANGED <<todo, differed>>
  <2>1. AreDirs(Current)
    BY <1>3, <1>7 DEF AreDirs
  <2>. QED BY <1>0, <1>7, <2>1, AloneStay DEF Comparing
<1>8. CASE /\ Current.what = "both" /\ ~IsDirectory(Current.p1) /\ ~IsDirectory(Current.p2)
           /\ pc' = "equal" /\ UNCHANGED <<todo, differed>>
  <2>1. AreFiles(Current)
    BY <1>2, <1>3, <1>8 DEF AreFiles, Told
  <2>. QED BY <1>0, <1>8, <2>1, AloneStay DEF Listing
<1>9. PICK d1 \in SeenAsDirectory(Current.p1), d2 \in SeenAsDirectory(Current.p2) :
         \/ Current.what # "both" /\ todo' = Tail(todo) /\ UNCHANGED pc
         \/ /\ Current.what = "both" /\ d1 # d2 /\ todo' = Tail(todo) /\ UNCHANGED pc
         \/ todo' = Tail(todo) /\ UNCHANGED <<pc, differed>>
         \/ d1 /\ d2 /\ pc' = "dir" /\ UNCHANGED <<todo, differed>>
         \/ /\ Current.what = "both" /\ ~d1 /\ ~d2
            /\ pc' = "equal" /\ UNCHANGED <<todo, differed>>
  BY DEF NextName
<1>10. /\ d1 \in BOOLEAN /\ (d1 <=> IsDirectory(Current.p1))
       /\ d2 \in BOOLEAN /\ (d2 <=> IsDirectory(Current.p2))
  BY SeenFacts DEF Calm
<1>11. IsDirectory(Current.p1) \in BOOLEAN /\ IsDirectory(Current.p2) \in BOOLEAN
  BY DEF IsDirectory
<1>. QED BY <1>4, <1>5, <1>6, <1>7, <1>8, <1>9, <1>10, <1>11

LEMMA AloneFiles ==
    ASSUME DiskInv, Dirs, Walk, Alone, Calm,
           EqualLeft \/ EqualRight \/ ReadA \/ ReadB
    PROVE  Alone'
<1>1. pc \in Comparing /\ todo # <<>> /\ UNCHANGED <<job, todo, differed>>
  BY DEF EqualLeft, EqualRight, ReadA, ReadB, world, Walk, Comparing
<1>2. AreFiles(Current)
  BY <1>1 DEF Alone
<1>3. Readable(Current.p1) /\ Readable(Current.p2)
  BY <1>2, Untouched DEF AreFiles, Readable, Exists, Calm
<1>4. pc' \in {"equal2", "read", "read2", "write"}
  BY <1>3 DEF EqualLeft, EqualRight, ReadA, ReadB, Fails, Calm
<1>. QED BY <1>1, <1>2, <1>4, AloneStay DEF Listing

LEMMA AloneWrite ==
    ASSUME DiskInv, Dirs, Walk, Reading, Alone, Calm, Write
    PROVE  Alone'
<1>1. pc = "write" /\ todo # <<>> /\ todo' = Tail(todo) /\ pc' = "next" /\ UNCHANGED job
  BY DEF Write, world, Walk
<1>2. /\ Current.p1 \in DOMAIN job.disk /\ Current.p2 \in DOMAIN job.disk
      /\ ~job.disk[Current.p1].dir
      /\ a = job.disk[Current.p1].lines /\ b = job.disk[Current.p2].lines
  BY <1>1 DEF Reading, Read, Calm
<1>3. CASE UNCHANGED differed
  <2>1. differed' = TRUE => Found
    BY <1>3 DEF Alone
  <2>. QED BY <1>1, <2>1, AlonePop
<1>4. CASE ~Same(a, b)
  <2>1. Found
    BY <1>1, <1>2, <1>4, FindsIt DEF Listing
  <2>. QED BY <1>1, <2>1, AlonePop
<1>. QED BY <1>3, <1>4 DEF Write

LEMMA AloneNext ==
    ASSUME DiskInv, Dirs, Walk, Reading, Known, Calm => Alone, [Next]_vars, Calm'
    PROVE  Alone'
<1>1. CASE Interfere
  <2>1. PICK p \in DOMAIN disk :
          \/ touched' = touched \cup {q \in DOMAIN disk : IsPrefix(p, q)}
          \/ touched' = touched \cup {p}
    BY <1>1 DEF Interfere
  <2>2. p \in Path
    BY Operands
  <2>3. IsPrefix(p, p)
    BY <2>2 DEF IsPrefix, Path
  <2>. QED BY <2>1, <2>3 DEF Calm
<1>2. CASE ~Interfere
  <2>1. Calm /\ Alone
    BY <1>2, CommandKeepsTree DEF Next, Command, world, Calm
  <2>2. CASE AllDone
    <3>1. /\ pc' = "done" /\ status' = IF differed THEN "1" ELSE "0"
          /\ UNCHANGED <<job, todo, differed>>
      BY <2>2 DEF AllDone, Ends, world
    <3>2. \A i \in DOMAIN todo : Told(todo[i])' <=> Told(todo[i])
      BY <3>1 DEF Told
    <3>3. Found' <=> Found
      BY <3>1, JobStays DEF Found
    <3>. QED BY <2>1, <3>1, <3>2, <3>3 DEF Alone, Listing, Comparing
  <2>3. CASE Over \/ UNCHANGED vars
    <3>1. UNCHANGED <<job, pc, todo, differed, status>>
      BY <2>3 DEF Over, vars
    <3>2. \A i \in DOMAIN todo : Told(todo[i])' <=> Told(todo[i])
      BY <3>1 DEF Told
    <3>3. (AreDirs(Current)' <=> AreDirs(Current)) /\ (AreFiles(Current)' <=> AreFiles(Current))
      BY <3>1 DEF AreDirs, AreFiles, Current
    <3>4. Found' <=> Found
      BY <3>1, JobStays DEF Found
    <3>. QED BY <2>1, <3>1, <3>2, <3>3, <3>4 DEF Alone
  <2>4. CASE Start
    BY <2>1, <2>4, AloneStart
  <2>5. CASE ReadLeft
    BY <2>1, <2>5, AloneReadLeft
  <2>6. CASE ReadRight
    BY <2>1, <2>6, AloneReadRight
  <2>7. CASE NextName
    BY <2>1, <2>7, AloneNextName
  <2>8. CASE EqualLeft \/ EqualRight \/ ReadA \/ ReadB
    BY <2>1, <2>8, AloneFiles
  <2>9. CASE Write
    BY <2>1, <2>9, AloneWrite
  <2>. QED BY <1>2, <2>2, <2>3, <2>4, <2>5, <2>6, <2>7, <2>8, <2>9 DEF Next
<1>. QED BY <1>1, <1>2

LEMMA StatusInit == Init => StatusIInv
<1>. SUFFICES ASSUME Init PROVE StatusIInv
  OBVIOUS
<1>1. TreeInv
  BY TreeInit
<1>2. pc = "start" /\ status = "running" /\ todo = <<>> /\ differed = FALSE
  BY DEF Init
<1>3. Known
  BY <1>2 DEF Known
<1>4. Alone
  BY <1>2 DEF Alone, Listing, Comparing
<1>. QED BY <1>1, <1>3, <1>4 DEF StatusIInv

LEMMA StatusNext == StatusIInv /\ [Next]_vars => StatusIInv'
<1>. SUFFICES ASSUME StatusIInv, [Next]_vars PROVE StatusIInv'
  OBVIOUS
<1>1. TreeInv /\ TreeInv' /\ DiskInv
  BY TreeNext DEF StatusIInv, TreeInv
<1>2. UNCHANGED job
  <2>1. CASE Interfere
    BY <2>1 DEF Interfere
  <2>2. CASE Command \/ UNCHANGED vars
    BY <2>2, CommandKeepsTree DEF world
  <2>. QED BY <2>1, <2>2 DEF Next, Command
<1>3. ASSUME Dirs PROVE Known' /\ (Calm' => Alone')
  <2>1. Walk /\ Reading /\ Known /\ (Calm => Alone)
    BY <1>1, <1>3 DEF TreeInv, StatusIInv
  <2>2. Known'
    BY <1>1, <1>3, <2>1, KnownNext
  <2>3. ASSUME Calm' PROVE Alone'
    BY <1>1, <1>3, <2>1, <2>3, AloneNext
  <2>. QED BY <2>2, <2>3
<1>. QED BY <1>1, <1>2, <1>3 DEF StatusIInv, Dirs

(***************************************************************************)
(* The exit status of a diff of two directories sums up all of them: 0     *)
(* only if no two paths that stayed as they were differ, whatever another  *)
(* job does meanwhile and whichever call fails; and if nobody interferes   *)
(* and no call may fail, 1 exactly if some path of the two trees differs,  *)
(* and never 2 (diff.go:240-334).                                          *)
(***************************************************************************)
THEOREM StatusSumsUp == Spec => []DirStatus
<1>1. StatusIInv => DirStatus
  <2>. SUFFICES ASSUME StatusIInv, pc = "done", Dirs
                PROVE  /\ status = "0" => \A q \in Compared : Settled(q) => ~Differs(q)
                       /\ Calm => status = IF \E q \in Compared : Differs(q)
                                           THEN "1" ELSE "0"
    BY DEF DirStatus, Dirs, Differs, Calm
  <2>1. Walk /\ Known /\ (Calm => Alone)
    BY DEF StatusIInv, TreeInv
  <2>2. ASSUME Calm
        PROVE  status = IF \E q \in Compared : Differs(q) THEN "1" ELSE "0"
    <3>1. \A q : Settled(q)
      BY <2>2 DEF Settled, Calm
    <3>2. CASE differed = TRUE
      <4>1. Found /\ status = "1"
        BY <2>1, <2>2, <3>2 DEF Alone
      <4>. QED BY <4>1 DEF Found
    <3>3. CASE differed = FALSE
      <4>1. status = "0"
        BY <2>1, <2>2, <3>3 DEF Alone
      <4>2. \A q \in Compared : ~Differs(q)
        BY <2>1, <3>1, <4>1 DEF Known
      <4>. QED BY <4>1, <4>2
    <3>. QED BY <2>1, <3>2, <3>3 DEF Walk
  <2>. QED BY <2>1, <2>2 DEF Known
<1>. QED BY <1>1, StatusInit, StatusNext, PTL DEF Spec
=============================================================================
