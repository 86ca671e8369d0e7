---------------------------- MODULE Grep_proofs ----------------------------
(***************************************************************************)
(* Proofs about Grep, for any command lines, trees, inputs and limits.     *)
(*                                                                         *)
(* ExitSumsUp: the exit status sums up all inputs.  StatusTruth speaks of  *)
(* finished commands; its inductive strengthening GrepIInv adds where the  *)
(* search is in its input, what the end of a search says of the whole      *)
(* input, and that anyMatch and anyError sum up the entries so far.        *)
(*                                                                         *)
(* WalkFindsFiles: grep -r searches the files of the tree.  The inductive  *)
(* invariant EntriesIInv says of a collection under way that what is to be *)
(* found is found or below a path of the work list, and nothing else is.   *)
(*                                                                         *)
(* PrintsTheReference: standard output is what the selected lines call     *)
(* for.  OutputIInv relates the locals of search at every line to what is  *)
(* to be printed of the lines so far: all of it is in the output except    *)
(* the pending lines, which may yet become leading context.                *)
(***************************************************************************)
EXTENDS Grep, SequenceTheorems, FiniteSetTheorems, WellFoundedInduction, TLAPS

-----------------------------------------------------------------------------
(* Numbers *)

\* A set of numbers that is not empty has a least one, and if it is bounded a
\* greatest one.
LEMMA LeastNatural ==
    ASSUME NEW T, T \subseteq Nat, T # {}
    PROVE  \E m \in T : \A k \in T : m <= k
<1>. DEFINE R == OpToRel(<, Nat)
<1>1. \A x, y \in Nat : <<y, x>> \in R <=> y < x
  BY DEF OpToRel
<1>2. IsWellFoundedOn(R, Nat)
  BY NatLessThanWellFounded
<1>. HIDE DEF R
<1>3. PICK m \in T : \A k \in T : ~(<<k, m>> \in R)
  BY <1>2, WFMin
<1>4. ASSUME NEW k \in T PROVE m <= k
  <2>1. k \in Nat /\ m \in Nat
    OBVIOUS
  <2>2. ~(k < m)
    BY <1>1, <1>3, <2>1, Zenon
  <2>. QED BY <2>1, <2>2
<1>. QED BY <1>4

LEMMA MinIs ==
    ASSUME NEW S \in SUBSET Nat, S # {}
    PROVE  Min(S) \in S /\ \A k \in S : Min(S) <= k
<1>1. \E m \in S : \A k \in S : m <= k
  BY LeastNatural
<1>. QED BY <1>1 DEF Min

LEMMA MaxIs ==
    ASSUME NEW n \in Nat, NEW S \in SUBSET (0..n), S # {}
    PROVE  Max(S) \in S /\ \A k \in S : k <= Max(S)
<1>. DEFINE T == {n - k : k \in S}
<1>0. \A k \in S : k \in 0..n
  OBVIOUS
<1>1. T \subseteq Nat /\ T # {}
  <2>1. \A k \in S : n - k \in Nat
    BY <1>0
  <2>. QED BY <2>1
<1>2. PICK t \in T : \A k \in T : t <= k
  <2>. HIDE DEF T
  <2>. QED BY <1>1, LeastNatural
<1>3. PICK m \in S : t = n - m
  OBVIOUS
<1>4. \A k \in S : m >= k
  <2>1. \A k \in S : n - m <= n - k
    BY <1>2, <1>3
  <2>. QED BY <2>1
<1>5. Max(S) \in S /\ \A k \in S : Max(S) >= k
  BY <1>4 DEF Max
<1>6. \A k \in S : k \in Int
  <2>1. \A k \in 0..n : k \in Int
    OBVIOUS
  <2>. QED BY <1>0, <2>1
<1>. QED BY <1>5, <1>6, SMTT(30)

LEMMA MaxAt ==
    ASSUME NEW n \in Nat, NEW S \in SUBSET (0..n), NEW m \in S, \A k \in S : k <= m
    PROVE  Max(S) = m
<1>1. Max(S) \in S /\ \A k \in S : k <= Max(S)
  BY MaxIs
<1>2. \A k \in S : k \in Int
  OBVIOUS
<1>3. Max(S) <= m /\ m <= Max(S) /\ Max(S) \in Int /\ m \in Int
  <2>. DEFINE x == Max(S)
  <2>1. x \in S /\ m <= x
    BY <1>1
  <2>. HIDE DEF x
  <2>2. x <= m /\ m <= x /\ x \in Int /\ m \in Int
    BY <1>2, <2>1
  <2>. QED BY <2>2 DEF x
<1>. QED BY <1>3

LEMMA MinOfTwo ==
    ASSUME NEW x \in Nat, NEW y \in Nat
    PROVE  Min({x, y}) = IF x <= y THEN x ELSE y
<1>1. Min({x, y}) \in {x, y} /\ \A k \in {x, y} : Min({x, y}) <= k
  BY MinIs
<1>. QED BY <1>1

-----------------------------------------------------------------------------
(* The lines of one input *)
LEMMA JobFacts ==
    ASSUME job \in Jobs
    PROVE  /\ o.maxCount \in Nat /\ o.after \in Nat /\ o.before \in Nat
           /\ job.stdin \in Seq(Line)
           /\ \A p \in DOMAIN job.disk : job.disk[p].lines \in Seq(Line)
           /\ MaxWork \in Nat /\ MaxResults \in Nat /\ MaxOutput \in Nat
           /\ MaxContext \in Nat /\ MaxTraversal \in Nat /\ MaxEntries \in Nat
           /\ MaxDepth \in Nat
BY GrepAssumption DEF o

\* The lines up to the i-th that match, or do not with -v.
Hits(l, i) == {j \in 1..i : Selects(l[j])}

LEMMA HitsAre ==
    ASSUME NEW l, NEW i \in Nat
    PROVE  IsFiniteSet(Hits(l, i)) /\ Cardinality(Hits(l, i)) \in Nat
<1>1. Hits(l, i) \subseteq 1..i /\ IsFiniteSet(1..i)
  BY FS_Interval DEF Hits
<1>2. IsFiniteSet(Hits(l, i))
  BY <1>1, FS_Subset
<1>. QED BY <1>2, FS_CardinalityType

LEMMA HitsStep ==
    ASSUME NEW l, NEW i \in Nat
    PROVE  /\ Hits(l, 0) = {} /\ Cardinality(Hits(l, 0)) = 0
           /\ ~Selects(l[i + 1]) => Hits(l, i + 1) = Hits(l, i)
           /\ Selects(l[i + 1]) => Cardinality(Hits(l, i + 1)) = Cardinality(Hits(l, i)) + 1
<1>1. Hits(l, 0) = {}
  BY DEF Hits
<1>2. Cardinality(Hits(l, 0)) = 0
  BY <1>1, FS_EmptySet
<1>3. ~Selects(l[i + 1]) => Hits(l, i + 1) = Hits(l, i)
  BY DEF Hits
<1>4. ASSUME Selects(l[i + 1])
      PROVE  Cardinality(Hits(l, i + 1)) = Cardinality(Hits(l, i)) + 1
  <2>1. Hits(l, i + 1) = Hits(l, i) \cup {i + 1} /\ i + 1 \notin Hits(l, i)
    BY <1>4 DEF Hits
  <2>. QED BY <2>1, HitsAre, FS_AddElement
<1>. QED BY <1>1, <1>2, <1>3, <1>4

LEMMA HitsGrow ==
    ASSUME NEW l, NEW i \in Nat, NEW j \in Nat, i <= j
    PROVE  /\ Hits(l, i) \subseteq Hits(l, j)
           /\ Cardinality(Hits(l, i)) <= Cardinality(Hits(l, j))
           /\ i < j /\ Selects(l[j]) => Cardinality(Hits(l, i)) < Cardinality(Hits(l, j))
<1>1. Hits(l, i) \subseteq Hits(l, j)
  BY DEF Hits
<1>2. Cardinality(Hits(l, i)) <= Cardinality(Hits(l, j))
  BY <1>1, HitsAre, FS_Subset
<1>3. ASSUME i < j, Selects(l[j])
      PROVE  Cardinality(Hits(l, i)) < Cardinality(Hits(l, j))
  <2>1. Hits(l, i) # Hits(l, j)
    BY <1>3 DEF Hits
  <2>2. Cardinality(Hits(l, i)) # Cardinality(Hits(l, j))
    BY <1>1, <2>1, HitsAre, FS_Subset
  <2>. QED BY <1>2, <2>2, HitsAre
<1>. QED BY <1>1, <1>2, <1>3

LEMMA SelectedAre ==
    ASSUME NEW l \in Seq(Line)
    PROVE  /\ \A i : i \in SelectedLines(l) <=>
                       /\ i \in 1..Len(l) /\ Selects(l[i])
                       /\ o.maxCount = 0 \/ Cardinality(Hits(l, i)) <= o.maxCount
           /\ SelectedLines(l) \subseteq Hits(l, Len(l))
           /\ SelectedLines(l) \subseteq 0..Len(l) /\ Len(l) \in Nat
<1>1. Len(l) \in Nat /\ DOMAIN l = 1..Len(l)
  BY LenProperties
<1>. DEFINE hits == {i \in DOMAIN l : Selects(l[i])}
<1>2. ASSUME NEW i \in 1..Len(l) PROVE {j \in hits : j <= i} = Hits(l, i)
  BY <1>1 DEF Hits
<1>3. SelectedLines(l) = {i \in hits : o.maxCount = 0
                                      \/ Cardinality({j \in hits : j <= i}) <= o.maxCount}
  BY DEF SelectedLines
<1>4. ASSUME NEW i
      PROVE  i \in SelectedLines(l) <=>
                       /\ i \in 1..Len(l) /\ Selects(l[i])
                       /\ o.maxCount = 0 \/ Cardinality(Hits(l, i)) <= o.maxCount
  <2>1. CASE i \in 1..Len(l)
    <3>1. i \in hits <=> Selects(l[i])
      BY <1>1, <2>1
    <3>. HIDE DEF hits
    <3>. QED BY <1>2, <1>3, <2>1, <3>1
  <2>2. CASE i \notin 1..Len(l)
    BY <1>1, <1>3, <2>2
  <2>. QED BY <2>1, <2>2
<1>5. SelectedLines(l) \subseteq Hits(l, Len(l))
  BY <1>4 DEF Hits
<1>6. SelectedLines(l) \subseteq 0..Len(l)
  BY <1>4
<1>. QED BY <1>1, <1>4, <1>5, <1>6

\* If a line matches, one is selected: the first.
LEMMA SomeSelected ==
    ASSUME job \in Jobs, NEW l \in Seq(Line)
    PROVE  SelectedLines(l) # {} <=> Hits(l, Len(l)) # {}
<1>1. ASSUME Hits(l, Len(l)) # {} PROVE SelectedLines(l) # {}
  <2>1. Hits(l, Len(l)) \subseteq Nat
    BY DEF Hits
  <2>2. PICK m \in Hits(l, Len(l)) : \A k \in Hits(l, Len(l)) : m <= k
    BY <1>1, <2>1, LeastNatural
  <2>3. m \in 1..Len(l) /\ Selects(l[m])
    BY <2>2 DEF Hits
  <2>4. Hits(l, m) = {m}
    BY <2>2, <2>3 DEF Hits
  <2>5. Cardinality(Hits(l, m)) = 1
    BY <2>4, FS_Singleton
  <2>6. m \in SelectedLines(l)
    BY <2>3, <2>5, SelectedAre, JobFacts, SMTT(30)
  <2>. QED BY <2>6
<1>. QED BY <1>1, SelectedAre

\* Once -m lines are selected, no others are.
LEMMA FullAt ==
    ASSUME job \in Jobs, NEW l \in Seq(Line), NEW m \in 1..Len(l), Selects(l[m]),
           o.maxCount > 0, Cardinality(Hits(l, m)) = o.maxCount
    PROVE  /\ SelectedLines(l) = Hits(l, m) /\ Full(l)
           /\ Max(SelectedLines(l)) = m /\ SelectedLines(l) # {}
<1>1. Len(l) \in Nat /\ m \in Nat /\ o.maxCount \in Nat
  BY JobFacts, LenProperties
<1>2. ASSUME NEW i \in SelectedLines(l) PROVE i \in Hits(l, m)
  <2>1. i \in 1..Len(l) /\ Selects(l[i]) /\ Cardinality(Hits(l, i)) <= o.maxCount
    BY <1>1, SelectedAre
  <2>2. ~(m < i)
    <3>1. ASSUME m < i PROVE Cardinality(Hits(l, m)) < Cardinality(Hits(l, i))
      BY <1>1, <2>1, <3>1, HitsGrow
    <3>2. Cardinality(Hits(l, i)) \in Nat
      BY <2>1, HitsAre
    <3>. QED BY <1>1, <2>1, <3>1, <3>2
  <2>. QED BY <1>1, <2>1, <2>2 DEF Hits
<1>3. ASSUME NEW i \in Hits(l, m) PROVE i \in SelectedLines(l)
  <2>1. i \in 1..m /\ Selects(l[i])
    BY DEF Hits
  <2>2. i \in 1..Len(l) /\ i \in Nat /\ i <= m
    BY <1>1, <2>1
  <2>3. Cardinality(Hits(l, i)) <= o.maxCount
    BY <1>1, <2>2, HitsGrow
  <2>. QED BY <2>1, <2>2, <2>3, SelectedAre
<1>4. SelectedLines(l) = Hits(l, m)
  BY <1>2, <1>3
<1>5. Full(l)
  BY <1>4 DEF Full
<1>6. m \in SelectedLines(l) /\ \A k \in SelectedLines(l) : k <= m
  BY <1>1, <1>4 DEF Hits
<1>7. Max(SelectedLines(l)) = m
  BY <1>1, <1>6, MaxAt, SelectedAre
<1>. QED BY <1>4, <1>5, <1>6, <1>7

-----------------------------------------------------------------------------
(* How the search of one input ends *)

\* No failure among the first i lines.
Clean(l, i) == \A j \in 1..i : l[j] >= 0

\* -m has had enough at line m, and i lines are read.
Capped(l, i, m) ==
    /\ m \in 1..i /\ Selects(l[m]) /\ o.maxCount > 0
    /\ Cardinality(Hits(l, m)) = o.maxCount /\ Clean(l, m)
    /\ \A j \in 1..i : j > m => l[j] >= 0 \/ l[j] = Runaway

LEMMA LineIs ==
    ASSUME NEW l \in Seq(Line), NEW i \in 1..Len(l)
    PROVE  l[i] \in Int /\ (l[i] >= 0 => l[i] \in Nat)
           /\ (l[i] < 0 => l[i] \in {Broken, TooLong, Runaway})
<1>1. l[i] \in Line
  BY ElementOfSeq
<1>. QED BY <1>1 DEF Line, Broken, TooLong, Runaway

LEMMA LastReadIs ==
    ASSUME job \in Jobs, NEW l \in Seq(Line)
    PROVE  LastRead(l) \in 0..Len(l)
<1>. DEFINE S == SelectedLines(l)
<1>1. S \subseteq 0..Len(l) /\ Len(l) \in Nat /\ o.after \in Nat /\ o.maxCount \in Nat
  BY SelectedAre, JobFacts
<1>2. Full(l) => S # {}
  <2>1. Full(l) => o.maxCount > 0 /\ Cardinality(S) = o.maxCount
    BY DEF Full
  <2>2. S = {} => Cardinality(S) = 0
    BY FS_EmptySet
  <2>. HIDE DEF S
  <2>. QED BY <1>1, <2>1, <2>2
<1>3. CASE BriefMode /\ S # {}
  <2>1. LastRead(l) = Min(S)
    BY <1>3 DEF LastRead
  <2>2. Min(S) \in S
    <3>1. S \in SUBSET Nat
      BY <1>1
    <3>. QED BY <1>3, <3>1, MinIs
  <2>. QED BY <1>1, <2>1, <2>2
<1>4. CASE ~(BriefMode /\ S # {}) /\ Full(l)
  <2>. DEFINE x == Max(S) + IF On("count") THEN 0 ELSE o.after
  <2>1. LastRead(l) = Min({Len(l), x})
    BY <1>4 DEF LastRead
  <2>2. Max(S) \in S
    <3>. HIDE DEF S
    <3>. QED BY <1>1, <1>2, <1>4, MaxIs
  <2>3. x \in Nat
    BY <1>1, <2>2
  <2>. HIDE DEF x
  <2>. QED BY <1>1, <2>1, <2>3, MinOfTwo
<1>5. CASE ~(BriefMode /\ S # {}) /\ ~Full(l)
  BY <1>1, <1>5 DEF LastRead
<1>. QED BY <1>3, <1>4, <1>5

\* A search that meets no failing line has no fault.
LEMMA NoFault ==
    ASSUME job \in Jobs, NEW l \in Seq(Line), \A i \in 1..LastRead(l) : ~Fails(l, i)
    PROVE  Faults(l) = {}
BY DEF Faults

\* The fault is the first failure.
LEMMA FirstFault ==
    ASSUME job \in Jobs, NEW l \in Seq(Line), NEW i \in 1..LastRead(l),
           Fails(l, i), \A j \in 1..(i - 1) : ~Fails(l, j)
    PROVE  Faults(l) = {l[i]}
<1>. DEFINE F == {k \in 1..LastRead(l) : Fails(l, k) /\ \A j \in 1..(k - 1) : ~Fails(l, j)}
<1>1. i \in F
  OBVIOUS
<1>2. ASSUME NEW k \in F PROVE k = i
  <2>1. k \in Int /\ i \in Int /\ k \in 1..LastRead(l) /\ LastRead(l) \in Int
    BY LastReadIs
  <2>2. ~(k < i) /\ ~(i < k)
    BY <2>1
  <2>. QED BY <2>1, <2>2
<1>3. Faults(l) = {l[k] : k \in F}
  BY DEF Faults
<1>4. F = {i}
  BY <1>1, <1>2
<1>. HIDE DEF F
<1>. QED BY <1>3, <1>4

\* All lines are read.
LEMMA EndOfInput ==
    ASSUME job \in Jobs, NEW l \in Seq(Line), Clean(l, Len(l))
    PROVE  Faults(l) = {}
<1>1. ASSUME NEW i \in 1..LastRead(l) PROVE ~Fails(l, i)
  <2>1. i \in 1..Len(l)
    BY LastReadIs, LenProperties
  <2>2. l[i] >= 0 /\ l[i] \in Int
    BY <2>1, LineIs DEF Clean
  <2>. QED BY <2>2 DEF Fails
<1>. QED BY <1>1, NoFault

\* The first selected line is enough for -q, -l and -L.
LEMMA EndOfBrief ==
    ASSUME job \in Jobs, NEW l \in Seq(Line), NEW i \in 0..(Len(l) - 1),
           Clean(l, i), Hits(l, i) = {}, BriefMode, Selects(l[i + 1])
    PROVE  Faults(l) = {} /\ SelectedLines(l) # {}
<1>1. Len(l) \in Nat /\ i \in Nat /\ i + 1 \in 1..Len(l)
  BY LenProperties
<1>2. i + 1 \in Hits(l, Len(l))
  BY <1>1 DEF Hits
<1>3. SelectedLines(l) # {}
  BY <1>2, SomeSelected
<1>4. LastRead(l) = Min(SelectedLines(l))
  BY <1>3 DEF LastRead
<1>5. SelectedLines(l) \in SUBSET Nat
  BY <1>1, SelectedAre
<1>6. Min(SelectedLines(l)) \in SelectedLines(l)
      /\ \A k \in SelectedLines(l) : Min(SelectedLines(l)) <= k
  BY <1>3, <1>5, MinIs
<1>7. Cardinality(Hits(l, i + 1)) = 1
  <2>1. Cardinality(Hits(l, i)) = 0
    BY FS_EmptySet
  <2>2. Cardinality(Hits(l, i + 1)) = Cardinality(Hits(l, i)) + 1
    BY <1>1, HitsStep
  <2>. QED BY <2>1, <2>2
<1>8. i + 1 \in SelectedLines(l)
  BY <1>1, <1>7, SelectedAre, JobFacts, SMTT(30)
<1>9. LastRead(l) <= i + 1 /\ LastRead(l) \in Nat
  BY <1>4, <1>5, <1>6, <1>8
<1>10. ASSUME NEW k \in 1..LastRead(l) PROVE ~Fails(l, k)
  <2>1. k \in 1..(i + 1) /\ k \in 1..Len(l)
    BY <1>1, <1>9
  <2>2. l[k] >= 0
    BY <1>1, <2>1 DEF Clean, Selects
  <2>. QED BY <2>1, <2>2, LineIs DEF Fails
<1>. QED BY <1>3, <1>10, NoFault

LEMMA CappedReads ==
    ASSUME job \in Jobs, NEW l \in Seq(Line), NEW i \in 0..Len(l), NEW m, Capped(l, i, m),
           ~BriefMode
    PROVE  /\ SelectedLines(l) # {} /\ m \in 1..Len(l)
           /\ LastRead(l) = LET x == m + IF On("count") THEN 0 ELSE o.after
                            IN IF Len(l) <= x THEN Len(l) ELSE x
           /\ \A k \in 1..i : ~Fails(l, k)
<1>1. /\ Len(l) \in Nat /\ m \in 1..Len(l) /\ m \in 1..i /\ Selects(l[m]) /\ o.maxCount > 0
      /\ Cardinality(Hits(l, m)) = o.maxCount /\ o.after \in Nat
  BY LenProperties, JobFacts DEF Capped
<1>2. /\ Full(l) /\ Max(SelectedLines(l)) = m /\ SelectedLines(l) # {}
  BY <1>1, FullAt
<1>3. LastRead(l) = Min({Len(l), m + IF On("count") THEN 0 ELSE o.after})
  BY <1>2 DEF LastRead
<1>4. m + (IF On("count") THEN 0 ELSE o.after) \in Nat
  BY <1>1
<1>5. ASSUME NEW k \in 1..i PROVE ~Fails(l, k)
  <2>1. k \in 1..Len(l) /\ k \in Int /\ m \in Int
    BY <1>1
  <2>2. CASE k > m
    <3>1. l[k] >= 0 \/ l[k] = Runaway
      BY <2>2 DEF Capped
    <3>. QED BY <1>2, <2>1, <2>2, <3>1, LineIs DEF Fails
  <2>3. CASE ~(k > m)
    <3>1. k \in 1..m
      BY <1>1, <2>1, <2>3
    <3>2. l[k] >= 0
      BY <3>1 DEF Capped, Clean
    <3>. QED BY <2>1, <3>2, LineIs DEF Fails
  <2>. QED BY <2>2, <2>3
<1>. QED BY <1>1, <1>2, <1>3, <1>4, <1>5, MinOfTwo

\* -m lines are selected and their trailing context is read.
LEMMA EndOfCount ==
    ASSUME job \in Jobs, NEW l \in Seq(Line), NEW i \in 0..Len(l), NEW m, Capped(l, i, m),
           ~BriefMode,
           \/ i = m /\ On("count")
           \/ i = m + o.after /\ ~On("count")
           \/ i = Len(l) /\ i <= m + o.after /\ ~On("count")
    PROVE  Faults(l) = {} /\ SelectedLines(l) # {}
<1>1. m \in 1..Len(l) /\ m \in Int /\ o.after \in Nat /\ Len(l) \in Nat /\ i \in Int
  BY CappedReads, JobFacts, LenProperties
<1>2. LastRead(l) = i
  BY <1>1, CappedReads
<1>. QED BY <1>2, CappedReads, NoFault

\* A line that cannot be read, or not be tried, before -m has had enough.
LEMMA FaultOpen ==
    ASSUME job \in Jobs, NEW l \in Seq(Line), NEW i \in 0..(Len(l) - 1), Clean(l, i),
           BriefMode => Hits(l, i) = {},
           o.maxCount = 0 \/ Cardinality(Hits(l, i)) < o.maxCount, l[i + 1] < 0
    PROVE  Faults(l) = {l[i + 1]}
<1>. DEFINE S == SelectedLines(l)
<1>1. /\ Len(l) \in Nat /\ i \in Nat /\ i + 1 \in 1..Len(l) /\ o.maxCount \in Nat /\ o.after \in Nat
      /\ S \subseteq 0..Len(l) /\ l[i + 1] \in Int
  BY LenProperties, SelectedAre, JobFacts, LineIs
<1>2. ASSUME NEW k \in S PROVE k \in Hits(l, i) \/ i + 1 < k
  <2>1. k \in 1..Len(l) /\ Selects(l[k])
    BY SelectedAre
  <2>2. k # i + 1
    BY <1>1, <2>1 DEF Selects
  <2>. QED BY <1>1, <2>1, <2>2 DEF Hits
<1>3. ASSUME Full(l) PROVE Max(S) \in Nat /\ i + 1 < Max(S)
  <2>1. o.maxCount > 0 /\ Cardinality(S) = o.maxCount
    BY <1>3 DEF Full
  <2>2. ~(S \subseteq Hits(l, i))
    <3>1. S \subseteq Hits(l, i) => Cardinality(S) <= Cardinality(Hits(l, i))
      BY <1>1, HitsAre, FS_Subset
    <3>2. Cardinality(Hits(l, i)) \in Nat
      BY <1>1, HitsAre
    <3>. QED BY <1>1, <2>1, <3>1, <3>2
  <2>3. PICK k \in S : i + 1 < k
    BY <1>2, <2>2
  <2>. HIDE DEF S
  <2>4. Max(S) \in S /\ k <= Max(S)
    BY <1>1, <2>3, MaxIs
  <2>5. Max(S) \in Nat /\ k \in Nat
    <3>1. \A x \in S : x \in Nat
      BY <1>1
    <3>. QED BY <2>4, <3>1
  <2>. QED BY <1>1, <2>3, <2>4, <2>5
<1>4. i + 1 <= LastRead(l)
  <2>1. CASE BriefMode /\ S # {}
    <3>1. LastRead(l) = Min(S)
      BY <2>1 DEF LastRead
    <3>2. Min(S) \in S /\ S \subseteq Nat
      <4>1. S \in SUBSET Nat
        BY <1>1
      <4>. HIDE DEF S
      <4>. QED BY <2>1, <4>1, MinIs
    <3>. HIDE DEF S
    <3>3. i + 1 < Min(S)
      BY <1>2, <2>1, <3>2
    <3>4. Min(S) \in Nat
      BY <3>2
    <3>. QED BY <1>1, <3>1, <3>3, <3>4
  <2>2. CASE ~(BriefMode /\ S # {}) /\ Full(l)
    <3>. DEFINE x == Max(S) + IF On("count") THEN 0 ELSE o.after
    <3>1. LastRead(l) = Min({Len(l), x})
      BY <2>2 DEF LastRead
    <3>. HIDE DEF S
    <3>2. x \in Nat /\ i + 1 < x
      BY <1>1, <1>3, <2>2
    <3>. HIDE DEF x
    <3>. QED BY <1>1, <3>1, <3>2, MinOfTwo
  <2>3. CASE ~(BriefMode /\ S # {}) /\ ~Full(l)
    BY <1>1, <2>3 DEF LastRead
  <2>. QED BY <2>1, <2>2, <2>3
<1>5. i + 1 \in 1..LastRead(l)
  BY <1>1, <1>4, LastReadIs
<1>6. Fails(l, i + 1)
  BY <1>1, <1>3 DEF Fails
<1>7. ASSUME NEW j \in 1..((i + 1) - 1) PROVE ~Fails(l, j)
  <2>1. j \in 1..i /\ j \in 1..Len(l)
    BY <1>1
  <2>. QED BY <2>1, LineIs DEF Fails, Clean
<1>. QED BY <1>5, <1>6, <1>7, FirstFault

\* A line of the trailing context that cannot be read.
LEMMA FaultCapped ==
    ASSUME job \in Jobs, NEW l \in Seq(Line), NEW i \in 0..(Len(l) - 1), NEW m,
           Capped(l, i, m), ~BriefMode, ~On("count"), i < m + o.after,
           l[i + 1] \in {Broken, TooLong}
    PROVE  Faults(l) = {l[i + 1]}
<1>1. /\ i \in 0..Len(l) /\ i + 1 \in 1..Len(l) /\ Len(l) \in Nat /\ i \in Nat /\ o.after \in Nat
  BY LenProperties, JobFacts
<1>2. /\ m \in 1..Len(l) /\ \A k \in 1..i : ~Fails(l, k)
      /\ LastRead(l) = LET x == m + o.after IN IF Len(l) <= x THEN Len(l) ELSE x
  BY <1>1, CappedReads
<1>3. i + 1 \in 1..LastRead(l)
  BY <1>1, <1>2
<1>4. Fails(l, i + 1)
  BY DEF Fails, Broken, TooLong, Runaway
<1>5. \A j \in 1..((i + 1) - 1) : ~Fails(l, j)
  BY <1>1, <1>2
<1>. QED BY <1>3, <1>4, <1>5, FirstFault

-----------------------------------------------------------------------------
(* The inductive invariant of StatusTruth *)

\* Files go away; those that are left are as they were.
DiskKept == /\ DOMAIN disk \subseteq DOMAIN job.disk
            /\ \A p \in DOMAIN disk : disk[p] = job.disk[p]

Kinds == {"stdin", "skipped", "missing", "directory", "file"}

\* Which inputs were opened, and that no limit is met while grep goes on.
Control ==
    /\ job \in Jobs /\ next \in Nat /\ found \in Seq(Kinds) /\ Len(found) = next
    /\ claimed = (\E k \in 1..next : found[k] = "stdin")
    /\ \A k \in 1..next : found[k] = "file" => ResolvePath(entries[k]) \in DOMAIN job.disk
    /\ any \in [match : BOOLEAN, error : BOOLEAN]
    /\ Implicit => next = 0
    /\ pc \notin {"start", "done"} => ~Refused
    /\ pc # "done" => status = "running" /\ InBudget(trav)
    /\ pc \notin {"limit", "done"} => Fits(budget) /\ Len(loop.pending) <= MaxContext
    /\ pc \in {"collect", "next"} => ~Implicit
    /\ pc \in {"start", "collect"} => next = 0
    /\ pc = "start" => loop = Start0
    /\ pc \in {"search", "searched", "unread", "limit"} /\ ~Implicit => next > 0

\* The input in hand.
Current == IF Implicit THEN Piped ELSE Lines(next)

\* Where search is in the lines l: nothing failed so far, and the selected
\* lines are counted; after the last of -m only its trailing context is left.
Place(l) ==
    /\ loop = [f \in {"index", "pending", "after", "selected", "count", "lastPrinted", "out"} |-> loop[f]]
    /\ loop.index \in 0..Len(l) /\ loop.selected \in Nat /\ loop.after \in Nat
    /\ input \in Seq(Line) /\ Len(input) = Len(l) - loop.index
    /\ \A j \in 1..Len(input) : input[j] = l[loop.index + j]
    /\ BriefMode => loop.selected = 0
    /\ ~Exhausted => Clean(l, loop.index) /\ loop.selected = Cardinality(Hits(l, loop.index))
    /\ Exhausted => \E m : /\ Capped(l, loop.index, m)
                           /\ IF On("count") THEN loop.index = m
                                             ELSE loop.index + loop.after = m + o.after

\* What is known when the search of an input is over.
Searching ==
    /\ pc = "search" => Place(Current)
    /\ pc = "searched" => /\ Faults(Current) = {}
                          /\ Matched <=> SelectedLines(Current) # {}
    /\ pc = "unread" => Faults(Current) = {Broken}
    /\ pc = "limit" => OverLimit \/ Faults(Current) \cap {TooLong, Runaway} # {}

\* anyMatch and anyError sum up the entries that are done.
Limits(l) == Faults(l) \cap {TooLong, Runaway} # {}
Selected(l) == Faults(l) = {} /\ SelectedLines(l) # {}
Tally ==
    pc # "done" /\ ~Implicit =>
      LET n == IF pc = "next" THEN next ELSE next - 1 IN
      /\ any.error <=> \E k \in 1..next : \/ found[k] = "missing"
                                          \/ k <= n /\ Faults(Lines(k)) # {}
      /\ any.match <=> \E k \in 1..n : Selected(Lines(k))
      /\ \A k \in 1..n : ~Limits(Lines(k))
      /\ On("quiet") => ~any.match

GrepIInv == Control /\ DiskKept /\ Searching /\ Tally /\ StatusTruth

-----------------------------------------------------------------------------
(* What a step leaves alone *)
LEMMA SameJob ==
    ASSUME job' = job
    PROVE  /\ \A l : SelectedLines(l)' = SelectedLines(l) /\ Faults(l)' = Faults(l)
           /\ (BriefMode' <=> BriefMode) /\ (Implicit' <=> Implicit) /\ (Refused' <=> Refused)
           /\ o' = o /\ Piped' = Piped /\ \A option : On(option)' <=> On(option)
<1>1. ASSUME NEW l PROVE SelectedLines(l)' = SelectedLines(l)
  BY DEF SelectedLines, Selects, On, o
<1>2. ASSUME NEW l PROVE Full(l)' = Full(l)
  BY <1>1 DEF Full, o
<1>3. ASSUME NEW l PROVE LastRead(l)' = LastRead(l)
  BY <1>1, <1>2 DEF LastRead, BriefMode, Listing, Implicit, On, o
<1>4. ASSUME NEW l PROVE Faults(l)' = Faults(l)
  BY <1>1, <1>2, <1>3 DEF Faults, Fails
<1>5. (BriefMode' <=> BriefMode) /\ (Implicit' <=> Implicit) /\ (Refused' <=> Refused)
  BY DEF BriefMode, Listing, Implicit, Refused, On, o
<1>6. o' = o /\ Piped' = Piped /\ \A option : On(option)' <=> On(option)
  BY DEF o, Piped, On
<1>. QED BY <1>1, <1>4, <1>5, <1>6

LEMMA SameHits ==
    ASSUME job' = job
    PROVE  /\ \A l, i : Hits(l, i)' = Hits(l, i) /\ (Clean(l, i)' <=> Clean(l, i))
           /\ \A l, i, m : Capped(l, i, m)' <=> Capped(l, i, m)
           /\ \A line : Selects(line)' <=> Selects(line)
<1>1. \A line : Selects(line)' <=> Selects(line)
  BY DEF Selects, On, o
<1>2. ASSUME NEW l, NEW i PROVE Hits(l, i)' = Hits(l, i) /\ (Clean(l, i)' <=> Clean(l, i))
  BY DEF Hits, Clean, Selects, On, o
<1>3. ASSUME NEW l, NEW i, NEW m PROVE Capped(l, i, m)' <=> Capped(l, i, m)
  BY <1>1, <1>2 DEF Capped, o
<1>. QED BY <1>1, <1>2, <1>3

LEMMA SameLines ==
    ASSUME job' = job, found' = found, entries' = entries, next' = next
    PROVE  Current' = Current /\ \A k : Lines(k)' = Lines(k)
<1>1. ASSUME NEW k PROVE Lines(k)' = Lines(k)
  BY DEF Lines
<1>. QED BY <1>1, SameJob DEF Current

LEMMA LinesAre ==
    ASSUME Control
    PROVE  /\ \A k \in 1..next : Lines(k) \in Seq(Line)
           /\ (Implicit \/ next > 0) => Current \in Seq(Line)
<1>1. \A p \in DOMAIN job.disk : job.disk[p].lines \in Seq(Line)
  BY JobFacts DEF Control
<1>2. job.stdin \in Seq(Line) /\ <<>> \in Seq(Line)
  BY JobFacts DEF Control
<1>3. ASSUME NEW k \in 1..next PROVE Lines(k) \in Seq(Line)
  <2>1. CASE found[k] = "file"
    BY <1>1, <2>1 DEF Lines, Control
  <2>2. CASE found[k] # "file"
    BY <1>2, <2>2 DEF Lines
  <2>. QED BY <2>1, <2>2
<1>4. Piped \in Seq(Line)
  BY <1>2 DEF Piped
<1>5. next > 0 => next \in 1..next
  BY DEF Control
<1>. QED BY <1>3, <1>4, <1>5 DEF Current

\* StatusTruth, of the status s and with a limit met or not.
StatusIs(s, over) ==
    LET inputs == IF Implicit THEN {Piped} ELSE {Lines(k) : k \in 1..next}
        failed == (\E k \in 1..next : found[k] = "missing")
                  \/ \E l \in inputs : Faults(l) # {}
        hit == \E l \in inputs : Selected(l)
    IN s \in {"0", "1", "2"} /\ ~Refused =>
         s = IF over THEN "2"
             ELSE IF hit /\ On("quiet") /\ ~\E l \in inputs : Limits(l) THEN "0"
             ELSE IF failed THEN "2" ELSE IF hit THEN "0" ELSE "1"

LEMMA StatusStep ==
    ASSUME job' = job, found' = found, entries' = entries, next' = next,
           StatusIs(status', OverLimit')
    PROVE  StatusTruth'
<1>. DEFINE inputs == IF Implicit THEN {Piped} ELSE {Lines(k) : k \in 1..next}
<1>1. inputs' = inputs
  BY SameJob, SameLines
<1>2. \A l : (Selected(l)' <=> Selected(l)) /\ (Limits(l)' <=> Limits(l)) /\ Faults(l)' = Faults(l)
  BY SameJob DEF Selected, Limits
<1>3. (Refused' <=> Refused) /\ (On("quiet")' <=> On("quiet"))
  BY SameJob
<1>. QED BY <1>1, <1>2, <1>3 DEF StatusTruth, StatusIs, Selected, Limits

\* A step that ends the command for a limit, or with a status of its own.
LEMMA EndsPlain ==
    ASSUME NEW s, NEW over, Refused \/ s \notin {"0", "1", "2"} \/ (s = "2" /\ over)
    PROVE  StatusIs(s, over)
BY DEF StatusIs

\* A step that only another job takes.
LEMMA Stays ==
    ASSUME GrepIInv, DiskKept',
           UNCHANGED <<job, pc, trav, entries, next, input, loop, budget, claimed, found,
                       any, status>>
    PROVE  GrepIInv'
<1>1. Control'
  BY DEF GrepIInv, Control, Implicit, Refused, InBudget, Fits, On, o, Start0
<1>2. /\ (OverLimit' <=> OverLimit) /\ (Exhausted' <=> Exhausted) /\ (Matched' <=> Matched)
  BY DEF OverLimit, Exhausted, Matched, Fits, InBudget, o
<1>3. Place(Current)' <=> Place(Current)
  BY <1>2, SameJob, SameHits, SameLines DEF Place
<1>4. Searching'
  BY <1>2, <1>3, SameJob, SameLines DEF GrepIInv, Searching
<1>5. Tally'
  BY SameJob, SameLines DEF GrepIInv, Tally, Selected, Limits
<1>6. StatusIs(status', OverLimit')
  <2>1. StatusTruth <=> StatusIs(status, OverLimit)
    BY DEF StatusTruth, StatusIs, Selected, Limits
  <2>. QED BY <1>2, <2>1 DEF GrepIInv, StatusIs
<1>7. StatusTruth'
  BY <1>6, StatusStep
<1>. QED BY <1>1, <1>4, <1>5, <1>7 DEF GrepIInv

-----------------------------------------------------------------------------
(* The steps before a search *)
LEMMA Finishes ==
    ASSUME GrepIInv, UNCHANGED <<job, disk, entries, next, claimed, found>>,
           any' \in [match : BOOLEAN, error : BOOLEAN], pc' = "done",
           StatusIs(status', OverLimit')
    PROVE  GrepIInv'
<1>1. Control'
  BY SameJob DEF GrepIInv, Control
<1>2. DiskKept' /\ Searching' /\ Tally'
  BY DEF GrepIInv, DiskKept, Searching, Tally
<1>. QED BY <1>1, <1>2, StatusStep DEF GrepIInv

\* While the command runs there is no status to be wrong.
LEMMA NotYet ==
    ASSUME status' = "running"
    PROVE  StatusTruth'
BY DEF StatusTruth

LEMMA StatusInit ==
    ASSUME Init
    PROVE  GrepIInv
<1>1. /\ job \in Jobs /\ next = 0 /\ found = <<>> /\ pc = "start" /\ status = "running"
      /\ disk = job.disk /\ loop = Start0 /\ budget = NoBudget
      /\ any = [match |-> FALSE, error |-> FALSE] /\ claimed = FALSE
      /\ trav = [operations |-> 0, results |-> 0]
  BY DEF Init
<1>2. InBudget(trav) /\ Fits(budget) /\ Len(loop.pending) <= MaxContext
  BY <1>1, JobFacts DEF InBudget, Fits, NoBudget, Start0
<1>3. Control
  <2>1. found \in Seq(Kinds) /\ Len(found) = next /\ \A k \in 1..next : FALSE
    BY <1>1
  <2>2. claimed = (\E k \in 1..next : found[k] = "stdin")
    BY <1>1, <2>1
  <2>3. any \in [match : BOOLEAN, error : BOOLEAN]
    BY <1>1
  <2>. QED BY <1>1, <1>2, <2>1, <2>2, <2>3 DEF Control
<1>4. DiskKept /\ Searching /\ StatusTruth
  BY <1>1 DEF DiskKept, Searching, StatusTruth
<1>5. Tally
  BY <1>1 DEF Tally
<1>. QED BY <1>3, <1>4, <1>5 DEF GrepIInv

LEMMA StatusSetup ==
    ASSUME GrepIInv, Setup
    PROVE  GrepIInv'
<1>1. /\ pc = "start" /\ next = 0 /\ loop = Start0 /\ Control /\ job \in Jobs
      /\ UNCHANGED <<job, disk, cancelled, trav, entries, next, loop, budget, claimed, found, stdout, any>>
  BY DEF Setup, world, GrepIInv, Control
<1>2. CASE pc' = "done"
  <2>1. Refused
    BY <1>2 DEF Setup, Refused
  <2>2. StatusIs(status', OverLimit')
    BY <2>1, EndsPlain
  <2>. QED BY <1>1, <1>2, <2>2, Finishes DEF Control
<1>3. CASE pc' # "done"
  <2>1. ~Refused /\ UNCHANGED status
    BY <1>3, GrepAssumption, <1>1 DEF Setup, Refused, Ends
  <2>2. CASE Implicit
    <3>1. pc' = "search" /\ input' = Piped /\ Current' = Piped
      BY <1>1, <1>3, <2>2, SameJob DEF Setup, Ends, Piped, Current
    <3>2. Control'
      BY <1>1, <2>1, <2>2, <3>1, SameJob DEF GrepIInv, Control, InBudget, Fits
    <3>3. Piped \in Seq(Line) /\ Len(Piped) \in Nat
      BY <1>1, <2>2, LinesAre, LenProperties DEF Current
    <3>4. ~Exhausted'
      BY <1>1, JobFacts, SameJob DEF Exhausted, Start0
    <3>5. Cardinality(Hits(Piped, 0)) = 0
      BY HitsStep
    <3>6. Place(Current)'
      BY <1>1, <3>1, <3>3, <3>4, <3>5, SameJob, SameHits DEF Place, Start0, Clean
    <3>7. DiskKept' /\ Searching' /\ Tally'
      BY <1>1, <2>2, <3>1, <3>6, SameJob DEF GrepIInv, DiskKept, Searching, Tally
    <3>. QED BY <1>1, <2>1, <3>2, <3>7, NotYet DEF GrepIInv, Control
  <2>3. CASE ~Implicit
    <3>1. pc' = "collect"
      BY <1>3, <2>3 DEF Setup, Ends
    <3>2. Control'
      BY <1>1, <2>1, <2>3, <3>1, SameJob DEF GrepIInv, Control, InBudget, Fits
    <3>3. DiskKept' /\ Searching' /\ Tally'
      BY <1>1, <2>3, <3>1 DEF GrepIInv, DiskKept, Searching, Tally
    <3>. QED BY <1>1, <2>1, <3>2, <3>3, NotYet DEF GrepIInv, Control
  <2>. QED BY <2>2, <2>3
<1>. QED BY <1>2, <1>3

LEMMA StatusCollected ==
    ASSUME GrepIInv, pc = "collect", NEW t, NEW entry, NEW more, Collected(t, entry, more)
    PROVE  GrepIInv'
<1>1. /\ next = 0 /\ Control /\ ~Implicit /\ ~Refused /\ status = "running" /\ trav' = t
      /\ UNCHANGED <<job, disk, cancelled, next, input, loop, budget, claimed, found, stdout, any>>
  BY DEF Collected, world, search, GrepIInv, Control
<1>2. CASE InBudget(t)
  <2>1. pc' = "collect" /\ status' = "running" /\ InBudget(trav')
    BY <1>1, <1>2 DEF Collected
  <2>2. Control'
    BY <1>1, <2>1, SameJob DEF Control, Fits, InBudget
  <2>3. DiskKept' /\ Searching' /\ Tally'
    BY <1>1, <2>1 DEF GrepIInv, DiskKept, Searching, Tally
  <2>. QED BY <2>1, <2>2, <2>3, NotYet DEF GrepIInv
<1>3. CASE ~InBudget(t)
  <2>1. pc' = "done" /\ status' = "2" /\ UNCHANGED entries /\ OverLimit'
    BY <1>1, <1>3 DEF Collected, Ends, OverLimit, InBudget
  <2>2. StatusIs(status', OverLimit')
    BY <2>1, EndsPlain
  <2>. QED BY <1>1, <2>1, <2>2, Finishes DEF Control
<1>. QED BY <1>2, <1>3

LEMMA StatusTakeOperand ==
    ASSUME GrepIInv, TakeOperand
    PROVE  GrepIInv'
<1>1. pc = "collect" /\ \E t, entry, more : Collected(t, entry, more)
  BY DEF TakeOperand
<1>. QED BY <1>1, StatusCollected

LEMMA StatusWalkFiles ==
    ASSUME GrepIInv, WalkFiles
    PROVE  GrepIInv'
<1>1. pc = "collect" /\ \E t, entry, more : Collected(t, entry, more)
  BY DEF WalkFiles
<1>. QED BY <1>1, StatusCollected

LEMMA StatusCollectEnd ==
    ASSUME GrepIInv, CollectEnd
    PROVE  GrepIInv'
<1>1. /\ pc = "collect" /\ pc' = "next" /\ next = 0 /\ Control /\ ~Implicit /\ status' = "running"
      /\ UNCHANGED <<job, disk, cancelled, trav, entries, next, input, loop, budget, claimed, found,
                     stdout, any, status>>
  BY DEF CollectEnd, world, search, walk, GrepIInv, Control
<1>2. Control'
  BY <1>1, SameJob DEF Control, Fits, InBudget
<1>3. DiskKept' /\ Searching' /\ Tally'
  BY <1>1 DEF GrepIInv, DiskKept, Searching, Tally
<1>. QED BY <1>1, <1>2, <1>3, NotYet DEF GrepIInv

\* A search begins at the first line.
LEMMA SearchBegins ==
    ASSUME job \in Jobs, job' = job, loop' = Start0, NEW l \in Seq(Line), input' = l, Current' = l
    PROVE  Place(Current)'
<1>1. ~Exhausted'
  BY JobFacts, SameJob DEF Exhausted, Start0
<1>2. Cardinality(Hits(l, 0)) = 0 /\ Len(l) \in Nat
  BY HitsStep, LenProperties
<1>. QED BY <1>1, <1>2, SameJob, SameHits DEF Place, Start0, Clean

LEMMA NothingInIt ==
    ASSUME job \in Jobs
    PROVE  Faults(<<>>) = {} /\ SelectedLines(<<>>) = {}
<1>1. <<>> \in Seq(Line) /\ Len(<<>>) = 0
  OBVIOUS
<1>2. Clean(<<>>, Len(<<>>))
  BY <1>1 DEF Clean
<1>3. Faults(<<>>) = {}
  BY <1>1, <1>2, EndOfInput
<1>4. SelectedLines(<<>>) \subseteq Hits(<<>>, 0)
  BY <1>1, SelectedAre
<1>. QED BY <1>3, <1>4, HitsStep

LEMMA StatusOpenInput ==
    ASSUME GrepIInv, OpenInput
    PROVE  GrepIInv'
<1>0. PICK n \in Nat : n = next + 1
  BY DEF GrepIInv, Control
<1>. DEFINE p == entries[n]
            kindIf(fails) == IF p = Stdin THEN "stdin"
                    ELSE IF ~On("recursive") /\ ~AcceptFile(p) THEN "skipped"
                    ELSE IF ~Exists(p) \/ (fails /\ MayFail(p)) THEN "missing"
                    ELSE IF IsDir(p) THEN "directory" ELSE "file"
<1>1. /\ pc = "next" /\ Control /\ ~Implicit /\ ~Refused /\ next' = n /\ next \in Nat /\ job \in Jobs
      /\ status = "running" /\ InBudget(trav) /\ Fits(budget) /\ Len(loop.pending) <= MaxContext
      /\ found \in Seq(Kinds) /\ Len(found) = next
  BY <1>0 DEF OpenInput, GrepIInv, Control
<1>. DEFINE Opening(kind) ==
      /\ found' = Append(found, kind)
      /\ any' = [any EXCEPT !.error = @ \/ kind = "missing"]
      /\ pc' = IF kind \in {"file", "stdin"} THEN "search" ELSE "next"
      /\ claimed' = (claimed \/ kind = "stdin")
      /\ input' = IF ~(kind \in {"file", "stdin"}) THEN input
                  ELSE IF kind = "file" THEN disk[ResolvePath(p)].lines
                  ELSE IF claimed \/ job.setup = "stdin" THEN <<>> ELSE job.stdin
      /\ loop' = IF kind \in {"file", "stdin"} THEN Start0 ELSE loop
      /\ UNCHANGED <<job, disk, cancelled, todo, trav, entries, budget, stdout, status>>
<1>2a. \E fails \in BOOLEAN : Opening(kindIf(fails))
  BY <1>1 DEF OpenInput, world, walk
<1>2b. PICK kind : /\ Opening(kind)
                   /\ kind = "file" => Exists(p) /\ ~IsDir(p)
                   /\ kind \in {"stdin", "skipped", "missing", "directory", "file"}
  <2>1. PICK fails \in BOOLEAN : Opening(kindIf(fails))
    BY <1>2a
  <2>2. kindIf(fails) = "file" => Exists(p) /\ ~IsDir(p)
    OBVIOUS
  <2>3. kindIf(fails) \in {"stdin", "skipped", "missing", "directory", "file"}
    OBVIOUS
  <2>. HIDE DEF kindIf, Opening
  <2>. QED BY <2>1, <2>2, <2>3
<1>. DEFINE opens == kind \in {"file", "stdin"}
<1>2. Opening(kind)
  BY <1>2b
<1>3. kind = "file" => Exists(p) /\ ~IsDir(p)
  BY <1>2b
<1>4. kind \in {"stdin", "skipped", "missing", "directory", "file"}
  BY <1>2b
<1>. HIDE DEF p
<1>5. /\ found' \in Seq(Kinds) /\ Len(found') = n /\ found'[n] = kind
      /\ \A k \in 1..next : found'[k] = found[k]
      /\ \A k : k \in 1..n <=> k \in 1..next \/ k = n
  <2>1. kind \in Kinds
    BY <1>4 DEF Kinds
  <2>2. /\ found' \in Seq(Kinds) /\ Len(found') = next + 1 /\ found'[next + 1] = kind
        /\ \A k \in 1..next : found'[k] = found[k]
    BY <1>1, <1>2, <2>1, AppendProperties
  <2>3. \A k : k \in 1..n <=> k \in 1..next \/ k = n
    BY <1>0, <1>1
  <2>. QED BY <1>0, <2>2, <2>3
<1>6. kind = "file" => /\ ResolvePath(p) \in DOMAIN job.disk
                       /\ disk[ResolvePath(p)] = job.disk[ResolvePath(p)]
  BY <1>3 DEF GrepIInv, DiskKept, Exists
<1>7. ASSUME NEW k \in 1..next PROVE Lines(k)' = Lines(k)
  <2>1. \A j \in 1..(k - 1) : found'[j] = found[j]
    BY <1>0, <1>1, <1>5
  <2>. QED BY <1>0, <1>2, <1>5, <2>1 DEF Lines
<1>8. Lines(n)' = IF kind = "file" THEN job.disk[ResolvePath(p)].lines
                  ELSE IF kind = "stdin" /\ job.setup # "stdin" /\ ~claimed THEN job.stdin ELSE <<>>
  <2>1. claimed <=> \E j \in 1..next : found[j] = "stdin"
    BY <1>1 DEF Control
  <2>2. (\A j \in 1..(n - 1) : found'[j] # "stdin") <=> ~claimed
    BY <1>0, <1>1, <1>5, <2>1
  <2>. QED BY <1>0, <1>2, <1>5, <2>2 DEF Lines, p
<1>9. Current' = Lines(n)'
  BY <1>0, <1>1, <1>2, SameJob DEF Current
<1>10. Control'
  <2>1. claimed' = (\E k \in 1..n : found'[k] = "stdin")
    <3>1. claimed = (\E k \in 1..next : found[k] = "stdin")
      BY <1>1 DEF Control
    <3>2. (\E k \in 1..n : found'[k] = "stdin") <=> (\E k \in 1..next : found[k] = "stdin") \/ kind = "stdin"
      BY <1>0, <1>1, <1>5
    <3>. QED BY <1>2, <3>1, <3>2
  <2>2. \A k \in 1..n : found'[k] = "file" => ResolvePath(entries[k]) \in DOMAIN job.disk
    BY <1>0, <1>1, <1>5, <1>6 DEF Control, p
  <2>3. any' \in [match : BOOLEAN, error : BOOLEAN]
    BY <1>0, <1>1, <1>2 DEF Control
  <2>4. loop'.pending = loop.pending \/ loop'.pending = <<>>
    BY <1>2 DEF Start0
  <2>5. Len(loop'.pending) <= MaxContext
    BY <1>0, <1>1, <2>4, JobFacts
  <2>6. pc' \in {"search", "next"} /\ n > 0 /\ ~Implicit' /\ ~Refused' /\ job' \in Jobs
    BY <1>0, <1>1, <1>2, SameJob
  <2>7. Fits(budget)' /\ InBudget(trav)' /\ status' = "running" /\ next' \in Nat /\ next' = n
    BY <1>0, <1>1, <1>2 DEF Fits, InBudget
  <2>. QED BY <1>2, <1>5, <2>1, <2>2, <2>3, <2>5, <2>6, <2>7 DEF Control
<1>11. DiskKept' /\ StatusTruth'
  BY <1>0, <1>1, <1>2, NotYet DEF GrepIInv, DiskKept
<1>12. Searching'
  <2>1. CASE opens
    <3>1. pc' = "search" /\ input' = Lines(n)' /\ loop' = Start0
      BY <1>2, <1>6, <1>8, <2>1
    <3>2. Lines(n)' \in Seq(Line)
      <4>1. <<>> \in Seq(Line) /\ job.stdin \in Seq(Line)
        BY <1>1, JobFacts
      <4>2. kind = "file" => job.disk[ResolvePath(p)].lines \in Seq(Line)
        BY <1>1, <1>6, JobFacts
      <4>. QED BY <1>8, <4>1, <4>2
    <3>3. Place(Current)'
      BY <1>0, <1>1, <1>2, <1>9, <3>1, <3>2, SearchBegins
    <3>. QED BY <3>1, <3>3 DEF Searching
  <2>2. CASE ~opens
    BY <1>2, <2>2 DEF Searching
  <2>. QED BY <2>1, <2>2
<1>13. Tally'
  <2>1. /\ any.error <=> \E k \in 1..next : found[k] = "missing" \/ Faults(Lines(k)) # {}
        /\ any.match <=> \E k \in 1..next : Selected(Lines(k))
        /\ \A k \in 1..next : ~Limits(Lines(k))
        /\ On("quiet") => ~any.match
    BY <1>1 DEF GrepIInv, Tally
  <2>2. any.match \in BOOLEAN /\ any.error \in BOOLEAN
        /\ any'.match = any.match /\ any'.error = (any.error \/ kind = "missing")
    BY <1>0, <1>1, <1>2 DEF Control
  <2>3. \A k \in 1..next : /\ Faults(Lines(k))' = Faults(Lines(k))
                           /\ (Selected(Lines(k))' <=> Selected(Lines(k)))
                           /\ (Limits(Lines(k))' <=> Limits(Lines(k)))
    BY <1>2, <1>7, SameJob DEF Selected, Limits
  <2>4. (On("quiet")' <=> On("quiet")) /\ ~Implicit'
    BY <1>0, <1>1, <1>2, SameJob
  <2>5. CASE opens
    <3>1. /\ any'.error <=> \E k \in 1..n : \/ found'[k] = "missing"
                                            \/ k <= n - 1 /\ Faults(Lines(k))' # {}
      BY <1>0, <1>1, <1>5, <2>1, <2>2, <2>3, <2>5
    <3>2. any'.match <=> \E k \in 1..(n - 1) : Selected(Lines(k))'
      BY <1>0, <1>1, <2>1, <2>2, <2>3
    <3>3. \A k \in 1..(n - 1) : ~Limits(Lines(k))'
      BY <1>0, <1>1, <2>1, <2>3
    <3>4. On("quiet") => ~any'.match
      BY <2>1, <2>2
    <3>5. pc' = "search" /\ next' = n
      BY <1>0, <1>1, <1>2, <2>5
    <3>. QED BY <2>4, <3>1, <3>2, <3>3, <3>4, <3>5 DEF Tally
  <2>6. CASE ~opens
    <3>1. Lines(n)' = <<>>
      BY <1>8, <2>6
    <3>2. Faults(Lines(n))' = {} /\ ~Selected(Lines(n))' /\ ~Limits(Lines(n))'
      BY <1>0, <1>1, <1>2, <3>1, NothingInIt, SameJob DEF Selected, Limits
    <3>3. /\ any'.error <=> \E k \in 1..n : \/ found'[k] = "missing"
                                            \/ k <= n /\ Faults(Lines(k))' # {}
      <4>1. \A k \in 1..n : k <= n
        BY <1>0
      <4>2. n \in 1..n
        BY <1>0, <1>1
      <4>. QED BY <1>5, <2>1, <2>2, <2>3, <3>2, <4>1, <4>2
    <3>4. any'.match <=> \E k \in 1..n : Selected(Lines(k))'
      BY <1>0, <1>1, <1>5, <2>1, <2>2, <2>3, <3>2
    <3>5. \A k \in 1..n : ~Limits(Lines(k))'
      BY <1>0, <1>1, <1>5, <2>1, <2>3, <3>2
    <3>6. On("quiet") => ~any'.match
      BY <2>1, <2>2
    <3>7. pc' = "next" /\ next' = n
      BY <1>0, <1>1, <1>2, <2>6
    <3>. QED BY <2>4, <3>3, <3>4, <3>5, <3>6, <3>7 DEF Tally
  <2>. QED BY <2>5, <2>6
<1>. QED BY <1>10, <1>11, <1>12, <1>13 DEF GrepIInv

-----------------------------------------------------------------------------
(* The steps of a search *)
LEMMA SearchStep ==
    ASSUME GrepIInv, pc = "search", NEW r \in {"search", "searched", "unread", "limit"}, Done(r),
           r # "limit" => Fits(budget') /\ Len(loop'.pending) <= MaxContext,
           Searching'
    PROVE  GrepIInv'
<1>1. /\ pc' = r
      /\ UNCHANGED <<job, disk, cancelled, todo, trav, entries, next, claimed, found, stdout, any, status>>
  BY DEF Done, world, walk
<1>2. Control /\ status = "running" /\ pc # "done"
  BY DEF GrepIInv, Control
<1>3. Control'
  BY <1>1, <1>2, SameJob DEF Control, InBudget, Fits
<1>4. DiskKept'
  BY <1>1 DEF GrepIInv, DiskKept
<1>5. Tally'
  <2>1. \A k : Faults(Lines(k))' = Faults(Lines(k)) /\ (Selected(Lines(k))' <=> Selected(Lines(k)))
               /\ (Limits(Lines(k))' <=> Limits(Lines(k)))
    BY <1>1, SameJob, SameLines DEF Selected, Limits
  <2>. QED BY <1>1, <2>1, SameJob DEF GrepIInv, Tally
<1>. QED BY <1>1, <1>2, <1>3, <1>4, <1>5, NotYet DEF GrepIInv

\* The line in hand.
LEMMA InHand ==
    ASSUME GrepIInv, pc = "search", input # <<>>
    PROVE  /\ Current \in Seq(Line) /\ Len(Current) \in Nat /\ Place(Current)
           /\ loop.index \in 0..(Len(Current) - 1) /\ loop.index + 1 \in 1..Len(Current)
           /\ Head(input) = Current[loop.index + 1] /\ Head(input) \in Line
           /\ Tail(input) \in Seq(Line) /\ Len(Tail(input)) = Len(Current) - (loop.index + 1)
           /\ \A j \in 1..Len(Tail(input)) : Tail(input)[j] = Current[(loop.index + 1) + j]
<1>1. Control /\ Place(Current) /\ (Implicit \/ next > 0)
  BY DEF GrepIInv, Searching, Control
<1>2. Current \in Seq(Line) /\ Len(Current) \in Nat
  BY <1>1, LinesAre, LenProperties
<1>3. /\ loop.index \in 0..Len(Current) /\ input \in Seq(Line)
      /\ Len(input) = Len(Current) - loop.index
      /\ \A j \in 1..Len(input) : input[j] = Current[loop.index + j]
  BY <1>1 DEF Place
<1>4. Len(input) \in Nat /\ Len(input) > 0 /\ Head(input) = input[1] /\ Head(input) \in Line
      /\ Tail(input) \in Seq(Line) /\ Len(Tail(input)) = Len(input) - 1
      /\ \A j \in 1..Len(Tail(input)) : Tail(input)[j] = input[j + 1]
  BY <1>3, EmptySeq, HeadTailProperties, LenProperties
<1>5. loop.index \in 0..(Len(Current) - 1) /\ loop.index + 1 \in 1..Len(Current)
  BY <1>2, <1>3, <1>4, SMTT(30)
<1>6. Head(input) = Current[loop.index + 1]
  BY <1>3, <1>4
<1>7. ASSUME NEW j \in 1..Len(Tail(input)) PROVE Tail(input)[j] = Current[(loop.index + 1) + j]
  <2>. DEFINE n == Len(input)
             c == Len(Current)
             i == loop.index
  <2>1. n \in Nat /\ j \in 1..(n - 1) /\ c \in Nat /\ i \in 0..c
    BY <1>2, <1>3, <1>4
  <2>2. j + 1 \in 1..n /\ i + (j + 1) = (i + 1) + j
    <3>. HIDE DEF n, c, i
    <3>. QED BY <2>1
  <2>3. Tail(input)[j] = input[j + 1]
    BY <1>4
  <2>. QED BY <1>3, <2>2, <2>3
<1>. QED BY <1>1, <1>2, <1>3, <1>4, <1>5, <1>6, <1>7

\* The search fails on the line.
LEMMA LineFails ==
    ASSUME GrepIInv, pc = "search", input # <<>>,
           ~(Exhausted /\ (On("count") \/ loop.after = 0)),
           \/ Head(input) = Broken \/ Head(input) = TooLong
           \/ Head(input) = Runaway /\ ~Exhausted
    PROVE  Faults(Current) = {Head(input)}
<1>. DEFINE l == Current
            i == loop.index
<1>1. /\ l \in Seq(Line) /\ Len(l) \in Nat /\ Place(l) /\ i \in 0..(Len(l) - 1)
      /\ Head(input) = l[i + 1] /\ job \in Jobs
  BY InHand DEF GrepIInv, Control
<1>2. l[i + 1] < 0
  BY <1>1 DEF Broken, TooLong, Runaway
<1>3. CASE ~Exhausted
  <2>1. /\ Clean(l, i) /\ loop.selected = Cardinality(Hits(l, i)) /\ loop.selected \in Nat
        /\ BriefMode => loop.selected = 0
    BY <1>1, <1>3 DEF Place
  <2>2. BriefMode => Hits(l, i) = {}
    <3>1. IsFiniteSet(Hits(l, i))
      BY <1>1, HitsAre
    <3>. QED BY <2>1, <3>1, FS_EmptySet
  <2>3. o.maxCount = 0 \/ Cardinality(Hits(l, i)) < o.maxCount
    BY <1>1, <1>3, <2>1, JobFacts, SMTT(30) DEF Exhausted
  <2>. HIDE DEF l, i
  <2>. QED BY <1>1, <1>2, <2>1, <2>2, <2>3, FaultOpen DEF l
<1>4. CASE Exhausted
  <2>1. PICK m : Capped(l, i, m) /\ IF On("count") THEN i = m ELSE i + loop.after = m + o.after
    BY <1>1, <1>4 DEF Place
  <2>2. ~BriefMode
    <3>1. BriefMode => loop.selected = 0
      BY <1>1 DEF Place
    <3>2. o.maxCount \in Nat /\ o.maxCount > 0 /\ loop.selected >= o.maxCount
      BY <1>1, <1>4, JobFacts DEF Exhausted
    <3>. QED BY <3>1, <3>2
  <2>3. ~On("count") /\ loop.after > 0 /\ loop.after \in Nat
    BY <1>1, <1>4 DEF Place
  <2>4. i < m + o.after
    BY <1>1, <2>1, <2>3
  <2>5. l[i + 1] \in {Broken, TooLong}
    BY <1>1, <1>4
  <2>. HIDE DEF l, i
  <2>. QED BY <1>1, <2>1, <2>2, <2>3, <2>4, <2>5, FaultCapped DEF l
<1>. QED BY <1>3, <1>4

\* One line more is read.
LEMMA PlaceMoves ==
    ASSUME GrepIInv, pc = "search", input # <<>>, UNCHANGED <<job, entries, next, found>>,
           input' = Tail(input), Place(Current),
           loop' = [f \in {"index", "pending", "after", "selected", "count", "lastPrinted", "out"} |-> loop'[f]],
           loop'.index = loop.index + 1, loop'.selected \in Nat, loop'.after \in Nat,
           BriefMode => loop'.selected = 0,
           ~(o.maxCount > 0 /\ loop'.selected >= o.maxCount) =>
             /\ Clean(Current, loop.index + 1)
             /\ loop'.selected = Cardinality(Hits(Current, loop.index + 1)),
           o.maxCount > 0 /\ loop'.selected >= o.maxCount =>
             \E m : /\ Capped(Current, loop.index + 1, m)
                    /\ IF On("count") THEN loop.index + 1 = m
                                      ELSE (loop.index + 1) + loop'.after = m + o.after
    PROVE  Place(Current)'
<1>1. PICK l, i : l = Current /\ i = loop.index + 1
  OBVIOUS
<1>2. Current' = l /\ loop'.index = i
  BY <1>1, SameLines
<1>3. /\ l \in Seq(Line) /\ i \in 1..Len(l) /\ Len(l) \in Nat
      /\ Tail(input) \in Seq(Line) /\ Len(Tail(input)) = Len(l) - i
      /\ \A j \in 1..Len(Tail(input)) : Tail(input)[j] = l[i + j]
  BY <1>1, InHand
<1>4. i \in 0..Len(l)
  BY <1>3
<1>5. Exhausted' <=> o.maxCount > 0 /\ loop'.selected >= o.maxCount
  BY SameJob DEF Exhausted
<1>6. ~Exhausted' => Clean(l, i)' /\ loop'.selected = Cardinality(Hits(l, i)')
  BY <1>1, <1>5, SameHits
<1>7. Exhausted' => \E m : /\ Capped(l, i, m)'
                           /\ IF On("count") THEN i = m ELSE i + loop'.after = m + o.after
  BY <1>1, <1>5, SameHits
<1>. QED BY <1>2, <1>3, <1>4, <1>5, <1>6, <1>7, SameJob DEF Place

\* The line is selected, with -m before its end.
LEMMA Selecting ==
    ASSUME GrepIInv, pc = "search", input # <<>>, UNCHANGED <<job, entries, next, found>>,
           input' = Tail(input), ~Exhausted, Selects(Head(input)), ~BriefMode,
           SelectedLine(Head(input))
    PROVE  Place(Current)'
<1>. DEFINE l == Current
            i == loop.index
<1>1. /\ l \in Seq(Line) /\ Len(l) \in Nat /\ Place(l) /\ i \in 0..(Len(l) - 1) /\ i \in Nat
      /\ Head(input) = l[i + 1] /\ job \in Jobs /\ o.maxCount \in Nat /\ o.after \in Nat
  <2>1. job \in Jobs
    BY DEF GrepIInv, Control
  <2>2. l \in Seq(Line) /\ Len(l) \in Nat /\ Place(l) /\ i \in 0..(Len(l) - 1) /\ Head(input) = l[i + 1]
    BY InHand
  <2>3. i \in Nat
    <3>. HIDE DEF i, l
    <3>. QED BY <2>2
  <2>. QED BY <2>1, <2>2, <2>3, JobFacts
<1>2. /\ loop = [f \in {"index", "pending", "after", "selected", "count", "lastPrinted", "out"} |-> loop[f]]
      /\ loop.selected \in Nat /\ loop.after \in Nat
      /\ Clean(l, i) /\ loop.selected = Cardinality(Hits(l, i))
  BY <1>1 DEF Place
<1>3. /\ loop' = [f \in {"index", "pending", "after", "selected", "count", "lastPrinted", "out"} |-> loop'[f]]
      /\ loop'.index = i + 1 /\ loop'.selected = loop.selected + 1
      /\ loop'.after = IF On("count") THEN loop.after ELSE o.after
  BY <1>2 DEF SelectedLine
<1>4. Clean(l, i + 1)
  BY <1>1, <1>2 DEF Clean, Selects
<1>5. loop'.selected = Cardinality(Hits(l, i + 1))
  BY <1>1, <1>2, <1>3, HitsStep
<1>6. ASSUME o.maxCount > 0, loop'.selected >= o.maxCount
      PROVE  /\ Capped(l, i + 1, i + 1)
             /\ IF On("count") THEN i + 1 = i + 1 ELSE (i + 1) + loop'.after = (i + 1) + o.after
  <2>1. loop'.selected = o.maxCount
    BY <1>1, <1>2, <1>3, <1>6 DEF Exhausted
  <2>2. i + 1 \in 1..(i + 1) /\ Selects(l[i + 1]) /\ \A j \in 1..(i + 1) : ~(j > i + 1)
    BY <1>1
  <2>. QED BY <1>3, <1>4, <1>5, <1>6, <2>1, <2>2 DEF Capped
<1>7. loop'.selected \in Nat /\ loop'.after \in Nat
  BY <1>1, <1>2, <1>3
<1>. QED BY <1>1, <1>3, <1>4, <1>5, <1>6, <1>7, PlaceMoves

\* The line is not selected.
LEMMA PassingBy ==
    ASSUME GrepIInv, pc = "search", input # <<>>, UNCHANGED <<job, entries, next, found>>,
           input' = Tail(input), ~(Exhausted /\ (On("count") \/ loop.after = 0)),
           \/ Exhausted /\ Head(input) \notin {Broken, TooLong}
           \/ Head(input) >= 0 /\ ~Selects(Head(input)),
           OtherLine
    PROVE  Place(Current)'
<1>. DEFINE l == Current
            i == loop.index
<1>1. /\ l \in Seq(Line) /\ Len(l) \in Nat /\ Place(l) /\ i \in 0..(Len(l) - 1) /\ i \in Nat
      /\ Head(input) = l[i + 1] /\ Head(input) \in Line /\ job \in Jobs /\ o.maxCount \in Nat /\ o.after \in Nat
  <2>1. job \in Jobs
    BY DEF GrepIInv, Control
  <2>2. /\ l \in Seq(Line) /\ Len(l) \in Nat /\ Place(l) /\ i \in 0..(Len(l) - 1)
        /\ Head(input) = l[i + 1] /\ Head(input) \in Line
    BY InHand
  <2>3. i \in Nat
    <3>. HIDE DEF i, l
    <3>. QED BY <2>2
  <2>. QED BY <2>1, <2>2, <2>3, JobFacts
<1>2. /\ loop = [f \in {"index", "pending", "after", "selected", "count", "lastPrinted", "out"} |-> loop[f]]
      /\ loop.selected \in Nat /\ loop.after \in Nat /\ (BriefMode => loop.selected = 0)
  BY <1>1 DEF Place
<1>3. /\ loop' = [f \in {"index", "pending", "after", "selected", "count", "lastPrinted", "out"} |-> loop'[f]]
      /\ loop'.index = i + 1 /\ loop'.selected = loop.selected
      /\ loop'.after = IF ~On("count") /\ loop.after > 0 THEN loop.after - 1 ELSE loop.after
  <2>1. CASE /\ On("count") \/ loop.after = 0
             /\ loop' = [loop EXCEPT !.index = i + 1]
    <3>1. /\ loop' = [f \in {"index", "pending", "after", "selected", "count", "lastPrinted", "out"} |-> loop'[f]]
          /\ loop'.index = i + 1 /\ loop'.selected = loop.selected /\ loop'.after = loop.after
      BY <1>2, <2>1
    <3>2. ~(~On("count") /\ loop.after > 0)
      BY <1>2, <2>1
    <3>. QED BY <3>1, <3>2
  <2>2. CASE /\ ~On("count") /\ loop.after > 0
             /\ loop' = [loop EXCEPT !.index = i + 1, !.out = Append(@, Context(i + 1)),
                                     !.lastPrinted = i + 1, !.after = @ - 1]
    BY <1>2, <2>2
  <2>3. CASE /\ ~On("count") /\ loop.after = 0
             /\ loop' = [loop EXCEPT !.index = i + 1,
                           !.pending = Append(IF Len(@) = o.before THEN Tail(@) ELSE @, i + 1)]
    <3>1. /\ loop' = [f \in {"index", "pending", "after", "selected", "count", "lastPrinted", "out"} |-> loop'[f]]
          /\ loop'.index = i + 1 /\ loop'.selected = loop.selected /\ loop'.after = loop.after
      BY <1>2, <2>3
    <3>2. ~(~On("count") /\ loop.after > 0)
      BY <1>2, <2>3
    <3>. QED BY <3>1, <3>2
  <2>. QED BY <2>1, <2>2, <2>3 DEF OtherLine
<1>4. loop'.selected \in Nat /\ loop'.after \in Nat /\ (BriefMode => loop'.selected = 0)
  BY <1>2, <1>3
<1>5. Exhausted <=> o.maxCount > 0 /\ loop'.selected >= o.maxCount
  BY <1>3 DEF Exhausted
<1>6. ASSUME ~Exhausted
      PROVE  Clean(l, i + 1) /\ loop'.selected = Cardinality(Hits(l, i + 1))
  <2>1. Clean(l, i) /\ loop.selected = Cardinality(Hits(l, i)) /\ l[i + 1] >= 0 /\ ~Selects(l[i + 1])
    BY <1>1, <1>6 DEF Place
  <2>2. Clean(l, i + 1)
    BY <1>1, <2>1 DEF Clean
  <2>. QED BY <1>1, <1>3, <2>1, <2>2, HitsStep
<1>7. ASSUME Exhausted
      PROVE  \E m : /\ Capped(l, i + 1, m)
                    /\ IF On("count") THEN i + 1 = m ELSE (i + 1) + loop'.after = m + o.after
  <2>1. PICK m : Capped(l, i, m) /\ IF On("count") THEN i = m ELSE i + loop.after = m + o.after
    BY <1>1, <1>7 DEF Place
  <2>2. ~On("count") /\ loop.after > 0 /\ loop'.after = loop.after - 1
    BY <1>2, <1>3, <1>7
  <2>3. l[i + 1] >= 0 \/ l[i + 1] = Runaway
    BY <1>1, <1>7 DEF Line, Selects
  <2>4. Capped(l, i + 1, m)
    <3>1. m \in 1..i /\ m \in 1..(i + 1) /\ i + 1 > m
      BY <1>1, <2>1 DEF Capped
    <3>2. ASSUME NEW j \in 1..(i + 1), j > m PROVE l[j] >= 0 \/ l[j] = Runaway
      <4>1. j \in 1..i \/ j = i + 1
        BY <1>1
      <4>. QED BY <2>1, <2>3, <3>2, <4>1 DEF Capped
    <3>. QED BY <2>1, <3>1, <3>2 DEF Capped
  <2>5. (i + 1) + loop'.after = m + o.after
    BY <1>1, <1>2, <2>1, <2>2
  <2>. QED BY <2>2, <2>4, <2>5
<1>. QED BY <1>1, <1>3, <1>4, <1>5, <1>6, <1>7, PlaceMoves

LEMMA StatusSearchLine ==
    ASSUME GrepIInv, SearchLine
    PROVE  GrepIInv'
<1>. DEFINE line == Head(input)
            stay == UNCHANGED <<job, disk, cancelled, todo, trav, entries, next, claimed, found,
                                stdout, any, status>>
<1>1. /\ pc = "search" /\ input # <<>> /\ input' = Tail(input)
      /\ ~(Exhausted /\ (On("count") \/ loop.after = 0))
  BY DEF SearchLine
<1>2. /\ Current \in Seq(Line) /\ Place(Current) /\ job \in Jobs /\ Len(loop.pending) <= MaxContext
      /\ loop.index \in 0..(Len(Current) - 1) /\ line = Current[loop.index + 1] /\ MaxContext \in Nat
  BY <1>1, InHand, JobFacts DEF GrepIInv, Control
<1>3. ASSUME NEW r, Done(r) PROVE stay /\ pc' = r /\ Current' = Current /\ Faults(Current)' = Faults(Current)
                                  /\ SelectedLines(Current)' = SelectedLines(Current)
  BY <1>3, SameJob, SameLines DEF Done, world, walk
<1>4. CASE /\ line = Broken \/ line = TooLong \/ (line = Runaway /\ ~Exhausted)
           /\ Done(IF line = Broken /\ Fits(budget') THEN "unread" ELSE "limit")
           /\ UNCHANGED loop
  <2>. DEFINE r == IF line = Broken /\ Fits(budget') THEN "unread" ELSE "limit"
  <2>1. Faults(Current) = {line}
    BY <1>1, <1>4, LineFails
  <2>2. pc' = r /\ Faults(Current)' = {line}
    BY <1>3, <1>4, <2>1
  <2>3. r = "limit" => ~Fits(budget') \/ line \in {TooLong, Runaway}
    BY <1>4
  <2>4. Searching'
    BY <2>2, <2>3 DEF Searching, OverLimit, Fits
  <2>5. /\ r \in {"search", "searched", "unread", "limit"} /\ Done(r)
        /\ r # "limit" => Fits(budget') /\ Len(loop'.pending) <= MaxContext
    BY <1>2, <1>4
  <2>. HIDE DEF r
  <2>. QED BY <1>1, <2>4, <2>5, SearchStep
<1>5. CASE /\ ~Exhausted /\ Selects(line) /\ BriefMode
           /\ loop' = [loop EXCEPT !.selected = @ + 1, !.out = <<>>]
           /\ Done(IF Fits(budget') THEN "searched" ELSE "limit")
  <2>. DEFINE r == IF Fits(budget') THEN "searched" ELSE "limit"
  <2>1. Clean(Current, loop.index) /\ Hits(Current, loop.index) = {}
    <3>1. /\ Clean(Current, loop.index) /\ loop.selected = 0
          /\ loop.selected = Cardinality(Hits(Current, loop.index))
      BY <1>2, <1>5 DEF Place
    <3>2. IsFiniteSet(Hits(Current, loop.index))
      BY <1>2, HitsAre
    <3>. QED BY <3>1, <3>2, FS_EmptySet
  <2>2. Faults(Current) = {} /\ SelectedLines(Current) # {}
    BY <1>2, <1>5, <2>1, EndOfBrief
  <2>3. loop'.selected > 0 /\ loop'.pending = loop.pending
    BY <1>2, <1>5 DEF Place
  <2>4. Searching'
    BY <1>3, <1>5, <2>2, <2>3 DEF Searching, OverLimit, Fits, Matched
  <2>5. /\ r \in {"search", "searched", "unread", "limit"} /\ Done(r)
        /\ r # "limit" => Fits(budget') /\ Len(loop'.pending) <= MaxContext
    BY <1>2, <1>5, <2>3
  <2>. HIDE DEF r
  <2>. QED BY <1>1, <2>4, <2>5, SearchStep
<1>6. CASE /\ ~Exhausted /\ Selects(line) /\ ~BriefMode
           /\ SelectedLine(line)
           /\ Done(IF Fits(budget') THEN "search" ELSE "limit")
  <2>. DEFINE r == IF Fits(budget') THEN "search" ELSE "limit"
  <2>1. Place(Current)'
    BY <1>1, <1>3, <1>6, Selecting
  <2>2. loop'.pending = loop.pending \/ loop'.pending = <<>>
    BY <1>2, <1>6 DEF SelectedLine, Place
  <2>3. Searching'
    BY <1>3, <1>6, <2>1 DEF Searching, OverLimit, Fits
  <2>4. /\ r \in {"search", "searched", "unread", "limit"} /\ Done(r)
        /\ r # "limit" => Fits(budget') /\ Len(loop'.pending) <= MaxContext
    BY <1>2, <1>6, <2>2
  <2>. HIDE DEF r
  <2>. QED BY <1>1, <2>3, <2>4, SearchStep
<1>7. CASE /\ (Exhausted /\ line \notin {Broken, TooLong}) \/ (line >= 0 /\ ~Selects(line))
           /\ OtherLine
           /\ Done(IF Fits(budget') /\ Len(loop'.pending) <= MaxContext THEN "search" ELSE "limit")
  <2>. DEFINE r == IF Fits(budget') /\ Len(loop'.pending) <= MaxContext THEN "search" ELSE "limit"
  <2>1. Place(Current)'
    BY <1>1, <1>3, <1>7, PassingBy
  <2>2. Searching'
    BY <1>3, <1>7, <2>1 DEF Searching, OverLimit, Fits
  <2>3. /\ r \in {"search", "searched", "unread", "limit"} /\ Done(r)
        /\ r # "limit" => Fits(budget') /\ Len(loop'.pending) <= MaxContext
    BY <1>7
  <2>. HIDE DEF r
  <2>. QED BY <1>1, <2>2, <2>3, SearchStep
<1>. QED BY <1>4, <1>5, <1>6, <1>7 DEF SearchLine

LEMMA StatusSearchEnd ==
    ASSUME GrepIInv, SearchEnd
    PROVE  GrepIInv'
<1>. DEFINE r == IF Fits(budget') THEN "searched" ELSE "limit"
            l == Current
            i == loop.index
<1>1. pc = "search" /\ Control /\ Place(l) /\ job \in Jobs /\ (Implicit \/ next > 0)
  BY DEF SearchEnd, GrepIInv, Searching, Control
<1>2. l \in Seq(Line) /\ Len(l) \in Nat /\ Len(loop.pending) <= MaxContext
      /\ o.maxCount \in Nat /\ o.after \in Nat
  BY <1>1, LinesAre, LenProperties, JobFacts DEF Control
<1>3. /\ loop = [f \in {"index", "pending", "after", "selected", "count", "lastPrinted", "out"} |-> loop[f]]
      /\ i \in 0..Len(l) /\ loop.selected \in Nat /\ loop.after \in Nat
      /\ Len(input) = Len(l) - i /\ (BriefMode => loop.selected = 0)
  BY <1>1 DEF Place
<1>4. loop'.selected = loop.selected /\ loop'.pending = loop.pending
  BY <1>3 DEF SearchEnd
<1>5. Done(r)
  BY DEF SearchEnd
<1>6. Faults(l) = {} /\ (Matched <=> SelectedLines(l) # {})
  <2>1. CASE Exhausted
    <3>1. PICK m : Capped(l, i, m) /\ IF On("count") THEN i = m ELSE i + loop.after = m + o.after
      BY <1>1, <2>1 DEF Place
    <3>2. ~BriefMode /\ Matched
      BY <1>2, <1>3, <2>1 DEF Exhausted, Matched
    <3>3. m \in Int
      BY <1>2, <1>3, <3>1 DEF Capped
    <3>4. \/ i = m /\ On("count")
          \/ i = m + o.after /\ ~On("count")
          \/ i = Len(l) /\ i <= m + o.after /\ ~On("count")
      <4>1. CASE On("count")
        BY <3>1, <4>1
      <4>2. CASE ~On("count") /\ loop.after = 0
        BY <1>2, <1>3, <3>1, <3>3, <4>2
      <4>3. CASE ~On("count") /\ loop.after # 0
        <5>1. Len(input) = 0
          BY <4>3 DEF SearchEnd
        <5>. QED BY <1>2, <1>3, <3>1, <3>3, <4>3, <5>1
      <4>. QED BY <4>1, <4>2, <4>3
    <3>. HIDE DEF l, i
    <3>. QED BY <1>1, <1>2, <1>3, <3>1, <3>2, <3>4, EndOfCount
  <2>2. CASE ~Exhausted
    <3>1. Clean(l, i) /\ loop.selected = Cardinality(Hits(l, i))
      BY <1>1, <2>2 DEF Place
    <3>2. input = <<>> /\ Len(input) = 0
      BY <2>2 DEF SearchEnd
    <3>3. i = Len(l)
      BY <1>2, <1>3, <3>2
    <3>4. IsFiniteSet(Hits(l, Len(l)))
      BY <1>2, HitsAre
    <3>5. Hits(l, Len(l)) # {} <=> loop.selected # 0
      BY <3>1, <3>3, <3>4, FS_EmptySet
    <3>6. Matched <=> loop.selected # 0
      BY <1>3 DEF Matched
    <3>7. Clean(l, Len(l))
      BY <3>1, <3>3
    <3>. HIDE DEF l, i
    <3>. QED BY <1>1, <1>2, <3>5, <3>6, <3>7, EndOfInput, SomeSelected
  <2>. QED BY <2>1, <2>2
<1>7. Searching'
  <2>1. /\ pc' = r /\ Current' = l /\ Faults(l)' = Faults(l) /\ SelectedLines(l)' = SelectedLines(l)
    BY <1>5, SameJob, SameLines DEF Done, world, walk
  <2>2. Matched' <=> Matched
    BY <1>4 DEF Matched
  <2>. QED BY <1>6, <2>1, <2>2 DEF Searching, OverLimit, Fits
<1>8. /\ r \in {"search", "searched", "unread", "limit"}
      /\ r # "limit" => Fits(budget') /\ Len(loop'.pending) <= MaxContext
  BY <1>2, <1>4
<1>. HIDE DEF r
<1>. QED BY <1>1, <1>5, <1>7, <1>8, SearchStep

-----------------------------------------------------------------------------
(* The steps after a search *)

\* The inputs StatusTruth looks at, and which of them is in hand.
LEMMA Inputs ==
    ASSUME Control, Implicit \/ next > 0
    PROVE  LET inputs == IF Implicit THEN {Piped} ELSE {Lines(k) : k \in 1..next}
           IN /\ Current \in inputs
              /\ \A l \in inputs : l = Current \/ (~Implicit /\ \E k \in 1..(next - 1) : l = Lines(k))
<1>1. next \in Nat
  BY DEF Control
<1>2. CASE Implicit
  BY <1>2 DEF Current
<1>3. CASE ~Implicit
  <2>1. next \in 1..next /\ \A k \in 1..next : k \in 1..(next - 1) \/ k = next
    BY <1>1, <1>3
  <2>. QED BY <1>3, <2>1 DEF Current
<1>. QED BY <1>2, <1>3

LEMMA StatusLimit ==
    ASSUME GrepIInv, Limit
    PROVE  GrepIInv'
<1>1. /\ pc = "limit" /\ pc' = "done" /\ status' = "2" /\ Control /\ (Implicit \/ next > 0)
      /\ UNCHANGED <<job, disk, cancelled, todo, trav, entries, next, input, loop, budget, claimed,
                     found, stdout, any>>
  BY DEF Limit, Ends, world, walk, search, GrepIInv, Control
<1>2. OverLimit' <=> OverLimit
  BY <1>1 DEF OverLimit, Fits, InBudget
<1>3. StatusIs("2", OverLimit)
  <2>1. CASE OverLimit
    BY <2>1, EndsPlain
  <2>2. CASE Limits(Current)
    BY <1>1, <2>2, Inputs DEF StatusIs, Limits
  <2>. QED BY <1>1, <2>1, <2>2 DEF GrepIInv, Searching, Limits
<1>4. StatusIs(status', OverLimit')
  BY <1>1, <1>2, <1>3 DEF StatusIs
<1>. QED BY <1>1, <1>4, Finishes DEF Control

LEMMA StatusUnread ==
    ASSUME GrepIInv, Unread
    PROVE  GrepIInv'
<1>1. /\ pc = "unread" /\ Control /\ (Implicit \/ next > 0) /\ status = "running"
      /\ any' = [any EXCEPT !.error = TRUE] /\ Faults(Current) = {Broken}
      /\ UNCHANGED <<job, disk, cancelled, todo, trav, entries, next, input, loop, budget, claimed,
                     found, stdout>>
  BY DEF Unread, Ends, world, walk, search, GrepIInv, Control, Searching
<1>2. /\ any' \in [match : BOOLEAN, error : BOOLEAN]
      /\ any'.match = any.match /\ any'.error = TRUE /\ any.match \in BOOLEAN
  BY <1>1 DEF Control
<1>3. CASE Implicit
  <2>1. pc' = "done" /\ status' = "2"
    BY <1>3 DEF Unread, Ends
  <2>2. \A over : StatusIs("2", over)
    BY <1>1, <1>3 DEF StatusIs, Selected, Current
  <2>3. StatusIs(status', OverLimit')
    BY <2>1, <2>2
  <2>. QED BY <1>1, <1>2, <2>1, <2>3, Finishes
<1>4. CASE ~Implicit
  <2>1. pc' = "next" /\ status' = "running"
    BY <1>1, <1>4 DEF Unread
  <2>2. Control'
    BY <1>1, <1>2, <1>4, <2>1, SameJob DEF Control, InBudget, Fits
  <2>3. DiskKept' /\ Searching'
    BY <1>1, <2>1 DEF GrepIInv, DiskKept, Searching
  <2>4. Tally'
    <3>1. \A k : Faults(Lines(k))' = Faults(Lines(k)) /\ (Selected(Lines(k))' <=> Selected(Lines(k)))
               /\ (Limits(Lines(k))' <=> Limits(Lines(k)))
      BY <1>1, SameJob, SameLines DEF Selected, Limits
    <3>2. /\ Faults(Lines(next)) # {} /\ ~Selected(Lines(next)) /\ ~Limits(Lines(next))
      BY <1>1, <1>4 DEF Current, Selected, Limits, Broken, TooLong, Runaway
    <3>3. next \in Nat /\ next \in 1..next /\ \A k \in 1..next : k \in 1..(next - 1) \/ k = next
      BY <1>1, <1>4 DEF Control
    <3>4. \A k \in 1..(next - 1) : k \in 1..next
      BY <3>3
    <3>5. /\ any.match <=> \E k \in 1..(next - 1) : Selected(Lines(k))
          /\ \A k \in 1..(next - 1) : ~Limits(Lines(k))
          /\ On("quiet") => ~any.match
      BY <1>1, <1>4 DEF GrepIInv, Tally
    <3>6. any'.match <=> \E k \in 1..next : Selected(Lines(k))
      BY <1>2, <3>2, <3>3, <3>4, <3>5
    <3>7. any'.error <=> \E k \in 1..next : found[k] = "missing" \/ (k <= next /\ Faults(Lines(k)) # {})
      <4>1. next <= next
        BY <3>3
      <4>. QED BY <1>2, <3>2, <3>3, <4>1
    <3>8. (\A k \in 1..next : ~Limits(Lines(k))) /\ (On("quiet") => ~any'.match)
      BY <1>2, <3>2, <3>3, <3>5
    <3>. QED BY <1>1, <2>1, <3>1, <3>6, <3>7, <3>8, SameJob DEF Tally
  <2>. QED BY <2>1, <2>2, <2>3, <2>4, NotYet DEF GrepIInv
<1>. QED BY <1>3, <1>4

LEMMA StatusAllDone ==
    ASSUME GrepIInv, AllDone
    PROVE  GrepIInv'
<1>1. /\ pc = "next" /\ pc' = "done" /\ Control /\ ~Implicit /\ next \in Nat
      /\ UNCHANGED <<job, disk, cancelled, todo, trav, entries, next, input, loop, budget, claimed,
                     found, stdout, any>>
      /\ status' \in {"write", IF any.error THEN "2" ELSE IF any.match THEN "0" ELSE "1"}
  BY DEF AllDone, Ends, world, walk, search, GrepIInv, Control
<1>2. ~OverLimit'
  BY <1>1 DEF OverLimit, Fits, InBudget, Control
<1>3. /\ any.error <=> \E k \in 1..next : found[k] = "missing" \/ Faults(Lines(k)) # {}
      /\ any.match <=> \E k \in 1..next : Selected(Lines(k))
      /\ \A k \in 1..next : ~Limits(Lines(k))
      /\ On("quiet") => ~any.match
  BY <1>1 DEF GrepIInv, Tally
<1>4. StatusIs(status', OverLimit')
  <2>1. CASE status' = "write"
    BY <2>1, EndsPlain
  <2>2. CASE status' = IF any.error THEN "2" ELSE IF any.match THEN "0" ELSE "1"
    <3>. DEFINE inputs == {Lines(k) : k \in 1..next}
    <3>1. (\E l \in inputs : Selected(l)) <=> any.match
      BY <1>3
    <3>2. (\E k \in 1..next : found[k] = "missing") \/ (\E l \in inputs : Faults(l) # {}) <=> any.error
      BY <1>3
    <3>. HIDE DEF inputs
    <3>. QED BY <1>1, <1>2, <1>3, <2>2, <3>1, <3>2 DEF StatusIs, inputs
  <2>. QED BY <1>1, <2>1, <2>2
<1>. QED BY <1>1, <1>4, Finishes DEF Control

LEMMA StatusCancelled ==
    ASSUME GrepIInv, Cancelled
    PROVE  GrepIInv'
<1>1. /\ pc' = "done" /\ status' = "cancelled"
      /\ UNCHANGED <<job, disk, cancelled, todo, trav, entries, next, input, loop, budget, claimed,
                     found, stdout, any>>
  BY DEF Cancelled, Ends, world, walk, search
<1>2. StatusIs(status', OverLimit')
  BY <1>1, EndsPlain
<1>. QED BY <1>1, <1>2, Finishes DEF GrepIInv, Control

\* One file is done: what is written, and how the command goes on.
LEMMA StatusFileDone ==
    ASSUME GrepIInv, FileDone
    PROVE  GrepIInv'
<1>. DEFINE b == IF ~On("quiet") /\ Listing THEN Spend(budget, 1, 0, Len(Output)) ELSE budget
            inputs == IF Implicit THEN {Piped} ELSE {Lines(k) : k \in 1..next}
<1>1. /\ pc = "searched" /\ Control /\ (Implicit \/ next > 0) /\ status = "running" /\ next \in Nat
      /\ Faults(Current) = {} /\ (Matched <=> SelectedLines(Current) # {})
      /\ any' = [any EXCEPT !.match = @ \/ Matched]
      /\ Fits(budget) /\ InBudget(trav) /\ Len(loop.pending) <= MaxContext
      /\ UNCHANGED <<job, disk, cancelled, todo, trav, entries, next, input, loop, claimed, found>>
  BY DEF FileDone, world, walk, GrepIInv, Control, Searching
<1>2. /\ any' \in [match : BOOLEAN, error : BOOLEAN] /\ any.match \in BOOLEAN /\ any.error \in BOOLEAN
      /\ any'.match = (any.match \/ Matched) /\ any'.error = any.error
  BY <1>1 DEF Control, Matched
<1>3. OverLimit' <=> ~Fits(budget')
  BY <1>1 DEF OverLimit, Fits, InBudget
<1>4. Current \in inputs /\ \A l \in inputs : l = Current \/ (~Implicit /\ \E k \in 1..(next - 1) : l = Lines(k))
  BY <1>1, Inputs
<1>5. ~Implicit => /\ any.error <=> \E k \in 1..next : \/ found[k] = "missing"
                                                       \/ k <= next - 1 /\ Faults(Lines(k)) # {}
                   /\ any.match <=> \E k \in 1..(next - 1) : Selected(Lines(k))
                   /\ \A k \in 1..(next - 1) : ~Limits(Lines(k))
                   /\ On("quiet") => ~any.match
  BY <1>1 DEF GrepIInv, Tally
<1>6. ~Limits(Current) /\ (Selected(Current) <=> Matched)
  BY <1>1 DEF Limits, Selected
<1>7. CASE On("quiet") /\ Matched /\ Ends("0") /\ UNCHANGED <<stdout, budget>>
  <2>1. pc' = "done" /\ status' = "0" /\ ~OverLimit'
    BY <1>1, <1>3, <1>7 DEF Ends, Fits
  <2>2. (\E l \in inputs : Selected(l)) /\ ~\E l \in inputs : Limits(l)
    BY <1>4, <1>5, <1>6, <1>7
  <2>3. StatusIs(status', OverLimit')
    BY <1>7, <2>1, <2>2 DEF StatusIs
  <2>. QED BY <1>1, <1>2, <2>1, <2>3, Finishes
<1>8. CASE ~Fits(b) /\ budget' = b /\ Ends("2")
  <2>1. pc' = "done" /\ status' = "2" /\ OverLimit'
    BY <1>3, <1>8 DEF Ends, Fits
  <2>2. StatusIs(status', OverLimit')
    BY <2>1, EndsPlain
  <2>. QED BY <1>1, <1>2, <2>1, <2>2, Finishes
<1>9. CASE Ends("write")
  <2>1. pc' = "done" /\ status' = "write"
    BY <1>9 DEF Ends
  <2>2. StatusIs(status', OverLimit')
    BY <2>1, EndsPlain
  <2>. QED BY <1>1, <1>2, <2>1, <2>2, Finishes
<1>10. CASE /\ ~(On("quiet") /\ Matched) /\ Fits(b) /\ budget' = b /\ Implicit
            /\ Ends(IF Matched THEN "0" ELSE "1")
  <2>1. pc' = "done" /\ status' = (IF Matched THEN "0" ELSE "1") /\ ~OverLimit'
    BY <1>3, <1>10 DEF Ends, Fits
  <2>2. inputs = {Current} /\ next = 0
    BY <1>1, <1>10 DEF Current, Control
  <2>3. StatusIs(status', OverLimit')
    <3>1. ~\E k \in 1..next : found[k] = "missing"
      BY <2>2
    <3>2. (\E l \in inputs : Selected(l)) <=> Matched
      BY <1>6, <2>2
    <3>3. ~\E l \in inputs : Faults(l) # {}
      BY <1>1, <2>2
    <3>. HIDE DEF inputs
    <3>. QED BY <1>10, <2>1, <3>1, <3>2, <3>3 DEF StatusIs, inputs
  <2>. QED BY <1>1, <1>2, <2>1, <2>3, Finishes
<1>11. CASE /\ ~(On("quiet") /\ Matched) /\ Fits(b) /\ budget' = b /\ ~Implicit
            /\ pc' = "next" /\ UNCHANGED status
  <2>1. Fits(budget)' /\ status' = "running"
    BY <1>1, <1>11 DEF Fits
  <2>2. Control'
    BY <1>1, <1>2, <1>11, <2>1, SameJob DEF Control, InBudget
  <2>3. DiskKept' /\ Searching'
    BY <1>1, <1>11 DEF GrepIInv, DiskKept, Searching
  <2>4. Tally'
    <3>1. \A k : Faults(Lines(k))' = Faults(Lines(k)) /\ (Selected(Lines(k))' <=> Selected(Lines(k)))
               /\ (Limits(Lines(k))' <=> Limits(Lines(k)))
      BY <1>1, SameJob, SameLines DEF Selected, Limits
    <3>2. Current = Lines(next)
      BY <1>11 DEF Current
    <3>3. next \in 1..next /\ \A k \in 1..next : k <= next /\ (k \in 1..(next - 1) \/ k = next)
      BY <1>1, <1>11
    <3>4. \A k \in 1..(next - 1) : k \in 1..next /\ k <= next - 1
      BY <1>1
    <3>5. any'.error <=> \E k \in 1..next : found[k] = "missing" \/ (k <= next /\ Faults(Lines(k)) # {})
      BY <1>1, <1>2, <1>5, <1>11, <3>2, <3>3, <3>4
    <3>6. any'.match <=> \E k \in 1..next : Selected(Lines(k))
      BY <1>2, <1>5, <1>6, <1>11, <3>2, <3>3, <3>4
    <3>7. (\A k \in 1..next : ~Limits(Lines(k))) /\ (On("quiet") => ~any'.match)
      BY <1>2, <1>5, <1>6, <1>11, <3>2, <3>3
    <3>. QED BY <1>1, <1>11, <3>1, <3>5, <3>6, <3>7, SameJob DEF Tally
  <2>. QED BY <2>1, <2>2, <2>3, <2>4, NotYet DEF GrepIInv
<1>. QED BY <1>7, <1>8, <1>9, <1>10, <1>11 DEF FileDone

LEMMA GrepInvariant == Spec => []GrepIInv
<1>1. Init => GrepIInv
  BY StatusInit
<1>2. GrepIInv /\ [Next]_vars => GrepIInv'
  <2>. SUFFICES ASSUME GrepIInv, [Next]_vars PROVE GrepIInv'
    OBVIOUS
  <2>1. CASE Setup
    BY <2>1, StatusSetup
  <2>2. CASE TakeOperand
    BY <2>2, StatusTakeOperand
  <2>3. CASE WalkFiles
    BY <2>3, StatusWalkFiles
  <2>4. CASE CollectEnd
    BY <2>4, StatusCollectEnd
  <2>5. CASE OpenInput
    BY <2>5, StatusOpenInput
  <2>6. CASE SearchLine
    BY <2>6, StatusSearchLine
  <2>7. CASE SearchEnd
    BY <2>7, StatusSearchEnd
  <2>8. CASE Unread
    BY <2>8, StatusUnread
  <2>9. CASE Limit
    BY <2>9, StatusLimit
  <2>10. CASE FileDone
    BY <2>10, StatusFileDone
  <2>11. CASE AllDone
    BY <2>11, StatusAllDone
  <2>12. CASE Cancelled
    BY <2>12, StatusCancelled
  <2>13. CASE Cancel
    <3>1. DiskKept'
      BY <2>13 DEF Cancel, GrepIInv, DiskKept
    <3>. QED BY <2>13, <3>1, Stays DEF Cancel
  <2>14. CASE Vanish
    <3>1. DiskKept'
      BY <2>14 DEF Vanish, GrepIInv, DiskKept
    <3>. QED BY <2>14, <3>1, Stays DEF Vanish
  <2>15. CASE UNCHANGED vars
    <3>1. DiskKept'
      BY <2>15 DEF vars, GrepIInv, DiskKept
    <3>. QED BY <2>15, <3>1, Stays DEF vars
  <2>. QED
    BY <2>1, <2>2, <2>3, <2>4, <2>5, <2>6, <2>7, <2>8, <2>9, <2>10, <2>11, <2>12, <2>13, <2>14, <2>15
    DEF Next, Step, Over
<1>. QED BY <1>1, <1>2, PTL DEF Spec

\* The exit status sums up all inputs, whatever they hold, in whatever order
\* they fail, and whatever goes away meanwhile (grep.go:127-233).
THEOREM ExitSumsUp == Spec => []StatusTruth
<1>1. GrepIInv => StatusTruth
  BY DEF GrepIInv
<1>. QED BY <1>1, GrepInvariant, PTL

-----------------------------------------------------------------------------
(* Paths *)
\* IsPrefix and the second case of Before, element by element.
Leads(p, q) == Len(p) <= Len(q) /\ \A i \in 1..Len(p) : q[i] = p[i]
LeftOf(p, q) == \E i \in 1..Len(p) : /\ i <= Len(q) /\ p[i] < q[i]
                                     /\ \A j \in 1..(i - 1) : p[j] = q[j]

LEMMA CutIs ==
    ASSUME NEW q \in Seq(Nat), NEW n \in 0..Len(q)
    PROVE  /\ SubSeq(q, 1, n) \in Seq(Nat) /\ Len(SubSeq(q, 1, n)) = n
           /\ \A i \in 1..n : SubSeq(q, 1, n)[i] = q[i]
<1>1. Len(q) \in Nat /\ n \in Nat
  BY LenProperties
<1>. QED BY <1>1

LEMMA LeadsIs ==
    ASSUME NEW p \in Seq(Nat), NEW q \in Seq(Nat)
    PROVE  /\ IsPrefix(p, q) <=> Leads(p, q)
           /\ Leads(p, q) => SubSeq(q, 1, Len(p)) = p
<1>1. Len(p) \in Nat /\ Len(q) \in Nat
  BY LenProperties
<1>2. SubSeq(p, 1, Len(p)) = p
  BY <1>1
<1>3. ASSUME Len(p) <= Len(q)
      PROVE  SubSeq(q, 1, Len(p)) = p <=> \A i \in 1..Len(p) : q[i] = p[i]
  <2>1. Len(p) \in 0..Len(q)
    BY <1>1, <1>3
  <2>2. /\ SubSeq(q, 1, Len(p)) \in Seq(Nat) /\ Len(SubSeq(q, 1, Len(p))) = Len(p)
        /\ \A i \in 1..Len(p) : SubSeq(q, 1, Len(p))[i] = q[i]
    BY <2>1, CutIs
  <2>. DEFINE c == SubSeq(q, 1, Len(p))
  <2>. HIDE DEF c
  <2>3. (\A i \in 1..Len(p) : c[i] = p[i]) => c = p
    BY <2>2, SeqEqual DEF c
  <2>. QED BY <2>2, <2>3 DEF c
<1>. QED BY <1>1, <1>2, <1>3 DEF IsPrefix, Leads

LEMMA ChildIs ==
    ASSUME NEW p \in Seq(Nat), NEW n \in Nat
    PROVE  /\ Append(p, n) \in Seq(Nat) /\ Len(Append(p, n)) = Len(p) + 1 /\ Len(p) \in Nat
           /\ Append(p, n)[Len(p) + 1] = n
           /\ \A i \in 1..Len(p) : Append(p, n)[i] = p[i]
BY LenProperties, AppendProperties

\* What is left of something stays left of all that is below it.
LEMMA LeftIs ==
    ASSUME NEW p \in Seq(Nat), NEW q \in Seq(Nat), LeftOf(p, q)
    PROVE  /\ Before(p, q)
           /\ \A r \in Seq(Nat) : Leads(p, r) => LeftOf(r, q)
           /\ \A r \in Seq(Nat) : Leads(q, r) => LeftOf(p, r)
<1>1. Len(p) \in Nat /\ Len(q) \in Nat /\ DOMAIN p = 1..Len(p) /\ DOMAIN q = 1..Len(q)
  BY LenProperties
<1>2. PICK i \in 1..Len(p) : i <= Len(q) /\ p[i] < q[i] /\ \A j \in 1..(i - 1) : p[j] = q[j]
  BY DEF LeftOf
<1>3. Before(p, q)
  <2>1. i \in DOMAIN p \cap DOMAIN q /\ i - 1 \in 0..Len(p) /\ i - 1 \in 0..Len(q)
    BY <1>1, <1>2
  <2>. DEFINE a == SubSeq(p, 1, i - 1)
             b == SubSeq(q, 1, i - 1)
  <2>2. /\ a \in Seq(Nat) /\ Len(a) = i - 1 /\ \A j \in 1..(i - 1) : a[j] = p[j]
        /\ b \in Seq(Nat) /\ Len(b) = i - 1 /\ \A j \in 1..(i - 1) : b[j] = q[j]
    BY <2>1, CutIs
  <2>. HIDE DEF a, b
  <2>3. a = b
    BY <1>2, <2>2, SeqEqual
  <2>. QED BY <1>2, <2>1, <2>3 DEF Before, a, b
<1>4. ASSUME NEW r \in Seq(Nat), Leads(p, r) PROVE LeftOf(r, q)
  <2>1. Len(r) \in Nat /\ Len(p) <= Len(r) /\ \A j \in 1..Len(p) : r[j] = p[j]
    BY <1>4, LenProperties DEF Leads
  <2>2. i \in 1..Len(r) /\ \A j \in 1..(i - 1) : j \in 1..Len(p)
    BY <1>1, <2>1
  <2>. QED BY <1>2, <2>1, <2>2 DEF LeftOf
<1>5. ASSUME NEW r \in Seq(Nat), Leads(q, r) PROVE LeftOf(p, r)
  <2>1. Len(r) \in Nat /\ Len(q) <= Len(r) /\ \A j \in 1..Len(q) : r[j] = q[j]
    BY <1>5, LenProperties DEF Leads
  <2>2. i <= Len(r) /\ i \in 1..Len(q) /\ \A j \in 1..(i - 1) : j \in 1..Len(q)
    BY <1>1, <1>2, <2>1
  <2>. QED BY <1>2, <2>1, <2>2 DEF LeftOf
<1>. QED BY <1>3, <1>4, <1>5

LEMMA SiblingsLeft ==
    ASSUME NEW p \in Seq(Nat), NEW m \in Nat, NEW n \in Nat, m < n
    PROVE  LeftOf(Append(p, m), Append(p, n))
<1>. DEFINE i == Len(p) + 1
            a == Append(p, m)
            b == Append(p, n)
<1>1. /\ Len(p) \in Nat /\ Len(a) = i /\ Len(b) = i /\ a[i] = m /\ b[i] = n
      /\ \A j \in 1..Len(p) : a[j] = p[j] /\ b[j] = p[j]
  BY ChildIs
<1>2. i \in 1..i /\ i <= i /\ \A j \in 1..(i - 1) : j \in 1..Len(p)
  BY <1>1
<1>. HIDE DEF a, b, i
<1>3. LeftOf(a, b)
  BY <1>1, <1>2 DEF LeftOf
<1>. QED BY <1>3 DEF a, b

LEMMA PathIs ==
    ASSUME NEW p \in Path
    PROVE  /\ p \in Seq(Nat \cup {Dot}) /\ ResolvePath(p) \in Seq(Nat)
           /\ Base(ResolvePath(p)) = Base(p)
<1>1. p \in Seq(Nat \cup {Dot}) /\ \A i \in 2..Len(p) : p[i] # Dot
  BY DEF Path
<1>2. Len(p) \in Nat /\ \A i \in 1..Len(p) : p[i] \in Nat \cup {Dot}
  BY <1>1, LenProperties, ElementOfSeq
<1>3. CASE p = <<>>
  BY <1>3 DEF ResolvePath, Base
<1>4. CASE p # <<>> /\ Head(p) = Dot
  <2>. DEFINE t == Tail(p)
  <2>1. /\ t \in Seq(Nat \cup {Dot}) /\ Len(t) = Len(p) - 1 /\ Len(p) > 0
        /\ \A i \in 1..Len(t) : t[i] = p[i + 1]
    BY <1>1, <1>2, <1>4, HeadTailProperties, EmptySeq
  <2>. HIDE DEF t
  <2>2. \A i \in 1..Len(t) : t[i] \in Nat
    <3>1. \A i \in 1..Len(t) : i + 1 \in 1..Len(p) /\ i + 1 \in 2..Len(p)
      BY <1>2, <2>1
    <3>. QED BY <1>1, <1>2, <2>1, <3>1
  <2>3. t \in Seq(Nat)
    BY <2>1, <2>2, LenProperties
  <2>4. ResolvePath(p) = t
    BY <1>4 DEF ResolvePath, t
  <2>5. Base(t) = Base(p)
    <3>1. CASE t = <<>>
      <4>1. Len(p) = 1
        BY <1>2, <2>1, <3>1
      <4>2. Head(p) = p[1]
        BY <1>1, <1>4, HeadTailProperties
      <4>. QED BY <1>4, <3>1, <4>1, <4>2 DEF Base, Last
    <3>2. CASE t # <<>>
      <4>1. Len(t) \in 1..Len(t) /\ Len(t) + 1 = Len(p)
        BY <1>2, <2>1, <3>2, EmptySeq, LenProperties
      <4>. QED BY <1>4, <2>1, <3>2, <4>1 DEF Base, Last
    <3>. QED BY <3>1, <3>2
  <2>. QED BY <1>1, <2>3, <2>4, <2>5
<1>5. CASE p # <<>> /\ Head(p) # Dot
  <2>1. Len(p) > 0 /\ p[1] # Dot
    BY <1>1, <1>2, <1>5, HeadTailProperties, EmptySeq
  <2>2. \A i \in 1..Len(p) : i = 1 \/ i \in 2..Len(p)
    BY <1>2
  <2>3. \A i \in 1..Len(p) : p[i] \in Nat
    BY <1>1, <1>2, <2>1, <2>2
  <2>4. p \in Seq(Nat)
    BY <1>1, <1>2, <2>3, LenProperties
  <2>. QED BY <1>1, <1>5, <2>4 DEF ResolvePath
<1>. QED BY <1>3, <1>4, <1>5

\* A name below a directory is never taken for standard input.
LEMMA ChildPathIs ==
    ASSUME NEW p \in Path, NEW n \in Nat
    PROVE  /\ ChildPath(p, n) \in Path /\ ChildPath(p, n) # Stdin
           /\ ResolvePath(ChildPath(p, n)) = Append(ResolvePath(p), n)
<1>1. CASE p = <<>> /\ n = Dash
  <2>1. ChildPath(p, n) = <<Dot, Dash>> /\ ResolvePath(p) = <<>>
    BY <1>1 DEF ChildPath, ResolvePath
  <2>2. <<Dot, Dash>> \in Path /\ <<Dot, Dash>> # Stdin
    BY DEF Path, Dot, Dash, Stdin
  <2>3. Head(<<Dot, Dash>>) = Dot /\ Tail(<<Dot, Dash>>) = <<Dash>> /\ Append(<<>>, Dash) = <<Dash>>
    BY DEF Dot, Dash
  <2>4. <<Dot, Dash>> # <<>>
    OBVIOUS
  <2>5. ResolvePath(<<Dot, Dash>>) = <<Dash>>
    BY <2>3, <2>4 DEF ResolvePath
  <2>. QED BY <1>1, <2>1, <2>2, <2>3, <2>5
<1>2. CASE p = <<>> /\ n # Dash
  <2>1. ChildPath(p, n) = <<n>> /\ ResolvePath(p) = <<>>
    BY <1>2 DEF ChildPath, ResolvePath
  <2>2. <<n>> \in Path /\ <<n>> # Stdin /\ Head(<<n>>) # Dot /\ Append(<<>>, n) = <<n>>
    BY <1>2 DEF Path, Dot, Dash, Stdin
  <2>. QED BY <2>1, <2>2 DEF ResolvePath
<1>3. CASE p # <<>>
  <2>. DEFINE c == Append(p, n)
  <2>1. ChildPath(p, n) = c
    BY <1>3 DEF ChildPath
  <2>2. p \in Seq(Nat \cup {Dot}) /\ Len(p) \in Nat /\ Len(p) > 0 /\ \A i \in 2..Len(p) : p[i] # Dot
    BY <1>3, PathIs, EmptySeq, LenProperties DEF Path
  <2>3. /\ c \in Seq(Nat \cup {Dot}) /\ Len(c) = Len(p) + 1 /\ c[Len(p) + 1] = n
        /\ \A i \in 1..Len(p) : c[i] = p[i]
    BY <2>2, AppendProperties
  <2>4. ASSUME NEW i \in 2..Len(c) PROVE c[i] # Dot
    <3>1. i \in 2..Len(p) \/ i = Len(p) + 1
      BY <2>2, <2>3
    <3>. QED BY <2>2, <2>3, <3>1 DEF Dot
  <2>5. c \in Path
    BY <2>3, <2>4 DEF Path
  <2>6. c # Stdin
    BY <2>2, <2>3 DEF Stdin
  <2>7. c # <<>> /\ Head(c) = Head(p) /\ Tail(c) = Append(Tail(p), n)
    BY <2>2, <1>3, HeadTailAppend
  <2>8. ResolvePath(c) = Append(ResolvePath(p), n)
    BY <1>3, <2>7 DEF ResolvePath
  <2>. QED BY <2>1, <2>5, <2>6, <2>8
<1>. QED BY <1>1, <1>2, <1>3

-----------------------------------------------------------------------------
(* The files below a path *)
Tree(d) ==
    /\ DOMAIN d \subseteq Seq(Nat) /\ \A p \in DOMAIN d : d[p].dir \in BOOLEAN
    /\ \A p \in DOMAIN d : \A n \in 0..(Len(p) - 1) :
         SubSeq(p, 1, n) \in DOMAIN d /\ d[SubSeq(p, 1, n)].dir

\* Wanted, for a path that is already some directories deep.
WantedAt(d, p, depth, q) ==
    /\ q \in DOMAIN d /\ Leads(p, q) /\ ~d[q].dir /\ AcceptFile(q)
    /\ (Len(q) - Len(p)) + depth < MaxDepth
    /\ \A i \in (Len(p) + 1)..Len(q) : q[i] # Hidden
    /\ \A i \in Len(p)..(Len(q) - 1) : Base(SubSeq(q, 1, i)) \notin o.excludeDir

LEMMA WantedIs ==
    ASSUME NEW d, Tree(d), NEW p \in Seq(Nat), NEW q
    PROVE  q \in Wanted(d, p) <=> WantedAt(d, p, 0, q)
<1>1. ASSUME q \in DOMAIN d
      PROVE  q \in Wanted(d, p) <=> WantedAt(d, p, 0, q)
  <2>1. q \in Seq(Nat) /\ Len(q) \in Nat /\ Len(p) \in Nat
    BY <1>1, LenProperties DEF Tree
  <2>2. (Len(q) - Len(p)) + 0 = Len(q) - Len(p)
    BY <2>1
  <2>. QED BY <1>1, <2>1, <2>2, LeadsIs DEF Wanted, WantedAt
<1>2. q \notin DOMAIN d => q \notin Wanted(d, p) /\ ~WantedAt(d, p, 0, q)
  BY DEF Wanted, WantedAt
<1>. QED BY <1>1, <1>2

\* What is below p is below a child of p, or p itself.
LEMMA BelowChild ==
    ASSUME NEW p \in Seq(Nat), NEW q \in Seq(Nat), Leads(p, q), q # p
    PROVE  LET n == q[Len(p) + 1] IN
           /\ n \in Nat /\ Len(p) + 1 \in 1..Len(q) /\ Leads(Append(p, n), q)
           /\ SubSeq(q, 1, Len(p) + 1) = Append(p, n)
<1>1. Len(p) \in Nat /\ Len(q) \in Nat /\ Len(p) <= Len(q) /\ \A i \in 1..Len(p) : q[i] = p[i]
  BY LenProperties DEF Leads
<1>2. Len(p) # Len(q)
  BY <1>1, SeqEqual
<1>3. Len(p) + 1 \in 1..Len(q)
  BY <1>1, <1>2
<1>. DEFINE n == q[Len(p) + 1]
            c == Append(p, n)
<1>4. n \in Nat
  BY <1>3, ElementOfSeq
<1>5. /\ c \in Seq(Nat) /\ Len(c) = Len(p) + 1 /\ c[Len(p) + 1] = n
      /\ \A i \in 1..Len(p) : c[i] = p[i]
  BY <1>4, ChildIs
<1>6. \A i \in 1..(Len(p) + 1) : i \in 1..Len(p) \/ i = Len(p) + 1
  BY <1>1
<1>. HIDE DEF c
<1>7. Leads(c, q)
  <2>1. n = q[Len(p) + 1]
    OBVIOUS
  <2>. HIDE DEF n
  <2>2. Len(c) <= Len(q) /\ \A i \in 1..Len(c) : i \in 1..(Len(p) + 1)
    BY <1>1, <1>3, <1>5
  <2>3. \A i \in 1..Len(p) : q[i] = c[i]
    BY <1>1, <1>5
  <2>. QED BY <1>5, <1>6, <2>1, <2>2, <2>3 DEF Leads
<1>8. SubSeq(q, 1, Len(p) + 1) = c
  BY <1>5, <1>7, LeadsIs
<1>. QED BY <1>3, <1>4, <1>7, <1>8 DEF c

\* A file of a child is a file of the directory.
LEMMA WantedUp ==
    ASSUME NEW d, Tree(d), NEW p \in Seq(Nat), NEW n \in Nat, NEW depth \in Nat, NEW q,
           n # Hidden, Base(p) \notin o.excludeDir, WantedAt(d, Append(p, n), depth + 1, q)
    PROVE  WantedAt(d, p, depth, q)
<1>. DEFINE c == Append(p, n)
<1>1. q \in DOMAIN d /\ q \in Seq(Nat) /\ Len(q) \in Nat /\ MaxDepth \in Nat
  BY LenProperties, GrepAssumption DEF WantedAt, Tree
<1>2. /\ c \in Seq(Nat) /\ Len(c) = Len(p) + 1 /\ Len(p) \in Nat /\ c[Len(p) + 1] = n
      /\ \A i \in 1..Len(p) : c[i] = p[i]
  BY ChildIs
<1>3. Len(c) <= Len(q) /\ \A i \in 1..Len(c) : q[i] = c[i]
  BY DEF WantedAt, Leads
<1>. HIDE DEF c
<1>4. Leads(p, q)
  <2>1. Len(p) <= Len(q) /\ \A i \in 1..Len(p) : i \in 1..Len(c)
    BY <1>1, <1>2, <1>3
  <2>. QED BY <1>2, <1>3, <2>1 DEF Leads
<1>5. (Len(q) - Len(p)) + depth < MaxDepth
  <2>1. (Len(q) - Len(c)) + (depth + 1) < MaxDepth
    BY DEF WantedAt, c
  <2>. QED BY <1>1, <1>2, <2>1
<1>6. ASSUME NEW i \in (Len(p) + 1)..Len(q) PROVE q[i] # Hidden
  <2>1. CASE i = Len(p) + 1
    <3>1. i \in 1..Len(c)
      BY <1>2, <2>1
    <3>. QED BY <1>2, <1>3, <2>1, <3>1
  <2>2. CASE i # Len(p) + 1
    <3>1. i \in (Len(c) + 1)..Len(q)
      BY <1>1, <1>2, <2>2
    <3>. QED BY <3>1 DEF WantedAt, c
  <2>. QED BY <2>1, <2>2
<1>7. ASSUME NEW i \in Len(p)..(Len(q) - 1) PROVE Base(SubSeq(q, 1, i)) \notin o.excludeDir
  <2>1. CASE i = Len(p)
    BY <1>1, <1>4, <2>1, LeadsIs
  <2>2. CASE i # Len(p)
    <3>1. i \in Len(c)..(Len(q) - 1)
      BY <1>1, <1>2, <2>2
    <3>. QED BY <3>1 DEF WantedAt, c
  <2>. QED BY <2>1, <2>2
<1>. QED BY <1>1, <1>4, <1>5, <1>6, <1>7 DEF WantedAt

\* A file of a directory is a file of one of its children that are walked.
LEMMA WantedDown ==
    ASSUME NEW d, Tree(d), NEW p \in Seq(Nat), NEW depth \in Nat, NEW q,
           WantedAt(d, p, depth, q), p \in DOMAIN d => d[p].dir
    PROVE  /\ p \in DOMAIN d /\ Base(p) \notin o.excludeDir /\ depth < MaxDepth
           /\ \E n \in Nat \ {Hidden} : /\ Append(p, n) \in DOMAIN d
                                        /\ WantedAt(d, Append(p, n), depth + 1, q)
<1>1. /\ q \in DOMAIN d /\ q \in Seq(Nat) /\ Len(q) \in Nat /\ MaxDepth \in Nat /\ Len(p) \in Nat
      /\ Leads(p, q) /\ Len(p) <= Len(q)
  BY LenProperties, GrepAssumption DEF WantedAt, Tree, Leads
<1>2. q # p
  BY <1>1 DEF WantedAt
<1>. DEFINE n == q[Len(p) + 1]
            c == Append(p, n)
<1>3. /\ n \in Nat /\ Len(p) + 1 \in 1..Len(q) /\ Leads(c, q) /\ SubSeq(q, 1, Len(p) + 1) = c
  BY <1>1, <1>2, BelowChild
<1>4. Len(c) = Len(p) + 1
  BY <1>3, ChildIs
<1>5. SubSeq(q, 1, Len(p)) = p /\ SubSeq(q, 1, Len(q)) = q
  BY <1>1, LeadsIs
<1>6. Len(p) \in 0..(Len(q) - 1) /\ Len(p) \in Len(p)..(Len(q) - 1)
  BY <1>1, <1>3
<1>7. p \in DOMAIN d /\ Base(p) \notin o.excludeDir
  BY <1>1, <1>5, <1>6 DEF Tree, WantedAt
<1>8. depth < MaxDepth
  <2>1. (Len(q) - Len(p)) + depth < MaxDepth
    BY DEF WantedAt
  <2>. QED BY <1>1, <2>1
<1>9. n # Hidden
  <2>1. Len(p) + 1 \in (Len(p) + 1)..Len(q)
    BY <1>1, <1>3
  <2>. QED BY <2>1 DEF WantedAt
<1>10. c \in DOMAIN d
  <2>1. CASE Len(p) + 1 = Len(q)
    BY <1>1, <1>3, <1>5, <2>1
  <2>2. CASE Len(p) + 1 # Len(q)
    <3>1. Len(p) + 1 \in 0..(Len(q) - 1)
      BY <1>1, <1>3, <2>2
    <3>. QED BY <1>1, <1>3, <3>1 DEF Tree
  <2>. QED BY <2>1, <2>2
<1>. HIDE DEF c
<1>11. WantedAt(d, c, depth + 1, q)
  <2>1. (Len(q) - Len(c)) + (depth + 1) < MaxDepth
    <3>1. (Len(q) - Len(p)) + depth < MaxDepth
      BY DEF WantedAt
    <3>. QED BY <1>1, <1>4, <3>1
  <2>2. \A i \in (Len(c) + 1)..Len(q) : i \in (Len(p) + 1)..Len(q)
    BY <1>1, <1>4
  <2>3. \A i \in Len(c)..(Len(q) - 1) : i \in Len(p)..(Len(q) - 1)
    BY <1>1, <1>4
  <2>. QED BY <1>3, <2>1, <2>2, <2>3 DEF WantedAt
<1>. QED BY <1>3, <1>7, <1>8, <1>9, <1>10, <1>11 DEF c

\* Of a path that is no directory only the path itself can be wanted.
LEMMA WantedFile ==
    ASSUME NEW d, Tree(d), NEW p \in Seq(Nat), NEW depth \in Nat
    PROVE  /\ p \in DOMAIN d /\ ~d[p].dir /\ AcceptFile(p) /\ depth < MaxDepth
                => WantedAt(d, p, depth, p)
           /\ \A q : WantedAt(d, p, depth, q) /\ ~(p \in DOMAIN d /\ d[p].dir)
                => q = p /\ p \in DOMAIN d /\ AcceptFile(p) /\ depth < MaxDepth
           /\ \A q : WantedAt(d, p, depth, q) => depth < MaxDepth
<1>1. Len(p) \in Nat /\ MaxDepth \in Nat
  BY LenProperties, GrepAssumption
<1>2. ASSUME p \in DOMAIN d, ~d[p].dir, AcceptFile(p), depth < MaxDepth
      PROVE  WantedAt(d, p, depth, p)
  <2>1. Leads(p, p) /\ (Len(p) - Len(p)) + depth < MaxDepth
    BY <1>1, <1>2 DEF Leads
  <2>2. (Len(p) + 1)..Len(p) = {} /\ Len(p)..(Len(p) - 1) = {}
    BY <1>1
  <2>. QED BY <1>2, <2>1, <2>2 DEF WantedAt
<1>3. ASSUME NEW q, WantedAt(d, p, depth, q) PROVE depth < MaxDepth
  <2>1. q \in Seq(Nat) /\ Len(q) \in Nat /\ Len(p) <= Len(q) /\ (Len(q) - Len(p)) + depth < MaxDepth
    BY <1>3, LenProperties DEF WantedAt, Leads, Tree
  <2>. QED BY <1>1, <2>1
<1>4. ASSUME NEW q, WantedAt(d, p, depth, q), ~(p \in DOMAIN d /\ d[p].dir), q # p PROVE FALSE
  <2>1. q \in DOMAIN d /\ q \in Seq(Nat) /\ Len(q) \in Nat /\ Leads(p, q) /\ Len(p) <= Len(q)
    BY <1>4, LenProperties DEF WantedAt, Leads, Tree
  <2>2. Len(p) + 1 \in 1..Len(q)
    BY <1>4, <2>1, BelowChild
  <2>3. Len(p) \in 0..(Len(q) - 1) /\ SubSeq(q, 1, Len(p)) = p
    BY <1>1, <2>1, <2>2, LeadsIs
  <2>. QED BY <1>4, <2>1, <2>3 DEF Tree
<1>5. ASSUME NEW q, WantedAt(d, p, depth, q), ~(p \in DOMAIN d /\ d[p].dir)
      PROVE  q = p /\ p \in DOMAIN d /\ AcceptFile(p)
  <2>1. q = p
    BY <1>4, <1>5
  <2>. QED BY <1>5, <2>1 DEF WantedAt
<1>. QED BY <1>2, <1>3, <1>5

-----------------------------------------------------------------------------
(* The files found *)
Plain == On("recursive") /\ \A op \in ToSet(job.operands) : op.glob = "no"
Within(d, q) == \E op \in ToSet(job.operands) :
                   op.path # Stdin /\ WantedAt(d, ResolvePath(op.path), 0, q)

\* An operand and a path that is walked are looked at alike: they have a place
\* in the tree, and what is to be found from there on.
Item == [what : {"operand"}, arg : ToSet(job.operands)]
        \cup [what : {"walk"}, arg : Path \ {Stdin}, depth : Nat]
Root(t) == ResolvePath(IF t.what = "operand" THEN t.arg.path ELSE t.arg)
Depth(t) == IF t.what = "operand" THEN 0 ELSE t.depth
Ahead(d, t, q) == /\ t.what = "walk" \/ t.arg.path # Stdin
                  /\ WantedAt(d, Root(t), Depth(t), q)
\* An entry is a file of the tree, or stands for a "-" of the command line.
Right(p) == \/ p # Stdin /\ Within(job.disk, ResolvePath(p))
            \/ p = Stdin /\ \E op \in ToSet(job.operands) : op.path = Stdin
FilesOrdered(list) ==
    \A k, m \in 1..Len(list) : k < m => LeftOf(ResolvePath(list[k]), ResolvePath(list[m]))
Listed(list, q) == \E k \in 1..Len(list) : ResolvePath(list[k]) = q

\* While files are collected in a tree d: nothing is ahead that is not to be
\* found, and what is to be found is listed or still ahead; all in the order of
\* the tree.
Collecting(d, work, list) ==
    /\ work \in Seq(Item) /\ list \in Seq(Path)
    /\ \A k \in 1..Len(list) : Right(list[k])
    /\ \A i \in 1..Len(work) : \A q \in DOMAIN job.disk :
         Ahead(job.disk, work[i], q) => Within(job.disk, q)
    /\ \A q \in DOMAIN job.disk : Within(d, q) /\ Sure(q) =>
         Listed(list, q) \/ \E i \in 1..Len(work) : Ahead(d, work[i], q)
    /\ Len(job.operands) = 1 =>
         /\ FilesOrdered(list)
         /\ \A i, j \in 1..Len(work) : i < j => LeftOf(Root(work[i]), Root(work[j]))
         /\ \A k \in 1..Len(list), i \in 1..Len(work) :
              LeftOf(ResolvePath(list[k]), Root(work[i]))

Found(d, list) ==
    /\ list \in Seq(Path)
    /\ \A k \in 1..Len(list) : Right(list[k])
    /\ \A q \in DOMAIN job.disk : Within(d, q) /\ Sure(q) => Listed(list, q)
    /\ Len(job.operands) = 1 => FilesOrdered(list)

EntriesIInv ==
    /\ Tree(disk)
    /\ Plain =>
         /\ pc = "start" => entries = <<>>
         /\ pc = "collect" => Collecting(disk, todo, entries)
         /\ pc \notin {"start", "collect"} /\ ~Refused /\ InBudget(trav)
            /\ status # "cancelled" => Found(disk, entries)

LEMMA ReadDirIs ==
    ASSUME DOMAIN disk \subseteq Seq(Nat), NEW p \in Path
    PROVE  /\ \A n : n \in ReadDir(p) <=> n \in Nat /\ Append(ResolvePath(p), n) \in DOMAIN disk
           /\ IsFiniteSet(DOMAIN disk) => IsFiniteSet(ReadDir(p))
<1>. DEFINE r == ResolvePath(p)
            Q == {q \in DOMAIN disk : Len(q) = Len(r) + 1 /\ IsPrefix(r, q)}
<1>0. r \in Seq(Nat)
  BY PathIs
<1>1. ReadDir(p) = {Last(q) : q \in Q}
  BY DEF ReadDir
<1>. HIDE DEF r
<1>2. ASSUME NEW q \in Q PROVE Last(q) \in Nat /\ Append(r, Last(q)) = q
  <2>1. q \in Seq(Nat) /\ Len(q) = Len(r) + 1 /\ Leads(r, q) /\ Len(r) \in Nat
    BY <1>0, LeadsIs, LenProperties
  <2>2. q # r
    BY <2>1
  <2>3. /\ q[Len(r) + 1] \in Nat /\ SubSeq(q, 1, Len(r) + 1) = Append(r, q[Len(r) + 1])
    BY <1>0, <2>1, <2>2, BelowChild
  <2>4. SubSeq(q, 1, Len(q)) = q
    BY <2>1
  <2>. QED BY <2>1, <2>3, <2>4 DEF Last
<1>3. ASSUME NEW n \in Nat, Append(r, n) \in DOMAIN disk
      PROVE  Append(r, n) \in Q /\ Last(Append(r, n)) = n
  <2>. DEFINE c == Append(r, n)
  <2>1. /\ c \in Seq(Nat) /\ Len(c) = Len(r) + 1 /\ Len(r) \in Nat /\ c[Len(r) + 1] = n
        /\ \A i \in 1..Len(r) : c[i] = r[i]
    BY <1>0, ChildIs
  <2>. HIDE DEF c
  <2>2. IsPrefix(r, c)
    BY <1>0, <2>1, LeadsIs DEF Leads
  <2>3. Last(c) = n
    BY <2>1 DEF Last
  <2>. QED BY <1>3, <2>1, <2>2, <2>3 DEF c
<1>4. ASSUME IsFiniteSet(DOMAIN disk) PROVE IsFiniteSet(ReadDir(p))
  <2>. DEFINE f == [q \in Q |-> Last(q)]
  <2>1. IsFiniteSet(Q)
    BY <1>4, FS_Subset
  <2>2. f \in Surjection(Q, ReadDir(p))
    <3>. HIDE DEF Q
    <3>. QED BY <1>1 DEF Surjection
  <2>. HIDE DEF f, Q
  <2>. QED BY <2>1, <2>2, FS_Surjection
<1>5. \A n : n \in ReadDir(p) <=> n \in Nat /\ Append(r, n) \in DOMAIN disk
  <2>. SUFFICES ASSUME NEW n PROVE n \in ReadDir(p) <=> n \in Nat /\ Append(r, n) \in DOMAIN disk
    OBVIOUS
  <2>1. ASSUME n \in ReadDir(p) PROVE n \in Nat /\ Append(r, n) \in DOMAIN disk
    <3>1. PICK q \in Q : n = Last(q)
      BY <1>1, <2>1
    <3>. QED BY <1>2, <3>1
  <2>2. ASSUME n \in Nat, Append(r, n) \in DOMAIN disk PROVE n \in ReadDir(p)
    <3>. HIDE DEF Q
    <3>. QED BY <1>1, <1>3, <2>2
  <2>. QED BY <2>1, <2>2
<1>. QED BY <1>4, <1>5 DEF r

LEMMA SortingIs ==
    ASSUME NEW S \in SUBSET Nat, IsFiniteSet(S), NEW s \in Sortings(S)
    PROVE  /\ Len(s) \in Nat /\ DOMAIN s = 1..Len(s)
           /\ \A i \in 1..Len(s) : s[i] \in S
           /\ \A n \in S : \E i \in 1..Len(s) : s[i] = n
           /\ \A i, k \in 1..Len(s) : i < k => s[i] < s[k]
<1>1. Cardinality(S) \in Nat
  BY FS_CardinalityType
<1>2. /\ s \in [1..Cardinality(S) -> S] /\ ToSet(s) = S
      /\ \A i, k \in 1..Cardinality(S) : i < k => s[i] < s[k]
  BY DEF Sortings
<1>3. Len(s) = Cardinality(S) /\ DOMAIN s = 1..Cardinality(S)
  BY <1>1, <1>2
<1>4. \A n \in S : \E i \in DOMAIN s : s[i] = n
  BY <1>2 DEF ToSet
<1>. QED BY <1>1, <1>2, <1>3, <1>4

\* Where the elements of new \o Tail(old) come from.
LEMMA ReplacedHead ==
    ASSUME NEW S, NEW old \in Seq(S), old # <<>>, NEW new \in Seq(S), NEW all, all = new \o Tail(old)
    PROVE  /\ all \in Seq(S) /\ Len(all) \in Nat /\ Len(new) \in Nat /\ Len(old) \in Nat /\ 1 \in 1..Len(old)
           /\ Len(all) = Len(new) + (Len(old) - 1)
           /\ \A i \in 1..Len(new) : i \in 1..Len(all) /\ all[i] = new[i]
           /\ \A i \in 1..Len(all) : i > Len(new) =>
                /\ i - Len(new) + 1 \in 1..Len(old) /\ 1 < i - Len(new) + 1
                /\ all[i] = old[i - Len(new) + 1]
           /\ \A j \in 1..Len(old) : j # 1 =>
                /\ j - 1 + Len(new) \in 1..Len(all) /\ all[j - 1 + Len(new)] = old[j]
<1>. DEFINE t == Tail(old)
<1>1. /\ t \in Seq(S) /\ Len(t) = Len(old) - 1 /\ Len(old) \in Nat /\ Len(old) > 0
      /\ \A i \in 1..Len(t) : t[i] = old[i + 1]
  BY HeadTailProperties, LenProperties, EmptySeq
<1>. HIDE DEF t
<1>2. /\ all \in Seq(S) /\ Len(new) \in Nat /\ Len(all) = Len(new) + Len(t)
      /\ \A i \in 1..Len(all) : all[i] = IF i <= Len(new) THEN new[i] ELSE t[i - Len(new)]
  <2>1. all = new \o t
    BY DEF t
  <2>. QED BY <1>1, <2>1, ConcatProperties, LenProperties, SMTT(30)
<1>3. ASSUME NEW i \in 1..Len(new) PROVE i \in 1..Len(all) /\ all[i] = new[i]
  <2>1. i \in 1..Len(all) /\ i <= Len(new)
    BY <1>1, <1>2
  <2>. QED BY <1>2, <2>1
<1>4. ASSUME NEW i \in 1..Len(all), i > Len(new)
      PROVE  /\ i - Len(new) + 1 \in 1..Len(old) /\ 1 < i - Len(new) + 1
             /\ all[i] = old[i - Len(new) + 1]
  <2>1. ~(i <= Len(new)) /\ i - Len(new) \in 1..Len(t)
    BY <1>1, <1>2, <1>4
  <2>2. all[i] = old[(i - Len(new)) + 1]
    BY <1>1, <1>2, <2>1
  <2>. QED BY <1>1, <1>2, <2>1, <2>2
<1>5. ASSUME NEW j \in 1..Len(old), j # 1
      PROVE  j - 1 + Len(new) \in 1..Len(all) /\ all[j - 1 + Len(new)] = old[j]
  <2>. DEFINE i == j - 1 + Len(new)
  <2>1. /\ i \in 1..Len(all) /\ i > Len(new) /\ i - Len(new) + 1 = j
    BY <1>1, <1>2, <1>5
  <2>2. all[i] = old[i - Len(new) + 1]
    BY <1>4, <2>1
  <2>. QED BY <2>1, <2>2
<1>6. 1 \in 1..Len(old) /\ Len(all) \in Nat /\ Len(all) = Len(new) + (Len(old) - 1)
  BY <1>1, <1>2
<1>. QED BY <1>1, <1>2, <1>3, <1>4, <1>5, <1>6

LEMMA ItemIs ==
    ASSUME job \in Jobs, NEW t \in Item
    PROVE  /\ Root(t) \in Seq(Nat) /\ Depth(t) \in Nat
           /\ \/ t.what = "operand" /\ t.arg \in ToSet(job.operands) /\ t.arg.path \in Path
              \/ t.what = "walk" /\ t.arg \in Path /\ t.arg # Stdin
<1>1. CASE t \in [what : {"operand"}, arg : ToSet(job.operands)]
  <2>1. t.what = "operand" /\ t.arg \in ToSet(job.operands)
    BY <1>1
  <2>2. t.arg.path \in Path
    <3>. DEFINE Operand == [path : Path, glob : {"no", "leaf", "deep"}, names : SUBSET Nat]
    <3>1. job.operands \in Seq(Operand)
      BY GrepAssumption
    <3>2. PICK i \in DOMAIN job.operands : t.arg = job.operands[i]
      BY <2>1 DEF ToSet
    <3>3. t.arg \in Operand
      <4>. HIDE DEF Operand
      <4>. QED BY <3>1, <3>2, LenProperties, ElementOfSeq
    <3>. QED BY <3>3
  <2>. QED BY <2>1, <2>2, PathIs DEF Root, Depth
<1>2. CASE t \in [what : {"walk"}, arg : Path \ {Stdin}, depth : Nat]
  <2>1. t.what = "walk" /\ t.arg \in Path /\ t.arg # Stdin /\ t.depth \in Nat
    BY <1>2
  <2>. QED BY <2>1, PathIs DEF Root, Depth
<1>. QED BY <1>1, <1>2 DEF Item

\* These say something about the command line and their arguments only.
LEMMA JobOnly ==
    ASSUME UNCHANGED job
    PROVE  /\ Collecting(disk, todo, entries)' <=> Collecting(disk', todo', entries')
           /\ Found(disk, entries)' <=> Found(disk', entries')
           /\ Plain' <=> Plain
           /\ Refused' <=> Refused
<1>1. Collecting(disk, todo, entries)' <=> Collecting(disk', todo', entries')
  BY DEF Collecting, Right, Within, Ahead, WantedAt, AcceptFile, Sure, o, Item
<1>2. Found(disk, entries)' <=> Found(disk', entries')
  BY DEF Found, Right, Within, WantedAt, AcceptFile, Sure, o
<1>3. (Plain' <=> Plain) /\ (Refused' <=> Refused)
  BY DEF Plain, Refused, On, o
<1>. QED BY <1>1, <1>2, <1>3

\* Looking at the first of the work may find a file, or leave its children.
LEMMA CollectingKept ==
    ASSUME job \in Jobs, NEW d, NEW work, NEW list, Collecting(d, work, list), work # <<>>,
           NEW new \in Seq(Item), NEW entry \in Seq(Path), Len(entry) <= 1,
           Len(entry) = 0 \/ Len(new) = 0,
           \A k \in 1..Len(entry) : Right(entry[k]) /\ ResolvePath(entry[k]) = Root(work[1]),
           \A i \in 1..Len(new) : Leads(Root(work[1]), Root(new[i])),
           \A i, j \in 1..Len(new) : i < j => LeftOf(Root(new[i]), Root(new[j])),
           \A i \in 1..Len(new) : \A q \in DOMAIN job.disk :
              Ahead(job.disk, new[i], q) => Ahead(job.disk, work[1], q),
           \A q \in DOMAIN job.disk : Ahead(d, work[1], q) /\ Sure(q) =>
              Listed(entry, q) \/ \E i \in 1..Len(new) : Ahead(d, new[i], q)
    PROVE  Collecting(d, new \o Tail(work), list \o entry)
<1>. DEFINE all == new \o Tail(work)
            out == list \o entry
<1>1. work \in Seq(Item) /\ list \in Seq(Path)
  BY DEF Collecting
<1>1a. all = new \o Tail(work)
  OBVIOUS
<1>. HIDE DEF all
<1>2. /\ all \in Seq(Item) /\ Len(all) \in Nat /\ Len(new) \in Nat /\ Len(work) \in Nat /\ 1 \in 1..Len(work)
      /\ \A i \in 1..Len(new) : i \in 1..Len(all) /\ all[i] = new[i]
      /\ \A i \in 1..Len(all) : i > Len(new) =>
           /\ i - Len(new) + 1 \in 1..Len(work) /\ 1 < i - Len(new) + 1
           /\ all[i] = work[i - Len(new) + 1]
      /\ \A j \in 1..Len(work) : j # 1 =>
           /\ j - 1 + Len(new) \in 1..Len(all) /\ all[j - 1 + Len(new)] = work[j]
  BY <1>1, <1>1a, ReplacedHead, SMTT(30)
<1>3. /\ out \in Seq(Path) /\ Len(list) \in Nat /\ Len(entry) \in Nat /\ Len(out) = Len(list) + Len(entry)
      /\ \A k \in 1..Len(out) : out[k] = IF k <= Len(list) THEN list[k] ELSE entry[k - Len(list)]
  BY <1>1, ConcatProperties, LenProperties
<1>. HIDE DEF out
<1>4. ASSUME NEW k \in 1..Len(out)
      PROVE  \/ k \in 1..Len(list) /\ out[k] = list[k]
             \/ /\ k = Len(list) + 1 /\ Len(entry) = 1 /\ Len(new) = 0
                /\ out[k] = entry[1] /\ ResolvePath(out[k]) = Root(work[1]) /\ Right(out[k])
  <2>1. CASE k <= Len(list)
    <3>1. k \in 1..Len(list)
      BY <1>3, <2>1
    <3>. QED BY <1>3, <2>1, <3>1
  <2>2. CASE ~(k <= Len(list))
    <3>0. /\ Len(list) \in Nat /\ Len(entry) \in Nat /\ Len(entry) <= 1
          /\ Len(out) = Len(list) + Len(entry) /\ k \in Int /\ k <= Len(out)
      BY <1>3
    <3>. DEFINE m == Len(list)
                e == Len(entry)
    <3>. HIDE DEF m, e
    <3>1. Len(entry) = 1
      <4>1. m \in Nat /\ e \in Nat /\ e <= 1 /\ k <= m + e /\ ~(k <= m)
        BY <2>2, <3>0 DEF m, e
      <4>2. e = 1
        BY <4>1, <3>0
      <4>. QED BY <4>2 DEF e
    <3>2. k = Len(list) + 1 /\ k - Len(list) = 1 /\ 1 \in 1..Len(entry)
      BY <1>3, <2>2, <3>1
    <3>. QED BY <1>3, <2>2, <3>1, <3>2
  <2>. QED BY <2>1, <2>2
<1>5. /\ \A k \in 1..Len(list) : k \in 1..Len(out) /\ out[k] = list[k]
      /\ \A k \in 1..Len(entry) : Len(list) + k \in 1..Len(out) /\ out[Len(list) + k] = entry[k]
  <2>1. ASSUME NEW k \in 1..Len(list) PROVE k \in 1..Len(out) /\ out[k] = list[k]
    <3>1. k \in 1..Len(out) /\ k <= Len(list)
      BY <1>3
    <3>. QED BY <1>3, <3>1
  <2>2. ASSUME NEW k \in 1..Len(entry) PROVE Len(list) + k \in 1..Len(out) /\ out[Len(list) + k] = entry[k]
    <3>1. Len(list) + k \in 1..Len(out) /\ ~(Len(list) + k <= Len(list)) /\ (Len(list) + k) - Len(list) = k
      BY <1>3
    <3>. QED BY <1>3, <3>1
  <2>. QED BY <2>1, <2>2
<1>6. \A k \in 1..Len(out) : Right(out[k])
  BY <1>4 DEF Collecting
\* An element of all is new, or a later one of work.
<1>7. ASSUME NEW i \in 1..Len(all)
      PROVE  \/ i \in 1..Len(new) /\ all[i] = new[i]
             \/ /\ i > Len(new) /\ i - Len(new) + 1 \in 1..Len(work) /\ 1 < i - Len(new) + 1
                /\ all[i] = work[i - Len(new) + 1]
  <2>1. i \in 1..Len(new) \/ i > Len(new)
    BY <1>2
  <2>. QED BY <1>2, <2>1
<1>8. ASSUME NEW i \in 1..Len(all), NEW q \in DOMAIN job.disk, Ahead(job.disk, all[i], q)
      PROVE  Within(job.disk, q)
  BY <1>2, <1>7, <1>8 DEF Collecting
<1>9. ASSUME NEW q \in DOMAIN job.disk, Within(d, q), Sure(q)
      PROVE  Listed(out, q) \/ \E i \in 1..Len(all) : Ahead(d, all[i], q)
  <2>1. CASE Listed(list, q)
    BY <1>5, <2>1 DEF Listed
  <2>2. ASSUME NEW j \in 1..Len(work), Ahead(d, work[j], q), j # 1
        PROVE  \E i \in 1..Len(all) : Ahead(d, all[i], q)
    BY <1>2, <2>2
  <2>3. CASE Ahead(d, work[1], q)
    <3>1. Listed(entry, q) => Listed(out, q)
      BY <1>5 DEF Listed
    <3>. QED BY <1>2, <1>9, <2>3, <3>1
  <2>. QED BY <1>9, <2>1, <2>2, <2>3 DEF Collecting
<1>10. ASSUME Len(job.operands) = 1
       PROVE  /\ FilesOrdered(out)
              /\ \A i, j \in 1..Len(all) : i < j => LeftOf(Root(all[i]), Root(all[j]))
              /\ \A k \in 1..Len(out), i \in 1..Len(all) : LeftOf(ResolvePath(out[k]), Root(all[i]))
  <2>1. /\ \A k, m \in 1..Len(list) : k < m => LeftOf(ResolvePath(list[k]), ResolvePath(list[m]))
        /\ \A i, j \in 1..Len(work) : i < j => LeftOf(Root(work[i]), Root(work[j]))
        /\ \A k \in 1..Len(list), i \in 1..Len(work) : LeftOf(ResolvePath(list[k]), Root(work[i]))
    BY <1>10 DEF Collecting, FilesOrdered
  <2>2. ASSUME NEW k \in 1..Len(out), NEW m \in 1..Len(out), k < m
        PROVE  LeftOf(ResolvePath(out[k]), ResolvePath(out[m]))
    <3>1. k \in 1..Len(list) /\ out[k] = list[k]
      BY <1>3, <1>4, <2>2
    <3>. QED BY <1>2, <1>4, <2>1, <2>2, <3>1
  <2>3. ASSUME NEW r \in Seq(Nat), LeftOf(r, Root(work[1])), NEW i \in 1..Len(new)
        PROVE  LeftOf(r, Root(new[i]))
    <3>1. Root(work[1]) \in Seq(Nat) /\ Root(new[i]) \in Seq(Nat)
      BY <1>1, <1>2, ElementOfSeq, ItemIs
    <3>. QED BY <2>3, <3>1, LeftIs
  <2>4. ASSUME NEW r \in Seq(Nat), LeftOf(Root(work[1]), r), NEW i \in 1..Len(new)
        PROVE  LeftOf(Root(new[i]), r)
    <3>1. Root(work[1]) \in Seq(Nat) /\ Root(new[i]) \in Seq(Nat)
      BY <1>1, <1>2, ElementOfSeq, ItemIs
    <3>. QED BY <2>4, <3>1, LeftIs
  <2>5. \A i \in 1..Len(work) : Root(work[i]) \in Seq(Nat)
    BY <1>1, ElementOfSeq, ItemIs
  <2>6. \A k \in 1..Len(list) : ResolvePath(list[k]) \in Seq(Nat)
    BY <1>1, ElementOfSeq, PathIs
  <2>7. ASSUME NEW i \in 1..Len(all), NEW j \in 1..Len(all), i < j
        PROVE  LeftOf(Root(all[i]), Root(all[j]))
    <3>1. CASE i \in 1..Len(new) /\ j \in 1..Len(new)
      BY <1>2, <2>7, <3>1
    <3>2. CASE i \in 1..Len(new) /\ j > Len(new)
      <4>. DEFINE b == j - Len(new) + 1
      <4>1. b \in 1..Len(work) /\ 1 < b /\ all[j] = work[b]
        BY <1>2, <3>2
      <4>. HIDE DEF b
      <4>2. LeftOf(Root(work[1]), Root(work[b])) /\ Root(work[b]) \in Seq(Nat)
        BY <1>2, <2>1, <2>5, <4>1
      <4>3. all[i] = new[i]
        BY <1>2, <3>2
      <4>. QED BY <2>4, <3>2, <4>1, <4>2, <4>3
    <3>3. CASE i > Len(new) /\ j > Len(new)
      <4>. DEFINE a == i - Len(new) + 1
                  b == j - Len(new) + 1
      <4>1. /\ a \in 1..Len(work) /\ all[i] = work[a]
            /\ b \in 1..Len(work) /\ all[j] = work[b]
        BY <1>2, <3>3
      <4>2. a < b
        BY <1>2, <2>7
      <4>. HIDE DEF a, b
      <4>. QED BY <2>1, <4>1, <4>2
    <3>4. i \in 1..Len(new) \/ i > Len(new)
      BY <1>2
    <3>5. j \in 1..Len(new) \/ j > Len(new)
      BY <1>2
    <3>6. ~(i > Len(new) /\ j \in 1..Len(new))
      BY <1>2, <2>7
    <3>. QED BY <3>1, <3>2, <3>3, <3>4, <3>5, <3>6
  <2>8. ASSUME NEW k \in 1..Len(out), NEW i \in 1..Len(all)
        PROVE  LeftOf(ResolvePath(out[k]), Root(all[i]))
    <3>1. CASE k \in 1..Len(list) /\ out[k] = list[k] /\ i \in 1..Len(new)
      BY <1>2, <2>1, <2>3, <2>6, <3>1
    <3>2. CASE i > Len(new)
      <4>. DEFINE b == i - Len(new) + 1
      <4>1. b \in 1..Len(work) /\ 1 < b /\ all[i] = work[b]
        BY <1>2, <3>2
      <4>. HIDE DEF b
      <4>2. LeftOf(Root(work[1]), Root(work[b]))
        BY <1>2, <2>1, <4>1
      <4>. QED BY <1>4, <2>1, <4>1, <4>2
    <3>3. i \in 1..Len(new) \/ i > Len(new)
      BY <1>2
    <3>4. Len(new) = 0 => i > Len(new)
      BY <1>2
    <3>. QED BY <1>4, <3>1, <3>2, <3>3, <3>4
  <2>. QED BY <2>2, <2>7, <2>8 DEF FilesOrdered
<1>. QED BY <1>2, <1>3, <1>6, <1>8, <1>9, <1>10 DEF Collecting, all, out

\* The tree at the start is one, and what is left of it.
Grounds == job \in Jobs /\ DiskKept /\ Tree(disk)

LEMMA TreesAre ==
    ASSUME Grounds
    PROVE  /\ Tree(job.disk) /\ IsFiniteSet(DOMAIN disk) /\ DOMAIN disk \subseteq Seq(Nat)
           /\ \A q \in DOMAIN disk : q \in DOMAIN job.disk /\ disk[q] = job.disk[q]
<1>1. Tree(job.disk) /\ IsFiniteSet(DOMAIN job.disk)
  BY GrepAssumption DEF Tree, Grounds
<1>. QED BY <1>1, FS_Subset DEF Grounds, DiskKept, Tree

LEMMA FirstOfWork ==
    ASSUME Grounds, Collecting(disk, todo, entries), todo # <<>>
    PROVE  /\ Head(todo) = todo[1] /\ todo[1] \in Item
           /\ Root(todo[1]) \in Seq(Nat) /\ Depth(todo[1]) \in Nat
<1>1. todo \in Seq(Item)
  BY DEF Collecting
<1>2. Head(todo) = todo[1] /\ todo[1] \in Item
  BY <1>1, HeadTailProperties, LenProperties, ElementOfSeq, EmptySeq
<1>. QED BY <1>2, ItemIs DEF Grounds

\* The first of the work leads to nothing.
LEMMA NothingThere ==
    ASSUME Grounds, Collecting(disk, todo, entries), todo # <<>>,
           \A q \in DOMAIN job.disk : Sure(q) => ~Ahead(disk, todo[1], q)
    PROVE  Collecting(disk, Tail(todo), entries \o <<>>)
<1>. DEFINE none == <<>>
<1>1. none \in Seq(Item) /\ none \in Seq(Path) /\ Len(none) = 0
  OBVIOUS
<1>2. Tail(todo) \in Seq(Item)
  BY HeadTailProperties DEF Collecting
<1>3. none \o Tail(todo) = Tail(todo)
  BY <1>2, ConcatEmptySeq
<1>. HIDE DEF none
<1>4. 1..Len(none) = {} /\ Len(none) <= 1
  BY <1>1
<1>5. Collecting(disk, none \o Tail(todo), entries \o none)
  BY <1>1, <1>4, CollectingKept DEF Grounds
<1>. QED BY <1>3, <1>5 DEF none

\* The first of the work is an entry.
LEMMA EntryThere ==
    ASSUME Grounds, Collecting(disk, todo, entries), todo # <<>>, NEW p \in Path,
           Right(p), ResolvePath(p) = Root(todo[1]),
           \A q \in DOMAIN job.disk : Ahead(disk, todo[1], q) => q = ResolvePath(p)
    PROVE  Collecting(disk, Tail(todo), entries \o <<p>>)
<1>. DEFINE none == <<>>
            one == <<p>>
<1>1. none \in Seq(Item) /\ Len(none) = 0 /\ one \in Seq(Path) /\ Len(one) = 1 /\ one[1] = p
  OBVIOUS
<1>2. Tail(todo) \in Seq(Item)
  BY HeadTailProperties DEF Collecting
<1>3. none \o Tail(todo) = Tail(todo)
  BY <1>2, ConcatEmptySeq
<1>. HIDE DEF none, one
<1>4. 1..Len(none) = {} /\ Len(one) <= 1 /\ 1 \in 1..Len(one) /\ \A k \in 1..Len(one) : k = 1
  BY <1>1
<1>5. \A q \in DOMAIN job.disk : Ahead(disk, todo[1], q) => Listed(one, q)
  BY <1>1, <1>4 DEF Listed
<1>6. \A k \in 1..Len(one) : Right(one[k]) /\ ResolvePath(one[k]) = Root(todo[1])
  BY <1>1, <1>4
<1>7. Collecting(disk, none \o Tail(todo), entries \o one)
  BY <1>1, <1>4, <1>5, <1>6, CollectingKept DEF Grounds
<1>. QED BY <1>3, <1>7 DEF none, one

\* What a child on the list is.
LEMMA ChildItem ==
    ASSUME NEW p \in Path, NEW n \in Nat, NEW depth \in Nat, NEW t,
           t = [what |-> "walk", arg |-> ChildPath(p, n), depth |-> depth]
    PROVE  /\ t \in Item /\ Root(t) = Append(ResolvePath(p), n) /\ Depth(t) = depth
           /\ \A d, q : Ahead(d, t, q) <=> WantedAt(d, Append(ResolvePath(p), n), depth, q)
<1>1. /\ ChildPath(p, n) \in Path /\ ChildPath(p, n) # Stdin
      /\ ResolvePath(ChildPath(p, n)) = Append(ResolvePath(p), n)
  BY ChildPathIs
<1>2. t.what = "walk" /\ t.arg = ChildPath(p, n) /\ t.depth = depth
  OBVIOUS
<1>3. t \in Item
  BY <1>1 DEF Item
<1>4. Root(t) = Append(ResolvePath(p), n) /\ Depth(t) = depth
  BY <1>1, <1>2 DEF Root, Depth
<1>. QED BY <1>2, <1>3, <1>4 DEF Ahead

LEMMA ChildrenThere ==
    ASSUME Grounds, Collecting(disk, todo, entries), todo # <<>>, todo[1].what = "walk",
           NEW p, p = todo[1].arg, Exists(p), IsDir(p), Base(p) \notin o.excludeDir,
           NEW shown \in Sortings(ReadDir(p) \ {Hidden})
    PROVE  Collecting(disk, [i \in DOMAIN shown |->
                               [what |-> "walk", arg |-> ChildPath(p, shown[i]),
                                depth |-> todo[1].depth + 1]] \o Tail(todo), entries \o <<>>)
<1>. DEFINE t == todo[1]
            r == ResolvePath(p)
            S == ReadDir(p) \ {Hidden}
            new == [i \in DOMAIN shown |-> [what |-> "walk", arg |-> ChildPath(p, shown[i]),
                                            depth |-> t.depth + 1]]
            none == <<>>
<1>1. t \in Item /\ Root(t) \in Seq(Nat) /\ Depth(t) \in Nat
  BY FirstOfWork
<1>2. p \in Path /\ Root(t) = r /\ Depth(t) = t.depth /\ t.depth \in Nat /\ r \in Seq(Nat)
  BY <1>1, ItemIs DEF Root, Depth, Grounds
<1>3. Base(r) \notin o.excludeDir
  BY <1>2, PathIs
<1>4. S \in SUBSET Nat /\ IsFiniteSet(S) /\ \A n \in Nat \ {Hidden} : Append(r, n) \in DOMAIN disk => n \in S
  <2>1. IsFiniteSet(ReadDir(p))
    BY <1>2, TreesAre, ReadDirIs
  <2>2. IsFiniteSet(S)
    BY <2>1, FS_Subset
  <2>. QED BY <1>2, <2>2, TreesAre, ReadDirIs
<1>. HIDE DEF S
<1>5. /\ Len(shown) \in Nat /\ DOMAIN shown = 1..Len(shown)
      /\ \A i \in 1..Len(shown) : shown[i] \in S
      /\ \A n \in S : \E i \in 1..Len(shown) : shown[i] = n
      /\ \A i, k \in 1..Len(shown) : i < k => shown[i] < shown[k]
  <2>1. shown \in Sortings(S)
    BY DEF S
  <2>. QED BY <1>4, <2>1, SortingIs
<1>6. ASSUME NEW i \in 1..Len(shown)
      PROVE  /\ shown[i] \in Nat /\ shown[i] # Hidden
             /\ new[i] \in Item /\ Root(new[i]) = Append(r, shown[i]) /\ Depth(new[i]) = t.depth + 1
             /\ \A d, q : Ahead(d, new[i], q) <=> WantedAt(d, Append(r, shown[i]), t.depth + 1, q)
  <2>1. shown[i] \in Nat /\ shown[i] # Hidden
    BY <1>4, <1>5 DEF S
  <2>2. new[i] = [what |-> "walk", arg |-> ChildPath(p, shown[i]), depth |-> t.depth + 1]
    BY <1>5
  <2>. HIDE DEF new
  <2>3. t.depth + 1 \in Nat
    BY <1>2
  <2>. QED BY <1>2, <2>1, <2>2, <2>3, ChildItem, SMTT(30)
<1>7. new \in Seq(Item) /\ Len(new) = Len(shown)
  <2>1. new = [i \in 1..Len(shown) |-> new[i]]
    BY <1>5
  <2>. HIDE DEF new
  <2>2. new \in [1..Len(shown) -> Item]
    BY <1>6, <2>1
  <2>. QED BY <1>5, <2>2, SeqDef
<1>. HIDE DEF new
<1>8. \A i \in 1..Len(new) : Leads(Root(t), Root(new[i]))
  <2>. SUFFICES ASSUME NEW i \in 1..Len(shown) PROVE Leads(r, Append(r, shown[i]))
    BY <1>2, <1>6, <1>7
  <2>1. shown[i] \in Nat
    BY <1>6
  <2>. QED BY <1>2, <2>1, ChildIs DEF Leads
<1>9. ASSUME NEW i \in 1..Len(new), NEW j \in 1..Len(new), i < j
      PROVE  LeftOf(Root(new[i]), Root(new[j]))
  <2>1. i \in 1..Len(shown) /\ j \in 1..Len(shown)
    BY <1>7
  <2>2. shown[i] \in Nat /\ shown[j] \in Nat /\ shown[i] < shown[j]
    BY <1>5, <1>6, <1>9, <2>1
  <2>3. LeftOf(Append(r, shown[i]), Append(r, shown[j]))
    BY <1>2, <2>2, SiblingsLeft
  <2>. QED BY <1>6, <2>1, <2>3
<1>10. \A d, q : Ahead(d, t, q) <=> WantedAt(d, r, t.depth, q)
  BY <1>2 DEF Ahead
<1>11. ASSUME NEW i \in 1..Len(new), NEW q \in DOMAIN job.disk, Ahead(job.disk, new[i], q)
       PROVE  Ahead(job.disk, t, q)
  <2>1. /\ shown[i] \in Nat /\ shown[i] # Hidden
        /\ WantedAt(job.disk, Append(r, shown[i]), t.depth + 1, q)
    BY <1>6, <1>7, <1>11
  <2>2. Tree(job.disk)
    BY TreesAre
  <2>. HIDE DEF r, t
  <2>3. WantedAt(job.disk, r, t.depth, q)
    BY <1>2, <1>3, <2>1, <2>2, WantedUp
  <2>. QED BY <1>10, <2>3
<1>12. ASSUME NEW q \in DOMAIN job.disk, Ahead(disk, t, q)
       PROVE  \E i \in 1..Len(new) : Ahead(disk, new[i], q)
  <2>1. WantedAt(disk, r, t.depth, q)
    BY <1>10, <1>12
  <2>2. Tree(disk) /\ (r \in DOMAIN disk => disk[r].dir)
    BY DEF Grounds, IsDir
  <2>. HIDE DEF r, t
  <2>3. PICK n \in Nat \ {Hidden} : Append(r, n) \in DOMAIN disk /\ WantedAt(disk, Append(r, n), t.depth + 1, q)
    BY <1>2, <2>1, <2>2, WantedDown
  <2>4. n \in S
    BY <1>4, <2>3
  <2>5. PICK i \in 1..Len(shown) : shown[i] = n
    BY <1>5, <2>4
  <2>. QED BY <1>6, <1>7, <2>3, <2>5
<1>13. none \in Seq(Path) /\ Len(none) = 0
  OBVIOUS
<1>. HIDE DEF none, t
<1>14. 1..Len(none) = {} /\ Len(none) <= 1
  BY <1>13
<1>15. Collecting(disk, new \o Tail(todo), entries \o none)
  BY <1>7, <1>8, <1>9, <1>11, <1>12, <1>13, <1>14, CollectingKept DEF Grounds, t
<1>. QED BY <1>15 DEF new, none, t

\* A step of the collection, whatever it found.
LEMMA CollectedKeeps ==
    ASSUME Grounds, EntriesIInv, pc = "collect", status = "running",
           NEW t, NEW entry, NEW more, Collected(t, entry, more),
           Plain => Collecting(disk, more, entries \o entry)
    PROVE  EntriesIInv'
<1>1. UNCHANGED <<job, disk>>
  BY DEF Collected, world
<1>2. Tree(disk')
  BY <1>1 DEF Grounds
<1>3. CASE InBudget(t)
  <2>1. pc' = "collect" /\ todo' = more /\ entries' = entries \o entry
    BY <1>3 DEF Collected
  <2>2. Plain => Collecting(disk', todo', entries')
    BY <1>1, <2>1
  <2>. HIDE <2>1
  <2>. QED BY <1>1, <1>2, <2>1, <2>2, JobOnly DEF EntriesIInv
<1>4. CASE ~InBudget(t)
  <2>1. pc' = "done" /\ trav' = t
    BY <1>4 DEF Collected, Ends
  <2>2. ~InBudget(trav')
    BY <1>4, <2>1
  <2>3. ~InBudget(trav)'
    BY <2>2 DEF InBudget
  <2>. QED BY <1>2, <2>1, <2>3 DEF EntriesIInv
<1>. QED BY <1>3, <1>4

LEMMA FoundTakeOperand ==
    ASSUME Grounds, EntriesIInv, status = "running", TakeOperand
    PROVE  EntriesIInv'
<1>. DEFINE t == Head(todo)
            op == t.arg
<1>0. PICK unseen \in SUBSET job.faulty :
        LET names == ExpandGlob(op, unseen) IN
        IF ~On("recursive") \/ (op.path = Stdin /\ op.glob = "no")
          THEN \E c : Collected(c, names, Tail(todo))
          ELSE \E c : Collected(c, <<>>, [i \in DOMAIN names |->
                          [what |-> "walk", arg |-> names[i], depth |-> 0]] \o Tail(todo))
  BY DEF TakeOperand
<1>. DEFINE names == ExpandGlob(op, unseen)
            walks == [i \in DOMAIN names |-> [what |-> "walk", arg |-> names[i], depth |-> 0]]
<1>1. pc = "collect" /\ todo # <<>> /\ t.what = "operand"
  BY DEF TakeOperand
<1>2. ASSUME Plain
      PROVE  /\ Collecting(disk, todo, entries) /\ t = todo[1] /\ op \in ToSet(job.operands)
             /\ op.path \in Path /\ op.glob = "no" /\ names = <<op.path>>
             /\ Root(t) = ResolvePath(op.path) /\ Depth(t) = 0
             /\ \A d, q : Ahead(d, t, q) <=> op.path # Stdin /\ WantedAt(d, ResolvePath(op.path), 0, q)
  <2>1. Collecting(disk, todo, entries)
    BY <1>1, <1>2 DEF EntriesIInv
  <2>2. t = todo[1] /\ t \in Item
    BY <1>1, <2>1, FirstOfWork
  <2>. HIDE DEF t
  <2>3. op \in ToSet(job.operands) /\ op.path \in Path
    BY <1>1, <2>2, ItemIs DEF Grounds
  <2>4. op.glob = "no"
    BY <1>2, <2>3 DEF Plain
  <2>5. names = <<op.path>>
    BY <2>4 DEF ExpandGlob
  <2>6. Root(t) = ResolvePath(op.path) /\ Depth(t) = 0
    BY <1>1 DEF Root, Depth
  <2>. QED BY <1>1, <2>1, <2>2, <2>3, <2>4, <2>5, <2>6 DEF Ahead
<1>3. CASE ~On("recursive") \/ (op.path = Stdin /\ op.glob = "no")
  <2>1. PICK c : Collected(c, names, Tail(todo))
    BY <1>0, <1>3
  <2>2. ASSUME Plain PROVE Collecting(disk, Tail(todo), entries \o names)
    <3>1. op.path = Stdin
      BY <1>3, <2>2 DEF Plain
    <3>2. Right(op.path)
      BY <1>2, <2>2, <3>1 DEF Right
    <3>. HIDE DEF t
    <3>3. Collecting(disk, Tail(todo), entries \o <<op.path>>)
      BY <1>1, <1>2, <2>2, <3>1, <3>2, EntryThere
    <3>. QED BY <1>2, <2>2, <3>3
  <2>. QED BY <1>1, <2>1, <2>2, CollectedKeeps
<1>4. CASE ~(~On("recursive") \/ (op.path = Stdin /\ op.glob = "no"))
  <2>1. PICK c : Collected(c, <<>>, walks \o Tail(todo))
    BY <1>0, <1>4
  <2>2. ASSUME Plain PROVE Collecting(disk, walks \o Tail(todo), entries \o <<>>)
    <3>. DEFINE w == [what |-> "walk", arg |-> op.path, depth |-> 0]
                none == <<>>
    <3>1. op.path # Stdin
      BY <1>2, <1>4, <2>2
    <3>2. walks = <<w>>
      BY <1>2, <2>2
    <3>3. w \in Item /\ w.what = "walk" /\ Root(w) = ResolvePath(op.path) /\ Depth(w) = 0
      BY <1>2, <2>2, <3>1 DEF Item, Root, Depth
    <3>. HIDE DEF w, t
    <3>4. \A d, q : Ahead(d, w, q) <=> Ahead(d, t, q)
      BY <1>2, <2>2, <3>1, <3>3 DEF Ahead
    <3>. DEFINE new == <<w>>
    <3>5. new \in Seq(Item) /\ Len(new) = 1 /\ new[1] = w
      BY <3>3
    <3>. HIDE DEF new
    <3>6. 1 \in 1..Len(new) /\ \A i \in 1..Len(new) : i = 1
      BY <3>5
    <3>7. none \in Seq(Path) /\ Len(none) = 0
      OBVIOUS
    <3>. HIDE DEF none
    <3>8. 1..Len(none) = {} /\ Len(none) <= 1
      BY <3>7
    <3>9. Leads(Root(t), Root(w))
      BY <1>1, <1>2, <2>2, <3>3, PathIs, LenProperties DEF Leads
    <3>10. \A i, j \in 1..Len(new) : ~(i < j)
      BY <3>6
    <3>11. todo[1] = t
      BY <1>2, <2>2
    <3>12. \A i \in 1..Len(new) : new[i] = w
      BY <3>5, <3>6
    <3>13. Collecting(disk, new \o Tail(todo), entries \o none)
      BY <1>1, <1>2, <2>2, <3>4, <3>5, <3>6, <3>7, <3>8, <3>9, <3>10, <3>11, <3>12, CollectingKept DEF Grounds
    <3>. QED BY <3>2, <3>13 DEF new, none
  <2>. QED BY <1>1, <2>1, <2>2, CollectedKeeps
<1>. QED BY <1>3, <1>4

LEMMA FoundWalkFiles ==
    ASSUME Grounds, EntriesIInv, status = "running", WalkFiles
    PROVE  EntriesIInv'
<1>. DEFINE t == Head(todo)
            p == t.arg
            r == ResolvePath(p)
            all == ReadDir(p)
<1>1. pc = "collect" /\ todo # <<>> /\ t.what = "walk"
  BY DEF WalkFiles
<1>2. ASSUME Plain
      PROVE  /\ Collecting(disk, todo, entries) /\ t = todo[1] /\ p \in Path /\ p # Stdin
             /\ r \in Seq(Nat) /\ Base(r) = Base(p) /\ Root(t) = r /\ Depth(t) = t.depth /\ t.depth \in Nat
             /\ \A d, q : Ahead(d, t, q) <=> WantedAt(d, r, t.depth, q)
  <2>1. Collecting(disk, todo, entries)
    BY <1>1, <1>2 DEF EntriesIInv
  <2>2. t = todo[1] /\ t \in Item
    BY <1>1, <2>1, FirstOfWork
  <2>. HIDE DEF t
  <2>3. p \in Path /\ p # Stdin /\ Depth(t) \in Nat
    BY <1>1, <2>2, ItemIs DEF Grounds
  <2>4. Root(t) = r /\ Depth(t) = t.depth
    BY <1>1 DEF Root, Depth
  <2>. QED BY <1>1, <2>1, <2>2, <2>3, <2>4, PathIs DEF Ahead
<1>3. Tree(disk) /\ Tree(job.disk) /\ \A q \in DOMAIN disk : q \in DOMAIN job.disk /\ disk[q] = job.disk[q]
  BY TreesAre DEF Grounds
<1>4. ASSUME NEW c, Collected(c, <<>>, Tail(todo)),
             Plain => \A q \in DOMAIN job.disk : Sure(q) => ~WantedAt(disk, r, t.depth, q)
      PROVE  EntriesIInv'
  <2>1. Plain => Collecting(disk, Tail(todo), entries \o <<>>)
    <3>. HIDE DEF t
    <3>. QED BY <1>1, <1>2, <1>4, NothingThere
  <2>. QED BY <1>1, <1>4, <2>1, CollectedKeeps
<1>. DEFINE there == t.depth < MaxDepth /\ Exists(p)
            more(shown) == [i \in DOMAIN shown |->
                              [what |-> "walk", arg |-> ChildPath(p, shown[i]),
                               depth |-> t.depth + 1]] \o Tail(todo)
            none == /\ t.depth >= MaxDepth \/ ~Exists(p) \/ MayFail(p)
                    /\ Collected(Charge(1, 0), <<>>, Tail(todo))
            failed == /\ there /\ MayFail(p) /\ IsDir(p) /\ Base(p) \notin o.excludeDir
                      /\ Collected(Charge(2, 0), <<>>, Tail(todo))
            file == /\ there /\ ~IsDir(p) /\ AcceptFile(p)
                    /\ Collected(Charge(1, 1), <<p>>, Tail(todo))
            other == /\ there /\ ~IsDir(p) /\ ~AcceptFile(p)
                     /\ Collected(Charge(1, 0), <<>>, Tail(todo))
            excluded == /\ there /\ IsDir(p) /\ Base(p) \in o.excludeDir
                        /\ Collected(Charge(1, 0), <<>>, Tail(todo))
            dir == /\ there /\ IsDir(p) /\ Base(p) \notin o.excludeDir
                   /\ \E shown \in Sortings(all \ {Hidden}) :
                        Collected(Charge(2 + Cardinality(all), 0), <<>>, more(shown))
<1>10. none \/ failed \/ file \/ other \/ excluded \/ dir
  BY Zenon DEF WalkFiles
\* Nothing below a path whose calls may fail is sure to be found.
<1>11. ASSUME Plain, MayFail(p), NEW q \in DOMAIN job.disk, Sure(q), WantedAt(disk, r, t.depth, q)
       PROVE  FALSE
  <2>1. r \in Seq(Nat) /\ q \in Seq(Nat) /\ Leads(r, q)
    BY <1>2, <1>3, <1>11 DEF WantedAt, Tree
  <2>2. SubSeq(q, 1, Len(r)) = r /\ Len(r) \in 0..Len(q)
    BY <2>1, LeadsIs, LenProperties DEF Leads
  <2>. QED BY <1>11, <2>2 DEF Sure, MayFail
<1>12. CASE failed
  <2>1. PICK c : Collected(c, <<>>, Tail(todo))
    BY <1>12
  <2>. QED BY <1>4, <1>11, <1>12, <2>1
<1>5. CASE none
  <2>1. PICK c : Collected(c, <<>>, Tail(todo))
    BY <1>5
  <2>2. ASSUME Plain, NEW q \in DOMAIN job.disk, Sure(q), WantedAt(disk, r, t.depth, q) PROVE FALSE
    <3>1. t.depth < MaxDepth /\ (~(r \in DOMAIN disk) => r \in DOMAIN disk)
      BY <1>2, <1>3, <2>2, WantedFile
    <3>2. t.depth \in Nat /\ MaxDepth \in Nat
      BY <1>2, <2>2, GrepAssumption
    <3>. QED BY <1>5, <1>11, <2>2, <3>1, <3>2 DEF Exists
  <2>. QED BY <1>4, <2>1, <2>2
<1>6. CASE file
  <2>1. PICK c : Collected(c, <<p>>, Tail(todo))
    BY <1>6
  <2>2. ASSUME Plain PROVE Collecting(disk, Tail(todo), entries \o <<p>>)
    <3>1. r \in DOMAIN disk /\ ~disk[r].dir /\ r \in DOMAIN job.disk /\ ~job.disk[r].dir /\ AcceptFile(r)
      BY <1>2, <1>3, <1>6, <2>2 DEF Exists, IsDir, AcceptFile
    <3>2. WantedAt(job.disk, r, t.depth, r)
      BY <1>2, <1>3, <1>6, <2>2, <3>1, WantedFile
    <3>3. Within(job.disk, r)
      <4>1. Ahead(job.disk, todo[1], r)
        BY <1>2, <2>2, <3>2
      <4>2. 1 \in 1..Len(todo)
        BY <1>1, <1>2, <2>2, LenProperties, EmptySeq DEF Collecting
      <4>. QED BY <1>2, <2>2, <3>1, <4>1, <4>2 DEF Collecting
    <3>4. Right(p)
      BY <1>2, <2>2, <3>3 DEF Right
    <3>5. \A q : WantedAt(disk, r, t.depth, q) => q = r
      BY <1>2, <1>3, <2>2, <3>1, WantedFile
    <3>. HIDE DEF t
    <3>. QED BY <1>1, <1>2, <2>2, <3>4, <3>5, EntryThere
  <2>. QED BY <1>1, <2>1, <2>2, CollectedKeeps
<1>7. CASE other
  <2>1. PICK c : Collected(c, <<>>, Tail(todo))
    BY <1>7
  <2>2. ASSUME Plain, NEW q \in DOMAIN job.disk, WantedAt(disk, r, t.depth, q) PROVE FALSE
    <3>1. AcceptFile(r)
      BY <1>2, <1>3, <1>7, <2>2, WantedFile DEF IsDir
    <3>. QED BY <1>2, <1>7, <2>2, <3>1 DEF AcceptFile
  <2>. QED BY <1>4, <2>1, <2>2
<1>8. CASE excluded
  <2>1. PICK c : Collected(c, <<>>, Tail(todo))
    BY <1>8
  <2>2. ASSUME Plain, NEW q \in DOMAIN job.disk, WantedAt(disk, r, t.depth, q) PROVE FALSE
    <3>1. disk[r].dir
      BY <1>8 DEF IsDir
    <3>2. Base(r) \notin o.excludeDir
      BY <1>2, <1>3, <2>2, <3>1, WantedDown
    <3>. QED BY <1>2, <1>8, <2>2, <3>2
  <2>. QED BY <1>4, <2>1, <2>2
<1>9. CASE dir
  <2>1. PICK shown \in Sortings(all \ {Hidden}) :
           Collected(Charge(2 + Cardinality(all), 0), <<>>, more(shown))
    BY <1>9, Zenon
  <2>2. ASSUME Plain PROVE Collecting(disk, more(shown), entries \o <<>>)
    <3>1. t = todo[1] /\ Collecting(disk, todo, entries)
      BY <1>2, <2>2
    <3>. HIDE DEF t
    <3>. QED BY <1>1, <1>9, <3>1, ChildrenThere
  <2>. HIDE DEF more
  <2>. QED BY <1>1, <2>1, <2>2, CollectedKeeps
<1>. HIDE DEF none, failed, file, other, excluded, dir
<1>. QED BY <1>5, <1>6, <1>7, <1>8, <1>9, <1>10, <1>12

LEMMA FoundSetup ==
    ASSUME Grounds, EntriesIInv, Setup
    PROVE  EntriesIInv'
<1>1. pc = "start" /\ UNCHANGED <<job, disk, entries>>
  BY DEF Setup, world
<1>2. Tree(disk')
  BY <1>1 DEF Grounds
<1>3. (Plain' <=> Plain) /\ (Refused' <=> Refused)
  BY <1>1, JobOnly
<1>4. CASE Refused
  <2>1. pc' = "done"
    BY <1>4 DEF Setup, Refused, Ends
  <2>. QED BY <1>2, <1>3, <1>4, <2>1 DEF EntriesIInv
<1>5. CASE ~Plain
  BY <1>2, <1>3, <1>5 DEF EntriesIInv
<1>6. CASE ~Refused /\ Plain /\ Implicit
  <2>1. pc' = "search" /\ entries' = <<>>
    BY <1>1, <1>6 DEF Setup, Refused, EntriesIInv
  <2>2. \A d, q : ~Within(d, q)
    BY <1>6 DEF Within, ToSet, Implicit
  <2>3. Len(<<>>) = 0 /\ <<>> \in Seq(Path) /\ 1..0 = {}
    OBVIOUS
  <2>4. Found(disk', entries')
    BY <2>1, <2>2, <2>3 DEF Found, FilesOrdered
  <2>. QED BY <1>1, <1>2, <2>1, <2>4, JobOnly DEF EntriesIInv
<1>7. CASE ~Refused /\ Plain /\ ~Implicit
  <2>. DEFINE ops == job.operands
              work == [i \in DOMAIN ops |-> [what |-> "operand", arg |-> ops[i]]]
              none == <<>>
  <2>1. pc' = "collect" /\ todo' = work /\ entries' = none
    BY <1>1, <1>7 DEF Setup, Refused, EntriesIInv
  <2>2. Len(ops) \in Nat /\ DOMAIN ops = 1..Len(ops)
    BY GrepAssumption, LenProperties DEF Grounds
  <2>3. ASSUME NEW i \in 1..Len(ops)
        PROVE  /\ work[i] \in Item /\ ops[i] \in ToSet(ops)
               /\ \A d, q : Ahead(d, work[i], q)
                              <=> ops[i].path # Stdin /\ WantedAt(d, ResolvePath(ops[i].path), 0, q)
    <3>1. ops[i] \in ToSet(ops)
      BY <2>2 DEF ToSet
    <3>2. work[i] = [what |-> "operand", arg |-> ops[i]]
      BY <2>2
    <3>. HIDE DEF work
    <3>3. work[i] \in Item /\ work[i].what = "operand" /\ work[i].arg = ops[i]
      BY <3>1, <3>2 DEF Item
    <3>. QED BY <3>1, <3>3 DEF Ahead, Root, Depth
  <2>4. work \in Seq(Item) /\ Len(work) = Len(ops)
    <3>1. work = [i \in 1..Len(ops) |-> work[i]]
      BY <2>2
    <3>. HIDE DEF work
    <3>2. work \in [1..Len(ops) -> Item]
      BY <2>3, <3>1
    <3>. QED BY <2>2, <3>2, SeqDef
  <2>5. none \in Seq(Path) /\ Len(none) = 0
    OBVIOUS
  <2>. HIDE DEF work, none, ops
  <2>6. 1..Len(none) = {}
    BY <2>5
  <2>7. ASSUME NEW i \in 1..Len(work), NEW q, Ahead(job.disk, work[i], q) PROVE Within(job.disk, q)
    BY <2>3, <2>4, <2>7 DEF Within, ops
  <2>8. ASSUME NEW q, Within(disk', q) PROVE \E i \in 1..Len(work) : Ahead(disk', work[i], q)
    <3>1. PICK op \in ToSet(ops) : op.path # Stdin /\ WantedAt(disk', ResolvePath(op.path), 0, q)
      BY <2>8 DEF Within, ops
    <3>2. PICK i \in 1..Len(ops) : op = ops[i]
      BY <2>2, <3>1 DEF ToSet
    <3>. QED BY <2>3, <2>4, <3>1, <3>2
  <2>9. Len(ops) = 1 => \A i, j \in 1..Len(work) : ~(i < j)
    BY <2>2, <2>4
  <2>10. Collecting(disk', work, none)
    BY <2>4, <2>5, <2>6, <2>7, <2>8, <2>9 DEF Collecting, FilesOrdered, ops
  <2>. QED BY <1>1, <1>2, <2>1, <2>10, JobOnly DEF EntriesIInv
<1>. QED BY <1>4, <1>5, <1>6, <1>7

LEMMA FoundCollectEnd ==
    ASSUME Grounds, EntriesIInv, CollectEnd
    PROVE  EntriesIInv'
<1>1. pc = "collect" /\ todo = <<>> /\ pc' = "next" /\ UNCHANGED <<job, disk, entries>>
  BY DEF CollectEnd, world, walk
<1>2. Tree(disk')
  BY <1>1 DEF Grounds
<1>3. Plain => Found(disk', entries')
  <2>1. Len(<<>>) = 0 /\ 1..0 = {}
    OBVIOUS
  <2>. QED BY <1>1, <2>1 DEF EntriesIInv, Collecting, Found
<1>. QED BY <1>1, <1>2, <1>3, JobOnly DEF EntriesIInv

\* Once the files are collected the list stays.
LEMMA FoundLater ==
    ASSUME Grounds, EntriesIInv, status = "running", pc \notin {"start", "collect"},
           UNCHANGED <<job, disk, entries, trav>>, pc' \notin {"start", "collect"}
    PROVE  EntriesIInv'
<1>1. Tree(disk')
  BY DEF Grounds
<1>2. InBudget(trav)' <=> InBudget(trav)
  BY DEF InBudget
<1>3. Found(disk, entries) => Found(disk', entries')
  OBVIOUS
<1>. QED BY <1>1, <1>2, <1>3, JobOnly DEF EntriesIInv

LEMMA FoundCancelled ==
    ASSUME Grounds, EntriesIInv, Cancelled
    PROVE  EntriesIInv'
<1>1. pc' = "done" /\ status' = "cancelled" /\ Tree(disk')
  BY DEF Cancelled, Ends, world, Grounds
<1>. QED BY <1>1 DEF EntriesIInv

\* A tree that is cut down stays a tree, and nothing new is to be found.
LEMMA Shrunk ==
    ASSUME Tree(disk), NEW d, DOMAIN d \subseteq DOMAIN disk, \A q \in DOMAIN d : d[q] = disk[q]
    PROVE  \A p, n, q : WantedAt(d, p, n, q) <=> q \in DOMAIN d /\ WantedAt(disk, p, n, q)
BY DEF WantedAt

LEMMA ShrunkWork ==
    ASSUME Tree(disk), NEW d, DOMAIN d \subseteq DOMAIN disk, \A q \in DOMAIN d : d[q] = disk[q]
    PROVE  /\ \A q : Within(d, q) => Within(disk, q) /\ q \in DOMAIN d
           /\ \A t, q : q \in DOMAIN d /\ Ahead(disk, t, q) => Ahead(d, t, q)
           /\ Collecting(disk, todo, entries) => Collecting(d, todo, entries)
           /\ Found(disk, entries) => Found(d, entries)
<1>1. \A q : Within(d, q) => Within(disk, q) /\ q \in DOMAIN d
  BY Shrunk DEF Within
<1>2. \A t, q : q \in DOMAIN d /\ Ahead(disk, t, q) => Ahead(d, t, q)
  BY Shrunk DEF Ahead
<1>3. Collecting(disk, todo, entries) => Collecting(d, todo, entries)
  BY <1>1, <1>2 DEF Collecting
<1>4. Found(disk, entries) => Found(d, entries)
  BY <1>1 DEF Found
<1>. QED BY <1>1, <1>2, <1>3, <1>4

LEMMA FoundVanish ==
    ASSUME Grounds, EntriesIInv, status = "running", Vanish
    PROVE  EntriesIInv'
<1>1. UNCHANGED <<job, pc, todo, entries, trav, status>>
  BY DEF Vanish
<1>2. PICK p \in DOMAIN disk : disk' = [q \in {q \in DOMAIN disk : ~IsPrefix(p, q)} |-> disk[q]]
  BY DEF Vanish
<1>3. /\ DOMAIN disk' = {q \in DOMAIN disk : ~IsPrefix(p, q)}
      /\ \A q \in DOMAIN disk' : disk'[q] = disk[q]
  BY <1>2
<1>4. p \in Seq(Nat) /\ Tree(disk)
  BY DEF Grounds, Tree
<1>5. Tree(disk')
  <2>1. ASSUME NEW q \in DOMAIN disk', NEW n \in 0..(Len(q) - 1)
        PROVE  SubSeq(q, 1, n) \in DOMAIN disk' /\ disk'[SubSeq(q, 1, n)].dir
    <3>. DEFINE c == SubSeq(q, 1, n)
    <3>1. q \in DOMAIN disk /\ q \in Seq(Nat) /\ Len(q) \in Nat /\ ~IsPrefix(p, q)
      BY <1>3, <1>4, LenProperties DEF Tree
    <3>2. c \in DOMAIN disk /\ disk[c].dir
      BY <1>4, <3>1 DEF Tree
    <3>3. n \in 0..Len(q) /\ n \in Nat /\ n <= Len(q)
      BY <3>1
    <3>4. c \in Seq(Nat) /\ Len(c) = n /\ \A i \in 1..n : c[i] = q[i]
      BY <3>1, <3>3, CutIs
    <3>. HIDE DEF c
    <3>5. ~Leads(p, c)
      <4>. SUFFICES ASSUME Leads(p, c) PROVE FALSE
        OBVIOUS
      <4>1. Len(p) <= n /\ (\A i \in 1..Len(p) : c[i] = p[i]) /\ Len(p) \in Nat
        BY <1>4, <3>4, LenProperties DEF Leads
      <4>2. Len(p) <= Len(q) /\ \A i \in 1..Len(p) : i \in 1..n
        BY <3>1, <3>3, <4>1
      <4>3. Leads(p, q)
        BY <3>4, <4>1, <4>2 DEF Leads
      <4>. QED BY <1>4, <3>1, <4>3, LeadsIs
    <3>6. ~IsPrefix(p, c)
      BY <1>4, <3>4, <3>5, LeadsIs
    <3>. QED BY <1>3, <3>2, <3>6 DEF c
  <2>2. DOMAIN disk' \subseteq Seq(Nat) /\ \A q \in DOMAIN disk' : disk'[q].dir \in BOOLEAN
    BY <1>3, <1>4 DEF Tree
  <2>. QED BY <2>1, <2>2 DEF Tree
<1>6. /\ Collecting(disk, todo, entries) => Collecting(disk', todo', entries')
      /\ Found(disk, entries) => Found(disk', entries')
  <2>1. DOMAIN disk' \subseteq DOMAIN disk
    BY <1>3
  <2>2. /\ Collecting(disk, todo, entries) => Collecting(disk', todo, entries)
        /\ Found(disk, entries) => Found(disk', entries)
    BY <1>3, <1>4, <2>1, ShrunkWork
  <2>. QED BY <1>1, <2>2
<1>7. InBudget(trav)' <=> InBudget(trav)
  BY <1>1 DEF InBudget
<1>. QED BY <1>1, <1>5, <1>6, <1>7, JobOnly DEF EntriesIInv

LEMMA EntriesFollow ==
    ASSUME Grounds, EntriesIInv
    PROVE  EntriesTruth
<1>. DEFINE roots == {ResolvePath(op.path) : op \in {op \in ToSet(job.operands) : op.path # Stdin}}
            files == [k \in DOMAIN entries |-> ResolvePath(entries[k])]
            within(d) == UNION {Wanted(d, p) : p \in roots}
<1>. SUFFICES ASSUME On("recursive"), pc \notin {"start", "collect"}, ~OverLimit, ~Refused,
                     status # "cancelled", \A op \in ToSet(job.operands) : op.glob = "no"
              PROVE  /\ {q \in within(disk) : Sure(q)} \subseteq {files[k] : k \in DOMAIN files}
                     /\ \A k \in DOMAIN files :
                          \/ entries[k] # Stdin /\ files[k] \in within(job.disk)
                          \/ entries[k] = Stdin /\ \E op \in ToSet(job.operands) : op.path = Stdin
                     /\ Len(job.operands) = 1 =>
                          \A k \in 2..Len(files) : Before(files[k - 1], files[k])
  BY Zenon DEF EntriesTruth
<1>1. Found(disk, entries)
  BY DEF EntriesIInv, Plain, OverLimit
<1>2. /\ Len(entries) \in Nat /\ DOMAIN entries = 1..Len(entries)
      /\ DOMAIN files = 1..Len(entries) /\ Len(files) = Len(entries)
      /\ \A k \in 1..Len(entries) : files[k] = ResolvePath(entries[k]) /\ files[k] \in Seq(Nat)
  <2>1. entries \in Seq(Path)
    BY <1>1 DEF Found
  <2>2. Len(entries) \in Nat /\ DOMAIN entries = 1..Len(entries)
    BY <2>1, LenProperties
  <2>3. \A k \in 1..Len(entries) : ResolvePath(entries[k]) \in Seq(Nat)
    BY <2>1, ElementOfSeq, PathIs
  <2>. QED BY <2>2, <2>3
<1>. HIDE DEF files
<1>3. Tree(disk) /\ Tree(job.disk) /\ DOMAIN disk \subseteq DOMAIN job.disk
  BY TreesAre DEF Grounds
<1>4. \A op \in ToSet(job.operands) : op.path \in Path
  <2>. SUFFICES ASSUME NEW op \in ToSet(job.operands) PROVE op.path \in Path
    OBVIOUS
  <2>. DEFINE t == [what |-> "operand", arg |-> op]
  <2>1. t \in Item /\ t.what = "operand" /\ t.arg = op
    BY DEF Item
  <2>. HIDE DEF t
  <2>. QED BY <2>1, ItemIs DEF Grounds
<1>5. ASSUME NEW d, Tree(d), NEW q PROVE q \in within(d) <=> Within(d, q)
  <2>1. \A p \in roots : q \in Wanted(d, p) <=> WantedAt(d, p, 0, q)
    BY <1>4, <1>5, PathIs, WantedIs
  <2>. QED BY <2>1 DEF Within
<1>. HIDE DEF within
<1>6. {q \in within(disk) : Sure(q)} \subseteq {files[k] : k \in DOMAIN files}
  <2>. SUFFICES ASSUME NEW q \in within(disk), Sure(q) PROVE \E k \in DOMAIN files : files[k] = q
    OBVIOUS
  <2>1. Within(disk, q)
    BY <1>3, <1>5
  <2>2. q \in DOMAIN job.disk
    BY <1>3, <2>1 DEF Within, WantedAt
  <2>. QED BY <1>1, <1>2, <2>1, <2>2 DEF Found, Listed
<1>7. \A k \in DOMAIN files :
        \/ entries[k] # Stdin /\ files[k] \in within(job.disk)
        \/ entries[k] = Stdin /\ \E op \in ToSet(job.operands) : op.path = Stdin
  BY <1>1, <1>2, <1>3, <1>5 DEF Found, Right
<1>8. ASSUME Len(job.operands) = 1, NEW k \in 2..Len(files) PROVE Before(files[k - 1], files[k])
  <2>1. k \in 1..Len(entries) /\ k - 1 \in 1..Len(entries) /\ k - 1 < k
    BY <1>2
  <2>2. LeftOf(files[k - 1], files[k]) /\ files[k - 1] \in Seq(Nat) /\ files[k] \in Seq(Nat)
    BY <1>1, <1>2, <1>8, <2>1 DEF Found, FilesOrdered
  <2>. QED BY <2>2, LeftIs
<1>. QED BY <1>6, <1>7, <1>8

\* grep -r searches every file that is there all the time, unless a Stat or
\* ReadDir on the way to it may fail, and none that never was, in order, and
\* takes no file named "-" for standard input, whatever the tree, whatever fails
\* and whatever goes away while it is walked (files.go, walkFiles).
THEOREM WalkFindsFiles == Spec => []EntriesTruth
<1>1. Init /\ GrepIInv => EntriesIInv
  <2>. SUFFICES ASSUME Init, GrepIInv PROVE EntriesIInv
    OBVIOUS
  <2>1. Tree(disk)
    BY GrepAssumption DEF Init, Tree
  <2>. QED BY <2>1 DEF Init, EntriesIInv
<1>2. GrepIInv /\ EntriesIInv => Grounds
  BY DEF GrepIInv, Control, EntriesIInv, Grounds
<1>3. GrepIInv /\ EntriesIInv /\ [Next]_vars => EntriesIInv'
  <2>. SUFFICES ASSUME GrepIInv, EntriesIInv, [Next]_vars PROVE EntriesIInv'
    OBVIOUS
  <2>0. Grounds /\ (pc # "done" => status = "running")
    BY <1>2 DEF GrepIInv, Control
  <2>1. CASE Setup
    BY <2>0, <2>1, FoundSetup
  <2>2. CASE TakeOperand
    BY <2>0, <2>2, FoundTakeOperand DEF TakeOperand
  <2>3. CASE WalkFiles
    BY <2>0, <2>3, FoundWalkFiles DEF WalkFiles
  <2>4. CASE CollectEnd
    BY <2>0, <2>4, FoundCollectEnd
  <2>5. CASE OpenInput
    BY <2>0, <2>5, FoundLater DEF OpenInput, world, walk
  <2>6. CASE SearchLine
    <3>1. pc = "search" /\ pc' \in {"unread", "limit", "searched", "search"}
          /\ UNCHANGED <<job, disk, entries, trav>>
      BY <2>6 DEF SearchLine, Done, world, walk
    <3>. QED BY <2>0, <3>1, FoundLater
  <2>7. CASE SearchEnd
    BY <2>0, <2>7, FoundLater DEF SearchEnd, Done, world, walk
  <2>8. CASE Unread
    BY <2>0, <2>8, FoundLater DEF Unread, Ends, world, walk
  <2>9. CASE Limit
    BY <2>0, <2>9, FoundLater DEF Limit, Ends, world, walk
  <2>10. CASE FileDone
    <3>1. pc = "searched" /\ pc' \in {"next", "done"} /\ UNCHANGED <<job, disk, entries, trav>>
      BY <2>10 DEF FileDone, Ends, world, walk
    <3>. QED BY <2>0, <3>1, FoundLater
  <2>11. CASE AllDone
    BY <2>0, <2>11, FoundLater DEF AllDone, Ends, world, walk
  <2>12. CASE Cancelled
    BY <2>0, <2>12, FoundCancelled
  <2>13. CASE Vanish
    BY <2>0, <2>13, FoundVanish DEF Vanish
  <2>14. ASSUME UNCHANGED <<job, disk, pc, todo, trav, entries, status>> PROVE EntriesIInv'
    <3>1. InBudget(trav)' <=> InBudget(trav)
      BY <2>14 DEF InBudget
    <3>. QED BY <2>14, <3>1, JobOnly DEF EntriesIInv
  <2>15. CASE Cancel
    BY <2>14, <2>15 DEF Cancel
  <2>16. CASE UNCHANGED vars
    BY <2>14, <2>16 DEF vars
  <2>. QED
    BY <2>1, <2>2, <2>3, <2>4, <2>5, <2>6, <2>7, <2>8, <2>9, <2>10, <2>11, <2>12, <2>13, <2>15, <2>16
    DEF Next, Step, Over
<1>4. GrepIInv /\ EntriesIInv => EntriesTruth
  BY <1>2, EntriesFollow
<1>. QED BY <1>1, <1>3, <1>4, GrepInvariant, PTL DEF Spec
-----------------------------------------------------------------------------
(* Sequences of sequences *)

\* Induction: what is to hold for every number is given as the set of the
\* numbers it holds for, and the least one outside would contradict that.
LEMMA SetInduction ==
    ASSUME NEW S, 0 \in S, \A n \in Nat : n \in S => n + 1 \in S
    PROVE  Nat \subseteq S
<1>1. SUFFICES ASSUME Nat \ S # {} PROVE FALSE
  OBVIOUS
<1>2. PICK m \in Nat \ S : \A k \in Nat \ S : m <= k
  BY <1>1, LeastNatural
<1>3. m # 0 => m - 1 \in Nat /\ ~(m <= m - 1) /\ (m - 1) + 1 = m
  OBVIOUS
<1>. QED BY <1>2, <1>3

\* The sequences put together so far.
Sums(A, s, g) == /\ g \in [0..Len(s) -> Seq(A)] /\ g[0] = <<>>
                 /\ \A n \in 1..Len(s) : g[n] = g[n - 1] \o s[n]

LEMMA SumsExist ==
    ASSUME NEW A, NEW s \in Seq(Seq(A))
    PROVE  \E g : Sums(A, s, g)
<1>. DEFINE L == Len(s)
            Is(g, k) == /\ g \in [0..k -> Seq(A)] /\ g[0] = <<>>
                        /\ \A n \in 1..k : g[n] = g[n - 1] \o s[n]
            K == {k \in Nat : k <= L => \E g : Is(g, k)}
<1>0. L \in Nat /\ \A n \in 1..L : s[n] \in Seq(A)
  BY LenProperties, ElementOfSeq
<1>. HIDE DEF L
<1>1. \E g : Is(g, 0)
  <2>. DEFINE g == [n \in 0..0 |-> <<>>]
  <2>1. g \in [0..0 -> Seq(A)] /\ g[0] = <<>> /\ 1..0 = {}
    OBVIOUS
  <2>. HIDE DEF g
  <2>. QED BY <2>1
<1>2. ASSUME NEW k \in Nat, k + 1 <= L, NEW g, Is(g, k) PROVE \E h : Is(h, k + 1)
  <2>. DEFINE x == g[k] \o s[k + 1]
              h == [n \in 0..(k + 1) |-> IF n = k + 1 THEN x ELSE g[n]]
  <2>1. g \in [0..k -> Seq(A)] /\ g[0] = <<>> /\ \A n \in 1..k : g[n] = g[n - 1] \o s[n]
    BY <1>2
  <2>2. x \in Seq(A)
    <3>1. k + 1 \in 1..L /\ k \in 0..k
      BY <1>0, <1>2
    <3>. QED BY <1>0, <2>1, <3>1, ConcatProperties
  <2>. HIDE DEF x
  <2>3. \A n \in 0..(k + 1) : n = k + 1 \/ n \in 0..k
    OBVIOUS
  <2>4. h \in [0..(k + 1) -> Seq(A)]
    BY <2>1, <2>2, <2>3
  <2>5. h[k + 1] = x /\ \A n \in 0..k : h[n] = g[n]
    OBVIOUS
  <2>. HIDE DEF h
  <2>6. h[0] = <<>>
    BY <2>1, <2>5
  <2>7. ASSUME NEW n \in 1..(k + 1) PROVE h[n] = h[n - 1] \o s[n]
    <3>1. CASE n = k + 1
      <4>1. n - 1 = k /\ k \in 0..k
        BY <3>1
      <4>2. h[n - 1] = g[k]
        BY <2>5, <4>1
      <4>. QED BY <2>5, <3>1, <4>2 DEF x
    <3>2. CASE n # k + 1
      <4>1. n \in 1..k /\ n - 1 \in 0..k /\ n \in 0..k
        BY <3>2
      <4>. QED BY <2>1, <2>5, <4>1
    <3>. QED BY <3>1, <3>2
  <2>8. Is(h, k + 1)
    BY <2>4, <2>6, <2>7
  <2>. QED BY <2>8
<1>. HIDE DEF Is
<1>3. 0 \in K
  BY <1>1
<1>4. ASSUME NEW k \in Nat, k \in K PROVE k + 1 \in K
  <2>1. k + 1 <= L => k <= L
    BY <1>0
  <2>2. k + 1 <= L => \E h : Is(h, k + 1)
    BY <1>2, <1>4, <2>1
  <2>. QED BY <2>2
<1>. HIDE DEF K
<1>5. L \in K
  BY <1>0, <1>3, <1>4, SetInduction
<1>6. L <= L
  BY <1>0
<1>7. PICK g : Is(g, L)
  BY <1>5, <1>6 DEF K
<1>8. Sums(A, s, g)
  BY <1>7 DEF Is, L, Sums
<1>. QED BY <1>8

LEMMA SumsUnique ==
    ASSUME NEW A, NEW s, NEW t, NEW g, NEW h, Sums(A, s, g), Sums(A, t, h),
           Len(s) \in Nat, Len(t) \in Nat, Len(s) <= Len(t), \A n \in 1..Len(s) : s[n] = t[n]
    PROVE  \A n \in 0..Len(s) : g[n] = h[n]
<1>. DEFINE K == {k \in Nat : k <= Len(s) => g[k] = h[k]}
<1>1. 0 \in K
  BY DEF Sums
<1>2. ASSUME NEW k \in Nat, k \in K PROVE k + 1 \in K
  <2>. SUFFICES ASSUME k + 1 <= Len(s) PROVE g[k + 1] = h[k + 1]
    OBVIOUS
  <2>1. k + 1 \in 1..Len(s) /\ k + 1 \in 1..Len(t) /\ (k + 1) - 1 = k /\ k <= Len(s)
    OBVIOUS
  <2>2. g[k + 1] = g[k] \o s[k + 1] /\ h[k + 1] = h[k] \o t[k + 1]
    BY <2>1 DEF Sums
  <2>. QED BY <1>2, <2>1, <2>2
<1>. HIDE DEF K
<1>3. \A k \in Nat : k \in K
  BY <1>1, <1>2, SetInduction
<1>. QED BY <1>3 DEF K

LEMMA FlattenIs ==
    ASSUME NEW A, NEW s \in Seq(Seq(A)), NEW g, Sums(A, s, g)
    PROVE  FlattenSeq(s) = g[Len(s)] /\ FlattenSeq(s) \in Seq(A)
<1>. DEFINE L == Len(s)
            F(f) == [i \in 1..L |-> IF i = 1 THEN s[i] ELSE f[i - 1] \o s[i]]
            flatten == CHOOSE f : f = F(f)
<1>0. L \in Nat /\ \A n \in 1..L : s[n] \in Seq(A)
  BY LenProperties, ElementOfSeq
<1>1. g \in [0..L -> Seq(A)] /\ g[0] = <<>> /\ \A n \in 1..L : g[n] = g[n - 1] \o s[n]
  BY DEF Sums
<1>2. L = 0 => FlattenSeq(s) = <<>>
  BY EmptySeq DEF FlattenSeq
<1>3. L # 0 => FlattenSeq(s) = flatten[L]
  BY DEF FlattenSeq
<1>. HIDE DEF L
<1>4. g[L] \in Seq(A)
  <2>1. L \in 0..L
    BY <1>0
  <2>. QED BY <1>1, <2>1
<1>5. ASSUME L # 0 PROVE flatten[L] = g[L]
  <2>. DEFINE h == [i \in 1..L |-> g[i]]
  <2>1. h = F(h)
    <3>1. ASSUME NEW i \in 1..L PROVE h[i] = IF i = 1 THEN s[i] ELSE h[i - 1] \o s[i]
      <4>1. CASE i = 1
        <5>0. 1 \in 1..L /\ 1 - 1 = 0
          BY <1>0, <1>5
        <5>1. g[1] = g[1 - 1] \o s[1] /\ s[1] \in Seq(A)
          BY <1>0, <1>1, <5>0
        <5>2. g[1] = <<>> \o s[1]
          BY <1>1, <5>0, <5>1
        <5>. QED BY <4>1, <5>1, <5>2, ConcatEmptySeq
      <4>2. CASE i # 1
        <5>1. i - 1 \in 1..L
          BY <1>0, <4>2
        <5>. QED BY <1>1, <4>2, <5>1
      <4>. QED BY <4>1, <4>2
    <3>2. h = [i \in 1..L |-> h[i]]
      OBVIOUS
    <3>. HIDE DEF h
    <3>. QED BY <3>1, <3>2
  <2>2. flatten = F(flatten)
    BY <2>1
  <2>. HIDE DEF flatten
  <2>3. \A i \in 1..L : flatten[i] = IF i = 1 THEN s[i] ELSE flatten[i - 1] \o s[i]
    BY <2>2
  <2>. DEFINE K == {k \in Nat : k < L => flatten[k + 1] = g[k + 1]}
  <2>4. 0 \in K
    <3>1. 1 \in 1..L /\ 0 + 1 = 1 /\ 1 - 1 = 0
      BY <1>0, <1>5
    <3>2. flatten[1] = s[1]
      BY <2>3, <3>1
    <3>3. g[1] = g[1 - 1] \o s[1] /\ s[1] \in Seq(A)
      BY <1>0, <1>1, <3>1
    <3>4. <<>> \o s[1] = s[1]
      BY <3>3, ConcatEmptySeq
    <3>5. g[1] = s[1]
      BY <1>1, <3>1, <3>3, <3>4
    <3>. QED BY <3>1, <3>2, <3>5
  <2>5. ASSUME NEW k \in Nat, k \in K PROVE k + 1 \in K
    <3>. SUFFICES ASSUME k + 1 < L PROVE flatten[(k + 1) + 1] = g[(k + 1) + 1]
      OBVIOUS
    <3>. DEFINE i == (k + 1) + 1
    <3>1. i \in 1..L /\ i # 1 /\ i - 1 = k + 1 /\ k < L
      BY <1>0
    <3>2. flatten[i] = flatten[i - 1] \o s[i] /\ g[i] = g[i - 1] \o s[i]
      BY <1>1, <2>3, <3>1
    <3>3. flatten[k + 1] = g[k + 1]
      BY <2>5, <3>1
    <3>. QED BY <3>1, <3>2, <3>3
  <2>. HIDE DEF K
  <2>6. \A k \in Nat : k \in K
    BY <2>4, <2>5, SetInduction
  <2>7. L - 1 \in Nat /\ L - 1 < L /\ (L - 1) + 1 = L
    BY <1>0, <1>5
  <2>8. flatten[(L - 1) + 1] = g[(L - 1) + 1]
    BY <2>6, <2>7 DEF K
  <2>. QED BY <2>7, <2>8
<1>. QED BY <1>1, <1>2, <1>3, <1>4, <1>5 DEF L

LEMMA FlattenStep ==
    ASSUME NEW A, NEW s \in Seq(Seq(A)), NEW x \in Seq(A)
    PROVE  /\ FlattenSeq(s) \in Seq(A)
           /\ FlattenSeq(Append(s, x)) = FlattenSeq(s) \o x
<1>. DEFINE t == Append(s, x)
<1>1. /\ t \in Seq(Seq(A)) /\ Len(t) = Len(s) + 1 /\ Len(s) \in Nat /\ t[Len(s) + 1] = x
      /\ \A n \in 1..Len(s) : s[n] = t[n]
  BY AppendProperties, LenProperties
<1>. HIDE DEF t
<1>2. PICK g : Sums(A, s, g)
  BY SumsExist
<1>3. PICK h : Sums(A, t, h)
  BY <1>1, SumsExist
<1>4. FlattenSeq(s) = g[Len(s)] /\ FlattenSeq(s) \in Seq(A)
  BY <1>2, FlattenIs
<1>5. FlattenSeq(t) = h[Len(s) + 1]
  BY <1>1, <1>3, FlattenIs
<1>6. Len(s) + 1 \in 1..Len(t) /\ (Len(s) + 1) - 1 = Len(s) /\ Len(s) \in 0..Len(s) /\ Len(s) <= Len(t)
  BY <1>1
<1>7. h[Len(s) + 1] = h[Len(s)] \o x
  BY <1>1, <1>3, <1>6 DEF Sums
<1>8. Len(t) \in Nat
  BY <1>1
<1>9. \A n \in 0..Len(s) : g[n] = h[n]
  BY <1>1, <1>2, <1>3, <1>6, <1>8, SumsUnique
<1>10. g[Len(s)] = h[Len(s)]
  BY <1>6, <1>9
<1>. QED BY <1>4, <1>5, <1>7, <1>10 DEF t

\* The same for a sequence given by its elements.
LEMMA FlattenNext ==
    ASSUME NEW A, NEW n \in Nat, NEW f, \A i \in 1..(n + 1) : f[i] \in Seq(A)
    PROVE  /\ FlattenSeq([i \in 1..0 |-> f[i]]) = <<>>
           /\ FlattenSeq([i \in 1..n |-> f[i]]) \in Seq(A)
           /\ FlattenSeq([i \in 1..(n + 1) |-> f[i]]) = FlattenSeq([i \in 1..n |-> f[i]]) \o f[n + 1]
<1>. DEFINE s == [i \in 1..n |-> f[i]]
            t == [i \in 1..(n + 1) |-> f[i]]
            e == [i \in 1..0 |-> f[i]]
<1>1. s \in Seq(Seq(A)) /\ Len(s) = n /\ \A i \in 1..n : s[i] = f[i]
  <2>1. s \in [1..n -> Seq(A)]
    OBVIOUS
  <2>. QED BY <2>1, SeqDef
<1>2. t \in Seq(Seq(A)) /\ Len(t) = n + 1 /\ \A i \in 1..(n + 1) : t[i] = f[i]
  <2>1. t \in [1..(n + 1) -> Seq(A)] /\ n + 1 \in Nat
    OBVIOUS
  <2>. QED BY <2>1, SeqDef
<1>3. Len(e) = 0
  OBVIOUS
<1>4. e \in Seq(A)
  <2>1. e \in [1..0 -> A]
    OBVIOUS
  <2>. QED BY <2>1, SeqDef
<1>5. FlattenSeq(e) = <<>>
  BY <1>3, <1>4, EmptySeq DEF FlattenSeq
<1>. HIDE DEF s, t
<1>6. n + 1 \in 1..(n + 1) /\ f[n + 1] \in Seq(A)
  OBVIOUS
<1>7. t = Append(s, f[n + 1])
  <2>. DEFINE u == Append(s, f[n + 1])
  <2>1. /\ u \in Seq(Seq(A)) /\ Len(u) = n + 1 /\ u[n + 1] = f[n + 1] /\ \A i \in 1..n : u[i] = s[i]
    BY <1>1, <1>6, AppendProperties
  <2>. HIDE DEF u
  <2>2. \A i \in 1..(n + 1) : i = n + 1 \/ i \in 1..n
    OBVIOUS
  <2>3. \A i \in 1..(n + 1) : u[i] = t[i]
    BY <1>1, <1>2, <2>1, <2>2
  <2>4. u = t
    BY <1>2, <2>1, <2>3, SeqEqual
  <2>. QED BY <2>4 DEF u
<1>8. FlattenSeq(s) \in Seq(A) /\ FlattenSeq(t) = FlattenSeq(s) \o f[n + 1]
  BY <1>1, <1>6, <1>7, FlattenStep
<1>. QED BY <1>5, <1>8 DEF s, t
-----------------------------------------------------------------------------
(* The inductive invariant of OutputIsReference *)

\* What is to be printed of the first n lines.
Text(l, n) == FlattenSeq([i \in 1..n |-> Piece(l, i)])
Body(l) == IF On("count") THEN <<Total(Counted(l, SelectedLines(l)))>> ELSE Text(l, Len(l))

\* The locals c of search with -c, in the lines l.
Tallied(l, c) == c.out = <<>> /\ c.count = Counted(l, Hits(l, c.index))

\* The locals c of search that prints lines.  The last lines read may be
\* pending, all others are printed or left out for good: the pending lines are
\* as many as -B asks for, or all since the last one printed, and the trailing
\* context is counted from the last selected line.
LastSelected(l, i, s) == /\ s \in SelectedLines(l) /\ s <= i
                         /\ \A t \in SelectedLines(l) : t <= i => t <= s
InRow(q, i) == \A j \in 1..Len(q) : q[j] = (i - Len(q)) + j
Kept(l, c) ==
    LET i == c.index
        k == Len(c.pending)
    IN /\ c.pending \in Seq(Nat) /\ i \in 0..Len(l) /\ k \in 0..i
       /\ InRow(c.pending, i)
       /\ c.lastPrinted \in 0..(i - k) /\ c.after \in 0..o.after
       /\ k <= o.before /\ (k = o.before \/ c.lastPrinted = i - k)
       /\ c.after > 0 => c.lastPrinted = i
       /\ \/ c.lastPrinted = 0 /\ c.after = 0 /\ \A s \in SelectedLines(l) : s > i
          \/ \E s \in SelectedLines(l) : /\ LastSelected(l, i, s)
                                         /\ c.lastPrinted + c.after = s + o.after
Printed(l, c) == Kept(l, c) /\ c.out = Text(l, c.index - Len(c.pending))

AtEntry == {"search", "searched", "unread", "limit"}
InLoop ==
    /\ pc = "search" /\ ~BriefMode =>
         IF On("count") THEN Tallied(Current, loop) ELSE Printed(Current, loop)
    /\ pc = "searched" /\ ~BriefMode => loop.out = Body(Current)
Opened == pc \in AtEntry /\ ~Implicit => found[next] \in {"file", "stdin"}
Written ==
    pc # "done" =>
      stdout = IF Implicit THEN <<>> ELSE Whole(IF pc \in AtEntry THEN next - 1 ELSE next)
OutputIInv == InLoop /\ Opened /\ Written /\ (pc = "done" => OutputIsReference)

-----------------------------------------------------------------------------
(* What is to be printed of one input *)
OutItem == [line : Nat, mark : {"--", "-", ":", "count", "name"}]

LEMMA ShownAre ==
    ASSUME NEW l \in Seq(Line)
    PROVE  /\ Shown(l) \subseteq 1..Len(l) /\ SelectedLines(l) \subseteq Shown(l)
           /\ \A i \in SelectedLines(l) : i \in 1..Len(l) /\ l[i] \in Nat
           /\ \A i : i \in Shown(l) <=>
                \/ i \in SelectedLines(l)
                \/ /\ i \in 1..Len(l) /\ WithContext
                   /\ \E s \in SelectedLines(l) : s - o.before <= i /\ i <= s + o.after
<1>1. DOMAIN l = 1..Len(l) /\ Len(l) \in Nat
  BY LenProperties
<1>2. ASSUME NEW i \in SelectedLines(l) PROVE i \in 1..Len(l) /\ l[i] \in Nat
  <2>1. i \in 1..Len(l) /\ Selects(l[i])
    BY SelectedAre
  <2>. QED BY <2>1, LineIs DEF Selects
<1>3. \A i \in 1..Len(l) : \A s \in Int : \A b, a \in Int :
        i \in (s - b)..(s + a) <=> s - b <= i /\ i <= s + a
  OBVIOUS
<1>. QED BY <1>1, <1>2 DEF Shown

LEMMA ItemsAre ==
    /\ Separator \in OutItem
    /\ \A i \in Nat : Context(i) \in OutItem /\ Hit(i) \in OutItem /\ Total(i) \in OutItem /\ Name(i) \in OutItem
BY DEF Separator, Context, Hit, Total, Name, OutItem

\* The matches of a line, or the line.
Hitting(l, i) == [m \in 1..(IF On("only") THEN l[i] ELSE 1) |-> Hit(i)]

LEMMA PieceIs ==
    ASSUME NEW l \in Seq(Line), NEW i \in 1..Len(l)
    PROVE  /\ i \notin Shown(l) => Piece(l, i) = <<>>
           /\ i \in Shown(l) => Piece(l, i) = (IF Gap(l, i) THEN <<Separator>> ELSE <<>>)
                                  \o IF i \in SelectedLines(l) THEN Hitting(l, i) ELSE <<Context(i)>>
           /\ i \in SelectedLines(l) => Hitting(l, i) \in Seq(OutItem)
           /\ <<Context(i)>> \in Seq(OutItem) /\ <<Separator>> \in Seq(OutItem) /\ <<>> \in Seq(OutItem)
           /\ Piece(l, i) \in Seq(OutItem)
<1>1. i \in Nat /\ Context(i) \in OutItem /\ Hit(i) \in OutItem /\ Separator \in OutItem
  BY ItemsAre
<1>2. <<Context(i)>> \in Seq(OutItem) /\ <<Separator>> \in Seq(OutItem) /\ <<>> \in Seq(OutItem)
  BY <1>1
<1>3. ASSUME i \in SelectedLines(l) PROVE Hitting(l, i) \in Seq(OutItem)
  <2>. DEFINE n == IF On("only") THEN l[i] ELSE 1
  <2>1. n \in Nat
    BY <1>3, ShownAre
  <2>. HIDE DEF n
  <2>2. [m \in 1..n |-> Hit(i)] \in [1..n -> OutItem]
    BY <1>1
  <2>3. [m \in 1..n |-> Hit(i)] \in Seq(OutItem)
    BY <2>1, <2>2, SeqDef
  <2>. QED BY <2>3 DEF n, Hitting
<1>4. i \notin Shown(l) => Piece(l, i) = <<>>
  BY DEF Piece
<1>5. i \in Shown(l) => Piece(l, i) = (IF Gap(l, i) THEN <<Separator>> ELSE <<>>)
                                  \o IF i \in SelectedLines(l) THEN Hitting(l, i) ELSE <<Context(i)>>
  BY DEF Piece, Hitting
<1>6. Piece(l, i) \in Seq(OutItem)
  <2>1. CASE i \notin Shown(l)
    BY <1>2, <1>4, <2>1
  <2>2. CASE i \in Shown(l)
    <3>. DEFINE a == IF Gap(l, i) THEN <<Separator>> ELSE <<>>
                b == IF i \in SelectedLines(l) THEN Hitting(l, i) ELSE <<Context(i)>>
    <3>1. a \in Seq(OutItem) /\ b \in Seq(OutItem) /\ Piece(l, i) = a \o b
      BY <1>2, <1>3, <1>5, <2>2
    <3>. HIDE DEF a, b
    <3>. QED BY <3>1, ConcatProperties
  <2>. QED BY <2>1, <2>2
<1>. QED BY <1>2, <1>3, <1>4, <1>5, <1>6

LEMMA TextStep ==
    ASSUME NEW l \in Seq(Line)
    PROVE  /\ Text(l, 0) = <<>>
           /\ \A n \in 0..Len(l) : Text(l, n) \in Seq(OutItem)
           /\ \A n \in Nat : n < Len(l) => Text(l, n + 1) = Text(l, n) \o Piece(l, n + 1)
<1>0. Len(l) \in Nat
  BY LenProperties
<1>1. ASSUME NEW n \in Nat, n < Len(l)
      PROVE  /\ Text(l, 0) = <<>> /\ Text(l, n) \in Seq(OutItem)
             /\ Text(l, n + 1) = Text(l, n) \o Piece(l, n + 1)
             /\ Text(l, n + 1) \in Seq(OutItem)
  <2>. DEFINE f == [i \in 1..(n + 1) |-> Piece(l, i)]
  <2>1. \A i \in 1..(n + 1) : i \in 1..Len(l)
    BY <1>0, <1>1
  <2>2. \A i \in 1..(n + 1) : f[i] \in Seq(OutItem) /\ f[i] = Piece(l, i)
    BY <2>1, PieceIs
  <2>3. n + 1 \in 1..(n + 1) /\ 1..n \subseteq 1..(n + 1) /\ 1..0 = {}
    OBVIOUS
  <2>4. /\ [i \in 1..n |-> f[i]] = [i \in 1..n |-> Piece(l, i)]
        /\ [i \in 1..0 |-> f[i]] = [i \in 1..0 |-> Piece(l, i)]
        /\ [i \in 1..(n + 1) |-> f[i]] = [i \in 1..(n + 1) |-> Piece(l, i)]
    BY <2>2, <2>3
  <2>. HIDE DEF f
  <2>5. /\ FlattenSeq([i \in 1..0 |-> f[i]]) = <<>>
        /\ FlattenSeq([i \in 1..n |-> f[i]]) \in Seq(OutItem)
        /\ FlattenSeq([i \in 1..(n + 1) |-> f[i]]) = FlattenSeq([i \in 1..n |-> f[i]]) \o f[n + 1]
    BY <2>2, FlattenNext
  <2>6. f[n + 1] = Piece(l, n + 1) /\ f[n + 1] \in Seq(OutItem)
    BY <2>2, <2>3
  <2>7. /\ Text(l, 0) = <<>> /\ Text(l, n) \in Seq(OutItem)
        /\ Text(l, n + 1) = Text(l, n) \o Piece(l, n + 1)
    BY <2>4, <2>5, <2>6 DEF Text
  <2>8. Text(l, n) \o Piece(l, n + 1) \in Seq(OutItem)
    <3>1. \A a, b \in Seq(OutItem) : a \o b \in Seq(OutItem)
      BY ConcatProperties
    <3>. QED BY <2>6, <2>7, <3>1, Zenon
  <2>. QED BY <2>7, <2>8
<1>2. Text(l, 0) = <<>> /\ <<>> \in Seq(OutItem)
  <2>. DEFINE f == [i \in 1..1 |-> <<>>]
              e == [i \in 1..0 |-> Piece(l, i)]
  <2>1. \A i \in 1..(0 + 1) : f[i] \in Seq(OutItem)
    OBVIOUS
  <2>2. [i \in 1..0 |-> f[i]] = [i \in 1..0 |-> Piece(l, i)]
    OBVIOUS
  <2>. HIDE DEF f
  <2>3. FlattenSeq([i \in 1..0 |-> f[i]]) = <<>>
    BY <2>1, FlattenNext
  <2>. QED BY <2>2, <2>3 DEF Text
<1>3. ASSUME NEW n \in 0..Len(l) PROVE Text(l, n) \in Seq(OutItem)
  <2>1. CASE n = 0
    BY <1>2, <2>1
  <2>2. CASE n # 0
    <3>1. n - 1 \in Nat /\ n - 1 < Len(l) /\ (n - 1) + 1 = n
      BY <1>0, <2>2
    <3>2. Text(l, (n - 1) + 1) \in Seq(OutItem)
      BY <1>1, <3>1
    <3>. QED BY <3>1, <3>2
  <2>. QED BY <2>1, <2>2
<1>. QED BY <1>1, <1>2, <1>3

\* Lines that are not shown add nothing.
LEMMA EmptyTail ==
    ASSUME NEW l \in Seq(Line), NEW n \in 0..Len(l), NEW m \in n..Len(l),
           \A j \in (n + 1)..m : j \notin Shown(l)
    PROVE  Text(l, m) = Text(l, n)
<1>0. Len(l) \in Nat
  BY LenProperties
<1>. DEFINE K == {k \in Nat : n + k <= m => Text(l, n + k) = Text(l, n)}
<1>1. 0 \in K
  OBVIOUS
<1>2. ASSUME NEW k \in Nat, k \in K PROVE k + 1 \in K
  <2>1. ASSUME n + (k + 1) <= m PROVE Text(l, n + (k + 1)) = Text(l, n)
    <3>. DEFINE i == n + k
    <3>1. /\ i \in Nat /\ i < Len(l) /\ i + 1 \in (n + 1)..m /\ n + (k + 1) = i + 1 /\ n + k <= m
          /\ i + 1 \in 1..Len(l) /\ i \in 0..Len(l)
      BY <1>0, <2>1
    <3>2. Text(l, i) = Text(l, n)
      BY <1>2, <3>1
    <3>. HIDE DEF i, K
    <3>3. Piece(l, i + 1) = <<>>
      BY <3>1, PieceIs
    <3>4. Text(l, i + 1) = Text(l, i) \o <<>> /\ Text(l, i) \in Seq(OutItem)
      BY <3>1, <3>3, TextStep
    <3>5. Text(l, i + 1) = Text(l, i)
      BY <3>4, ConcatEmptySeq
    <3>. QED BY <3>1, <3>2, <3>5
  <2>. QED BY <2>1
<1>. HIDE DEF K
<1>3. m - n \in Nat /\ n + (m - n) = m
  BY <1>0
<1>4. m - n \in K
  BY <1>1, <1>2, <1>3, SetInduction
<1>. QED BY <1>3, <1>4 DEF K

-----------------------------------------------------------------------------
(* What the locals of search say of the lines read *)

\* The last selected line is printed, and what is printed last is shown.
LEMMA KeptIs ==
    ASSUME job \in Jobs, NEW l \in Seq(Line), NEW c, Kept(l, c), ~BriefMode
    PROVE  /\ Len(l) \in Nat /\ c.index \in 0..Len(l) /\ Len(c.pending) \in 0..c.index
           /\ c.index - Len(c.pending) \in 0..Len(l)
           /\ c.lastPrinted \in 0..(c.index - Len(c.pending))
           /\ c.lastPrinted > 0 => c.lastPrinted \in Shown(l)
           /\ \A t \in SelectedLines(l) : t \in 1..Len(l) /\ (t <= c.index => t <= c.lastPrinted)
           /\ \A t \in SelectedLines(l) : t <= c.index => t + o.after <= c.lastPrinted + c.after
<1>1. Len(l) \in Nat /\ o.after \in Nat /\ o.before \in Nat
  BY JobFacts, LenProperties
<1>. DEFINE i == c.index
            k == Len(c.pending)
            p == c.lastPrinted
            a == c.after
<1>2. /\ i \in 0..Len(l) /\ k \in 0..i /\ p \in 0..(i - k) /\ a \in 0..o.after
      /\ \/ p = 0 /\ a = 0 /\ \A s \in SelectedLines(l) : s > i
         \/ \E s \in SelectedLines(l) : LastSelected(l, i, s) /\ p + a = s + o.after
  BY DEF Kept
<1>3. \A t \in SelectedLines(l) : t \in 1..Len(l)
  BY SelectedAre
<1>. HIDE DEF i, k, p, a
<1>4. CASE p = 0 /\ a = 0 /\ \A s \in SelectedLines(l) : s > i
  <2>1. \A t \in SelectedLines(l) : ~(t <= i)
    BY <1>1, <1>2, <1>3, <1>4
  <2>. QED BY <1>1, <1>2, <1>3, <1>4, <2>1 DEF i, k, p, a
<1>5. CASE \E s \in SelectedLines(l) : LastSelected(l, i, s) /\ p + a = s + o.after
  <2>1. PICK s \in SelectedLines(l) : LastSelected(l, i, s) /\ p + a = s + o.after
    BY <1>5
  <2>2. s \in 1..Len(l) /\ s <= i /\ s <= p
    BY <1>1, <1>2, <1>3, <2>1 DEF LastSelected
  <2>3. \A t \in SelectedLines(l) : t <= i => t <= s
    BY <2>1 DEF LastSelected
  <2>4. \A t \in SelectedLines(l) : t <= i => t <= p /\ t + o.after <= p + a
    BY <1>1, <1>2, <1>3, <2>1, <2>2, <2>3
  <2>5. p \in Shown(l)
    <3>1. CASE p = s
      BY <3>1, ShownAre
    <3>2. CASE p # s
      <4>1. o.after > 0 /\ p \in 1..Len(l) /\ s - o.before <= p /\ p <= s + o.after
        BY <1>1, <1>2, <2>1, <2>2, <3>2
      <4>2. WithContext
        BY <4>1 DEF WithContext
      <4>. QED BY <2>1, <4>1, <4>2, ShownAre
    <3>. QED BY <3>1, <3>2
  <2>. QED BY <1>1, <1>2, <1>3, <2>4, <2>5, SMTT(30) DEF i, k, p, a
<1>6. /\ i - k \in 0..Len(l)
  BY <1>1, <1>2
<1>. QED BY <1>2, <1>4, <1>5, <1>6 DEF i, k, p, a

\* The lines between the last one printed and the pending ones are left out.
LEMMA LeftOut ==
    ASSUME job \in Jobs, NEW l \in Seq(Line), NEW c, Kept(l, c), ~BriefMode,
           NEW j \in (c.lastPrinted + 1)..(c.index - Len(c.pending))
    PROVE  j \notin Shown(l)
<1>. DEFINE i == c.index
            k == Len(c.pending)
            p == c.lastPrinted
            a == c.after
<1>1. /\ Len(l) \in Nat /\ o.after \in Nat /\ o.before \in Nat /\ i \in 0..Len(l) /\ k \in 0..i
      /\ p \in 0..(i - k)
      /\ \A t \in SelectedLines(l) : /\ t \in 1..Len(l)
                                     /\ t <= i => t <= p /\ t + o.after <= p + a
  BY KeptIs, JobFacts
<1>2. a \in 0..o.after /\ (k = o.before \/ p = i - k) /\ (a > 0 => p = i) /\ j \in (p + 1)..(i - k)
  BY DEF Kept
<1>3. \A t : t \in Shown(l) <=>
                \/ t \in SelectedLines(l)
                \/ /\ t \in 1..Len(l) /\ WithContext
                   /\ \E s \in SelectedLines(l) : s - o.before <= t /\ t <= s + o.after
  BY ShownAre
<1>. HIDE DEF i, k, p, a
<1>4. k = o.before /\ a = 0 /\ j \in Nat /\ p < j /\ j <= i - k
  BY <1>1, <1>2
<1>5. j \notin SelectedLines(l)
  BY <1>1, <1>4
<1>6. ASSUME NEW s \in SelectedLines(l), s - o.before <= j, j <= s + o.after PROVE FALSE
  <2>1. s \in 1..Len(l) /\ (s <= i => s + o.after <= p + a)
    BY <1>1
  <2>. QED BY <1>1, <1>4, <1>6, <2>1
<1>. QED BY <1>3, <1>5, <1>6

\* When the search is over the pending lines are left out too.
LEMMA NothingLeft ==
    ASSUME job \in Jobs, NEW l \in Seq(Line), NEW c, Printed(l, c), ~BriefMode,
           \A t \in SelectedLines(l) : t <= c.index, c.after = 0 \/ c.index = Len(l)
    PROVE  c.out = Text(l, Len(l))
<1>. DEFINE i == c.index
            k == Len(c.pending)
            p == c.lastPrinted
            a == c.after
<1>0. Kept(l, c) /\ c.out = Text(l, i - k)
  BY DEF Printed
<1>1. /\ Len(l) \in Nat /\ o.after \in Nat /\ o.before \in Nat /\ i \in 0..Len(l) /\ k \in 0..i
      /\ p \in 0..(i - k) /\ i - k \in 0..Len(l)
      /\ \A t \in SelectedLines(l) : /\ t \in 1..Len(l)
                                     /\ t <= i => t <= p /\ t + o.after <= p + a
  BY <1>0, KeptIs, JobFacts
<1>2. a \in 0..o.after /\ (a > 0 => p = i) /\ (a = 0 \/ i = Len(l)) /\ \A t \in SelectedLines(l) : t <= i
  BY <1>0 DEF Kept
<1>3. \A t : t \in Shown(l) <=>
                \/ t \in SelectedLines(l)
                \/ /\ t \in 1..Len(l) /\ WithContext
                   /\ \E s \in SelectedLines(l) : s - o.before <= t /\ t <= s + o.after
  BY ShownAre
<1>. HIDE DEF i, k, p, a
<1>4. ASSUME NEW j \in ((i - k) + 1)..Len(l) PROVE j \notin Shown(l)
  <2>1. a = 0 /\ j \in Nat /\ p < j
    BY <1>1, <1>2
  <2>2. j \notin SelectedLines(l)
    BY <1>1, <1>2, <2>1
  <2>3. ASSUME NEW s \in SelectedLines(l), j <= s + o.after PROVE FALSE
    <3>1. s \in 1..Len(l) /\ s + o.after <= p + a
      BY <1>1, <1>2
    <3>. QED BY <1>1, <2>1, <2>3, <3>1
  <2>. QED BY <1>3, <2>2, <2>3
<1>5. Len(l) \in (i - k)..Len(l)
  BY <1>1
<1>6. Text(l, Len(l)) = Text(l, i - k)
  BY <1>1, <1>4, <1>5, EmptyTail
<1>. QED BY <1>0, <1>6

\* The separator search writes is the one called for.
LEMMA GapIs ==
    ASSUME job \in Jobs, NEW l \in Seq(Line), NEW c, Kept(l, c), ~BriefMode,
           NEW f, f = (c.index - Len(c.pending)) + 1
    PROVE  Gap(l, f) <=> WithContext /\ c.lastPrinted > 0 /\ f > c.lastPrinted + 1
<1>. DEFINE n == c.index - Len(c.pending)
            p == c.lastPrinted
<1>1. n \in Nat /\ p \in 0..n /\ (p > 0 => p \in Shown(l)) /\ Shown(l) \subseteq 1..Len(l) /\ Len(l) \in Nat
  BY KeptIs, ShownAre
<1>2. \A j \in (p + 1)..n : j \notin Shown(l)
  BY LeftOut
<1>. HIDE DEF n, p
<1>3. f = n + 1 /\ f - 1 = n
  BY <1>1 DEF n
<1>4. (\E j \in Shown(l) : j < f) <=> p > 0
  <2>1. \A j \in Shown(l) : j \in Nat /\ j > 0
    BY <1>1
  <2>. QED BY <1>1, <1>2, <1>3, <2>1
<1>5. p > 0 => (n \notin Shown(l) <=> f > p + 1)
  <2>1. CASE p = n
    BY <1>1, <1>3, <2>1
  <2>2. CASE p # n
    <3>1. n \in (p + 1)..n
      BY <1>1, <2>2
    <3>. QED BY <1>1, <1>2, <1>3, <2>2, <3>1
  <2>. QED BY <2>1, <2>2
<1>. QED BY <1>3, <1>4, <1>5 DEF Gap, p

-----------------------------------------------------------------------------
(* A selected line *)

\* The context lines n + 1 to n + k.
Leading(n, k) == [m \in 1..k |-> Context(n + m)]

LEMMA LeadingIs ==
    ASSUME NEW n \in Nat, NEW k \in Nat
    PROVE  /\ Leading(n, k) \in Seq(OutItem) /\ Leading(n, 0) = <<>>
           /\ Leading(n, 1) = <<Context(n + 1)>>
           /\ Leading(n, k + 1) = Leading(n, k) \o <<Context(n + (k + 1))>>
<1>1. ASSUME NEW j \in Nat
      PROVE  /\ Leading(n, j) \in Seq(OutItem) /\ Len(Leading(n, j)) = j
             /\ \A m \in 1..j : Leading(n, j)[m] = Context(n + m)
  <2>. DEFINE f == [m \in 1..j |-> Context(n + m)]
  <2>1. \A m \in 1..j : n + m \in Nat
    OBVIOUS
  <2>2. f \in [1..j -> OutItem] /\ \A m \in 1..j : f[m] = Context(n + m)
    BY <2>1, ItemsAre
  <2>. HIDE DEF f
  <2>3. f \in Seq(OutItem) /\ Len(f) = j
    BY <2>2, SeqDef
  <2>. QED BY <2>2, <2>3 DEF f, Leading
<1>2. Leading(n, 0) = <<>>
  BY <1>1, EmptySeq
<1>3. /\ <<Context(n + 1)>> \in Seq(OutItem) /\ Context(n + (k + 1)) \in OutItem
      /\ <<Context(n + (k + 1))>> \in Seq(OutItem)
  <2>1. n + 1 \in Nat /\ n + (k + 1) \in Nat
    OBVIOUS
  <2>. QED BY <2>1, ItemsAre
<1>4. Leading(n, 1) = <<Context(n + 1)>>
  <2>. DEFINE t == <<Context(n + 1)>>
  <2>1. t \in Seq(OutItem) /\ Len(t) = 1 /\ \A m \in 1..1 : t[m] = Context(n + m)
    BY <1>3
  <2>2. Leading(n, 1) \in Seq(OutItem) /\ Len(Leading(n, 1)) = 1
        /\ \A m \in 1..1 : Leading(n, 1)[m] = Context(n + m)
    BY <1>1
  <2>. HIDE DEF t
  <2>3. Leading(n, 1) = t
    BY <2>1, <2>2, SeqEqual
  <2>. QED BY <2>3 DEF t
<1>5. Leading(n, k + 1) = Leading(n, k) \o <<Context(n + (k + 1))>>
  <2>. DEFINE s == Leading(n, k)
              x == Context(n + (k + 1))
              t == Append(s, x)
              u == Leading(n, k + 1)
  <2>1. /\ s \in Seq(OutItem) /\ Len(s) = k /\ u \in Seq(OutItem) /\ Len(u) = k + 1
        /\ \A m \in 1..k : s[m] = Context(n + m)
        /\ \A m \in 1..(k + 1) : u[m] = Context(n + m)
    BY <1>1
  <2>. HIDE DEF s, u
  <2>2. t \in Seq(OutItem) /\ Len(t) = k + 1 /\ t[k + 1] = x /\ \A m \in 1..k : t[m] = s[m]
    BY <1>3, <2>1, AppendProperties
  <2>. HIDE DEF t
  <2>3. \A m \in 1..(k + 1) : t[m] = u[m]
    <3>1. \A m \in 1..(k + 1) : m \in 1..k \/ m = k + 1
      OBVIOUS
    <3>. QED BY <2>1, <2>2, <3>1
  <2>4. t = u
    BY <2>1, <2>2, <2>3, SeqEqual
  <2>5. t = s \o <<x>>
    BY <1>3, <2>1, AppendIsConcat DEF t
  <2>. QED BY <2>4, <2>5 DEF s, u
<1>. QED BY <1>1, <1>2, <1>4, <1>5

LEMMA ItemsConcat ==
    \A a, b, d \in Seq(OutItem) : (a \o b) \o d = a \o (b \o d)
BY ConcatAssociative

\* A run of shown lines that ends with a selected one.
LEMMA RunText ==
    ASSUME NEW l \in Seq(Line), NEW n \in Nat, NEW k \in Nat, n + k < Len(l),
           \A j \in (n + 1)..(n + k) : j \in Shown(l) /\ j \notin SelectedLines(l),
           (n + k) + 1 \in SelectedLines(l),
           NEW sep \in Seq(OutItem),
           Gap(l, n + 1) => sep = <<Separator>>, ~Gap(l, n + 1) => sep = <<>>
    PROVE  Text(l, (n + k) + 1) =
             Text(l, n) \o ((sep \o Leading(n, k)) \o Hitting(l, (n + k) + 1))
<1>. DEFINE P == Text(l, n)
            H == Hitting(l, (n + k) + 1)
            e == (n + k) + 1
<1>0. Len(l) \in Nat /\ n \in 0..Len(l) /\ e \in 1..Len(l) /\ e \in Shown(l)
  BY LenProperties, ShownAre
<1>1. P \in Seq(OutItem) /\ H \in Seq(OutItem) /\ sep \in Seq(OutItem) /\ <<>> \in Seq(OutItem)
  BY <1>0, TextStep, PieceIs
<1>2. /\ \A a, b \in Seq(OutItem) : a \o b \in Seq(OutItem)
      /\ \A a \in Seq(OutItem) : a \o <<>> = a /\ <<>> \o a = a
  BY ConcatProperties, ConcatEmptySeq
<1>3. \A j \in Nat : Leading(n, j) \in Seq(OutItem) /\ Leading(n, 0) = <<>>
  BY LeadingIs
<1>4. \A j \in (n + 2)..e : ~Gap(l, j)
  <2>1. ASSUME NEW j \in (n + 2)..e PROVE ~Gap(l, j)
    <3>1. j - 1 \in (n + 1)..(n + k)
      OBVIOUS
    <3>. QED BY <3>1 DEF Gap
  <2>. QED BY <2>1
<1>5. \A j \in (n + 1)..(n + k) : /\ Piece(l, j) = (IF Gap(l, j) THEN <<Separator>> ELSE <<>>) \o <<Context(j)>>
                                  /\ <<Context(j)>> \in Seq(OutItem)
  <2>1. \A j \in (n + 1)..(n + k) : j \in 1..Len(l)
    BY <1>0
  <2>. QED BY <2>1, PieceIs
<1>6. Piece(l, e) = (IF Gap(l, e) THEN <<Separator>> ELSE <<>>) \o H
  BY <1>0, PieceIs
<1>. DEFINE K == {j \in Nat : j < k => Text(l, n + (j + 1)) = (P \o sep) \o Leading(n, j + 1)}
<1>7. 0 \in K
  <2>1. ASSUME 0 < k PROVE Text(l, n + (0 + 1)) = (P \o sep) \o Leading(n, 0 + 1)
    <3>1. n + 1 \in (n + 1)..(n + k) /\ n < Len(l) /\ 0 + 1 = 1
      BY <1>0, <2>1
    <3>2. Piece(l, n + 1) = sep \o <<Context(n + 1)>> /\ <<Context(n + 1)>> \in Seq(OutItem)
      BY <1>5, <3>1
    <3>3. Text(l, n + 1) = P \o (sep \o <<Context(n + 1)>>)
      BY <3>1, <3>2, TextStep
    <3>4. Leading(n, 1) = <<Context(n + 1)>>
      BY LeadingIs
    <3>. HIDE DEF P
    <3>5. (P \o sep) \o <<Context(n + 1)>> = P \o (sep \o <<Context(n + 1)>>)
      BY <1>1, <3>2, ItemsConcat, SMTT(30)
    <3>. QED BY <3>1, <3>3, <3>4, <3>5
  <2>. QED BY <2>1
<1>8. ASSUME NEW j \in Nat, j \in K PROVE j + 1 \in K
  <2>1. ASSUME j + 1 < k
        PROVE  Text(l, n + ((j + 1) + 1)) = (P \o sep) \o Leading(n, (j + 1) + 1)
    <3>. DEFINE i == n + (j + 1)
                x == Context(n + ((j + 1) + 1))
    <3>1. /\ i + 1 \in (n + 1)..(n + k) /\ i + 1 \in (n + 2)..e /\ i < Len(l) /\ j < k
          /\ i \in Nat /\ i + 1 = n + ((j + 1) + 1) /\ j + 1 \in Nat
      BY <1>0, <2>1
    <3>2. Text(l, i) = (P \o sep) \o Leading(n, j + 1)
      BY <1>8, <3>1
    <3>3. Piece(l, i + 1) = <<>> \o <<x>> /\ <<x>> \in Seq(OutItem)
      BY <1>4, <1>5, <3>1
    <3>4. Text(l, i + 1) = Text(l, i) \o Piece(l, i + 1)
      BY <3>1, TextStep
    <3>5. Leading(n, (j + 1) + 1) = Leading(n, j + 1) \o <<x>>
      BY <3>1, LeadingIs
    <3>6. Leading(n, j + 1) \in Seq(OutItem)
      BY <1>3, <3>1
    <3>. HIDE DEF i, x, P
    <3>7. Text(l, i + 1) = ((P \o sep) \o Leading(n, j + 1)) \o <<x>>
      BY <1>2, <3>2, <3>3, <3>4
    <3>8. P \o sep \in Seq(OutItem)
      BY <1>1, <1>2
    <3>9. ((P \o sep) \o Leading(n, j + 1)) \o <<x>> = (P \o sep) \o (Leading(n, j + 1) \o <<x>>)
      BY <3>3, <3>6, <3>8, ItemsConcat
    <3>. QED BY <3>1, <3>5, <3>7, <3>9
  <2>2. j + 1 \in Nat
    OBVIOUS
  <2>. HIDE DEF P
  <2>. QED BY <2>1, <2>2
<1>. HIDE DEF K
<1>9. \A j \in Nat : j \in K
  BY <1>7, <1>8, SetInduction
<1>10. Text(l, e) = Text(l, n + k) \o Piece(l, e)
  <2>1. \A i \in Nat : i < Len(l) => Text(l, i + 1) = Text(l, i) \o Piece(l, i + 1)
    BY TextStep
  <2>2. n + k \in Nat /\ n + k < Len(l)
    OBVIOUS
  <2>. QED BY <2>1, <2>2
<1>11. CASE k = 0
  <2>1. e = n + 1 /\ n + k = n
    BY <1>11
  <2>2. Piece(l, e) = sep \o H
    BY <1>6, <2>1
  <2>3. sep \o Leading(n, k) = sep
    BY <1>1, <1>2, <1>3, <1>11
  <2>. QED BY <1>10, <2>1, <2>2, <2>3
<1>12. CASE k # 0
  <2>1. k - 1 \in Nat /\ k - 1 < k /\ (k - 1) + 1 = k /\ e \in (n + 2)..e
    BY <1>12
  <2>2. Text(l, n + ((k - 1) + 1)) = (P \o sep) \o Leading(n, (k - 1) + 1)
    BY <1>9, <2>1 DEF K
  <2>3. Text(l, n + k) = (P \o sep) \o Leading(n, k)
    BY <2>1, <2>2
  <2>4. Piece(l, e) = <<>> \o H
    BY <1>4, <1>6, <2>1
  <2>. DEFINE C == Leading(n, k)
  <2>5. C \in Seq(OutItem)
    BY <1>3
  <2>6. Text(l, e) = ((P \o sep) \o C) \o H
    <3>. HIDE DEF H, P, C, e
    <3>. QED BY <1>1, <1>2, <1>10, <2>3, <2>4 DEF C
  <2>. HIDE DEF H, P, C
  <2>7. ((P \o sep) \o C) \o H = P \o ((sep \o C) \o H)
    <3>1. P \o sep \in Seq(OutItem) /\ sep \o C \in Seq(OutItem)
      BY <1>1, <1>2, <2>5
    <3>2. (P \o sep) \o C = P \o (sep \o C)
      BY <1>1, <2>5, ItemsConcat
    <3>3. (P \o (sep \o C)) \o H = P \o ((sep \o C) \o H)
      <4>1. PICK x \in Seq(OutItem) : x = sep \o C
        BY <3>1
      <4>2. (P \o x) \o H = P \o (x \o H)
        BY <1>1, ItemsConcat, SMTT(30)
      <4>. QED BY <4>1, <4>2
    <3>. QED BY <3>2, <3>3
  <2>. QED BY <2>6, <2>7 DEF C, H, P
<1>. QED BY <1>11, <1>12

\* The pending lines are the ones before the selected line.
LEMMA PendingIs ==
    ASSUME job \in Jobs, NEW l \in Seq(Line), NEW c, Kept(l, c), ~BriefMode,
           c.index < Len(l), c.index + 1 \in SelectedLines(l)
    PROVE  LET k == Len(c.pending)
               n == c.index - k
           IN /\ n \in Nat /\ k \in Nat /\ n + k = c.index
              /\ \A j \in (n + 1)..(n + k) : j \in Shown(l) /\ j \notin SelectedLines(l)
              /\ (IF c.pending = <<>> THEN c.index + 1 ELSE Head(c.pending)) = n + 1
              /\ [j \in DOMAIN c.pending |-> Context(c.pending[j])] = Leading(n, k)
<1>0. PICK k, n : k = Len(c.pending) /\ n = c.index - k
  OBVIOUS
<1>. DEFINE i == c.index
            p == c.lastPrinted
<1>1. /\ Len(l) \in Nat /\ o.after \in Nat /\ o.before \in Nat /\ i \in 0..Len(l) /\ k \in 0..i
      /\ p \in 0..(i - k)
      /\ \A t \in SelectedLines(l) : t \in 1..Len(l) /\ (t <= i => t <= p)
  BY <1>0, KeptIs, JobFacts
<1>2. /\ c.pending \in Seq(Nat) /\ k <= o.before /\ \A j \in 1..k : c.pending[j] = n + j
  BY <1>0 DEF Kept, InRow
<1>3. n \in Nat /\ k \in Nat /\ n + k = i
  BY <1>0, <1>1
<1>4. ASSUME NEW j \in (n + 1)..(n + k) PROVE j \in Shown(l) /\ j \notin SelectedLines(l)
  <2>. HIDE DEF i, p
  <2>0. j \in Nat /\ n < j /\ j <= i /\ k > 0 /\ k <= o.before
    BY <1>2, <1>3
  <2>1. /\ j \in Nat /\ n < j /\ j <= i /\ j \in 1..Len(l) /\ o.before > 0
        /\ (i + 1) - o.before <= j /\ j <= (i + 1) + o.after
    BY <1>1, <1>3, <2>0
  <2>2. j \notin SelectedLines(l)
    BY <1>1, <1>3, <2>1
  <2>3. WithContext
    BY <2>1 DEF WithContext
  <2>4. i + 1 \in SelectedLines(l)
    BY DEF i
  <2>. QED BY <2>1, <2>2, <2>3, <2>4, ShownAre
<1>5. (IF c.pending = <<>> THEN i + 1 ELSE Head(c.pending)) = n + 1
  <2>1. CASE c.pending = <<>>
    <3>1. k = 0
      BY <1>0, <2>1
    <3>. QED BY <1>3, <2>1, <3>1
  <2>2. CASE c.pending # <<>>
    <3>1. k # 0 /\ Head(c.pending) = c.pending[1]
      BY <1>0, <1>2, <2>2, EmptySeq, HeadTailProperties
    <3>2. 1 \in 1..k
      BY <1>3, <3>1
    <3>. QED BY <1>2, <2>2, <3>1, <3>2
  <2>. QED BY <2>1, <2>2
<1>6. [j \in DOMAIN c.pending |-> Context(c.pending[j])] = Leading(n, k)
  <2>1. DOMAIN c.pending = 1..k
    BY <1>0, <1>2, LenProperties
  <2>. QED BY <1>2, <2>1 DEF Leading
<1>. QED BY <1>0, <1>3, <1>4, <1>5, <1>6

LEMMA PrintSelected ==
    ASSUME job \in Jobs, NEW l \in Seq(Line), NEW c, Printed(l, c), ~BriefMode,
           c.index < Len(l), c.index + 1 \in SelectedLines(l),
           NEW first, first = IF c.pending = <<>> THEN c.index + 1 ELSE Head(c.pending),
           NEW d, d.index = c.index + 1, d.pending = <<>>, d.lastPrinted = c.index + 1,
           d.after = o.after,
           d.out = c.out \o (((IF WithContext /\ c.lastPrinted > 0 /\ first > c.lastPrinted + 1
                                 THEN <<Separator>> ELSE <<>>)
                              \o [j \in DOMAIN c.pending |-> Context(c.pending[j])])
                             \o Hitting(l, c.index + 1))
    PROVE  Printed(l, d)
<1>. DEFINE i == c.index
<1>0. Kept(l, c) /\ Len(l) \in Nat /\ i \in 0..Len(l) /\ o.after \in Nat /\ o.before \in Nat
  BY KeptIs, JobFacts DEF Printed
<1>1. PICK n, k : n = i - Len(c.pending) /\ k = Len(c.pending)
  OBVIOUS
<1>2. /\ n \in Nat /\ k \in Nat /\ n + k = i
      /\ \A j \in (n + 1)..(n + k) : j \in Shown(l) /\ j \notin SelectedLines(l)
      /\ (IF c.pending = <<>> THEN i + 1 ELSE Head(c.pending)) = n + 1
      /\ [j \in DOMAIN c.pending |-> Context(c.pending[j])] = Leading(n, k)
  BY <1>0, <1>1, PendingIs
<1>3. Gap(l, n + 1) <=> WithContext /\ c.lastPrinted > 0 /\ n + 1 > c.lastPrinted + 1
  BY <1>0, <1>1, GapIs
<1>. DEFINE sep == IF Gap(l, n + 1) THEN <<Separator>> ELSE <<>>
<1>4. sep \in Seq(OutItem) /\ (Gap(l, n + 1) => sep = <<Separator>>) /\ (~Gap(l, n + 1) => sep = <<>>)
  BY ItemsAre
<1>5. c.out = Text(l, n)
  BY <1>1 DEF Printed
<1>6. d.out = Text(l, i + 1)
  <2>1. d.out = c.out \o ((sep \o Leading(n, k)) \o Hitting(l, i + 1))
    BY <1>2, <1>3
  <2>2. (n + k) + 1 \in SelectedLines(l) /\ n + k < Len(l)
    BY <1>2
  <2>. HIDE DEF sep
  <2>3. Text(l, (n + k) + 1) = Text(l, n) \o ((sep \o Leading(n, k)) \o Hitting(l, (n + k) + 1))
    BY <1>2, <1>4, <2>2, RunText
  <2>. QED BY <1>2, <1>5, <2>1, <2>3
<1>7. Len(d.pending) = 0 /\ d.pending \in Seq(Nat) /\ 0 \in 0..(i + 1) /\ (i + 1) - 0 = i + 1
      /\ i + 1 \in 0..Len(l) /\ i + 1 \in 0..((i + 1) - 0)
  BY <1>0
<1>8. LastSelected(l, i + 1, i + 1)
  BY <1>0 DEF LastSelected
<1>9. Kept(l, d)
  <2>1. d.after \in 0..o.after /\ 0 <= o.before /\ 1..0 = {}
    BY <1>0
  <2>2. InRow(<<>>, i + 1)
    BY <2>1 DEF InRow
  <2>. QED BY <1>7, <1>8, <2>1, <2>2 DEF Kept
<1>. QED BY <1>6, <1>7, <1>9 DEF Printed

\* A line that is not selected.
LEMMA KeptOther ==
    ASSUME job \in Jobs, NEW l \in Seq(Line), NEW c, Kept(l, c), ~BriefMode,
           c.index < Len(l), c.index + 1 \notin SelectedLines(l),
           NEW d, d.index = c.index + 1, d.pending \in Seq(Nat),
           Len(d.pending) \in 0..(c.index + 1), Len(d.pending) <= o.before,
           InRow(d.pending, c.index + 1),
           d.lastPrinted \in 0..((c.index + 1) - Len(d.pending)), d.after \in 0..o.after,
           Len(d.pending) = o.before \/ d.lastPrinted = (c.index + 1) - Len(d.pending),
           d.after > 0 => d.lastPrinted = c.index + 1,
           d.lastPrinted + d.after = c.lastPrinted + c.after
    PROVE  Kept(l, d)
<1>. DEFINE i == c.index
<1>1. Len(l) \in Nat /\ i \in 0..Len(l) /\ i + 1 \in 0..Len(l) /\ \A t \in SelectedLines(l) : t \in 1..Len(l)
  BY KeptIs
<1>2. \/ c.lastPrinted = 0 /\ c.after = 0 /\ \A s \in SelectedLines(l) : s > i
      \/ \E s \in SelectedLines(l) : LastSelected(l, i, s) /\ c.lastPrinted + c.after = s + o.after
  BY DEF Kept
<1>3. \A s \in SelectedLines(l) : /\ s > i => s > i + 1
                                  /\ LastSelected(l, i, s) => LastSelected(l, i + 1, s)
  <2>1. ASSUME NEW s \in SelectedLines(l), s > i PROVE s > i + 1
    <3>1. s \in 1..Len(l) /\ s # i + 1
      BY <1>1
    <3>. QED BY <1>1, <2>1, <3>1
  <2>2. ASSUME NEW s \in SelectedLines(l), LastSelected(l, i, s) PROVE LastSelected(l, i + 1, s)
    <3>1. s \in 1..Len(l) /\ s <= i /\ s <= i + 1
      BY <1>1, <2>2 DEF LastSelected
    <3>2. ASSUME NEW t \in SelectedLines(l), t <= i + 1 PROVE t <= s
      <4>1. t \in 1..Len(l) /\ t # i + 1
        BY <1>1
      <4>2. t <= i
        BY <1>1, <3>2, <4>1
      <4>. QED BY <2>2, <4>2 DEF LastSelected
    <3>. QED BY <3>1, <3>2 DEF LastSelected
  <2>. QED BY <2>1, <2>2
<1>4. \/ d.lastPrinted = 0 /\ d.after = 0 /\ \A s \in SelectedLines(l) : s > i + 1
      \/ \E s \in SelectedLines(l) : LastSelected(l, i + 1, s) /\ d.lastPrinted + d.after = s + o.after
  <2>1. c.lastPrinted = 0 /\ c.after = 0 => d.lastPrinted = 0 /\ d.after = 0
    <3>1. d.lastPrinted >= 0 /\ d.lastPrinted \in Int /\ d.after \in Int /\ d.after >= 0
      OBVIOUS
    <3>. QED BY <3>1
  <2>. QED BY <1>2, <1>3, <2>1
<1>. QED BY <1>1, <1>4 DEF Kept

\* The pending lines that make way add nothing.
LEMMA LeaveOut ==
    ASSUME job \in Jobs, NEW l \in Seq(Line), NEW c, Printed(l, c), ~BriefMode,
           NEW d, Kept(l, d), d.out = c.out, d.lastPrinted = c.lastPrinted,
           c.index - Len(c.pending) <= d.index - Len(d.pending)
    PROVE  Printed(l, d)
<1>. DEFINE m == c.index - Len(c.pending)
            n == d.index - Len(d.pending)
<1>1. Kept(l, c) /\ c.out = Text(l, m)
  BY DEF Printed
<1>2. /\ Len(l) \in Nat /\ m \in 0..Len(l) /\ c.lastPrinted \in 0..m /\ n \in 0..Len(l)
  BY <1>1, KeptIs
<1>3. ASSUME NEW j \in (m + 1)..n PROVE j \notin Shown(l)
  <2>1. j \in (d.lastPrinted + 1)..n
    <3>. HIDE DEF m, n
    <3>. QED BY <1>2
  <2>. QED BY <2>1, LeftOut
<1>4. n \in m..Len(l)
  BY <1>2
<1>5. Text(l, n) = Text(l, m)
  BY <1>2, <1>3, <1>4, EmptyTail
<1>. QED BY <1>1, <1>5 DEF Printed

\* Without context nothing is to be done.
LEMMA PrintNothing ==
    ASSUME job \in Jobs, NEW l \in Seq(Line), NEW c, Printed(l, c), ~BriefMode,
           c.index < Len(l), c.index + 1 \notin SelectedLines(l),
           NEW d, d.index = c.index + 1, c.after = 0, o.before = 0,
           d.pending = c.pending, d.lastPrinted = c.lastPrinted, d.after = c.after,
           d.out = c.out
    PROVE  Printed(l, d)
<1>. DEFINE i == c.index
<1>1. Kept(l, c)
  BY DEF Printed
<1>2. /\ i \in 0..Len(l) /\ Len(l) \in Nat /\ Len(c.pending) \in 0..i
      /\ c.lastPrinted \in 0..(i - Len(c.pending))
  BY <1>1, KeptIs
<1>3. Len(c.pending) <= 0 /\ c.pending \in Seq(Nat) /\ o.after \in Nat
  BY <1>1, JobFacts DEF Kept
<1>4. Len(c.pending) = 0
  BY <1>2, <1>3
<1>5. Kept(l, d)
  <2>1. Len(d.pending) = 0 /\ d.pending \in Seq(Nat) /\ 0 \in 0..(i + 1) /\ 1..0 = {}
        /\ d.lastPrinted \in 0..((i + 1) - 0) /\ d.after \in 0..o.after /\ ~(d.after > 0)
    BY <1>2, <1>3, <1>4
  <2>2. InRow(d.pending, i + 1)
    BY <2>1 DEF InRow
  <2>. QED BY <1>1, <2>1, <2>2, KeptOther
<1>6. c.index - Len(c.pending) <= d.index - Len(d.pending)
  BY <1>2, <1>4
<1>. QED BY <1>5, <1>6, LeaveOut

\* A line of the trailing context.
LEMMA PrintTrailing ==
    ASSUME job \in Jobs, NEW l \in Seq(Line), NEW c, Printed(l, c), ~BriefMode,
           c.index < Len(l), c.index + 1 \notin SelectedLines(l),
           NEW d, d.index = c.index + 1, c.after > 0,
           d.pending = c.pending, d.lastPrinted = c.index + 1, d.after = c.after - 1,
           d.out = Append(c.out, Context(c.index + 1))
    PROVE  Printed(l, d)
<1>. DEFINE i == c.index
            p == c.lastPrinted
            a == c.after
<1>1. Kept(l, c) /\ c.out = Text(l, i - Len(c.pending))
  BY DEF Printed
<1>2. /\ i \in 0..Len(l) /\ Len(l) \in Nat /\ Len(c.pending) \in 0..i /\ p \in 0..(i - Len(c.pending))
      /\ p > 0 => p \in Shown(l)
  BY <1>1, KeptIs
<1>3. c.pending \in Seq(Nat) /\ o.after \in Nat /\ o.before \in Nat /\ p = i /\ a \in 0..o.after
  BY <1>1, JobFacts DEF Kept
<1>4. Len(c.pending) = 0 /\ i - Len(c.pending) = i
  BY <1>2, <1>3
<1>5. Kept(l, d)
  <2>1. Len(d.pending) = 0 /\ d.pending \in Seq(Nat) /\ 0 \in 0..(i + 1) /\ 0 <= o.before /\ 1..0 = {}
        /\ d.lastPrinted = (i + 1) - 0 /\ d.lastPrinted \in 0..((i + 1) - 0) /\ d.after \in 0..o.after
        /\ d.lastPrinted + d.after = p + a /\ ~(a = 0)
    BY <1>2, <1>3, <1>4, SMTT(30)
  <2>2. InRow(d.pending, i + 1)
    BY <2>1 DEF InRow
  <2>. QED BY <1>1, <2>1, <2>2, KeptOther
<1>6. PICK s \in SelectedLines(l) : s <= i /\ p + a = s + o.after
  BY <1>1 DEF Kept, LastSelected
<1>7. s \in 1..Len(l)
  BY SelectedAre
<1>8. /\ i + 1 \in 1..Len(l) /\ p > 0 /\ o.after > 0 /\ i \in Nat /\ (i + 1) - 1 = i
      /\ s - o.before <= i + 1 /\ i + 1 <= s + o.after
  <2>. HIDE DEF i, p, a
  <2>1. a > 0 /\ i < Len(l)
    BY DEF a, i
  <2>2. /\ i \in Nat /\ Len(l) \in Nat /\ o.after \in Nat /\ o.before \in Nat /\ p = i /\ a \in Nat
        /\ a <= o.after /\ s \in Nat /\ s > 0 /\ s <= i /\ p + a = s + o.after
    BY <1>2, <1>3, <1>6, <1>7
  <2>3. i + 1 <= s + o.after /\ p > 0 /\ o.after > 0
    BY <2>1, <2>2
  <2>. QED BY <2>1, <2>2, <2>3
<1>9. WithContext
  BY <1>8 DEF WithContext
<1>10. i + 1 \in Shown(l)
  BY <1>8, <1>9, ShownAre
<1>11. ~Gap(l, i + 1)
  BY <1>2, <1>3, <1>8 DEF Gap
<1>12. Piece(l, i + 1) = <<>> \o <<Context(i + 1)>> /\ <<Context(i + 1)>> \in Seq(OutItem)
  BY <1>8, <1>10, <1>11, PieceIs
<1>13. Piece(l, i + 1) = <<Context(i + 1)>>
  BY <1>12, ConcatEmptySeq
<1>14. Text(l, i + 1) = Text(l, i) \o Piece(l, i + 1) /\ Text(l, i) \in Seq(OutItem)
  BY <1>2, <1>8, TextStep
<1>15. Context(i + 1) \in OutItem
  <2>1. i + 1 \in Nat
    BY <1>8
  <2>. QED BY <2>1, ItemsAre
<1>16. Append(Text(l, i), Context(i + 1)) = Text(l, i) \o <<Context(i + 1)>>
  BY <1>14, <1>15, AppendIsConcat
<1>17. d.out = Text(l, i + 1)
  BY <1>1, <1>4, <1>13, <1>14, <1>16
<1>18. d.index - Len(d.pending) = i + 1
  BY <1>4, <1>8
<1>. QED BY <1>5, <1>17, <1>18 DEF Printed

\* A line that may be leading context.
LEMMA PrintLeading ==
    ASSUME job \in Jobs, NEW l \in Seq(Line), NEW c, Printed(l, c), ~BriefMode,
           c.index < Len(l), c.index + 1 \notin SelectedLines(l),
           NEW d, d.index = c.index + 1, c.after = 0, o.before > 0,
           NEW w, Len(c.pending) = o.before => w = Tail(c.pending),
           Len(c.pending) # o.before => w = c.pending, Append(w, c.index + 1) = d.pending,
           d.lastPrinted = c.lastPrinted, d.after = c.after, d.out = c.out
    PROVE  Printed(l, d)
<1>1. Kept(l, c)
  BY DEF Printed
<1>2. PICK i, k, p : i = c.index /\ k = Len(c.pending) /\ p = c.lastPrinted
  OBVIOUS
<1>3. i \in 0..Len(l) /\ Len(l) \in Nat /\ k \in 0..i /\ p \in 0..(i - k) /\ i \in Nat
  BY <1>1, <1>2, KeptIs
<1>4. /\ c.pending \in Seq(Nat) /\ o.after \in Nat /\ o.before \in Nat
      /\ k <= o.before /\ (k = o.before \/ p = i - k) /\ \A j \in 1..k : c.pending[j] = (i - k) + j
  BY <1>1, <1>2, JobFacts DEF Kept, InRow
<1>5. PICK v : v = IF k = o.before THEN k - 1 ELSE k
  OBVIOUS
<1>6. w \in Seq(Nat) /\ Len(w) = v /\ v \in Nat /\ \A j \in 1..v : w[j] = (i - v) + j
  <2>1. CASE k = o.before
    <3>1. c.pending # <<>> /\ k > 0
      <4>1. k > 0
        BY <2>1
      <4>2. c.pending = <<>> => Len(c.pending) = 0
        OBVIOUS
      <4>. QED BY <1>2, <4>1, <4>2
    <3>2. /\ Tail(c.pending) \in Seq(Nat) /\ Len(Tail(c.pending)) = k - 1
          /\ \A j \in 1..(k - 1) : Tail(c.pending)[j] = c.pending[j + 1]
      BY <1>2, <1>4, <3>1, HeadTailProperties
    <3>3. w = Tail(c.pending) /\ v = k - 1 /\ v \in Nat
      BY <1>2, <1>3, <1>5, <2>1, <3>1
    <3>4. ASSUME NEW j \in 1..v PROVE w[j] = (i - v) + j
      <4>1. j + 1 \in 1..k /\ (i - k) + (j + 1) = (i - v) + j /\ j \in 1..(k - 1)
        BY <1>3, <3>3
      <4>. QED BY <1>4, <3>2, <3>3, <4>1
    <3>. QED BY <3>2, <3>3, <3>4
  <2>2. CASE k # o.before
    BY <1>2, <1>3, <1>4, <1>5, <2>2
  <2>. QED BY <2>1, <2>2
<1>7. d.pending = Append(w, i + 1)
  BY <1>2
<1>8. d.pending \in Seq(Nat) /\ Len(d.pending) = v + 1 /\ d.pending[v + 1] = i + 1
      /\ \A j \in 1..v : d.pending[j] = w[j]
  <2>. DEFINE t == Append(w, i + 1)
  <2>1. i + 1 \in Nat
    BY <1>3
  <2>2. t \in Seq(Nat) /\ Len(t) = Len(w) + 1 /\ t[Len(w) + 1] = i + 1
        /\ \A j \in 1..Len(w) : t[j] = w[j]
    BY <1>6, <2>1, AppendProperties
  <2>3. d.pending = t
    BY <1>7
  <2>. HIDE DEF t
  <2>. QED BY <1>6, <2>2, <2>3, Zenon
<1>9. /\ v + 1 \in 0..(i + 1) /\ v + 1 <= o.before
      /\ (k = o.before /\ v + 1 = k) \/ (k # o.before /\ v + 1 = k + 1 /\ p = i - k)
  <2>1. v = IF k = o.before THEN k - 1 ELSE k
    BY <1>5
  <2>. QED BY <1>3, <1>4, <2>1
<1>10. ASSUME NEW j \in 1..(v + 1) PROVE d.pending[j] = ((i + 1) - (v + 1)) + j
  <2>1. CASE j = v + 1
    BY <1>3, <1>6, <1>8, <2>1
  <2>2. CASE j # v + 1
    <3>1. j \in 1..v
      BY <1>6, <2>2
    <3>2. d.pending[j] = (i - v) + j
      BY <1>6, <1>8, <3>1
    <3>3. (i - v) + j = ((i + 1) - (v + 1)) + j
      BY <1>3, <1>6
    <3>. QED BY <3>2, <3>3
  <2>. QED BY <2>1, <2>2
<1>11. /\ p \in 0..((i + 1) - (v + 1)) /\ 0 \in 0..o.after
       /\ v + 1 = o.before \/ p = (i + 1) - (v + 1)
       /\ i - k <= (i + 1) - (v + 1) /\ ~(0 > 0)
  BY <1>3, <1>4, <1>6, <1>9
<1>12. Kept(l, d)
  <2>1. Len(d.pending) = v + 1 /\ d.lastPrinted = p /\ d.after = 0 /\ c.index = i
    BY <1>2, <1>8
  <2>2. /\ Len(d.pending) \in 0..(c.index + 1) /\ Len(d.pending) <= o.before
        /\ Len(d.pending) = o.before \/ d.lastPrinted = (c.index + 1) - Len(d.pending)
        /\ d.lastPrinted \in 0..((c.index + 1) - Len(d.pending)) /\ d.after \in 0..o.after
    BY <1>9, <1>11, <2>1
  <2>3. InRow(d.pending, c.index + 1)
    BY <1>10, <2>1 DEF InRow
  <2>4. /\ d.after > 0 => d.lastPrinted = c.index + 1
        /\ d.lastPrinted + d.after = c.lastPrinted + c.after
    BY <2>1
  <2>5. d.pending \in Seq(Nat)
    BY <1>8
  <2>. QED BY <1>1, <2>2, <2>3, <2>4, <2>5, KeptOther
<1>13. c.index - Len(c.pending) <= d.index - Len(d.pending)
  BY <1>2, <1>8, <1>11
<1>. QED BY <1>12, <1>13, LeaveOut

-----------------------------------------------------------------------------
(* What -c counts *)
Matches(l, S) == UNION {{i} \X (1..l[i]) : i \in S}

LEMMA MatchesStep ==
    ASSUME NEW l, NEW S, IsFiniteSet(Matches(l, S)), NEW e, e \notin S, l[e] \in Nat
    PROVE  /\ IsFiniteSet(Matches(l, S \cup {e}))
           /\ Cardinality(Matches(l, S \cup {e})) = Cardinality(Matches(l, S)) + l[e]
<1>. DEFINE T == {e} \X (1..l[e])
            M == Matches(l, S)
<1>1. Matches(l, S \cup {e}) = M \cup T
  BY DEF Matches
<1>2. M \cap T = {}
  BY DEF Matches
<1>3. IsFiniteSet({e}) /\ Cardinality({e}) = 1 /\ IsFiniteSet(1..l[e]) /\ Cardinality(1..l[e]) = l[e]
  <2>1. \A x \in Nat : IsFiniteSet(1..x) /\ Cardinality(1..x) = x
    <3>1. ASSUME NEW x \in Nat PROVE IsFiniteSet(1..x) /\ Cardinality(1..x) = x
      <4>1. IsFiniteSet(1..x) /\ Cardinality(1..x) = IF 1 > x THEN 0 ELSE x - 1 + 1
        BY FS_Interval
      <4>. QED BY <4>1
    <3>. QED BY <3>1
  <2>2. IsFiniteSet({e}) /\ Cardinality({e}) = 1
    BY FS_Singleton
  <2>. QED BY <2>1, <2>2
<1>4. IsFiniteSet(T) /\ Cardinality(T) = 1 * l[e]
  <2>1. IsFiniteSet(T) /\ Cardinality(T) = Cardinality({e}) * Cardinality(1..l[e])
    BY <1>3, FS_Product
  <2>. QED BY <1>3, <2>1
<1>5. Cardinality(T) = l[e]
  BY <1>4
<1>. HIDE DEF T, M
<1>6. IsFiniteSet(M) /\ Cardinality(M) \in Nat
  BY FS_CardinalityType DEF M
<1>7. IsFiniteSet(M \cup T) /\ Cardinality(M \cup T) = Cardinality(M) + Cardinality(T) - Cardinality(M \cap T)
  BY <1>4, <1>6, FS_Union
<1>8. Cardinality(M \cap T) = 0
  BY <1>2, FS_EmptySet
<1>9. Cardinality(M \cup T) = Cardinality(M) + l[e]
  BY <1>5, <1>6, <1>7, <1>8
<1>. QED BY <1>1, <1>7, <1>9 DEF M

LEMMA MatchesAre ==
    ASSUME NEW l \in Seq(Line)
    PROVE  \A n \in Nat : n <= Len(l) => IsFiniteSet(Matches(l, Hits(l, n)))
<1>. DEFINE K == {n \in Nat : n <= Len(l) => IsFiniteSet(Matches(l, Hits(l, n)))}
<1>1. 0 \in K
  <2>1. Matches(l, Hits(l, 0)) = {}
    BY HitsStep DEF Matches
  <2>. QED BY <2>1, FS_EmptySet
<1>2. ASSUME NEW n \in Nat, n \in K PROVE n + 1 \in K
  <2>1. ASSUME n + 1 <= Len(l) PROVE IsFiniteSet(Matches(l, Hits(l, n + 1)))
    <3>1. Len(l) \in Nat /\ n <= Len(l) /\ n + 1 \in 1..Len(l)
      BY <2>1, LenProperties
    <3>2. IsFiniteSet(Matches(l, Hits(l, n)))
      BY <1>2, <3>1
    <3>. HIDE DEF K
    <3>3. CASE ~Selects(l[n + 1])
      <4>1. Hits(l, n + 1) = Hits(l, n)
        BY <3>3, HitsStep
      <4>. QED BY <3>2, <4>1
    <3>4. CASE Selects(l[n + 1])
      <4>1. Hits(l, n + 1) = Hits(l, n) \cup {n + 1} /\ n + 1 \notin Hits(l, n)
        BY <3>4 DEF Hits
      <4>2. l[n + 1] \in Nat
        BY <3>1, <3>4, LineIs DEF Selects
      <4>. QED BY <3>2, <4>1, <4>2, MatchesStep
    <3>. QED BY <3>3, <3>4
  <2>. QED BY <2>1
<1>. HIDE DEF K
<1>3. Nat \subseteq K
  BY <1>1, <1>2, SetInduction
<1>. QED BY <1>3 DEF K

LEMMA CountedStep ==
    ASSUME NEW l \in Seq(Line), NEW i \in Nat, i < Len(l)
    PROVE  /\ ~Selects(l[i + 1]) => Counted(l, Hits(l, i + 1)) = Counted(l, Hits(l, i))
           /\ Selects(l[i + 1]) =>
                Counted(l, Hits(l, i + 1)) = Counted(l, Hits(l, i))
                  + IF On("only") /\ ~On("invert") THEN l[i + 1] ELSE 1
<1>1. Len(l) \in Nat /\ i <= Len(l) /\ i + 1 \in 1..Len(l)
  BY LenProperties
<1>2. ~Selects(l[i + 1]) => Hits(l, i + 1) = Hits(l, i)
  BY HitsStep
<1>3. ASSUME Selects(l[i + 1])
      PROVE  Counted(l, Hits(l, i + 1)) = Counted(l, Hits(l, i))
                  + IF On("only") /\ ~On("invert") THEN l[i + 1] ELSE 1
  <2>1. Hits(l, i + 1) = Hits(l, i) \cup {i + 1} /\ i + 1 \notin Hits(l, i)
    BY <1>3 DEF Hits
  <2>2. l[i + 1] \in Nat
    BY <1>1, <1>3, LineIs DEF Selects
  <2>3. CASE On("only") /\ ~On("invert")
    <3>1. IsFiniteSet(Matches(l, Hits(l, i)))
      BY <1>1, MatchesAre
    <3>2. Cardinality(Matches(l, Hits(l, i + 1))) = Cardinality(Matches(l, Hits(l, i))) + l[i + 1]
      BY <2>1, <2>2, <3>1, MatchesStep
    <3>. QED BY <2>3, <3>2 DEF Counted, Matches
  <2>4. CASE ~(On("only") /\ ~On("invert"))
    <3>1. Cardinality(Hits(l, i + 1)) = Cardinality(Hits(l, i)) + 1
      BY <1>3, HitsStep
    <3>. QED BY <2>4, <3>1 DEF Counted
  <2>. QED BY <2>3, <2>4
<1>. QED BY <1>2, <1>3

\* The counts before anything is read.
LEMMA CountedNone ==
    ASSUME NEW l
    PROVE  Counted(l, Hits(l, 0)) = 0
<1>1. Hits(l, 0) = {} /\ Cardinality({}) = 0
  BY HitsStep, FS_EmptySet
<1>2. UNION {{i} \X (1..l[i]) : i \in Hits(l, 0)} = {}
  BY <1>1
<1>. QED BY <1>1, <1>2 DEF Counted

\* Without -m, or before it has had enough, all hits are selected.
LEMMA AllSelected ==
    ASSUME job \in Jobs, NEW l \in Seq(Line), NEW i \in 0..Len(l),
           o.maxCount = 0 \/ Cardinality(Hits(l, i)) <= o.maxCount
    PROVE  \A j \in 1..i : j \in SelectedLines(l) <=> Selects(l[j])
<1>1. ASSUME NEW j \in 1..i, Selects(l[j]) PROVE j \in SelectedLines(l)
  <2>1. j \in 1..Len(l) /\ j \in Nat /\ j <= i /\ i \in Nat /\ o.maxCount \in Nat
    BY LenProperties, JobFacts
  <2>2. Cardinality(Hits(l, j)) <= Cardinality(Hits(l, i)) /\ Cardinality(Hits(l, j)) \in Nat
        /\ Cardinality(Hits(l, i)) \in Nat
    BY <2>1, HitsGrow, HitsAre
  <2>3. o.maxCount = 0 \/ Cardinality(Hits(l, j)) <= o.maxCount
    BY <2>1, <2>2
  <2>. QED BY <1>1, <2>1, <2>3, SelectedAre
<1>. QED BY <1>1, SelectedAre

-----------------------------------------------------------------------------
(* The search of one input, and what it is to print *)
LEMMA SameText ==
    ASSUME job' = job
    PROVE  /\ \A l : Body(l)' = Body(l) /\ \A k : Expected(k, l)' = Expected(k, l)
           /\ \A l, c : (Printed(l, c)' <=> Printed(l, c)) /\ (Tallied(l, c)' <=> Tallied(l, c))
<1>1. /\ \A l : SelectedLines(l)' = SelectedLines(l)
      /\ (BriefMode' <=> BriefMode) /\ o' = o /\ \A option : On(option)' <=> On(option)
      /\ (Listing' <=> Listing)
  BY SameJob DEF Listing
<1>2. WithContext' <=> WithContext
  BY <1>1 DEF WithContext
<1>3. ASSUME NEW l PROVE Shown(l)' = Shown(l)
  BY <1>1, <1>2 DEF Shown
<1>4. ASSUME NEW l, NEW i PROVE Gap(l, i)' <=> Gap(l, i)
  BY <1>2, <1>3 DEF Gap
<1>5. ASSUME NEW l, NEW i PROVE Piece(l, i)' = Piece(l, i)
  BY <1>1, <1>3, <1>4 DEF Piece
<1>6. ASSUME NEW l, NEW n PROVE Text(l, n)' = Text(l, n)
  BY <1>5 DEF Text
<1>7. ASSUME NEW l, NEW S PROVE Counted(l, S)' = Counted(l, S)
  BY <1>1 DEF Counted
<1>8. ASSUME NEW l PROVE Body(l)' = Body(l)
  BY <1>1, <1>6, <1>7 DEF Body
<1>9. ASSUME NEW l, NEW k PROVE Expected(k, l)' = Expected(k, l)
  BY <1>1, <1>5, <1>7 DEF Expected
<1>10. ASSUME NEW l, NEW c PROVE Kept(l, c)' <=> Kept(l, c)
  BY <1>1 DEF Kept, LastSelected, InRow
<1>11. ASSUME NEW l, NEW c PROVE Printed(l, c)' <=> Printed(l, c)
  BY <1>6, <1>10 DEF Printed
<1>12. ASSUME NEW l, NEW c PROVE Tallied(l, c)' <=> Tallied(l, c)
  BY <1>7, SameHits DEF Tallied
<1>. QED BY <1>8, <1>9, <1>11, <1>12

LEMMA Beginning ==
    ASSUME job \in Jobs, NEW l \in Seq(Line)
    PROVE  Printed(l, Start0) /\ Tallied(l, Start0)
<1>1. /\ Start0.index = 0 /\ Start0.pending = <<>> /\ Start0.after = 0 /\ Start0.lastPrinted = 0
      /\ Start0.out = <<>> /\ Start0.count = 0
  BY DEF Start0
<1>2. o.before \in Nat /\ o.after \in Nat /\ Len(l) \in Nat
  BY JobFacts, LenProperties
<1>3. \A s \in SelectedLines(l) : s > 0
  <2>1. \A s \in SelectedLines(l) : s \in 1..Len(l)
    BY SelectedAre
  <2>. QED BY <1>2, <2>1
<1>4. InRow(<<>>, 0)
  BY DEF InRow
<1>5. Len(Start0.pending) = 0 /\ Start0.pending \in Seq(Nat) /\ InRow(Start0.pending, 0)
  BY <1>1, <1>4
<1>6. Start0.index - Len(Start0.pending) = 0 /\ Kept(l, Start0)
  <2>1. /\ 0 \in 0..Len(l) /\ 0 \in 0..0 /\ 0 \in 0..(0 - 0) /\ 0 \in 0..o.after /\ 0 <= o.before
        /\ 0 = 0 - 0 /\ ~(0 > 0)
    BY <1>2
  <2>. QED BY <1>1, <1>3, <1>5, <2>1 DEF Kept
<1>7. Printed(l, Start0)
  BY <1>1, <1>6, TextStep DEF Printed
<1>. QED BY <1>1, <1>7, CountedNone DEF Tallied

\* The next line is one of the selected ones, or not.
LEMMA NextSelected ==
    ASSUME GrepIInv, pc = "search", input # <<>>, ~Exhausted, Selects(Head(input))
    PROVE  loop.index + 1 \in SelectedLines(Current)
<1>. DEFINE l == Current
            i == loop.index
<1>1. /\ l \in Seq(Line) /\ Len(l) \in Nat /\ Place(l) /\ i \in 0..(Len(l) - 1)
      /\ Head(input) = l[i + 1] /\ job \in Jobs /\ o.maxCount \in Nat
  BY InHand, JobFacts DEF GrepIInv, Control
<1>2. loop.selected = Cardinality(Hits(l, i)) /\ loop.selected \in Nat
  BY <1>1 DEF Place
<1>. HIDE DEF l
<1>3. i \in Nat /\ i + 1 \in 1..Len(l)
  BY <1>1
<1>4. Cardinality(Hits(l, i + 1)) = loop.selected + 1
  BY <1>1, <1>2, <1>3, HitsStep
<1>5. o.maxCount = 0 \/ Cardinality(Hits(l, i + 1)) <= o.maxCount
  BY <1>1, <1>2, <1>4 DEF Exhausted
<1>. QED BY <1>1, <1>3, <1>5, SelectedAre DEF l

LEMMA NextNotSelected ==
    ASSUME GrepIInv, pc = "search", input # <<>>,
           Exhausted \/ ~Selects(Head(input))
    PROVE  loop.index + 1 \notin SelectedLines(Current)
<1>. DEFINE l == Current
            i == loop.index
<1>1. /\ l \in Seq(Line) /\ Len(l) \in Nat /\ Place(l) /\ i \in 0..(Len(l) - 1)
      /\ Head(input) = l[i + 1] /\ job \in Jobs /\ o.maxCount \in Nat
  BY InHand, JobFacts DEF GrepIInv, Control
<1>2. CASE ~Selects(Head(input))
  <2>. HIDE DEF l
  <2>. QED BY <1>1, <1>2, SelectedAre DEF l
<1>3. CASE Exhausted
  <2>1. PICK m : Capped(l, i, m)
    BY <1>1, <1>3 DEF Place
  <2>. HIDE DEF l
  <2>2. /\ m \in 1..i /\ m \in 1..Len(l) /\ Selects(l[m]) /\ o.maxCount > 0
        /\ Cardinality(Hits(l, m)) = o.maxCount
    BY <1>1, <2>1 DEF Capped
  <2>3. SelectedLines(l) = Hits(l, m)
    BY <1>1, <2>2, FullAt
  <2>4. i + 1 \notin 1..m
    BY <1>1, <2>2
  <2>. QED BY <2>3, <2>4 DEF Hits, l
<1>. QED BY <1>2, <1>3

\* The steps of search, field by field.
LEMMA SelectedFields ==
    ASSUME loop = [f \in {"index", "pending", "after", "selected", "count", "lastPrinted", "out"} |-> loop[f]],
           NEW line, SelectedLine(line), ~On("count")
    PROVE  /\ loop'.index = loop.index + 1 /\ loop'.pending = <<>> /\ loop'.lastPrinted = loop.index + 1
           /\ loop'.after = o.after
           /\ loop'.out = loop.out \o
                (((IF /\ WithContext /\ loop.lastPrinted > 0
                      /\ (IF loop.pending = <<>> THEN loop.index + 1 ELSE Head(loop.pending)) > loop.lastPrinted + 1
                     THEN <<Separator>> ELSE <<>>)
                  \o [j \in DOMAIN loop.pending |-> Context(loop.pending[j])])
                 \o [m \in 1..(IF On("only") THEN line ELSE 1) |-> Hit(loop.index + 1)])
BY DEF SelectedLine

LEMMA OtherFields ==
    ASSUME loop = [f \in {"index", "pending", "after", "selected", "count", "lastPrinted", "out"} |-> loop[f]],
           OtherLine, ~On("count"), ~BriefMode
    PROVE  /\ loop'.index = loop.index + 1
           /\ \/ /\ loop.after = 0 /\ o.before = 0
                 /\ loop'.pending = loop.pending /\ loop'.lastPrinted = loop.lastPrinted
                 /\ loop'.after = loop.after /\ loop'.out = loop.out
              \/ /\ loop.after > 0
                 /\ loop'.pending = loop.pending /\ loop'.lastPrinted = loop.index + 1
                 /\ loop'.after = loop.after - 1
                 /\ loop'.out = Append(loop.out, Context(loop.index + 1))
              \/ /\ loop.after = 0 /\ o.before > 0
                 /\ \E w : /\ Len(loop.pending) = o.before => w = Tail(loop.pending)
                           /\ Len(loop.pending) # o.before => w = loop.pending
                           /\ Append(w, loop.index + 1) = loop'.pending
                 /\ loop'.lastPrinted = loop.lastPrinted
                 /\ loop'.after = loop.after /\ loop'.out = loop.out
<1>1. CASE /\ loop.after = 0 /\ o.before = 0
           /\ loop' = [loop EXCEPT !.index = loop.index + 1]
  BY <1>1
<1>2. CASE /\ loop.after > 0
           /\ loop' = [loop EXCEPT !.index = loop.index + 1, !.out = Append(@, Context(loop.index + 1)),
                                   !.lastPrinted = loop.index + 1, !.after = @ - 1]
  BY <1>2
<1>3. CASE /\ loop.after = 0 /\ o.before > 0
           /\ loop' = [loop EXCEPT !.index = loop.index + 1,
                         !.pending = Append(IF Len(@) = o.before THEN Tail(@) ELSE @, loop.index + 1)]
  <2>. DEFINE w == IF Len(loop.pending) = o.before THEN Tail(loop.pending) ELSE loop.pending
  <2>1. /\ loop'.index = loop.index + 1 /\ Append(w, loop.index + 1) = loop'.pending /\ loop'.out = loop.out
        /\ loop'.lastPrinted = loop.lastPrinted /\ loop'.after = loop.after
    BY <1>3
  <2>2. /\ Len(loop.pending) = o.before => w = Tail(loop.pending)
        /\ Len(loop.pending) # o.before => w = loop.pending
    OBVIOUS
  <2>. HIDE DEF w
  <2>. QED BY <1>3, <2>1, <2>2
<1>. QED BY <1>1, <1>2, <1>3 DEF OtherLine

LEMMA OutputSearchLine ==
    ASSUME GrepIInv, InLoop, SearchLine
    PROVE  InLoop'
<1>. DEFINE line == Head(input)
<1>1. /\ pc = "search" /\ input # <<>> /\ input' = Tail(input)
      /\ ~(Exhausted /\ (On("count") \/ loop.after = 0))
  BY DEF SearchLine
<1>2. PICK l, i : l = Current /\ i = loop.index
  OBVIOUS
<1>3. /\ l \in Seq(Line) /\ Len(l) \in Nat /\ i \in Nat /\ i < Len(l)
      /\ line = l[i + 1] /\ job \in Jobs
  <2>1. /\ l \in Seq(Line) /\ Len(l) \in Nat /\ i \in 0..(Len(l) - 1) /\ line = l[i + 1] /\ job \in Jobs
    BY <1>1, <1>2, InHand DEF GrepIInv, Control
  <2>. HIDE DEF line
  <2>. QED BY <2>1
<1>4. loop = [f \in {"index", "pending", "after", "selected", "count", "lastPrinted", "out"} |-> loop[f]]
  BY <1>1, InHand DEF Place
<1>5. ~BriefMode => IF On("count") THEN Tallied(l, loop) ELSE Printed(l, loop)
  BY <1>1, <1>2 DEF InLoop
\* It is enough to look at the lines that do not end the search.
<1>6. ASSUME NEW r, Done(r), r # "searched" \/ BriefMode,
             r = "search" /\ ~BriefMode =>
               IF On("count") THEN Tallied(l, loop') ELSE Printed(l, loop')
      PROVE  InLoop'
  <2>1. /\ pc' = r /\ job' = job /\ found' = found /\ entries' = entries /\ next' = next
    BY <1>6 DEF Done, world, walk
  <2>2. Current' = l /\ (BriefMode' <=> BriefMode) /\ (On("count")' <=> On("count"))
    BY <1>2, <2>1, SameLines, SameJob
  <2>3. \A c : (Printed(l, c)' <=> Printed(l, c)) /\ (Tallied(l, c)' <=> Tallied(l, c))
    BY <2>1, SameText
  <2>. QED BY <1>6, <2>1, <2>2, <2>3 DEF InLoop, Printed, Tallied
<1>7. CASE /\ line = Broken \/ line = TooLong \/ (line = Runaway /\ ~Exhausted)
           /\ Done(IF line = Broken /\ Fits(budget') THEN "unread" ELSE "limit")
  <2>1. (IF line = Broken /\ Fits(budget') THEN "unread" ELSE "limit") \in {"unread", "limit"}
    OBVIOUS
  <2>. QED BY <1>6, <1>7, <2>1
<1>8. CASE BriefMode /\ Done(IF Fits(budget') THEN "searched" ELSE "limit")
  BY <1>6, <1>8
<1>9. CASE /\ ~Exhausted /\ Selects(line) /\ ~BriefMode
           /\ SelectedLine(line)
           /\ Done(IF Fits(budget') THEN "search" ELSE "limit")
  <2>1. CASE On("count")
    <3>1. /\ loop'.index = i + 1 /\ loop'.out = loop.out
          /\ loop'.count = loop.count + IF On("only") /\ ~On("invert") THEN l[i + 1] ELSE 1
      BY <1>2, <1>3, <1>4, <1>9, <2>1 DEF SelectedLine
    <3>2. loop.out = <<>> /\ loop.count = Counted(l, Hits(l, i))
      BY <1>2, <1>5, <1>9, <2>1 DEF Tallied
    <3>3. Tallied(l, loop')
      BY <1>3, <1>9, <3>1, <3>2, CountedStep DEF Tallied
    <3>. QED BY <1>6, <1>9, <2>1, <3>3
  <2>2. CASE ~On("count")
    <3>1. i + 1 \in SelectedLines(l)
      BY <1>1, <1>2, <1>9, NextSelected
    <3>4. Printed(l, loop)
      BY <1>5, <1>9, <2>2
    <3>5. Printed(l, loop')
      <4>. DEFINE first == IF loop.pending = <<>> THEN loop.index + 1 ELSE Head(loop.pending)
                  items == ((IF WithContext /\ loop.lastPrinted > 0 /\ first > loop.lastPrinted + 1
                               THEN <<Separator>> ELSE <<>>)
                            \o [j \in DOMAIN loop.pending |-> Context(loop.pending[j])])
                           \o Hitting(l, loop.index + 1)
      <4>1. /\ loop'.index = loop.index + 1 /\ loop'.pending = <<>> /\ loop'.lastPrinted = loop.index + 1
            /\ loop'.after = o.after
        BY <1>4, <1>9, <2>2, SelectedFields
      <4>2. Hitting(l, loop.index + 1) = [m \in 1..(IF On("only") THEN line ELSE 1) |-> Hit(loop.index + 1)]
        BY <1>2, <1>3 DEF Hitting
      <4>3. loop'.out = loop.out \o items
        BY <1>4, <1>9, <2>2, <4>2, SelectedFields
      <4>4. loop.index < Len(l) /\ loop.index + 1 \in SelectedLines(l) /\ ~BriefMode
        BY <1>2, <1>3, <1>9, <3>1
      <4>5. loop'.out = loop.out \o items => Printed(l, loop')
        BY <1>3, <3>4, <4>1, <4>4, PrintSelected
      <4>. QED BY <4>3, <4>5
    <3>. QED BY <1>6, <1>9, <2>2, <3>5
  <2>. QED BY <2>1, <2>2
<1>10. CASE /\ (Exhausted /\ line \notin {Broken, TooLong}) \/ (line >= 0 /\ ~Selects(line))
            /\ OtherLine /\ ~BriefMode
            /\ Done(IF Fits(budget') /\ Len(loop'.pending) <= MaxContext THEN "search" ELSE "limit")
  <2>1. CASE On("count")
    <3>1. loop'.index = i + 1 /\ loop'.out = loop.out /\ loop'.count = loop.count
      BY <1>2, <1>4, <1>10, <2>1 DEF OtherLine
    <3>2. loop.out = <<>> /\ loop.count = Counted(l, Hits(l, i))
      BY <1>2, <1>5, <1>10, <2>1 DEF Tallied
    <3>3. ~Selects(l[i + 1])
      BY <1>1, <1>3, <1>10, <2>1
    <3>4. Tallied(l, loop')
      BY <1>3, <3>1, <3>2, <3>3, CountedStep DEF Tallied
    <3>. QED BY <1>6, <1>10, <2>1, <3>4
  <2>2. CASE ~On("count")
    <3>1. i + 1 \notin SelectedLines(l)
      BY <1>1, <1>2, <1>10, NextNotSelected
    <3>2. Printed(l, loop) /\ o.before \in Nat
      BY <1>3, <1>5, <1>10, <2>2, JobFacts
    <3>0. ~BriefMode /\ loop.index < Len(l) /\ loop.index + 1 \notin SelectedLines(l)
      BY <1>2, <1>3, <1>10, <3>1
    <3>7. loop'.index = loop.index + 1
      BY <1>4, <1>10, <2>2, OtherFields
    <3>6. Printed(l, loop') => InLoop'
      BY <1>6, <1>10, <2>2
    <3>3. CASE /\ loop.after = 0 /\ o.before = 0
               /\ loop'.pending = loop.pending /\ loop'.lastPrinted = loop.lastPrinted
               /\ loop'.after = loop.after /\ loop'.out = loop.out
      BY <1>3, <3>0, <3>7, <3>2, <3>3, <3>6, PrintNothing
    <3>4. CASE /\ loop.after > 0
               /\ loop'.pending = loop.pending /\ loop'.lastPrinted = loop.index + 1
               /\ loop'.after = loop.after - 1
               /\ loop'.out = Append(loop.out, Context(loop.index + 1))
      BY <1>3, <3>0, <3>7, <3>2, <3>4, <3>6, PrintTrailing
    <3>5. CASE /\ loop.after = 0 /\ o.before > 0
               /\ \E w : /\ Len(loop.pending) = o.before => w = Tail(loop.pending)
                         /\ Len(loop.pending) # o.before => w = loop.pending
                         /\ Append(w, loop.index + 1) = loop'.pending
               /\ loop'.lastPrinted = loop.lastPrinted
               /\ loop'.after = loop.after /\ loop'.out = loop.out
      BY <1>3, <3>0, <3>7, <3>2, <3>5, <3>6, PrintLeading
    <3>. QED BY <1>4, <1>10, <2>2, <3>3, <3>4, <3>5, <3>6, OtherFields
  <2>. QED BY <2>1, <2>2
<1>11. CASE BriefMode /\ Done(IF Fits(budget') /\ Len(loop'.pending) <= MaxContext THEN "search" ELSE "limit")
  BY <1>6, <1>11
<1>. QED BY <1>7, <1>8, <1>9, <1>10, <1>11 DEF SearchLine

LEMMA OutputSearchEnd ==
    ASSUME GrepIInv, InLoop, SearchEnd
    PROVE  InLoop'
<1>1. /\ pc = "search"
      /\ (Exhausted /\ (On("count") \/ loop.after = 0)) \/ input = <<>>
      /\ loop' = [loop EXCEPT !.out = @ \o IF On("count") THEN <<Total(loop.count)>> ELSE <<>>]
  BY DEF SearchEnd
<1>2. PICK l, i : l = Current /\ i = loop.index
  OBVIOUS
<1>3. /\ l \in Seq(Line) /\ Len(l) \in Nat /\ job \in Jobs /\ o.maxCount \in Nat /\ Place(l)
      /\ i \in 0..Len(l) /\ loop.selected \in Nat
  <2>1. l \in Seq(Line) /\ job \in Jobs /\ Place(l)
    <3>1. Control /\ Place(Current) /\ (Implicit \/ next > 0)
      BY <1>1 DEF GrepIInv, Control, Searching
    <3>. QED BY <1>2, <3>1, LinesAre DEF Control
  <2>. QED BY <1>2, <2>1, LenProperties, JobFacts DEF Place
<1>4. loop = [f \in {"index", "pending", "after", "selected", "count", "lastPrinted", "out"} |-> loop[f]]
  BY <1>3 DEF Place
<1>5. ~BriefMode => IF On("count") THEN Tallied(l, loop) ELSE Printed(l, loop)
  BY <1>1, <1>2 DEF InLoop
<1>6. PICK r \in {"searched", "limit"} : Done(r)
  BY DEF SearchEnd
<1>7. /\ pc' = r /\ job' = job /\ found' = found /\ entries' = entries /\ next' = next
  BY <1>6 DEF Done, world, walk
<1>8. Current' = l /\ (BriefMode' <=> BriefMode) /\ Body(l)' = Body(l)
  BY <1>2, <1>7, SameLines, SameJob, SameText
<1>9. input = <<>> => i = Len(l)
  <2>1. Len(input) = Len(l) - i
    BY <1>2, <1>3 DEF Place
  <2>2. input = <<>> => Len(input) = 0
    OBVIOUS
  <2>. QED BY <1>3, <2>1, <2>2
<1>10. ASSUME Exhausted
       PROVE  \E m : /\ m \in 1..i /\ SelectedLines(l) = Hits(l, m)
                     /\ On("count") => m = i
  <2>1. PICK m : Capped(l, i, m) /\ (On("count") => i = m)
    BY <1>2, <1>3, <1>10 DEF Place
  <2>2. /\ m \in 1..i /\ m \in 1..Len(l) /\ Selects(l[m]) /\ o.maxCount > 0
        /\ Cardinality(Hits(l, m)) = o.maxCount
    BY <1>3, <2>1 DEF Capped
  <2>. QED BY <1>3, <2>1, <2>2, FullAt
<1>11. ASSUME ~BriefMode PROVE loop'.out = Body(l)
  <2>1. CASE On("count")
    <3>1. loop.out = <<>> /\ loop.count = Counted(l, Hits(l, i))
      BY <1>2, <1>5, <1>11, <2>1 DEF Tallied
    <3>2. Hits(l, i) = SelectedLines(l)
      <4>1. CASE Exhausted
        BY <1>10, <2>1, <4>1
      <4>2. CASE ~Exhausted
        <5>1. i = Len(l) /\ i \in 0..Len(l)
          BY <1>1, <1>3, <1>9, <4>2
        <5>2. loop.selected = Cardinality(Hits(l, i))
          BY <1>2, <1>3, <4>2 DEF Place
        <5>3. o.maxCount = 0 \/ Cardinality(Hits(l, i)) <= o.maxCount
          BY <1>3, <4>2, <5>2 DEF Exhausted
        <5>4. \A j \in 1..i : j \in SelectedLines(l) <=> Selects(l[j])
          BY <1>3, <5>1, <5>3, AllSelected
        <5>. QED BY <1>3, <5>1, <5>4, SelectedAre DEF Hits
      <4>. QED BY <4>1, <4>2
    <3>. DEFINE t == <<Total(loop.count)>>
    <3>3. loop'.out = <<>> \o t
      BY <1>1, <1>4, <2>1, <3>1
    <3>4. t \in Seq({Total(loop.count)})
      OBVIOUS
    <3>. HIDE DEF t
    <3>5. loop'.out = t
      BY <3>3, <3>4, ConcatEmptySeq
    <3>. QED BY <2>1, <3>1, <3>2, <3>5 DEF Body, t
  <2>2. CASE ~On("count")
    <3>1. Printed(l, loop)
      BY <1>5, <1>11, <2>2
    <3>2. \A t \in SelectedLines(l) : t <= i
      <4>1. CASE Exhausted
        <5>1. PICK m : m \in 1..i /\ SelectedLines(l) = Hits(l, m)
          BY <1>10, <4>1
        <5>. QED BY <1>3, <5>1 DEF Hits
      <4>2. CASE ~Exhausted
        <5>1. i = Len(l)
          BY <1>1, <1>9, <4>2
        <5>. QED BY <1>3, <5>1, SelectedAre
      <4>. QED BY <4>1, <4>2
    <3>3. loop.after = 0 \/ i = Len(l)
      BY <1>1, <1>9, <2>2
    <3>4. loop.out = Text(l, Len(l))
      BY <1>2, <1>3, <1>11, <3>1, <3>2, <3>3, NothingLeft
    <3>5. Text(l, Len(l)) \in Seq(OutItem)
      BY <1>3, TextStep
    <3>6. loop'.out = loop.out \o <<>>
      BY <1>1, <1>4, <2>2
    <3>7. loop'.out = loop.out
      BY <3>4, <3>5, <3>6, ConcatEmptySeq
    <3>. QED BY <2>2, <3>4, <3>7 DEF Body
  <2>. QED BY <2>1, <2>2
<1>. QED BY <1>7, <1>8, <1>11 DEF InLoop

-----------------------------------------------------------------------------
(* What is written of all inputs *)
LEMMA CountedIs ==
    ASSUME NEW l \in Seq(Line)
    PROVE  Counted(l, SelectedLines(l)) \in Nat
<1>. DEFINE S == SelectedLines(l)
            H == Hits(l, Len(l))
<1>1. S \subseteq H /\ Len(l) \in Nat /\ Len(l) <= Len(l)
  BY SelectedAre
<1>2. IsFiniteSet(H) /\ IsFiniteSet(Matches(l, H))
  BY <1>1, HitsAre, MatchesAre
<1>. HIDE DEF S, H
<1>3. Matches(l, S) \subseteq Matches(l, H)
  BY <1>1 DEF Matches
<1>4. Cardinality(S) \in Nat /\ Cardinality(Matches(l, S)) \in Nat
  BY <1>1, <1>2, <1>3, FS_Subset, FS_CardinalityType
<1>. QED BY <1>4 DEF Counted, Matches, S

LEMMA ExpectedIs ==
    ASSUME NEW l \in Seq(Line), NEW k \in Nat
    PROVE  /\ Expected(k, l) \in Seq(OutItem)
           /\ ~BriefMode => Expected(k, l) = Body(l)
<1>1. DOMAIN l = 1..Len(l) /\ Len(l) \in 0..Len(l)
  BY LenProperties
<1>2. FlattenSeq([i \in DOMAIN l |-> Piece(l, i)]) = Text(l, Len(l)) /\ Text(l, Len(l)) \in Seq(OutItem)
  BY <1>1, TextStep DEF Text
<1>3. Total(Counted(l, SelectedLines(l))) \in OutItem /\ Name(k) \in OutItem
  BY CountedIs, ItemsAre
<1>4. /\ <<Total(Counted(l, SelectedLines(l)))>> \in Seq(OutItem) /\ <<Name(k)>> \in Seq(OutItem)
      /\ <<>> \in Seq(OutItem)
  BY <1>3
<1>5. Expected(k, l) \in Seq(OutItem)
  BY <1>2, <1>4 DEF Expected
<1>6. ~BriefMode => Expected(k, l) = Body(l)
  BY <1>2 DEF Expected, Body, BriefMode
<1>. QED BY <1>5, <1>6

\* What the k-th entry adds.
Adds(k) == IF Searched(k) THEN Expected(k, Lines(k)) ELSE <<>>

LEMMA WholeNone == Whole(0) = <<>>
<1>. DEFINE f == [i \in 1..1 |-> <<>>]
<1>1. \A i \in 1..(0 + 1) : f[i] \in Seq(OutItem)
  OBVIOUS
<1>2. [i \in 1..0 |-> f[i]] = [k \in 1..0 |-> Adds(k)]
  OBVIOUS
<1>. HIDE DEF f
<1>3. FlattenSeq([i \in 1..0 |-> f[i]]) = <<>>
  BY <1>1, FlattenNext
<1>. QED BY <1>2, <1>3 DEF Whole, Adds

LEMMA WholeStep ==
    ASSUME Control, NEW n \in Nat, n < next
    PROVE  /\ Whole(n) \in Seq(OutItem) /\ Adds(n + 1) \in Seq(OutItem)
           /\ Whole(n + 1) = Whole(n) \o Adds(n + 1)
<1>1. next \in Nat /\ <<>> \in Seq(OutItem)
  BY DEF Control
<1>2. \A k \in 1..(n + 1) : Adds(k) \in Seq(OutItem)
  <2>1. ASSUME NEW k \in 1..(n + 1) PROVE Adds(k) \in Seq(OutItem)
    <3>1. k \in 1..next /\ k \in Nat
      BY <1>1
    <3>2. Lines(k) \in Seq(Line)
      BY <3>1, LinesAre
    <3>. QED BY <1>1, <3>1, <3>2, ExpectedIs DEF Adds
  <2>. QED BY <2>1
<1>. DEFINE f == [k \in 1..(n + 1) |-> Adds(k)]
<1>3. n + 1 \in 1..(n + 1) /\ 1..n \subseteq 1..(n + 1)
  OBVIOUS
<1>4. \A k \in 1..(n + 1) : f[k] \in Seq(OutItem) /\ f[k] = Adds(k)
  BY <1>2
<1>5. /\ [k \in 1..n |-> f[k]] = [k \in 1..n |-> Adds(k)]
      /\ [k \in 1..(n + 1) |-> f[k]] = [k \in 1..(n + 1) |-> Adds(k)]
  BY <1>3, <1>4
<1>. HIDE DEF f
<1>6. /\ FlattenSeq([k \in 1..n |-> f[k]]) \in Seq(OutItem)
      /\ FlattenSeq([k \in 1..(n + 1) |-> f[k]]) = FlattenSeq([k \in 1..n |-> f[k]]) \o f[n + 1]
  BY <1>4, FlattenNext
<1>7. f[n + 1] = Adds(n + 1) /\ Adds(n + 1) \in Seq(OutItem)
  BY <1>2, <1>3, <1>4
<1>. QED BY <1>5, <1>6, <1>7 DEF Whole, Adds

\* What was written of the entries so far does not change.
LEMMA SameAdds ==
    ASSUME job' = job, NEW k, found'[k] = found[k], Lines(k)' = Lines(k)
    PROVE  Adds(k)' = Adds(k)
<1>1. PICK l : l = Lines(k) /\ Lines(k)' = l
  OBVIOUS
<1>2. Searched(k)' <=> Searched(k)
  BY <1>1, SameJob DEF Searched
<1>3. Expected(k, l)' = Expected(k, l)
  BY SameText
<1>4. Expected(k, Lines(k))' = Expected(k, l)'
  BY <1>1 DEF Expected
<1>. QED BY <1>1, <1>2, <1>3, <1>4 DEF Adds

LEMMA SameWhole ==
    ASSUME job' = job, NEW n,
           \A k \in 1..n : found'[k] = found[k] /\ Lines(k)' = Lines(k)
    PROVE  Whole(n)' = Whole(n)
<1>1. \A k \in 1..n : Adds(k)' = Adds(k)
  BY SameAdds
<1>. QED BY <1>1 DEF Whole, Adds

\* An entry that is not searched adds nothing.
LEMMA WholeSkips ==
    ASSUME Control, NEW m \in Nat, m = next, NEW n, n = m + 1,
           \A k \in 1..m : Adds(k)' = Adds(k), Adds(n)' = <<>>
    PROVE  Whole(n)' = Whole(m)
<1>. DEFINE f == [k \in 1..(m + 1) |-> IF k = n THEN <<>> ELSE Adds(k)]
<1>1. /\ 1..m \subseteq 1..(m + 1) /\ m + 1 \in 1..(m + 1)
      /\ \A k \in 1..(m + 1) : k = n \/ k \in 1..m
      /\ \A k \in 1..m : k # n /\ k \in Nat
  OBVIOUS
<1>2. ASSUME NEW k \in 1..m PROVE Adds(k) \in Seq(OutItem)
  <2>1. Lines(k) \in Seq(Line) /\ k \in Nat
    BY <1>1, LinesAre
  <2>2. <<>> \in Seq(OutItem)
    OBVIOUS
  <2>. QED BY <2>1, <2>2, ExpectedIs DEF Adds
<1>3. /\ \A k \in 1..(m + 1) : f[k] \in Seq(OutItem) /\ f[k] = Adds(k)'
      /\ \A k \in 1..m : f[k] = Adds(k)
      /\ f[m + 1] = <<>>
  BY <1>1, <1>2
<1>4. /\ [k \in 1..m |-> f[k]] = [k \in 1..m |-> Adds(k)]
      /\ [k \in 1..(m + 1) |-> f[k]] = [k \in 1..n |-> Adds(k)']
  BY <1>1, <1>3
<1>. HIDE DEF f
<1>5. /\ FlattenSeq([k \in 1..m |-> f[k]]) \in Seq(OutItem)
      /\ FlattenSeq([k \in 1..(m + 1) |-> f[k]]) = FlattenSeq([k \in 1..m |-> f[k]]) \o f[m + 1]
  BY <1>3, FlattenNext
<1>6. FlattenSeq([k \in 1..(m + 1) |-> f[k]]) = FlattenSeq([k \in 1..m |-> f[k]])
  BY <1>3, <1>5, ConcatEmptySeq
<1>. QED BY <1>4, <1>6 DEF Whole, Adds

LEMMA KeptWhole ==
    ASSUME UNCHANGED <<job, found, entries, next>>
    PROVE  \A n : Whole(n)' = Whole(n)
<1>1. ASSUME NEW n PROVE Whole(n)' = Whole(n)
  BY SameLines, SameWhole
<1>. QED BY <1>1

\* The command ends.
LEMMA OutputEnds ==
    ASSUME UNCHANGED <<job, found, entries, next>>, pc' = "done",
           Implicit => stdout' = IF status' \in {"0", "1"} /\ ~Refused THEN Expected(0, Piped) ELSE <<>>,
           ~Implicit => \E n \in {next - 1, next} \cap Nat :
                          stdout' = Whole(n) /\ (status' \in {"0", "1"} => n = next)
    PROVE  OutputIInv'
<1>1. (Implicit' <=> Implicit) /\ (Refused' <=> Refused) /\ Piped' = Piped
  BY SameJob
<1>2. Expected(0, Piped)' = Expected(0, Piped)
  <2>1. PICK l : l = Piped /\ Piped' = l
    BY <1>1
  <2>2. Expected(0, l)' = Expected(0, l)
    BY SameText
  <2>3. Expected(0, Piped)' = Expected(0, l)'
    BY <2>1 DEF Expected
  <2>. QED BY <2>1, <2>2, <2>3
<1>3. \A n : Whole(n)' = Whole(n)
  BY KeptWhole
<1>4. OutputIsReference'
  BY <1>1, <1>2, <1>3 DEF OutputIsReference
<1>5. (InLoop /\ Opened /\ Written)'
  BY DEF InLoop, Opened, Written, AtEntry
<1>. QED BY <1>4, <1>5 DEF OutputIInv

\* An input with nothing selected.
LEMMA NothingShown ==
    ASSUME NEW l \in Seq(Line), SelectedLines(l) = {}
    PROVE  Text(l, Len(l)) = <<>>
<1>1. Len(l) \in Nat
  BY LenProperties
<1>2. 0 \in 0..Len(l) /\ Len(l) \in 0..Len(l)
  BY <1>1
<1>3. \A j \in (0 + 1)..Len(l) : j \notin Shown(l)
  BY ShownAre
<1>4. Text(l, Len(l)) = Text(l, 0)
  BY <1>2, <1>3, EmptyTail
<1>. QED BY <1>4, TextStep

\* What one file contributes.
LEMMA Contributes ==
    ASSUME GrepIInv, InLoop, Opened, pc = "searched"
    PROVE  /\ Output = Expected(next, Current) /\ Output \in Seq(OutItem)
           /\ ~Implicit => Output = Adds(next)
<1>1. /\ Control /\ next \in Nat /\ Current \in Seq(Line) /\ Faults(Current) = {}
      /\ (Matched <=> SelectedLines(Current) # {})
  <2>1. Control /\ (Implicit \/ next > 0)
    BY DEF GrepIInv, Control
  <2>. QED BY <2>1, LinesAre DEF GrepIInv, Control, Searching
<1>2. PICK l : l = Current
  OBVIOUS
<1>3. ~BriefMode => loop.out = Body(l) /\ Expected(next, l) = Body(l)
  BY <1>1, <1>2, ExpectedIs DEF InLoop
<1>4. ~BriefMode /\ ~Matched /\ ~On("count") => Body(l) = <<>>
  BY <1>1, <1>2, NothingShown DEF Body
<1>5. Output = Expected(next, l)
  <2>1. CASE On("quiet")
    BY <2>1 DEF Output, Expected
  <2>2. CASE ~On("quiet") /\ Listing
    BY <1>1, <1>2, <2>2 DEF Output, Expected, Listing
  <2>3. CASE ~On("quiet") /\ ~Listing
    <3>1. ~BriefMode
      BY <2>3 DEF BriefMode
    <3>. QED BY <1>3, <1>4, <2>3, <3>1 DEF Output, Listing
  <2>. QED BY <2>1, <2>2, <2>3
<1>6. Output \in Seq(OutItem)
  BY <1>1, <1>2, <1>5, ExpectedIs
<1>7. ASSUME ~Implicit PROVE Output = Adds(next)
  <2>1. Current = Lines(next) /\ Searched(next)
    BY <1>1, <1>7 DEF Current, Searched, Opened, AtEntry
  <2>. QED BY <1>2, <1>5, <2>1 DEF Adds
<1>. QED BY <1>2, <1>5, <1>6, <1>7

-----------------------------------------------------------------------------
(* The steps of the command, and its output *)

\* The command ends with an error.
LEMMA OutputBreaks ==
    ASSUME GrepIInv, OutputIInv, UNCHANGED <<job, found, entries, next, stdout>>, pc # "done",
           pc' = "done", status' \notin {"0", "1"}
    PROVE  OutputIInv'
<1>1. next \in Nat /\ (pc \in AtEntry /\ ~Implicit => next > 0)
  BY DEF GrepIInv, Control, AtEntry
<1>2. ~Implicit => (stdout = Whole(next - 1) /\ next - 1 \in Nat) \/ stdout = Whole(next)
  BY <1>1 DEF OutputIInv, Written
<1>3. Implicit => stdout = <<>>
  BY DEF OutputIInv, Written
<1>. QED BY <1>1, <1>2, <1>3, OutputEnds

\* Nothing is written, and the command goes on at the same entry.
LEMMA WrittenKept ==
    ASSUME Written, Opened, UNCHANGED <<job, found, entries, next, stdout>>, pc # "done",
           pc' \in AtEntry <=> pc \in AtEntry
    PROVE  Written' /\ Opened'
<1>1. Implicit' <=> Implicit
  BY SameJob
<1>2. \A n : Whole(n)' = Whole(n)
  BY KeptWhole
<1>3. Opened'
  BY <1>1 DEF Opened
<1>4. PICK n : n = IF pc \in AtEntry THEN next - 1 ELSE next
  OBVIOUS
<1>5. Whole(IF pc \in AtEntry THEN next - 1 ELSE next)' = Whole(n)'
  BY <1>4 DEF Whole
<1>. QED BY <1>1, <1>2, <1>3, <1>4, <1>5 DEF Written

LEMMA OutputStays ==
    ASSUME OutputIInv, UNCHANGED <<job, pc, entries, next, loop, found, stdout, status>>
    PROVE  OutputIInv'
<1>1. CASE pc = "done"
  <2>1. OutputIsReference
    BY <1>1 DEF OutputIInv
  <2>. QED BY <1>1, <2>1, OutputEnds DEF OutputIsReference
<1>2. CASE pc # "done"
  <2>1. PICK l : l = Current /\ Current' = l
    BY SameLines
  <2>2. InLoop'
    <3>1. InLoop /\ (BriefMode' <=> BriefMode) /\ (On("count")' <=> On("count"))
      BY SameJob DEF OutputIInv
    <3>2. /\ Body(l)' = Body(l) /\ (Printed(l, loop)' <=> Printed(l, loop))
          /\ (Tallied(l, loop)' <=> Tallied(l, loop))
      <4>1. PICK c : c = loop /\ loop' = c
        OBVIOUS
      <4>2. Body(l)' = Body(l) /\ (Printed(l, c)' <=> Printed(l, c)) /\ (Tallied(l, c)' <=> Tallied(l, c))
        BY SameText
      <4>3. (Printed(l, loop)' <=> Printed(l, c)') /\ (Tallied(l, loop)' <=> Tallied(l, c)')
        BY <4>1 DEF Printed, Tallied
      <4>. QED BY <4>1, <4>2, <4>3
    <3>3. /\ Body(Current)' = Body(l)' /\ (Printed(Current, loop)' <=> Printed(l, loop)')
          /\ (Tallied(Current, loop)' <=> Tallied(l, loop)')
      BY <2>1 DEF Body, Printed, Tallied
    <3>. QED BY <2>1, <3>1, <3>2, <3>3 DEF InLoop
  <2>3. Written' /\ Opened'
    BY <1>2, WrittenKept DEF OutputIInv
  <2>. QED BY <1>2, <2>2, <2>3 DEF OutputIInv
<1>. QED BY <1>1, <1>2

LEMMA OutputInit ==
    ASSUME Init
    PROVE  OutputIInv
<1>1. pc = "start" /\ next = 0 /\ stdout = <<>>
  BY DEF Init
<1>2. Whole(0) = <<>>
  BY WholeNone
<1>. QED BY <1>1, <1>2 DEF OutputIInv, InLoop, Opened, Written, AtEntry

LEMMA OutputSetup ==
    ASSUME GrepIInv, OutputIInv, Setup
    PROVE  OutputIInv'
<1>1. /\ pc = "start" /\ next = 0 /\ loop = Start0 /\ job \in Jobs
      /\ UNCHANGED <<job, entries, next, loop, found, stdout>>
  BY DEF Setup, world, GrepIInv, Control
<1>2. Whole(0) = <<>> /\ stdout = <<>>
  BY <1>1, WholeNone DEF OutputIInv, Written, AtEntry
<1>3. CASE pc' = "done"
  <2>1. Refused
    BY <1>3 DEF Setup, Refused
  <2>2. \E n \in {next - 1, next} \cap Nat : stdout' = Whole(n) /\ (status' \in {"0", "1"} => n = next)
    BY <1>1, <1>2
  <2>. QED BY <1>1, <1>2, <1>3, <2>1, <2>2, OutputEnds
<1>4. CASE pc' # "done"
  <2>1. Implicit' <=> Implicit
    BY <1>1, SameJob
  <2>2. CASE Implicit
    <3>1. pc' = "search"
      BY <1>4, <2>2 DEF Setup, Ends
    <3>2. PICK l : l = Piped /\ Current' = l
      BY <1>1, <2>2, SameJob DEF Current
    <3>3. l \in Seq(Line)
      BY <2>2, <3>2, LinesAre DEF GrepIInv, Current
    <3>4. Printed(l, Start0)' /\ Tallied(l, Start0)'
      BY <1>1, <3>3, Beginning, SameText
    <3>5. Printed(Current, loop)' /\ Tallied(Current, loop)'
      BY <1>1, <3>2, <3>4 DEF Printed, Tallied
    <3>. QED BY <1>1, <1>2, <2>1, <2>2, <3>1, <3>5 DEF OutputIInv, InLoop, Opened, Written
  <2>3. CASE ~Implicit
    <3>1. pc' = "collect"
      BY <1>4, <2>3 DEF Setup, Ends
    <3>2. Written' /\ Opened'
      BY <1>1, <3>1, WrittenKept DEF OutputIInv, AtEntry
    <3>. QED BY <3>1, <3>2 DEF OutputIInv, InLoop
  <2>. QED BY <2>2, <2>3
<1>. QED BY <1>3, <1>4

LEMMA OutputCollected ==
    ASSUME GrepIInv, OutputIInv, pc = "collect", NEW t, NEW entry, NEW more, Collected(t, entry, more)
    PROVE  OutputIInv'
<1>1. next = 0 /\ ~Implicit /\ UNCHANGED <<job, next, found, stdout>>
  BY DEF Collected, world, search, GrepIInv, Control
<1>2. CASE InBudget(t)
  <2>1. pc' = "collect"
    BY <1>2 DEF Collected
  <2>2. Whole(0)' = Whole(0) /\ stdout = Whole(0) /\ ~Implicit'
    BY <1>1, SameWhole, SameJob DEF OutputIInv, Written, AtEntry
  <2>3. Whole(next)' = Whole(0)'
    BY <1>1 DEF Whole
  <2>4. pc' \notin AtEntry
    BY <2>1 DEF AtEntry
  <2>. QED BY <1>1, <2>1, <2>2, <2>3, <2>4 DEF OutputIInv, InLoop, Opened, Written
<1>3. CASE ~InBudget(t)
  <2>1. pc' = "done" /\ status' = "2" /\ UNCHANGED entries
    BY <1>3 DEF Collected, Ends
  <2>. QED BY <1>1, <2>1, OutputBreaks
<1>. QED BY <1>2, <1>3

LEMMA OutputWalkFiles ==
    ASSUME GrepIInv, OutputIInv, WalkFiles
    PROVE  OutputIInv'
<1>1. pc = "collect" /\ \E t, entry, more : Collected(t, entry, more)
  BY DEF WalkFiles
<1>. QED BY <1>1, OutputCollected

LEMMA OutputCollectEnd ==
    ASSUME GrepIInv, OutputIInv, CollectEnd
    PROVE  OutputIInv'
<1>1. pc = "collect" /\ pc' = "next" /\ UNCHANGED <<job, found, entries, next, stdout>>
  BY DEF CollectEnd, world, walk
<1>2. Written' /\ Opened'
  BY <1>1, WrittenKept DEF OutputIInv, AtEntry
<1>. QED BY <1>1, <1>2 DEF OutputIInv, InLoop

LEMMA OutputOpenInput ==
    ASSUME GrepIInv, OutputIInv, OpenInput
    PROVE  OutputIInv'
<1>0. PICK m \in Nat, n \in Nat : m = next /\ n = m + 1
  BY DEF GrepIInv, Control
<1>1. /\ pc = "next" /\ Control /\ ~Implicit /\ job \in Jobs /\ next' = n
      /\ UNCHANGED <<job, entries, stdout>>
      /\ found \in Seq(Kinds) /\ Len(found) = m
  BY <1>0 DEF OpenInput, world, walk, GrepIInv, Control
<1>2. PICK kind \in Kinds :
        /\ found' = Append(found, kind)
        /\ pc' = IF kind \in {"file", "stdin"} THEN "search" ELSE "next"
        /\ loop' = IF kind \in {"file", "stdin"} THEN Start0 ELSE loop
  BY DEF OpenInput, Kinds
<1>3. /\ found'[n] = kind /\ \A k \in 1..m : found'[k] = found[k]
  BY <1>0, <1>1, <1>2, AppendProperties
<1>4. ASSUME NEW k \in 1..m PROVE Lines(k)' = Lines(k)
  <2>1. \A j \in 1..(k - 1) : found'[j] = found[j]
    BY <1>3
  <2>. QED BY <1>1, <1>3, <2>1 DEF Lines
<1>5. stdout = Whole(m) /\ ~Implicit'
  BY <1>0, <1>1, SameJob DEF OutputIInv, Written, AtEntry
<1>6. CASE kind \in {"file", "stdin"}
  <2>1. pc' = "search" /\ loop' = Start0
    BY <1>2, <1>6
  <2>2. Whole(m)' = Whole(m)
    BY <1>1, <1>3, <1>4, SameWhole
  <2>3. Whole(next - 1)' = Whole(m)'
    <3>1. next' - 1 = m
      BY <1>0, <1>1
    <3>. QED BY <3>1 DEF Whole
  <2>4. Written' /\ Opened'
    BY <1>1, <1>3, <1>5, <1>6, <2>1, <2>2, <2>3 DEF Written, Opened, AtEntry
  <2>5. PICK l : l = Current'
    OBVIOUS
  <2>6. l \in Seq(Line)
    <3>1. GrepIInv'
      BY StatusOpenInput
    <3>2. Control' /\ n \in 1..n
      BY <1>0, <3>1 DEF GrepIInv
    <3>3. Lines(n)' \in Seq(Line)
      <4>1. \A p \in DOMAIN job.disk : job.disk[p].lines \in Seq(Line)
        BY <1>1, JobFacts
      <4>2. job.stdin \in Seq(Line) /\ <<>> \in Seq(Line)
        BY <1>1, JobFacts
      <4>3. found'[n] = "file" => ResolvePath(entries[n]) \in DOMAIN job.disk
        BY <1>1, <3>2 DEF Control
      <4>. QED BY <1>1, <4>1, <4>2, <4>3 DEF Lines
    <3>4. Current' = Lines(n)'
      BY <1>1, <1>5 DEF Current, Lines
    <3>. QED BY <2>5, <3>3, <3>4
  <2>7. Printed(l, Start0)' /\ Tallied(l, Start0)'
    BY <1>1, <2>6, Beginning, SameText
  <2>8. Printed(Current, loop)' /\ Tallied(Current, loop)'
    BY <2>1, <2>5, <2>7 DEF Printed, Tallied
  <2>. QED BY <2>1, <2>4, <2>8 DEF OutputIInv, InLoop
<1>7. CASE kind \notin {"file", "stdin"}
  <2>1. pc' = "next"
    BY <1>2, <1>7
  <2>2. \A k \in 1..m : Adds(k)' = Adds(k)
    BY <1>1, <1>3, <1>4, SameAdds
  <2>3. Adds(n)' = <<>>
    BY <1>3, <1>7 DEF Adds, Searched
  <2>4. Whole(n)' = Whole(m)
    BY <1>0, <1>1, <2>2, <2>3, WholeSkips
  <2>5. Whole(next)' = Whole(n)'
    BY <1>1 DEF Whole
  <2>. QED BY <1>1, <1>5, <2>1, <2>4, <2>5 DEF OutputIInv, InLoop, Opened, Written, AtEntry
<1>. QED BY <1>6, <1>7

LEMMA OutputSearch ==
    ASSUME GrepIInv, OutputIInv, SearchLine \/ SearchEnd
    PROVE  OutputIInv'
<1>1. pc = "search" /\ \E r \in {"search", "searched", "unread", "limit"} : Done(r)
  BY DEF SearchLine, SearchEnd
<1>2. pc' \in AtEntry /\ UNCHANGED <<job, found, entries, next, stdout>>
  BY <1>1 DEF Done, world, walk, AtEntry
<1>3. Written' /\ Opened'
  BY <1>1, <1>2, WrittenKept DEF OutputIInv, AtEntry
<1>4. InLoop'
  BY OutputSearchLine, OutputSearchEnd DEF OutputIInv
<1>. QED BY <1>2, <1>3, <1>4 DEF OutputIInv, AtEntry

\* A file whose search fails adds nothing.
LEMMA OutputUnread ==
    ASSUME GrepIInv, OutputIInv, Unread
    PROVE  OutputIInv'
<1>1. /\ pc = "unread" /\ Control /\ Faults(Current) = {Broken}
      /\ UNCHANGED <<job, found, entries, next, stdout>>
  BY DEF Unread, world, walk, GrepIInv, Searching
<1>2. CASE Implicit
  <2>1. pc' = "done" /\ status' = "2"
    BY <1>2 DEF Unread, Ends
  <2>. QED BY <1>1, <2>1, OutputBreaks
<1>3. CASE ~Implicit
  <2>1. pc' = "next" /\ ~Implicit'
    BY <1>1, <1>3, SameJob DEF Unread
  <2>2. PICK n \in Nat : next = n + 1
    BY <1>1, <1>3 DEF Control
  <2>3. Adds(next) = <<>>
    BY <1>1, <1>3 DEF Adds, Searched, Current
  <2>4. Whole(n) \in Seq(OutItem) /\ Whole(n + 1) = Whole(n) \o Adds(n + 1)
    BY <1>1, <2>2, WholeStep
  <2>5. Whole(next) = Whole(next - 1)
    BY <2>2, <2>3, <2>4, ConcatEmptySeq
  <2>6. stdout = Whole(next)
    BY <1>1, <1>3, <2>5 DEF OutputIInv, Written, AtEntry
  <2>7. PICK k : k = next /\ next' = k
    BY <1>1
  <2>8. Whole(next)' = Whole(next)
    <3>1. Whole(k)' = Whole(k)
      BY <1>1, KeptWhole
    <3>2. Whole(next)' = Whole(k)'
      BY <2>7 DEF Whole
    <3>. QED BY <2>7, <3>1, <3>2
  <2>. QED BY <1>1, <2>1, <2>6, <2>8 DEF OutputIInv, InLoop, Opened, Written, AtEntry
<1>. QED BY <1>2, <1>3

LEMMA OutputAllDone ==
    ASSUME GrepIInv, OutputIInv, AllDone
    PROVE  OutputIInv'
<1>1. /\ pc = "next" /\ pc' = "done" /\ ~Implicit /\ next \in Nat
      /\ UNCHANGED <<job, found, entries, next, stdout>>
  BY DEF AllDone, Ends, world, walk, GrepIInv, Control
<1>2. stdout = Whole(next)
  BY <1>1 DEF OutputIInv, Written, AtEntry
<1>. QED BY <1>1, <1>2, OutputEnds

LEMMA OutputFileDone ==
    ASSUME GrepIInv, OutputIInv, FileDone
    PROVE  OutputIInv'
<1>1. /\ pc = "searched" /\ Control /\ next \in Nat /\ (Implicit => next = 0) /\ (~Implicit => next > 0)
      /\ ~Refused
      /\ UNCHANGED <<job, found, entries, next>>
  BY DEF FileDone, world, walk, GrepIInv, Control
<1>2. /\ Output = Expected(next, Current) /\ Output \in Seq(OutItem)
      /\ ~Implicit => Output = Adds(next)
  BY <1>1, Contributes DEF OutputIInv
<1>3. ASSUME ~Implicit
      PROVE  Whole(next) = stdout \o Output /\ stdout \in Seq(OutItem)
  <2>1. PICK n \in Nat : next = n + 1
    BY <1>1, <1>3
  <2>2. Whole(n) \in Seq(OutItem) /\ Whole(n + 1) = Whole(n) \o Adds(n + 1)
    BY <1>1, <2>1, WholeStep
  <2>3. stdout = Whole(n)
    <3>1. stdout = Whole(next - 1)
      BY <1>1, <1>3 DEF OutputIInv, Written, AtEntry
    <3>. QED BY <2>1, <3>1
  <2>. QED BY <1>2, <1>3, <2>1, <2>2, <2>3
<1>4. ASSUME Implicit
      PROVE  Expected(0, Piped) = stdout \o Output /\ stdout = <<>>
  <2>1. stdout = <<>> /\ next = 0 /\ Current = Piped
    BY <1>1, <1>4 DEF OutputIInv, Written, Current
  <2>2. <<>> \o Output = Output
    BY <1>2, ConcatEmptySeq
  <2>. QED BY <1>2, <2>1, <2>2
<1>5. On("quiet") => stdout \o Output = stdout
  <2>1. On("quiet") => Output = <<>>
    BY DEF Output
  <2>2. <<>> \in Seq(OutItem)
    OBVIOUS
  <2>3. stdout \in Seq(OutItem)
    BY <1>3, <1>4, <2>2, Zenon
  <2>. QED BY <2>1, <2>3, ConcatEmptySeq
<1>6. ASSUME pc' = "done", status' \in {"0", "1"}, stdout' = stdout \o Output PROVE OutputIInv'
  <2>1. Implicit => stdout' = Expected(0, Piped)
    BY <1>4, <1>6
  <2>2. ~Implicit => stdout' = Whole(next)
    BY <1>3, <1>6
  <2>. QED BY <1>1, <1>6, <2>1, <2>2, OutputEnds
<1>7. CASE On("quiet") /\ Matched /\ Ends("0") /\ UNCHANGED <<stdout, budget>>
  BY <1>5, <1>6, <1>7 DEF Ends
<1>8. CASE (Ends("2") \/ Ends("write")) /\ UNCHANGED stdout
  BY <1>1, <1>8, OutputBreaks DEF Ends
<1>9. CASE stdout' = stdout \o Output /\ Implicit /\ Ends(IF Matched THEN "0" ELSE "1")
  BY <1>6, <1>9 DEF Ends
<1>10. CASE stdout' = stdout \o Output /\ ~Implicit /\ pc' = "next"
  <2>1. ~Implicit' /\ stdout' = Whole(next)
    BY <1>1, <1>3, <1>10, SameJob
  <2>2. Whole(next)' = Whole(next)
    <3>1. PICK k : k = next /\ next' = k
      BY <1>1
    <3>2. Whole(k)' = Whole(k)
      BY <1>1, KeptWhole
    <3>3. Whole(next)' = Whole(k)'
      BY <3>1 DEF Whole
    <3>. QED BY <3>1, <3>2, <3>3
  <2>. QED BY <1>10, <2>1, <2>2 DEF OutputIInv, InLoop, Opened, Written, AtEntry
<1>. QED BY <1>7, <1>8, <1>9, <1>10 DEF FileDone

LEMMA OutputFollows ==
    ASSUME GrepIInv, OutputIInv
    PROVE  OutputIsReference
<1>1. CASE pc = "done"
  BY <1>1 DEF OutputIInv
<1>2. CASE pc # "done"
  <2>1. next \in Nat /\ status = "running" /\ (pc \in AtEntry /\ ~Implicit => next > 0)
    BY <1>2 DEF GrepIInv, Control, AtEntry
  <2>2. stdout = IF Implicit THEN <<>> ELSE Whole(IF pc \in AtEntry THEN next - 1 ELSE next)
    BY <1>2 DEF OutputIInv, Written
  <2>3. CASE Implicit
    BY <2>1, <2>2, <2>3 DEF OutputIsReference
  <2>4. CASE ~Implicit /\ pc \in AtEntry
    <3>1. next - 1 \in Nat /\ stdout = Whole(next - 1) /\ pc # "next"
      BY <2>1, <2>2, <2>4 DEF AtEntry
    <3>. QED BY <2>1, <2>4, <3>1 DEF OutputIsReference
  <2>5. CASE ~Implicit /\ pc \notin AtEntry
    BY <2>1, <2>2, <2>5 DEF OutputIsReference
  <2>. QED BY <2>3, <2>4, <2>5
<1>. QED BY <1>1, <1>2

\* Standard output holds exactly what the selected lines call for, file by
\* file, whatever the options, the inputs and the line a search stops at, and a
\* file whose search fails adds nothing (search.go:115-274).
THEOREM PrintsTheReference == Spec => []OutputIsReference
<1>1. Init => OutputIInv
  BY OutputInit
<1>2. GrepIInv /\ OutputIInv /\ [Next]_vars => OutputIInv'
  <2>. SUFFICES ASSUME GrepIInv, OutputIInv, [Next]_vars PROVE OutputIInv'
    OBVIOUS
  <2>1. CASE Setup
    BY <2>1, OutputSetup
  <2>2. CASE TakeOperand
    BY <2>2, OutputCollected DEF TakeOperand
  <2>3. CASE WalkFiles
    BY <2>3, OutputWalkFiles
  <2>4. CASE CollectEnd
    BY <2>4, OutputCollectEnd
  <2>5. CASE OpenInput
    BY <2>5, OutputOpenInput
  <2>6. CASE SearchLine \/ SearchEnd
    BY <2>6, OutputSearch
  <2>7. CASE Unread
    BY <2>7, OutputUnread
  <2>8. CASE Limit
    BY <2>8, OutputBreaks DEF Limit, Ends, world, walk
  <2>9. CASE FileDone
    BY <2>9, OutputFileDone
  <2>10. CASE AllDone
    BY <2>10, OutputAllDone
  <2>11. CASE Cancelled
    <3>1. pc # "done" /\ pc' = "done" /\ status' = "cancelled"
          /\ UNCHANGED <<job, found, entries, next, stdout>>
      BY <2>11 DEF Cancelled, Ends, world, walk
    <3>. QED BY <3>1, OutputBreaks
  <2>12. CASE Cancel
    BY <2>12, OutputStays DEF Cancel
  <2>13. CASE Vanish
    BY <2>13, OutputStays DEF Vanish
  <2>14. CASE UNCHANGED vars
    BY <2>14, OutputStays DEF vars
  <2>. QED
    BY <2>1, <2>2, <2>3, <2>4, <2>5, <2>6, <2>7, <2>8, <2>9, <2>10, <2>11, <2>12, <2>13, <2>14
    DEF Next, Step, Over
<1>3. GrepIInv /\ OutputIInv => OutputIsReference
  BY OutputFollows
<1>. QED BY <1>1, <1>2, <1>3, GrepInvariant, PTL DEF Spec
=============================================================================
