--------------------------- MODULE S3Files_proofs ---------------------------
(***************************************************************************)
(* Proofs about S3Files, for all sets of goroutines, keys and values and   *)
(* every bound: what handles will upload (FilesInv), that they implement   *)
(* FileStore, the types, and that the answers of Stat, Open and ReadDir    *)
(* are true while others change the bucket (LookIInv).                     *)
(***************************************************************************)
EXTENDS S3Files, SequenceTheorems, FiniteSetTheorems, WellFoundedInduction, TLAPS

-----------------------------------------------------------------------------
(* Induction over the natural numbers: what is to hold for every number is *)
(* given as the set of the numbers it holds for.                           *)
\* A set of numbers that is not empty has a least one.
LEMMA LeastNatural ==
  ASSUME NEW T, T \subseteq Nat, T # {}
  PROVE  \E m \in T : \A k \in T : m <= k
  <1> DEFINE R == OpToRel(<, Nat)
  <1>1. \A x, y \in Nat : <<y, x>> \in R <=> y < x
    BY DEF OpToRel
  <1>2. IsWellFoundedOn(R, Nat)
    BY NatLessThanWellFounded
  <1> HIDE DEF R
  <1>3. PICK m \in T : \A k \in T : ~(<<k, m>> \in R)
    BY <1>2, WFMin
  <1>4. ASSUME NEW k \in T  PROVE m <= k
    <2>1. k \in Nat /\ m \in Nat
      OBVIOUS
    <2>2. ~(k < m)
      BY <1>1, <1>3, <2>1, Zenon
    <2> QED  BY <2>1, <2>2
  <1> QED  BY <1>4

\* them all: the least one outside would contradict that.
LEMMA SetInduction ==
  ASSUME NEW S, 0 \in S, \A n \in Nat : n \in S => n + 1 \in S
  PROVE  Nat \subseteq S
  <1>1. SUFFICES ASSUME Nat \ S # {} PROVE FALSE
    OBVIOUS
  <1>2. PICK m \in Nat \ S : \A k \in Nat \ S : m <= k
    BY <1>1, LeastNatural
  <1>3. m - 1 \in Nat /\ ~(m <= m - 1) /\ (m - 1) + 1 = m
    OBVIOUS
  <1> QED  BY <1>2, <1>3

\* A finite set can be listed by the rank of its elements.
Enumerable(n, S, f) ==
    \E s \in [1..n -> S] : /\ \A e \in S : \E i \in 1..n : s[i] = e
                           /\ \A i, j \in 1..n : i < j => f[s[i]] < f[s[j]]
LEMMA EnumerationExists ==
  ASSUME NEW E, NEW f \in [E -> Nat], \A d, e \in E : f[d] = f[e] => d = e,
         NEW S \in SUBSET E, IsFiniteSet(S)
  PROVE  Enumerable(Cardinality(S), S, f)
  <1> DEFINE K == {n \in Nat : \A T \in SUBSET E :
                     IsFiniteSet(T) /\ Cardinality(T) = n => Enumerable(n, T, f)}
  <1>1. 0 \in K
    <2>1. ASSUME NEW T \in SUBSET E, IsFiniteSet(T), Cardinality(T) = 0
          PROVE  Enumerable(0, T, f)
      <3>1. T = {}
        BY <2>1, FS_EmptySet
      <3>2. 1..0 = {} /\ [i \in {} |-> 0] \in [{} -> T]
        OBVIOUS
      <3> QED  BY <3>1, <3>2 DEF Enumerable
    <2> QED  BY <2>1
  <1>2. ASSUME NEW n \in Nat, n \in K  PROVE n + 1 \in K
    <2>1. ASSUME NEW T \in SUBSET E, IsFiniteSet(T), Cardinality(T) = n + 1
          PROVE  Enumerable(n + 1, T, f)
      <3>1. T # {}
        BY <2>1, FS_EmptySet
      <3> DEFINE R == {f[e] : e \in T}
      <3>2. R \subseteq Nat /\ R # {}
        BY <3>1
      <3>3. \E m \in R : \A k \in R : m <= k
        <4> HIDE DEF R
        <4> QED  BY <3>2, LeastNatural
      <3>4. PICK e \in T : \A d \in T : f[e] <= f[d]
        BY <3>3
      <3> DEFINE U == T \ {e}
      <3>5. U \in SUBSET E /\ IsFiniteSet(U) /\ Cardinality(U) = n
        <4>1. IsFiniteSet(U) /\ Cardinality(U) = Cardinality(T) - 1
          BY <2>1, <3>4, FS_RemoveElement
        <4> QED  BY <2>1, <4>1
      <3>6. \A d \in U : f[e] < f[d]
        <4>1. \A d \in U : f[e] # f[d] /\ f[e] <= f[d] /\ f[e] \in Nat /\ f[d] \in Nat
          BY <3>4
        <4> HIDE DEF U
        <4> QED  BY <4>1
      <3>7. T = U \cup {e}
        BY <3>4
      <3> HIDE DEF U
      <3>8. PICK s \in [1..n -> U] : /\ \A d \in U : \E i \in 1..n : s[i] = d
                                     /\ \A i, j \in 1..n : i < j => f[s[i]] < f[s[j]]
        BY <1>2, <3>5 DEF Enumerable
      <3> DEFINE t == [i \in 1..n + 1 |-> IF i = 1 THEN e ELSE s[i - 1]]
      <3>9. /\ t[1] = e /\ 1 \in 1..n + 1
            /\ \A i \in 1..n + 1 : i # 1 => i - 1 \in 1..n /\ t[i] = s[i - 1] /\ t[i] \in U
            /\ \A i \in 1..n : i + 1 \in 1..n + 1 /\ t[i + 1] = s[i]
        OBVIOUS
      <3>10. t \in [1..n + 1 -> T]
        BY <3>7
      <3> HIDE DEF t
      <3>11. ASSUME NEW d \in T  PROVE \E i \in 1..n + 1 : t[i] = d
        <4>1. CASE d = e
          BY <3>9, <4>1
        <4>2. CASE d \in U
          <5>1. PICK i \in 1..n : s[i] = d
            BY <3>8, <4>2
          <5>2. i + 1 \in 1..n + 1 /\ t[i + 1] = d
            BY <3>9, <5>1
          <5> QED  BY <5>2
        <4> QED  BY <3>7, <4>1, <4>2
      <3>12. ASSUME NEW i \in 1..n + 1, NEW j \in 1..n + 1, i < j  PROVE f[t[i]] < f[t[j]]
        <4>1. j # 1
          BY <3>12
        <4>2. CASE i = 1
          BY <3>6, <3>9, <4>1, <4>2
        <4>3. CASE i # 1
          <5>1. i - 1 \in 1..n /\ j - 1 \in 1..n /\ i - 1 < j - 1
            BY <3>12, <4>1, <4>3
          <5> QED  BY <3>8, <3>9, <4>1, <4>3, <5>1
        <4> QED  BY <4>2, <4>3
      <3> QED  BY <3>10, <3>11, <3>12 DEF Enumerable
    <2> QED  BY <2>1
  <1> HIDE DEF K
  <1>3. Cardinality(S) \in Nat
    BY FS_CardinalityType
  <1>4. Cardinality(S) \in K
    BY <1>1, <1>2, <1>3, SetInduction
  <1> QED  BY <1>4 DEF K

-----------------------------------------------------------------------------
\* A stored part of a failed Write is all that can follow the confirmed ones
\* (file.go:342-354).
LEMMA DoubtShape ==
    ASSUME NEW s \in Seq(Value), NEW a \in Seq(Value),
           Len(s) \in {Len(a), Len(a) + 1}, SubSeq(s, 1, Len(a)) = a
    PROVE  LET d == SubSeq(s, Len(a) + 1, Len(s))
           IN  d \in Seq(Value) /\ Len(d) <= 1 /\ a \o d = s
<1>. DEFINE d == SubSeq(s, Len(a) + 1, Len(s))
<1>1. d \in Seq(Value) /\ Len(d) = Len(s) - Len(a)
  OBVIOUS
<1>2. \A i \in 1..Len(a) : s[i] = a[i]
  OBVIOUS
<1>3. \A i \in 1..Len(d) : d[i] = s[Len(a) + i]
  OBVIOUS
<1>4. a \o d \in Seq(Value) /\ Len(a \o d) = Len(s)
  BY <1>1
<1>5. \A i \in 1..Len(s) : (a \o d)[i] = s[i]
  BY <1>1, <1>2, <1>3
<1>6. Len(d) <= 1
  BY <1>1
<1>. HIDE DEF d
<1>7. a \o d = s
  BY <1>4, <1>5, SeqEqual
<1>. QED BY <1>1, <1>6, <1>7 DEF d

\* A part that replaces the one in doubt leaves the confirmed ones.
LEMMA PartShape ==
    ASSUME NEW s \in Seq(Value), NEW a \in Seq(Value), NEW v \in Value,
           Len(s) \in {Len(a), Len(a) + 1}, SubSeq(s, 1, Len(a)) = a
    PROVE  LET t == Append(SubSeq(s, 1, (Len(a) + 1) - 1), v)
           IN  /\ t \in Seq(Value) /\ t = Append(a, v)
               /\ Len(t) = Len(a) + 1
               /\ SubSeq(t, 1, Len(a)) = a
               /\ SubSeq(t, 1, Len(t)) = t
<1>1. (Len(a) + 1) - 1 = Len(a)
  OBVIOUS
<1>. QED BY <1>1

-----------------------------------------------------------------------------
\* Paths lead to keys (filesystem.go:92-98).
LEMMA PathKey ==
    ASSUME NEW p \in Proc, NEW n \in Path(p)
    PROVE  KeyOf(p, n) \in Key
BY DEF Path

LEMMA RootKey ==
    ASSUME FilesInv, NEW p \in Proc
    PROVE  KeyOf(p, <<>>) \in Key \cup {<<>>}
BY FilesAssumption DEF FilesInv, KeyOf

-----------------------------------------------------------------------------
\* Steps of one goroutine's call that leave handles and bucket alone.
LEMMA QuietStep ==
    ASSUME FilesInv, NEW p \in Proc, UNCHANGED <<bucket, root, h, acked>>,
           NEW l \in Asking \cup {"idle", "list"}, NEW k \in Key \cup {<<>>},
           pc' = [pc EXCEPT ![p] = l], at' = [at EXCEPT ![p] = k],
           l \in Asking => k \in Key
    PROVE  FilesInv'
<1>1. /\ pc' \in [Proc -> Asking \cup {"idle", "list"}]
      /\ at' \in [Proc -> Key \cup {<<>>}]
  BY DEF FilesInv
<1>2. \A q \in Proc : pc'[q] \in Asking => at'[q] \in Key
  BY DEF FilesInv
<1>3. \A q \in Proc : HandleAcked(q)'
  BY DEF FilesInv, HandleAcked
<1>. QED BY <1>1, <1>2, <1>3 DEF FilesInv

\* Steps that give a goroutine another handle, or change the one it has.
LEMMA HandleStep ==
    ASSUME FilesInv, NEW p \in Proc, UNCHANGED root,
           bucket' \in [Key -> Seq(Value) \cup {Absent}],
           NEW l \in Asking \cup {"idle", "list"},
           pc' = [pc EXCEPT ![p] = l], UNCHANGED at, l \in Asking => at[p] \in Key,
           NEW g \in HandleType, h' = [h EXCEPT ![p] = g],
           NEW a \in Seq(Value), acked' = [acked EXCEPT ![p] = a],
           g.kind \in {"write", "multi"} => g.key \in Key,
           g.kind = "write" => g.data = a,
           g.kind = "multi" => /\ g.n = Len(a) + 1
                               /\ Len(g.data) \in {Len(a), Len(a) + 1}
                               /\ SubSeq(g.data, 1, Len(a)) = a
    PROVE  FilesInv'
<1>1. /\ pc' \in [Proc -> Asking \cup {"idle", "list"}]
      /\ h' \in [Proc -> HandleType] /\ acked' \in [Proc -> Seq(Value)]
  BY DEF FilesInv
<1>2. \A q \in Proc : /\ pc'[q] \in Asking => at'[q] \in Key
                      /\ h'[q].kind \in {"write", "multi"} => h'[q].key \in Key
  BY DEF FilesInv
<1>3. h'[p] = g /\ acked'[p] = a
  BY DEF FilesInv
<1>4. HandleAcked(p)'
  BY <1>3 DEF HandleAcked
<1>5. \A q \in Proc \ {p} : h'[q] = h[q] /\ acked'[q] = acked[q]
  BY DEF FilesInv
<1>6. \A q \in Proc \ {p} : HandleAcked(q)'
  BY <1>5 DEF FilesInv, HandleAcked
<1>. QED BY <1>1, <1>2, <1>4, <1>6 DEF FilesInv

\* Requests that change the bucket only.
LEMMA BucketStep ==
    ASSUME FilesInv, UNCHANGED <<root, pc, at, h, acked>>,
           bucket' \in [Key -> Seq(Value) \cup {Absent}]
    PROVE  FilesInv'
BY DEF FilesInv, HandleAcked

-----------------------------------------------------------------------------
\* A new file system and its handles (filesystem.go:54-71).
LEMMA InitInv == Init => FilesInv
<1>. SUFFICES ASSUME Init PROVE FilesInv
  OBVIOUS
<1>1. NoHandle \in HandleType
  BY DEF NoHandle, Handle, HandleType
<1>2. h \in [Proc -> HandleType]
  BY <1>1 DEF Init
<1>3. \A p \in Proc : h[p].kind = "none" /\ pc[p] = "idle"
  BY DEF Init, NoHandle, Handle
<1>4. bucket \in [Key -> Seq(Value) \cup {Absent}]
  <2>1. {<<>>, Absent} \subseteq Seq(Value) \cup {Absent}
    OBVIOUS
  <2>2. bucket \in [Key -> {<<>>, Absent}]
    BY DEF Init
  <2>. QED BY <2>1, <2>2
<1>5. acked \in [Proc -> Seq(Value)]
  <2>1. <<>> \in Seq(Value)
    OBVIOUS
  <2>. QED BY <2>1 DEF Init
<1>6. root \in [Proc -> Key \cup {<<>>}] /\ at \in [Proc -> Key \cup {<<>>}]
  BY DEF Init
<1>7. pc \in [Proc -> Asking \cup {"idle", "list"}]
  BY DEF Init
<1>. QED BY <1>2, <1>3, <1>4, <1>5, <1>6, <1>7 DEF FilesInv, HandleAcked, Asking

\* Stat, Open and ReadDir begin (basic.go:58-75, 123-133; dir.go:19-30).
LEMMA LookInv ==
    ASSUME FilesInv, NEW p \in Proc, NEW n \in Path(p) \cup {<<>>},
           Stat(p, n) \/ Open(p, n) \/ ReadDir(p, n)
    PROVE  FilesInv'
<1>. DEFINE k == KeyOf(p, n)
<1>1. k \in Key \cup {<<>>}
  BY PathKey, RootKey
<1>2. UNCHANGED <<bucket, root, acked>> /\ at' = [at EXCEPT ![p] = k]
  BY DEF Stat, Open, ReadDir, Start
<1>. HIDE DEF k
<1>3. CASE Stat(p, n)
  <2>1. h' = h
    BY <1>3 DEF Stat
  <2>2. \/ pc' = [pc EXCEPT ![p] = "idle"]
        \/ k # <<>> /\ pc' = [pc EXCEPT ![p] = "statHead"]
    BY <1>3 DEF Stat, Start, k
  <2>. QED BY <1>1, <1>2, <2>1, <2>2, QuietStep DEF Asking
<1>4. CASE ReadDir(p, n)
  <2>1. h' = h /\ pc' = [pc EXCEPT ![p] = "list"]
    BY <1>4 DEF ReadDir, Start
  <2>. QED BY <1>1, <1>2, <2>1, QuietStep DEF Asking
<1>5. CASE Open(p, n)
  <2>1. CASE k # <<>>
    <3>1. h' = h /\ pc' = [pc EXCEPT ![p] = "openHead"]
      BY <1>5, <2>1 DEF Open, Start, k
    <3>. QED BY <1>1, <1>2, <2>1, <3>1, QuietStep DEF Asking
  <2>2. CASE k = <<>>
    <3>. DEFINE g == Handle("dir", <<>>, <<>>)
    <3>1. h' = [h EXCEPT ![p] = g] /\ pc' = [pc EXCEPT ![p] = "idle"]
      BY <1>5, <2>2 DEF Open, Start, k
    <3>2. g \in HandleType /\ g.kind = "dir"
      BY DEF Handle, HandleType
    <3>. HIDE DEF g
    <3>3. /\ pc' \in [Proc -> Asking \cup {"idle", "list"}]
          /\ h' \in [Proc -> HandleType] /\ at' \in [Proc -> Key \cup {<<>>}]
      BY <1>1, <1>2, <3>1, <3>2 DEF FilesInv
    <3>4. \A q \in Proc : /\ pc'[q] \in Asking => at'[q] \in Key
                          /\ h'[q].kind \in {"write", "multi"} => h'[q] = h[q]
      BY <1>1, <1>2, <3>1, <3>2 DEF FilesInv, Asking
    <3>. QED BY <1>2, <3>3, <3>4 DEF FilesInv, HandleAcked
  <2>. QED BY <2>1, <2>2
<1>. QED BY <1>3, <1>4, <1>5

\* The requests of Stat, Open and ReadDir (basic.go:77-109, 135-171;
\* file.go:64-101; dir.go:31-76).
LEMMA RequestInv ==
    ASSUME FilesInv, NEW p \in Proc, Request(p)
    PROVE  FilesInv'
<1>. DEFINE Quiet(l) == /\ UNCHANGED <<bucket, root, h, acked, at>>
                        /\ pc' = [pc EXCEPT ![p] = l]
<1>1. ASSUME NEW l \in Asking \cup {"idle", "list"}, Quiet(l),
             l \in Asking => pc[p] \in Asking
      PROVE  FilesInv'
  <2>1. at' = [at EXCEPT ![p] = at[p]] /\ at[p] \in Key \cup {<<>>}
    BY <1>1 DEF FilesInv
  <2>2. l \in Asking => at[p] \in Key
    BY <1>1 DEF FilesInv
  <2>. QED BY <1>1, <2>1, <2>2, QuietStep
<1>2. CASE StatHead(p) \/ StatList(p) \/ OpenHead(p)
  <2>1. pc[p] \in Asking /\ (Quiet("idle") \/ Quiet("statList") \/ Quiet("openGet")
                              \/ Quiet("openList"))
    BY <1>2 DEF StatHead, StatList, OpenHead, Return, Goto, Asking
  <2>. QED BY <1>1, <2>1 DEF Asking
<1>3. CASE ReadDirPage(p)
  <2>1. pc[p] = "list" /\ (Quiet("idle") \/ Quiet("list"))
    <3>1. \/ Return(p, "listed") \/ Return(p, "error") \/ UNCHANGED callVars
      BY <1>3 DEF ReadDirPage
    <3>2. pc[p] = "list" /\ UNCHANGED <<bucket, root, h, acked>>
      BY <1>3 DEF ReadDirPage
    <3>. QED BY <3>1, <3>2 DEF Return, callVars, FilesInv
  <2>. QED BY <1>1, <2>1 DEF Asking
<1>4. CASE OpenGet(p) \/ OpenList(p)
  <2>1. pc[p] \in Asking
    BY <1>4 DEF OpenGet, OpenList, Asking
  <2>2. CASE Quiet("idle") \/ Quiet("openList")
    BY <1>1, <2>1, <2>2 DEF Asking
  <2>3. CASE ~(Quiet("idle") \/ Quiet("openList"))
    <3>1. PICK kind \in {"read", "dir"}, data \in Seq(Value) :
            /\ h' = [h EXCEPT ![p] = Handle(kind, at[p], data)]
            /\ pc' = [pc EXCEPT ![p] = "idle"]
            /\ UNCHANGED <<bucket, root, acked, at>>
      <4>1. at[p] \in Key
        BY <2>1 DEF FilesInv
      <4>2. bucket[at[p]] # Absent => bucket[at[p]] \in Seq(Value)
        BY <4>1 DEF FilesInv
      <4>3. CASE OpenGet(p)
        BY <2>3, <4>2, <4>3 DEF OpenGet, Return, Goto
      <4>4. CASE OpenList(p)
        <5>1. <<>> \in Seq(Value)
          OBVIOUS
        <5>2. /\ h' = [h EXCEPT ![p] = Handle("dir", at[p], <<>>)]
              /\ pc' = [pc EXCEPT ![p] = "idle"]
              /\ UNCHANGED <<bucket, root, acked, at>>
          BY <2>3, <4>4 DEF OpenList, Return
        <5>. QED BY <5>1, <5>2
      <4>. QED BY <1>4, <4>3, <4>4
    <3>. DEFINE g == Handle(kind, at[p], data)
    <3>2. g \in HandleType /\ g.kind \notin {"write", "multi"}
      BY DEF Handle, HandleType, FilesInv
    <3>3. acked[p] \in Seq(Value) /\ acked' = [acked EXCEPT ![p] = acked[p]]
      BY <3>1 DEF FilesInv
    <3>4. bucket' \in [Key -> Seq(Value) \cup {Absent}]
      BY <3>1 DEF FilesInv
    <3>. HIDE DEF g
    <3>5. h' = [h EXCEPT ![p] = g]
      BY <3>1 DEF g
    <3>. QED BY <3>1, <3>2, <3>3, <3>4, <3>5, HandleStep DEF Asking
  <2>. QED BY <2>2, <2>3
<1>. QED BY <1>2, <1>3, <1>4 DEF Request

\* Chroot takes a key as the new root (chroot.go:10-31).
LEMMA ChrootInv ==
    ASSUME FilesInv, NEW p \in Proc, NEW n \in Path(p), Chroot(p, n)
    PROVE  FilesInv'
<1>. DEFINE k == KeyOf(p, n)
<1>1. k \in Key
  BY PathKey
<1>2. root' = [root EXCEPT ![p] = k] /\ UNCHANGED <<bucket, pc, at, h, acked>>
  BY DEF Chroot, callVars
<1>. HIDE DEF k
<1>. QED BY <1>1, <1>2 DEF FilesInv, HandleAcked

\* A write handle begins empty (basic.go:37-56, file.go:189-199, 295-322).
LEMMA CreateInv ==
    ASSUME FilesInv, NEW p \in Proc, NEW n \in Path(p),
           Create(p, n) \/ CreateMultipart(p, n)
    PROVE  FilesInv'
<1>. DEFINE k == KeyOf(p, n)
<1>1. k \in Key /\ <<>> \in Seq(Value)
  BY PathKey
<1>2. UNCHANGED <<bucket, root, pc, at>>
  BY DEF Create, CreateMultipart, callVars
<1>3. pc[p] = "idle" /\ pc' = [pc EXCEPT ![p] = "idle"]
  BY <1>2 DEF Create, CreateMultipart, Call, FilesInv
<1>4. bucket' \in [Key -> Seq(Value) \cup {Absent}]
  BY <1>2 DEF FilesInv
<1>5. CASE UNCHANGED <<h, acked>>
  BY <1>2, <1>4, <1>5, BucketStep
<1>6. ASSUME NEW kind \in {"write", "multi"},
             h' = [h EXCEPT ![p] = Handle(kind, k, <<>>)],
             acked' = [acked EXCEPT ![p] = <<>>]
      PROVE  FilesInv'
  <2>. DEFINE g == Handle(kind, k, <<>>)
  <2>1. /\ g \in HandleType /\ g.key = k /\ g.data = <<>> /\ g.n = 1
    BY <1>1 DEF Handle, HandleType
  <2>2. SubSeq(<<>>, 1, 0) = <<>> /\ Len(<<>>) = 0
    OBVIOUS
  <2>3. h' = [h EXCEPT ![p] = g]
    BY <1>6
  <2>. HIDE DEF g, k
  <2>4. /\ g.kind = "write" => g.data = <<>>
        /\ g.kind = "multi" => /\ g.n = Len(<<>>) + 1
                               /\ Len(g.data) \in {Len(<<>>), Len(<<>>) + 1}
                               /\ SubSeq(g.data, 1, Len(<<>>)) = <<>>
    BY <2>1, <2>2
  <2>. QED BY <1>1, <1>2, <1>3, <1>4, <1>6, <2>1, <2>3, <2>4, HandleStep DEF Asking
<1>. QED BY <1>5, <1>6 DEF Create, CreateMultipart

\* A Write to a buffer (file.go:205-211).
LEMMA WriteInv ==
    ASSUME FilesInv, NEW p \in Proc, NEW v \in Value, Write(p, v)
    PROVE  FilesInv'
<1>. DEFINE a == Append(acked[p], v)
            t == Append(h[p].data, v)
            g == [h[p] EXCEPT !.data = t]
<1>1. /\ h[p] \in HandleType /\ acked[p] \in Seq(Value)
      /\ h[p].kind = "write" /\ h[p].key \in Key /\ h[p].data = acked[p]
  BY DEF FilesInv, Write, HandleAcked
<1>2. g \in HandleType /\ g.kind = "write" /\ g.key \in Key /\ g.data = a
  <2>1. t \in Seq(Value) /\ t = a
    BY <1>1
  <2>. HIDE DEF t, a
  <2>. QED BY <1>1, <2>1 DEF HandleType
<1>3. a \in Seq(Value)
  BY <1>1
<1>4. h' = [h EXCEPT ![p] = g] /\ acked' = [acked EXCEPT ![p] = a]
  BY DEF Write, FilesInv
<1>5. UNCHANGED <<bucket, root, at>> /\ pc' = [pc EXCEPT ![p] = "idle"]
  BY DEF Write, callVars, FilesInv
<1>6. bucket' \in [Key -> Seq(Value) \cup {Absent}]
  BY <1>5 DEF FilesInv
<1>. HIDE DEF g, a
<1>. QED BY <1>2, <1>3, <1>4, <1>5, <1>6, HandleStep DEF Asking

\* A Write to a multipart upload, confirmed or not (file.go:328-358).
LEMMA UploadPartInv ==
    ASSUME FilesInv, NEW p \in Proc, NEW v \in Value, UploadPart(p, v)
    PROVE  FilesInv'
<1>. DEFINE t == Append(SubSeq(h[p].data, 1, h[p].n - 1), v)
            a == acked[p]
<1>1. /\ h[p] \in HandleType /\ a \in Seq(Value) /\ h[p].data \in Seq(Value)
      /\ h[p].kind = "multi" /\ h[p].key \in Key /\ h[p].n = Len(a) + 1
      /\ Len(h[p].data) \in {Len(a), Len(a) + 1}
      /\ SubSeq(h[p].data, 1, Len(a)) = a
  BY DEF FilesInv, UploadPart, HandleAcked, HandleType
<1>2. /\ t \in Seq(Value) /\ t = Append(a, v) /\ Len(t) = Len(a) + 1
      /\ SubSeq(t, 1, Len(a)) = a /\ SubSeq(t, 1, Len(t)) = t
  <2>. HIDE DEF a
  <2>. QED BY <1>1, PartShape
<1>3. UNCHANGED <<bucket, root, pc, at>> /\ pc' = [pc EXCEPT ![p] = "idle"]
  BY DEF UploadPart, callVars, FilesInv
<1>4. bucket' \in [Key -> Seq(Value) \cup {Absent}]
  BY <1>3 DEF FilesInv
<1>5. CASE UNCHANGED <<h, acked>>
  BY <1>3, <1>4, <1>5, BucketStep
<1>6. CASE /\ h' = [h EXCEPT ![p].data = t, ![p].n = @ + 1]
           /\ acked' = [acked EXCEPT ![p] = Append(@, v)]
  <2>. DEFINE g == [h[p] EXCEPT !.data = t, !.n = @ + 1]
  <2>1. h' = [h EXCEPT ![p] = g] /\ acked' = [acked EXCEPT ![p] = t]
    BY <1>2, <1>6 DEF FilesInv
  <2>. HIDE DEF t
  <2>2. /\ g \in HandleType /\ g.kind = "multi" /\ g.key \in Key
        /\ g.n = Len(t) + 1 /\ g.data = t
    <3>1. Len(a) \in Nat /\ h[p].n = Len(a) + 1 /\ Len(t) = Len(a) + 1
      BY <1>1, <1>2
    <3>2. t \in Seq(Value) /\ h[p] \in HandleType /\ h[p].kind = "multi"
          /\ h[p].key \in Key
      BY <1>1, <1>2
    <3>. HIDE DEF a
    <3>3. g.n = Len(t) + 1 /\ g.n \in Nat
      BY <3>1, <3>2 DEF HandleType
    <3>. DEFINE m == h[p].n + 1
    <3>4. m \in Nat
      BY <3>1
    <3>. HIDE DEF m
    <3>5. [[h[p] EXCEPT !.data = t] EXCEPT !.n = m] \in HandleType
      <4>1. [h[p] EXCEPT !.data = t] \in HandleType
        BY <3>2 DEF HandleType
      <4>. QED BY <3>4, <4>1 DEF HandleType
    <3>6. g = [[h[p] EXCEPT !.data = t] EXCEPT !.n = m]
      BY DEF m
    <3>7. g.kind = "multi" /\ g.key \in Key /\ g.data = t
      BY <3>2 DEF HandleType
    <3>. QED BY <3>3, <3>5, <3>6, <3>7
  <2>. HIDE DEF g
  <2>3. /\ g.n = Len(t) + 1 /\ Len(g.data) \in {Len(t), Len(t) + 1}
        /\ SubSeq(g.data, 1, Len(t)) = t
    BY <1>2, <2>2
  <2>. QED BY <1>2, <1>3, <1>4, <2>1, <2>2, <2>3, HandleStep DEF Asking
<1>7. CASE h' = [h EXCEPT ![p].data = t] /\ UNCHANGED acked
  <2>. DEFINE g == [h[p] EXCEPT !.data = t]
  <2>1. h' = [h EXCEPT ![p] = g] /\ acked' = [acked EXCEPT ![p] = a]
    BY <1>7 DEF FilesInv
  <2>. HIDE DEF t
  <2>2. /\ g \in HandleType /\ g.kind = "multi" /\ g.key \in Key
        /\ g.n = Len(a) + 1 /\ g.data = t
    BY <1>1, <1>2 DEF HandleType
  <2>. HIDE DEF g
  <2>3. /\ g.n = Len(a) + 1 /\ Len(g.data) \in {Len(a), Len(a) + 1}
        /\ SubSeq(g.data, 1, Len(a)) = a
    BY <1>2, <2>2
  <2>. QED BY <1>1, <1>2, <1>3, <1>4, <2>1, <2>2, <2>3, HandleStep DEF Asking
<1>. QED BY <1>5, <1>6, <1>7 DEF UploadPart

\* Close uploads what the handle holds, or fails (file.go:233-260, 380-404).
LEMMA CloseInv ==
    ASSUME FilesInv, NEW p \in Proc, Close(p)
    PROVE  FilesInv'
<1>. DEFINE g == NoHandle
<1>1. /\ g \in HandleType /\ g.kind = "none"
  BY DEF NoHandle, Handle, HandleType
<1>2. <<>> \in Seq(Value)
  OBVIOUS
<1>3. h' = [h EXCEPT ![p] = g] /\ acked' = [acked EXCEPT ![p] = <<>>]
  BY DEF Close
<1>4. UNCHANGED <<root, at>> /\ pc' = [pc EXCEPT ![p] = "idle"]
  BY DEF Close, Change, callVars, FilesInv
<1>5. bucket' \in [Key -> Seq(Value) \cup {Absent}]
  <2>1. CASE h[p].kind \in {"write", "multi"}
    <3>1. h[p].data \in Seq(Value) /\ h[p].key \in Key
      BY <2>1 DEF FilesInv, HandleType
    <3>2. bucket' \in {[bucket EXCEPT ![h[p].key] = h[p].data], bucket}
      BY <2>1 DEF Close, Change
    <3>. QED BY <3>1, <3>2 DEF FilesInv
  <2>2. CASE h[p].kind \notin {"write", "multi"}
    BY <2>2 DEF Close, FilesInv
  <2>. QED BY <2>1, <2>2
<1>. HIDE DEF g
<1>. QED BY <1>1, <1>2, <1>3, <1>4, <1>5, HandleStep DEF Asking

\* Remove, Rename and MkdirAll change the bucket (basic.go:178-234, dir.go:82-90).
LEMMA ChangeInv ==
    ASSUME FilesInv, NEW p \in Proc, NEW n \in Path(p),
           \/ RemoveFile(p, n)
           \/ n \in Key /\ MkdirAll(p, n)
           \/ \E m \in Path(p) : Rename(p, n, m)
    PROVE  FilesInv'
<1>1. UNCHANGED <<root, pc, at, h, acked>>
  BY DEF RemoveFile, MkdirAll, Rename, Change, callVars
<1>2. bucket' \in [Key -> Seq(Value) \cup {Absent}]
  <2>1. CASE RemoveFile(p, n)
    BY <2>1, PathKey DEF RemoveFile, Change, FilesInv
  <2>2. CASE n \in Key /\ MkdirAll(p, n)
    <3>1. <<>> \in Seq(Value)
      OBVIOUS
    <3>2. bucket' \in {[bucket EXCEPT ![n] = <<>>], bucket}
      BY <2>2 DEF MkdirAll, Change
    <3>. QED BY <2>2, <3>1, <3>2 DEF FilesInv
  <2>3. CASE \E m \in Path(p) : Rename(p, n, m)
    <3>1. PICK m \in Path(p) : Rename(p, n, m)
      BY <2>3
    <3>. DEFINE k == KeyOf(p, n)
                l == KeyOf(p, m)
    <3>2. k \in Key /\ l \in Key
      BY PathKey
    <3>3. bucket' \in {[[bucket EXCEPT ![k] = Absent] EXCEPT ![l] = bucket[k]], bucket}
      BY <3>1 DEF Rename, Change
    <3>. HIDE DEF k, l
    <3>. QED BY <3>2, <3>3 DEF FilesInv
  <2>. QED BY <2>1, <2>2, <2>3
<1>. QED BY <1>1, <1>2, BucketStep

-----------------------------------------------------------------------------
\* Every step keeps the invariant.
LEMMA NextInv == FilesInv /\ [Next]_vars => FilesInv'
<1>. SUFFICES ASSUME FilesInv, [Next]_vars PROVE FilesInv'
  OBVIOUS
<1>1. CASE UNCHANGED vars
  BY <1>1 DEF vars, callVars, FilesInv, HandleAcked
<1>2. CASE Next
  <2>1. PICK p \in Proc : Begin(p) \/ Use(p) \/ Request(p)
    BY <1>2 DEF Next
  <2>2. CASE Begin(p)
    BY <2>2, LookInv, ChrootInv, CreateInv, ChangeInv DEF Begin
  <2>3. CASE Use(p)
    BY <2>3, CloseInv, WriteInv, UploadPartInv DEF Use
  <2>4. CASE Request(p)
    BY <2>4, RequestInv
  <2>. QED BY <2>1, <2>2, <2>3, <2>4
<1>. QED BY <1>1, <1>2

\* What a handle will upload is what was confirmed to its writer, plus at most one
\* part in doubt (file.go:205-211, 328-358), in every execution.
THEOREM FilesInvariant == Spec => []FilesInv
BY InitInv, NextInv, PTL DEF Spec

-----------------------------------------------------------------------------
\* The drafts, as FileStore sees them.
Drafts == [p \in Proc |-> DraftOf(p)]

\* The draft of a handle with the value g, a confirmed.
DraftIs(g, a) ==
    IF g.kind \in {"write", "multi"}
    THEN [key |-> g.key, sure |-> a,
          doubt |-> SubSeq(g.data, Len(a) + 1, Len(g.data))]
    ELSE NoDraft

\* An open write handle is a draft, and what it will upload is that draft with the
\* part in doubt or without it (file.go:205-211, 328-358).
LEMMA DraftShape ==
    ASSUME NEW g \in HandleType, NEW a \in Seq(Value),
           g.kind \in {"write", "multi"}, g.key \in Key,
           g.kind = "write" => g.data = a,
           g.kind = "multi" => /\ Len(g.data) \in {Len(a), Len(a) + 1}
                               /\ SubSeq(g.data, 1, Len(a)) = a
    PROVE  LET d == DraftIs(g, a)
           IN  /\ d \in Store!Draft /\ d.key = g.key /\ d.sure = a
               /\ d.sure \o d.doubt = g.data
               /\ g.data = a => d.doubt = <<>>
<1>. DEFINE e == SubSeq(g.data, Len(a) + 1, Len(g.data))
<1>1. g.data \in Seq(Value)
  BY DEF HandleType
<1>2. /\ Len(g.data) \in {Len(a), Len(a) + 1}
      /\ SubSeq(g.data, 1, Len(a)) = a
  <2>1. SubSeq(a, 1, Len(a)) = a
    OBVIOUS
  <2>. QED BY <2>1
<1>3. e \in Seq(Value) /\ Len(e) <= 1 /\ a \o e = g.data
  BY <1>1, <1>2, DoubtShape
<1>4. g.data = a => e = <<>>
  BY <1>1
<1>5. DraftIs(g, a) = [key |-> g.key, sure |-> a, doubt |-> e]
  BY DEF DraftIs
<1>. HIDE DEF e
<1>. QED BY <1>3, <1>4, <1>5 DEF Store!Draft

\* A step of one goroutine leaves the drafts of the others.
LEMMA DraftFrame ==
    ASSUME FilesInv, NEW p \in Proc,
           h' = [h EXCEPT ![p] = h'[p]], acked' = [acked EXCEPT ![p] = acked'[p]]
    PROVE  /\ Drafts' = [Drafts EXCEPT ![p] = DraftIs(h'[p], acked'[p])]
           /\ Drafts[p] = DraftIs(h[p], acked[p])
           /\ Drafts'[p] = DraftIs(h'[p], acked'[p])
<1>1. DraftOf(p)' = DraftIs(h'[p], acked'[p]) /\ DraftOf(p) = DraftIs(h[p], acked[p])
  BY DEF DraftOf, DraftIs
<1>2. \A q \in Proc \ {p} : h'[q] = h[q] /\ acked'[q] = acked[q]
  BY DEF FilesInv
<1>3. \A q \in Proc \ {p} : DraftOf(q)' = DraftOf(q)
  BY <1>2 DEF DraftOf
<1>. QED BY <1>1, <1>3 DEF Drafts

\* Steps that leave handles and bucket alone are invisible.
LEMMA QuietStore ==
    ASSUME UNCHANGED <<bucket, h, acked>>
    PROVE  UNCHANGED <<bucket, Drafts>>
BY DEF Drafts, DraftOf

\* A handle that writes nothing takes the place of the one before, whose draft is
\* given up.
LEMMA GiveUp ==
    ASSUME FilesInv, NEW p \in Proc,
           h' = [h EXCEPT ![p] = h'[p]], acked' = [acked EXCEPT ![p] = acked'[p]],
           h'[p].kind \notin {"write", "multi"}, UNCHANGED bucket
    PROVE  Store!Draw(p)
<1>1. DraftIs(h'[p], acked'[p]) = NoDraft
  BY DEF DraftIs
<1>. QED BY <1>1, DraftFrame DEF Store!Draw, Drafts

\* Create and CreateMultipart begin an empty draft.
LEMMA CreateStore ==
    ASSUME FilesInv, NEW p \in Proc, NEW n \in Path(p),
           Create(p, n) \/ CreateMultipart(p, n)
    PROVE  Store!Draw(p) \/ UNCHANGED <<bucket, Drafts>>
<1>. DEFINE k == KeyOf(p, n)
<1>1. k \in Key /\ <<>> \in Seq(Value)
  BY PathKey
<1>2. bucket' = bucket
  BY DEF Create, CreateMultipart
<1>3. CASE UNCHANGED <<h, acked>>
  BY <1>2, <1>3, QuietStore
<1>4. ASSUME NEW kind \in {"write", "multi"},
             h' = [h EXCEPT ![p] = Handle(kind, k, <<>>)],
             acked' = [acked EXCEPT ![p] = <<>>]
      PROVE  Store!Draw(p)
  <2>. DEFINE g == Handle(kind, k, <<>>)
              d == DraftIs(g, <<>>)
  <2>1. g \in HandleType /\ g.key = k /\ g.data = <<>> /\ g.kind = kind
    BY <1>1 DEF Handle, HandleType
  <2>2. SubSeq(<<>>, 1, Len(<<>>)) = <<>> /\ Len(<<>>) = 0
    OBVIOUS
  <2>0. h' = [h EXCEPT ![p] = g]
    BY <1>4
  <2>. HIDE DEF g, k
  <2>3. d \in Store!Draft /\ d.sure = <<>> /\ d.doubt = <<>>
    BY <1>1, <2>1, <2>2, DraftShape
  <2>4. Drafts' = [Drafts EXCEPT ![p] = d] /\ Drafts'[p] = d
    <3>1. h'[p] = g /\ acked'[p] = <<>>
      BY <1>4, <2>0 DEF FilesInv
    <3>. QED BY <1>4, <2>0, <3>1, DraftFrame
  <2>. HIDE DEF d
  <2>. QED BY <1>2, <2>3, <2>4 DEF Store!Draw, Drafts
<1>. QED BY <1>3, <1>4 DEF Create, CreateMultipart

\* A Write adds its value to what is confirmed, or leaves it in doubt.
LEMMA WriteStore ==
    ASSUME FilesInv, FilesInv', NEW p \in Proc, NEW v \in Value,
           Write(p, v) \/ UploadPart(p, v)
    PROVE  Store!Draw(p)
<1>1. /\ h[p] \in HandleType /\ h[p].kind \in {"write", "multi"}
      /\ acked[p] \in Seq(Value)
      /\ h \in [Proc -> HandleType] /\ acked \in [Proc -> Seq(Value)]
  BY DEF FilesInv, Write, UploadPart
<1>. DEFINE g == h'[p]
<1>2. h' = [h EXCEPT ![p] = g] /\ g.kind = h[p].kind /\ g.key = h[p].key
  <2>1. CASE Write(p, v)
    <3>1. h' = [h EXCEPT ![p].data = Append(@, v)]
      BY <2>1 DEF Write
    <3>. QED BY <1>1, <3>1 DEF HandleType
  <2>2. CASE UploadPart(p, v)
    <3>. DEFINE t == Append(SubSeq(h[p].data, 1, h[p].n - 1), v)
    <3>1. \/ h' = [h EXCEPT ![p].data = t, ![p].n = @ + 1]
          \/ h' = [h EXCEPT ![p].data = t]
          \/ h' = h
      BY <2>2 DEF UploadPart
    <3>. HIDE DEF t
    <3>. QED BY <1>1, <3>1 DEF HandleType
  <2>. QED BY <2>1, <2>2
<1>3. PICK a : /\ acked' = [acked EXCEPT ![p] = a]
               /\ a = acked[p] \/ a = Append(acked[p], v)
  BY <1>1 DEF Write, UploadPart
<1>4. acked'[p] = a
  BY <1>1, <1>3
<1>5. g \in HandleType /\ a \in Seq(Value) /\ g.key \in Key
  BY <1>1, <1>2, <1>4 DEF FilesInv
<1>6. /\ g.kind = "write" => g.data = a
      /\ g.kind = "multi" => /\ Len(g.data) \in {Len(a), Len(a) + 1}
                             /\ SubSeq(g.data, 1, Len(a)) = a
  BY <1>4 DEF FilesInv, HandleAcked
<1>. HIDE DEF g
<1>. DEFINE d == DraftIs(g, a)
            c == DraftIs(h[p], acked[p])
<1>7. d \in Store!Draft /\ d.key = h[p].key /\ d.sure = a
  BY <1>1, <1>2, <1>5, <1>6, DraftShape
<1>8. c \in Store!Draft /\ c.key = h[p].key /\ c.sure = acked[p]
  <2>1. h[p].key \in Key /\ HandleAcked(p)
    BY <1>1 DEF FilesInv
  <2>. QED BY <1>1, <2>1, DraftShape DEF HandleAcked
<1>9. c # NoDraft
  BY <1>8, DraftAssumption
<1>10. Drafts' = [Drafts EXCEPT ![p] = d] /\ Drafts'[p] = d /\ Drafts[p] = c
  BY <1>2, <1>3, <1>4, DraftFrame DEF g
<1>11. bucket' = bucket
  BY DEF Write, UploadPart
<1>. HIDE DEF d, c
<1>. QED BY <1>3, <1>7, <1>8, <1>9, <1>10, <1>11 DEF Store!Draw, Drafts

\* Close publishes the draft whole, or gives it up when the upload fails.
LEMMA CloseStore ==
    ASSUME FilesInv, NEW p \in Proc, Close(p)
    PROVE  Store!Draw(p) \/ Store!Publish(p)
<1>. DEFINE g == NoHandle
<1>1. h' = [h EXCEPT ![p] = g] /\ acked' = [acked EXCEPT ![p] = <<>>]
  BY DEF Close
<1>2. g.kind \notin {"write", "multi"}
  BY DEF NoHandle, Handle
<1>. HIDE DEF g
<1>0. h'[p] = g /\ acked'[p] = <<>>
  BY <1>1 DEF FilesInv
<1>3. CASE bucket' = bucket
  BY <1>0, <1>1, <1>2, <1>3, GiveUp
<1>4. CASE bucket' # bucket
  <2>1. /\ h[p].kind \in {"write", "multi"}
        /\ bucket' = [bucket EXCEPT ![h[p].key] = h[p].data]
    BY <1>4 DEF Close, Change
  <2>2. /\ h[p] \in HandleType /\ acked[p] \in Seq(Value) /\ h[p].key \in Key
        /\ HandleAcked(p)
    BY <2>1 DEF FilesInv
  <2>. DEFINE c == DraftIs(h[p], acked[p])
  <2>3. c \in Store!Draft /\ c.key = h[p].key /\ c.sure \o c.doubt = h[p].data
    BY <2>1, <2>2, DraftShape DEF HandleAcked
  <2>4. c # NoDraft
    BY <2>3, DraftAssumption
  <2>5. DraftIs(g, <<>>) = NoDraft
    BY <1>2 DEF DraftIs
  <2>6. Drafts' = [Drafts EXCEPT ![p] = NoDraft] /\ Drafts[p] = c
    BY <1>0, <1>1, <2>5, DraftFrame
  <2>. HIDE DEF c
  <2>7. bucket' = [bucket EXCEPT ![c.key] = c.sure \o c.doubt]
    BY <2>1, <2>3
  <2>. QED BY <2>4, <2>6, <2>7 DEF Store!Publish, Drafts
<1>. QED BY <1>3, <1>4

\* Remove, Rename and MkdirAll are steps of the store.
LEMMA ChangeStore ==
    ASSUME FilesInv, NEW p \in Proc, NEW n \in Path(p),
           \/ RemoveFile(p, n)
           \/ n \in Key /\ MkdirAll(p, n)
           \/ \E m \in Path(p) : Rename(p, n, m)
    PROVE  Store!FNext \/ UNCHANGED <<bucket, Drafts>>
<1>1. UNCHANGED Drafts
  <2>1. UNCHANGED <<h, acked>>
    BY DEF RemoveFile, MkdirAll, Rename
  <2>. QED BY <2>1 DEF Drafts, DraftOf
<1>2. CASE RemoveFile(p, n)
  <2>1. Store!Delete(KeyOf(p, n)) \/ UNCHANGED bucket
    BY <1>1, <1>2 DEF RemoveFile, Change, Store!Delete, Drafts
  <2>. QED BY <1>1, <2>1, PathKey DEF Store!FNext
<1>3. CASE n \in Key /\ MkdirAll(p, n)
  <2>1. Store!Empty(n) \/ UNCHANGED bucket
    BY <1>1, <1>3 DEF MkdirAll, Change, Store!Empty, Drafts
  <2>. QED BY <1>1, <1>3, <2>1 DEF Store!FNext
<1>4. CASE \E m \in Path(p) : Rename(p, n, m)
  <2>1. PICK m \in Path(p) : Rename(p, n, m)
    BY <1>4
  <2>2. Store!Move(KeyOf(p, n), KeyOf(p, m)) \/ UNCHANGED bucket
    BY <1>1, <2>1 DEF Rename, Change, Store!Move, Drafts
  <2>. QED BY <1>1, <2>2, PathKey DEF Store!FNext
<1>. QED BY <1>2, <1>3, <1>4

\* The other steps change no draft, or give one up for a handle that reads.
LEMMA ReadStore ==
    ASSUME FilesInv, NEW p \in Proc,
           \/ \E n \in Path(p) \cup {<<>>} : Stat(p, n) \/ Open(p, n) \/ ReadDir(p, n)
           \/ \E n \in Path(p) : Chroot(p, n)
           \/ Request(p)
    PROVE  Store!Draw(p) \/ UNCHANGED <<bucket, Drafts>>
<1>1. UNCHANGED <<bucket, acked>>
  BY DEF Stat, Open, ReadDir, Start, Chroot, Request, StatHead, StatList,
         OpenHead, OpenGet, OpenList, ReadDirPage
<1>2. \/ UNCHANGED h
      \/ \E kind \in {"read", "dir"} : \E k, data :
            h' = [h EXCEPT ![p] = Handle(kind, k, data)]
  BY DEF Stat, Open, ReadDir, Start, Chroot, Request, StatHead, StatList,
         OpenHead, OpenGet, OpenList, ReadDirPage
<1>3. CASE UNCHANGED h
  BY <1>1, <1>3, QuietStore
<1>4. ASSUME NEW kind \in {"read", "dir"}, NEW k, NEW data,
             h' = [h EXCEPT ![p] = Handle(kind, k, data)]
      PROVE  Store!Draw(p)
  <2>. DEFINE g == Handle(kind, k, data)
  <2>1. g.kind \notin {"write", "multi"}
    BY DEF Handle
  <2>2. h' = [h EXCEPT ![p] = g]
    BY <1>4
  <2>. HIDE DEF g
  <2>3. acked' = [acked EXCEPT ![p] = acked[p]]
    BY <1>1 DEF FilesInv
  <2>4. h'[p] = g /\ acked'[p] = acked[p]
    BY <1>1, <2>2 DEF FilesInv
  <2>. QED BY <1>1, <2>1, <2>2, <2>3, <2>4, GiveUp
<1>. QED BY <1>2, <1>3, <1>4

-----------------------------------------------------------------------------
\* Initially nobody writes.
LEMMA StoreInit == Init => Store!FInit
<1>. SUFFICES ASSUME Init PROVE Store!FInit
  OBVIOUS
<1>1. bucket \in [Key -> Seq(Value) \cup {Absent}]
  BY InitInv DEF FilesInv
<1>2. \A p \in Proc : h[p].kind = "none"
  BY DEF Init, NoHandle, Handle
<1>3. Drafts = [p \in Proc |-> NoDraft]
  BY <1>2 DEF Drafts, DraftOf
<1>. QED BY <1>1, <1>3 DEF Store!FInit, Drafts

\* Every step is a step of the store, or changes nothing it shows.
LEMMA StoreNext ==
    FilesInv /\ FilesInv' /\ [Next]_vars => [Store!FNext]_(Store!svars)
<1>. SUFFICES ASSUME FilesInv, FilesInv', [Next]_vars
              PROVE  Store!FNext \/ UNCHANGED <<bucket, Drafts>>
  BY DEF Store!svars, Drafts
<1>1. CASE UNCHANGED vars
  BY <1>1, QuietStore DEF vars
<1>2. CASE Next
  <2>1. PICK p \in Proc : Begin(p) \/ Use(p) \/ Request(p)
    BY <1>2 DEF Next
  <2>2. Store!Draw(p) \/ Store!Publish(p) => Store!FNext
    BY DEF Store!FNext
  <2>3. CASE Begin(p)
    BY <2>2, <2>3, ReadStore, CreateStore, ChangeStore DEF Begin
  <2>4. CASE Use(p)
    BY <2>2, <2>4, CloseStore, WriteStore DEF Use
  <2>5. CASE Request(p)
    BY <2>2, <2>5, ReadStore
  <2>. QED BY <2>1, <2>3, <2>4, <2>5
<1>. QED BY <1>1, <1>2

\* Write and multipart handles implement FileStore (file.go:205-260, 328-404): an
\* object appears in one step and whole, for every number of goroutines, keys,
\* values and Writes, whichever requests fail.
THEOREM FilesImplementStore == Spec => FilesAreWhole
<1>1. Spec => []FilesInv
  BY FilesInvariant
<1>. QED BY <1>1, StoreInit, StoreNext, PTL DEF Spec, FilesAreWhole, Store!FSpec
-----------------------------------------------------------------------------
\* The directories of the bucket.
LEMMA FolderIs ==
    ASSUME NEW f
    PROVE  f \in Folder <=> f = <<>> \/ \E k \in Key : f \in Prefixes(k)
<1>. DEFINE U == {Prefixes(k) : k \in Key}
<1>1. \A T : T \in U <=> \E k \in Key : T = Prefixes(k)
  OBVIOUS
<1>. HIDE DEF U
<1>2. f \in UNION U <=> \E T \in U : f \in T
  OBVIOUS
<1>3. f \in UNION U <=> \E k \in Key : f \in Prefixes(k)
  BY <1>1, <1>2
<1>4. Folder = {<<>>} \cup (UNION U)
  BY DEF Folder, U
<1>. QED BY <1>3, <1>4

\* Keys are sequences of names, and a listing is asked for at the key of a call or
\* at the directory of one.
LEMMA KeySeq ==
    ASSUME NEW k \in Key
    PROVE  /\ k \in Seq(Nat) /\ k # <<>> /\ Len(k) \in Nat \ {0}
           /\ k \in Folder /\ <<>> \in Folder
           /\ Front(k) \in Folder /\ Front(k) \in Seq(Nat)
           /\ Len(Front(k)) = Len(k) - 1
           /\ \A i \in 1..Len(k) - 1 : Front(k)[i] = k[i]
<1>1. k \in Seq(Nat) /\ k # <<>>
  BY FilesAssumption
<1>2. Len(k) \in Nat \ {0}
  BY <1>1
<1>3. k = SubSeq(k, 1, Len(k)) /\ Len(k) \in 0..Len(k) /\ Len(k) - 1 \in 0..Len(k)
  BY <1>1, <1>2
<1>4. k \in Prefixes(k) /\ Front(k) \in Prefixes(k)
  BY <1>3 DEF Prefixes, Front
<1>5. /\ Front(k) \in Seq(Nat) /\ Len(Front(k)) = Len(k) - 1
      /\ \A i \in 1..Len(k) - 1 : Front(k)[i] = k[i]
  <2>. DEFINE n == Len(k) - 1
  <2>1. n \in Nat /\ n <= Len(k)
    BY <1>2
  <2>2. Front(k) = SubSeq(k, 1, n)
    BY DEF Front
  <2>. HIDE DEF n
  <2>3. /\ SubSeq(k, 1, n) \in Seq(Nat) /\ Len(SubSeq(k, 1, n)) = n
        /\ \A i \in 1..n : SubSeq(k, 1, n)[i] = k[i]
    BY <1>1, <2>1
  <2>. QED BY <2>2, <2>3 DEF n
<1>6. Prefixes(k) \subseteq Folder /\ <<>> \in Folder
  BY FolderIs
<1>. QED BY <1>1, <1>2, <1>4, <1>5, <1>6

LEMMA FolderSeq ==
    ASSUME NEW k \in Folder
    PROVE  k \in Seq(Nat) /\ Len(k) \in Nat
<1>1. CASE k = <<>>
  BY <1>1
<1>2. CASE k # <<>>
  <2>1. PICK m \in Key : k \in Prefixes(m)
    BY <1>2, FolderIs
  <2>2. m \in Seq(Nat)
    BY FilesAssumption
  <2>3. PICK l \in 0..Len(m) : k = SubSeq(m, 1, l)
    BY <2>1 DEF Prefixes
  <2>. QED BY <2>2, <2>3
<1>. QED BY <1>1, <1>2

\* The keys below a directory begin with its names and go on.
LEMMA BelowIs ==
    ASSUME NEW k \in Folder, NEW m \in Key
    PROVE  m \in Below[k] <=> /\ Len(k) < Len(m)
                              /\ \A i \in 1..Len(k) : k[i] = m[i]
<1>1. k \in Seq(Nat) /\ m \in Seq(Nat) /\ Len(k) \in Nat /\ Len(m) \in Nat
  BY FolderSeq, FilesAssumption
<1>2. m \in Below[k] <=> IsPrefix(k, m) /\ k # m
  BY DEF Below, IsStrictPrefix
<1>3. ASSUME Len(k) <= Len(m)
      PROVE  SubSeq(k, 1, Len(k)) = SubSeq(m, 1, Len(k))
                <=> \A i \in 1..Len(k) : k[i] = m[i]
  <2>. DEFINE t == SubSeq(m, 1, Len(k))
  <2>1. /\ t \in Seq(Nat) /\ Len(t) = Len(k)
        /\ \A i \in 1..Len(k) : t[i] = m[i]
    BY <1>1, <1>3
  <2>2. SubSeq(k, 1, Len(k)) = k
    BY <1>1
  <2>. HIDE DEF t
  <2>3. (\A i \in 1..Len(k) : k[i] = t[i]) => k = t
    BY <1>1, <2>1, SeqEqual
  <2>4. k = t <=> \A i \in 1..Len(k) : k[i] = m[i]
    BY <2>1, <2>3
  <2>. QED BY <2>2, <2>4 DEF t
<1>4. IsPrefix(k, m) <=> Len(k) <= Len(m) /\ \A i \in 1..Len(k) : k[i] = m[i]
  BY <1>3 DEF IsPrefix
<1>5. Len(k) = Len(m) /\ (\A i \in 1..Len(k) : k[i] = m[i]) => k = m
  BY <1>1, SeqEqual
<1>6. Len(k) < Len(m) => k # m
  BY <1>1
<1>. QED BY <1>1, <1>2, <1>4, <1>5, <1>6

\* An entry of a listing stands for an object below the directory.
LEMMA ItemIs ==
    ASSUME NEW b, NEW k \in Folder, NEW e
    PROVE  e \in Items(b, k) <=>
             \E l \in Key : /\ b[l] # Absent /\ l \in Below[k]
                            /\ e = [name |-> l[Len(k) + 1], dir |-> Len(l) > Len(k) + 1]
<1>1. Below[k] \subseteq Key
  BY DEF Below
<1>. QED BY <1>1 DEF Items

\* HeadObject and the listing of the parent say the same, and so do the listing of
\* a prefix and that of its parent (basic.go:77-109).
LEMMA SameAsParent ==
    ASSUME NEW b, NEW k \in Key
    PROVE  /\ b[k] # Absent <=> [name |-> Last(k), dir |-> FALSE] \in Items(b, Front(k))
           /\ Items(b, k) # {} <=> [name |-> Last(k), dir |-> TRUE] \in Items(b, Front(k))
<1>. DEFINE f == Front(k)
            n == Len(k)
<1>1. /\ k \in Seq(Nat) /\ k \in Folder /\ n \in Nat \ {0} /\ Last(k) = k[n]
      /\ f \in Folder /\ Len(f) = n - 1 /\ Len(f) + 1 = n
      /\ \A i \in 1..n - 1 : f[i] = k[i]
  BY KeySeq DEF Last
<1>. HIDE DEF f, n
<1>2. ASSUME NEW l \in Key
      PROVE  l \in Below[f] /\ l[n] = k[n] <=> Len(l) >= n /\ \A i \in 1..n : l[i] = k[i]
  <2>1. l \in Below[f] <=> Len(l) > n - 1 /\ \A i \in 1..n - 1 : k[i] = l[i]
    BY <1>1, BelowIs
  <2>2. Len(l) \in Nat
    BY KeySeq
  <2>. QED BY <1>1, <2>1, <2>2
<1>3. ASSUME NEW l \in Key
      PROVE  Len(l) = n /\ (\A i \in 1..n : l[i] = k[i]) <=> l = k
  <2>1. l \in Seq(Nat)
    BY KeySeq
  <2>. QED BY <1>1, <2>1, SeqEqual DEF n
<1>4. ASSUME NEW l \in Key
      PROVE  l \in Below[k] <=> l \in Below[f] /\ l[n] = k[n] /\ Len(l) > n
  <2>1. l \in Below[k] <=> Len(l) > n /\ \A i \in 1..n : k[i] = l[i]
    BY <1>1, BelowIs DEF n
  <2>2. Len(l) \in Nat
    BY KeySeq
  <2>. QED BY <1>1, <1>2, <2>1, <2>2
<1>5. ASSUME NEW dir \in BOOLEAN
      PROVE  [name |-> k[n], dir |-> dir] \in Items(b, f) <=>
               \E l \in Key : /\ b[l] # Absent /\ l \in Below[f] /\ l[n] = k[n]
                              /\ dir = (Len(l) > n)
  <2>1. [name |-> k[n], dir |-> dir] \in Items(b, f) <=>
          \E l \in Key : /\ b[l] # Absent /\ l \in Below[f]
                         /\ [name |-> k[n], dir |-> dir]
                              = [name |-> l[n], dir |-> Len(l) > n]
    <3>. DEFINE x == [name |-> k[n], dir |-> dir]
    <3>. HIDE DEF x
    <3>1. x \in Items(b, f) <=>
            \E l \in Key : /\ b[l] # Absent /\ l \in Below[f]
                           /\ x = [name |-> l[Len(f) + 1], dir |-> Len(l) > Len(f) + 1]
      BY <1>1, ItemIs
    <3>2. Len(f) + 1 = n
      BY <1>1
    <3>. QED BY <3>1, <3>2 DEF x
  <2>2. ASSUME NEW l
        PROVE  [name |-> k[n], dir |-> dir] = [name |-> l[n], dir |-> Len(l) > n]
                 <=> l[n] = k[n] /\ dir = (Len(l) > n)
    <3>. DEFINE x == [name |-> k[n], dir |-> dir]
                y == [name |-> l[n], dir |-> Len(l) > n]
    <3>1. x.name = k[n] /\ x.dir = dir /\ y.name = l[n] /\ y.dir = (Len(l) > n)
      OBVIOUS
    <3>2. x = y => l[n] = k[n] /\ dir = (Len(l) > n)
      <4>. HIDE DEF x, y
      <4>. QED BY <3>1
    <3>3. l[n] = k[n] /\ dir = (Len(l) > n) => x = y
      OBVIOUS
    <3>. QED BY <3>2, <3>3
  <2>. QED BY <2>1, <2>2
<1>6. b[k] # Absent <=> [name |-> k[n], dir |-> FALSE] \in Items(b, f)
  <2>1. \A l \in Key : l \in Below[f] /\ l[n] = k[n] /\ FALSE = (Len(l) > n) <=> l = k
    <3>. SUFFICES ASSUME NEW l \in Key
                  PROVE  l \in Below[f] /\ l[n] = k[n] /\ ~(Len(l) > n) <=> l = k
      OBVIOUS
    <3>1. Len(l) \in Nat
      BY KeySeq
    <3>. QED BY <1>1, <1>2, <1>3, <3>1
  <2>. QED BY <1>5, <2>1
<1>7. Items(b, k) # {} <=> [name |-> k[n], dir |-> TRUE] \in Items(b, f)
  <2>1. Items(b, k) # {} <=> \E l \in Key : b[l] # Absent /\ l \in Below[k]
    BY <1>1, ItemIs
  <2>2. [name |-> k[n], dir |-> TRUE] \in Items(b, f) <=>
          \E l \in Key : b[l] # Absent /\ l \in Below[f] /\ l[n] = k[n] /\ Len(l) > n
    BY <1>5
  <2>. QED BY <1>4, <2>1, <2>2
<1>. QED BY <1>1, <1>6, <1>7 DEF f

-----------------------------------------------------------------------------
\* A path ends with a name, and so does its key.
LEMMA PathNamed ==
    ASSUME FilesInv, NEW p \in Proc, NEW n \in Path(p)
    PROVE  KeyOf(p, n) \in Key /\ Last(KeyOf(p, n)) # NoName
<1>1. PICK k \in Key : n \in Suffixes(k)
  <2>. DEFINE U == {Suffixes(k) : k \in Key}
  <2>1. \A T : T \in U <=> \E k \in Key : T = Suffixes(k)
    OBVIOUS
  <2>2. Ends = (UNION U) \ {<<>>}
    BY DEF Ends
  <2>. HIDE DEF U
  <2>3. n \in UNION U
    BY <2>2 DEF Path
  <2>4. \E T \in U : n \in T
    BY <2>3
  <2>. QED BY <2>1, <2>4
<1>2. n # <<>> /\ Last(n) # NoName /\ KeyOf(p, n) \in Key
  BY DEF Path, Ends
<1>3. PICK l \in 1..Len(k) : n = SubSeq(k, l, Len(k))
  BY <1>1, <1>2 DEF Suffixes
<1>4. n \in Seq(Nat) /\ Len(n) \in Nat \ {0}
  <2>1. k \in Seq(Nat) /\ Len(k) \in Nat
    BY KeySeq
  <2>2. SubSeq(k, l, Len(k)) \in Seq(Nat) /\ Len(SubSeq(k, l, Len(k))) \in Nat \ {0}
    BY <2>1
  <2>. QED BY <1>3, <2>2
<1>5. root[p] \in Seq(Nat)
  <2>1. root[p] \in Key \cup {<<>>}
    BY DEF FilesInv
  <2>2. <<>> \in Seq(Nat)
    OBVIOUS
  <2>. QED BY <2>1, <2>2, KeySeq
<1>6. Last(root[p] \o n) = Last(n)
  BY <1>4, <1>5 DEF Last
<1>. QED BY <1>2, <1>6 DEF KeyOf

\* The call in flight or the last one, and the root, are about named keys: the
\* placeholder of a directory is never asked for.
Named(k) == k # <<>> => Last(k) # NoName

\* A call that has seen no object has found out that the file was not there all the
\* time.
FileGone(p) ==
    pc[p] \in {"statList", "openList"} =>
        [name |-> Last(at[p]), dir |-> FALSE] \notin always[p]

\* What is in the bucket now has been seen, and what was there all the time is in
\* the bucket now.
Watching(p) ==
    pc[p] # "idle" => /\ Entries(bucket, Watched(p)) \subseteq ever[p]
                      /\ always[p] \subseteq Entries(bucket, Watched(p))

\* The answer of Stat or Open is true.
AnswerTrue(p) ==
    pc[p] = "idle" /\ at[p] # <<>> =>
        /\ ans[p] = "file" => [name |-> Last(at[p]), dir |-> FALSE] \in ever[p]
        /\ ans[p] = "dir" => [name |-> Last(at[p]), dir |-> TRUE] \in ever[p]
        /\ ans[p] = "none" => \A d \in BOOLEAN :
                                 [name |-> Last(at[p]), dir |-> d] \notin always[p]


-----------------------------------------------------------------------------
\* The listing order is a total order of the entries.
LEMMA RankOrder ==
    ASSUME NEW d \in Entry, NEW e \in Entry
    PROVE  /\ Rank(d) \in Nat
           /\ Rank(d) = Rank(e) => d = e
<1>1. d.name \in Nat /\ e.name \in Nat /\ d.dir \in BOOLEAN /\ e.dir \in BOOLEAN
  BY DEF Entry
<1>2. Rank(d) \in Nat
  BY <1>1 DEF Rank
<1>3. ASSUME Rank(d) = Rank(e) PROVE d.name = e.name /\ d.dir = e.dir
  <2>. DEFINE x == IF d.dir THEN 1 ELSE 0
              y == IF e.dir THEN 1 ELSE 0
  <2>1. x \in {0, 1} /\ y \in {0, 1} /\ (d.dir <=> x = 1) /\ (e.dir <=> y = 1)
    BY <1>1
  <2>2. 2 * d.name + x = 2 * e.name + y
    BY <1>3 DEF Rank
  <2>. HIDE DEF x, y
  <2>3. d.name = e.name /\ x = y
    <3>1. \A a, b \in Nat : \A u, v \in {0, 1} : 2 * a + u = 2 * b + v => a = b /\ u = v
      OBVIOUS
    <3>. QED BY <1>1, <2>1, <2>2, <3>1, ZenonT(30)
  <2>. QED BY <1>1, <2>1, <2>3
<1>4. d.name = e.name /\ d.dir = e.dir => d = e
  BY DEF Entry
<1>. QED BY <1>2, <1>3, <1>4

\* A set of entries has a first one.
LEMMA FirstEntry ==
    ASSUME NEW S \in SUBSET Entry, S # {}
    PROVE  \E e \in S : \A d \in S : Rank(e) <= Rank(d)
<1>. DEFINE T == {Rank(e) : e \in S}
<1>1. T \subseteq Nat /\ T # {}
  BY RankOrder
<1>2. \E m \in T : \A k \in T : m <= k
  <2>. HIDE DEF T
  <2>. QED BY <1>1, LeastNatural
<1>. QED BY <1>2

Sorted(s, n) == \A i, j \in 1..n : i < j => Rank(s[i]) < Rank(s[j])
Enumerated(n, S) == \E s \in [1..n -> S] : ToSet(s) = S /\ Sorted(s, n)

\* Every finite set of entries can be listed in order.
LEMMA CanEnumerate ==
    ASSUME NEW S \in SUBSET Entry, IsFiniteSet(S)
    PROVE  Enumerated(Cardinality(S), S)
<1>. DEFINE f == [e \in Entry |-> Rank(e)]
            n == Cardinality(S)
<1>1. f \in [Entry -> Nat] /\ \A e \in Entry : f[e] = Rank(e)
  BY RankOrder
<1>2. \A d, e \in Entry : f[d] = f[e] => d = e
  BY RankOrder
<1>. HIDE DEF f, n
<1>3. Enumerable(n, S, f)
  BY <1>1, <1>2, EnumerationExists DEF n
<1>4. PICK s \in [1..n -> S] : /\ \A e \in S : \E i \in 1..n : s[i] = e
                               /\ \A i, j \in 1..n : i < j => f[s[i]] < f[s[j]]
  BY <1>3 DEF Enumerable
<1>5. ToSet(s) = S
  BY <1>4 DEF ToSet
<1>6. Sorted(s, n)
  BY <1>1, <1>4 DEF Sorted
<1>. QED BY <1>4, <1>5, <1>6 DEF Enumerated, n

\* The list of a set of entries: all of them, in order.
LEMMA ListedIs ==
    ASSUME NEW S \in SUBSET Entry, IsFiniteSet(S)
    PROVE  /\ Listed(S) \in Seq(S) /\ Len(Listed(S)) = Cardinality(S)
           /\ ToSet(Listed(S)) = S /\ Sorted(Listed(S), Len(Listed(S)))
<1>. DEFINE n == Cardinality(S)
            P(s) == /\ ToSet(s) = S
                    /\ \A i, j \in 1..n : i < j => Rank(s[i]) < Rank(s[j])
<1>1. n \in Nat
  BY FS_CardinalityType
<1>2. \E s \in [1..n -> S] : P(s)
  BY CanEnumerate DEF Enumerated, Sorted
<1>3. Listed(S) = CHOOSE s \in [1..n -> S] : P(s)
  BY DEF Listed
<1>4. Listed(S) \in [1..n -> S] /\ P(Listed(S))
  <2>. HIDE DEF P, n
  <2>. QED BY <1>2, <1>3
<1>5. Listed(S) \in Seq(S) /\ Len(Listed(S)) = n
  <2>. HIDE DEF n
  <2>1. Listed(S) \in Seq(S)
    BY <1>1, <1>4, SeqDef
  <2>. QED BY <1>1, <1>4, <2>1
<1>. QED BY <1>4, <1>5 DEF Sorted

-----------------------------------------------------------------------------
\* A listing is a finite set of entries, as the keys are finitely many.
LEMMA ItemsFinite ==
    ASSUME NEW b, NEW k \in Folder
    PROVE  Items(b, k) \in SUBSET Entry /\ IsFiniteSet(Items(b, k))
<1>. DEFINE I == Items(b, k)
            D == {m \in Below[k] : b[m] # Absent}
            n == Len(k) + 1
            f == [l \in D |-> [name |-> l[n], dir |-> Len(l) > n]]
<1>1. D \in SUBSET Key
  BY DEF Below
<1>2. IsFiniteSet(D)
  <2>. HIDE DEF D
  <2>. QED BY <1>1, FilesAssumption, FS_Subset
<1>3. I = {[name |-> l[n], dir |-> Len(l) > n] : l \in D}
  BY DEF Items
<1>4. f \in Surjection(D, I)
  <2>1. f \in [D -> I] /\ \A e \in I : \E l \in D : f[l] = e
    <3>. HIDE DEF D, I, n
    <3>. QED BY <1>3
  <2>. HIDE DEF f, D, I
  <2>. QED BY <2>1 DEF Surjection
<1>5. IsFiniteSet(I)
  <2>. HIDE DEF f, D, I
  <2>. QED BY <1>2, <1>4, FS_Surjection
<1>6. \A l \in D : [name |-> l[n], dir |-> Len(l) > n] \in Entry
  <2>. SUFFICES ASSUME NEW l \in D PROVE [name |-> l[n], dir |-> Len(l) > n] \in Entry
    OBVIOUS
  <2>1. l \in Key /\ l \in Below[k] /\ l \in Seq(Nat) /\ Len(l) \in Nat
    BY <1>1, KeySeq
  <2>2. Len(k) \in Nat /\ Len(k) < Len(l)
    BY <2>1, BelowIs, FolderSeq
  <2>3. l[n] \in Nat
    BY <2>1, <2>2
  <2>4. (Len(l) > n) \in BOOLEAN
    OBVIOUS
  <2>. QED BY <2>3, <2>4 DEF Entry
<1>7. I \in SUBSET Entry
  <2>. HIDE DEF I, D, n
  <2>. QED BY <1>3, <1>6
<1>. QED BY <1>5, <1>7

\* What is left to list is part of the listing, and a page is part of that.
LEMMA PageType ==
    ASSUME NEW k \in Folder, NEW t
    PROVE  /\ Rest(k, t) \in SUBSET Items(bucket, k)
           /\ Page(k, t) \in SUBSET Rest(k, t)
           /\ Rest(k, t) \in SUBSET Entry /\ IsFiniteSet(Rest(k, t))
           /\ Page(k, t) \in SUBSET Entry /\ IsFiniteSet(Page(k, t))
<1>1. Rest(k, t) \in SUBSET Items(bucket, k)
  BY DEF Rest
<1>2. Page(k, t) \in SUBSET Rest(k, t)
  BY DEF Page
<1>3. Items(bucket, k) \in SUBSET Entry /\ IsFiniteSet(Items(bucket, k))
  BY ItemsFinite
<1>. QED BY <1>1, <1>2, <1>3, FS_Subset

\* A page is where the rest begins: with an entry it has every one before it, and it
\* is empty only when nothing is left (PageSize is not 0).
LEMMA PageBegins ==
    ASSUME NEW k \in Folder, NEW t
    PROVE  /\ \A e \in Page(k, t) : \A d \in Rest(k, t) :
                 Rank(d) <= Rank(e) => d \in Page(k, t)
           /\ Page(k, t) = {} => Rest(k, t) = {}
<1>. DEFINE R == Rest(k, t)
            Before(e) == {f \in R : Rank(f) < Rank(e)}
<1>1. Page(k, t) = {e \in R : Cardinality(Before(e)) < PageSize}
  BY DEF Page
<1>2. R \in SUBSET Entry /\ IsFiniteSet(R) /\ PageSize \in Nat \ {0}
  BY PageType, FilesAssumption
<1>. HIDE DEF R
<1>3. \A e \in R : IsFiniteSet(Before(e)) /\ Cardinality(Before(e)) \in Nat
  <2>. SUFFICES ASSUME NEW e \in R
                PROVE  IsFiniteSet(Before(e)) /\ Cardinality(Before(e)) \in Nat
    OBVIOUS
  <2>. DEFINE B == Before(e)
  <2>1. B \in SUBSET R
    OBVIOUS
  <2>. HIDE DEF B
  <2>2. IsFiniteSet(B)
    BY <1>2, <2>1, FS_Subset
  <2>3. Cardinality(B) \in Nat
    BY <2>2, FS_CardinalityType
  <2>. QED BY <2>2, <2>3 DEF B
<1>4. ASSUME NEW e \in Page(k, t), NEW d \in R, Rank(d) <= Rank(e)
      PROVE  d \in Page(k, t)
  <2>. DEFINE B == Before(e)
              A == Before(d)
  <2>1. e \in R /\ Cardinality(B) < PageSize
    BY <1>1
  <2>2. A \in SUBSET B
    <3>1. \A f \in R : Rank(f) \in Nat
      BY <1>2, RankOrder
    <3>. QED BY <1>4, <2>1, <3>1
  <2>3. IsFiniteSet(B) /\ Cardinality(A) \in Nat /\ Cardinality(B) \in Nat
    BY <1>3, <2>1
  <2>4. Cardinality(A) <= Cardinality(B)
    <3>. HIDE DEF A, B
    <3>. QED BY <2>2, <2>3, FS_Subset
  <2>5. Cardinality(A) < PageSize
    <3>. HIDE DEF A, B
    <3>. QED BY <1>2, <2>1, <2>3, <2>4
  <2>. QED BY <1>1, <2>5
<1>5. ASSUME R # {} PROVE Page(k, t) # {}
  <2>1. PICK e \in R : \A d \in R : Rank(e) <= Rank(d)
    BY <1>2, <1>5, FirstEntry
  <2>. DEFINE B == Before(e)
  <2>2. B = {}
    <3>1. \A f \in R : Rank(f) \in Nat
      BY <1>2, RankOrder
    <3>. QED BY <2>1, <3>1
  <2>3. Cardinality(B) < PageSize
    <3>. HIDE DEF B
    <3>. QED BY <1>2, <2>2, FS_EmptySet
  <2>. QED BY <1>1, <2>3
<1>. QED BY <1>4, <1>5 DEF R

\* The token after a page is the rank of its last entry.
LEMMA TokenIs ==
    ASSUME NEW S \in SUBSET Entry, IsFiniteSet(S), S # {}
    PROVE  LET e == Last(Listed(S))
           IN  e \in S /\ \A d \in S : Rank(d) <= Rank(e)
<1>. DEFINE s == Listed(S)
            n == Len(s)
<1>1. s \in Seq(S) /\ n = Cardinality(S) /\ ToSet(s) = S /\ Sorted(s, n)
  BY ListedIs
<1>2. n \in Nat /\ n # 0
  BY <1>1, FS_CardinalityType, FS_EmptySet
<1>. HIDE DEF s
<1>3. s[n] \in S /\ Last(s) = s[n]
  BY <1>1, <1>2 DEF Last
<1>4. ASSUME NEW d \in S PROVE Rank(d) <= Rank(s[n])
  <2>1. PICK i \in 1..n : d = s[i]
    BY <1>1 DEF ToSet
  <2>2. i # n => Rank(s[i]) < Rank(s[n])
    BY <1>1, <1>2 DEF Sorted
  <2>3. Rank(d) \in Nat /\ Rank(s[n]) \in Nat
    BY <1>3, RankOrder
  <2>. QED BY <2>1, <2>2, <2>3
<1>. QED BY <1>3, <1>4 DEF s

-----------------------------------------------------------------------------
\* What one page adds to a listing.
NewDirs(p) == Listed({e \in Page(at[p], ct[p]) : e.name # NoName /\ e.dir})
NewFiles(p) == Listed({e \in Page(at[p], ct[p]) : e.name # NoName /\ ~e.dir})

LEMMA PageStep ==
    ASSUME NEW p \in Proc, ReadDirPage(p)
    PROVE  /\ pc[p] = "list" /\ UNCHANGED <<bucket, root, h, calls, acked, at>>
           /\ \/ /\ dirs' = [dirs EXCEPT ![p] = @ \o NewDirs(p)]
                 /\ files' = [files EXCEPT ![p] = @ \o NewFiles(p)]
                 /\ Page(at[p], ct[p]) = Rest(at[p], ct[p])
                 /\ UNCHANGED ct
                 /\ pc' = [pc EXCEPT ![p] = "idle"] /\ ans' = [ans EXCEPT ![p] = "listed"]
              \/ /\ dirs' = [dirs EXCEPT ![p] = @ \o NewDirs(p)]
                 /\ files' = [files EXCEPT ![p] = @ \o NewFiles(p)]
                 /\ Page(at[p], ct[p]) # Rest(at[p], ct[p])
                 /\ ct' = [ct EXCEPT ![p] = Rank(Last(Listed(Page(at[p], ct[p]))))]
                 /\ UNCHANGED <<pc, ans>>
              \/ /\ UNCHANGED <<ct, dirs, files>>
                 /\ pc' = [pc EXCEPT ![p] = "idle"] /\ ans' = [ans EXCEPT ![p] = "error"]
<1>. DEFINE page == Page(at[p], ct[p])
            named == {e \in page : e.name # NoName}
<1>1. /\ {e \in named : e.dir} = {e \in page : e.name # NoName /\ e.dir}
      /\ {e \in named : ~e.dir} = {e \in page : e.name # NoName /\ ~e.dir}
  OBVIOUS
<1>2. Listed({e \in named : e.dir}) = NewDirs(p) /\ Listed({e \in named : ~e.dir}) = NewFiles(p)
  BY <1>1 DEF NewDirs, NewFiles
<1>3. \/ /\ dirs' = [dirs EXCEPT ![p] = @ \o Listed({e \in named : e.dir})]
         /\ files' = [files EXCEPT ![p] = @ \o Listed({e \in named : ~e.dir})]
         /\ IF page = Rest(at[p], ct[p])
            THEN Return(p, "listed") /\ UNCHANGED ct
            ELSE /\ ct' = [ct EXCEPT ![p] = Rank(Last(Listed(page)))]
                 /\ UNCHANGED callVars
      \/ Return(p, "error") /\ UNCHANGED listVars
  BY Zenon DEF ReadDirPage
<1>4. pc[p] = "list" /\ UNCHANGED <<bucket, root, h, calls, acked>>
  BY Zenon DEF ReadDirPage
<1>. HIDE DEF page, named
<1>5. \/ /\ dirs' = [dirs EXCEPT ![p] = @ \o NewDirs(p)]
         /\ files' = [files EXCEPT ![p] = @ \o NewFiles(p)]
         /\ IF page = Rest(at[p], ct[p])
            THEN Return(p, "listed") /\ UNCHANGED ct
            ELSE /\ ct' = [ct EXCEPT ![p] = Rank(Last(Listed(page)))]
                 /\ UNCHANGED callVars
      \/ Return(p, "error") /\ UNCHANGED listVars
  BY <1>2, <1>3
<1>. QED BY <1>4, <1>5 DEF page, Return, callVars, listVars

\* A listing asks for a directory, and what it collects are entries.
LEMMA PageAdds ==
    ASSUME FilesInv, NEW p \in Proc, pc[p] = "list"
    PROVE  LET page == Page(at[p], ct[p])
               D == {e \in page : e.name # NoName /\ e.dir}
               F == {e \in page : e.name # NoName /\ ~e.dir}
           IN  /\ at[p] \in Folder
               /\ D \in SUBSET Entry /\ IsFiniteSet(D)
               /\ F \in SUBSET Entry /\ IsFiniteSet(F)
               /\ NewDirs(p) = Listed(D) /\ NewFiles(p) = Listed(F)
               /\ NewDirs(p) \in Seq(D) /\ NewFiles(p) \in Seq(F)
               /\ NewDirs(p) \in Seq(Entry) /\ NewFiles(p) \in Seq(Entry)
<1>. DEFINE page == Page(at[p], ct[p])
            D == {e \in page : e.name # NoName /\ e.dir}
            F == {e \in page : e.name # NoName /\ ~e.dir}
<1>1. at[p] \in Folder
  <2>1. at[p] \in Key \cup {<<>>}
    BY DEF FilesInv
  <2>. QED BY <2>1, KeySeq, FolderIs
<1>2. page \in SUBSET Entry /\ IsFiniteSet(page)
  BY <1>1, PageType
<1>3. D \in SUBSET page /\ F \in SUBSET page
  OBVIOUS
<1>4. NewDirs(p) = Listed(D) /\ NewFiles(p) = Listed(F)
  BY DEF NewDirs, NewFiles
<1>. HIDE DEF page, D, F
<1>5. /\ D \in SUBSET Entry /\ IsFiniteSet(D)
      /\ F \in SUBSET Entry /\ IsFiniteSet(F)
  BY <1>2, <1>3, FS_Subset
<1>6. NewDirs(p) \in Seq(D) /\ NewFiles(p) \in Seq(F)
  BY <1>4, <1>5, ListedIs
<1>7. NewDirs(p) \in Seq(Entry) /\ NewFiles(p) \in Seq(Entry)
  BY <1>5, <1>6, SeqMonotonic
<1>. QED BY <1>1, <1>4, <1>5, <1>6, <1>7 DEF page, D, F

\* A call that is in flight watches a directory.
LEMMA WatchedFolder ==
    ASSUME FilesInv, NEW p \in Proc, pc[p] # "idle"
    PROVE  /\ Watched(p) \in Folder /\ Entries(bucket, Watched(p)) \in SUBSET Entry
           /\ pc[p] \in Asking => at[p] \in Key /\ Watched(p) = Front(at[p])
           /\ pc[p] = "list" => Watched(p) = at[p]
<1>1. pc[p] \in Asking \/ pc[p] = "list"
  BY DEF FilesInv
<1>2. ASSUME pc[p] \in Asking
      PROVE  at[p] \in Key /\ Watched(p) = Front(at[p]) /\ Watched(p) \in Folder
  <2>1. at[p] \in Key /\ pc[p] # "list"
    BY <1>2 DEF FilesInv, Asking
  <2>2. at[p] # <<>> /\ Front(at[p]) \in Folder
    BY <2>1, KeySeq
  <2>. QED BY <2>1, <2>2 DEF Watched
<1>3. ASSUME pc[p] = "list"
      PROVE  Watched(p) = at[p] /\ Watched(p) \in Folder
  BY <1>3, PageAdds DEF Watched
<1>4. Watched(p) \in Folder
  BY <1>1, <1>2, <1>3
<1>5. Entries(bucket, Watched(p)) \in SUBSET Entry
  BY <1>4, ItemsFinite DEF Entries
<1>. QED BY <1>2, <1>3, <1>4, <1>5 DEF Asking

WatchesEntries == \A p \in Proc :
    pc[p] # "idle" => Entries(bucket, Watched(p)) \in SUBSET Entry

\* The same, after a step.
LEMMA WatchedNext == FilesInv' => WatchesEntries'
<1>1. FilesInv => WatchesEntries
  BY WatchedFolder DEF WatchesEntries
<1>. QED BY <1>1, PTL

\* What the histories become.
LEMMA Observed ==
    ASSUME Observe, NEW q \in Proc
    PROVE  /\ pc'[q] = "idle" => ever'[q] = ever[q] /\ always'[q] = always[q]
           /\ pc'[q] # "idle" =>
                 /\ Entries(bucket', Watched(q)') \subseteq ever'[q]
                 /\ always'[q] \subseteq Entries(bucket', Watched(q)')
                 /\ pc[q] # "idle" => ever[q] \subseteq ever'[q]
                                      /\ always'[q] \subseteq always[q]
                 /\ pc[q] # "idle" => ever'[q] \subseteq ever[q] \cup Entries(bucket', Watched(q)')
                 /\ pc[q] = "idle" => ever'[q] \subseteq Entries(bucket', Watched(q)')
<1>. DEFINE N(p) == Entries(bucket', Watched(p)')
            now == [p \in Proc |-> IF pc'[p] = "idle" THEN {} ELSE N(p)]
<1>1. /\ ever' = [p \in Proc |->
              IF pc'[p] = "idle" THEN ever[p]
              ELSE now[p] \cup (IF pc[p] = "idle" THEN {} ELSE ever[p])]
      /\ always' = [p \in Proc |->
              IF pc'[p] = "idle" THEN always[p]
              ELSE now[p] \cap (IF pc[p] = "idle" THEN now[p] ELSE always[p])]
  BY Zenon DEF Observe
<1>2. now[q] = IF pc'[q] = "idle" THEN {} ELSE N(q)
  OBVIOUS
<1>. HIDE DEF now, N
<1>3. /\ ever'[q] = IF pc'[q] = "idle" THEN ever[q]
                    ELSE now[q] \cup (IF pc[q] = "idle" THEN {} ELSE ever[q])
      /\ always'[q] = IF pc'[q] = "idle" THEN always[q]
                      ELSE now[q] \cap (IF pc[q] = "idle" THEN now[q] ELSE always[q])
  BY <1>1
<1>4. /\ pc'[q] = "idle" => ever'[q] = ever[q] /\ always'[q] = always[q]
      /\ pc'[q] # "idle" =>
            /\ N(q) \subseteq ever'[q] /\ always'[q] \subseteq N(q)
            /\ pc[q] # "idle" => ever[q] \subseteq ever'[q] /\ always'[q] \subseteq always[q]
            /\ pc[q] # "idle" => ever'[q] \subseteq ever[q] \cup N(q)
            /\ pc[q] = "idle" => ever'[q] \subseteq N(q)
  BY <1>2, <1>3
<1>. QED BY <1>4 DEF N

-----------------------------------------------------------------------------
\* The types of what FilesInv leaves out.
LEMMA TypeInit == Init => TypeOK
<1>. SUFFICES ASSUME Init PROVE TypeOK
  OBVIOUS
<1>1. FilesInv
  BY InitInv
<1>2. <<>> \in Seq(Entry) /\ -1 \in Int
  OBVIOUS
<1>3. /\ ct \in [Proc -> Int] /\ calls \in [Proc -> Nat]
      /\ dirs \in [Proc -> Seq(Entry)] /\ files \in [Proc -> Seq(Entry)]
      /\ ans \in [Proc -> {"", "file", "dir", "none", "error", "listed"}]
      /\ ever \in [Proc -> SUBSET Entry] /\ always \in [Proc -> SUBSET Entry]
  BY <1>2 DEF Init
<1>. QED BY <1>1, <1>3 DEF TypeOK, FilesInv

\* The history variables hold entries.
LEMMA ObserveType ==
    ASSUME TypeOK, FilesInv', Observe
    PROVE  ever' \in [Proc -> SUBSET Entry] /\ always' \in [Proc -> SUBSET Entry]
<1>1. ASSUME NEW q \in Proc
      PROVE  ever'[q] \in SUBSET Entry /\ always'[q] \in SUBSET Entry
  <2>1. ever[q] \in SUBSET Entry /\ always[q] \in SUBSET Entry
    BY DEF TypeOK
  <2>2. pc'[q] # "idle" => Entries(bucket', Watched(q)') \in SUBSET Entry
    BY WatchedNext DEF WatchesEntries
  <2>. QED BY <2>1, <2>2, Observed
<1>2. /\ ever' = [p \in Proc |-> ever'[p]] /\ always' = [p \in Proc |-> always'[p]]
  BY Zenon DEF Observe
<1>. QED BY <1>1, <1>2

-----------------------------------------------------------------------------
\* A call of Stat, Open or ReadDir begins: with a key that has a name, or at the root
\* of the bucket, where Stat and Open answer at once.
Begins(p, k) ==
    /\ pc[p] = "idle" /\ k \in Key \cup {<<>>} /\ Named(k)
    /\ at' = [at EXCEPT ![p] = k] /\ UNCHANGED <<bucket, root>>
    /\ \/ /\ k # <<>> /\ ans' = [ans EXCEPT ![p] = ""] /\ UNCHANGED listVars
          /\ pc' = [pc EXCEPT ![p] = "statHead"] \/ pc' = [pc EXCEPT ![p] = "openHead"]
       \/ /\ k = <<>> /\ ans' = [ans EXCEPT ![p] = "dir"] /\ UNCHANGED listVars
          /\ pc' = [pc EXCEPT ![p] = "idle"]
       \/ /\ ans' = [ans EXCEPT ![p] = ""] /\ pc' = [pc EXCEPT ![p] = "list"]
          /\ ct' = [ct EXCEPT ![p] = -1]
          /\ dirs' = [dirs EXCEPT ![p] = <<>>] /\ files' = [files EXCEPT ![p] = <<>>]

\* Other calls and the use of a handle: no call is begun or answered.
Elsewhere(p) ==
    /\ pc[p] = "idle" /\ UNCHANGED <<callVars, listVars>>
    /\ \/ UNCHANGED root
       \/ \E k \in Key : Named(k) /\ root' = [root EXCEPT ![p] = k]

LEMMA LookBegins ==
    ASSUME FilesInv, NEW p \in Proc, Named(root[p]), NEW n \in Path(p) \cup {<<>>},
           Stat(p, n) \/ Open(p, n) \/ ReadDir(p, n)
    PROVE  Begins(p, KeyOf(p, n))
<1>. DEFINE k == KeyOf(p, n)
<1>1. k \in Key \cup {<<>>}
  BY PathKey, RootKey
<1>2. Named(k)
  <2>1. CASE n = <<>>
    <3>1. root[p] \in Seq(Nat)
      <4>1. root[p] \in Key \cup {<<>>}
        BY DEF FilesInv
      <4>2. <<>> \in Seq(Nat)
        OBVIOUS
      <4>. QED BY <4>1, <4>2, KeySeq
    <3>2. k = root[p]
      BY <2>1, <3>1 DEF KeyOf
    <3>. QED BY <3>2
  <2>2. CASE n \in Path(p)
    BY <2>2, PathNamed DEF Named
  <2>. QED BY <2>1, <2>2
<1>3. pc[p] = "idle"
  BY DEF Stat, Open, ReadDir, Call
<1>4. CASE Stat(p, n)
  BY <1>1, <1>2, <1>3, <1>4 DEF Stat, Start, Begins
<1>5. CASE Open(p, n)
  BY <1>1, <1>2, <1>3, <1>5 DEF Open, Start, Begins
<1>6. CASE ReadDir(p, n)
  BY <1>1, <1>2, <1>3, <1>6 DEF ReadDir, Start, Begins
<1>. QED BY <1>4, <1>5, <1>6

\* The three kinds of steps, as the calls that ask see them.
LEMMA StepKinds ==
    ASSUME FilesInv, NEW p \in Proc, Named(root[p]), Begin(p) \/ Use(p) \/ Request(p)
    PROVE  (\E k : Begins(p, k)) \/ Elsewhere(p) \/ Request(p)
<1>1. ASSUME NEW n \in Path(p), Chroot(p, n)
      PROVE  Elsewhere(p)
  BY <1>1, PathNamed DEF Chroot, Call, Elsewhere, Named
<1>2. ASSUME NEW n \in Path(p),
             \/ Create(p, n) \/ CreateMultipart(p, n) \/ RemoveFile(p, n)
             \/ MkdirAll(p, n)
             \/ \E m \in Path(p) : Rename(p, n, m)
      PROVE  Elsewhere(p)
  BY <1>2 DEF Create, CreateMultipart, RemoveFile, MkdirAll, Rename, Call, Change, Elsewhere
<1>3. CASE Use(p)
  BY <1>3 DEF Use, Close, Write, UploadPart, Change, Elsewhere
<1>4. CASE Begin(p)
  BY <1>1, <1>2, <1>4, LookBegins DEF Begin
<1>. QED BY <1>3, <1>4

-----------------------------------------------------------------------------
\* The calls of Stat and Open answer, or go on with the next request.
LEMMA AskStep ==
    ASSUME NEW p \in Proc, StatHead(p) \/ StatList(p) \/ OpenHead(p) \/ OpenGet(p) \/ OpenList(p)
    PROVE  /\ pc[p] \in Asking /\ UNCHANGED <<bucket, root, listVars, at>>
           /\ \/ /\ pc' = [pc EXCEPT ![p] = "idle"]
                 /\ \E a \in {"file", "dir", "none", "error"} : ans' = [ans EXCEPT ![p] = a]
              \/ \E l \in Asking : pc' = [pc EXCEPT ![p] = l] /\ UNCHANGED ans
<1>1. CASE StatHead(p)
  BY <1>1 DEF StatHead, Return, Goto, Asking
<1>2. CASE StatList(p)
  BY <1>2 DEF StatList, Return, Goto, Asking
<1>3. CASE OpenHead(p)
  BY <1>3 DEF OpenHead, Return, Goto, Asking
<1>4. CASE OpenGet(p)
  BY <1>4 DEF OpenGet, Return, Goto, Asking
<1>5. CASE OpenList(p)
  BY <1>5 DEF OpenList, Return, Goto, Asking
<1>. QED BY <1>1, <1>2, <1>3, <1>4, <1>5

\* Every step keeps the types.
LEMMA TypeStep ==
    ASSUME TypeOK, FilesInv, FilesInv', NEW p \in Proc, Named(root[p]),
           Begin(p) \/ Use(p) \/ Request(p), Observe
    PROVE  TypeOK'
<1>. DEFINE Answer == {"", "file", "dir", "none", "error", "listed"}
<1>1. calls' = calls \/ calls' = [calls EXCEPT ![p] = @ + 1]
  BY DEF Begin, Use, Request, Stat, Open, ReadDir, Chroot, Create, CreateMultipart,
         RemoveFile, MkdirAll, Rename, Call, Close, Write, UploadPart, StatHead,
         StatList, OpenHead, OpenGet, OpenList, ReadDirPage
<1>0. /\ ans \in [Proc -> Answer] /\ ct \in [Proc -> Int] /\ calls \in [Proc -> Nat]
      /\ dirs \in [Proc -> Seq(Entry)] /\ files \in [Proc -> Seq(Entry)]
  BY DEF TypeOK
<1>2. calls' \in [Proc -> Nat]
  <2>. DEFINE c == calls[p] + 1
  <2>0. calls[p] \in Nat
    BY <1>0
  <2>1. c \in Nat
    BY <2>0
  <2>2. calls' = calls \/ calls' = [calls EXCEPT ![p] = c]
    BY <1>1
  <2>. HIDE DEF c
  <2>. QED BY <1>0, <2>1, <2>2
<1>3. /\ ans' \in [Proc -> Answer] /\ ct' \in [Proc -> Int]
      /\ dirs' \in [Proc -> Seq(Entry)] /\ files' \in [Proc -> Seq(Entry)]
  <2>1. CASE \E k : Begins(p, k)
    <3>1. <<>> \in Seq(Entry) /\ -1 \in Int
      OBVIOUS
    <3>2. /\ ans' = ans \/ \E a \in Answer : ans' = [ans EXCEPT ![p] = a]
          /\ ct' = ct \/ ct' = [ct EXCEPT ![p] = -1]
          /\ dirs' = dirs \/ dirs' = [dirs EXCEPT ![p] = <<>>]
          /\ files' = files \/ files' = [files EXCEPT ![p] = <<>>]
      BY <2>1 DEF Begins, listVars
    <3>3. ans' \in [Proc -> Answer]
      <4>. HIDE DEF Answer
      <4>. QED BY <1>0, <3>2
    <3>4. ct' \in [Proc -> Int]
      BY <1>0, <3>1, <3>2
    <3>5. dirs' \in [Proc -> Seq(Entry)] /\ files' \in [Proc -> Seq(Entry)]
      BY <1>0, <3>1, <3>2, ZenonT(30)
    <3>. QED BY <3>3, <3>4, <3>5
  <2>2. CASE Elsewhere(p)
    BY <2>2 DEF Elsewhere, TypeOK, listVars, callVars
  <2>3. CASE ReadDirPage(p)
    <3>1. pc[p] = "list"
      BY <2>3 DEF ReadDirPage
    <3>2. ans' \in [Proc -> Answer]
      BY <2>3, PageStep DEF TypeOK
    <3>3. /\ dirs[p] \o NewDirs(p) \in Seq(Entry)
          /\ files[p] \o NewFiles(p) \in Seq(Entry)
      <4>1. NewDirs(p) \in Seq(Entry) /\ NewFiles(p) \in Seq(Entry)
        BY <3>1, PageAdds
      <4>2. dirs[p] \in Seq(Entry) /\ files[p] \in Seq(Entry)
        BY DEF TypeOK
      <4>. QED BY <4>1, <4>2
    <3>4. dirs' \in [Proc -> Seq(Entry)] /\ files' \in [Proc -> Seq(Entry)]
      <4>1. \/ dirs' = [dirs EXCEPT ![p] = dirs[p] \o NewDirs(p)] /\
               files' = [files EXCEPT ![p] = files[p] \o NewFiles(p)]
            \/ UNCHANGED <<dirs, files>>
        BY <2>3, PageStep
      <4>. DEFINE x == dirs[p] \o NewDirs(p)
                  y == files[p] \o NewFiles(p)
      <4>2. x \in Seq(Entry) /\ y \in Seq(Entry)
        BY <3>3
      <4>. HIDE DEF x, y
      <4>3. \/ dirs' = [dirs EXCEPT ![p] = x] /\ files' = [files EXCEPT ![p] = y]
            \/ UNCHANGED <<dirs, files>>
        BY <4>1 DEF x, y
      <4>. QED BY <1>0, <4>2, <4>3
    <3>5. ct' \in [Proc -> Int]
      <4>. DEFINE page == Page(at[p], ct[p])
                  r == Rank(Last(Listed(page)))
      <4>1. CASE UNCHANGED ct
        BY <4>1 DEF TypeOK
      <4>2. CASE page # Rest(at[p], ct[p]) /\ ct' = [ct EXCEPT ![p] = r]
        <5>1. at[p] \in Folder
          BY <3>1, PageAdds
        <5>2. page \in SUBSET Entry /\ IsFiniteSet(page) /\ page # {}
          BY <4>2, <5>1, PageType, PageBegins
        <5>. HIDE DEF page
        <5>3. r \in Nat
          BY <5>2, TokenIs, RankOrder
        <5>4. r \in Int /\ ct' = [ct EXCEPT ![p] = r]
          BY <4>2, <5>3 DEF page
        <5>. HIDE DEF r
        <5>. QED BY <1>0, <5>4
      <4>. QED BY <2>3, <4>1, <4>2, PageStep
    <3>. QED BY <3>2, <3>4, <3>5
  <2>4. CASE StatHead(p) \/ StatList(p) \/ OpenHead(p) \/ OpenGet(p) \/ OpenList(p)
    BY <2>4, AskStep DEF TypeOK, listVars
  <2>. QED BY <2>1, <2>2, <2>3, <2>4, StepKinds DEF Request
<1>4. ever' \in [Proc -> SUBSET Entry] /\ always' \in [Proc -> SUBSET Entry]
  BY ObserveType
<1>. QED BY <1>2, <1>3, <1>4 DEF TypeOK, FilesInv

-----------------------------------------------------------------------------
\* A listing in progress: what it has collected was there, everything up to the token
\* that was there all the time is collected, and directories and files are in order
\* and apart.
Collected(p) == ToSet(dirs[p]) \cup ToSet(files[p])
InOrder(p) ==
    /\ Sorted(dirs[p], Len(dirs[p])) /\ \A e \in ToSet(dirs[p]) : e.dir
    /\ Sorted(files[p], Len(files[p])) /\ \A e \in ToSet(files[p]) : ~e.dir
Listing(p) ==
    pc[p] = "list" =>
        /\ Collected(p) \subseteq ever[p]
        /\ \A e \in always[p] : Rank(e) <= ct[p] => e \in Collected(p)
        /\ \A e \in Collected(p) : Rank(e) <= ct[p]
        /\ InOrder(p)

\* A listing that is answered.
ListTrue(p) ==
    pc[p] = "idle" /\ ans[p] = "listed" =>
        always[p] \subseteq Collected(p) /\ Collected(p) \subseteq ever[p] /\ InOrder(p)

LookOf(p) == /\ Named(at[p]) /\ FileGone(p) /\ Watching(p) /\ AnswerTrue(p)
             /\ Listing(p) /\ ListTrue(p)
LookIInv ==
    FilesInv /\ TypeOK /\ \A p \in Proc : Named(root[p]) /\ LookOf(p)

\* A call that takes no step sees more and more, and less and less all the time.
LEMMA Bystander ==
    ASSUME NEW q \in Proc, Observe, LookOf(q),
           pc'[q] = pc[q], at'[q] = at[q], ans'[q] = ans[q], ct'[q] = ct[q],
           dirs'[q] = dirs[q], files'[q] = files[q]
    PROVE  LookOf(q)'
<1>1. Collected(q)' = Collected(q) /\ (InOrder(q)' <=> InOrder(q))
  BY DEF Collected, InOrder
<1>2. Watching(q)'
  BY Observed DEF Watching
<1>3. /\ pc[q] = "idle" => ever'[q] = ever[q] /\ always'[q] = always[q]
      /\ pc[q] # "idle" => ever[q] \subseteq ever'[q] /\ always'[q] \subseteq always[q]
  BY Observed
<1>4. Named(at[q])' /\ FileGone(q)'
  BY <1>3 DEF LookOf, Named, FileGone
<1>5. AnswerTrue(q)'
  BY <1>3 DEF LookOf, AnswerTrue
<1>6. Listing(q)' /\ ListTrue(q)'
  BY <1>1, <1>3 DEF LookOf, Listing, ListTrue
<1>. QED BY <1>2, <1>4, <1>5, <1>6 DEF LookOf

\* A call begins with nothing known.
LEMMA BeginsLook ==
    ASSUME FilesInv, TypeOK, TypeOK', NEW p \in Proc, NEW k, Begins(p, k), Observe
    PROVE  LookOf(p)'
<1>1. /\ pc \in [Proc -> Asking \cup {"idle", "list"}]
      /\ at \in [Proc -> Key \cup {<<>>}] /\ ct \in [Proc -> Int]
      /\ ans \in [Proc -> {"", "file", "dir", "none", "error", "listed"}]
      /\ dirs \in [Proc -> Seq(Entry)] /\ files \in [Proc -> Seq(Entry)]
  BY DEF TypeOK
<1>2. /\ at'[p] = k /\ Named(k)
      /\ \/ k # <<>> /\ pc'[p] \in {"statHead", "openHead"} /\ ans'[p] = ""
         \/ k = <<>> /\ pc'[p] = "idle" /\ ans'[p] = "dir"
         \/ /\ pc'[p] = "list" /\ ans'[p] = "" /\ ct'[p] = -1
            /\ dirs'[p] = <<>> /\ files'[p] = <<>>
  BY <1>1 DEF Begins
<1>3. Watching(p)'
  BY Observed DEF Watching
<1>4. Named(at[p])' /\ FileGone(p)' /\ AnswerTrue(p)' /\ ListTrue(p)'
  BY <1>2 DEF Named, FileGone, AnswerTrue, ListTrue
<1>5. Listing(p)'
  <2>. SUFFICES ASSUME pc'[p] = "list" PROVE Listing(p)'
    BY DEF Listing
  <2>1. ct'[p] = -1 /\ dirs'[p] = <<>> /\ files'[p] = <<>>
    BY <1>2
  <2>2. ToSet(<<>>) = {} /\ Sorted(<<>>, Len(<<>>))
    BY DEF ToSet, Sorted
  <2>3. Collected(p)' = {} /\ InOrder(p)'
    BY <2>1, <2>2 DEF Collected, InOrder
  <2>4. \A e \in always'[p] : ~(Rank(e) <= -1)
    <3>1. always'[p] \in SUBSET Entry
      BY DEF TypeOK
    <3>2. \A e \in always'[p] : Rank(e) \in Nat
      BY <3>1, RankOrder
    <3>. QED BY <3>2
  <2>. QED BY <2>1, <2>3, <2>4 DEF Listing
<1>. QED BY <1>3, <1>4, <1>5 DEF LookOf

\* What the requests of Stat and Open find out about the parent directory.
LEMMA AskFacts ==
    ASSUME FilesInv, NEW p \in Proc, LookOf(p), pc[p] \in Asking
    PROVE  LET as(d) == [name |-> Last(at[p]), dir |-> d]
           IN  /\ bucket[at[p]] # Absent => as(FALSE) \in ever[p]
               /\ bucket[at[p]] = Absent => as(FALSE) \notin always[p]
               /\ Items(bucket, at[p]) # {} => as(TRUE) \in ever[p]
               /\ Items(bucket, at[p]) = {} => as(TRUE) \notin always[p]
<1>. DEFINE as(d) == [name |-> Last(at[p]), dir |-> d]
            f == Front(at[p])
<1>1. at[p] \in Key /\ Watched(p) = f /\ pc[p] # "idle"
  BY WatchedFolder DEF Asking
<1>2. Last(at[p]) # NoName
  BY <1>1, KeySeq DEF LookOf, Named
<1>3. \A d \in BOOLEAN : as(d) \in Items(bucket, f) <=> as(d) \in Entries(bucket, f)
  BY <1>2 DEF Entries
<1>4. /\ Entries(bucket, f) \subseteq ever[p] /\ always[p] \subseteq Entries(bucket, f)
  BY <1>1 DEF LookOf, Watching
<1>5. /\ bucket[at[p]] # Absent <=> as(FALSE) \in Items(bucket, f)
      /\ Items(bucket, at[p]) # {} <=> as(TRUE) \in Items(bucket, f)
  BY <1>1, SameAsParent
<1>. HIDE DEF as, f
<1>6. /\ bucket[at[p]] # Absent => as(FALSE) \in ever[p]
      /\ bucket[at[p]] = Absent => as(FALSE) \notin always[p]
      /\ Items(bucket, at[p]) # {} => as(TRUE) \in ever[p]
      /\ Items(bucket, at[p]) = {} => as(TRUE) \notin always[p]
  BY <1>3, <1>4, <1>5
<1>. QED BY <1>6 DEF as

\* The answers of Stat and Open are true, and what they find out holds until the end.
LEMMA AskLook ==
    ASSUME FilesInv, TypeOK, NEW p \in Proc, LookOf(p), Observe,
           StatHead(p) \/ StatList(p) \/ OpenHead(p) \/ OpenGet(p) \/ OpenList(p)
    PROVE  LookOf(p)'
<1>1. /\ pc[p] \in Asking /\ pc[p] # "idle" /\ at'[p] = at[p]
      /\ pc'[p] \in Asking \cup {"idle"}
  BY AskStep DEF TypeOK, Asking
<1>2. Watching(p)' /\ Named(at[p])'
  BY <1>1, Observed DEF Watching, Named, LookOf
<1>3. /\ pc \in [Proc -> Asking \cup {"idle", "list"}]
      /\ ans \in [Proc -> {"", "file", "dir", "none", "error", "listed"}]
  BY DEF TypeOK
<1>. DEFINE as(d) == [name |-> Last(at[p]), dir |-> d]
<1>4. pc[p] \in {"statList", "openList"} => as(FALSE) \notin always[p]
  BY DEF LookOf, FileGone
<1>5. \/ pc'[p] = "idle" /\ ans'[p] = "error"
      \/ pc'[p] = "idle" /\ ans'[p] = "file" /\ bucket[at[p]] # Absent
      \/ pc'[p] = "idle" /\ ans'[p] = "dir" /\ Items(bucket, at[p]) # {}
      \/ /\ pc'[p] = "idle" /\ ans'[p] = "none" /\ Items(bucket, at[p]) = {}
         /\ pc[p] \in {"statList", "openList"}
      \/ pc'[p] \in {"statList", "openList"} /\ bucket[at[p]] = Absent
      \/ pc'[p] = "openGet"
  <2>1. CASE StatHead(p)
    BY <1>3, <2>1 DEF StatHead, Return, Goto
  <2>2. CASE StatList(p)
    BY <1>3, <2>2 DEF StatList, Return, Goto
  <2>3. CASE OpenHead(p)
    BY <1>3, <2>3 DEF OpenHead, Return, Goto
  <2>4. CASE OpenGet(p)
    BY <1>3, <2>4 DEF OpenGet, Return, Goto
  <2>5. CASE OpenList(p)
    BY <1>3, <2>5 DEF OpenList, Return, Goto
  <2>. QED BY <2>1, <2>2, <2>3, <2>4, <2>5
<1>6. /\ bucket[at[p]] # Absent => as(FALSE) \in ever[p]
      /\ bucket[at[p]] = Absent => as(FALSE) \notin always[p]
      /\ Items(bucket, at[p]) # {} => as(TRUE) \in ever[p]
      /\ Items(bucket, at[p]) = {} => as(TRUE) \notin always[p]
  BY <1>1, AskFacts
<1>7. /\ pc'[p] = "idle" => ever'[p] = ever[p] /\ always'[p] = always[p]
      /\ pc'[p] # "idle" => always'[p] \subseteq always[p]
  BY <1>1, Observed
<1>8. Last(at'[p]) = Last(at[p])
  BY <1>1
<1>. HIDE DEF as
<1>9. pc'[p] \in {"statList", "openList"} => as(FALSE) \notin always'[p]
  BY <1>5, <1>6, <1>7
<1>10. pc'[p] = "idle" => /\ ans'[p] = "file" => as(FALSE) \in ever'[p]
                          /\ ans'[p] = "dir" => as(TRUE) \in ever'[p]
                          /\ ans'[p] = "none" => as(FALSE) \notin always'[p]
                                                 /\ as(TRUE) \notin always'[p]
  BY <1>4, <1>5, <1>6, <1>7
<1>11. FileGone(p)' /\ AnswerTrue(p)'
  BY <1>8, <1>9, <1>10 DEF FileGone, AnswerTrue, as
<1>12. Listing(p)' /\ ListTrue(p)'
  BY <1>1, <1>5 DEF Listing, ListTrue, Asking
<1>. QED BY <1>2, <1>11, <1>12 DEF LookOf

-----------------------------------------------------------------------------
\* The entries of a list.
LEMMA ToSetOf ==
    ASSUME NEW s \in Seq(Entry)
    PROVE  /\ ToSet(s) \in SUBSET Entry
           /\ \A e : e \in ToSet(s) <=> \E i \in 1..Len(s) : e = s[i]
<1>1. DOMAIN s = 1..Len(s) /\ \A i \in 1..Len(s) : s[i] \in Entry
  OBVIOUS
<1>. QED BY <1>1 DEF ToSet

\* A page that is added behind what was collected before it.
LEMMA ConcatSorted ==
    ASSUME NEW s \in Seq(Entry), NEW t \in Seq(Entry),
           Sorted(s, Len(s)), Sorted(t, Len(t)),
           \A a \in ToSet(s) : \A b \in ToSet(t) : Rank(a) < Rank(b)
    PROVE  /\ ToSet(s \o t) = ToSet(s) \cup ToSet(t)
           /\ Sorted(s \o t, Len(s \o t))
<1>. DEFINE m == Len(s)
            n == Len(t)
            u == s \o t
<1>1. /\ m \in Nat /\ n \in Nat /\ u \in Seq(Entry) /\ Len(u) = m + n
      /\ \A i \in 1..m : u[i] = s[i]
      /\ \A i \in 1..m + n : i > m => i - m \in 1..n /\ u[i] = t[i - m]
      /\ \A i \in 1..n : i + m \in 1..m + n /\ u[i + m] = t[i]
  OBVIOUS
<1>2. /\ \A e : e \in ToSet(s) <=> \E i \in 1..m : e = s[i]
      /\ \A e : e \in ToSet(t) <=> \E i \in 1..n : e = t[i]
      /\ \A e : e \in ToSet(u) <=> \E i \in 1..m + n : e = u[i]
  <2>. HIDE DEF u
  <2>1. \A e : e \in ToSet(u) <=> \E i \in 1..Len(u) : e = u[i]
    BY <1>1, ToSetOf
  <2>. QED BY <1>1, <2>1, ToSetOf
<1>3. \A i \in 1..m : s[i] \in ToSet(s)
  BY <1>2
<1>4. \A i \in 1..n : t[i] \in ToSet(t)
  BY <1>2
<1>. HIDE DEF m, n, u
<1>5. ToSet(u) = ToSet(s) \cup ToSet(t)
  <2>1. \A i \in 1..m + n : u[i] \in ToSet(s) \cup ToSet(t)
    <3>. SUFFICES ASSUME NEW i \in 1..m + n PROVE u[i] \in ToSet(s) \cup ToSet(t)
      OBVIOUS
    <3>1. CASE i <= m
      <4>1. i \in 1..m
        BY <1>1, <3>1
      <4>. QED BY <1>1, <1>3, <4>1
    <3>2. CASE i > m
      BY <1>1, <1>4, <3>2
    <3>. QED BY <1>1, <3>1, <3>2
  <2>2. \A i \in 1..m : s[i] \in ToSet(u)
    <3>1. \A i \in 1..m : i \in 1..m + n
      BY <1>1
    <3>. QED BY <1>1, <1>2, <3>1
  <2>3. \A i \in 1..n : t[i] \in ToSet(u)
    BY <1>1, <1>2
  <2>. QED BY <1>2, <2>1, <2>2, <2>3
<1>6. Sorted(u, m + n)
  <2>. SUFFICES ASSUME NEW i \in 1..m + n, NEW j \in 1..m + n, i < j
                PROVE  Rank(u[i]) < Rank(u[j])
    BY DEF Sorted
  <2>1. CASE j <= m
    <3>1. i \in 1..m /\ j \in 1..m
      BY <1>1, <2>1
    <3>. QED BY <1>1, <3>1 DEF Sorted, m
  <2>2. CASE i > m
    <3>1. i - m \in 1..n /\ j - m \in 1..n /\ i - m < j - m /\ j > m
      BY <1>1, <2>2
    <3>2. Rank(t[i - m]) < Rank(t[j - m])
      BY <3>1 DEF Sorted, n
    <3>. QED BY <1>1, <2>2, <3>1, <3>2
  <2>3. CASE i <= m /\ j > m
    <3>1. i \in 1..m /\ j - m \in 1..n /\ u[i] = s[i] /\ u[j] = t[j - m]
      BY <1>1, <2>3
    <3>. QED BY <1>3, <1>4, <3>1
  <2>. QED BY <1>1, <2>1, <2>2, <2>3
<1>. QED BY <1>1, <1>5, <1>6 DEF u

\* A page goes on where the token is, and everything up to the next token that was
\* there all the time is collected.
LEMMA PageLook ==
    ASSUME FilesInv, TypeOK, TypeOK', NEW p \in Proc, LookOf(p), Observe, ReadDirPage(p)
    PROVE  LookOf(p)'
<1>. DEFINE k == at[p]
            page == Page(at[p], ct[p])
            rest == Rest(at[p], ct[p])
            D == {e \in page : e.name # NoName /\ e.dir}
            F == {e \in page : e.name # NoName /\ ~e.dir}
            all == Entries(bucket, at[p])
<1>1. pc[p] = "list" /\ at'[p] = at[p]
  BY PageStep
<1>2. /\ pc \in [Proc -> Asking \cup {"idle", "list"}]
      /\ ans \in [Proc -> {"", "file", "dir", "none", "error", "listed"}]
      /\ ct \in [Proc -> Int]
      /\ dirs \in [Proc -> Seq(Entry)] /\ files \in [Proc -> Seq(Entry)]
  BY DEF TypeOK
<1>3. /\ k \in Folder /\ D \in SUBSET Entry /\ IsFiniteSet(D)
      /\ F \in SUBSET Entry /\ IsFiniteSet(F)
      /\ NewDirs(p) = Listed(D) /\ NewFiles(p) = Listed(F)
      /\ NewDirs(p) \in Seq(Entry) /\ NewFiles(p) \in Seq(Entry)
  BY <1>1, PageAdds
<1>4. all \subseteq ever[p] /\ always[p] \subseteq all
  BY <1>1, WatchedFolder DEF LookOf, Watching
<1>5. /\ Collected(p) \subseteq ever[p]
      /\ \A e \in always[p] : Rank(e) <= ct[p] => e \in Collected(p)
      /\ \A e \in Collected(p) : Rank(e) <= ct[p]
      /\ InOrder(p)
  BY <1>1 DEF LookOf, Listing
<1>6. /\ rest = {e \in Items(bucket, k) : Rank(e) > ct[p]} /\ page \subseteq rest
      /\ rest \in SUBSET Entry /\ page \in SUBSET Entry /\ IsFiniteSet(page)
      /\ Items(bucket, k) \in SUBSET Entry
  BY <1>3, PageType, ItemsFinite DEF Rest
<1>7. all = {e \in Items(bucket, k) : e.name # NoName}
  BY DEF Entries
<1>8. /\ D \subseteq page /\ F \subseteq page /\ D \subseteq all /\ F \subseteq all
      /\ \A e \in page : e \in all => e \in D \cup F
      /\ \A e \in D : e.dir
      /\ \A e \in F : ~e.dir
  BY <1>6, <1>7
<1>9. ct[p] \in Int /\ \A e \in Entry : Rank(e) \in Nat
  BY <1>2, RankOrder
<1>10. Collected(p) \in SUBSET Entry
  BY <1>2, ToSetOf DEF Collected
<1>11. \A e \in page : Rank(e) > ct[p]
  BY <1>6
<1>12. \A e \in all : Rank(e) > ct[p] => e \in rest
  BY <1>6, <1>7
<1>. HIDE DEF page, rest, D, F, all
<1>. DEFINE s == dirs[p] \o NewDirs(p)
            t == files[p] \o NewFiles(p)
<1>13. /\ ToSet(s) = ToSet(dirs[p]) \cup D /\ Sorted(s, Len(s)) /\ \A e \in ToSet(s) : e.dir
  <2>1. NewDirs(p) \in Seq(Entry) /\ ToSet(NewDirs(p)) = D
        /\ Sorted(NewDirs(p), Len(NewDirs(p)))
    BY <1>3, ListedIs
  <2>2. dirs[p] \in Seq(Entry) /\ Sorted(dirs[p], Len(dirs[p])) /\ \A e \in ToSet(dirs[p]) : e.dir
    BY <1>2, <1>5 DEF InOrder
  <2>3. \A a \in ToSet(dirs[p]) : \A b \in D : Rank(a) < Rank(b)
    <3>1. \A a \in ToSet(dirs[p]) : a \in Entry /\ Rank(a) <= ct[p]
      BY <1>5, <1>10 DEF Collected
    <3>2. \A b \in D : b \in Entry /\ Rank(b) > ct[p]
      BY <1>6, <1>8, <1>11
    <3>. QED BY <1>9, <3>1, <3>2
  <2>4. ToSet(s) = ToSet(dirs[p]) \cup D /\ Sorted(s, Len(s))
    BY <2>1, <2>2, <2>3, ConcatSorted
  <2>. QED BY <1>8, <2>2, <2>4
<1>14. /\ ToSet(t) = ToSet(files[p]) \cup F /\ Sorted(t, Len(t)) /\ \A e \in ToSet(t) : ~e.dir
  <2>1. NewFiles(p) \in Seq(Entry) /\ ToSet(NewFiles(p)) = F
        /\ Sorted(NewFiles(p), Len(NewFiles(p)))
    BY <1>3, ListedIs
  <2>2. files[p] \in Seq(Entry) /\ Sorted(files[p], Len(files[p])) /\ \A e \in ToSet(files[p]) : ~e.dir
    BY <1>2, <1>5 DEF InOrder
  <2>3. \A a \in ToSet(files[p]) : \A b \in F : Rank(a) < Rank(b)
    <3>1. \A a \in ToSet(files[p]) : a \in Entry /\ Rank(a) <= ct[p]
      BY <1>5, <1>10 DEF Collected
    <3>2. \A b \in F : b \in Entry /\ Rank(b) > ct[p]
      BY <1>6, <1>8, <1>11
    <3>. QED BY <1>9, <3>1, <3>2
  <2>4. ToSet(t) = ToSet(files[p]) \cup F /\ Sorted(t, Len(t))
    BY <2>1, <2>2, <2>3, ConcatSorted
  <2>. QED BY <1>8, <2>2, <2>4
<1>15. ASSUME dirs'[p] = s, files'[p] = t
       PROVE  Collected(p)' = Collected(p) \cup D \cup F /\ InOrder(p)'
  <2>. HIDE DEF s, t
  <2>. QED BY <1>13, <1>14, <1>15 DEF Collected, InOrder
<1>16. Watching(p)' /\ Named(at[p])'
  BY <1>1, Observed DEF Watching, Named, LookOf
<1>17. FileGone(p)' /\ AnswerTrue(p)'
  <2>1. pc'[p] \in {"idle", "list"} /\ (pc'[p] = "idle" => ans'[p] \in {"listed", "error"})
    BY <1>1, <1>2, PageStep
  <2>. QED BY <2>1 DEF FileGone, AnswerTrue
<1>18. CASE pc'[p] = "idle" /\ ans'[p] = "error"
  BY <1>16, <1>17, <1>18 DEF LookOf, Listing, ListTrue
<1>19. CASE page = rest /\ pc'[p] = "idle" /\ dirs'[p] = s /\ files'[p] = t
  <2>1. ever'[p] = ever[p] /\ always'[p] = always[p]
    BY <1>19, Observed
  <2>2. Collected(p)' = Collected(p) \cup D \cup F /\ InOrder(p)'
    BY <1>15, <1>19
  <2>3. Collected(p)' \subseteq ever'[p]
    BY <1>4, <1>5, <1>8, <2>1, <2>2
  <2>4. ASSUME NEW e \in always[p] PROVE e \in Collected(p)'
    <3>1. e \in all /\ e \in Entry
      BY <1>4, <1>6, <1>7
    <3>2. CASE Rank(e) <= ct[p]
      BY <1>5, <2>2, <3>2
    <3>3. CASE Rank(e) > ct[p]
      BY <1>8, <1>12, <1>19, <2>2, <3>1, <3>3
    <3>. QED BY <1>9, <3>1, <3>2, <3>3
  <2>5. Listing(p)' /\ ListTrue(p)'
    BY <1>19, <2>1, <2>2, <2>3, <2>4 DEF Listing, ListTrue
  <2>. QED BY <1>16, <1>17, <2>5 DEF LookOf
<1>20. CASE /\ page # rest /\ pc'[p] = "list" /\ dirs'[p] = s /\ files'[p] = t
            /\ ct'[p] = Rank(Last(Listed(page)))
  <2>. DEFINE z == Last(Listed(page))
  <2>1. page # {}
    <3>1. page = {} => rest = {}
      BY <1>3, PageBegins DEF page, rest
    <3>. QED BY <1>20, <3>1
  <2>2. z \in page /\ \A d \in page : Rank(d) <= Rank(z)
    BY <1>6, <2>1, TokenIs
  <2>3. \A d \in rest : Rank(d) <= Rank(z) => d \in page
    BY <1>3, <2>2, PageBegins DEF page, rest
  <2>. HIDE DEF z
  <2>4. ct'[p] = Rank(z) /\ Rank(z) \in Nat /\ ct[p] < Rank(z)
    BY <1>6, <1>9, <1>11, <1>20, <2>2 DEF z
  <2>5. ever[p] \subseteq ever'[p] /\ always'[p] \subseteq always[p]
    BY <1>1, <1>20, Observed
  <2>6. Collected(p)' = Collected(p) \cup D \cup F /\ InOrder(p)'
    BY <1>15, <1>20
  <2>7. Collected(p)' \subseteq ever'[p]
    BY <1>4, <1>5, <1>8, <2>5, <2>6
  <2>8. ASSUME NEW e \in always'[p], Rank(e) <= ct'[p] PROVE e \in Collected(p)'
    <3>1. e \in always[p] /\ e \in all /\ e \in Entry
      BY <1>4, <1>6, <1>7, <2>5
    <3>2. CASE Rank(e) <= ct[p]
      BY <1>5, <2>6, <3>1, <3>2
    <3>3. CASE Rank(e) > ct[p]
      <4>1. e \in page
        BY <1>12, <2>3, <2>4, <2>8, <3>1, <3>3
      <4>. QED BY <1>8, <2>6, <3>1, <4>1
    <3>. QED BY <1>9, <3>1, <3>2, <3>3
  <2>9. ASSUME NEW e \in Collected(p)' PROVE Rank(e) <= ct'[p]
    <3>1. CASE e \in Collected(p)
      <4>1. Rank(e) <= ct[p] /\ Rank(e) \in Nat
        BY <1>5, <1>9, <1>10, <3>1
      <4>. QED BY <1>9, <2>4, <4>1
    <3>2. CASE e \in page
      BY <2>2, <2>4, <3>2
    <3>. QED BY <1>8, <2>6, <3>1, <3>2
  <2>10. Listing(p)' /\ ListTrue(p)'
    BY <1>20, <2>6, <2>7, <2>8, <2>9 DEF Listing, ListTrue
  <2>. QED BY <1>16, <1>17, <2>10 DEF LookOf
<1>21. \/ pc'[p] = "idle" /\ ans'[p] = "error"
       \/ page = rest /\ pc'[p] = "idle" /\ dirs'[p] = s /\ files'[p] = t
       \/ /\ page # rest /\ pc'[p] = "list" /\ dirs'[p] = s /\ files'[p] = t
          /\ ct'[p] = Rank(Last(Listed(page)))
  BY <1>1, <1>2, PageStep DEF page, rest
<1>. QED BY <1>18, <1>19, <1>20, <1>21

-----------------------------------------------------------------------------
\* No call has begun.
LEMMA LookInit == Init => LookIInv
<1>. SUFFICES ASSUME Init PROVE LookIInv
  OBVIOUS
<1>1. FilesInv /\ TypeOK
  BY InitInv, TypeInit
<1>2. \A p \in Proc : pc[p] = "idle" /\ root[p] = <<>> /\ at[p] = <<>> /\ ans[p] = ""
  BY DEF Init
<1>3. \A p \in Proc : Named(root[p]) /\ LookOf(p)
  BY <1>2 DEF Named, LookOf, FileGone, Watching, AnswerTrue, Listing, ListTrue
<1>. QED BY <1>1, <1>3 DEF LookIInv

\* Every step of a goroutine keeps the invariant, for it and for those that watch.
LEMMA LookNext == LookIInv /\ FilesInv' /\ [Next]_vars => LookIInv'
<1>. SUFFICES ASSUME LookIInv, FilesInv', [Next]_vars PROVE LookIInv'
  OBVIOUS
<1>1. CASE UNCHANGED vars
  <2>. USE <1>1 DEF vars, callVars, listVars, seen
  <2>1. TypeOK'
    BY DEF LookIInv, TypeOK
  <2>2. ASSUME NEW q \in Proc PROVE Named(root'[q]) /\ LookOf(q)'
    <3>0. Named(root[q]) /\ LookOf(q)
      BY DEF LookIInv
    <3>1. Named(root'[q]) /\ Named(at'[q])
      BY <3>0 DEF LookOf
    <3>2. FileGone(q)' /\ AnswerTrue(q)'
      BY <3>0 DEF LookOf, FileGone, AnswerTrue
    <3>3. Watching(q)'
      BY <3>0 DEF LookOf, Watching, Watched
    <3>4. Collected(q)' = Collected(q) /\ (InOrder(q)' <=> InOrder(q))
      BY DEF Collected, InOrder
    <3>5. Listing(q)' /\ ListTrue(q)'
      BY <3>0, <3>4 DEF LookOf, Listing, ListTrue
    <3>. QED BY <3>1, <3>2, <3>3, <3>5 DEF LookOf
  <2>. QED BY <2>1, <2>2 DEF LookIInv
<1>2. CASE Next
  <2>1. PICK p \in Proc : (Begin(p) \/ Use(p) \/ Request(p)) /\ Observe
    BY <1>2 DEF Next
  <2>2. FilesInv /\ TypeOK /\ \A q \in Proc : Named(root[q]) /\ LookOf(q)
    BY DEF LookIInv
  <2>3. TypeOK'
    BY <2>1, <2>2, TypeStep
  <2>4. CASE \E k : Begins(p, k)
    <3>1. PICK k : Begins(p, k)
      BY <2>4
    <3>2. LookOf(p)'
      BY <2>1, <2>2, <2>3, <3>1, BeginsLook
    <3>3. \A q \in Proc \ {p} : /\ pc'[q] = pc[q] /\ at'[q] = at[q] /\ ans'[q] = ans[q]
                                /\ ct'[q] = ct[q] /\ dirs'[q] = dirs[q] /\ files'[q] = files[q]
      BY <2>2, <3>1 DEF Begins, listVars, TypeOK
    <3>4. \A q \in Proc \ {p} : LookOf(q)'
      BY <2>1, <2>2, <3>3, Bystander
    <3>5. \A q \in Proc : Named(root[q])'
      BY <2>2, <3>1 DEF Begins, Named
    <3>. QED BY <2>3, <3>2, <3>4, <3>5 DEF LookIInv
  <2>5. CASE Elsewhere(p)
    <3>1. \A q \in Proc : LookOf(q)'
      BY <2>1, <2>2, <2>5, Bystander DEF Elsewhere, callVars, listVars
    <3>2. \A q \in Proc : Named(root[q])'
      BY <2>2, <2>5 DEF Elsewhere, Named, TypeOK
    <3>. QED BY <2>3, <3>1, <3>2 DEF LookIInv
  <2>6. CASE Request(p)
    <3>1. LookOf(p)'
      BY <2>1, <2>2, <2>3, <2>6, AskLook, PageLook DEF Request
    <3>2. UNCHANGED <<root, at>>
      BY <2>6, AskStep, PageStep DEF Request
    <3>3. \A q \in Proc \ {p} : pc'[q] = pc[q] /\ ans'[q] = ans[q]
      <4>1. pc' = pc \/ \E l : pc' = [pc EXCEPT ![p] = l]
        BY <2>6, AskStep, PageStep DEF Request
      <4>2. ans' = ans \/ \E a : ans' = [ans EXCEPT ![p] = a]
        BY <2>6, AskStep, PageStep DEF Request
      <4>3. pc \in [Proc -> Asking \cup {"idle", "list"}] /\ DOMAIN ans = Proc
        BY <2>2 DEF TypeOK
      <4>. QED BY <4>1, <4>2, <4>3
    <3>4. \A q \in Proc \ {p} : ct'[q] = ct[q] /\ dirs'[q] = dirs[q] /\ files'[q] = files[q]
      <4>1. /\ ct' = ct \/ \E x : ct' = [ct EXCEPT ![p] = x]
            /\ dirs' = dirs \/ \E x : dirs' = [dirs EXCEPT ![p] = x]
            /\ files' = files \/ \E x : files' = [files EXCEPT ![p] = x]
        BY <2>6, AskStep, PageStep DEF Request, listVars
      <4>2. DOMAIN ct = Proc /\ DOMAIN dirs = Proc /\ DOMAIN files = Proc
        BY <2>2 DEF TypeOK
      <4>. QED BY <4>1, <4>2
    <3>5. \A q \in Proc \ {p} : LookOf(q)'
      BY <2>1, <2>2, <3>2, <3>3, <3>4, Bystander
    <3>6. \A q \in Proc : Named(root[q])'
      BY <2>2, <3>2 DEF Named
    <3>. QED BY <2>3, <3>1, <3>5, <3>6 DEF LookIInv
  <2>. QED BY <2>1, <2>2, <2>4, <2>5, <2>6, StepKinds
<1>. QED BY <1>1, <1>2

LEMMA LookInvariant == Spec => []LookIInv
<1>1. Spec => []FilesInv
  BY FilesInvariant
<1>. QED BY <1>1, LookInit, LookNext, PTL DEF Spec

\* The variables have their types: what a listing collects are entries, the token is a
\* rank (dir.go:31-75), handles have keys (basic.go:37-68).
THEOREM FilesTyped == Spec => []TypeOK
<1>1. LookIInv => TypeOK
  BY DEF LookIInv
<1>. QED BY <1>1, LookInvariant, PTL

\* Stat and Open tell the truth, for every number of goroutines, keys and calls: the
\* file or the directory was there at some moment of the call, and what they say is
\* not there was not there all the time (basic.go:77-109, 137-170).
THEOREM AnswersAreTrue == Spec => []StatTruth
<1>1. LookIInv => StatTruth
  <2>. SUFFICES ASSUME LookIInv, NEW p \in Proc, pc[p] = "idle", at[p] # <<>>
                PROVE  LET as(dir) == [name |-> Last(at[p]), dir |-> dir]
                       IN  /\ ans[p] = "file" => as(FALSE) \in ever[p]
                           /\ ans[p] = "dir" => as(TRUE) \in ever[p]
                           /\ ans[p] = "none" => {as(TRUE), as(FALSE)} \cap always[p] = {}
    BY Zenon DEF StatTruth
  <2>. QED BY DEF LookIInv, LookOf, AnswerTrue
<1>. QED BY <1>1, LookInvariant, PTL

\* A sorted list has no entry twice.
LEMMA NoneTwice ==
    ASSUME NEW s \in Seq(Entry), NEW t \in Seq(Entry),
           Sorted(s, Len(s)), \A e \in ToSet(s) : e.dir,
           Sorted(t, Len(t)), \A e \in ToSet(t) : ~e.dir
    PROVE  /\ ToSet(s \o t) = ToSet(s) \cup ToSet(t)
           /\ Cardinality(ToSet(s \o t)) = Len(s \o t)
<1>. DEFINE m == Len(s)
            n == Len(t)
            u == s \o t
<1>1. /\ m \in Nat /\ n \in Nat /\ u \in Seq(Entry) /\ Len(u) = m + n
      /\ \A i \in 1..m + n : i <= m => i \in 1..m /\ u[i] = s[i]
      /\ \A i \in 1..m + n : i > m => i - m \in 1..n /\ u[i] = t[i - m]
      /\ \A i \in 1..m : i \in 1..m + n /\ u[i] = s[i]
      /\ \A i \in 1..n : i + m \in 1..m + n /\ u[i + m] = t[i]
  OBVIOUS
<1>2. /\ \A e : e \in ToSet(s) <=> \E i \in 1..m : e = s[i]
      /\ \A e : e \in ToSet(t) <=> \E i \in 1..n : e = t[i]
      /\ \A e : e \in ToSet(u) <=> \E i \in 1..m + n : e = u[i]
  <2>. HIDE DEF u
  <2>1. \A e : e \in ToSet(u) <=> \E i \in 1..Len(u) : e = u[i]
    BY <1>1, ToSetOf
  <2>. QED BY <1>1, <2>1, ToSetOf
<1>3. \A i \in 1..m, j \in 1..m : i < j => Rank(s[i]) < Rank(s[j])
  BY DEF Sorted
<1>4. \A i \in 1..n, j \in 1..n : i < j => Rank(t[i]) < Rank(t[j])
  BY DEF Sorted
<1>5. \A i \in 1..m : s[i] \in Entry /\ s[i].dir /\ Rank(s[i]) \in Nat
  BY <1>2, RankOrder
<1>6. \A i \in 1..n : t[i] \in Entry /\ ~t[i].dir /\ Rank(t[i]) \in Nat
  BY <1>2, RankOrder
<1>. HIDE DEF m, n, u
<1>7. ToSet(u) = ToSet(s) \cup ToSet(t)
  <2>1. \A e \in ToSet(u) : e \in ToSet(s) \cup ToSet(t)
    <3>. SUFFICES ASSUME NEW i \in 1..m + n PROVE u[i] \in ToSet(s) \cup ToSet(t)
      BY <1>2
    <3>1. CASE i <= m
      BY <1>1, <1>2, <3>1
    <3>2. CASE i > m
      BY <1>1, <1>2, <3>2
    <3>. QED BY <1>1, <3>1, <3>2
  <2>2. \A e \in ToSet(s) : e \in ToSet(u)
    BY <1>1, <1>2
  <2>3. \A e \in ToSet(t) : e \in ToSet(u)
    BY <1>1, <1>2
  <2>. QED BY <2>1, <2>2, <2>3
<1>8. ASSUME NEW i \in 1..m + n, NEW j \in 1..m + n, i < j PROVE u[i] # u[j]
  <2>1. CASE j <= m
    <3>1. i \in 1..m /\ j \in 1..m /\ u[i] = s[i] /\ u[j] = s[j]
      BY <1>1, <1>8, <2>1
    <3>2. Rank(s[i]) < Rank(s[j]) /\ Rank(s[i]) \in Nat
      BY <1>3, <1>5, <1>8, <3>1
    <3>. QED BY <3>1, <3>2
  <2>2. CASE i > m
    <3>1. /\ i - m \in 1..n /\ j - m \in 1..n /\ i - m < j - m
          /\ u[i] = t[i - m] /\ u[j] = t[j - m]
      BY <1>1, <1>8, <2>2
    <3>2. Rank(t[i - m]) < Rank(t[j - m]) /\ Rank(t[i - m]) \in Nat
      BY <1>4, <1>6, <3>1
    <3>. QED BY <3>1, <3>2
  <2>3. CASE i <= m /\ j > m
    <3>1. i \in 1..m /\ j - m \in 1..n /\ u[i] = s[i] /\ u[j] = t[j - m]
      BY <1>1, <2>3
    <3>. QED BY <1>5, <1>6, <3>1
  <2>. QED BY <1>1, <2>1, <2>2, <2>3
<1>9. u \in Bijection(1..m + n, ToSet(u))
  <2>1. u \in [1..m + n -> ToSet(u)]
    <3>1. DOMAIN u = 1..m + n /\ u = [i \in 1..m + n |-> u[i]]
      BY <1>1
    <3>2. \A i \in 1..m + n : u[i] \in ToSet(u)
      BY <1>2
    <3>. QED BY <3>1, <3>2
  <2>2. \A i, j \in 1..m + n : u[i] = u[j] => i = j
    <3>. SUFFICES ASSUME NEW i \in 1..m + n, NEW j \in 1..m + n, i # j PROVE u[i] # u[j]
      OBVIOUS
    <3>1. i < j \/ j < i
      BY <1>1
    <3>. QED BY <1>8, <3>1
  <2>3. \A e \in ToSet(u) : \E i \in 1..m + n : u[i] = e
    BY <1>2
  <2>4. u \in Injection(1..m + n, ToSet(u))
    BY <2>1, <2>2, Zenon DEF Injection, IsInjective
  <2>5. u \in Surjection(1..m + n, ToSet(u))
    BY <2>1, <2>3, Zenon DEF Surjection
  <2>. QED BY <2>4, <2>5 DEF Bijection
<1>10. Cardinality(ToSet(u)) = m + n
  <2>1. m + n \in Nat /\ ExistsBijection(1..m + n, ToSet(u))
    BY <1>1, <1>9 DEF ExistsBijection
  <2>. QED BY <2>1, FS_CountingElements
<1>. QED BY <1>1, <1>7, <1>10 DEF u

\* A listing has every entry that was there all the time, none that never was, and
\* none twice, for every directory, page size and number of goroutines that change it
\* (dir.go:31-75).
THEOREM ListingsAreTrue == Spec => []ListingTruth
<1>1. LookIInv => ListingTruth
  <2>. SUFFICES ASSUME LookIInv, NEW p \in Proc, pc[p] = "idle", ans[p] = "listed"
                PROVE  LET got == dirs[p] \o files[p]
                       IN  /\ always[p] \subseteq ToSet(got) /\ ToSet(got) \subseteq ever[p]
                           /\ Cardinality(ToSet(got)) = Len(got)
    BY Zenon DEF ListingTruth
  <2>1. always[p] \subseteq Collected(p) /\ Collected(p) \subseteq ever[p] /\ InOrder(p)
    BY DEF LookIInv, LookOf, ListTrue
  <2>2. dirs[p] \in Seq(Entry) /\ files[p] \in Seq(Entry)
    BY DEF LookIInv, TypeOK
  <2>3. /\ ToSet(dirs[p] \o files[p]) = Collected(p)
        /\ Cardinality(ToSet(dirs[p] \o files[p])) = Len(dirs[p] \o files[p])
    BY <2>1, <2>2, NoneTwice DEF Collected, InOrder
  <2>. QED BY <2>1, <2>3
<1>. QED BY <1>1, LookInvariant, PTL
=============================================================================
