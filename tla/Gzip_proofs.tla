---------------------------- MODULE Gzip_proofs ----------------------------
(***************************************************************************)
(* Proofs about Gzip, for every set of names, every number of suffixes and *)
(* files, and every call but one that fails: one command at a time loses   *)
(* no datum, removes a source only after its replacement is whole, and     *)
(* leaves nothing cut off behind.  Two cases in which the code does lose   *)
(* data are hypotheses of the theorems, each under a name of its own: the  *)
(* Stat of the output fails, and gzip -d -f -S ''.                         *)
(***************************************************************************)
EXTENDS Gzip, SequenceTheorems, FiniteSetTheorems, TLAPS

\* p is the only command that works on files.
WorksAlone(p) == \A q \in Proc \ {p} : cmd[q].args = <<>>
OneCommand == \E p \in Proc : WorksAlone(p)

\* The Stat that looks for the output does not fail: its error would be taken for
\* "no such file" (gzip.go:328, gunzip.go:223).
StatSeesOutput == ~MayFail("look")

\* No command is gzip -d -f -S '', which is told to write over its source and then
\* removes it (gzip.go:461-488).
NeverOverItsSource ==
    \A p \in Proc : ~(cmd[p].prog = "gzip -d" /\ cmd[p].bare /\ cmd[p].force)

Only(p) == WorksAlone(p) /\ StatSeesOutput /\ NeverOverItsSource
Safe == OneCommand /\ StatSeesOutput /\ NeverOverItsSource

-----------------------------------------------------------------------------
\* Where a command is in its work on one file.
Opened == {"stat", "create", "write", "close", "cleanup", "unlink"}
Writing == {"create", "write", "close", "cleanup"}
Labels == Opened \cup {"collect", "loop", "open", "done"}

\* Files as they are named in the work list.
Work == {f \in Path : f.at \in {0, 1}}

GzipTypes(p) ==
    /\ setup \in Setups /\ born \in SUBSET Path
    /\ fs \in [Path -> Content \cup {Absent}]
    /\ pc \in [Proc -> Labels] /\ data \in [Proc -> Content]
    /\ DOMAIN todo = Proc /\ todo[p] \in Seq(Work \cup {ThisDir})
    /\ short \in [Proc -> BOOLEAN]

\* The others have nothing to do.  The work list has the file that is worked on, and
\* its name is one that the command takes.
Place(p) ==
    /\ \A q \in Proc \ {p} : pc[q] = "done"
    /\ pc[p] = "collect" => Gunzip(p) /\ todo[p] = cmd[p].args
    /\ pc[p] \notin {"collect", "done"} => todo[p] # <<>>
    /\ Gunzip(p) /\ pc[p] \notin {"collect", "done"} => todo[p] \in Seq(Work)
    /\ pc[p] \in Opened \cup {"open"} =>
          /\ File(p) \in Work
          /\ ~Gunzip(p) => (HasSuffix(p, File(p)) <=> ~Compresses(p))
    /\ pc[p] \in Opened /\ Gunzip(p) => ~cmd[p].bare /\ HasSuffix(p, File(p))
    /\ pc[p] \in Opened \ {"stat"} => ~cmd[p].bare

\* The source still has the datum that is being written, ...
SourceThere(p) ==
    pc[p] \in Opened =>
        Exists(Source(p)) /\ fs[Source(p)].of = data[p].of /\ data[p].of # Lost

\* ... the file that is written over had none that matters, ...
OutputFree(p) ==
    pc[p] \in Writing /\ Exists(Output(p)) =>
        fs[Output(p)].of \in consented \cup {data[p].of, Lost}

\* ... and the output is whole when the source is about to go.
OutputWhole(p) ==
    /\ pc[p] \in {"write", "close"} => p \in linked
    /\ pc[p] = "close" /\ backend = "osfs" /\ ~short[p] => fs[Output(p)] = data[p]
    /\ pc[p] = "unlink" => fs[Output(p)] = data[p]

\* What is cut off is the output in hand, or could not be removed.  gzip never takes
\* it for a source.
CutOff(p) ==
    \A f \in Path : Exists(f) /\ fs[f].of = Lost =>
        /\ fs[f].z = 0 /\ (Compresses(p) => f.n > 0)
        /\ f \in stuck \/ (pc[p] \in {"write", "close", "cleanup"} /\ f = Output(p))

GzipOf(p) == /\ GzipTypes(p) /\ Place(p) /\ SourceThere(p) /\ OutputFree(p)
             /\ OutputWhole(p) /\ CutOff(p) /\ DataKept
GzipIInv == \A p \in Proc : Only(p) => GzipOf(p)

-----------------------------------------------------------------------------
\* The command line (gzip.go:92-210, gunzip.go:57-140).
LEMMA CommandIs ==
    ASSUME setup \in Setups, NEW p \in Proc
    PROVE  /\ cmd[p].prog \in {"gzip", "gzip -d", "gunzip"}
           /\ cmd[p].force \in BOOLEAN /\ cmd[p].keep \in BOOLEAN
           /\ cmd[p].bare \in BOOLEAN /\ cmd[p].args \in Seq(Argument)
           /\ here \in {0, 1} /\ backend \in {"osfs", "s3fs"}
<1>1. setup \in Setup
  BY GzipAssumption
<1>2. cmd \in [Proc -> Command] /\ here \in {0, 1} /\ backend \in {"osfs", "s3fs"}
  BY <1>1 DEF Setup, cmd, here, backend
<1>3. cmd[p] \in Command
  BY <1>2
<1>. QED BY <1>2, <1>3 DEF Command

\* Arguments and the files of a directory can be worked on.
LEMMA ArgumentWork == Argument \subseteq Work \cup {ThisDir}
BY DEF Argument, Work

\* The source and the output of the file in hand are paths, and different ones unless
\* -S '' leaves the name as it is (gzip.go:326, 461-475; gunzip.go:203-229).
LEMMA Names ==
    ASSUME NEW p \in Proc, GzipTypes(p), Place(p), pc[p] \in Opened \cup {"open"}
    PROVE  /\ Source(p) \in Path
           /\ Compresses(p) => Source(p).n = 0
           /\ pc[p] \in Opened =>
                 /\ Output(p) \in Path
                 /\ Compresses(p) => Output(p).n = 1
                 /\ ~cmd[p].bare => Output(p) # Source(p)
                 /\ cmd[p].bare => Output(p) = Source(p) /\ cmd[p].prog = "gzip -d"
<1>. DEFINE f == File(p)
<1>1. f \in Work /\ (~Gunzip(p) => (HasSuffix(p, f) <=> ~Compresses(p)))
  BY DEF Place
<1>. HIDE DEF f
<1>2. /\ f = [at |-> f.at, base |-> f.base, n |-> f.n]
      /\ f.at \in {0, 1} /\ f.base \in Base /\ f.n \in 0..MaxSuffix
  BY <1>1 DEF Work, Path
<1>3. MaxSuffix \in Nat /\ MaxSuffix >= 1
  BY GzipAssumption
<1>4. /\ cmd[p].prog \in {"gzip", "gzip -d", "gunzip"} /\ cmd[p].bare \in BOOLEAN
      /\ here \in {0, 1}
  BY CommandIs DEF GzipTypes
<1>5. ASSUME NEW g \in Work
      PROVE  ResolvePath(g) = [at |-> g.at + here, base |-> g.base, n |-> g.n]
             /\ ResolvePath(g) \in Path
  <2>1. g.at \in {0, 1} /\ g.base \in Base /\ g.n \in 0..MaxSuffix
    BY DEF Work, Path
  <2>2. ResolvePath(g) = [at |-> g.at + here, base |-> g.base, n |-> g.n]
    BY DEF ResolvePath, Work, Path
  <2>3. g.at + here \in 0..2
    <3>1. \A a, b \in {0, 1} : a + b \in 0..2
      OBVIOUS
    <3>. QED BY <1>4, <2>1, <3>1, Zenon
  <2>. QED BY <2>1, <2>2, <2>3 DEF Path
<1>6. Source(p) \in Path /\ Source(p).n = f.n
  BY <1>1, <1>5 DEF Source, f
<1>7. Compresses(p) => ~cmd[p].bare /\ f.n = 0
  BY <1>1, <1>2, <1>4 DEF Gunzip, Compresses, HasSuffix
<1>8. CASE Compresses(p)
  <2>. DEFINE g == [at |-> f.at, base |-> f.base, n |-> 1]
  <2>1. g = AddSuffix(f)
    BY <1>2, <1>7, <1>8 DEF AddSuffix
  <2>2. g \in Work /\ g.n = 1
    BY <1>2, <1>3 DEF Work, Path
  <2>3. Output(p) = ResolvePath(g)
    BY <1>8, <2>1 DEF Output, Gunzip, Compresses, f
  <2>. HIDE DEF g
  <2>4. Output(p) \in Path /\ Output(p).n = 1
    BY <1>5, <2>2, <2>3
  <2>5. Source(p).n = 0 /\ ~cmd[p].bare
    BY <1>6, <1>7, <1>8
  <2>6. Output(p) # Source(p)
    BY <2>4, <2>5
  <2>. QED BY <1>6, <2>4, <2>5, <2>6
<1>9. CASE ~Compresses(p) /\ pc[p] \in Opened /\ ~cmd[p].bare
  <2>1. HasSuffix(p, f) /\ f.n > 0
    BY <1>1, <1>9 DEF Place, HasSuffix, f
  <2>. DEFINE g == [at |-> f.at, base |-> f.base, n |-> f.n - 1]
  <2>2. g = TrimSuffix(p, f)
    BY <1>2, <1>9 DEF TrimSuffix
  <2>3. g \in Work /\ g \in Path /\ g.n = f.n - 1
    <3>1. f.n - 1 \in 0..MaxSuffix
      BY <1>2, <1>3, <2>1
    <3>. QED BY <1>2, <3>1 DEF Work, Path
  <2>4. Output(p) = g \/ Output(p) = ResolvePath(g)
    BY <1>9, <2>2 DEF Output, f
  <2>. HIDE DEF g
  <2>5. Output(p) \in Path /\ Output(p).n = f.n - 1
    BY <1>5, <2>3, <2>4
  <2>6. f.n - 1 # f.n
    BY <1>2
  <2>. QED BY <1>6, <1>9, <2>5, <2>6
<1>10. CASE ~Compresses(p) /\ pc[p] \in Opened /\ cmd[p].bare
  <2>1. ~Gunzip(p)
    BY <1>10 DEF Place
  <2>2. Output(p) = Source(p)
    BY <1>10, <2>1 DEF Output, TrimSuffix, Source
  <2>3. cmd[p].prog = "gzip -d"
    BY <1>4, <1>10, <2>1 DEF Gunzip, Compresses
  <2>. QED BY <1>6, <1>10, <2>2, <2>3
<1>11. CASE ~Compresses(p) /\ pc[p] \notin Opened
  BY <1>6, <1>11
<1>. QED BY <1>4, <1>8, <1>9, <1>10, <1>11

-----------------------------------------------------------------------------
\* One file is changed: nothing is lost when its datum was given up or another file
\* has it.
LEMMA KeptByOther ==
    ASSUME DataKept, fs \in [Path -> Content \cup {Absent}], NEW g \in Path, NEW c,
           fs' = [fs EXCEPT ![g] = c], UNCHANGED <<born, consented>>, born \in SUBSET Path,
           Exists(g) => \/ fs[g].of \in consented \cup {Lost}
                        \/ \E s \in Path \ {g} : Exists(s) /\ fs[s].of = fs[g].of
    PROVE  DataKept'
<1>. SUFFICES ASSUME NEW f \in born \ consented
              PROVE  \E s \in Path : Exists(s)' /\ fs'[s].of = f
  BY DEF DataKept
<1>1. PICK s \in Path : Exists(s) /\ fs[s].of = f
  BY DEF DataKept
<1>2. f # Lost
  BY GzipAssumption
<1>3. PICK t \in Path \ {g} : Exists(t) /\ fs[t].of = f
  BY <1>1, <1>2
<1>4. fs'[t] = fs[t]
  BY <1>3
<1>. QED BY <1>3, <1>4 DEF Exists

\* The next file, or the end.
LEMMA Over ==
    ASSUME NEW p \in Proc, GzipTypes(p), Place(p), pc[p] \notin {"collect", "done"},
           Continue(p) \/ Fail(p), UNCHANGED setup
    PROVE  /\ pc' \in [Proc -> Labels] /\ pc'[p] \in {"loop", "done"}
           /\ DOMAIN todo' = Proc /\ todo'[p] \in Seq(Work \cup {ThisDir})
           /\ Place(p)'
<1>1. /\ pc \in [Proc -> Labels] /\ DOMAIN todo = Proc
      /\ todo[p] \in Seq(Work \cup {ThisDir}) /\ todo[p] # <<>>
      /\ \A q \in Proc \ {p} : pc[q] = "done"
  BY DEF GzipTypes, Place
<1>2. cmd' = cmd /\ (Gunzip(p)' <=> Gunzip(p))
  BY DEF cmd, Gunzip
<1>3. CASE Continue(p)
  <2>. DEFINE t == Tail(todo[p])
  <2>1. /\ t \in Seq(Work \cup {ThisDir}) /\ Len(t) = Len(todo[p]) - 1
        /\ Len(todo[p]) # 1 => t # <<>>
    <3>. DEFINE S == Work \cup {ThisDir}
                u == todo[p]
    <3>1. u \in Seq(S) /\ u # <<>>
      BY <1>1
    <3>. HIDE DEF S, u
    <3>2. Tail(u) \in Seq(S) /\ Len(Tail(u)) = Len(u) - 1 /\ Len(u) \in Nat \ {0}
      BY <3>1
    <3>3. Len(u) # 1 => Tail(u) # <<>>
      <4>1. Len(<<>>) = 0
        OBVIOUS
      <4>. HIDE DEF u
      <4>2. \A k \in Nat \ {0} : k - 1 = 0 => k = 1
        OBVIOUS
      <4>. QED BY <3>2, <4>1, <4>2, Zenon
    <3>. QED BY <3>2, <3>3 DEF S, u
  <2>2. Gunzip(p) => t \in Seq(Work)
    <3>1. Gunzip(p) => todo[p] \in Seq(Work)
      BY DEF Place
    <3>. QED BY <1>1, <3>1
  <2>3. todo' = [todo EXCEPT ![p] = t]
    BY <1>3 DEF Continue
  <2>4. \/ pc' = [pc EXCEPT ![p] = "done"]
        \/ Len(todo[p]) # 1 /\ pc' = [pc EXCEPT ![p] = "loop"]
    BY <1>3 DEF Continue, Goto
  <2>. HIDE DEF t
  <2>5. /\ DOMAIN todo' = Proc /\ todo'[p] = t
    BY <1>1, <2>3
  <2>6. /\ pc' \in [Proc -> Labels]
        /\ pc'[p] = "done" \/ (pc'[p] = "loop" /\ t # <<>>)
        /\ \A q \in Proc \ {p} : pc'[q] = "done"
    BY <1>1, <2>1, <2>4 DEF Labels, Opened
  <2>7. Place(p)'
    BY <1>2, <2>2, <2>5, <2>6 DEF Place, Opened
  <2>. QED BY <2>1, <2>5, <2>6, <2>7
<1>4. CASE Fail(p) /\ ~Continue(p)
  <2>1. pc' = [pc EXCEPT ![p] = "done"] /\ UNCHANGED todo
    BY <1>4 DEF Fail, Goto
  <2>2. /\ pc' \in [Proc -> Labels] /\ pc'[p] = "done"
        /\ \A q \in Proc \ {p} : pc'[q] = "done"
    BY <1>1, <2>1 DEF Labels, Opened
  <2>3. Place(p)'
    BY <2>2 DEF Place, Opened
  <2>. QED BY <1>1, <2>1, <2>2, <2>3
<1>. QED BY <1>3, <1>4

\* Between two files only the bucket and what was cut off matter.
LEMMA Rested ==
    ASSUME NEW p \in Proc, GzipTypes(p), UNCHANGED <<setup, born>>,
           pc' \in [Proc -> Labels], pc'[p] \in {"loop", "done"},
           DOMAIN todo' = Proc, todo'[p] \in Seq(Work \cup {ThisDir}), Place(p)',
           fs' \in [Path -> Content \cup {Absent}], data' \in [Proc -> Content],
           short' \in [Proc -> BOOLEAN], CutOff(p)', DataKept'
    PROVE  GzipOf(p)'
<1>1. GzipTypes(p)'
  BY DEF GzipTypes
<1>2. SourceThere(p)' /\ OutputFree(p)' /\ OutputWhole(p)'
  BY DEF SourceThere, OutputFree, OutputWhole, Opened, Writing
<1>. QED BY <1>1, <1>2 DEF GzipOf

\* Nothing is written and no output is in hand: what was cut off before stays so.
LEMMA CutOffStays ==
    ASSUME NEW p \in Proc, CutOff(p), UNCHANGED <<setup, fs>>, stuck \subseteq stuck',
           pc[p] \notin {"write", "close", "cleanup"}
    PROVE  CutOff(p)'
<1>1. Compresses(p)' <=> Compresses(p)
  BY DEF Compresses, cmd
<1>. QED BY <1>1 DEF CutOff, Exists

\* A step that ends the work on a file and changes none.
LEMMA QuietEnd ==
    ASSUME NEW p \in Proc, GzipOf(p), pc[p] \in {"loop", "open", "stat", "create"},
           Continue(p) \/ Fail(p),
           UNCHANGED <<setup, born, fs, consented, stuck, short>>,
           data' \in [Proc -> Content]
    PROVE  GzipOf(p)'
<1>1. GzipTypes(p) /\ Place(p) /\ CutOff(p) /\ DataKept
  BY DEF GzipOf
<1>2. /\ pc' \in [Proc -> Labels] /\ pc'[p] \in {"loop", "done"}
      /\ DOMAIN todo' = Proc /\ todo'[p] \in Seq(Work \cup {ThisDir})
      /\ Place(p)'
  BY <1>1, Over
<1>3. CutOff(p)' /\ DataKept'
  <2>1. CutOff(p)'
    BY <1>1, CutOffStays
  <2>2. DataKept'
    BY <1>1 DEF DataKept, Exists
  <2>. QED BY <2>1, <2>2
<1>4. fs' \in [Path -> Content \cup {Absent}] /\ short' \in [Proc -> BOOLEAN]
  BY <1>1 DEF GzipTypes
<1>. QED BY <1>1, <1>2, <1>3, <1>4, Rested

-----------------------------------------------------------------------------
LEMMA SeqOf ==
    ASSUME NEW n \in Nat, NEW S, NEW s \in [1..n -> S]
    PROVE  s \in Seq(S) /\ (n # 0 => s # <<>>)
<1>1. s \in Seq(S)
  BY SeqDef
<1>2. Len(s) = n
  BY <1>1
<1>3. Len(<<>>) = 0
  OBVIOUS
<1>. QED BY <1>1, <1>2, <1>3, Zenon

\* There are finitely many names.
LEMMA PathFinite == IsFiniteSet(Path)
<1>. DEFINE N == 0..MaxSuffix
            A == 0..2
            T == A \X (Base \X N)
            f == [x \in Path |-> <<x.at, <<x.base, x.n>>>>]
<1>1. IsFiniteSet(N) /\ IsFiniteSet(A) /\ IsFiniteSet(Base)
  <2>1. MaxSuffix \in Int /\ 0 \in Int /\ 2 \in Int
    BY GzipAssumption
  <2>. QED BY <2>1, GzipAssumption, FS_Interval
<1>2. IsFiniteSet(T)
  <2>. HIDE DEF N, A
  <2>1. IsFiniteSet(Base \X N)
    BY <1>1, FS_Product
  <2>. QED BY <1>1, <2>1, FS_Product
<1>3. f \in [Path -> T]
  BY DEF Path
<1>4. \A x, y \in Path : f[x] = f[y] => x = y
  BY DEF Path
<1>5. f \in Injection(Path, T)
  <2>. HIDE DEF f, T
  <2>. QED BY <1>3, <1>4 DEF Injection, IsInjective
<1>. HIDE DEF f, T
<1>. QED BY <1>2, <1>5, FS_Injection

\* gunzip makes its work list (gunzip.go:146-201): names without the directories, or
\* what is in the directory.
LEMMA CollectKeeps ==
    ASSUME NEW p \in Proc, GzipOf(p), Collect(p)
    PROVE  GzipOf(p)'
<1>. DEFINE args == cmd[p].args
            named == {i \in DOMAIN args : args[i] # ThisDir}
            m == Cardinality(named)
            n == Cardinality(Listed(p))
<1>1. /\ GzipTypes(p) /\ Place(p) /\ CutOff(p) /\ DataKept /\ pc[p] = "collect"
      /\ UNCHANGED <<setup, born, fs, data, short, linked, consented, stuck>>
  BY DEF GzipOf, Collect, fixed
<1>2. /\ pc \in [Proc -> Labels] /\ DOMAIN todo = Proc /\ setup \in Setups
      /\ todo[p] \in Seq(Work \cup {ThisDir})
      /\ \A q \in Proc \ {p} : pc[q] = "done"
  BY <1>1 DEF GzipTypes, Place
<1>3. m \in Nat /\ \A i \in named : args[i] \in Work
  <2>1. args \in Seq(Argument)
    BY <1>2, CommandIs
  <2>. HIDE DEF args
  <2>2. DOMAIN args = 1..Len(args) /\ Len(args) \in Nat /\ \A i \in DOMAIN args : args[i] \in Argument
    BY <2>1
  <2>3. IsFiniteSet(DOMAIN args)
    BY <2>2, FS_Interval
  <2>4. IsFiniteSet(named)
    <3>1. named \in SUBSET DOMAIN args
      OBVIOUS
    <3>. HIDE DEF named
    <3>. QED BY <2>3, <3>1, FS_Subset
  <2>5. m \in Nat
    <3>. HIDE DEF named
    <3>. QED BY <2>4, FS_CardinalityType
  <2>. QED BY <2>2, <2>5, ArgumentWork
<1>4. n \in Nat /\ Listed(p) \subseteq Work
  <2>1. Listed(p) \in SUBSET Path
    BY DEF Listed
  <2>2. IsFiniteSet(Listed(p))
    BY <2>1, PathFinite, FS_Subset
  <2>3. here \in {0, 1}
    BY <1>2, CommandIs
  <2>4. Listed(p) \subseteq Work
    BY <2>3 DEF Listed, Work
  <2>. QED BY <2>2, <2>4, FS_CardinalityType
<1>. HIDE DEF named, m, n, args
<1>5. \/ pc' = [pc EXCEPT ![p] = "done"] /\ UNCHANGED todo
      \/ \E at \in [1..m -> named] :
            /\ todo' = [todo EXCEPT ![p] = [i \in 1..m |-> args[at[i]]]]
            /\ pc' = [pc EXCEPT ![p] = IF m = 0 THEN "done" ELSE "loop"]
      \/ \E order \in [1..n -> Listed(p)] :
            /\ todo' = [todo EXCEPT ![p] = order]
            /\ pc' = [pc EXCEPT ![p] = IF n = 0 THEN "done" ELSE "loop"]
  BY DEF Collect, Goto, named, m, n, args
<1>6. ASSUME NEW k \in Nat, NEW t \in [1..k -> Work], todo' = [todo EXCEPT ![p] = t],
             pc' = [pc EXCEPT ![p] = IF k = 0 THEN "done" ELSE "loop"]
      PROVE  /\ pc' \in [Proc -> Labels] /\ pc'[p] \in {"loop", "done"}
             /\ DOMAIN todo' = Proc /\ todo'[p] \in Seq(Work \cup {ThisDir})
             /\ Place(p)'
  <2>1. t \in Seq(Work) /\ (k # 0 => t # <<>>)
    BY <1>6, SeqOf
  <2>2. t \in Seq(Work \cup {ThisDir})
    BY <2>1, SeqMonotonic
  <2>3. todo'[p] = t /\ DOMAIN todo' = Proc
    BY <1>2, <1>6
  <2>4. /\ pc' \in [Proc -> Labels]
        /\ pc'[p] = "done" \/ (pc'[p] = "loop" /\ k # 0)
        /\ \A q \in Proc \ {p} : pc'[q] = "done"
    BY <1>2, <1>6 DEF Labels, Opened
  <2>5. Place(p)'
    BY <2>1, <2>3, <2>4 DEF Place, Opened
  <2>. QED BY <2>2, <2>3, <2>4, <2>5
<1>7. /\ pc' \in [Proc -> Labels] /\ pc'[p] \in {"loop", "done"}
      /\ DOMAIN todo' = Proc /\ todo'[p] \in Seq(Work \cup {ThisDir})
      /\ Place(p)'
  <2>1. CASE pc' = [pc EXCEPT ![p] = "done"] /\ UNCHANGED todo
    <3>1. /\ pc' \in [Proc -> Labels] /\ pc'[p] = "done"
          /\ \A q \in Proc \ {p} : pc'[q] = "done"
      BY <1>2, <2>1 DEF Labels, Opened
    <3>2. Place(p)'
      BY <3>1 DEF Place, Opened
    <3>. QED BY <1>2, <2>1, <3>1, <3>2
  <2>2. ASSUME NEW at \in [1..m -> named],
               todo' = [todo EXCEPT ![p] = [i \in 1..m |-> args[at[i]]]],
               pc' = [pc EXCEPT ![p] = IF m = 0 THEN "done" ELSE "loop"]
        PROVE  /\ pc' \in [Proc -> Labels] /\ pc'[p] \in {"loop", "done"}
               /\ DOMAIN todo' = Proc /\ todo'[p] \in Seq(Work \cup {ThisDir})
               /\ Place(p)'
    <3>. DEFINE t == [i \in 1..m |-> args[at[i]]]
    <3>1. t \in [1..m -> Work]
      BY <1>3
    <3>. HIDE DEF t
    <3>2. todo' = [todo EXCEPT ![p] = t]
      BY <2>2 DEF t
    <3>. QED BY <1>3, <1>6, <2>2, <3>1, <3>2
  <2>3. ASSUME NEW order \in [1..n -> Listed(p)], todo' = [todo EXCEPT ![p] = order],
               pc' = [pc EXCEPT ![p] = IF n = 0 THEN "done" ELSE "loop"]
        PROVE  /\ pc' \in [Proc -> Labels] /\ pc'[p] \in {"loop", "done"}
               /\ DOMAIN todo' = Proc /\ todo'[p] \in Seq(Work \cup {ThisDir})
               /\ Place(p)'
    <3>1. order \in [1..n -> Work]
      BY <1>4
    <3>. QED BY <1>4, <1>6, <2>3, <3>1
  <2>. QED BY <1>5, <2>1, <2>2, <2>3
<1>8. CutOff(p)'
  BY <1>1, CutOffStays
<1>9. DataKept'
  BY <1>1 DEF DataKept, Exists
<1>10. /\ fs' \in [Path -> Content \cup {Absent}] /\ data' \in [Proc -> Content]
       /\ short' \in [Proc -> BOOLEAN]
  BY <1>1 DEF GzipTypes
<1>. QED BY <1>1, <1>7, <1>8, <1>9, <1>10, Rested

-----------------------------------------------------------------------------
\* While a file is in hand its names do not change.
LEMMA SameNames ==
    ASSUME NEW p \in Proc, UNCHANGED <<setup, todo>>
    PROVE  /\ File(p)' = File(p) /\ Source(p)' = Source(p) /\ Output(p)' = Output(p)
           /\ cmd' = cmd /\ backend' = backend
           /\ (Gunzip(p)' <=> Gunzip(p)) /\ (Compresses(p)' <=> Compresses(p))
           /\ \A f : HasSuffix(p, f)' <=> HasSuffix(p, f)
BY DEF File, Source, Output, ResolvePath, TrimSuffix, AddSuffix, Gunzip, Compresses,
       HasSuffix, cmd, here, backend

\* Work on a file goes on: types and place.
LEMMA GoesOn ==
    ASSUME NEW p \in Proc, GzipTypes(p), Place(p), UNCHANGED <<setup, born, todo>>,
           NEW l \in Opened \cup {"open"}, pc' = [pc EXCEPT ![p] = l],
           pc[p] \notin {"collect", "done"}, File(p) \in Work,
           ~Gunzip(p) => (HasSuffix(p, File(p)) <=> ~Compresses(p)),
           l \in Opened /\ Gunzip(p) => ~cmd[p].bare /\ HasSuffix(p, File(p)),
           l \in Opened \ {"stat"} => ~cmd[p].bare,
           fs' \in [Path -> Content \cup {Absent}], data' \in [Proc -> Content],
           short' \in [Proc -> BOOLEAN]
    PROVE  GzipTypes(p)' /\ Place(p)' /\ pc'[p] = l
<1>1. /\ pc \in [Proc -> Labels] /\ todo[p] # <<>>
      /\ \A q \in Proc \ {p} : pc[q] = "done"
      /\ Gunzip(p) => todo[p] \in Seq(Work)
  BY DEF GzipTypes, Place
<1>2. /\ pc' \in [Proc -> Labels] /\ pc'[p] = l
      /\ \A q \in Proc \ {p} : pc'[q] = "done"
  BY <1>1 DEF Labels
<1>3. GzipTypes(p)'
  BY <1>2 DEF GzipTypes
<1>4. Place(p)'
  <2>1. l \notin {"collect", "done"}
    BY DEF Opened
  <2>. QED BY <1>1, <1>2, <2>1, SameNames DEF Place
<1>. QED BY <1>2, <1>3, <1>4

\* gzip looks at the source and its name (gzip.go:292-317, 421-446).
LEMMA StatSourceKeeps ==
    ASSUME NEW p \in Proc, GzipOf(p), StatSource(p)
    PROVE  GzipOf(p)'
<1>1. /\ GzipTypes(p) /\ Place(p) /\ CutOff(p) /\ DataKept /\ pc[p] = "loop"
      /\ UNCHANGED <<setup, born, fs, data, short, linked, consented, stuck>>
  BY DEF GzipOf, StatSource, fixed
<1>2. data' \in [Proc -> Content] /\ fs' \in [Path -> Content \cup {Absent}]
      /\ short' \in [Proc -> BOOLEAN]
  BY <1>1 DEF GzipTypes
<1>3. CASE Continue(p) \/ Fail(p)
  BY <1>1, <1>2, <1>3, QuietEnd
<1>4. CASE ~(Continue(p) \/ Fail(p))
  <2>1. /\ pc' = [pc EXCEPT ![p] = "open"] /\ UNCHANGED todo
        /\ Gunzip(p) \/ (File(p) # ThisDir /\ (HasSuffix(p, File(p)) <=> ~Compresses(p)))
    BY <1>4 DEF StatSource, Goto, HasSuffix, Compresses
  <2>2. File(p) \in Work
    <3>1. todo[p] \in Seq(Work \cup {ThisDir}) /\ todo[p] # <<>>
          /\ (Gunzip(p) => todo[p] \in Seq(Work))
      BY <1>1 DEF GzipTypes, Place
    <3>2. File(p) \in Work \cup {ThisDir} /\ (Gunzip(p) => File(p) \in Work)
      BY <3>1 DEF File
    <3>. QED BY <2>1, <3>2
  <2>3. ~Gunzip(p) => (HasSuffix(p, File(p)) <=> ~Compresses(p))
    BY <2>1
  <2>4. GzipTypes(p)' /\ Place(p)' /\ pc'[p] = "open"
    BY <1>1, <1>2, <2>1, <2>2, <2>3, GoesOn DEF Opened
  <2>5. SourceThere(p)' /\ OutputFree(p)' /\ OutputWhole(p)'
    BY <2>4 DEF SourceThere, OutputFree, OutputWhole, Opened, Writing
  <2>6. CutOff(p)'
    BY <1>1, CutOffStays
  <2>7. DataKept'
    BY <1>1 DEF DataKept, Exists
  <2>. QED BY <2>4, <2>5, <2>6, <2>7 DEF GzipOf
<1>. QED BY <1>3, <1>4

\* The source is read and packed or unpacked (gzip.go:319-333, 448-459;
\* gunzip.go:203-229): its datum is in hand, and it is a whole one.
LEMMA ReadSourceKeeps ==
    ASSUME NEW p \in Proc, GzipOf(p), ReadSource(p)
    PROVE  GzipOf(p)'
<1>. DEFINE c == fs[Source(p)]
            d == IF Compresses(p) THEN Pack(c) ELSE Unpack(c)
<1>1. /\ GzipTypes(p) /\ Place(p) /\ CutOff(p) /\ DataKept /\ pc[p] = "open"
      /\ UNCHANGED <<setup, born, fs, short, linked, consented, stuck>>
  BY DEF GzipOf, ReadSource, fixed
<1>2. /\ fs \in [Path -> Content \cup {Absent}] /\ data \in [Proc -> Content]
      /\ fs' \in [Path -> Content \cup {Absent}] /\ short' \in [Proc -> BOOLEAN]
  BY <1>1 DEF GzipTypes
<1>3. Source(p) \in Path /\ (Compresses(p) => Source(p).n = 0)
  BY <1>1, Names
<1>4. CASE Fail(p) /\ UNCHANGED data
  BY <1>1, <1>2, <1>4, QuietEnd
<1>5. CASE ~(Fail(p) /\ UNCHANGED data)
  <2>1. /\ Exists(Source(p)) /\ (Compresses(p) \/ IsGzip(c))
        /\ data' = [data EXCEPT ![p] = d]
        /\ \/ Continue(p)
           \/ /\ Gunzip(p) => ~cmd[p].bare /\ HasSuffix(p, File(p))
              /\ Goto(p, "stat") /\ UNCHANGED todo
    BY <1>5 DEF ReadSource
  <2>2. c \in Content
    BY <1>2, <1>3, <2>1 DEF Exists
  <2>3. d \in Content /\ d.of = c.of
    <3>1. c.of \in Path \cup {Lost} /\ c.z \in Int
      BY <2>2 DEF Content
    <3>2. /\ Pack(c) = [of |-> c.of, z |-> c.z + 1]
          /\ Unpack(c) = [of |-> c.of, z |-> c.z - 1]
      BY <2>2 DEF Pack, Unpack, Content
    <3>. HIDE DEF c
    <3>3. c.z + 1 \in Int /\ c.z - 1 \in Int
      BY <3>1
    <3>. QED BY <3>1, <3>2, <3>3 DEF Content
  <2>4. c.of # Lost
    <3>1. c.of = Lost => c.z = 0 /\ (Compresses(p) => Source(p).n > 0)
      BY <1>1, <1>3, <2>1 DEF CutOff
    <3>2. ~(0 > 0)
      OBVIOUS
    <3>. QED BY <1>3, <2>1, <3>1, <3>2 DEF IsGzip
  <2>. HIDE DEF d
  <2>5. data' \in [Proc -> Content] /\ data'[p] = d
    BY <1>2, <2>1, <2>3
  <2>6. CASE Continue(p)
    BY <1>1, <2>5, <2>6, QuietEnd
  <2>7. CASE /\ Gunzip(p) => ~cmd[p].bare /\ HasSuffix(p, File(p))
             /\ Goto(p, "stat") /\ UNCHANGED todo
    <3>1. /\ File(p) \in Work
          /\ ~Gunzip(p) => (HasSuffix(p, File(p)) <=> ~Compresses(p))
      BY <1>1 DEF Place
    <3>2. pc' = [pc EXCEPT ![p] = "stat"]
      BY <2>7 DEF Goto
    <3>3. GzipTypes(p)' /\ Place(p)' /\ pc'[p] = "stat"
      BY <1>1, <1>2, <2>5, <2>7, <3>1, <3>2, GoesOn DEF Opened
    <3>4. SourceThere(p)'
      <4>1. Source(p)' = Source(p)
        BY <1>1, <2>7, SameNames
      <4>. QED BY <1>1, <2>1, <2>3, <2>4, <2>5, <4>1 DEF SourceThere, Exists
    <3>5. OutputFree(p)' /\ OutputWhole(p)'
      BY <3>3 DEF OutputFree, OutputWhole, Writing
    <3>6. CutOff(p)'
      BY <1>1, CutOffStays
    <3>7. DataKept'
      BY <1>1 DEF DataKept, Exists
    <3>. QED BY <3>3, <3>4, <3>5, <3>6, <3>7 DEF GzipOf
  <2>. QED BY <2>1, <2>6, <2>7
<1>. QED BY <1>4, <1>5

\* The output is looked for (gzip.go:335-341, 476-482; gunzip.go:231-237): a file
\* that is there is given up under -f only, and the source is not among them.
LEMMA StatOutputKeeps ==
    ASSUME NEW p \in Proc, Only(p), GzipOf(p), StatOutput(p)
    PROVE  GzipOf(p)'
<1>1. /\ GzipTypes(p) /\ Place(p) /\ CutOff(p) /\ DataKept /\ SourceThere(p)
      /\ pc[p] = "stat"
      /\ UNCHANGED <<setup, born, fs, data, short, linked, stuck>>
  BY DEF GzipOf, StatOutput, fixed
<1>2. /\ fs' \in [Path -> Content \cup {Absent}] /\ short' \in [Proc -> BOOLEAN]
      /\ data' \in [Proc -> Content]
  BY <1>1 DEF GzipTypes
<1>3. \/ Continue(p) /\ UNCHANGED consented
      \/ /\ Exists(Output(p)) => cmd[p].force
         /\ consented' = consented \cup
               (IF Exists(Output(p)) THEN {fs[Output(p)].of} \ {data[p].of, Lost} ELSE {})
         /\ pc' = [pc EXCEPT ![p] = "create"] /\ UNCHANGED todo
  BY DEF StatOutput, Only, WorksAlone, StatSeesOutput, NeverOverItsSource, Goto
<1>4. CASE Continue(p) /\ UNCHANGED consented
  BY <1>1, <1>2, <1>4, QuietEnd
<1>5. CASE ~(Continue(p) /\ UNCHANGED consented)
  <2>1. /\ Exists(Output(p)) => cmd[p].force
        /\ consented' = consented \cup
              (IF Exists(Output(p)) THEN {fs[Output(p)].of} \ {data[p].of, Lost} ELSE {})
        /\ pc' = [pc EXCEPT ![p] = "create"] /\ UNCHANGED todo
    BY <1>3, <1>5
  <2>2. /\ File(p) \in Work
        /\ ~Gunzip(p) => (HasSuffix(p, File(p)) <=> ~Compresses(p))
        /\ Gunzip(p) => ~cmd[p].bare /\ HasSuffix(p, File(p))
    BY <1>1 DEF Place, Opened
  <2>3. ~cmd[p].bare
    <3>1. cmd[p].bare => Output(p) = Source(p) /\ cmd[p].prog = "gzip -d"
      BY <1>1, Names DEF Opened
    <3>2. Exists(Source(p))
      BY <1>1 DEF SourceThere, Opened
    <3>. QED BY <2>1, <3>1, <3>2 DEF Only, WorksAlone, StatSeesOutput, NeverOverItsSource
  <2>4. GzipTypes(p)' /\ Place(p)' /\ pc'[p] = "create"
    BY <1>1, <1>2, <2>1, <2>2, <2>3, GoesOn DEF Opened
  <2>5. Source(p)' = Source(p) /\ Output(p)' = Output(p)
    BY <1>1, <2>1, SameNames
  <2>6. SourceThere(p)'
    BY <1>1, <2>5 DEF SourceThere, Exists, Opened
  <2>7. OutputFree(p)' /\ OutputWhole(p)'
    BY <1>1, <2>1, <2>4, <2>5 DEF OutputFree, OutputWhole, Exists
  <2>8. CutOff(p)'
    BY <1>1, CutOffStays
  <2>9. DataKept'
    BY <1>1, <2>1 DEF DataKept, Exists
  <2>. QED BY <2>4, <2>6, <2>7, <2>8, <2>9 DEF GzipOf
<1>. QED BY <1>4, <1>5

-----------------------------------------------------------------------------
\* The state of writeOutput: both names, and what they hold.
LEMMA InHand ==
    ASSUME NEW p \in Proc, GzipOf(p), pc[p] \in Opened \ {"stat"}
    PROVE  /\ Source(p) \in Path /\ Output(p) \in Path /\ Output(p) # Source(p)
           /\ Compresses(p) => Output(p).n = 1
           /\ Exists(Source(p)) /\ fs[Source(p)].of = data[p].of
           /\ data[p] \in Content /\ data[p].of # Lost /\ data[p] # Absent
           /\ fs[Source(p)] \in Content
           /\ fs \in [Path -> Content \cup {Absent}] /\ born \in SUBSET Path
<1>1. GzipTypes(p) /\ Place(p) /\ SourceThere(p)
  BY DEF GzipOf
<1>2. ~cmd[p].bare
  BY <1>1 DEF Place
<1>3. /\ Source(p) \in Path /\ Output(p) \in Path /\ Output(p) # Source(p)
      /\ Compresses(p) => Output(p).n = 1
  BY <1>1, <1>2, Names
<1>4. /\ data[p] \in Content /\ fs \in [Path -> Content \cup {Absent}]
      /\ born \in SUBSET Path
  BY <1>1 DEF GzipTypes
<1>5. /\ Exists(Source(p)) /\ fs[Source(p)].of = data[p].of /\ data[p].of # Lost
  BY <1>1 DEF SourceThere
<1>. QED BY <1>3, <1>4, <1>5, GzipAssumption DEF Exists

\* The work on the file in hand goes on: what Place says of its name still holds.
LEMMA NameTaken ==
    ASSUME NEW p \in Proc, GzipOf(p), pc[p] \in Opened \ {"stat"}
    PROVE  /\ File(p) \in Work /\ ~cmd[p].bare
           /\ ~Gunzip(p) => (HasSuffix(p, File(p)) <=> ~Compresses(p))
           /\ Gunzip(p) => HasSuffix(p, File(p))
BY DEF GzipOf, Place

\* The output changes while the source stays (gzip.go:490-519, gunzip.go:321-350).
LEMMA OutputChanges ==
    ASSUME NEW p \in Proc, GzipOf(p), pc[p] \in Writing,
           NEW c, fs' = [fs EXCEPT ![Output(p)] = c], UNCHANGED <<born, consented>>
    PROVE  /\ DataKept'
           /\ fs'[Source(p)] = fs[Source(p)] /\ fs'[Output(p)] = c
           /\ \A f \in Path : f # Output(p) => fs'[f] = fs[f]
           /\ c \in Content \cup {Absent} => fs' \in [Path -> Content \cup {Absent}]
<1>1. pc[p] \in Opened \ {"stat"}
  BY DEF Writing, Opened
<1>2. /\ Source(p) \in Path /\ Output(p) \in Path /\ Output(p) # Source(p)
      /\ Exists(Source(p)) /\ fs[Source(p)].of = data[p].of
      /\ fs \in [Path -> Content \cup {Absent}] /\ born \in SUBSET Path
  BY <1>1, InHand
<1>3. Exists(Output(p)) => fs[Output(p)].of \in consented \cup {data[p].of, Lost}
  BY DEF GzipOf, OutputFree
<1>4. Exists(Output(p)) =>
         \/ fs[Output(p)].of \in consented \cup {Lost}
         \/ \E s \in Path \ {Output(p)} : Exists(s) /\ fs[s].of = fs[Output(p)].of
  BY <1>2, <1>3
<1>5. DataKept
  BY DEF GzipOf
<1>6. DataKept'
  BY <1>2, <1>4, <1>5, KeptByOther
<1>. QED BY <1>2, <1>6

\* Create, which truncates on osfs.
LEMMA CreateKeeps ==
    ASSUME NEW p \in Proc, GzipOf(p), CreateOutput(p)
    PROVE  GzipOf(p)'
<1>. DEFINE o == Output(p)
<1>1. /\ GzipTypes(p) /\ Place(p) /\ CutOff(p) /\ DataKept /\ SourceThere(p)
      /\ OutputFree(p) /\ pc[p] = "create" /\ pc' = [pc EXCEPT ![p] = "write"]
      /\ UNCHANGED <<setup, born, todo, data, short, consented, stuck>>
      /\ linked' = linked \cup {p}
  BY DEF GzipOf, CreateOutput, fixed, Goto
<1>2. pc[p] \in Writing /\ pc[p] \in Opened \ {"stat"}
  BY <1>1 DEF Writing, Opened
<1>3. /\ Source(p) \in Path /\ o \in Path /\ (Compresses(p) => o.n = 1)
      /\ fs \in [Path -> Content \cup {Absent}]
  BY <1>2, InHand
<1>4. Nothing \in Content /\ Nothing.of = Lost /\ Nothing.z = 0
  BY DEF Nothing, Content
<1>5. \/ fs' = fs
      \/ fs' = [fs EXCEPT ![o] = Nothing]
  BY DEF CreateOutput
<1>6. /\ DataKept' /\ fs'[Source(p)] = fs[Source(p)]
      /\ fs'[o] = fs[o] \/ fs'[o] = Nothing
      /\ \A f \in Path : f # o => fs'[f] = fs[f]
      /\ fs' \in [Path -> Content \cup {Absent}]
  <2>1. CASE fs' = fs
    BY <1>1, <1>3, <2>1 DEF DataKept, Exists
  <2>2. CASE fs' = [fs EXCEPT ![o] = Nothing]
    BY <1>1, <1>2, <1>4, <2>2, OutputChanges
  <2>. QED BY <1>5, <2>1, <2>2
<1>7. GzipTypes(p)' /\ Place(p)' /\ pc'[p] = "write"
  <2>1. data' \in [Proc -> Content] /\ short' \in [Proc -> BOOLEAN]
    BY <1>1 DEF GzipTypes
  <2>. QED BY <1>1, <1>2, <1>6, <2>1, NameTaken, GoesOn DEF Opened
<1>8. Source(p)' = Source(p) /\ Output(p)' = o /\ (Compresses(p)' <=> Compresses(p))
  BY <1>1, SameNames
<1>9. SourceThere(p)'
  BY <1>1, <1>2, <1>6, <1>8 DEF SourceThere, Exists
<1>. HIDE DEF o
<1>10. OutputFree(p)'
  <2>1. Exists(o) => fs[o].of \in consented \cup {data[p].of, Lost}
    BY <1>1, <1>2 DEF OutputFree, o
  <2>. QED BY <1>1, <1>4, <1>6, <1>8, <2>1 DEF OutputFree, Exists
<1>11. OutputWhole(p)'
  BY <1>1, <1>7 DEF OutputWhole
<1>12. CutOff(p)'
  <2>. SUFFICES ASSUME NEW f \in Path, Exists(f)', fs'[f].of = Lost
                PROVE  /\ fs'[f].z = 0 /\ (Compresses(p) => f.n > 0)
                       /\ f \in stuck \/ f = o
    BY <1>1, <1>7, <1>8 DEF CutOff
  <2>1. CASE fs'[f] = fs[f]
    <3>1. Exists(f) /\ fs[f].of = Lost
      BY <2>1 DEF Exists
    <3>. QED BY <1>1, <2>1, <3>1 DEF CutOff
  <2>2. CASE f = o /\ fs'[f] = Nothing
    <3>1. 1 > 0
      OBVIOUS
    <3>. QED BY <1>3, <1>4, <2>2, <3>1
  <2>. QED BY <1>6, <2>1, <2>2
<1>. QED BY <1>6, <1>7, <1>9, <1>10, <1>11, <1>12 DEF GzipOf

\* Create that fails, or that s3fs refuses.
LEMMA CreateFailsKeeps ==
    ASSUME NEW p \in Proc, GzipOf(p), CreateFails(p)
    PROVE  GzipOf(p)'
<1>1. /\ pc[p] = "create" /\ Fail(p)
      /\ UNCHANGED <<setup, born, fs, data, short, consented, stuck>>
  BY DEF CreateFails, fixed
<1>2. data' \in [Proc -> Content]
  BY <1>1 DEF GzipOf, GzipTypes
<1>. QED BY <1>1, <1>2, QuietEnd

\* Write, whole or cut off.
LEMMA WriteKeeps ==
    ASSUME NEW p \in Proc, GzipOf(p), Write(p)
    PROVE  GzipOf(p)'
<1>. DEFINE o == Output(p)
<1>1. /\ GzipTypes(p) /\ Place(p) /\ CutOff(p) /\ DataKept /\ SourceThere(p)
      /\ OutputFree(p) /\ OutputWhole(p)
      /\ pc[p] = "write" /\ pc' = [pc EXCEPT ![p] = "close"]
      /\ UNCHANGED <<setup, born, todo, data, linked, consented, stuck>>
  BY DEF GzipOf, Write, fixed, Goto
<1>2. pc[p] \in Writing /\ pc[p] \in Opened \ {"stat"}
  BY <1>1 DEF Writing, Opened
<1>3. /\ Source(p) \in Path /\ o \in Path /\ (Compresses(p) => o.n = 1)
      /\ fs \in [Path -> Content \cup {Absent}] /\ data[p] \in Content
      /\ data[p].of # Lost /\ data[p] # Absent
  BY <1>2, InHand
<1>4. Nothing \in Content /\ Nothing.of = Lost /\ Nothing.z = 0
  BY DEF Nothing, Content
<1>5. PICK cut \in BOOLEAN :
        /\ short' = [short EXCEPT ![p] = cut]
        /\ \/ backend # "osfs" /\ fs' = fs
           \/ cut /\ fs' = [fs EXCEPT ![o] = Nothing]
           \/ ~cut /\ fs' = [fs EXCEPT ![o] = data[p]]
  BY <1>1 DEF Write, OutputWhole
<1>6. /\ DataKept' /\ fs'[Source(p)] = fs[Source(p)]
      /\ \A f \in Path : f # o => fs'[f] = fs[f]
      /\ fs' \in [Path -> Content \cup {Absent}]
      /\ \/ backend # "osfs" /\ fs'[o] = fs[o]
         \/ cut /\ fs'[o] = Nothing
         \/ ~cut /\ fs'[o] = data[p]
  <2>1. CASE backend # "osfs" /\ fs' = fs
    BY <1>1, <1>3, <2>1 DEF DataKept, Exists
  <2>2. CASE cut /\ fs' = [fs EXCEPT ![o] = Nothing]
    BY <1>1, <1>2, <1>4, <2>2, OutputChanges
  <2>3. CASE ~cut /\ fs' = [fs EXCEPT ![o] = data[p]]
    BY <1>1, <1>2, <1>3, <2>3, OutputChanges
  <2>. QED BY <1>5, <2>1, <2>2, <2>3
<1>0. short' \in [Proc -> BOOLEAN] /\ short'[p] = cut
  BY <1>1, <1>5 DEF GzipTypes
<1>7. GzipTypes(p)' /\ Place(p)' /\ pc'[p] = "close"
  <2>1. data' \in [Proc -> Content]
    BY <1>1 DEF GzipTypes
  <2>. QED BY <1>0, <1>1, <1>2, <1>6, <2>1, NameTaken, GoesOn DEF Opened
<1>8. /\ Source(p)' = Source(p) /\ Output(p)' = o /\ backend' = backend
      /\ Compresses(p)' <=> Compresses(p)
  BY <1>1, SameNames
<1>9. SourceThere(p)'
  BY <1>1, <1>2, <1>6, <1>8 DEF SourceThere, Exists
<1>. HIDE DEF o
<1>10. OutputFree(p)'
  <2>1. Exists(o) => fs[o].of \in consented \cup {data[p].of, Lost}
    BY <1>1, <1>2 DEF OutputFree, o
  <2>2. fs'[o] = fs[o] \/ fs'[o] = Nothing \/ fs'[o] = data[p]
    BY <1>6
  <2>3. fs'[o] # Absent => fs'[o].of \in consented \cup {data[p].of, Lost}
    BY <1>4, <2>1, <2>2 DEF Exists
  <2>. QED BY <1>1, <1>8, <2>3 DEF OutputFree, Exists
<1>11. OutputWhole(p)'
  BY <1>0, <1>1, <1>6, <1>7, <1>8 DEF OutputWhole
<1>12. CutOff(p)'
  <2>. SUFFICES ASSUME NEW f \in Path, Exists(f)', fs'[f].of = Lost
                PROVE  /\ fs'[f].z = 0 /\ (Compresses(p) => f.n > 0)
                       /\ f \in stuck \/ f = o
    BY <1>1, <1>7, <1>8 DEF CutOff
  <2>1. CASE fs'[f] = fs[f]
    <3>1. Exists(f) /\ fs[f].of = Lost
      BY <2>1 DEF Exists
    <3>. QED BY <1>1, <2>1, <3>1 DEF CutOff, o
  <2>2. CASE f = o /\ fs'[f] = Nothing
    <3>1. 1 > 0
      OBVIOUS
    <3>. QED BY <1>3, <1>4, <2>2, <3>1
  <2>3. CASE f = o /\ fs'[f] = data[p]
    BY <1>3, <2>3
  <2>. QED BY <1>6, <2>1, <2>2, <2>3
<1>. QED BY <1>6, <1>7, <1>9, <1>10, <1>11, <1>12 DEF GzipOf

\* Close: the output is whole, or it goes to the clean-up.
LEMMA CloseKeeps ==
    ASSUME NEW p \in Proc, GzipOf(p), Close(p)
    PROVE  GzipOf(p)'
<1>. DEFINE o == Output(p)
<1>1. /\ GzipTypes(p) /\ Place(p) /\ CutOff(p) /\ DataKept /\ SourceThere(p)
      /\ OutputFree(p) /\ OutputWhole(p) /\ pc[p] = "close"
      /\ UNCHANGED <<setup, born, data, short, consented, stuck>>
  BY DEF GzipOf, Close, fixed
<1>2. pc[p] \in Writing /\ pc[p] \in Opened \ {"stat"} /\ pc[p] \notin {"collect", "done"}
  BY <1>1 DEF Writing, Opened
<1>3. /\ Source(p) \in Path /\ o \in Path
      /\ fs \in [Path -> Content \cup {Absent}] /\ data[p] \in Content
      /\ data[p].of # Lost /\ data[p] # Absent
  BY <1>2, InHand
<1>4. data' \in [Proc -> Content] /\ short' \in [Proc -> BOOLEAN]
      /\ backend \in {"osfs", "s3fs"}
  BY <1>1, CommandIs DEF GzipTypes
<1>5. /\ \/ fs' = fs
         \/ fs' = [fs EXCEPT ![o] = data[p]]
      /\ \/ pc' = [pc EXCEPT ![p] = "cleanup"] /\ UNCHANGED todo
         \/ /\ fs' = [fs EXCEPT ![o] = data[p]] \/ (fs' = fs /\ fs[o] = data[p])
            /\ Continue(p) \/ (pc' = [pc EXCEPT ![p] = "unlink"] /\ UNCHANGED todo)
  BY <1>1, <1>4 DEF Close, Goto, OutputWhole
<1>6. /\ DataKept' /\ fs'[Source(p)] = fs[Source(p)]
      /\ \A f \in Path : f # o => fs'[f] = fs[f]
      /\ fs' \in [Path -> Content \cup {Absent}]
      /\ fs'[o] = fs[o] \/ fs'[o] = data[p]
  <2>1. CASE fs' = fs
    BY <1>1, <1>3, <2>1 DEF DataKept, Exists
  <2>2. CASE fs' = [fs EXCEPT ![o] = data[p]]
    BY <1>1, <1>2, <1>3, <2>2, OutputChanges
  <2>. QED BY <1>5, <2>1, <2>2
<1>7. \A f \in Path : fs'[f] # Absent /\ fs'[f].of = Lost =>
         /\ fs'[f] = fs[f] /\ fs[f].z = 0 /\ (Compresses(p) => f.n > 0)
         /\ f \in stuck \/ f = o
  <2>. SUFFICES ASSUME NEW f \in Path, fs'[f] # Absent, fs'[f].of = Lost
                PROVE  /\ fs'[f] = fs[f] /\ fs[f].z = 0 /\ (Compresses(p) => f.n > 0)
                       /\ f \in stuck \/ f = o
    OBVIOUS
  <2>1. fs'[f] = fs[f]
    BY <1>3, <1>6
  <2>2. Exists(f) /\ fs[f].of = Lost
    BY <2>1 DEF Exists
  <2>. QED BY <1>1, <2>1, <2>2 DEF CutOff
<1>8. Compresses(p)' <=> Compresses(p)
  BY <1>1 DEF Compresses, cmd
<1>. HIDE DEF o
<1>9. CASE pc' = [pc EXCEPT ![p] = "cleanup"] /\ UNCHANGED todo
  <2>1. GzipTypes(p)' /\ Place(p)' /\ pc'[p] = "cleanup"
    BY <1>1, <1>2, <1>4, <1>6, <1>9, NameTaken, GoesOn DEF Opened
  <2>2. Source(p)' = Source(p) /\ Output(p)' = o
    BY <1>1, <1>9, SameNames DEF o
  <2>3. SourceThere(p)'
    BY <1>1, <1>2, <1>6, <2>2 DEF SourceThere, Exists
  <2>4. OutputFree(p)' /\ OutputWhole(p)'
    <3>1. Exists(o) => fs[o].of \in consented \cup {data[p].of, Lost}
      BY <1>1, <1>2 DEF OutputFree, o
    <3>2. fs'[o] # Absent => fs'[o].of \in consented \cup {data[p].of, Lost}
      BY <1>6, <3>1 DEF Exists
    <3>. QED BY <1>1, <2>1, <2>2, <3>2 DEF OutputFree, OutputWhole, Exists
  <2>5. CutOff(p)'
    BY <1>1, <1>7, <1>8, <2>1, <2>2 DEF CutOff, Exists
  <2>. QED BY <1>6, <2>1, <2>3, <2>4, <2>5 DEF GzipOf
<1>10. CASE ~(pc' = [pc EXCEPT ![p] = "cleanup"] /\ UNCHANGED todo)
  <2>1. fs'[o] = data[p]
    BY <1>3, <1>5, <1>10
  <2>2. \A f \in Path : fs'[f] # Absent /\ fs'[f].of = Lost =>
           fs'[f].z = 0 /\ (Compresses(p) => f.n > 0) /\ f \in stuck
    BY <1>3, <1>7, <2>1
  <2>3. CutOff(p)'
    BY <1>1, <1>8, <2>2 DEF CutOff, Exists
  <2>4. CASE Continue(p)
    <3>1. /\ pc' \in [Proc -> Labels] /\ pc'[p] \in {"loop", "done"}
          /\ DOMAIN todo' = Proc /\ todo'[p] \in Seq(Work \cup {ThisDir})
          /\ Place(p)'
      BY <1>1, <1>2, <2>4, Over
    <3>. QED BY <1>1, <1>4, <1>6, <2>3, <3>1, Rested
  <2>5. CASE pc' = [pc EXCEPT ![p] = "unlink"] /\ UNCHANGED todo
    <3>1. GzipTypes(p)' /\ Place(p)' /\ pc'[p] = "unlink"
      BY <1>1, <1>2, <1>4, <1>6, <2>5, NameTaken, GoesOn DEF Opened
    <3>2. Source(p)' = Source(p) /\ Output(p)' = o
      BY <1>1, <2>5, SameNames DEF o
    <3>3. SourceThere(p)'
      BY <1>1, <1>2, <1>6, <3>2 DEF SourceThere, Exists
    <3>4. OutputFree(p)' /\ OutputWhole(p)'
      BY <1>1, <2>1, <3>1, <3>2 DEF OutputFree, OutputWhole, Writing
    <3>. QED BY <1>6, <2>3, <3>1, <3>3, <3>4 DEF GzipOf
  <2>. QED BY <1>5, <1>10, <2>4, <2>5
<1>. QED BY <1>9, <1>10

\* The output is removed, or cannot be.
LEMMA CleanupKeeps ==
    ASSUME NEW p \in Proc, GzipOf(p), Cleanup(p)
    PROVE  GzipOf(p)'
<1>. DEFINE o == Output(p)
<1>1. /\ GzipTypes(p) /\ Place(p) /\ CutOff(p) /\ DataKept /\ pc[p] = "cleanup"
      /\ UNCHANGED <<setup, born, data, short, consented>> /\ Fail(p)
  BY DEF GzipOf, Cleanup, fixed
<1>2. pc[p] \in Writing /\ pc[p] \in Opened \ {"stat"} /\ pc[p] \notin {"collect", "done"}
  BY <1>1 DEF Writing, Opened
<1>3. o \in Path /\ fs \in [Path -> Content \cup {Absent}]
  BY <1>2, InHand
<1>4. data' \in [Proc -> Content] /\ short' \in [Proc -> BOOLEAN]
  BY <1>1 DEF GzipTypes
<1>5. \/ fs' = [fs EXCEPT ![o] = Absent] /\ stuck' = stuck
      \/ fs' = fs /\ stuck' = stuck \cup {o}
  BY DEF Cleanup, Remove
<1>6. /\ DataKept' /\ fs' \in [Path -> Content \cup {Absent}]
      /\ \A f \in Path : f # o => fs'[f] = fs[f]
      /\ fs'[o] = Absent \/ (fs'[o] = fs[o] /\ o \in stuck')
      /\ stuck \subseteq stuck'
  <2>1. CASE fs' = [fs EXCEPT ![o] = Absent] /\ stuck' = stuck
    BY <1>1, <1>2, <2>1, OutputChanges
  <2>2. CASE fs' = fs /\ stuck' = stuck \cup {o}
    BY <1>1, <1>3, <2>2 DEF DataKept, Exists
  <2>. QED BY <1>5, <2>1, <2>2
<1>7. Compresses(p)' <=> Compresses(p)
  BY <1>1 DEF Compresses, cmd
<1>8. CutOff(p)'
  <2>. SUFFICES ASSUME NEW f \in Path, fs'[f] # Absent, fs'[f].of = Lost
                PROVE  fs'[f].z = 0 /\ (Compresses(p) => f.n > 0) /\ f \in stuck'
    BY <1>7 DEF CutOff, Exists
  <2>1. fs'[f] = fs[f] /\ (f = o => f \in stuck')
    BY <1>6
  <2>2. Exists(f) /\ fs[f].of = Lost
    BY <2>1 DEF Exists
  <2>. QED BY <1>1, <1>6, <2>1, <2>2 DEF CutOff
<1>9. /\ pc' \in [Proc -> Labels] /\ pc'[p] \in {"loop", "done"}
      /\ DOMAIN todo' = Proc /\ todo'[p] \in Seq(Work \cup {ThisDir})
      /\ Place(p)'
  BY <1>1, <1>2, Over
<1>. QED BY <1>1, <1>4, <1>6, <1>8, <1>9, Rested

\* The source is removed: its datum is in the output (gzip.go:351-353, 486-488;
\* gunzip.go:246-248).
LEMMA UnlinkKeeps ==
    ASSUME NEW p \in Proc, GzipOf(p), Unlink(p)
    PROVE  GzipOf(p)'
<1>. DEFINE i == Source(p)
            o == Output(p)
<1>1. /\ GzipTypes(p) /\ Place(p) /\ CutOff(p) /\ DataKept /\ OutputWhole(p)
      /\ pc[p] = "unlink"
      /\ UNCHANGED <<setup, born, data, short, consented>> /\ Continue(p)
  BY DEF GzipOf, Unlink, fixed
<1>2. pc[p] \in Opened \ {"stat"} /\ pc[p] \notin {"collect", "done"}
  BY <1>1 DEF Opened
<1>3. /\ i \in Path /\ o \in Path /\ o # i /\ Exists(i) /\ fs[i].of = data[p].of
      /\ data[p] # Absent
      /\ fs \in [Path -> Content \cup {Absent}] /\ born \in SUBSET Path
  BY <1>2, InHand
<1>4. data' \in [Proc -> Content] /\ short' \in [Proc -> BOOLEAN]
  BY <1>1 DEF GzipTypes
<1>5. fs[o] = data[p]
  BY <1>1 DEF OutputWhole
<1>6. \/ fs' = [fs EXCEPT ![i] = Absent] /\ stuck' = stuck
      \/ fs' = fs /\ stuck' = stuck \cup {i}
  BY DEF Unlink, Remove
<1>. HIDE DEF i, o
<1>7. /\ DataKept' /\ fs' \in [Path -> Content \cup {Absent}]
      /\ \A f \in Path : fs'[f] = fs[f] \/ fs'[f] = Absent
      /\ stuck \subseteq stuck'
  <2>1. CASE fs' = [fs EXCEPT ![i] = Absent] /\ stuck' = stuck
    <3>1. o \in Path \ {i} /\ Exists(o) /\ fs[o].of = fs[i].of
      BY <1>3, <1>5 DEF Exists
    <3>2. DataKept'
      BY <1>1, <1>3, <2>1, <3>1, KeptByOther
    <3>. QED BY <1>3, <2>1, <3>2
  <2>2. CASE fs' = fs /\ stuck' = stuck \cup {i}
    BY <1>1, <1>3, <2>2 DEF DataKept, Exists
  <2>. QED BY <1>6, <2>1, <2>2
<1>8. Compresses(p)' <=> Compresses(p)
  BY <1>1 DEF Compresses, cmd
<1>9. CutOff(p)'
  <2>. SUFFICES ASSUME NEW f \in Path, fs'[f] # Absent, fs'[f].of = Lost
                PROVE  fs'[f].z = 0 /\ (Compresses(p) => f.n > 0) /\ f \in stuck'
    BY <1>8 DEF CutOff, Exists
  <2>1. fs'[f] = fs[f]
    BY <1>7
  <2>2. Exists(f) /\ fs[f].of = Lost
    BY <2>1 DEF Exists
  <2>. QED BY <1>1, <1>7, <2>1, <2>2 DEF CutOff
<1>10. /\ pc' \in [Proc -> Labels] /\ pc'[p] \in {"loop", "done"}
       /\ DOMAIN todo' = Proc /\ todo'[p] \in Seq(Work \cup {ThisDir})
       /\ Place(p)'
  BY <1>1, <1>2, Over
<1>. QED BY <1>1, <1>4, <1>7, <1>9, <1>10, Rested

-----------------------------------------------------------------------------
\* The start: every file has its own datum, nothing is cut off.
LEMMA GzipInit == Init => GzipIInv
<1>. SUFFICES ASSUME Init, NEW p \in Proc, Only(p) PROVE GzipOf(p)
  BY DEF GzipIInv
<1>1. setup \in Setups /\ born \in SUBSET Path
  BY DEF Init
<1>2. PICK plain \in SUBSET born :
        fs = [f \in Path |-> IF f \notin born THEN Absent
                             ELSE [of |-> f, z |-> IF f \in plain THEN 0 ELSE f.n]]
  BY DEF Init
<1>3. \A f \in Path : \/ f \notin born /\ fs[f] = Absent
                      \/ f \in born /\ fs[f] \in Content /\ fs[f].of = f
  <2>. SUFFICES ASSUME NEW f \in Path, f \in born
                PROVE  fs[f] \in Content /\ fs[f].of = f
    BY <1>2
  <2>. DEFINE k == IF f \in plain THEN 0 ELSE f.n
  <2>1. f.n \in Int
    BY GzipAssumption DEF Path
  <2>2. k \in Int
    BY <2>1
  <2>3. fs[f] = [of |-> f, z |-> k]
    BY <1>2
  <2>. HIDE DEF k
  <2>. QED BY <2>2, <2>3 DEF Content
<1>4. fs \in [Path -> Content \cup {Absent}]
  BY <1>2, <1>3
<1>5. /\ pc \in [Proc -> Labels] /\ pc[p] \in {"done", "collect", "loop"}
      /\ pc[p] = "collect" => Gunzip(p)
      /\ pc[p] = "loop" => ~Gunzip(p)
      /\ pc[p] # "done" => cmd[p].args # <<>>
      /\ \A q \in Proc \ {p} : pc[q] = "done"
  BY DEF Init, Labels, Only, WorksAlone
<1>6. /\ DOMAIN todo = Proc /\ todo[p] = cmd[p].args
      /\ todo[p] \in Seq(Work \cup {ThisDir})
  <2>1. cmd[p].args \in Seq(Argument)
    BY <1>1, CommandIs
  <2>2. cmd[p].args \in Seq(Work \cup {ThisDir})
    BY <2>1, ArgumentWork, SeqMonotonic
  <2>. QED BY <2>2 DEF Init
<1>7. data \in [Proc -> Content] /\ short \in [Proc -> BOOLEAN]
  BY DEF Init, Nothing, Content
<1>8. GzipTypes(p)
  BY <1>1, <1>4, <1>5, <1>6, <1>7 DEF GzipTypes
<1>9. Place(p)
  BY <1>5, <1>6 DEF Place, Opened
<1>10. SourceThere(p) /\ OutputFree(p) /\ OutputWhole(p)
  BY <1>5 DEF SourceThere, OutputFree, OutputWhole, Opened, Writing
<1>11. CutOff(p)
  BY <1>3, GzipAssumption DEF CutOff, Exists
<1>12. DataKept
  <2>1. \A f \in born : fs[f] # Absent /\ fs[f].of = f
    BY <1>1, <1>3, GzipAssumption
  <2>. QED BY <1>1, <2>1 DEF DataKept, Exists
<1>. QED BY <1>8, <1>9, <1>10, <1>11, <1>12 DEF GzipOf

\* Every call of the command keeps the invariant, and the others make none.
LEMMA GzipNext == GzipIInv /\ [Next]_vars => GzipIInv'
<1>. SUFFICES ASSUME GzipIInv, [Next]_vars, NEW p \in Proc, Only(p)' PROVE GzipOf(p)'
  BY DEF GzipIInv
<1>1. UNCHANGED setup
  BY DEF Next, Step, Finished, vars, fixed, Collect, StatSource, ReadSource, StatOutput,
         CreateOutput, CreateFails, Write, Close, Cleanup, Unlink
<1>2. Only(p)
  BY <1>1 DEF Only, WorksAlone, StatSeesOutput, NeverOverItsSource, cmd, MayFail
<1>3. GzipOf(p)
  BY <1>2 DEF GzipIInv
<1>4. CASE UNCHANGED vars
  <2>. USE <1>4 DEF vars, fixed, cmd, here, backend
  <2>1. /\ File(p)' = File(p) /\ Source(p)' = Source(p) /\ Output(p)' = Output(p)
        /\ (Gunzip(p)' <=> Gunzip(p)) /\ (Compresses(p)' <=> Compresses(p))
    BY DEF Source, Output, File, ResolvePath, TrimSuffix, AddSuffix, Gunzip, Compresses
  <2>2. \A f : (Exists(f)' <=> Exists(f)) /\ (HasSuffix(p, f)' <=> HasSuffix(p, f))
    BY DEF Exists, HasSuffix
  <2>3. GzipTypes(p)' /\ Place(p)'
    BY <1>3, <2>1, <2>2 DEF GzipOf, GzipTypes, Place
  <2>4. SourceThere(p)' /\ OutputFree(p)' /\ OutputWhole(p)'
    BY <1>3, <2>1, <2>2 DEF GzipOf, SourceThere, OutputFree, OutputWhole
  <2>5. CutOff(p)' /\ DataKept'
    BY <1>3, <2>1, <2>2 DEF GzipOf, CutOff, DataKept
  <2>. QED BY <2>3, <2>4, <2>5 DEF GzipOf
<1>5. CASE Next
  <2>1. CASE Finished
    BY <1>4, <2>1 DEF Finished
  <2>2. ASSUME NEW q \in Proc, Step(q) PROVE GzipOf(p)'
    <3>1. q = p
      <4>1. pc[q] # "done"
        BY <2>2 DEF Step, Collect, StatSource, ReadSource, StatOutput, CreateOutput,
                    CreateFails, Write, Close, Cleanup, Unlink
      <4>2. \A r \in Proc \ {p} : pc[r] = "done"
        BY <1>3 DEF GzipOf, Place
      <4>. QED BY <4>1, <4>2
    <3>. QED BY <1>2, <1>3, <2>2, <3>1, CollectKeeps, StatSourceKeeps, ReadSourceKeeps,
                StatOutputKeeps, CreateKeeps, CreateFailsKeeps, WriteKeeps, CloseKeeps,
                CleanupKeeps, UnlinkKeeps DEF Step
  <2>. QED BY <1>5, <2>1, <2>2 DEF Next
<1>. QED BY <1>4, <1>5

LEMMA GzipInvariant == Spec => []GzipIInv
BY GzipInit, GzipNext, PTL DEF Spec

\* The command lines do not change.
LEMMA StillSafe == Spec /\ Safe => []Safe
<1>1. Safe /\ [Next]_vars => Safe'
  <2>. SUFFICES ASSUME Safe, [Next]_vars PROVE Safe'
    OBVIOUS
  <2>1. UNCHANGED setup
    BY DEF Next, Step, Finished, vars, fixed, Collect, StatSource, ReadSource, StatOutput,
           CreateOutput, CreateFails, Write, Close, Cleanup, Unlink
  <2>. QED
    BY <2>1 DEF Safe, OneCommand, WorksAlone, StatSeesOutput, NeverOverItsSource, cmd, MayFail
<1>. QED BY <1>1, PTL DEF Spec

\* One gzip, gzip -d or gunzip that is not gzip -d -f -S '' loses no datum, whatever
\* its other options, its files and the calls that fail, the Stat of the output alone
\* excepted (gzip.go:335-353, gunzip.go:231-248): at every moment each datum that was
\* not given up under -f is whole in some file.
THEOREM NothingLost ==
    Spec /\ OneCommand /\ StatSeesOutput /\ NeverOverItsSource => []DataKept
<1>1. GzipIInv /\ Safe => DataKept
  BY DEF GzipIInv, Safe, OneCommand, Only, GzipOf
<1>. QED BY <1>1, GzipInvariant, StillSafe, PTL DEF Safe

\* Under the same conditions it leaves nothing cut off behind but what could not be
\* removed (gzip.go:511-517, gunzip.go:342-348).
THEOREM NothingCutOff ==
    Spec /\ OneCommand /\ StatSeesOutput /\ NeverOverItsSource => []NoCorruptOutput
<1>1. GzipIInv /\ Safe => NoCorruptOutput
  <2>. SUFFICES ASSUME GzipIInv, NEW p \in Proc, Only(p), AllDone, NEW f \in Path \ stuck,
                       Exists(f), fs[f].of = Lost
                PROVE  FALSE
    BY DEF Safe, OneCommand, Only, NoCorruptOutput
  <2>1. CutOff(p)
    BY DEF GzipIInv, GzipOf
  <2>2. pc[p] = "done"
    BY DEF AllDone
  <2>. QED BY <2>1, <2>2 DEF CutOff
<1>. QED BY <1>1, GzipInvariant, StillSafe, PTL DEF Safe

\* Under the same conditions it removes a source only when the output holds all of the
\* payload (gzip.go:496-519, gunzip.go:327-350).
THEOREM WholeFirst ==
    Spec /\ OneCommand /\ StatSeesOutput /\ NeverOverItsSource => RemovedAfterReplaced
<1>1. GzipIInv /\ Safe /\ [Next]_vars =>
        [\A p \in Proc : pc[p] = "unlink" /\ pc'[p] # "unlink" =>
            fs[Output(p)] = data[p]]_vars
  <2>. SUFFICES ASSUME GzipIInv, NEW p \in Proc, Only(p), NEW q \in Proc, pc[q] = "unlink"
                PROVE  fs[Output(q)] = data[q]
    BY DEF Safe, OneCommand, Only
  <2>1. Place(p) /\ OutputWhole(p)
    BY DEF GzipIInv, GzipOf
  <2>2. q = p
    BY <2>1 DEF Place
  <2>. QED BY <2>1, <2>2 DEF OutputWhole
<1>. QED BY <1>1, GzipInvariant, StillSafe, PTL DEF Spec, Safe, RemovedAfterReplaced
=============================================================================
