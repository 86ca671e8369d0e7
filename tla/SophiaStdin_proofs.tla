------------------------- MODULE SophiaStdin_proofs -------------------------
(***************************************************************************)
(* Proof, for any input, any pipe capacities and any number of statements  *)
(* on a line, that a command's stdin pipe is in place while the pump       *)
(* writes to it and gone between statements (PipesInv), and that every     *)
(* typed byte goes to one place, in order, echoed once (BytesRouted).      *)
(*                                                                         *)
(* PipesInv needs the correspondence between the control states of the two *)
(* goroutines and the pipe (Control).  BytesRouted needs in addition that  *)
(* the bytes in the pump's hand come after all that were delivered before  *)
(* (HandLast), and whether they have been echoed already (HandEchoed).     *)
(***************************************************************************)
EXTENDS SophiaStdin, SequenceTheorems, WellFoundedInduction, TLAPS

-----------------------------------------------------------------------------
(* Numbers *)
\* A set of numbers that is not empty has a least one.
LEMMA LeastNatural ==
  ASSUME NEW T, T \subseteq Nat, T # {}
  PROVE  \E m \in T : \A k \in T : m <= k
  <1> DEFINE R == OpToRel(<, Nat)
  <1>1. \A x, y \in Nat : <<y, x>> \in R <=> y < x
    BY DEF OpToRel
  <1>2. IsWellFoundedOn(R, Nat)
    BY NatLessThanWellFounded
  <1> HIDE DEF R
  <1>3. PICK m \in T : \A k \in T : ~(<<k, m>> \in R)
    BY <1>2, WFMin
  <1>4. ASSUME NEW k \in T  PROVE m <= k
    <2>1. k \in Nat /\ m \in Nat
      OBVIOUS
    <2>2. ~(k < m)
      BY <1>1, <1>3, <2>1, Zenon
    <2> QED  BY <2>1, <2>2
  <1> QED  BY <1>4

\* runKefka has a pipe for a command; it has given it to the pump, unless that
\* has closed it already.
HasPipe == {"install", "activate", "run", "deactivate", "retire", "closeR"}
Offered == {"activate", "run", "deactivate", "retire"}

\* Which goroutine is where, and what that says of the mutex and the pipe.
Control ==
    /\ cmdMu = "pump" <=> pump \in {"write", "unlock"}
    /\ pump = "write" => cmdStdinW = "open"
    /\ cmdStdinW = "open" => main \in Offered
    /\ cmdR = "open" <=> main \in HasPipe
    /\ commandActive = IF main \in {"run", "deactivate"} THEN TRUE ELSE FALSE
    /\ main \in HasPipe => stmts > 0
    /\ cmdR = "closed" => cmdBuf = <<>>
    /\ pump \notin {"load", "prompt", "lock", "write"} => chunk = <<>>

PipesIInv == TypeOK /\ Control

\* Where the bytes are, by sets: A in the pump's hand, P and G on their way to
\* the shell and read by it, B and C the same for commands, D dropped, E echoed.
\* OnePlace is ByteConservation, element by element.
OnePlace(A, P, G, B, C, D, n) ==
    \A x : /\ x \in 1..n <=> \/ x \in A \/ x \in P \/ x \in G
                             \/ x \in B \/ x \in C \/ x \in D
           /\ x \in A => x \notin P /\ x \notin G /\ x \notin B /\ x \notin C /\ x \notin D
           /\ x \in P => x \notin G /\ x \notin B /\ x \notin C /\ x \notin D
           /\ x \in G => x \notin B /\ x \notin C /\ x \notin D
           /\ x \in B => x \notin C /\ x \notin D
           /\ x \in C => x \notin D

\* What the pump has in hand was typed after all that it has delivered.
HandLast(A, P, G, B, C) ==
    \A x, y : (x \in P \/ x \in G \/ x \in B \/ x \in C) /\ y \in A => x < y

\* The bytes for a command have been echoed when the pump waits for the mutex,
\* the bytes for the prompt are not echoed by the pump.
HandEchoed(at, A, P, G, B, C, E, n) ==
    \A x : /\ x \in B \/ x \in C => x \in E
           /\ x \in P \/ x \in G => x \notin E
           /\ x \in E => x \in 1..n
           /\ x \in A /\ at \in {"load", "prompt"} => x \notin E
           /\ x \in A /\ at \in {"lock", "write"} => x \in E

Sorted(hand, forShell, forCommand) ==
    Increasing(hand) /\ Increasing(forShell) /\ Increasing(forCommand)

\* The three parts, for the sequences of the model.
Routed ==
    /\ OnePlace(ToSet(chunk), ToSet(promptBuf), ToSet(shellGot), ToSet(cmdBuf),
                ToSet(cmdGot), discarded, pos)
    /\ HandLast(ToSet(chunk), ToSet(promptBuf), ToSet(shellGot), ToSet(cmdBuf),
                ToSet(cmdGot))
    /\ HandEchoed(pump, ToSet(chunk), ToSet(promptBuf), ToSet(shellGot),
                  ToSet(cmdBuf), ToSet(cmdGot), echoed, pos)
    /\ Sorted(chunk, shellGot \o promptBuf, cmdGot \o cmdBuf)

StdinIInv == PipesIInv /\ Routed

-----------------------------------------------------------------------------
(***************************************************************************)
(* Sequences of positions.                                                 *)
(***************************************************************************)
LEMMA ToSetOf ==
  ASSUME NEW S, NEW s \in Seq(S)
  PROVE  /\ ToSet(s) \subseteq S
         /\ \A x : x \in ToSet(s) <=> \E i \in 1..Len(s) : x = s[i]
  BY LenProperties, ElementOfSeq DEF ToSet

LEMMA ToSetEmpty == ToSet(<<>>) = {}
  BY DEF ToSet

LEMMA ToSetAppend ==
  ASSUME NEW S, NEW s \in Seq(S), NEW e \in S
  PROVE  ToSet(Append(s, e)) = ToSet(s) \cup {e}
  <1> DEFINE t == Append(s, e)
  <1>1. /\ t \in Seq(S) /\ Len(t) = Len(s) + 1 /\ t[Len(s) + 1] = e
        /\ \A i \in 1..Len(s) : t[i] = s[i]
    BY AppendProperties
  <1>2. \A x : x \in ToSet(t) <=> \E i \in 1..Len(t) : x = t[i]
    BY <1>1, ToSetOf
  <1>3. \A x : x \in ToSet(s) <=> \E i \in 1..Len(s) : x = s[i]
    BY ToSetOf
  <1>4. Len(s) \in Nat
    BY LenProperties
  <1> HIDE DEF t
  <1>5. \A x : x \in ToSet(t) <=> x \in ToSet(s) \/ x = e
    BY <1>1, <1>2, <1>3, <1>4
  <1> QED  BY <1>5 DEF t

LEMMA ToSetHeadTail ==
  ASSUME NEW S, NEW s \in Seq(S), s # <<>>
  PROVE  ToSet(s) = {Head(s)} \cup ToSet(Tail(s))
  <1> DEFINE t == Tail(s)
  <1>1. /\ t \in Seq(S) /\ Len(t) = Len(s) - 1 /\ Len(s) \in Nat \ {0}
        /\ \A i \in 1..Len(t) : t[i] = s[i + 1]
    BY HeadTailProperties, EmptySeq
  <1>2. \A x : x \in ToSet(t) <=> \E i \in 1..Len(t) : x = t[i]
    BY <1>1, ToSetOf
  <1>3. \A x : x \in ToSet(s) <=> \E i \in 1..Len(s) : x = s[i]
    BY ToSetOf
  <1>4. Head(s) = s[1]
    OBVIOUS
  <1> HIDE DEF t
  <1>5. ASSUME NEW i \in 1..Len(s), i # 1  PROVE s[i] \in ToSet(t)
    <2>1. i - 1 \in 1..Len(t) /\ t[i - 1] = s[i]
      BY <1>1, <1>5
    <2> QED  BY <2>1, <1>2
  <1>6. \A x : x \in ToSet(s) <=> x = Head(s) \/ x \in ToSet(t)
    BY <1>1, <1>2, <1>3, <1>4, <1>5
  <1> QED  BY <1>6 DEF t

LEMMA ToSetConcat ==
  ASSUME NEW S, NEW s \in Seq(S), NEW t \in Seq(S)
  PROVE  ToSet(s \o t) = ToSet(s) \cup ToSet(t)
  <1> DEFINE u == s \o t
  <1>1. /\ u \in Seq(S) /\ Len(u) = Len(s) + Len(t)
        /\ Len(s) \in Nat /\ Len(t) \in Nat
        /\ \A i \in 1..Len(s) + Len(t) : u[i] = IF i <= Len(s) THEN s[i] ELSE t[i - Len(s)]
    BY ConcatProperties, LenProperties
  <1>2. \A x : x \in ToSet(u) <=> \E i \in 1..Len(u) : x = u[i]
    BY <1>1, ToSetOf
  <1>3. \A x : x \in ToSet(s) <=> \E i \in 1..Len(s) : x = s[i]
    BY ToSetOf
  <1>4. \A x : x \in ToSet(t) <=> \E i \in 1..Len(t) : x = t[i]
    BY ToSetOf
  <1> HIDE DEF u
  <1>5. ASSUME NEW i \in 1..Len(u)  PROVE u[i] \in ToSet(s) \cup ToSet(t)
    <2>1. CASE i <= Len(s)
      BY <1>1, <1>3, <2>1
    <2>2. CASE i > Len(s)
      <3>1. i - Len(s) \in 1..Len(t) /\ u[i] = t[i - Len(s)]
        BY <1>1, <2>2
      <3> QED  BY <1>4, <3>1
    <2> QED  BY <1>1, <2>1, <2>2
  <1>6. ASSUME NEW x \in ToSet(s)  PROVE x \in ToSet(u)
    BY <1>1, <1>2, <1>3
  <1>7. ASSUME NEW i \in 1..Len(t)  PROVE t[i] \in ToSet(u)
    <2> DEFINE k == Len(s) + i
    <2>1. k \in 1..Len(s) + Len(t) /\ ~(k <= Len(s)) /\ k - Len(s) = i
      BY <1>1
    <2> HIDE DEF k
    <2>2. u[k] = t[k - Len(s)]
      BY <1>1, <2>1
    <2> QED  BY <1>1, <1>2, <2>1, <2>2
  <1> QED  BY <1>2, <1>4, <1>5, <1>6, <1>7 DEF u

\* A byte moves from the front of a pipe to the end of what was read from it.
LEMMA MoveHead ==
  ASSUME NEW S, NEW s \in Seq(S), NEW t \in Seq(S), t # <<>>
  PROVE  Append(s, Head(t)) \o Tail(t) = s \o t
  <1>1. /\ Head(t) \in S /\ Tail(t) \in Seq(S) /\ Len(Tail(t)) = Len(t) - 1
        /\ \A i \in 1..Len(Tail(t)) : Tail(t)[i] = t[i + 1]
        /\ Head(t) = t[1]
    BY HeadTailProperties
  <1> DEFINE a == Append(s, Head(t))  b == Tail(t)
  <1>2. /\ a \in Seq(S) /\ Len(a) = Len(s) + 1 /\ a[Len(s) + 1] = t[1]
        /\ \A i \in 1..Len(s) : a[i] = s[i]
    BY <1>1, AppendProperties
  <1>3. Len(s) \in Nat /\ Len(t) \in Nat \ {0}
    BY LenProperties, EmptySeq
  <1>4. /\ a \o b \in Seq(S) /\ Len(a \o b) = Len(a) + Len(b)
        /\ \A i \in 1..Len(a) + Len(b) :
              (a \o b)[i] = IF i <= Len(a) THEN a[i] ELSE b[i - Len(a)]
    BY <1>1, <1>2, ConcatProperties
  <1>5. /\ s \o t \in Seq(S) /\ Len(s \o t) = Len(s) + Len(t)
        /\ \A i \in 1..Len(s) + Len(t) :
              (s \o t)[i] = IF i <= Len(s) THEN s[i] ELSE t[i - Len(s)]
    BY ConcatProperties
  <1> HIDE DEF a, b
  <1>6. Len(a \o b) = Len(s \o t)
    BY <1>1, <1>2, <1>3, <1>4, <1>5 DEF b
  <1>7. ASSUME NEW i \in 1..Len(a \o b)  PROVE (a \o b)[i] = (s \o t)[i]
    <2>1. CASE i <= Len(s)
      BY <1>2, <1>3, <1>4, <1>5, <1>6, <2>1
    <2>2. CASE i = Len(s) + 1
      BY <1>2, <1>3, <1>4, <1>5, <1>6, <2>2
    <2>3. CASE i > Len(s) + 1
      <3>1. (a \o b)[i] = b[i - (Len(s) + 1)]
        BY <1>2, <1>3, <1>4, <2>3
      <3>2. i - (Len(s) + 1) \in 1..Len(b)
        BY <1>2, <1>3, <1>4, <2>3, <1>1 DEF b
      <3>3. b[i - (Len(s) + 1)] = t[i - Len(s)]
        BY <1>1, <1>3, <3>2 DEF b
      <3>4. (s \o t)[i] = t[i - Len(s)]
        BY <1>3, <1>5, <1>6, <2>3
      <3> QED  BY <3>1, <3>3, <3>4
    <2>4. i <= Len(s) \/ i = Len(s) + 1 \/ i > Len(s) + 1
      BY <1>3
    <2> QED  BY <2>1, <2>2, <2>3, <2>4
  <1>8. a \o b = s \o t
    BY <1>4, <1>5, <1>6, <1>7, SeqEqual
  <1> QED  BY <1>8 DEF a, b

LEMMA AppendRight ==
  ASSUME NEW S, NEW s \in Seq(S), NEW t \in Seq(S), NEW e \in S
  PROVE  s \o Append(t, e) = Append(s \o t, e)
  <1>1. <<e>> \in Seq(S)
    OBVIOUS
  <1>2. s \o t \in Seq(S)
    BY ConcatProperties
  <1> QED  BY <1>1, <1>2, ConcatAssociative, AppendIsConcat

\* A later byte may follow.
LEMMA IncreasingAppend ==
  ASSUME NEW s \in Seq(Int), NEW e \in Int, Increasing(s), \A x \in ToSet(s) : x < e
  PROVE  Increasing(Append(s, e))
  <1> DEFINE t == Append(s, e)
  <1>1. /\ t \in Seq(Int) /\ Len(t) = Len(s) + 1 /\ t[Len(s) + 1] = e
        /\ \A i \in 1..Len(s) : t[i] = s[i]
    BY AppendProperties
  <1>2. Len(s) \in Nat /\ DOMAIN s = 1..Len(s) /\ DOMAIN t = 1..Len(t)
    BY <1>1, LenProperties
  <1>3. \A i \in 1..Len(s) : s[i] < e
    BY ToSetOf
  <1> HIDE DEF t
  <1>4. ASSUME NEW i \in DOMAIN t, NEW j \in DOMAIN t, i < j  PROVE t[i] < t[j]
    <2>1. i \in 1..Len(s)
      BY <1>1, <1>2, <1>4
    <2>2. CASE j = Len(s) + 1
      BY <1>1, <1>2, <1>3, <2>1, <2>2
    <2>3. CASE j \in 1..Len(s)
      BY <1>1, <1>2, <1>4, <2>1, <2>3 DEF Increasing
    <2> QED  BY <1>1, <1>2, <2>2, <2>3
  <1> QED  BY <1>4 DEF t, Increasing

\* A stretch from the front of an increasing sequence.
LEMMA IncreasingPrefix ==
  ASSUME NEW s \in Seq(Int), NEW n \in 0..Len(s), Increasing(s)
  PROVE  /\ SubSeq(s, 1, n) \in Seq(Int) /\ Increasing(SubSeq(s, 1, n))
         /\ ToSet(SubSeq(s, 1, n)) \subseteq ToSet(s)
  <1> DEFINE t == SubSeq(s, 1, n)
  <1>1. Len(s) \in Nat /\ DOMAIN s = 1..Len(s) /\ \A i \in 1..Len(s) : s[i] \in Int
    BY LenProperties, ElementOfSeq
  <1>2. t \in Seq(Int) /\ Len(t) = n /\ \A i \in 1..n : t[i] = s[i]
    <2>1. n \in Int /\ \A i \in 1..n : s[i] \in Int
      BY <1>1
    <2>2. /\ t \in Seq(Int) /\ Len(t) = IF 1 <= n THEN n - 1 + 1 ELSE 0
          /\ \A i \in 1..n - 1 + 1 : t[i] = s[1 + i - 1]
      BY <2>1, SubSeqProperties
    <2> HIDE DEF t
    <2>3. Len(t) = n /\ n - 1 + 1 = n /\ \A i \in 1..n : 1 + i - 1 = i
      BY <1>1, <2>2
    <2> QED  BY <2>2, <2>3
  <1>3. DOMAIN t = 1..n
    BY <1>2, LenProperties
  <1> HIDE DEF t
  <1>4. Increasing(t)
    BY <1>1, <1>2, <1>3 DEF Increasing
  <1>5. ToSet(t) \subseteq ToSet(s)
    BY <1>1, <1>2, <1>3 DEF ToSet
  <1> QED  BY <1>2, <1>4, <1>5 DEF t

\* The first of two parts of an increasing sequence.
LEMMA IncreasingFirst ==
  ASSUME NEW s \in Seq(Int), NEW t \in Seq(Int), Increasing(s \o t)
  PROVE  Increasing(s)
  <1>1. Len(s) \in Nat /\ Len(t) \in Nat /\ DOMAIN s = 1..Len(s)
    BY LenProperties
  <1>2. s \o t \in Seq(Int) /\ Len(s \o t) = Len(s) + Len(t)
        /\ \A i \in 1..Len(s) + Len(t) :
              (s \o t)[i] = IF i <= Len(s) THEN s[i] ELSE t[i - Len(s)]
    BY ConcatProperties
  <1>3. DOMAIN (s \o t) = 1..Len(s) + Len(t)
    BY <1>2, LenProperties
  <1>4. ASSUME NEW i \in 1..Len(s)  PROVE i \in DOMAIN (s \o t) /\ (s \o t)[i] = s[i]
    BY <1>1, <1>2, <1>3
  <1> QED  BY <1>1, <1>4 DEF Increasing

\* The front of an increasing sequence comes before the rest.
LEMMA IncreasingTail ==
  ASSUME NEW s \in Seq(Int), s # <<>>, Increasing(s)
  PROVE  Increasing(Tail(s)) /\ \A y \in ToSet(Tail(s)) : Head(s) < y
  <1>1. /\ Tail(s) \in Seq(Int) /\ Len(Tail(s)) = Len(s) - 1 /\ Len(s) \in Nat \ {0}
        /\ \A i \in 1..Len(Tail(s)) : Tail(s)[i] = s[i + 1]
        /\ Head(s) = s[1]
    BY HeadTailProperties, EmptySeq
  <1>2. DOMAIN s = 1..Len(s) /\ DOMAIN Tail(s) = 1..Len(Tail(s))
    BY <1>1, LenProperties
  <1>3. Increasing(Tail(s))
    <2> SUFFICES ASSUME NEW i \in DOMAIN Tail(s), NEW j \in DOMAIN Tail(s), i < j
                 PROVE  Tail(s)[i] < Tail(s)[j]
      BY DEF Increasing
    <2>1. i + 1 \in DOMAIN s /\ j + 1 \in DOMAIN s /\ i + 1 < j + 1
      BY <1>1, <1>2
    <2> QED  BY <1>1, <1>2, <2>1 DEF Increasing
  <1>4. ASSUME NEW i \in 1..Len(Tail(s))  PROVE Head(s) < Tail(s)[i]
    <2>1. 1 \in DOMAIN s /\ i + 1 \in DOMAIN s /\ 1 < i + 1
      BY <1>1, <1>2
    <2> QED  BY <1>1, <2>1 DEF Increasing
  <1>5. \A y : y \in ToSet(Tail(s)) <=> \E i \in 1..Len(Tail(s)) : y = Tail(s)[i]
    BY <1>1, ToSetOf
  <1> QED  BY <1>3, <1>4, <1>5
\* Where the first Ctrl-D of a buffer is, if there is one.
LEMMA EotPlace ==
  ASSUME NEW c \in Seq(Positions)  PROVE BeforeEot(c) \in 0..Len(c)
  <1> DEFINE I == {i \in 1..Len(c) : Byte(c[i]) = "eot"}
  <1>1. BeforeEot(c) = IF I # {} THEN Min(I) ELSE 0
    BY DEF BeforeEot, SelectInSeq
  <1>2. Len(c) \in Nat /\ I \subseteq 1..Len(c)
    BY LenProperties
  <1> HIDE DEF I
  <1>3. ASSUME I # {}  PROVE Min(I) \in I
    <2>1. I \subseteq Nat
      BY <1>2
    <2>2. \E m \in I : \A k \in I : m <= k
      BY <1>3, <2>1, LeastNatural
    <2> QED  BY <2>2 DEF Min
  <1>4. CASE I = {}
    BY <1>1, <1>2, <1>4
  <1>5. CASE I # {}
    <2>1. BeforeEot(c) = Min(I)
      BY <1>1, <1>5, Zenon
    <2>2. BeforeEot(c) \in 1..Len(c)
      BY <1>2, <1>3, <1>5, <2>1, Zenon
    <2> QED  BY <1>2, <2>2
  <1> QED  BY <1>4, <1>5

\* What the pump keeps of a buffer, the bytes before the Ctrl-D.
Kept(c) == IF BeforeEot(c) = 0 THEN c ELSE SubSeq(c, 1, BeforeEot(c) - 1)

LEMMA KeptIsPrefix ==
  ASSUME NEW c \in Seq(Positions)
  PROVE  /\ Kept(c) \in Seq(Positions) /\ ToSet(Kept(c)) \subseteq ToSet(c)
         /\ Increasing(c) => Increasing(Kept(c))
  <1>1. BeforeEot(c) \in 0..Len(c) /\ Len(c) \in Nat
    BY EotPlace, LenProperties
  <1>2. CASE BeforeEot(c) = 0
    BY <1>2 DEF Kept
  <1>3. CASE BeforeEot(c) # 0
    <2>1. PICK n \in 0..Len(c) : n = BeforeEot(c) - 1
      BY <1>1, <1>3
    <2>2. Kept(c) = SubSeq(c, 1, n)
      BY <1>3, <2>1 DEF Kept
    <2>3. c \in Seq(Int)
      BY SeqMonotonic DEF Positions
    <2>4. \A i \in 1..n : c[i] \in Positions
      BY <1>1, <2>1, ElementOfSeq
    <2>5. SubSeq(c, 1, n) \in Seq(Positions)
      BY <2>4, SubSeqProperties
    <2>6. ToSet(SubSeq(c, 1, n)) \subseteq ToSet(c)
      <3>1. DOMAIN SubSeq(c, 1, n) = 1..n /\ \A i \in 1..n : SubSeq(c, 1, n)[i] = c[i]
        OBVIOUS
      <3>2. 1..n \subseteq DOMAIN c
        BY <1>1, LenProperties
      <3> QED  BY <3>1, <3>2 DEF ToSet
    <2> QED  BY <2>2, <2>3, <2>5, <2>6, IncreasingPrefix
  <1> QED  BY <1>2, <1>3

-----------------------------------------------------------------------------
(***************************************************************************)
(* The pipes.                                                              *)
(***************************************************************************)
\* The flags, apart: what the provers know of Booleans is of another kind.
Flags ==
    /\ online \in BOOLEAN /\ eof \in BOOLEAN /\ commandActive \in BOOLEAN
    /\ typed \in BOOLEAN /\ expired \in BOOLEAN

LEMMA InitPipes == Init => PipesIInv
  <1> SUFFICES ASSUME Init PROVE PipesIInv  OBVIOUS
  <1>1. Len(Input) \in Nat /\ MaxStmts \in Nat /\ CmdCap \in Nat /\ PromptCap \in Nat
    BY StdinAssumption
  <1>4. Flags
    BY DEF Init, Flags
  <1>2. TypeOK
    BY <1>1, <1>4, EmptySeq DEF Init, TypeOK, Flags
  <1>3. Control
    BY DEF Init, Control, HasPipe, Offered
  <1> QED  BY <1>2, <1>3 DEF PipesIInv

LEMMA FlagsStep ==
  ASSUME TypeOK, [Next]_vars  PROVE Flags'
  <1>1. Flags
    BY DEF TypeOK, Flags
  <1> USE <1>1 DEF Flags, pumpVars, mainVars, cmdPipe, promptPipe, fates
  <1>2. CASE UNCHANGED vars
    BY <1>2 DEF vars
  <1>3. CASE HangUp \/ DeadlinePasses
    BY <1>3 DEF HangUp, DeadlinePasses
  <1>4. CASE PumpRead \/ PumpReadFails \/ PumpLoadIdle
    BY <1>4 DEF PumpRead, PumpReadFails, PumpLoadIdle
  <1>5. CASE PumpLoadActive
    BY <1>5 DEF PumpLoadActive
  <1>6. CASE PumpPrompt \/ PumpPromptFails \/ PumpLock \/ PumpWrite
    BY <1>6 DEF PumpPrompt, PumpPromptFails, PumpLock, PumpWrite
  <1>7. CASE PumpCloseEOF \/ PumpUnlock \/ PumpExit \/ PumpClosePrompt
    BY <1>7 DEF PumpCloseEOF, PumpUnlock, PumpExit, PumpClosePrompt
  <1>8. CASE ReadLine
    BY <1>8 DEF ReadLine
  <1>9. CASE PromptEOF \/ LineDone \/ OpenPipe \/ Install \/ Activate
    BY <1>9 DEF PromptEOF, LineDone, OpenPipe, Install, Activate
  <1>10. CASE RunRefused \/ Deactivate \/ Retire \/ CloseR \/ Return
    BY <1>10 DEF RunRefused, Deactivate, Retire, CloseR, Return
  <1>11. CASE CommandStep
    BY <1>11 DEF CommandStep, CommandReads, CommandEnds
  <1> QED
    BY <1>2, <1>3, <1>4, <1>5, <1>6, <1>7, <1>8, <1>9, <1>10, <1>11
    DEF Next, PumpStep, MainStep, Finished

LEMMA PumpPipes ==
  ASSUME PipesIInv, PumpStep, Flags'  PROVE PipesIInv'
  <1> USE StdinAssumption DEF PipesIInv, TypeOK, Control, HasPipe, Offered, pumpVars,
        mainVars, cmdPipe, promptPipe, fates, Flags
  <1>1. CASE PumpRead
    <2> USE <1>1 DEF PumpRead
    <2>1. PICK n \in 1..MaxChunk : /\ pos + n <= Len(Input)
                                   /\ chunk' = [i \in 1..n |-> pos + i]
                                   /\ pos' = pos + n
      OBVIOUS
    <2>2. Len(Input) \in Nat
      OBVIOUS
    <2>3. chunk' \in Seq(Positions)
      BY <2>1, <2>2 DEF Positions
    <2>4. pos' \in 0..Len(Input)
      BY <2>1, <2>2
    <2> QED  BY <2>3, <2>4
  <1>2. CASE PumpReadFails
    BY <1>2 DEF PumpReadFails
  <1>3. CASE PumpLoadActive
    <2> USE <1>3 DEF PumpLoadActive
    <2>1. chunk' = Kept(chunk) /\ echoed' = echoed \cup ToSet(Kept(chunk))
          /\ discarded' = discarded \cup (ToSet(chunk) \ ToSet(Kept(chunk)))
      BY DEF Kept
    <2>2. Kept(chunk) \in Seq(Positions) /\ ToSet(Kept(chunk)) \subseteq ToSet(chunk)
      BY KeptIsPrefix
    <2>4. ToSet(chunk) \subseteq Positions
      BY ToSetOf
    <2>3. echoed' \subseteq Positions /\ discarded' \subseteq Positions
      BY <2>1, <2>2, <2>4
    <2> QED  BY <2>1, <2>2, <2>3
  <1>4. CASE PumpLoadIdle
    BY <1>4 DEF PumpLoadIdle
  <1>5. CASE PumpPrompt
    <2> USE <1>5 DEF PumpPrompt
    <2>1. CASE chunk = <<>>
      BY <2>1
    <2>2. CASE chunk # <<>>
      <3>1. Head(chunk) \in Positions /\ Tail(chunk) \in Seq(Positions)
        BY <2>2, HeadTailProperties
      <3>2. /\ Append(promptBuf, Head(chunk)) \in Seq(Positions)
            /\ Len(Append(promptBuf, Head(chunk))) = Len(promptBuf) + 1
        BY <3>1, AppendProperties
      <3>3. Len(promptBuf) \in Nat
        BY LenProperties
      <3>4. /\ Len(promptBuf) < PromptCap /\ promptBuf' = Append(promptBuf, Head(chunk))
            /\ chunk' = Tail(chunk) /\ pump' = pump
        BY <2>2
      <3>5. Len(promptBuf') <= PromptCap
        BY <3>2, <3>3, <3>4
      <3> QED  BY <2>2, <3>1, <3>2, <3>4, <3>5
    <2> QED  BY <2>1, <2>2
  <1>6. CASE PumpPromptFails
    BY <1>6, ToSetOf DEF PumpPromptFails
  <1>7. CASE PumpLock
    <2> USE <1>7 DEF PumpLock
    <2>1. ToSet(chunk) \subseteq Positions /\ <<>> \in Seq(Positions)
      BY ToSetOf, EmptySeq
    <2>2. CASE cmdStdinW = "nil"
      BY <2>1, <2>2
    <2>3. CASE cmdStdinW = "open"
      BY <2>3
    <2> QED  BY <2>2, <2>3
  <1>8. CASE PumpWrite
    <2> USE <1>8 DEF PumpWrite
    <2>1. /\ chunk' \in Seq(Positions) /\ cmdBuf' \in Seq(Positions)
          /\ Len(cmdBuf') <= CmdCap
      BY HeadTailProperties, AppendProperties
    <2> QED  BY <2>1
  <1>9. CASE PumpCloseEOF
    BY <1>9 DEF PumpCloseEOF
  <1>10. CASE PumpUnlock
    BY <1>10 DEF PumpUnlock
  <1>11. CASE PumpExit
    BY <1>11 DEF PumpExit
  <1>12. CASE PumpClosePrompt
    BY <1>12 DEF PumpClosePrompt
  <1> QED
    BY <1>1, <1>2, <1>3, <1>4, <1>5, <1>6, <1>7, <1>8, <1>9, <1>10, <1>11, <1>12
    DEF PumpStep

\* A line has a number of statements within the bound.
LEMMA StatementsOfLine ==
  ASSUME ReadLine  PROVE stmts' \in 0..MaxStmts
  <1>1. stmts' = 0 \/ stmts' \in 0..MaxStmts
    BY Zenon DEF ReadLine
  <1>2. 0 \in 0..MaxStmts
    BY StdinAssumption
  <1> QED  BY <1>1, <1>2, Zenon

LEMMA MainPipes ==
  ASSUME PipesIInv, MainStep, Flags'  PROVE PipesIInv'
  <1> USE StdinAssumption DEF PipesIInv, TypeOK, Control, HasPipe, Offered, pumpVars,
        mainVars, cmdPipe, promptPipe, fates, Flags
  <1>1. CASE ReadLine
    <2> USE <1>1 DEF ReadLine
    <2>1. /\ promptBuf' \in Seq(Positions) /\ Len(promptBuf') <= PromptCap
          /\ shellGot' \in Seq(Positions)
      BY HeadTailProperties, AppendProperties, EmptySeq
    <2>2. main' \in {"return", "stmt", "prompt"}
      BY Zenon
    <2>3. stmts' \in 0..MaxStmts
      BY StatementsOfLine
    <2> QED  BY <2>1, <2>2, <2>3
  <1>2. CASE PromptEOF
    BY <1>2 DEF PromptEOF
  <1>3. CASE LineDone
    BY <1>3 DEF LineDone
  <1>4. CASE OpenPipe
    <2> USE <1>4 DEF OpenPipe
    <2>1. CASE stmts' = stmts
      BY <2>1, EmptySeq
    <2>2. CASE stmts' = stmts - 1
      BY <2>2, EmptySeq
    <2> QED  BY <2>1, <2>2
  <1>5. CASE Install
    BY <1>5 DEF Install
  <1>6. CASE Activate
    BY <1>6 DEF Activate
  <1>7. CASE RunRefused
    BY <1>7 DEF RunRefused
  <1>8. CASE Deactivate
    BY <1>8 DEF Deactivate
  <1>9. CASE Retire
    BY <1>9 DEF Retire
  <1>10. CASE CloseR
    BY <1>10, EmptySeq, ToSetOf DEF CloseR
  <1>11. CASE Return
    BY <1>11, EmptySeq, ToSetOf DEF Return
  <1> QED
    BY <1>1, <1>2, <1>3, <1>4, <1>5, <1>6, <1>7, <1>8, <1>9, <1>10, <1>11 DEF MainStep

LEMMA NextPipes == PipesIInv /\ [Next]_vars => PipesIInv'
  <1> SUFFICES ASSUME PipesIInv, [Next]_vars PROVE PipesIInv'  OBVIOUS
  <1>8. Flags'
    BY FlagsStep DEF PipesIInv
  <1> USE <1>8, StdinAssumption DEF PipesIInv, TypeOK, Control, HasPipe, Offered, pumpVars,
        mainVars, cmdPipe, promptPipe, fates, Flags
  <1>1. CASE UNCHANGED vars
    BY <1>1 DEF vars
  <1>2. CASE HangUp
    BY <1>2 DEF HangUp
  <1>3. CASE DeadlinePasses
    BY <1>3 DEF DeadlinePasses
  <1>4. CASE PumpStep
    BY <1>4, PumpPipes
  <1>5. CASE MainStep
    BY <1>5, MainPipes
  <1>6. CASE CommandReads
    <2>1. /\ cmdBuf' \in Seq(Positions) /\ Len(cmdBuf') <= CmdCap
          /\ cmdGot' \in Seq(Positions)
      BY <1>6, HeadTailProperties, AppendProperties, EmptySeq DEF CommandReads
    <2> QED  BY <1>6, <2>1 DEF CommandReads
  <1>7. CASE CommandEnds
    BY <1>7 DEF CommandEnds
  <1> QED
    BY <1>1, <1>2, <1>3, <1>4, <1>5, <1>6, <1>7 DEF Next, CommandStep, Finished

(***************************************************************************)
(* For any input and any interleaving of the pump, runKefka and the        *)
(* commands: while the pump writes to a command's stdin both ends of that  *)
(* pipe stay open, and between statements no pipe is left and the pump     *)
(* does not route to commands (cmd/sophia/main.go:343-353, 439-447).       *)
(***************************************************************************)
THEOREM PipesSafe == Spec => []PipesInv
  <1>1. PipesIInv => PipesInv
    BY DEF PipesIInv, PipesInv, Control, WriteEndStable, PipesRetired, HasPipe, Offered,
       TypeOK
  <1> QED  BY <1>1, InitPipes, NextPipes, PTL DEF Spec
-----------------------------------------------------------------------------
(***************************************************************************)
(* The bytes.                                                              *)
(***************************************************************************)
LEMMA IncreasingSecond ==
  ASSUME NEW s \in Seq(Int), NEW t \in Seq(Int), Increasing(s \o t)
  PROVE  Increasing(t)
  <1>1. Len(s) \in Nat /\ Len(t) \in Nat /\ DOMAIN t = 1..Len(t)
    BY LenProperties
  <1>2. s \o t \in Seq(Int) /\ Len(s \o t) = Len(s) + Len(t)
        /\ \A i \in 1..Len(s) + Len(t) :
              (s \o t)[i] = IF i <= Len(s) THEN s[i] ELSE t[i - Len(s)]
    BY ConcatProperties
  <1>3. DOMAIN (s \o t) = 1..Len(s) + Len(t)
    BY <1>2, LenProperties
  <1>4. ASSUME NEW i \in 1..Len(t)
        PROVE  Len(s) + i \in DOMAIN (s \o t) /\ (s \o t)[Len(s) + i] = t[i]
    <2> DEFINE k == Len(s) + i
    <2>1. k \in 1..Len(s) + Len(t) /\ ~(k <= Len(s)) /\ k - Len(s) = i
      BY <1>1
    <2> HIDE DEF k
    <2>2. (s \o t)[k] = t[k - Len(s)]
      BY <1>2, <2>1
    <2>3. k \in DOMAIN (s \o t) /\ (s \o t)[k] = t[i]
      BY <1>3, <2>1, <2>2
    <2> QED  BY <2>3 DEF k
  <1>5. ASSUME NEW i \in 1..Len(t), NEW j \in 1..Len(t), i < j  PROVE t[i] < t[j]
    <2>1. Len(s) + i < Len(s) + j
      BY <1>1, <1>5
    <2> QED  BY <1>4, <2>1 DEF Increasing
  <1> QED  BY <1>1, <1>5 DEF Increasing

LEMMA Conserved ==
  ByteConservation <=>
    OnePlace(ToSet(chunk), ToSet(promptBuf), ToSet(shellGot), ToSet(cmdBuf),
             ToSet(cmdGot), discarded, pos)
  <1> DEFINE A == ToSet(chunk)  P == ToSet(promptBuf)  G == ToSet(shellGot)
             B == ToSet(cmdBuf)  C == ToSet(cmdGot)
  <1>1. Places = <<A, P, G, B, C, discarded>>
    BY DEF Places, InHand
  <1> HIDE DEF A, P, G, B, C
  <1>2. DOMAIN Places = 1..6 /\ Places[1] = A /\ Places[2] = P /\ Places[3] = G
        /\ Places[4] = B /\ Places[5] = C /\ Places[6] = discarded
    BY <1>1
  <1>3. \A i : i \in 1..6 <=> i = 1 \/ i = 2 \/ i = 3 \/ i = 4 \/ i = 5 \/ i = 6
    OBVIOUS
  <1>4. ToSet(Places) = {A, P, G, B, C, discarded}
    <2>1. \A x : x \in ToSet(Places) <=> \E i \in DOMAIN Places : x = Places[i]
      BY DEF ToSet
    <2>2. \A x : x \in ToSet(Places) <=> x = A \/ x = P \/ x = G \/ x = B \/ x = C \/ x = discarded
      BY <1>2, <1>3, <2>1
    <2> QED  BY <2>2
  <1>5. UNION ToSet(Places) = A \cup P \cup G \cup B \cup C \cup discarded
    BY <1>4
  <1>6. (\A i, j \in DOMAIN Places : i # j => Places[i] \cap Places[j] = {}) <=>
          /\ A \cap P = {} /\ A \cap G = {} /\ A \cap B = {} /\ A \cap C = {}
          /\ A \cap discarded = {} /\ P \cap G = {} /\ P \cap B = {} /\ P \cap C = {}
          /\ P \cap discarded = {} /\ G \cap B = {} /\ G \cap C = {}
          /\ G \cap discarded = {} /\ B \cap C = {} /\ B \cap discarded = {}
          /\ C \cap discarded = {}
    BY <1>2, <1>3
  <1>7. ByteConservation <=> OnePlace(A, P, G, B, C, discarded, pos)
    BY <1>5, <1>6 DEF ByteConservation, OnePlace
  <1> QED  BY <1>7 DEF A, P, G, B, C
\* The sequences, and what a byte that moves does to them.
LEMMA MovedBytes ==
  ASSUME NEW s \in Seq(Positions), s # <<>>, Increasing(s)
  PROVE  /\ Head(s) \in Positions /\ Tail(s) \in Seq(Positions)
         /\ \A x : x \in ToSet(s) <=> x = Head(s) \/ x \in ToSet(Tail(s))
         /\ Head(s) \notin ToSet(Tail(s))
         /\ Increasing(Tail(s)) /\ \A y \in ToSet(Tail(s)) : Head(s) < y
  <1>1. Positions \subseteq Int
    BY StdinAssumption DEF Positions
  <1>2. s \in Seq(Int)
    BY <1>1, SeqMonotonic
  <1>3. Head(s) \in Positions /\ Tail(s) \in Seq(Positions)
    BY HeadTailProperties
  <1>4. ToSet(s) = {Head(s)} \cup ToSet(Tail(s))
    BY ToSetHeadTail
  <1>5. Increasing(Tail(s)) /\ \A y \in ToSet(Tail(s)) : Head(s) < y
    BY <1>2, IncreasingTail
  <1>6. Head(s) \notin ToSet(Tail(s))
    <2>1. Head(s) \in Int
      BY <1>1, <1>3, Zenon
    <2>2. \A h \in Int : ~(h < h)
      OBVIOUS
    <2> QED  BY <1>5, <2>1, <2>2, Zenon
  <1> QED  BY <1>3, <1>4, <1>5, <1>6

\* A byte is written to a pipe that holds t, of which s has been read.
LEMMA WrittenByte ==
  ASSUME NEW s \in Seq(Positions), NEW t \in Seq(Positions), NEW e \in Positions,
         Increasing(s \o t), \A x : x \in ToSet(s) \/ x \in ToSet(t) => x < e
  PROVE  /\ Append(t, e) \in Seq(Positions)
         /\ \A x : x \in ToSet(Append(t, e)) <=> x \in ToSet(t) \/ x = e
         /\ Increasing(s \o Append(t, e))
  <1>1. s \o t \in Seq(Positions) /\ s \o t \in Seq(Int) /\ e \in Int
    BY StdinAssumption, ConcatProperties, SeqMonotonic DEF Positions
  <1>2. \A x \in ToSet(s \o t) : x < e
    BY ToSetConcat
  <1>3. Increasing(Append(s \o t, e))
    BY <1>1, <1>2, IncreasingAppend
  <1>4. s \o Append(t, e) = Append(s \o t, e)
    BY AppendRight
  <1>5. Append(t, e) \in Seq(Positions)
    BY AppendProperties
  <1>6. ToSet(Append(t, e)) = ToSet(t) \cup {e}
    BY ToSetAppend
  <1> QED  BY <1>3, <1>4, <1>5, <1>6

\* A byte is read from that pipe.
LEMMA ReadByte ==
  ASSUME NEW s \in Seq(Positions), NEW t \in Seq(Positions), t # <<>>, Increasing(s \o t)
  PROVE  /\ \A x : x \in ToSet(t) <=> x = Head(t) \/ x \in ToSet(Tail(t))
         /\ Head(t) \notin ToSet(Tail(t))
         /\ \A x : x \in ToSet(Append(s, Head(t))) <=> x \in ToSet(s) \/ x = Head(t)
         /\ Increasing(Append(s, Head(t)) \o Tail(t))
  <1>1. s \in Seq(Int) /\ t \in Seq(Int)
    BY StdinAssumption, SeqMonotonic DEF Positions
  <1>2. Increasing(t)
    BY <1>1, IncreasingSecond
  <1>3. Append(s, Head(t)) \o Tail(t) = s \o t
    BY MoveHead
  <1>4. Head(t) \in Positions
    BY HeadTailProperties
  <1>5. ToSet(Append(s, Head(t))) = ToSet(s) \cup {Head(t)}
    BY <1>4, ToSetAppend
  <1> QED  BY <1>2, <1>3, <1>5, MovedBytes

\* The pipe is closed with t still in it.
LEMMA ClosedPipe ==
  ASSUME NEW s \in Seq(Positions), NEW t \in Seq(Positions), Increasing(s \o t)
  PROVE  Increasing(s \o <<>>)
  <1>1. s \in Seq(Int) /\ t \in Seq(Int)
    BY StdinAssumption, SeqMonotonic DEF Positions
  <1> QED  BY <1>1, IncreasingFirst, ConcatEmptySeq
LEMMA InitRouted == Init => Routed
  <1> SUFFICES ASSUME Init PROVE Routed  OBVIOUS
  <1>1. <<>> \o <<>> = <<>> /\ Increasing(<<>>)
    BY DEF Increasing
  <1>2. 1..0 = {}
    OBVIOUS
  <1> QED
    BY <1>1, <1>2, ToSetEmpty DEF Init, Routed, OnePlace, HandLast, HandEchoed, Sorted

\* A step that leaves the bytes where they are.
Still == UNCHANGED <<pos, chunk, cmdBuf, promptBuf, fates>>

LEMMA StillRouted ==
  ASSUME Routed, Still,
         pump' = pump \/ chunk = <<>> \/ (pump = "load" /\ pump' = "prompt")
                      \/ (pump = "lock" /\ pump' = "write")
  PROVE  Routed'
  <1> USE DEF Still, fates
  <1>1. /\ ToSet(chunk') = ToSet(chunk) /\ ToSet(promptBuf') = ToSet(promptBuf)
        /\ ToSet(shellGot') = ToSet(shellGot) /\ ToSet(cmdBuf') = ToSet(cmdBuf)
        /\ ToSet(cmdGot') = ToSet(cmdGot) /\ discarded' = discarded /\ pos' = pos
        /\ echoed' = echoed
    OBVIOUS
  <1>2. chunk = <<>> => ToSet(chunk) = {}
    BY ToSetEmpty
  <1>3. Sorted(chunk, shellGot \o promptBuf, cmdGot \o cmdBuf)'
    BY DEF Routed, Sorted
  <1> QED  BY <1>1, <1>2, <1>3 DEF Routed, OnePlace, HandLast, HandEchoed

LEMMA PumpRouted ==
  ASSUME StdinIInv, PumpStep  PROVE Routed'
  <1> USE DEF pumpVars, mainVars, cmdPipe, promptPipe, fates
  <1>0. /\ TypeOK /\ Control /\ Routed
        /\ chunk \in Seq(Positions) /\ promptBuf \in Seq(Positions)
        /\ cmdBuf \in Seq(Positions) /\ shellGot \in Seq(Positions)
        /\ cmdGot \in Seq(Positions)
    BY DEF StdinIInv, PipesIInv, TypeOK
  <1>00. Increasing(chunk) /\ Increasing(shellGot \o promptBuf) /\ Increasing(cmdGot \o cmdBuf)
    BY <1>0 DEF Routed, Sorted
  <1>1. CASE PumpRead
    <2>1. PICK n \in 1..MaxChunk : /\ pos + n <= Len(Input)
                                   /\ chunk' = [i \in 1..n |-> pos + i]
                                   /\ pos' = pos + n
      BY <1>1 DEF PumpRead
    <2>2. pos \in Nat /\ n \in Nat
      BY <1>0, <2>1, StdinAssumption DEF TypeOK
    <2>3. ToSet(chunk) = {}
      BY <1>0, <1>1, ToSetEmpty DEF Control, PumpRead
    <2>4. \A x : x \in ToSet(chunk') <=> x \in Int /\ pos < x /\ x <= pos + n
      <3>1. \A x : x \in ToSet(chunk') <=> \E i \in 1..n : x = pos + i
        BY <2>1 DEF ToSet
      <3>2. ASSUME NEW x \in Int, pos < x, x <= pos + n  PROVE \E i \in 1..n : x = pos + i
        <4>1. x - pos \in 1..n /\ x = pos + (x - pos)
          BY <2>2, <3>2
        <4> QED  BY <4>1
      <3> QED  BY <2>2, <3>1, <3>2
    <2>5. Increasing(chunk')
      BY <2>1, <2>2 DEF Increasing
    <2>6. /\ UNCHANGED <<promptBuf, cmdBuf, shellGot, cmdGot, echoed, discarded>>
          /\ pump' = "load"
      BY <1>1 DEF PumpRead
    <2>7. Sorted(chunk, shellGot \o promptBuf, cmdGot \o cmdBuf)'
      BY <1>00, <2>5, <2>6 DEF Sorted
    <2>8. \A x : x \in 1..pos + n <=> x \in 1..pos \/ (x \in Int /\ pos < x /\ x <= pos + n)
      BY <2>2
    <2>9. \A x, y : x \in 1..pos /\ (y \in Int /\ pos < y /\ y <= pos + n) => x < y
      BY <2>2
    <2>10. \A x : x \in ToSet(chunk') => x \notin 1..pos
      BY <2>2, <2>4
    <2> QED
      BY <1>0, <2>1, <2>3, <2>4, <2>6, <2>7, <2>8, <2>9, <2>10
      DEF Routed, OnePlace, HandLast, HandEchoed
  <1>2. CASE PumpReadFails
    BY <1>0, <1>2, StillRouted DEF PumpReadFails, Still, Control
  <1>3. CASE PumpLoadActive
    <2>1. /\ chunk' = Kept(chunk) /\ echoed' = echoed \cup ToSet(Kept(chunk))
          /\ discarded' = discarded \cup (ToSet(chunk) \ ToSet(Kept(chunk)))
          /\ UNCHANGED <<pos, promptBuf, cmdBuf, shellGot, cmdGot>>
          /\ pump = "load" /\ pump' = "lock"
      BY <1>3 DEF PumpLoadActive, Kept
    <2>2. ToSet(Kept(chunk)) \subseteq ToSet(chunk) /\ Increasing(Kept(chunk))
      BY <1>0, <1>00, KeptIsPrefix
    <2>3. Sorted(chunk, shellGot \o promptBuf, cmdGot \o cmdBuf)'
      BY <1>00, <2>1, <2>2 DEF Sorted
    <2> QED
      BY <1>0, <2>1, <2>2, <2>3 DEF Routed, OnePlace, HandLast, HandEchoed
  <1>4. CASE PumpLoadIdle
    BY <1>0, <1>4, StillRouted DEF PumpLoadIdle, Still
  <1>5. CASE PumpPrompt
    <2>1. CASE chunk = <<>>
      BY <1>0, <1>5, <2>1, StillRouted DEF PumpPrompt, Still
    <2>2. CASE chunk # <<>>
      <3>1. /\ promptBuf' = Append(promptBuf, Head(chunk)) /\ chunk' = Tail(chunk)
            /\ UNCHANGED <<pos, pump, cmdBuf, shellGot, cmdGot, echoed, discarded>>
            /\ pump = "prompt"
        BY <1>5, <2>2 DEF PumpPrompt
      <3>2. /\ Head(chunk) \in Positions /\ Head(chunk) \notin ToSet(Tail(chunk))
            /\ \A x : x \in ToSet(chunk) <=> x = Head(chunk) \/ x \in ToSet(Tail(chunk))
            /\ Increasing(Tail(chunk)) /\ \A y \in ToSet(Tail(chunk)) : Head(chunk) < y
        BY <1>0, <1>00, <2>2, MovedBytes
      <3>3. \A x : x \in ToSet(shellGot) \/ x \in ToSet(promptBuf) => x < Head(chunk)
        BY <1>0, <3>2 DEF Routed, HandLast
      <3>4. /\ \A x : x \in ToSet(promptBuf') <=> x \in ToSet(promptBuf) \/ x = Head(chunk)
            /\ Increasing(shellGot \o Append(promptBuf, Head(chunk)))
        BY <1>0, <1>00, <3>1, <3>2, <3>3, WrittenByte
      <3>5. Sorted(chunk, shellGot \o promptBuf, cmdGot \o cmdBuf)'
        BY <1>00, <3>1, <3>2, <3>4 DEF Sorted
      <3> QED
        BY <1>0, <3>1, <3>2, <3>4, <3>5 DEF Routed, OnePlace, HandLast, HandEchoed
    <2> QED  BY <2>1, <2>2
  <1>6. CASE PumpPromptFails
    <2>1. /\ chunk' = <<>> /\ discarded' = discarded \cup ToSet(chunk)
          /\ UNCHANGED <<pos, promptBuf, cmdBuf, shellGot, cmdGot, echoed>>
      BY <1>6 DEF PumpPromptFails
    <2>2. Increasing(<<>>)
      BY DEF Increasing
    <2>3. Sorted(chunk, shellGot \o promptBuf, cmdGot \o cmdBuf)'
      BY <1>00, <2>1, <2>2 DEF Sorted
    <2> QED
      BY <1>0, <2>1, <2>3, ToSetEmpty DEF Routed, OnePlace, HandLast, HandEchoed
  <1>7. CASE PumpLock
    <2>1. CASE cmdStdinW = "nil"
      <3>1. /\ chunk' = <<>> /\ discarded' = discarded \cup ToSet(chunk)
            /\ UNCHANGED <<pos, promptBuf, cmdBuf, shellGot, cmdGot, echoed>>
        BY <1>7, <2>1 DEF PumpLock
      <3>2. Increasing(<<>>)
        BY DEF Increasing
      <3>3. Sorted(chunk, shellGot \o promptBuf, cmdGot \o cmdBuf)'
        BY <1>00, <3>1, <3>2 DEF Sorted
      <3> QED
        BY <1>0, <3>1, <3>3, ToSetEmpty DEF Routed, OnePlace, HandLast, HandEchoed
    <2>2. CASE cmdStdinW # "nil"
      BY <1>0, <1>7, <2>2, StillRouted DEF PumpLock, Still
    <2> QED  BY <2>1, <2>2
  <1>8. CASE PumpWrite
    <2>1. /\ cmdBuf' = Append(cmdBuf, Head(chunk)) /\ chunk' = Tail(chunk)
          /\ UNCHANGED <<pos, pump, promptBuf, shellGot, cmdGot, echoed, discarded>>
          /\ pump = "write" /\ chunk # <<>>
      BY <1>8 DEF PumpWrite
    <2>2. /\ Head(chunk) \in Positions /\ Head(chunk) \notin ToSet(Tail(chunk))
          /\ \A x : x \in ToSet(chunk) <=> x = Head(chunk) \/ x \in ToSet(Tail(chunk))
          /\ Increasing(Tail(chunk)) /\ \A y \in ToSet(Tail(chunk)) : Head(chunk) < y
      BY <1>0, <1>00, <2>1, MovedBytes
    <2>3. \A x : x \in ToSet(cmdGot) \/ x \in ToSet(cmdBuf) => x < Head(chunk)
      BY <1>0, <2>2 DEF Routed, HandLast
    <2>4. /\ \A x : x \in ToSet(cmdBuf') <=> x \in ToSet(cmdBuf) \/ x = Head(chunk)
          /\ Increasing(cmdGot \o Append(cmdBuf, Head(chunk)))
      BY <1>0, <1>00, <2>1, <2>2, <2>3, WrittenByte
    <2>5. Sorted(chunk, shellGot \o promptBuf, cmdGot \o cmdBuf)'
      BY <1>00, <2>1, <2>2, <2>4 DEF Sorted
    <2> QED
      BY <1>0, <2>1, <2>2, <2>4, <2>5 DEF Routed, OnePlace, HandLast, HandEchoed
  <1>9. CASE PumpCloseEOF
    BY <1>0, <1>9, StillRouted DEF PumpCloseEOF, Still
  <1>10. CASE PumpUnlock
    BY <1>0, <1>10, StillRouted DEF PumpUnlock, Still, Control
  <1>11. CASE PumpExit
    BY <1>0, <1>11, StillRouted DEF PumpExit, Still, Control
  <1>12. CASE PumpClosePrompt
    BY <1>0, <1>12, StillRouted DEF PumpClosePrompt, Still, Control
  <1> QED
    BY <1>1, <1>2, <1>3, <1>4, <1>5, <1>6, <1>7, <1>8, <1>9, <1>10, <1>11, <1>12
    DEF PumpStep
LEMMA MainRouted ==
  ASSUME StdinIInv, MainStep \/ CommandStep  PROVE Routed'
  <1> USE DEF pumpVars, mainVars, cmdPipe, promptPipe, fates
  <1>0. /\ TypeOK /\ Control /\ Routed
        /\ promptBuf \in Seq(Positions) /\ cmdBuf \in Seq(Positions)
        /\ shellGot \in Seq(Positions) /\ cmdGot \in Seq(Positions)
    BY DEF StdinIInv, PipesIInv, TypeOK
  <1>00. Increasing(chunk) /\ Increasing(shellGot \o promptBuf) /\ Increasing(cmdGot \o cmdBuf)
    BY <1>0 DEF Routed, Sorted
  <1>1. CASE ReadLine
    <2>1. /\ promptBuf # <<>> /\ promptBuf' = Tail(promptBuf)
          /\ shellGot' = Append(shellGot, Head(promptBuf))
          /\ UNCHANGED <<pos, pump, chunk, cmdBuf, cmdGot, echoed, discarded>>
      BY <1>1 DEF ReadLine
    <2>2. /\ \A x : x \in ToSet(promptBuf) <=> x = Head(promptBuf) \/ x \in ToSet(promptBuf')
          /\ Head(promptBuf) \notin ToSet(promptBuf')
          /\ \A x : x \in ToSet(shellGot') <=> x \in ToSet(shellGot) \/ x = Head(promptBuf)
          /\ Increasing(Append(shellGot, Head(promptBuf)) \o Tail(promptBuf))
      BY <1>0, <1>00, <2>1, ReadByte
    <2>3. Sorted(chunk, shellGot \o promptBuf, cmdGot \o cmdBuf)'
      BY <1>00, <2>1, <2>2 DEF Sorted
    <2> QED
      BY <1>0, <2>1, <2>2, <2>3 DEF Routed, OnePlace, HandLast, HandEchoed
  <1>2. CASE CommandReads
    <2>1. /\ cmdBuf # <<>> /\ cmdBuf' = Tail(cmdBuf)
          /\ cmdGot' = Append(cmdGot, Head(cmdBuf))
          /\ UNCHANGED <<pos, pump, chunk, promptBuf, shellGot, echoed, discarded>>
      BY <1>2 DEF CommandReads
    <2>2. /\ \A x : x \in ToSet(cmdBuf) <=> x = Head(cmdBuf) \/ x \in ToSet(cmdBuf')
          /\ Head(cmdBuf) \notin ToSet(cmdBuf')
          /\ \A x : x \in ToSet(cmdGot') <=> x \in ToSet(cmdGot) \/ x = Head(cmdBuf)
          /\ Increasing(Append(cmdGot, Head(cmdBuf)) \o Tail(cmdBuf))
      BY <1>0, <1>00, <2>1, ReadByte
    <2>3. Sorted(chunk, shellGot \o promptBuf, cmdGot \o cmdBuf)'
      BY <1>00, <2>1, <2>2 DEF Sorted
    <2> QED
      BY <1>0, <2>1, <2>2, <2>3 DEF Routed, OnePlace, HandLast, HandEchoed
  <1>3. CASE CloseR
    <2>1. /\ cmdBuf' = <<>> /\ discarded' = discarded \cup ToSet(cmdBuf)
          /\ UNCHANGED <<pos, pump, chunk, promptBuf, shellGot, cmdGot, echoed>>
      BY <1>3 DEF CloseR
    <2>2. Increasing(cmdGot \o <<>>)
      BY <1>0, <1>00, ClosedPipe
    <2>3. Sorted(chunk, shellGot \o promptBuf, cmdGot \o cmdBuf)'
      BY <1>00, <2>1, <2>2 DEF Sorted
    <2> QED
      BY <1>0, <2>1, <2>3, ToSetEmpty DEF Routed, OnePlace, HandLast, HandEchoed
  <1>4. CASE Return
    <2>1. /\ promptBuf' = <<>> /\ discarded' = discarded \cup ToSet(promptBuf)
          /\ UNCHANGED <<pos, pump, chunk, cmdBuf, shellGot, cmdGot, echoed>>
      BY <1>4 DEF Return
    <2>2. Increasing(shellGot \o <<>>)
      BY <1>0, <1>00, ClosedPipe
    <2>3. Sorted(chunk, shellGot \o promptBuf, cmdGot \o cmdBuf)'
      BY <1>00, <2>1, <2>2 DEF Sorted
    <2> QED
      BY <1>0, <2>1, <2>3, ToSetEmpty DEF Routed, OnePlace, HandLast, HandEchoed
  <1>5. CASE OpenPipe
    <2>1. cmdBuf = <<>>
      BY <1>0, <1>5 DEF OpenPipe, Control, HasPipe, TypeOK
    <2> QED  BY <1>0, <1>5, <2>1, StillRouted DEF OpenPipe, Still
  <1>6. CASE PromptEOF \/ LineDone \/ Install \/ Activate
    BY <1>0, <1>6, StillRouted DEF PromptEOF, LineDone, Install, Activate, Still
  <1>7. CASE RunRefused \/ Deactivate \/ Retire \/ CommandEnds
    BY <1>0, <1>7, StillRouted DEF RunRefused, Deactivate, Retire, CommandEnds, Still
  <1> QED
    BY <1>1, <1>2, <1>3, <1>4, <1>5, <1>6, <1>7 DEF MainStep, CommandStep

LEMMA NextRouted == StdinIInv /\ [Next]_vars => StdinIInv'
  <1> SUFFICES ASSUME StdinIInv, [Next]_vars PROVE StdinIInv'  OBVIOUS
  <1>1. PipesIInv'
    BY NextPipes DEF StdinIInv
  <1>2. CASE HangUp \/ DeadlinePasses \/ UNCHANGED vars
    <2>1. Still /\ pump' = pump
      BY <1>2 DEF HangUp, DeadlinePasses, vars, Still, pumpVars, cmdPipe, promptPipe, fates
    <2> QED  BY <1>1, <2>1, StillRouted DEF StdinIInv
  <1>3. CASE PumpStep
    BY <1>1, <1>3, PumpRouted DEF StdinIInv
  <1>4. CASE MainStep \/ CommandStep
    BY <1>1, <1>4, MainRouted DEF StdinIInv
  <1> QED  BY <1>2, <1>3, <1>4 DEF Next, Finished

LEMMA RoutedMeans == StdinIInv => BytesRouted
  <1> SUFFICES ASSUME StdinIInv PROVE BytesRouted  OBVIOUS
  <1>1. ByteConservation
    BY Conserved DEF StdinIInv, Routed
  <1>2. TypedOrder
    BY DEF StdinIInv, Routed, Sorted, TypedOrder
  <1>3. /\ ToSet(cmdGot \o cmdBuf) = ToSet(cmdGot) \cup ToSet(cmdBuf)
        /\ ToSet(shellGot \o promptBuf) = ToSet(shellGot) \cup ToSet(promptBuf)
    BY ToSetConcat DEF StdinIInv, PipesIInv, TypeOK
  <1>4. EchoOnce
    BY <1>3 DEF StdinIInv, Routed, HandEchoed, EchoOnce
  <1> QED  BY <1>1, <1>2, <1>4 DEF BytesRouted

(***************************************************************************)
(* For any input, however it is cut into reads and however the routing     *)
(* flips between the prompt and the commands: a byte that sess.Read        *)
(* returned is in exactly one place, each side reads its bytes in typed    *)
(* order, and the pump has echoed what commands get and nothing that the   *)
(* shell gets (cmd/sophia/main.go:281-283, 320-363, 441-447).              *)
(***************************************************************************)
THEOREM BytesSafe == Spec => []BytesRouted
  <1>1. Init => StdinIInv
    BY InitPipes, InitRouted DEF StdinIInv
  <1> QED  BY <1>1, NextRouted, RoutedMeans, PTL DEF Spec
=============================================================================
