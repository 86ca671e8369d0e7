---------------------------- MODULE Shell_proofs ----------------------------
(***************************************************************************)
(* Proofs about Shell, for any jobs, sessions, commands and paths.         *)
(*                                                                         *)
(* RuntimeInv: the runtimes stay consistent.  Of the state it needs only   *)
(* pc, cmd, once and live; what they have to be for the names in           *)
(* RuntimeInv to mean something is ShellTypeOK.  A step of a job that has  *)
(* neither compiled nor started a program is Quiet and disturbs nothing.   *)
(*                                                                         *)
(* CdTruth: a cd remembers what it has seen of its session and its tree    *)
(* while it is under way (CdInv).                                          *)
(*                                                                         *)
(* PathsInside: Resolve gives no path with "..", by induction over the     *)
(* elements that path.Clean takes in, and so no state has one (InsideInv). *)
(***************************************************************************)
EXTENDS Shell, SequenceTheorems, WellFoundedInduction, TLAPS

-----------------------------------------------------------------------------
(* Induction over the natural numbers: what is to hold for every number is *)
(* given as the set of the numbers it holds for.                           *)
\* A set of numbers that is not empty has a least one.
LEMMA LeastNatural ==
  ASSUME NEW T, T \subseteq Nat, T # {}
  PROVE  \E m \in T : \A k \in T : m <= k
  <1> DEFINE R == OpToRel(<, Nat)
  <1>1. \A x, y \in Nat : <<y, x>> \in R <=> y < x
    BY DEF OpToRel
  <1>2. IsWellFoundedOn(R, Nat)
    BY NatLessThanWellFounded
  <1> HIDE DEF R
  <1>3. PICK m \in T : \A k \in T : ~(<<k, m>> \in R)
    BY <1>2, WFMin
  <1>4. ASSUME NEW k \in T  PROVE m <= k
    <2>1. k \in Nat /\ m \in Nat
      OBVIOUS
    <2>2. ~(k < m)
      BY <1>1, <1>3, <2>1, Zenon
    <2> QED  BY <2>1, <2>2
  <1> QED  BY <1>4

\* them all: the least one outside would contradict that.
LEMMA SetInduction ==
  ASSUME NEW S, 0 \in S, \A n \in Nat : n \in S => n + 1 \in S
  PROVE  Nat \subseteq S
  <1>1. SUFFICES ASSUME Nat \ S # {} PROVE FALSE
    OBVIOUS
  <1>2. PICK m \in Nat \ S : \A k \in Nat \ S : m <= k
    BY <1>1, LeastNatural
  <1>3. m - 1 \in Nat /\ ~(m <= m - 1) /\ (m - 1) + 1 = m
    OBVIOUS
  <1> QED  BY <1>2, <1>3

\* A function defined step by step exists.
StepByStep(L, S, s0, F) ==
    \E g \in [0..L -> S] : g[0] = s0 /\ \A n \in 1..L : g[n] = F[n][g[n - 1]]
LEMMA RecursionExists ==
  ASSUME NEW L \in Nat, NEW S, NEW s0 \in S, NEW F \in [1..L -> [S -> S]]
  PROVE  StepByStep(L, S, s0, F)
  <1> DEFINE Is(g, k) == g[0] = s0 /\ \A n \in 1..k : g[n] = F[n][g[n - 1]]
             K == {k \in Nat : k <= L => \E g \in [0..k -> S] : Is(g, k)}
  <1>1. 0 \in K
    <2>1. [n \in 0..0 |-> s0] \in [0..0 -> S] /\ Is([n \in 0..0 |-> s0], 0)
      OBVIOUS
    <2> QED  BY <2>1
  <1>2. ASSUME NEW k \in Nat, k \in K  PROVE k + 1 \in K
    <2> SUFFICES ASSUME k + 1 <= L PROVE \E g \in [0..k + 1 -> S] : Is(g, k + 1)
      OBVIOUS
    <2>1. PICK g \in [0..k -> S] : Is(g, k)
      BY <1>2
    <2> DEFINE h == [n \in 0..k + 1 |-> IF n = k + 1 THEN F[k + 1][g[k]] ELSE g[n]]
    <2>2. k + 1 \in 1..L /\ g[k] \in S
      OBVIOUS
    <2>3. F[k + 1][g[k]] \in S
      BY <2>2
    <2>4. h \in [0..k + 1 -> S]
      BY <2>3
    <2>5. h[k + 1] = F[k + 1][g[k]] /\ \A n \in 0..k : h[n] = g[n]
      OBVIOUS
    <2> HIDE DEF h
    <2>6. h[0] = s0
      BY <2>1, <2>5
    <2>7. ASSUME NEW n \in 1..k + 1  PROVE h[n] = F[n][h[n - 1]]
      <3>1. CASE n = k + 1
        BY <2>5, <3>1
      <3>2. CASE n \in 1..k
        <4>1. n - 1 \in 0..k /\ n \in 0..k
          BY <3>2
        <4> QED  BY <2>1, <2>5, <3>2, <4>1
      <3> QED  BY <3>1, <3>2
    <2> QED  BY <2>4, <2>6, <2>7
  <1> HIDE DEF K
  <1>3. L \in K
    BY <1>1, <1>2, SetInduction
  <1> QED  BY <1>3 DEF K, StepByStep

\* Where a job has a command, and where that command is a program.
HasCommand == {"exec", "once", "compile", "start", "guest"}
HasProgram == {"once", "compile", "start", "guest"}
Running == {"compile", "start", "guest"}
Elsewhere == {"idle", "cd", "stat", "set", "open", "opening", "native", "halted"}

ShellTypeOK ==
    /\ pc \in [Jobs -> HasCommand \cup Elsewhere]
    /\ cmd \in [Jobs -> Commands \cup {NoCommand}]
    /\ once \in [Programs -> {"no", "busy", "ok", "failed"}]
    /\ live \subseteq STRING \X Jobs
    /\ \A j \in Jobs : pc[j] \in HasCommand => cmd[j] \in Commands
    /\ \A j \in Jobs : pc[j] \in HasProgram => ProgramOf[cmd[j]] \in Programs

ShellInv == ShellTypeOK /\ RuntimeInv

\* What a step of j does that runs no program, before it or after it.
Quiet(j) ==
    /\ once' = once /\ live' = live
    /\ \A i \in Jobs \ {j} : pc'[i] = pc[i] /\ cmd'[i] = cmd[i]
    /\ pc[j] \notin Running /\ pc'[j] \notin Running

\* At the start no job has a command and no instance is registered.
LEMMA InitShellInv == Init => ShellInv
  <1> SUFFICES ASSUME Init PROVE ShellInv  OBVIOUS
  <1>1. ShellTypeOK
    BY DEF Init, ShellTypeOK, HasCommand, HasProgram, Elsewhere
  <1>2. RuntimeInv
    BY DEF Init, RuntimeInv, CompileOwned, GuestCompiled, NamesLive
  <1> QED  BY <1>1, <1>2 DEF ShellInv

\* A quiet step leaves the runtimes as consistent as they were.
LEMMA QuietKeepsRuntime ==
  ASSUME NEW j \in Jobs, ShellInv, Quiet(j)  PROVE RuntimeInv'
  <1> USE DEF ShellInv, ShellTypeOK
  <1>1. \A i \in Jobs : pc'[i] \in Running => i # j /\ pc[i] = pc'[i] /\ cmd[i] = cmd'[i]
    BY DEF Quiet
  <1>2. \A i \in Jobs : pc[i] \in Running => i # j /\ pc[i] = pc'[i] /\ cmd[i] = cmd'[i]
    BY DEF Quiet
  <1>3. CompileOwned'
    BY <1>1, <1>2 DEF Quiet, Running, RuntimeInv, CompileOwned
  <1>4. GuestCompiled'
    BY <1>1 DEF Quiet, Running, RuntimeInv, GuestCompiled
  <1>5. NamesLive'
    <2>1. \A x \in live : x[2] \in Jobs
      BY DEF HasCommand
    <2> QED  BY <1>1, <1>2, <2>1 DEF Quiet, Running, RuntimeInv, NamesLive
  <1> QED  BY <1>3, <1>4, <1>5 DEF RuntimeInv

\* The end of a statement: the job has no command and runs no program.
LEMMA FinishTyped ==
  ASSUME NEW j \in Jobs, NEW r, NEW label \in Elsewhere, ShellTypeOK, Finish(j, label, r),
         once' \in [Programs -> {"no", "busy", "ok", "failed"}], live' \subseteq STRING \X Jobs
  PROVE  /\ ShellTypeOK'
         /\ pc' = [pc EXCEPT ![j] = label] /\ pc'[j] = label
         /\ \A i \in Jobs \ {j} : pc'[i] = pc[i] /\ cmd'[i] = cmd[i]
  BY DEF ShellTypeOK, Finish, Goto, HasCommand, HasProgram, Elsewhere

\* A job goes on to another point of the same command.
LEMMA GotoTyped ==
  ASSUME NEW j \in Jobs, NEW label \in HasCommand \cup Elsewhere, ShellTypeOK, Goto(j, label),
         cmd' = cmd,
         once' \in [Programs -> {"no", "busy", "ok", "failed"}], live' \subseteq STRING \X Jobs,
         label \in HasCommand => cmd[j] \in Commands,
         label \in HasProgram => ProgramOf[cmd[j]] \in Programs
  PROVE  /\ ShellTypeOK'
         /\ pc'[j] = label
         /\ \A i \in Jobs \ {j} : pc'[i] = pc[i] /\ cmd'[i] = cmd[i]
  BY DEF ShellTypeOK, Goto, HasCommand, HasProgram, Elsewhere

\* Every step of a job up to its first use of a program is quiet.
LEMMA QuietSteps ==
  ASSUME NEW j \in Jobs, ShellInv,
         \/ BeginCd(j) \/ BeginRedirect(j) \/ BeginExec(j) \/ Ends(j)
         \/ CdResolve(j) \/ CdStat(j) \/ CdSet(j)
         \/ OpenRead(j) \/ OpenWrite(j) \/ Opened(j)
         \/ Exec(j) \/ NativeEnds(j)
  PROVE  ShellInv'
  <1> USE DEF ShellInv
  <1>0. /\ once \in [Programs -> {"no", "busy", "ok", "failed"}]
        /\ live \subseteq STRING \X Jobs
    BY DEF ShellTypeOK
  <1>g. ASSUME NEW label \in Elsewhere, Goto(j, label), cmd' = cmd, once' = once, live' = live,
               pc[j] \notin Running
        PROVE  ShellTypeOK' /\ Quiet(j)
    <2>1. label \notin HasCommand /\ label \notin HasProgram /\ label \notin Running
      BY DEF Elsewhere, HasCommand, HasProgram, Running
    <2> QED  BY <1>g, <1>0, <2>1, GotoTyped DEF Quiet
  <1>f. ASSUME NEW r, NEW label \in Elsewhere, Finish(j, label, r), once' = once, live' = live,
               pc[j] \notin Running
        PROVE  ShellTypeOK' /\ Quiet(j)
    <2>1. label \notin Running
      BY DEF Elsewhere, Running
    <2> QED  BY <1>f, <1>0, <2>1, FinishTyped DEF Quiet
  <1> SUFFICES ShellTypeOK' /\ Quiet(j)
    BY QuietKeepsRuntime
  <1>1. CASE BeginCd(j)
    <2>1. Goto(j, "cd") /\ cmd' = cmd /\ once' = once /\ live' = live /\ pc[j] \notin Running
      BY <1>1 DEF BeginCd, Begin, modules, Running
    <2> QED  BY <2>1, <1>g DEF Elsewhere
  <1>2. CASE BeginRedirect(j)
    <2>1. Goto(j, "open") /\ cmd' = cmd /\ once' = once /\ live' = live /\ pc[j] \notin Running
      BY <1>2 DEF BeginRedirect, Begin, modules, Running
    <2> QED  BY <2>1, <1>g DEF Elsewhere
  <1>3. CASE BeginExec(j)
    <2>1. PICK c \in Menu[j] \cap Commands : cmd' = [cmd EXCEPT ![j] = c]
      BY <1>3 DEF BeginExec
    <2>2. pc' = [pc EXCEPT ![j] = "exec"] /\ once' = once /\ live' = live /\ pc[j] = "idle"
      BY <1>3 DEF BeginExec, Begin, modules, Goto
    <2>3. ShellTypeOK'
      BY <2>1, <2>2 DEF ShellTypeOK, HasCommand, HasProgram, Elsewhere
    <2> QED  BY <2>1, <2>2, <2>3 DEF Quiet, Running, ShellTypeOK
  <1>4. CASE Ends(j)
    <2>1. Goto(j, "halted") /\ cmd' = cmd /\ once' = once /\ live' = live /\ pc[j] \notin Running
      BY <1>4 DEF Ends, locals, modules, Running
    <2> QED  BY <2>1, <1>g DEF Elsewhere
  <1>5. CASE CdResolve(j)
    <2>1. Goto(j, "stat") /\ cmd' = cmd /\ once' = once /\ live' = live /\ pc[j] \notin Running
      BY <1>5 DEF CdResolve, modules, Running
    <2> QED  BY <2>1, <1>g DEF Elsewhere
  <1>6. CASE CdStat(j)
    <2>1. once' = once /\ live' = live /\ pc[j] \notin Running
      BY <1>6 DEF CdStat, modules, Running
    <2>2. CASE Goto(j, "set") /\ UNCHANGED locals
      BY <2>1, <2>2, <1>g DEF Elsewhere, locals
    <2>3. CASE CdFails(j)
      BY <2>1, <2>3, <1>f DEF Elsewhere, CdFails, Done
    <2> QED  BY <1>6, <2>2, <2>3 DEF CdStat
  <1>7. CASE CdSet(j)
    <2>1. Done(j, "status") /\ once' = once /\ live' = live /\ pc[j] \notin Running
      BY <1>7 DEF CdSet, modules, Running
    <2> QED  BY <2>1, <1>f DEF Elsewhere, Done
  <1>8. CASE OpenRead(j)
    <2>1. Goto(j, "opening") /\ cmd' = cmd /\ once' = once /\ live' = live /\ pc[j] \notin Running
      BY <1>8 DEF OpenRead, modules, Running
    <2> QED  BY <2>1, <1>g DEF Elsewhere
  <1>9. CASE OpenWrite(j) \/ Opened(j) \/ NativeEnds(j)
    <2>1. once' = once /\ live' = live /\ pc[j] \notin Running
      BY <1>9 DEF OpenWrite, Opened, NativeEnds, modules, Running
    <2>2. Done(j, "status") \/ \E r : Halt(j, r)
      BY <1>9 DEF OpenWrite, Opened, NativeEnds
    <2> QED  BY <2>1, <2>2, <1>f DEF Elsewhere, Done, Halt
  <1>10. CASE Exec(j)
    <2>1. once' = once /\ live' = live /\ pc[j] = "exec" /\ pc[j] \notin Running
      BY <1>10 DEF Exec, modules, Running
    <2>2. cmd[j] \in Commands
      BY <2>1 DEF ShellTypeOK, HasCommand
    <2>3. CASE Done(j, "status")
      BY <2>1, <2>3, <1>f DEF Elsewhere, Done
    <2>4. CASE ProgramOf[cmd[j]] = "native" /\ Goto(j, "native") /\ cmd' = cmd
      BY <2>1, <2>4, <1>g DEF Elsewhere
    <2>5. CASE /\ ProgramOf[cmd[j]] \notin {"native", "unknown"}
               /\ Goto(j, "once") /\ cmd' = cmd
      <3>1. ProgramOf[cmd[j]] \in Programs
        BY <2>2, <2>5, CommandAssumption
      <3>2. /\ ShellTypeOK' /\ pc'[j] = "once"
            /\ \A i \in Jobs \ {j} : pc'[i] = pc[i] /\ cmd'[i] = cmd[i]
        <4>1. "once" \in HasCommand \cup Elsewhere
          BY DEF HasCommand
        <4> QED  BY <2>1, <2>2, <2>5, <3>1, <1>0, <4>1, GotoTyped
      <3> QED  BY <2>1, <3>2 DEF Quiet, Running
    <2> QED  BY <1>10, <2>3, <2>4, <2>5 DEF Exec
  <1> QED  BY <1>1, <1>2, <1>3, <1>4, <1>5, <1>6, <1>7, <1>8, <1>9, <1>10

\* The first caller of a program becomes the owner of its compilation.
LEMMA OnceFirstKeeps ==
  ASSUME NEW j \in Jobs, ShellInv, OnceFirst(j)  PROVE ShellInv'
  <1> DEFINE g == ProgramOf[cmd[j]]
  <1>1. /\ pc[j] = "once" /\ once[g] = "no" /\ once' = [once EXCEPT ![g] = "busy"]
        /\ Goto(j, "compile") /\ cmd' = cmd /\ live' = live
    BY DEF OnceFirst, locals
  <1>2. cmd[j] \in Commands /\ g \in Programs
    BY <1>1 DEF ShellInv, ShellTypeOK, HasCommand, HasProgram
  <1>3. /\ ShellTypeOK' /\ pc'[j] = "compile"
        /\ \A i \in Jobs \ {j} : pc'[i] = pc[i] /\ cmd'[i] = cmd[i]
    <2>1. "compile" \in HasCommand \cup Elsewhere
      BY DEF HasCommand
    <2>2. /\ once' \in [Programs -> {"no", "busy", "ok", "failed"}]
          /\ live' \subseteq STRING \X Jobs /\ ShellTypeOK
      BY <1>1, <1>2 DEF ShellInv, ShellTypeOK
    <2> QED  BY <1>1, <1>2, <2>1, <2>2, GotoTyped
  <1>4. \A i \in Jobs : pc[i] = "compile" => ProgramOf[cmd[i]] # g
    BY <1>1 DEF ShellInv, RuntimeInv, CompileOwned
  <1>5. CompileOwned'
    BY <1>1, <1>2, <1>3, <1>4 DEF ShellInv, ShellTypeOK, RuntimeInv, CompileOwned
  <1>6. GuestCompiled'
    BY <1>1, <1>2, <1>3 DEF ShellInv, ShellTypeOK, RuntimeInv, GuestCompiled, HasProgram
  <1>7. NamesLive'
    <2>1. \A x \in live : x[2] \in Jobs
      BY DEF ShellInv, ShellTypeOK
    <2> QED  BY <1>1, <1>3, <2>1 DEF ShellInv, RuntimeInv, NamesLive
  <1> QED  BY <1>3, <1>5, <1>6, <1>7 DEF ShellInv, RuntimeInv

\* The other callers go on only when the compilation has an outcome.
LEMMA OnceOthersKeeps ==
  ASSUME NEW j \in Jobs, ShellInv, OnceOthers(j)  PROVE ShellInv'
  <1> DEFINE g == ProgramOf[cmd[j]]
  <1>1. pc[j] = "once" /\ once' = once /\ live' = live
    BY DEF OnceOthers, modules
  <1>2. /\ cmd[j] \in Commands /\ g \in Programs /\ ShellTypeOK
        /\ once' \in [Programs -> {"no", "busy", "ok", "failed"}]
        /\ live' \subseteq STRING \X Jobs
    BY <1>1 DEF ShellInv, ShellTypeOK, HasCommand, HasProgram
  <1>3. CASE once[g] = "ok" /\ Goto(j, "start") /\ UNCHANGED locals
    <2>1. /\ ShellTypeOK' /\ pc'[j] = "start" /\ cmd' = cmd
          /\ \A i \in Jobs \ {j} : pc'[i] = pc[i] /\ cmd'[i] = cmd[i]
      <3>1. "start" \in HasCommand \cup Elsewhere
        BY DEF HasCommand
      <3> QED  BY <1>2, <1>3, <3>1, GotoTyped DEF locals
    <2>2. CompileOwned'
      BY <1>1, <2>1 DEF ShellInv, RuntimeInv, CompileOwned
    <2>3. GuestCompiled'
      BY <1>1, <1>3, <2>1 DEF ShellInv, RuntimeInv, GuestCompiled
    <2>4. NamesLive'
      <3>1. \A x \in live : x[2] \in Jobs
        BY <1>2 DEF ShellTypeOK
      <3> QED  BY <1>1, <2>1, <3>1 DEF ShellInv, RuntimeInv, NamesLive
    <2> QED  BY <2>1, <2>2, <2>3, <2>4 DEF ShellInv, RuntimeInv
  <1>4. CASE Halt(j, "can't compile")
    <2>1. /\ ShellTypeOK' /\ pc'[j] = "halted"
          /\ \A i \in Jobs \ {j} : pc'[i] = pc[i] /\ cmd'[i] = cmd[i]
      <3>1. "halted" \in Elsewhere
        BY DEF Elsewhere
      <3> QED  BY <1>2, <1>4, <3>1, FinishTyped DEF Halt
    <2>2. Quiet(j)
      BY <1>1, <2>1 DEF Quiet, Running
    <2> QED  BY <2>1, <2>2, QuietKeepsRuntime DEF ShellInv
  <1> QED  BY <1>3, <1>4 DEF OnceOthers

\* The owner records the outcome and gives the compilation up.
LEMMA CompiledKeeps ==
  ASSUME NEW j \in Jobs, ShellInv, Compiled(j)  PROVE ShellInv'
  <1> DEFINE g == ProgramOf[cmd[j]]
  <1>1. pc[j] = "compile" /\ live' = live
    BY DEF Compiled
  <1>2. cmd[j] \in Commands /\ g \in Programs /\ ShellTypeOK /\ live' \subseteq STRING \X Jobs
    BY <1>1 DEF ShellInv, ShellTypeOK, HasCommand, HasProgram
  <1>3. /\ once[g] = "busy"
        /\ \A i \in Jobs \ {j} : pc[i] = "compile" => ProgramOf[cmd[i]] # g
        /\ \A i \in Jobs : pc[i] \in {"start", "guest"} => ProgramOf[cmd[i]] # g
    BY <1>1 DEF ShellInv, RuntimeInv, CompileOwned, GuestCompiled
  <1>4. PICK o \in {"ok", "failed"} :
          /\ once' = [once EXCEPT ![g] = o]
          /\ \/ o = "ok" /\ Goto(j, "start") /\ UNCHANGED locals
             \/ o = "failed" /\ Halt(j, "can't compile")
    BY DEF Compiled
  <1>5. once' \in [Programs -> {"no", "busy", "ok", "failed"}]
    BY <1>2, <1>4 DEF ShellTypeOK
  <1>6. /\ ShellTypeOK'
        /\ \A i \in Jobs \ {j} : pc'[i] = pc[i] /\ cmd'[i] = cmd[i]
        /\ \/ o = "ok" /\ pc'[j] = "start" /\ cmd'[j] = cmd[j]
           \/ pc'[j] = "halted"
    <2>1. CASE o = "ok" /\ Goto(j, "start") /\ UNCHANGED locals
      <3>1. "start" \in HasCommand \cup Elsewhere
        BY DEF HasCommand
      <3>2. cmd' = cmd
        BY <2>1 DEF locals
      <3> QED  BY <1>2, <1>5, <2>1, <3>1, <3>2, GotoTyped
    <2>2. CASE Halt(j, "can't compile")
      <3>1. "halted" \in Elsewhere
        BY DEF Elsewhere
      <3> QED  BY <1>2, <1>5, <2>2, <3>1, FinishTyped DEF Halt
    <2> QED  BY <1>4, <2>1, <2>2
  <1>7. CompileOwned'
    <2>1. \A i \in Jobs : pc'[i] = "compile" => i # j /\ pc[i] = "compile" /\ cmd'[i] = cmd[i]
      BY <1>6
    <2>2. \A i \in Jobs : pc'[i] = "compile" => ProgramOf[cmd[i]] \in Programs \ {g}
      BY <2>1, <1>2, <1>3 DEF ShellTypeOK, HasProgram
    <2>3. \A h \in Programs : once'[h] = "busy" => h # g /\ once[h] = "busy"
      BY <1>2, <1>4 DEF ShellTypeOK
    <2>4. \A h \in Programs \ {g} : once'[h] = once[h]
      BY <1>2, <1>4 DEF ShellTypeOK
    <2>5. \A i, k \in Jobs : pc'[i] = "compile" /\ pc'[k] = "compile"
                             /\ ProgramOf[cmd'[i]] = ProgramOf[cmd'[k]] => i = k
      BY <2>1 DEF ShellInv, RuntimeInv, CompileOwned
    <2>6. \A i \in Jobs : pc'[i] = "compile" => once'[ProgramOf[cmd'[i]]] = "busy"
      BY <2>1, <2>2, <2>4 DEF ShellInv, RuntimeInv, CompileOwned
    <2>7. ASSUME NEW h \in Programs, once'[h] = "busy"
          PROVE  \E i \in Jobs : pc'[i] = "compile" /\ ProgramOf[cmd'[i]] = h
      <3>1. PICK i \in Jobs : pc[i] = "compile" /\ ProgramOf[cmd[i]] = h
        BY <2>3, <2>7 DEF ShellInv, RuntimeInv, CompileOwned
      <3>2. i # j
        BY <2>3, <2>7, <3>1
      <3> QED  BY <3>1, <3>2, <1>6
    <2> QED  BY <2>5, <2>6, <2>7 DEF CompileOwned
  <1>8. GuestCompiled'
    <2> SUFFICES ASSUME NEW i \in Jobs, pc'[i] \in {"start", "guest"}
                 PROVE  once'[ProgramOf[cmd'[i]]] = "ok"
      BY DEF GuestCompiled
    <2>1. CASE i = j
      BY <1>2, <1>4, <1>6, <2>1 DEF ShellTypeOK
    <2>2. CASE i # j
      <3>1. pc[i] = pc'[i] /\ cmd'[i] = cmd[i] /\ ProgramOf[cmd[i]] \in Programs \ {g}
        BY <1>2, <1>3, <1>6, <2>2 DEF ShellTypeOK, HasProgram
      <3> QED  BY <1>2, <1>4, <3>1 DEF ShellInv, RuntimeInv, GuestCompiled, ShellTypeOK
    <2> QED  BY <2>1, <2>2
  <1>9. NamesLive'
    <2>1. \A x \in live : x[2] \in Jobs
      BY <1>2 DEF ShellTypeOK
    <2> QED  BY <1>1, <1>6, <2>1 DEF ShellInv, RuntimeInv, NamesLive
  <1> QED  BY <1>6, <1>7, <1>8, <1>9 DEF ShellInv, RuntimeInv

\* An instance gets its name only when no other has it.
LEMMA InstantiateKeeps ==
  ASSUME NEW j \in Jobs, ShellInv, Instantiate(j)  PROVE ShellInv'
  <1> DEFINE name == InstanceName[cmd[j]]
  <1>1. pc[j] = "start" /\ once' = once
    BY DEF Instantiate
  <1>2. /\ cmd[j] \in Commands /\ ProgramOf[cmd[j]] \in Programs /\ ShellTypeOK
        /\ once' \in [Programs -> {"no", "busy", "ok", "failed"}]
        /\ live \subseteq STRING \X Jobs
    BY <1>1 DEF ShellInv, ShellTypeOK, HasCommand, HasProgram
  <1>3. name \in STRING
    BY <1>2, CommandAssumption
  <1>4. \A x \in live : x[2] \in Jobs
    BY <1>2
  <1>5. CASE Halt(j, "already instantiated") /\ UNCHANGED live
    <2>1. /\ ShellTypeOK' /\ pc'[j] = "halted"
          /\ \A i \in Jobs \ {j} : pc'[i] = pc[i] /\ cmd'[i] = cmd[i]
      <3>1. "halted" \in Elsewhere
        BY DEF Elsewhere
      <3> QED  BY <1>2, <1>5, <3>1, FinishTyped DEF Halt
    <2>2. CompileOwned'
      BY <1>1, <2>1 DEF ShellInv, RuntimeInv, CompileOwned
    <2>3. GuestCompiled'
      BY <1>1, <2>1 DEF ShellInv, RuntimeInv, GuestCompiled
    <2>4. NamesLive'
      BY <1>1, <1>4, <1>5, <2>1 DEF ShellInv, RuntimeInv, NamesLive
    <2> QED  BY <2>1, <2>2, <2>3, <2>4 DEF ShellInv, RuntimeInv
  <1>6. CASE /\ ~Taken(name) /\ live' = live \cup {<<name, j>>}
             /\ Goto(j, "guest") /\ UNCHANGED locals
    <2>1. /\ ShellTypeOK' /\ pc'[j] = "guest" /\ cmd' = cmd
          /\ \A i \in Jobs \ {j} : pc'[i] = pc[i] /\ cmd'[i] = cmd[i]
      <3>1. "guest" \in HasCommand \cup Elsewhere
        BY DEF HasCommand
      <3>2. live' \subseteq STRING \X Jobs /\ cmd' = cmd
        BY <1>2, <1>3, <1>6 DEF locals
      <3> QED  BY <1>2, <1>6, <3>1, <3>2, GotoTyped
    <2>2. CompileOwned'
      BY <1>1, <2>1 DEF ShellInv, RuntimeInv, CompileOwned
    <2>3. GuestCompiled'
      BY <1>1, <2>1 DEF ShellInv, RuntimeInv, GuestCompiled
    <2>4. NamesLive'
      <3>1. \A x \in live : x[1] # name
        BY <1>6 DEF Taken
      <3>2. \A x \in live' : x \in live \/ x = <<name, j>>
        BY <1>6
      <3>3. \A x \in live' : pc'[x[2]] = "guest" /\ InstanceName[cmd'[x[2]]] = x[1]
        <4> SUFFICES ASSUME NEW x \in live'
                     PROVE  pc'[x[2]] = "guest" /\ InstanceName[cmd'[x[2]]] = x[1]
          OBVIOUS
        <4>1. CASE x \in live
          <5>1. pc[x[2]] = "guest" /\ InstanceName[cmd[x[2]]] = x[1] /\ x[2] \in Jobs \ {j}
            BY <1>1, <1>4, <4>1 DEF ShellInv, RuntimeInv, NamesLive
          <5> QED  BY <2>1, <5>1
        <4>2. CASE x = <<name, j>>
          BY <2>1, <4>2
        <4> QED  BY <3>2, <4>1, <4>2
      <3>4. \A i \in Jobs : pc'[i] = "guest" => <<InstanceName[cmd'[i]], i>> \in live'
        BY <1>6, <2>1 DEF ShellInv, RuntimeInv, NamesLive
      <3>5. \A x, y \in live' : x[1] = y[1] => x = y
        <4>1. \A x, y \in live : x[1] = y[1] => x = y
          BY DEF ShellInv, RuntimeInv, NamesLive
        <4>2. <<name, j>>[1] = name
          OBVIOUS
        <4> QED  BY <3>1, <3>2, <4>1, <4>2
      <3> QED  BY <3>3, <3>4, <3>5 DEF NamesLive
    <2> QED  BY <2>1, <2>2, <2>3, <2>4 DEF ShellInv, RuntimeInv
  <1> QED  BY <1>5, <1>6 DEF Instantiate

\* However a guest ends, its own name and no other is free again.
LEMMA GuestKeeps ==
  ASSUME NEW j \in Jobs, ShellInv, GuestExits(j) \/ GuestTraps(j)  PROVE ShellInv'
  <1> DEFINE mine == <<InstanceName[cmd[j]], j>>
  <1>1. PICK label \in {"idle", "halted"}, r \in {"status", "trap"} :
          /\ pc[j] = "guest" /\ once' = once /\ live' = live \ {mine}
          /\ Finish(j, label, r)
    BY DEF GuestExits, GuestTraps, Closed, Done, Halt
  <1>2. /\ ShellTypeOK /\ live \subseteq STRING \X Jobs
        /\ once' \in [Programs -> {"no", "busy", "ok", "failed"}]
        /\ live' \subseteq STRING \X Jobs
    BY <1>1 DEF ShellInv, ShellTypeOK
  <1>3. /\ ShellTypeOK' /\ pc'[j] = label
        /\ \A i \in Jobs \ {j} : pc'[i] = pc[i] /\ cmd'[i] = cmd[i]
    <2>1. label \in Elsewhere
      BY <1>1 DEF Elsewhere
    <2> QED  BY <1>1, <1>2, <2>1, FinishTyped
  <1>4. CompileOwned'
    BY <1>1, <1>3 DEF ShellInv, RuntimeInv, CompileOwned
  <1>5. GuestCompiled'
    BY <1>1, <1>3 DEF ShellInv, RuntimeInv, GuestCompiled
  <1>6. NamesLive'
    <2>1. \A x \in live' : x \in live /\ x[2] \in Jobs \ {j}
      <3> SUFFICES ASSUME NEW x \in live'  PROVE x \in live /\ x[2] \in Jobs \ {j}
        OBVIOUS
      <3>1. x \in live /\ x # mine /\ x[2] \in Jobs /\ x = <<x[1], x[2]>>
        BY <1>1, <1>2
      <3>2. InstanceName[cmd[x[2]]] = x[1]
        BY <3>1 DEF ShellInv, RuntimeInv, NamesLive
      <3> QED  BY <3>1, <3>2
    <2>2. \A x \in live' : pc'[x[2]] = "guest" /\ InstanceName[cmd'[x[2]]] = x[1]
      BY <1>3, <2>1 DEF ShellInv, RuntimeInv, NamesLive
    <2>3. \A i \in Jobs : pc'[i] = "guest" => <<InstanceName[cmd'[i]], i>> \in live'
      <3> SUFFICES ASSUME NEW i \in Jobs, pc'[i] = "guest"
                   PROVE  <<InstanceName[cmd'[i]], i>> \in live'
        OBVIOUS
      <3>1. i # j /\ pc[i] = "guest" /\ cmd'[i] = cmd[i]
        BY <1>1, <1>3
      <3>2. <<InstanceName[cmd[i]], i>> \in live /\ <<InstanceName[cmd[i]], i>> # mine
        BY <3>1 DEF ShellInv, RuntimeInv, NamesLive
      <3> QED  BY <1>1, <3>1, <3>2
    <2>4. \A x, y \in live' : x[1] = y[1] => x = y
      BY <2>1 DEF ShellInv, RuntimeInv, NamesLive
    <2> QED  BY <2>2, <2>3, <2>4 DEF NamesLive
  <1> QED  BY <1>3, <1>4, <1>5, <1>6 DEF ShellInv, RuntimeInv

\* Every step keeps the invariant: timeouts and the work of other commands on
\* the file system do not touch the runtimes.
LEMMA NextKeepsShellInv == ShellInv /\ [Next]_vars => ShellInv'
  <1> SUFFICES ASSUME ShellInv, [Next]_vars PROVE ShellInv'  OBVIOUS
  <1>1. ASSUME UNCHANGED <<pc, cmd, once, live>> PROVE ShellInv'
    BY <1>1 DEF ShellInv, ShellTypeOK, RuntimeInv, CompileOwned, GuestCompiled, NamesLive
  <1>2. ASSUME NEW j \in Jobs, JobStep(j) PROVE ShellInv'
    BY <1>2, QuietSteps, OnceFirstKeeps, OnceOthersKeeps, CompiledKeeps, InstantiateKeeps
       DEF JobStep
  <1>3. ASSUME NEW j \in Jobs, CommandEnds(j) PROVE ShellInv'
    BY <1>3, QuietSteps, GuestKeeps DEF CommandEnds
  <1>4. ASSUME NEW s \in Sessions, Expire(s) PROVE ShellInv'
    BY <1>4, <1>1 DEF Expire, locals, modules
  <1>5. CASE Rearrange
    BY <1>5, <1>1 DEF Rearrange, locals, modules
  <1>6. CASE Finished \/ UNCHANGED vars
    BY <1>6, <1>1 DEF Finished, vars
  <1> QED  BY <1>2, <1>3, <1>4, <1>5, <1>6 DEF Next

\* The runtimes stay consistent whatever jobs of whatever sessions run at
\* once: a program is compiled by one job and used only when that is done, and
\* the registered names are those of the guests that run, one for each name
\* (uutils.go:31-52, wasmcommand.go:38-59).
THEOREM RuntimeSafe == Spec => []RuntimeInv
  <1>1. ShellInv => RuntimeInv
    BY DEF ShellInv
  <1> QED  BY <1>1, InitShellInv, NextKeepsShellInv, PTL DEF Spec
-----------------------------------------------------------------------------
(***************************************************************************)
(* What a cd in progress knows: its history holds every directory and      *)
(* every working directory of its session there has been since it began,   *)
(* its path is what the target names from one of those, and once the file  *)
(* system has answered it is one of those directories.                     *)
(***************************************************************************)
CdHistory(j) == InCd(j) => Dirs(tree) \subseteq seenDirs[j] /\ Wd(j) \in seenPwds[j]
CdTarget(j) == pc[j] = "cd" => path[j] \in Targets
CdPath(j) ==
    pc[j] \in {"stat", "set"} => \E wd \in seenPwds[j], t \in Targets : path[j] = Resolve(wd, t)
CdAnswer(j) == pc[j] = "set" => path[j].parts \in seenDirs[j]

CdInv ==
    /\ pc \in [Jobs -> HasCommand \cup Elsewhere]
    /\ DOMAIN pwd = Sessions /\ DOMAIN path = Jobs
    /\ DOMAIN seenDirs = Jobs /\ DOMAIN seenPwds = Jobs
    /\ \A j \in Jobs : CdHistory(j) /\ CdTarget(j) /\ CdPath(j) /\ CdAnswer(j)

LEMMA InitCdInv == Init => CdInv
  <1> SUFFICES ASSUME Init PROVE CdInv  OBVIOUS
  <1>1. pc = [j \in Jobs |-> "idle"] /\ pwd = [s \in Sessions |-> Root]
        /\ path = [j \in Jobs |-> Root]
        /\ seenDirs = [j \in Jobs |-> {}] /\ seenPwds = [j \in Jobs |-> {}]
    BY DEF Init
  <1>2. "idle" \in HasCommand \cup Elsewhere
    BY DEF Elsewhere
  <1>3. \A j \in Jobs : pc[j] = "idle"
    BY <1>1
  <1>4. \A j \in Jobs : CdHistory(j) /\ CdTarget(j) /\ CdPath(j) /\ CdAnswer(j)
    BY <1>3 DEF CdHistory, CdTarget, CdPath, CdAnswer, InCd
  <1> QED  BY <1>1, <1>2, <1>4 DEF CdInv

\* A job that is in no cd before or after its step, whatever it does to itself.
Aside(j) ==
    /\ UNCHANGED paths
    /\ DOMAIN path' = Jobs
    /\ \A i \in Jobs \ {j} : pc'[i] = pc[i] /\ path'[i] = path[i]
    /\ ~InCd(j) /\ ~InCd(j)'

CdKnows(j) == CdHistory(j) /\ CdTarget(j) /\ CdPath(j) /\ CdAnswer(j)

\* What a cd knows stays true while the others leave its session alone.
LEMMA CdUndisturbed ==
  ASSUME NEW i \in Jobs, CdKnows(i), pc'[i] = pc[i], path'[i] = path[i],
         UNCHANGED <<tree, pwd>>, seenDirs'[i] = seenDirs[i], seenPwds'[i] = seenPwds[i]
  PROVE  CdKnows(i)'
  BY DEF InCd, Wd, Dirs, CdKnows, CdHistory, CdTarget, CdPath, CdAnswer

LEMMA AsideKeepsCd ==
  ASSUME NEW j \in Jobs, CdInv, ShellTypeOK', Aside(j)  PROVE CdInv'
  <1>1. ASSUME NEW i \in Jobs  PROVE CdKnows(i)'
    <2>1. CASE i = j
      BY <2>1 DEF Aside, InCd, CdKnows, CdHistory, CdTarget, CdPath, CdAnswer
    <2>2. CASE i # j
      <3>1. CdKnows(i)
        BY DEF CdInv, CdKnows
      <3> QED  BY <2>2, <3>1, CdUndisturbed DEF Aside, paths
    <2> QED  BY <2>1, <2>2
  <1> QED  BY <1>1 DEF CdInv, CdKnows, Aside, paths, ShellTypeOK

\* The steps of a job outside a cd.
LEMMA OtherStepsAside ==
  ASSUME NEW j \in Jobs, CdInv,
         \/ BeginRedirect(j) \/ BeginExec(j) \/ Ends(j)
         \/ OpenRead(j) \/ OpenWrite(j) \/ Opened(j) \/ Exec(j)
         \/ OnceFirst(j) \/ OnceOthers(j) \/ Compiled(j) \/ Instantiate(j)
         \/ CommandEnds(j)
  PROVE  Aside(j)
  <1> USE DEF InCd
  <1>f. ASSUME NEW r, NEW label \in {"idle", "halted"}, Finish(j, label, r), ~InCd(j),
               UNCHANGED paths
        PROVE  Aside(j)
    BY <1>f DEF Finish, Goto, Aside, CdInv
  <1>g. ASSUME NEW label, label \notin {"cd", "stat", "set"}, Goto(j, label), ~InCd(j),
               UNCHANGED <<paths, path>>
        PROVE  Aside(j)
    BY <1>g DEF Goto, Aside, CdInv
  <1>1. CASE BeginRedirect(j)
    <2>1. PICK t \in Targets : path' = [path EXCEPT ![j] = t]
      BY <1>1 DEF BeginRedirect, Named
    <2>2. Goto(j, "open") /\ pc[j] = "idle" /\ UNCHANGED paths
      BY <1>1 DEF BeginRedirect, Begin, paths
    <2> QED  BY <2>1, <2>2 DEF Goto, Aside, CdInv
  <1>2. CASE BeginExec(j)
    BY <1>2, <1>g DEF BeginExec, Begin, paths
  <1>3. CASE Ends(j)
    BY <1>3, <1>g DEF Ends, locals
  <1>4. CASE OpenRead(j)
    BY <1>4 DEF OpenRead, Goto, Aside, CdInv
  <1>5. CASE OpenWrite(j) \/ Opened(j)
    BY <1>5, <1>f DEF OpenWrite, Opened, Done, Halt
  <1>6. CASE Exec(j)
    BY <1>6, <1>f, <1>g DEF Exec, Done
  <1>7. CASE OnceFirst(j)
    BY <1>7, <1>g DEF OnceFirst, locals
  <1>8. CASE OnceOthers(j)
    BY <1>8, <1>f, <1>g DEF OnceOthers, Halt, locals
  <1>9. CASE Compiled(j)
    BY <1>9, <1>f, <1>g DEF Compiled, Halt, locals
  <1>10. CASE Instantiate(j)
    BY <1>10, <1>f, <1>g DEF Instantiate, Halt, locals
  <1>11. CASE CommandEnds(j)
    BY <1>11, <1>f DEF CommandEnds, NativeEnds, GuestExits, GuestTraps, Done, Halt
  <1> QED
    BY <1>1, <1>2, <1>3, <1>4, <1>5, <1>6, <1>7, <1>8, <1>9, <1>10, <1>11

\* The steps of a cd.
LEMMA CdSteps ==
  ASSUME NEW j \in Jobs, CdInv, ShellTypeOK',
         BeginCd(j) \/ CdResolve(j) \/ CdStat(j) \/ CdSet(j)
  PROVE  CdInv'
  <1>0. /\ \A i \in Jobs : CdKnows(i)
        /\ pc \in [Jobs -> HasCommand \cup Elsewhere]
        /\ DOMAIN pwd = Sessions /\ DOMAIN path = Jobs
        /\ DOMAIN seenDirs = Jobs /\ DOMAIN seenPwds = Jobs
    BY DEF CdInv, CdKnows
  <1>1. ASSUME NEW i \in Jobs, i # j, ~CdSet(j)  PROVE CdKnows(i)'
    <2>1. /\ pc'[i] = pc[i] /\ path'[i] = path[i] /\ UNCHANGED <<tree, pwd>>
          /\ seenDirs'[i] = seenDirs[i] /\ seenPwds'[i] = seenPwds[i]
      <3>1. CASE BeginCd(j)
        BY <1>0, <1>1, <3>1 DEF BeginCd, Begin, Named, Goto
      <3>2. CASE CdResolve(j)
        BY <1>0, <1>1, <3>2 DEF CdResolve, Goto, paths
      <3>3. CASE CdStat(j)
        BY <1>0, <1>1, <3>3 DEF CdStat, CdFails, Forget, Done, Finish, Goto, locals
      <3> QED  BY <1>1, <3>1, <3>2, <3>3
    <2> QED  BY <1>0, <2>1, CdUndisturbed
  <1>2. DOMAIN pwd' = Sessions /\ DOMAIN path' = Jobs
        /\ DOMAIN seenDirs' = Jobs /\ DOMAIN seenPwds' = Jobs
    <2>1. CASE BeginCd(j)
      BY <1>0, <2>1 DEF BeginCd, Begin, Named
    <2>2. CASE CdResolve(j)
      BY <1>0, <2>2 DEF CdResolve, paths
    <2>3. CASE CdStat(j)
      BY <1>0, <2>3 DEF CdStat, CdFails, Forget, Done, Finish, locals
    <2>4. CASE CdSet(j)
      BY <1>0, <2>4 DEF CdSet, Done, Finish
    <2> QED  BY <2>1, <2>2, <2>3, <2>4
  <1>3. CASE BeginCd(j)
    <2>1. PICK t \in Targets : path' = [path EXCEPT ![j] = t]
      BY <1>3 DEF BeginCd, Named
    <2>2. /\ pc'[j] = "cd" /\ path'[j] = t /\ UNCHANGED <<tree, pwd>>
          /\ seenDirs'[j] = Dirs(tree) /\ seenPwds'[j] = {Wd(j)}
      BY <1>0, <1>3, <2>1 DEF BeginCd, Begin, Goto
    <2>3. CdKnows(j)'
      BY <2>2 DEF InCd, Wd, Dirs, CdKnows, CdHistory, CdTarget, CdPath, CdAnswer
    <2>4. ~CdSet(j)
      BY <1>3 DEF BeginCd, Begin, CdSet
    <2> QED  BY <1>1, <1>2, <2>3, <2>4 DEF CdInv, CdKnows, ShellTypeOK
  <1>4. CASE CdResolve(j)
    <2>1. /\ pc[j] = "cd" /\ pc'[j] = "stat" /\ path'[j] = Resolve(Wd(j), path[j])
          /\ UNCHANGED <<tree, pwd, seenDirs, seenPwds>>
      BY <1>0, <1>4 DEF CdResolve, Goto, paths
    <2>2. /\ path[j] \in Targets /\ Wd(j) \in seenPwds[j] /\ Dirs(tree) \subseteq seenDirs[j]
      BY <1>0, <2>1 DEF CdKnows, CdTarget, CdHistory, InCd
    <2>3. CdKnows(j)'
      BY <2>1, <2>2 DEF InCd, Wd, Dirs, CdKnows, CdHistory, CdTarget, CdPath, CdAnswer
    <2>4. ~CdSet(j)
      BY <2>1 DEF CdSet
    <2> QED  BY <1>1, <1>2, <2>3, <2>4 DEF CdInv, CdKnows, ShellTypeOK
  <1>5. CASE CdStat(j)
    <2>1. ~CdSet(j) /\ pc[j] = "stat"
      BY <1>5 DEF CdSet, CdStat
    <2>2. CASE IsDir(path[j])
      <3>1. pc'[j] = "set" /\ UNCHANGED <<tree, pwd, path, seenDirs, seenPwds>>
        BY <1>0, <1>5, <2>2 DEF CdStat, Goto, locals
      <3>2. path[j].parts \in Dirs(tree)
        BY <2>2 DEF IsDir, Dirs
      <3>3. CdKnows(j)'
        BY <1>0, <2>1, <3>1, <3>2
        DEF InCd, Wd, Dirs, CdKnows, CdHistory, CdTarget, CdPath, CdAnswer
      <3> QED  BY <1>1, <1>2, <2>1, <3>3 DEF CdInv, CdKnows, ShellTypeOK
    <2>3. CASE ~IsDir(path[j])
      <3>1. pc'[j] = "idle"
        BY <1>0, <1>5, <2>3 DEF CdStat, CdFails, Done, Finish, Goto
      <3>3. CdKnows(j)'
        BY <3>1 DEF InCd, CdKnows, CdHistory, CdTarget, CdPath, CdAnswer
      <3> QED  BY <1>1, <1>2, <2>1, <3>3 DEF CdInv, CdKnows, ShellTypeOK
    <2> QED  BY <2>2, <2>3
  <1>6. CASE CdSet(j)
    <2>1. pc'[j] = "idle"
      BY <1>0, <1>6 DEF CdSet, Done, Finish, Goto
    <2>2. CdKnows(j)'
      BY <2>1 DEF InCd, CdKnows, CdHistory, CdTarget, CdPath, CdAnswer
    <2>3. ASSUME NEW i \in Jobs, i # j, InCd(i)  PROVE CdKnows(i)'
      <3>1. /\ pc'[i] = pc[i] /\ path'[i] = path[i] /\ UNCHANGED tree
            /\ seenDirs'[i] = seenDirs[i]
        BY <1>0, <1>6, <2>3 DEF CdSet, Done, Finish, Goto
      <3>2. CASE SessionOf[i] = SessionOf[j]
        <4>1. Wd(i)' = path[j] /\ seenPwds'[i] = seenPwds[i] \cup {path[j]}
          BY <1>0, <1>6, <2>3, <3>2, SessionAssumption DEF CdSet, Wd
        <4> QED
          BY <1>0, <3>1, <4>1
          DEF InCd, Dirs, CdKnows, CdHistory, CdTarget, CdPath, CdAnswer
      <3>3. CASE SessionOf[i] # SessionOf[j]
        <4>1. Wd(i)' = Wd(i) /\ seenPwds'[i] = seenPwds[i]
          BY <1>0, <1>6, <2>3, <3>3, SessionAssumption DEF CdSet, Wd
        <4> QED
          BY <1>0, <3>1, <4>1
          DEF InCd, Dirs, CdKnows, CdHistory, CdTarget, CdPath, CdAnswer
      <3> QED  BY <3>2, <3>3
    <2>4. ASSUME NEW i \in Jobs, i # j, ~InCd(i)  PROVE CdKnows(i)'
      <3>1. pc'[i] = pc[i]
        BY <1>0, <1>6, <2>4 DEF CdSet, Done, Finish, Goto
      <3> QED  BY <2>4, <3>1 DEF InCd, CdKnows, CdHistory, CdTarget, CdPath, CdAnswer
    <2> QED  BY <1>2, <2>2, <2>3, <2>4 DEF CdInv, CdKnows, ShellTypeOK
  <1> QED  BY <1>3, <1>4, <1>5, <1>6

LEMMA NextCdInv == ShellInv /\ CdInv /\ [Next]_vars => CdInv'
  <1> SUFFICES ASSUME ShellInv, CdInv, [Next]_vars PROVE CdInv'  OBVIOUS
  <1>0. ShellTypeOK'
    BY NextKeepsShellInv DEF ShellInv
  <1>1. ASSUME NEW j \in Jobs, JobStep(j) \/ CommandEnds(j)  PROVE CdInv'
    <2>1. CASE BeginCd(j) \/ CdResolve(j) \/ CdStat(j) \/ CdSet(j)
      BY <1>0, <2>1, CdSteps
    <2>2. CASE ~(BeginCd(j) \/ CdResolve(j) \/ CdStat(j) \/ CdSet(j))
      <3>1. Aside(j)
        BY <1>1, <2>2, OtherStepsAside DEF JobStep
      <3> QED  BY <1>0, <3>1, AsideKeepsCd
    <2> QED  BY <2>1, <2>2
  <1>2. ASSUME UNCHANGED <<paths, pc, path>>  PROVE CdInv'
    <2>1. \A i \in Jobs : CdKnows(i)'
      BY <1>2, CdUndisturbed DEF CdInv, CdKnows, paths
    <2> QED  BY <1>2, <2>1 DEF CdInv, CdKnows, paths
  <1>3. CASE \E s \in Sessions : Expire(s)
    BY <1>2, <1>3 DEF Expire, locals
  <1>4. CASE Rearrange
    <2>1. /\ UNCHANGED <<pwd, seenPwds, pc, path>>
          /\ seenDirs' = [j \in Jobs |-> IF InCd(j) THEN seenDirs[j] \cup Dirs(tree') ELSE {}]
      BY <1>4 DEF Rearrange, locals
    <2>2. ASSUME NEW i \in Jobs  PROVE CdKnows(i)'
      <3>1. CdKnows(i)
        BY DEF CdInv, CdKnows
      <3>2. CASE InCd(i)
        <4>1. seenDirs'[i] = seenDirs[i] \cup Dirs(tree')
          BY <2>1, <3>2
        <4>2. Dirs(tree)' = Dirs(tree')
          BY DEF Dirs
        <4> QED
          BY <2>1, <3>1, <4>1, <4>2
          DEF InCd, Wd, CdKnows, CdHistory, CdTarget, CdPath, CdAnswer
      <3>3. CASE ~InCd(i)
        BY <2>1, <3>3 DEF InCd, CdKnows, CdHistory, CdTarget, CdPath, CdAnswer
      <3> QED  BY <3>2, <3>3
    <2> QED  BY <2>1, <2>2 DEF CdInv, CdKnows
  <1>5. CASE Finished \/ UNCHANGED vars
    BY <1>2, <1>5 DEF Finished, vars, paths
  <1> QED  BY <1>1, <1>3, <1>4, <1>5 DEF Next

CdStep ==
    \A s \in Sessions : pwd'[s] # pwd[s] =>
       \E j \in Jobs : /\ SessionOf[j] = s /\ pc[j] = "set"
                       /\ pwd'[s].parts \in seenDirs[j]
                       /\ \E wd \in seenPwds[j], t \in Targets : pwd'[s] = Resolve(wd, t)

LEMMA OnlyCdMoves == CdInv /\ [Next]_vars => [CdStep]_vars
  <1> SUFFICES ASSUME CdInv, Next PROVE CdStep  OBVIOUS
  <1>1. ASSUME UNCHANGED pwd  PROVE CdStep
    BY <1>1 DEF CdStep
  <1>2. ASSUME NEW j \in Jobs, JobStep(j) \/ CommandEnds(j)  PROVE CdStep
    <2>1. CASE CdSet(j)
      <3>1. pc[j] = "set" /\ pwd' = [pwd EXCEPT ![SessionOf[j]] = path[j]]
        BY <2>1 DEF CdSet
      <3>2. /\ path[j].parts \in seenDirs[j]
            /\ \E wd \in seenPwds[j], t \in Targets : path[j] = Resolve(wd, t)
        BY <3>1 DEF CdInv, CdPath, CdAnswer
      <3>3. ASSUME NEW s \in Sessions, pwd'[s] # pwd[s]
            PROVE  SessionOf[j] = s /\ pwd'[s] = path[j]
        BY <3>1, <3>3 DEF CdInv
      <3> QED  BY <3>1, <3>2, <3>3 DEF CdStep
    <2>2. CASE BeginCd(j) \/ CdResolve(j) \/ CdStat(j)
      BY <1>1, <2>2 DEF BeginCd, Begin, CdResolve, CdStat, paths
    <2>3. CASE ~(BeginCd(j) \/ CdResolve(j) \/ CdStat(j) \/ CdSet(j))
      BY <1>1, <1>2, <2>3, OtherStepsAside DEF JobStep, Aside, paths
    <2> QED  BY <2>1, <2>2, <2>3
  <1>3. CASE (\E s \in Sessions : Expire(s)) \/ Rearrange \/ Finished
    BY <1>1, <1>3 DEF Expire, Rearrange, Finished, vars, paths
  <1> QED  BY <1>2, <1>3 DEF Next

(***************************************************************************)
(* For any jobs, sessions, targets and changes of the file system: a cd    *)
(* moves its session to a directory that was there at some time of the     *)
(* call, named by the target from a working directory the session had at   *)
(* some time of the call, and nothing else moves a session                 *)
(* (registry.go:83-101).                                                   *)
(***************************************************************************)
THEOREM CdIsTrue == Spec => CdTruth
  <1>1. Spec => [](ShellInv /\ CdInv)
    BY InitShellInv, NextKeepsShellInv, InitCdInv, NextCdInv, PTL DEF Spec
  <1>2. CdTruth <=> [][CdStep]_vars
    BY DEF CdTruth, CdStep
  <1> QED  BY <1>1, <1>2, OnlyCdMoves, PTL DEF Spec
-----------------------------------------------------------------------------
(***************************************************************************)
(* Paths.                                                                  *)
(***************************************************************************)
\* The paths that Clean works on: nothing above the root when they are
\* absolute, and otherwise the way up before the way down.
UpsFirst ==
    {s \in Seq(Elements \cup {Up}) :
        \A i, k \in 1..Len(s) : k < i /\ s[i] = Up => s[k] = Up}
Cleaned(abs) == IF abs THEN Seq(Elements) ELSE UpsFirst
LEMMA EmptyCleaned == ASSUME NEW abs \in BOOLEAN PROVE <<>> \in Cleaned(abs)
  BY EmptySeq DEF Cleaned, UpsFirst

LEMMA CleanStepCleans ==
  ASSUME NEW abs \in BOOLEAN, NEW s \in Cleaned(abs), NEW e \in Elements \cup {Up}
  PROVE  CleanStep(abs, s, e) \in Cleaned(abs)
  <1> DEFINE E == IF abs THEN Elements ELSE Elements \cup {Up}
  <1>1. s \in Seq(E) /\ Len(s) \in Nat
    BY LenProperties DEF Cleaned, UpsFirst
  <1>2. CASE e # Up
    <2>1. e \in E /\ CleanStep(abs, s, e) = Append(s, e)
      BY <1>2 DEF CleanStep
    <2>2. /\ Append(s, e) \in Seq(E) /\ Len(Append(s, e)) = Len(s) + 1
          /\ \A i \in 1..Len(s) : Append(s, e)[i] = s[i]
          /\ Append(s, e)[Len(s) + 1] = e
      BY <1>1, <2>1, AppendProperties
    <2>3. CASE abs
      BY <2>1, <2>2, <2>3 DEF Cleaned
    <2>4. CASE ~abs
      <3>1. \A i \in 1..Len(s) + 1 : Append(s, e)[i] = Up => i \in 1..Len(s)
        BY <1>1, <1>2, <2>2
      <3>2. \A i, k \in 1..Len(s) + 1 :
               k < i /\ Append(s, e)[i] = Up => Append(s, e)[k] = Up
        BY <1>1, <2>2, <2>4, <3>1 DEF Cleaned, UpsFirst
      <3> QED  BY <2>1, <2>2, <2>4, <3>2 DEF Cleaned, UpsFirst
    <2> QED  BY <2>3, <2>4
  <1>3. CASE e = Up /\ s # <<>> /\ Last(s) # Up
    <2>1. CleanStep(abs, s, e) = Front(s) /\ Front(s) = SubSeq(s, 1, Len(s) - 1)
      BY <1>3 DEF CleanStep, Front
    <2>2. Len(s) \in Nat \ {0} /\ \A i \in 1..Len(s) : s[i] \in E
      BY <1>1, <1>3, EmptySeq, ElementOfSeq
    <2> DEFINE m == Len(s) - 1  t == SubSeq(s, 1, m)
    <2>3. m \in Nat /\ m < Len(s)
      BY <2>2
    <2> HIDE DEF m
    <2>4. t \in Seq(E) /\ Len(t) = m /\ \A i \in 1..m : t[i] = s[i]
      <3>1. \A i \in 1..m : s[i] \in E
        BY <2>2, <2>3
      <3>2. /\ t \in Seq(E) /\ Len(t) = IF 1 <= m THEN m - 1 + 1 ELSE 0
            /\ \A i \in 1..m - 1 + 1 : t[i] = s[1 + i - 1]
        <4>1. 1 \in Int /\ m \in Int
          BY <2>3
        <4> HIDE DEF E
        <4> QED  BY <4>1, <3>1, SubSeqProperties
      <3> HIDE DEF t
      <3>3. Len(t) = m /\ m - 1 + 1 = m /\ \A i \in 1..m : 1 + i - 1 = i
        BY <2>3, <3>2
      <3> QED  BY <3>2, <3>3
    <2>5. CleanStep(abs, s, e) = t
      BY <2>1 DEF m
    <2> HIDE DEF t
    <2>6. CASE abs
      BY <2>4, <2>5, <2>6 DEF Cleaned
    <2>7. CASE ~abs
      <3>1. \A i, k \in 1..m : k < i /\ t[i] = Up => t[k] = Up
        BY <1>1, <2>3, <2>4, <2>7 DEF Cleaned, UpsFirst
      <3> QED  BY <2>4, <2>5, <2>7, <3>1 DEF Cleaned, UpsFirst
    <2> QED  BY <2>6, <2>7
  <1>4. CASE e = Up /\ (s = <<>> \/ Last(s) = Up)
    <2>1. CASE abs
      BY <1>4, <2>1 DEF CleanStep
    <2>2. CASE ~abs
      <3>1. CleanStep(abs, s, e) = Append(s, Up) /\ Up \in E
        BY <1>4, <2>2 DEF CleanStep
      <3>2. /\ Append(s, Up) \in Seq(E) /\ Len(Append(s, Up)) = Len(s) + 1
            /\ \A i \in 1..Len(s) : Append(s, Up)[i] = s[i]
            /\ Append(s, Up)[Len(s) + 1] = Up
        BY <1>1, <3>1, AppendProperties
      <3>3. ASSUME NEW k \in 1..Len(s)  PROVE s[k] = Up
        <4>1. s # <<>> /\ Len(s) \in 1..Len(s) /\ s[Len(s)] = Up
          BY <1>1, <1>4, <3>3 DEF Last
        <4>2. k < Len(s) \/ k = Len(s)
          BY <1>1
        <4> QED  BY <2>2, <4>1, <4>2 DEF Cleaned, UpsFirst
      <3>4. \A k \in 1..Len(s) + 1 : Append(s, Up)[k] = Up
        <4>1. \A k \in 1..Len(s) + 1 : k \in 1..Len(s) \/ k = Len(s) + 1
          BY <1>1
        <4> QED  BY <3>2, <3>3, <4>1
      <3> QED  BY <2>2, <3>1, <3>2, <3>4 DEF Cleaned, UpsFirst
    <2> QED  BY <2>1, <2>2
  <1> QED  BY <1>2, <1>3, <1>4

\* What Clean makes of any path, by induction over its elements.
LEMMA CleanPartsClean ==
  ASSUME NEW abs \in BOOLEAN, NEW parts \in Seq(Elements \cup {Up})
  PROVE  CleanParts(abs, parts) \in Cleaned(abs)
  <1> DEFINE L == Len(parts)  S == Cleaned(abs)
             F == [n \in 1..L |-> [s \in S |-> CleanStep(abs, s, parts[n])]]
             Step(f) == [n \in 0..L |-> IF n = 0 THEN <<>> ELSE CleanStep(abs, f[n - 1], parts[n])]
             upto == CHOOSE f : f = Step(f)
  <1>1. L \in Nat /\ \A n \in 1..L : parts[n] \in Elements \cup {Up}
    BY LenProperties, ElementOfSeq
  <1>2. <<>> \in S
    BY EmptyCleaned
  <1>3. \A n \in 1..L, s \in S : CleanStep(abs, s, parts[n]) \in S
    BY <1>1, CleanStepCleans
  <1>4. CleanParts(abs, parts) = upto[L]
    BY DEF CleanParts
  <1> HIDE DEF L, S
  <1>5. F \in [1..L -> [S -> S]]
    BY <1>3
  <1>6. \A n \in 1..L, s \in S : F[n][s] = CleanStep(abs, s, parts[n])
    OBVIOUS
  <1> HIDE DEF F
  <1>7. PICK g \in [0..L -> S] : g[0] = <<>> /\ \A n \in 1..L : g[n] = F[n][g[n - 1]]
    <2>1. StepByStep(L, S, <<>>, F)
      BY <1>1, <1>2, <1>5, RecursionExists
    <2> QED  BY <2>1 DEF StepByStep
  <1>8. g = Step(g)
    <2>1. ASSUME NEW n \in 0..L  PROVE g[n] = Step(g)[n]
      <3>1. CASE n = 0
        BY <1>7, <3>1
      <3>2. CASE n # 0
        <4>1. n \in 1..L /\ n - 1 \in 0..L /\ g[n - 1] \in S
          BY <1>1, <3>2
        <4> QED  BY <1>6, <1>7, <3>2, <4>1
      <3> QED  BY <3>1, <3>2
    <2> QED  BY <2>1
  <1>9. upto = Step(upto)
    BY <1>8
  <1> HIDE DEF upto
  <1>10. upto[0] = <<>> /\ \A n \in 1..L : upto[n] = CleanStep(abs, upto[n - 1], parts[n])
    <2>1. \A n \in 0..L : upto[n] = IF n = 0 THEN <<>> ELSE CleanStep(abs, upto[n - 1], parts[n])
      BY <1>9
    <2> QED  BY <1>1, <2>1
  <1> DEFINE K == {k \in Nat : k <= L => upto[k] \in S}
  <1>11. 0 \in K
    BY <1>2, <1>10
  <1>12. ASSUME NEW k \in Nat, k \in K  PROVE k + 1 \in K
    <2> SUFFICES ASSUME k + 1 <= L PROVE upto[k + 1] \in S  OBVIOUS
    <2>1. k + 1 \in 1..L /\ (k + 1) - 1 = k /\ upto[k] \in S
      BY <1>1, <1>12
    <2>2. upto[k + 1] = CleanStep(abs, upto[k], parts[k + 1])
      BY <1>10, <2>1
    <2> QED  BY <1>3, <2>1, <2>2
  <1> HIDE DEF K
  <1>13. L \in K
    BY <1>1, <1>11, <1>12, SetInduction
  <1> QED  BY <1>1, <1>4, <1>13 DEF K, S

\* Resolve never leads above the root (registry.go:66-80).
LEMMA ResolveInside ==
  ASSUME NEW wd \in ResolvedPath, NEW t \in ShellPath  PROVE Resolve(wd, t) \in ResolvedPath
  <1>1. ASSUME NEW abs \in BOOLEAN, NEW parts \in Seq(Elements \cup {Up}),
               NEW p, p = Clean([abs |-> abs, parts |-> parts])
        PROVE  (IF Outside(p) THEN Root ELSE p) \in ResolvedPath
    <2>1. p.abs = abs /\ p.parts \in Cleaned(abs) /\ p = [abs |-> p.abs, parts |-> p.parts]
      BY <1>1, CleanPartsClean DEF Clean
    <2>2. Root \in ResolvedPath
      BY EmptySeq DEF Root, ResolvedPath
    <2>3. CASE abs
      BY <2>1, <2>2, <2>3 DEF Cleaned, ResolvedPath, Outside
    <2>4. CASE ~abs /\ ~Outside(p)
      <3> DEFINE s == p.parts
      <3>1. /\ s \in Seq(Elements \cup {Up}) /\ Len(s) \in Nat
            /\ \A i, k \in 1..Len(s) : k < i /\ s[i] = Up => s[k] = Up
        BY <2>1, <2>4, LenProperties DEF Cleaned, UpsFirst
      <3>2. ASSUME NEW i \in 1..Len(s)  PROVE s[i] # Up
        <4>1. s # <<>> /\ Head(s) = s[1] /\ 1 \in 1..Len(s)
          BY <3>1
        <4>2. s[1] # Up
          BY <2>1, <2>4, <4>1 DEF Outside
        <4>3. i = 1 \/ 1 < i
          OBVIOUS
        <4> QED  BY <3>1, <4>1, <4>2, <4>3
      <3>3. \A i \in 1..Len(s) : s[i] \in Elements
        BY <3>1, <3>2, ElementOfSeq
      <3>4. s \in Seq(Elements)
        <4>1. s = [i \in 1..Len(s) |-> s[i]]
          BY <3>1
        <4> QED  BY <3>1, <3>3, <4>1
      <3> QED  BY <2>1, <2>4, <3>4 DEF ResolvedPath
    <2> QED  BY <2>2, <2>3, <2>4
  <1>2. t.slashes \in Nat /\ t.parts \in Seq(Elements \cup {Up}) /\ (t.slashes > 1) \in BOOLEAN
    BY DEF ShellPath
  <1>3. wd.abs \in BOOLEAN /\ wd.parts \in Seq(Elements)
    BY DEF ResolvedPath
  <1>4. wd.parts \o t.parts \in Seq(Elements \cup {Up})
    BY <1>2, <1>3, SeqMonotonic, ConcatProperties
  <1>5. CASE t.slashes > 0
    BY <1>1, <1>2, <1>5 DEF Resolve
  <1>6. CASE ~(t.slashes > 0)
    BY <1>1, <1>3, <1>4, <1>6 DEF Resolve
  <1> QED  BY <1>5, <1>6
\* Where a path still is the statement's target, and where it is resolved.
Unresolved == {"cd", "open"}
Resolved == {"stat", "set", "opening"}

InsideInv ==
    /\ DOMAIN pc = Jobs /\ DOMAIN path = Jobs
    /\ pwd \in [Sessions -> ResolvedPath] /\ dir \in [Jobs -> ResolvedPath]
    /\ \A j \in Jobs : pc[j] \in Unresolved => path[j] \in Targets
    /\ \A j \in Jobs : pc[j] \in Resolved => path[j] \in ResolvedPath

LEMMA RootResolved == Root \in ResolvedPath
  BY EmptySeq DEF Root, ResolvedPath

LEMMA InitInside == Init => InsideInv
  BY RootResolved DEF Init, InsideInv, Unresolved, Resolved

\* The end of a statement, and a step to where no path is wanted.
LEMMA FinishInside ==
  ASSUME NEW j \in Jobs, NEW r, NEW label \in {"idle", "halted"}, InsideInv,
         Finish(j, label, r), pwd' \in [Sessions -> ResolvedPath]
  PROVE  InsideInv'
  BY RootResolved DEF Finish, Goto, InsideInv, Unresolved, Resolved

LEMMA GotoInside ==
  ASSUME NEW j \in Jobs, NEW label, label \notin Unresolved \cup Resolved, InsideInv,
         Goto(j, label), UNCHANGED <<pwd, path>>, dir' \in [Jobs -> ResolvedPath]
  PROVE  InsideInv'
  BY DEF Goto, InsideInv

LEMMA JobInside ==
  ASSUME NEW j \in Jobs, InsideInv, JobStep(j) \/ CommandEnds(j)  PROVE InsideInv'
  <1>0. /\ DOMAIN pc = Jobs /\ DOMAIN path = Jobs
        /\ pwd \in [Sessions -> ResolvedPath] /\ dir \in [Jobs -> ResolvedPath]
        /\ Wd(j) \in ResolvedPath
    BY SessionAssumption DEF InsideInv, Wd
  <1>1. CASE BeginCd(j)
    <2>1. PICK t \in Targets : path' = [path EXCEPT ![j] = t]
      BY <1>1 DEF BeginCd, Named
    <2>2. pc' = [pc EXCEPT ![j] = "cd"] /\ UNCHANGED <<pwd, dir>>
      BY <1>1 DEF BeginCd, Begin, Goto
    <2> QED  BY <2>1, <2>2 DEF InsideInv, Unresolved, Resolved
  <1>2. CASE BeginRedirect(j)
    <2>1. PICK t \in Targets : path' = [path EXCEPT ![j] = t]
      BY <1>2 DEF BeginRedirect, Named
    <2>2. pc' = [pc EXCEPT ![j] = "open"] /\ UNCHANGED <<pwd, dir>>
      BY <1>2 DEF BeginRedirect, Begin, Goto
    <2> QED  BY <2>1, <2>2 DEF InsideInv, Unresolved, Resolved
  <1>3. CASE CdResolve(j) \/ OpenRead(j)
    <2>1. /\ pc[j] \in Unresolved /\ UNCHANGED <<pwd, dir>>
          /\ path' = [path EXCEPT ![j] = Resolve(Wd(j), path[j])]
      BY <1>3 DEF CdResolve, OpenRead, Unresolved, paths
    <2>2. PICK label \in Resolved : pc' = [pc EXCEPT ![j] = label]
      BY <1>3 DEF CdResolve, OpenRead, Goto, Resolved
    <2>3. path[j] \in ShellPath
      BY <2>1, PathAssumption DEF InsideInv
    <2>4. Resolve(Wd(j), path[j]) \in ResolvedPath
      BY <1>0, <2>3, ResolveInside
    <2>5. Unresolved \cap Resolved = {}
      BY DEF Unresolved, Resolved
    <2> QED  BY <2>1, <2>2, <2>4, <2>5 DEF InsideInv
  <1>4. CASE CdStat(j)
    <2>1. pc[j] = "stat" /\ UNCHANGED pwd
      BY <1>4 DEF CdStat
    <2>2. CASE Goto(j, "set") /\ UNCHANGED locals
      BY <2>1, <2>2 DEF Goto, locals, InsideInv, Unresolved, Resolved
    <2>3. CASE CdFails(j)
      BY <1>0, <2>1, <2>3, FinishInside DEF CdFails, Done
    <2> QED  BY <1>4, <2>2, <2>3 DEF CdStat
  <1>5. CASE CdSet(j)
    <2>1. path[j] \in ResolvedPath
      BY <1>5 DEF CdSet, InsideInv, Resolved
    <2>2. pwd' \in [Sessions -> ResolvedPath]
      BY <1>0, <1>5, <2>1 DEF CdSet
    <2> QED  BY <1>5, <2>2, FinishInside DEF CdSet, Done
  <1>6. CASE OpenWrite(j) \/ Opened(j)
    <2>1. UNCHANGED pwd /\ (Done(j, "status") \/ \E r : Halt(j, r))
      BY <1>6 DEF OpenWrite, Opened, paths
    <2> QED  BY <1>0, <2>1, FinishInside DEF Done, Halt
  <1>7. CASE Exec(j)
    <2>1. UNCHANGED pwd
      BY <1>7 DEF Exec, paths
    <2>2. CASE Done(j, "status")
      BY <1>0, <2>1, <2>2, FinishInside DEF Done
    <2>3. CASE ~Done(j, "status")
      <3>1. PICK label \in {"native", "once"} : Goto(j, label)
        BY <1>7, <2>3 DEF Exec
      <3>2. dir' = [dir EXCEPT ![j] = Wd(j)] /\ UNCHANGED path
        BY <1>7, <2>3 DEF Exec
      <3> QED  BY <1>0, <2>1, <3>1, <3>2, GotoInside DEF Unresolved, Resolved
    <2> QED  BY <2>2, <2>3
  <1>8. CASE BeginExec(j) \/ Ends(j) \/ OnceFirst(j)
    <2>1. PICK label \in {"exec", "halted", "compile"} : Goto(j, label)
      BY <1>8 DEF BeginExec, Begin, Ends, OnceFirst
    <2>2. UNCHANGED <<pwd, path, dir>>
      BY <1>8 DEF BeginExec, Begin, Ends, OnceFirst, paths, locals
    <2> QED  BY <1>0, <2>1, <2>2, GotoInside DEF Unresolved, Resolved
  <1>9. CASE OnceOthers(j) \/ Compiled(j) \/ Instantiate(j) \/ CommandEnds(j)
    <2>1. UNCHANGED pwd
      BY <1>9 DEF OnceOthers, Compiled, Instantiate, CommandEnds, NativeEnds, GuestExits,
                  GuestTraps, paths
    <2>2. \/ Goto(j, "start") /\ UNCHANGED locals
          \/ Goto(j, "guest") /\ UNCHANGED locals
          \/ Done(j, "status") \/ \E r : Halt(j, r)
      BY <1>9 DEF OnceOthers, Compiled, Instantiate, CommandEnds, NativeEnds, GuestExits,
                  GuestTraps
    <2>3. CASE (Goto(j, "start") \/ Goto(j, "guest")) /\ UNCHANGED locals
      BY <1>0, <2>1, <2>3, GotoInside DEF locals, Unresolved, Resolved
    <2>4. CASE Done(j, "status") \/ \E r : Halt(j, r)
      BY <1>0, <2>1, <2>4, FinishInside DEF Done, Halt
    <2> QED  BY <2>2, <2>3, <2>4
  <1> QED
    BY <1>1, <1>2, <1>3, <1>4, <1>5, <1>6, <1>7, <1>8, <1>9 DEF JobStep

LEMMA NextInside == InsideInv /\ [Next]_vars => InsideInv'
  <1> SUFFICES ASSUME InsideInv, [Next]_vars PROVE InsideInv'  OBVIOUS
  <1>1. ASSUME UNCHANGED <<pc, path, pwd, dir>>  PROVE InsideInv'
    BY <1>1 DEF InsideInv
  <1>2. CASE (\E s \in Sessions : Expire(s)) \/ Rearrange \/ Finished \/ UNCHANGED vars
    BY <1>1, <1>2 DEF Expire, Rearrange, Finished, vars, paths, locals
  <1> QED  BY <1>2, JobInside DEF Next

(***************************************************************************)
(* No working directory, no directory a command is given and no path that  *)
(* is opened leads above the root of the file system, whatever targets the *)
(* statements name and however many jobs move at once (registry.go:66-80). *)
(***************************************************************************)
THEOREM NothingOutside == Spec => []PathsInside
  <1>1. InsideInv => PathsInside
    <2>1. \A p \in ResolvedPath : p.parts \in Seq(Elements)
      BY DEF ResolvedPath
    <2> QED  BY <2>1 DEF InsideInv, PathsInside, Resolved
  <1> QED  BY <1>1, InitInside, NextInside, PTL DEF Spec
=============================================================================
