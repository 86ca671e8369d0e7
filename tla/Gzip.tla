-------------------------------- MODULE Gzip --------------------------------
(***************************************************************************)
(* gzip, gzip -d and gunzip replacing files: compressMode, decompressMode  *)
(* and writeOutput of command/internal/gzip/gzip.go, decompressFiles,      *)
(* collectFiles, readFile and writeOutput of                               *)
(* command/internal/gunzip/gunzip.go.                                      *)
(*                                                                         *)
(* Commands run at the same time (both sides of a pipeline, background     *)
(* jobs), so every call on the file system is a step of its own (only the  *)
(* Stats of collectFiles are taken together: they change nothing).  The    *)
(* file system is external and may fail at every call.  Two kinds are      *)
(* used: the kefka shell runs on osfs, where Create truncates and Write    *)
(* changes the file; sophia runs on s3fs, where a write handle is a buffer *)
(* that Close uploads whole (s3fs/file.go:205-260) and where OpenFile      *)
(* refuses O_CREATE (s3fs/basic.go:54-57).                                 *)
(*                                                                         *)
(* A path is [at, base, n]: the base name with n suffixes, in the          *)
(* directory reached from the root by joining the working directory `at`   *)
(* times.  Contents are named by the path whose datum they carry.          *)
(***************************************************************************)
EXTENDS Integers, Sequences, FiniteSets

CONSTANTS
    Proc,        \* commands running
    Base,        \* base names
    MaxSuffix,   \* most suffixes on a name
    MaxFiles,    \* most files at the start
    Setups,      \* who runs what where, see Setup
    Absent,      \* no file
    Lost,        \* content that carries no datum: empty or cut off
    ThisDir      \* the argument "."

AllFaults == {"stat", "open", "look", "create", "write", "close", "remove"}
Path == [at : 0..2, base : Base, n : 0..MaxSuffix]

\* bare is -S ''.  Arguments are relative to the working directory.  Without
\* arguments a command reads its standard input and touches no file.
Argument == {f \in Path : f.at = 0} \cup {ThisDir}
Command == [prog : {"gzip", "gzip -d", "gunzip"}, force : BOOLEAN,
            keep : BOOLEAN, stdout : BOOLEAN, bare : BOOLEAN,
            args : Seq(Argument)]

\* A datum: the file it comes from, and how often it is compressed.
Content == [of : Path \cup {Lost}, z : Int]
Nothing == [of |-> Lost, z |-> 0]

\* The file system, the working directory (0 when it is the root), the calls
\* that may fail, and the command line of each process.
Setup == [backend : {"osfs", "s3fs"}, here : {0, 1}, faults : SUBSET AllFaults,
          cmd : [Proc -> Command]]

ASSUME GzipAssumption ==
    /\ MaxSuffix \in Nat \ {0} /\ MaxFiles \in Nat /\ IsFiniteSet(Base)
    /\ Setups \subseteq Setup
    /\ Lost \notin Path /\ ThisDir \notin Path /\ Absent \notin Content

VARIABLES
    setup,           \* the setup, fixed
    fs,              \* the file system
    pc,              \* next call of each command
    todo,            \* files still to process, the current one first
    data,            \* payload for the current file
    short,           \* the last Write was cut off
    linked,          \* commands whose output handle is the file at that path
    failed,          \* exit status is not 0
    born, consented, \* history: data at the start; data overwritten under -f
    stuck            \* history: files that a Remove failed to remove

backend == setup.backend
here == setup.here
cmd == setup.cmd
MayFail(call) == call \in setup.faults

fixed == <<setup, born>>
vars == <<fixed, fs, pc, todo, data, short, linked, failed, consented,
          stuck>>

Pack(c) == [c EXCEPT !.z = @ + 1]
Unpack(c) == [c EXCEPT !.z = @ - 1]
\* isGzip and decompressData succeed.
IsGzip(c) == c.z > 0

-----------------------------------------------------------------------------
Gunzip(p) == cmd[p].prog = "gunzip"
Compresses(p) == cmd[p].prog = "gzip"

HasSuffix(p, f) == cmd[p].bare \/ f.n > 0
TrimSuffix(p, f) == IF cmd[p].bare THEN f ELSE [f EXCEPT !.n = @ - 1]
AddSuffix(f) == [f EXCEPT !.n = @ + 1]

ResolvePath(f) == [f EXCEPT !.at = @ + here]

File(p) == Head(todo[p])
Source(p) == ResolvePath(File(p))

\* gzip resolves the output's name, gunzip does not.
Output(p) ==
    IF Gunzip(p) THEN TrimSuffix(p, File(p))
    ELSE ResolvePath(IF Compresses(p) THEN AddSuffix(File(p))
                     ELSE TrimSuffix(p, File(p)))

Exists(f) == fs[f] # Absent

\* Paths of gzip files in the working directory, as ReadDir lists them.
Listed(p) == {f \in Path : f.at = here /\ Exists(f) /\ HasSuffix(p, f)}

Init ==
    /\ setup \in Setups
    /\ born \in {b \in SUBSET {f \in Path : f.at \in {0, here}} :
                   Cardinality(b) <= MaxFiles}
    /\ \E plain \in SUBSET born :
          fs = [f \in Path |->
                  IF f \notin born THEN Absent
                  ELSE [of |-> f, z |-> IF f \in plain THEN 0 ELSE f.n]]
    /\ pc = [p \in Proc |-> IF cmd[p].args = <<>> THEN "done"
                             ELSE IF Gunzip(p) THEN "collect" ELSE "loop"]
    /\ todo = [p \in Proc |-> cmd[p].args]
    /\ data = [p \in Proc |-> Nothing]
    /\ short = [p \in Proc |-> FALSE]
    /\ linked = {}
    /\ failed = [p \in Proc |-> FALSE]
    /\ consented = {} /\ stuck = {}

-----------------------------------------------------------------------------
Goto(p, l) == pc' = [pc EXCEPT ![p] = l]

\* On to the next file: the loop ends when none is left.
Continue(p) ==
    /\ todo' = [todo EXCEPT ![p] = Tail(@)]
    /\ Goto(p, IF Len(todo[p]) = 1 THEN "done" ELSE "loop")

\* A failure on the current file: gzip notes it and goes on, gunzip returns.
Fail(p) ==
    /\ failed' = [failed EXCEPT ![p] = TRUE]
    /\ IF Gunzip(p) THEN Goto(p, "done") /\ UNCHANGED todo ELSE Continue(p)

\* Remove of the file system: a handle on the file is left without a path.  An
\* error is ignored by both callers.
Remove(f) ==
    \/ /\ fs' = [fs EXCEPT ![f] = Absent]
       /\ linked' = {q \in linked : Output(q) # f}
       /\ UNCHANGED stuck
    \/ /\ MayFail("remove")
       /\ stuck' = stuck \cup {f}
       /\ UNCHANGED <<fs, linked>>

\* gunzip: collectFiles, over all arguments before the first file is read.  A
\* directory is skipped, or with -r (the argument "." alone) stands for the
\* files ReadDir lists, already joined with the directory.  A Stat or the
\* ReadDir that fails ends the command.
Collect(p) ==
    /\ pc[p] = "collect"
    /\ LET args == cmd[p].args
           missing == \E i \in DOMAIN args :
                         args[i] # ThisDir /\ ~Exists(ResolvePath(args[i]))
           named == {i \in DOMAIN args : args[i] # ThisDir}
           m == Cardinality(named)
           n == Cardinality(Listed(p))
       IN  \/ /\ missing \/ MayFail("stat")
              /\ failed' = [failed EXCEPT ![p] = TRUE] /\ Goto(p, "done")
              /\ UNCHANGED todo
           \/ /\ ~missing /\ args # <<ThisDir>>
              /\ \E at \in [1..m -> named] :
                    /\ \A i, j \in 1..m : i < j => at[i] < at[j]
                    /\ todo' = [todo EXCEPT ![p] = [i \in 1..m |-> args[at[i]]]]
              /\ Goto(p, IF m = 0 THEN "done" ELSE "loop")
              /\ UNCHANGED failed
           \/ /\ args = <<ThisDir>>
              /\ \E order \in [1..n -> Listed(p)] :
                    /\ \A i, j \in 1..n : order[i] = order[j] => i = j
                    /\ todo' = [todo EXCEPT ![p] = order]
              /\ Goto(p, IF n = 0 THEN "done" ELSE "loop")
              /\ UNCHANGED failed
    /\ UNCHANGED <<fixed, fs, data, short, linked, consented, stuck>>

\* gzip: Stat of the source, then the directory and suffix tests.  gunzip goes
\* straight to reading the file.
StatSource(p) ==
    /\ pc[p] = "loop"
    /\ \/ Gunzip(p) /\ Goto(p, "open") /\ UNCHANGED <<todo, failed>>
       \/ /\ ~Gunzip(p)
          /\ \/ File(p) = ThisDir /\ Continue(p) /\ UNCHANGED failed
             \/ /\ MayFail("stat") \/ (File(p) # ThisDir /\ ~Exists(Source(p)))
                /\ Fail(p)
             \/ /\ File(p) # ThisDir /\ Exists(Source(p)) /\ UNCHANGED failed
                /\ IF HasSuffix(p, File(p)) = Compresses(p)
                   THEN Continue(p)
                   ELSE Goto(p, "open") /\ UNCHANGED todo
    /\ UNCHANGED <<fixed, fs, data, short, linked, consented, stuck>>

\* Open and ReadAll of the source, compressData or isGzip and decompressData,
\* and what ends the work on this file before there is an output: -c, or for
\* gunzip a name without the suffix.
ReadSource(p) ==
    /\ pc[p] = "open"
    /\ LET c == IF Exists(Source(p)) THEN fs[Source(p)] ELSE Nothing
           good == Exists(Source(p)) /\ (Compresses(p) \/ IsGzip(c))
           ends == \/ cmd[p].stdout
                   \/ Gunzip(p) /\ (cmd[p].bare \/ ~HasSuffix(p, File(p)))
       IN  \/ (~good \/ MayFail("open")) /\ Fail(p) /\ UNCHANGED data
           \/ /\ good
              /\ data' = [data EXCEPT ![p] =
                            IF Compresses(p) THEN Pack(c) ELSE Unpack(c)]
              /\ IF ends THEN Continue(p) ELSE Goto(p, "stat") /\ UNCHANGED todo
              /\ UNCHANGED failed
    /\ UNCHANGED <<fixed, fs, short, linked, consented, stuck>>

\* Stat of the output: a file that is there is kept unless -f; a Stat that
\* fails ("look") counts as none there.
StatOutput(p) ==
    /\ pc[p] = "stat"
    /\ \E err \in BOOLEAN :
          /\ err => MayFail("look")
          /\ LET there == Exists(Output(p)) /\ ~err
             IN  \/ /\ there /\ ~cmd[p].force
                    /\ Continue(p) /\ UNCHANGED consented
                 \/ /\ there => cmd[p].force
                    /\ consented' = consented \cup
                          (IF there THEN {fs[Output(p)].of} \ {data[p].of, Lost}
                           ELSE {})
                    /\ Goto(p, "create") /\ UNCHANGED todo
    /\ UNCHANGED <<fixed, fs, data, short, linked, failed, stuck>>

-----------------------------------------------------------------------------
(***************************************************************************)
(* writeOutput: Create or OpenFile, Write, Close, and Remove of what is    *)
(* presumed corrupt.                                                       *)
(***************************************************************************)
CreateOutput(p) ==
    /\ pc[p] = "create"
    /\ ~(backend = "s3fs" /\ Gunzip(p))
    /\ fs' = IF backend = "osfs" THEN [fs EXCEPT ![Output(p)] = Nothing] ELSE fs
    /\ linked' = linked \cup {p}
    /\ Goto(p, "write")
    /\ UNCHANGED <<fixed, todo, data, short, failed, consented, stuck>>

CreateFails(p) ==
    /\ pc[p] = "create"
    /\ \/ backend = "osfs" /\ MayFail("create")
       \/ backend = "s3fs" /\ Gunzip(p)
    /\ Fail(p)
    /\ UNCHANGED <<fixed, fs, data, short, linked, consented, stuck>>

\* Mutant: the count that Write returns is not compared.
Write_Uncounted(p) ==
    /\ pc[p] = "write"
    /\ \E cut \in BOOLEAN :
          /\ cut => backend = "osfs" /\ MayFail("write")
          /\ short' = [short EXCEPT ![p] = FALSE]
          /\ fs' = IF backend = "osfs" /\ p \in linked
                   THEN [fs EXCEPT ![Output(p)] = IF cut THEN Nothing ELSE data[p]]
                   ELSE fs
    /\ Goto(p, "close")
    /\ UNCHANGED <<fixed, todo, data, linked, failed, consented, stuck>>

\* Write of the payload.  It may be cut off, with an error or with a small n.
\* s3fs buffers all of it.
Write(p) ==
    /\ pc[p] = "write"
    /\ \E cut \in BOOLEAN :
          /\ cut => backend = "osfs" /\ MayFail("write")
          /\ short' = [short EXCEPT ![p] = cut]
          /\ fs' = IF backend = "osfs" /\ p \in linked
                   THEN [fs EXCEPT ![Output(p)] = IF cut THEN Nothing ELSE data[p]]
                   ELSE fs
    /\ Goto(p, "close")
    /\ UNCHANGED <<fixed, todo, data, linked, failed, consented, stuck>>

\* Mutant: the error of Close is ignored.
Close_Unchecked(p) ==
    /\ pc[p] = "close"
    /\ \E err, done \in BOOLEAN :
          /\ err => MayFail("close")
          /\ ~err => done
          /\ fs' = IF backend = "s3fs" /\ done
                   THEN [fs EXCEPT ![Output(p)] = data[p]] ELSE fs
          /\ IF short[p] THEN Goto(p, "cleanup") /\ UNCHANGED todo
             ELSE IF cmd[p].keep THEN Continue(p)
             ELSE Goto(p, "unlink") /\ UNCHANGED todo
    /\ linked' = linked \ {p}
    /\ UNCHANGED <<fixed, data, short, failed, consented, stuck>>

\* Close; the error and the count of Write are looked at afterwards.  An upload
\* that fails may have taken effect.
Close(p) ==
    /\ pc[p] = "close"
    /\ \E err, done \in BOOLEAN :
          /\ err => MayFail("close")
          /\ ~err => done
          /\ fs' = IF backend = "s3fs" /\ done
                   THEN [fs EXCEPT ![Output(p)] = data[p]] ELSE fs
          /\ IF err \/ short[p] THEN Goto(p, "cleanup") /\ UNCHANGED todo
             ELSE IF cmd[p].keep THEN Continue(p)
             ELSE Goto(p, "unlink") /\ UNCHANGED todo
    /\ linked' = linked \ {p}
    /\ UNCHANGED <<fixed, data, short, failed, consented, stuck>>

\* Mutant: what was written is left in place.
Cleanup_Skipped(p) ==
    /\ pc[p] = "cleanup"
    /\ Fail(p)
    /\ UNCHANGED <<fixed, fs, data, short, linked, consented, stuck>>

\* Remove of the output.
Cleanup(p) ==
    /\ pc[p] = "cleanup"
    /\ Remove(Output(p))
    /\ Fail(p)
    /\ UNCHANGED <<fixed, data, short, consented>>

\* Remove of the source, unless -k.
Unlink(p) ==
    /\ pc[p] = "unlink"
    /\ Remove(Source(p))
    /\ Continue(p)
    /\ UNCHANGED <<fixed, data, short, failed, consented>>

-----------------------------------------------------------------------------
Step(p) ==
    \/ Collect(p) \/ StatSource(p) \/ ReadSource(p) \/ StatOutput(p)
    \/ CreateOutput(p) \/ CreateFails(p) \/ Write(p) \/ Close(p)
    \/ Cleanup(p) \/ Unlink(p)

AllDone == \A p \in Proc : pc[p] = "done"

Finished == AllDone /\ UNCHANGED vars

Next == (\E p \in Proc : Step(p)) \/ Finished

Spec == Init /\ [][Next]_vars

-----------------------------------------------------------------------------
(***************************************************************************)
(* No datum is lost: at every moment, so also if the program dies there,   *)
(* each datum that was in a file is whole in some file, unless -f gave up  *)
(* the file that held it.  Whatever call fails, gzip and gunzip            *)
(* (gzip.go:335-353, gunzip.go:231-248) keep one good copy.                *)
(***************************************************************************)
DataKept ==
    \A f \in born \ consented : \E g \in Path : Exists(g) /\ fs[g].of = f

(***************************************************************************)
(* The source is removed only when the output holds all of the payload     *)
(* made from it: a short write or a failed Close never leads there         *)
(* (gzip.go:496-519, gunzip.go:327-350).                                   *)
(***************************************************************************)
RemovedAfterReplaced ==
    [][\A p \in Proc : pc[p] = "unlink" /\ pc'[p] # "unlink" =>
          fs[Output(p)] = data[p]]_vars

(***************************************************************************)
(* When the commands have ended no empty or cut off output is left behind, *)
(* except one whose Remove failed (gzip.go:511-517, gunzip.go:342-348).    *)
(***************************************************************************)
NoCorruptOutput ==
    AllDone => \A f \in Path \ stuck : Exists(f) => fs[f].of # Lost

=============================================================================
