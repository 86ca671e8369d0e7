------------------------------- MODULE Shell -------------------------------
(***************************************************************************)
(* The shell's side of a command: working directories and handlers         *)
(* (command/registry/registry.go, billysh/billysh.go), and WASI programs   *)
(* compiled once and instantiated for each call (command/uutils,           *)
(* command/wasmcommand, command/internal/{python3,qjs,rg,jo,jq}).          *)
(*                                                                         *)
(* A job is a goroutine of the interpreter that runs statements one after  *)
(* the other: the line itself, a stage of a pipeline, a background job.    *)
(* The jobs of one session share a registry; all jobs of the process share *)
(* the runtimes.  A shell path is its leading slashes and its elements; a  *)
(* resolved path keeps whether it still starts with a slash.  Which exit    *)
(* status a statement has is left out: every one lets the job go on.       *)
(***************************************************************************)
EXTENDS Integers, Sequences, FiniteSets, SequencesExt

CONSTANTS
    Jobs, Sessions, SessionOf,
    Elements,     \* names in the file system
    Targets,      \* paths that statements name: [slashes, parts]
    Tree0,        \* the file system at the start: path -> "dir", "file"
    Unsettled,    \* paths that other commands make and remove as directories
    Commands, ProgramOf, InstanceName,  \* "native", "unknown" or a program
    Programs,
    Menu,         \* what a job may run: "cd", "redirect" and commands
    MaxStatements \* bound on the statements of each job

Up == ".."
\* What a statement names, and what the registry makes of it.
ShellPath == [slashes : Nat, parts : Seq(Elements \cup {Up})]
ResolvedPath == [abs : BOOLEAN, parts : Seq(Elements)]
NoCommand == "no command"
ASSUME SessionAssumption == SessionOf \in [Jobs -> Sessions]
ASSUME PathAssumption == Up \notin Elements /\ Targets \subseteq ShellPath
ASSUME StatementAssumption == MaxStatements \in [Jobs -> Nat]
ASSUME MenuAssumption == \A j \in Jobs : Menu[j] \subseteq Commands \cup {"cd", "redirect"}
ASSUME CommandAssumption ==
    /\ ProgramOf \in [Commands -> Programs \cup {"native", "unknown"}]
    /\ InstanceName \in [Commands -> STRING]
    /\ {"native", "unknown"} \cap Programs = {}
    \* Names are those of one runtime: two programs never share one.
    /\ \A c, d \in Commands : InstanceName[c] = InstanceName[d] => ProgramOf[c] = ProgramOf[d]

VARIABLES
    tree,       \* the file system of the sessions
    pwd,        \* Impl.pwd of each session's registry
    expired,    \* sessions whose line has run into its timeout
    once,       \* the sync.Once of each program, and its outcome
    live,       \* <<name, job>>: instances registered in the runtimes
    pc, left, cmd,
    path,       \* what the job has resolved, or its target
    dir,        \* ExecContext.Dir
    result,     \* of the last statement
    seenDirs, seenPwds  \* history: directories and working directories that
                        \* were there at some time of the current statement

vars == <<tree, pwd, expired, once, live, pc, left, cmd, path, dir, result, seenDirs, seenPwds>>
-----------------------------------------------------------------------------
(* Paths *)
Root == [abs |-> FALSE, parts |-> <<>>]

\* path.Clean: an absolute path has nothing above it, a relative one may.
CleanStep(abs, parts, e) ==
    IF e # Up THEN Append(parts, e)
    ELSE IF parts # <<>> /\ Last(parts) # Up THEN Front(parts)
    ELSE IF abs THEN parts ELSE Append(parts, Up)
CleanParts(abs, parts) ==
    LET upto[n \in 0..Len(parts)] ==
          IF n = 0 THEN <<>> ELSE CleanStep(abs, upto[n - 1], parts[n])
    IN upto[Len(parts)]
Clean(p) == [abs |-> p.abs, parts |-> CleanParts(p.abs, p.parts)]

Outside(p) == ~p.abs /\ p.parts # <<>> /\ Head(p.parts) = Up

\* One leading slash is trimmed; what is above the root becomes the root.
Resolve_NoClamp(wd, t) ==
    IF t.slashes > 0 THEN Clean([abs |-> t.slashes > 1, parts |-> t.parts])
    ELSE Clean([abs |-> wd.abs, parts |-> wd.parts \o t.parts])
Resolve(wd, t) ==
    LET p == IF t.slashes > 0 THEN Clean([abs |-> t.slashes > 1, parts |-> t.parts])
             ELSE Clean([abs |-> wd.abs, parts |-> wd.parts \o t.parts])
    IN IF Outside(p) THEN Root ELSE p

\* The file system drops a leading slash.
IsDir(p) == p.parts \in DOMAIN tree /\ tree[p.parts] = "dir"
Dirs(t) == {q \in DOMAIN t : t[q] = "dir"}
-----------------------------------------------------------------------------
Wd(j) == pwd[SessionOf[j]]
paths == <<tree, pwd, seenDirs, seenPwds>>
modules == <<once, live>>
Goto(j, label) == pc' = [pc EXCEPT ![j] = label]
\* The end of a statement, and of its local variables.
Finish(j, label, r) ==
    /\ Goto(j, label) /\ result' = [result EXCEPT ![j] = r]
    /\ cmd' = [cmd EXCEPT ![j] = NoCommand]
    /\ path' = [path EXCEPT ![j] = Root] /\ dir' = [dir EXCEPT ![j] = Root]
Done(j, r) == Finish(j, "idle", r)
\* An error that is no exit status halts the runner.
Halt(j, r) == Finish(j, "halted", r)
locals == <<cmd, path, dir, result>>

Init ==
    /\ tree = Tree0
    /\ pwd = [s \in Sessions |-> Root] /\ expired = {}
    /\ once = [g \in Programs |-> "no"] /\ live = {}
    /\ pc = [j \in Jobs |-> "idle"] /\ left = MaxStatements
    /\ cmd = [j \in Jobs |-> NoCommand]
    /\ path = [j \in Jobs |-> Root] /\ dir = [j \in Jobs |-> Root]
    /\ result = [j \in Jobs |-> "none"]
    /\ seenDirs = [j \in Jobs |-> {}] /\ seenPwds = [j \in Jobs |-> {}]

\* The interpreter looks at the context before each statement.
Begin(j, label) ==
    /\ pc[j] = "idle" /\ left[j] > 0 /\ SessionOf[j] \notin expired
    /\ Goto(j, label) /\ left' = [left EXCEPT ![j] = @ - 1]
    /\ UNCHANGED <<tree, pwd, expired, modules, dir, result>>
Named(j) == \E t \in Targets : path' = [path EXCEPT ![j] = t]
BeginCd(j) ==
    /\ "cd" \in Menu[j] /\ Begin(j, "cd") /\ Named(j)
    /\ seenDirs' = [seenDirs EXCEPT ![j] = Dirs(tree)]
    /\ seenPwds' = [seenPwds EXCEPT ![j] = {Wd(j)}]
    /\ UNCHANGED cmd
BeginRedirect(j) ==
    /\ "redirect" \in Menu[j] /\ Begin(j, "open") /\ Named(j)
    /\ UNCHANGED <<cmd, seenDirs, seenPwds>>
BeginExec(j) ==
    /\ Begin(j, "exec")
    /\ \E c \in Menu[j] \cap Commands : cmd' = [cmd EXCEPT ![j] = c]
    /\ UNCHANGED <<path, seenDirs, seenPwds>>
Ends(j) ==
    /\ pc[j] = "idle" /\ (left[j] = 0 \/ SessionOf[j] \in expired)
    /\ Goto(j, "halted")
    /\ UNCHANGED <<paths, expired, modules, left, locals>>

InCd(j) == pc[j] \in {"cd", "stat", "set"}
\* Chdir resolves the target, asks the file system, and then sets pwd.
CdResolve(j) ==
    /\ pc[j] = "cd" /\ Goto(j, "stat")
    /\ path' = [path EXCEPT ![j] = Resolve(Wd(j), path[j])]
    /\ UNCHANGED <<paths, expired, modules, left, cmd, dir, result>>
Forget(j) == seenDirs' = [seenDirs EXCEPT ![j] = {}] /\ seenPwds' = [seenPwds EXCEPT ![j] = {}]
CdFails(j) == Done(j, "status") /\ Forget(j)
\* Mutant: whatever is there will do.
CdStat_AnyFile(j) ==
    /\ pc[j] = "stat"
    /\ IF path[j].parts \in DOMAIN tree THEN Goto(j, "set") /\ UNCHANGED <<locals, seenDirs, seenPwds>>
       ELSE CdFails(j)
    /\ UNCHANGED <<tree, pwd, expired, modules, left>>
CdStat(j) ==
    /\ pc[j] = "stat"
    /\ IF IsDir(path[j]) THEN Goto(j, "set") /\ UNCHANGED <<locals, seenDirs, seenPwds>>
       ELSE CdFails(j)
    /\ UNCHANGED <<tree, pwd, expired, modules, left>>
CdSet(j) ==
    /\ pc[j] = "set" /\ Done(j, "status")
    /\ pwd' = [pwd EXCEPT ![SessionOf[j]] = path[j]]
    /\ seenDirs' = [seenDirs EXCEPT ![j] = {}]
    /\ seenPwds' = [i \in Jobs |-> IF i = j \/ ~InCd(i) THEN {}
                                   ELSE IF SessionOf[i] = SessionOf[j] THEN seenPwds[i] \cup {path[j]}
                                   ELSE seenPwds[i]]
    /\ UNCHANGED <<tree, expired, modules, left>>

\* A redirection: one for writing is refused before its path is resolved.
OpenRead(j) ==
    /\ pc[j] = "open" /\ Goto(j, "opening")
    /\ path' = [path EXCEPT ![j] = Resolve(Wd(j), path[j])]
    /\ UNCHANGED <<paths, expired, modules, left, cmd, dir, result>>
OpenWrite(j) ==
    /\ pc[j] = "open" /\ Done(j, "status")
    /\ UNCHANGED <<paths, expired, modules, left>>
\* The file is open, or an *os.PathError makes the redirection fail; any other
\* error of the file system, a failed request, halts the runner.
Opened(j) ==
    /\ pc[j] = "opening"
    /\ Done(j, "status") \/ Halt(j, "can't open")
    /\ UNCHANGED <<paths, expired, modules, left>>

\* Exec: look the name up, take the working directory, call the command.
Exec(j) ==
    LET g == ProgramOf[cmd[j]] IN
    /\ pc[j] = "exec"
    /\ IF g = "unknown" THEN Done(j, "status")
       ELSE /\ dir' = [dir EXCEPT ![j] = Wd(j)]
            /\ Goto(j, IF g = "native" THEN "native" ELSE "once")
            /\ UNCHANGED <<cmd, path, result>>
    /\ UNCHANGED <<paths, expired, modules, left>>
\* A native command need not end: it may wait for its standard input, or run
\* other commands itself (find -exec, env, time), which are not opened up here.
\* It returns an exit status, or an error that is none: a failed write, say.
NativeEnds(j) ==
    /\ pc[j] = "native"
    /\ Done(j, "status") \/ Halt(j, "error")
    /\ UNCHANGED <<paths, expired, modules, left>>

\* compile: the first caller compiles and the others wait for it.
OnceFirst(j) ==
    /\ pc[j] = "once" /\ once[ProgramOf[cmd[j]]] = "no"
    /\ once' = [once EXCEPT ![ProgramOf[cmd[j]]] = "busy"]
    /\ Goto(j, "compile")
    /\ UNCHANGED <<paths, expired, live, left, locals>>
\* Mutant: a caller that finds the work begun does not wait for its end.
OnceOthers_NoWait(j) ==
    /\ pc[j] = "once" /\ once[ProgramOf[cmd[j]]] # "no"
    /\ Goto(j, "start")
    /\ UNCHANGED <<paths, expired, modules, left, locals>>
OnceOthers(j) ==
    LET o == once[ProgramOf[cmd[j]]] IN
    /\ pc[j] = "once"
    /\ \/ o = "ok" /\ Goto(j, "start") /\ UNCHANGED locals
       \/ o = "failed" /\ Halt(j, "can't compile")
    /\ UNCHANGED <<paths, expired, modules, left>>
\* Mutant: a compilation that fails is not recorded.
Compiled_Lost(j) ==
    /\ pc[j] = "compile"
    /\ \/ /\ once' = [once EXCEPT ![ProgramOf[cmd[j]]] = "ok"] /\ Goto(j, "start") /\ UNCHANGED locals
       \/ UNCHANGED once /\ Halt(j, "can't compile")
    /\ UNCHANGED <<paths, expired, live, left>>
Compiled(j) ==
    /\ pc[j] = "compile"
    /\ \/ /\ once' = [once EXCEPT ![ProgramOf[cmd[j]]] = "ok"] /\ Goto(j, "start") /\ UNCHANGED locals
       \/ once' = [once EXCEPT ![ProgramOf[cmd[j]]] = "failed"] /\ Halt(j, "can't compile")
    /\ UNCHANGED <<paths, expired, live, left>>

\* InstantiateModule: the runtime has one instance of a name at a time.
Taken(name) == \E x \in live : x[1] = name
Instantiate(j) ==
    LET name == InstanceName[cmd[j]] IN
    /\ pc[j] = "start"
    /\ IF Taken(name) THEN Halt(j, "already instantiated") /\ UNCHANGED live
       ELSE live' = live \cup {<<name, j>>} /\ Goto(j, "guest") /\ UNCHANGED locals
    /\ UNCHANGED <<paths, expired, once, left>>

\* _start returns, or the guest exits with a code: its instance is closed.
Closed(j) == live \ {<<InstanceName[cmd[j]], j>>}
GuestExits(j) ==
    /\ pc[j] = "guest" /\ live' = Closed(j)
    /\ Done(j, "status")
    /\ UNCHANGED <<paths, expired, once, left>>
\* Mutant: an instance that traps is not closed.
GuestTraps_Open(j) ==
    /\ pc[j] = "guest" /\ Halt(j, "trap") /\ UNCHANGED live
    /\ UNCHANGED <<paths, expired, once, left>>
GuestTraps(j) ==
    /\ pc[j] = "guest" /\ live' = Closed(j) /\ Halt(j, "trap")
    /\ UNCHANGED <<paths, expired, once, left>>

\* The line's timeout; a guest does not look at its context.
Expire(s) ==
    /\ s \notin expired /\ expired' = expired \cup {s}
    /\ UNCHANGED <<paths, modules, pc, left, locals>>
\* Another command makes or removes a directory.
Rearrange ==
    /\ \E q \in Unsettled :
         tree' = IF q \in DOMAIN tree THEN [r \in DOMAIN tree \ {q} |-> tree[r]]
                 ELSE [r \in DOMAIN tree \cup {q} |-> IF r = q THEN "dir" ELSE tree[r]]
    /\ seenDirs' = [j \in Jobs |-> IF InCd(j) THEN seenDirs[j] \cup Dirs(tree') ELSE {}]
    /\ UNCHANGED <<pwd, seenPwds, expired, modules, pc, left, locals>>

JobStep(j) ==
    \/ BeginCd(j) \/ BeginRedirect(j) \/ BeginExec(j) \/ Ends(j)
    \/ CdResolve(j) \/ CdStat(j) \/ CdSet(j)
    \/ OpenRead(j) \/ OpenWrite(j) \/ Opened(j)
    \/ Exec(j) \/ OnceFirst(j) \/ OnceOthers(j) \/ Compiled(j) \/ Instantiate(j)
CommandEnds(j) == NativeEnds(j) \/ GuestExits(j) \/ GuestTraps(j)
Finished == (\A j \in Jobs : pc[j] = "halted") /\ UNCHANGED vars

Next ==
    \/ \E j \in Jobs : JobStep(j) \/ CommandEnds(j)
    \/ \E s \in Sessions : Expire(s)
    \/ Rearrange \/ Finished
Spec == Init /\ [][Next]_vars
\* The interpreter and the compiler go on; a command, native or guest, may run
\* for ever.
FairSpec == Spec /\ \A j \in Jobs : WF_vars(JobStep(j))
-----------------------------------------------------------------------------
(* Properties *)
\* Every Execer finds its runtime compiled, the one compilation of a program
\* has one owner and an outcome that stays, and the names registered in the
\* runtimes are exactly those of the guests that run, one for each name
\* (uutils.go:31-52, wasmcommand.go:38-59).
Compiling(g) == {j \in Jobs : pc[j] = "compile" /\ ProgramOf[cmd[j]] = g}
CompileOwned ==
    /\ \A i, j \in Jobs : pc[i] = "compile" /\ pc[j] = "compile"
                          /\ ProgramOf[cmd[i]] = ProgramOf[cmd[j]] => i = j
    /\ \A j \in Jobs : pc[j] = "compile" => once[ProgramOf[cmd[j]]] = "busy"
    /\ \A g \in Programs : once[g] = "busy" => \E j \in Jobs : pc[j] = "compile" /\ ProgramOf[cmd[j]] = g
GuestCompiled == \A j \in Jobs : pc[j] \in {"start", "guest"} => once[ProgramOf[cmd[j]]] = "ok"
NamesLive ==
    /\ \A x \in live : pc[x[2]] = "guest" /\ InstanceName[cmd[x[2]]] = x[1]
    /\ \A j \in Jobs : pc[j] = "guest" => <<InstanceName[cmd[j]], j>> \in live
    /\ \A x, y \in live : x[1] = y[1] => x = y
RuntimeInv == CompileOwned /\ GuestCompiled /\ NamesLive

\* What Resolve gives never leads above the root, and so no working directory
\* does, whatever cd and redirections name (registry.go:66-80).
PathsInside ==
    /\ \A s \in Sessions : pwd[s].parts \in Seq(Elements)
    /\ \A j \in Jobs : pc[j] \in {"stat", "set", "opening"} => path[j].parts \in Seq(Elements)
    /\ \A j \in Jobs : dir[j].parts \in Seq(Elements)

\* A cd moves its session to a directory that was there at some time of the
\* call, and that the target names from a working directory that the session
\* had at some time of the call, although other jobs move and remove
\* directories meanwhile (registry.go:83-101).
CdTruth ==
    [][\A s \in Sessions : pwd'[s] # pwd[s] =>
         \E j \in Jobs : /\ SessionOf[j] = s /\ pc[j] = "set"
                         /\ pwd'[s].parts \in seenDirs[j]
                         /\ \E wd \in seenPwds[j], t \in Targets : pwd'[s] = Resolve(wd, t)]_vars

\* Every job comes to its end or to a command that runs, which may do so for ever:
\* nobody waits for ever for a compilation, or for a name that another instance has
\* (uutils.go:32-52).
JobsEnd == \A j \in Jobs : []<>(pc[j] \in {"halted", "native", "guest"})

\* docs/custom-commands.md:687: "`Exec` instantiates a fresh instance for each
\* call": no call is turned away because of an instance that runs.
FreshInstance == \A j \in Jobs : result[j] # "already instantiated"
=============================================================================
