# Verification of kefka

kefka is a shell sandbox in Go: a bash interpreter (mvdan.cc/sh) whose commands are Go
functions or WebAssembly programs and whose files live behind a `billy.Filesystem`.
`cmd/kefka` runs it on a local directory, `cmd/sophia` serves it over SSH, each session
in a fork of a Tigris bucket that is deleted when the session ends. This directory holds
TLA+ specifications of the parts of that code whose correctness depends on interleavings,
failures or intricate algorithms, the TLC configurations that check them, and TLAPS proofs.

Every definition that models code is mapped to its lines in `PROJECT.json` ("map"); names
follow the source. A definition `X_Y` marked "Mutant" is the definition `X` with a
plausible bug; it is part of no specification. Each property of a passing run is broken
by one of them.

## Inventory

| component | state | operations | interacts with | what is hard |
|---|---|---|---|---|
| sophia server (`cmd/sophia/main.go` run, HandleSSH, runKefka) | listener, errCh, WaitGroup of sessions, one bucket fork per session | listen, accept, HandleSSH, fork, shell, delete, signal, Shutdown, Close, Wait | gliderlabs/ssh, Tigris | goroutines, shutdown tiers, timeouts, failures after effect |
| session stdin (runKefka) | prompt pipe, one stdin pipe per command, commandActive, cmdMu, cmdStdinW | pump, read line, install, run, retire, Ctrl-D, hang-up, deadline | the SSH channel, the interpreter, the command | routing race, full pipes, EOF, cancellation |
| session stdout (runKefka) | stdout and stderr pipes, terminal | two io.Copy goroutines | terminal, command | drains that stop |
| s3fs temp files (`tempfile.go`, `tempfs.go`, `basic.go`) | registry of buffers, write and read handles | TempFile, Write, Read, Seek, Close, Rename, Remove | the bucket; go-git reads while writing | read while write, Rename/Remove race, failed upload |
| s3fs files and directories (`basic.go`, `file.go`, `dir.go`, `chroot.go`) | the bucket; buffers of open handles | Open, Create, multipart, Stat, Rename, Remove, ReadDir, MkdirAll, Chroot | the bucket, every command | non-atomic requests, keys, prefixes as directories |
| s3fs unix metadata (`unixmeta.go`) | object metadata | encode, decode, look up | s3fs | round trip, widths |
| registry and billysh | pwd, command table | Resolve, Chdir, Exec, open/stat/readdir handlers | the interpreter, the file system | pwd shared by the jobs of a session, paths above the root |
| wasm programs (`uutils`, `wasmcommand`, python3, qjs, rg, jq, jo) | one runtime and one compiled module for all sessions | compile once, instantiate, close | wazero, billyfs | sync.Once that fails, shared instance names, guests that do not end |
| wasm file system (`wasm/billyfs`) | offset of Readdir | open flags, errno, readdir | wazero, billy | flags one side does not know |
| gzip, gunzip | the files they replace | compress, expand in place, list, test | osfs or s3fs | partial failure, stat-then-create, same name twice |
| grep | the loop of a search, budgets | options, collection of files, search | the file system | context with `-m`, limits, failing inputs, trees that change |
| find | work list, collected effects | parse, evaluate, walk, apply | the file system, the interpreter (`-exec`) | precedence, `-delete` in a tree that changes, all or nothing |
| diff | readings of two files or directories | align, write five formats, recurse | the file system, difflib | line numbers of empty ranges, files read twice |
| du, tree, env, time, tac, column, zcat, stat, file, pwd, ... | none | walks, option scanning, formatting | stdio | small |
| kefka CLI, snapshot, s3fs-test | none of their own | wiring, single calls | — | — |

What makes the components correct:

* server: a session that registered is waited for; a bucket that was forked is deleted
  on every path that knows of it; a signal gets the process to stop.
* stdin: a typed byte reaches one reader, once, in order, and is echoed once; Ctrl-D and
  hang-up end a command that reads, the deadline one that heeds it; the prompt comes back.
* temp files: a reader sees what was written; Rename publishes what was written; a
  buffer has one taker and is not lost.
* files: what was closed successfully is what the next open reads; Stat, ReadDir and
  OpenFile agree on what exists.
* shell and wasm: a path resolves inside the root; cd goes where it says; a program is
  compiled once and used only when it is; nobody waits for ever but for a command that runs.
* gzip and gunzip: at every moment there is a good copy of every datum; no cut-off
  output stays.
* grep: what is printed and the exit status are those of the selected lines of all
  inputs, whatever the options, limits and failures; `-r` searches what no failing call
  hides.
* find: the expression means what its precedence says; each entry that no failing call
  hides is visited once; `-delete` removes what was tested and nothing else.
* diff: the script turns one file into the other; the status sums up a whole tree.

## Modules

| module | models | state and actions |
|---|---|---|
| `SophiaServer` | run(), HandleSSH, the bucket part of runKefka | one control variable per goroutine (`main`, `serve`, `waiter`, `sess[s]`), the counter `wg`, connections, buckets; one action per call that blocks or has an effect |
| `SophiaStdin` | the pump goroutine and the line loop of runKefka | `pump` and `main` are the two goroutines; pipes are bounded sequences of byte positions, so a byte's way can be told; one action per lock, load, write, close |
| `S3Temp` | temp registry and handles, Rename, Remove | registry `temps`, buffers `data`, handles, Rename calls in flight (`pc`), the bucket; one action per critical section or request |
| `FileStore` | what a user of s3fs may expect of files | `store`, drafts; publish, delete, move, empty |
| `S3Files` | OpenFile, Stat, Rename, Remove, the handles, ReadDir, MkdirAll, Chroot; implements `FileStore` | the bucket; per goroutine the root, the call in flight (`pc`, `at`, `ans`), a handle `h` and the listing (`ct`, `dirs`, `files`); one action per request |
| `Shell` | Resolve, Chdir and the handlers of the registry and billysh; compile and Exec of the wasm wrappers | per session `pwd` and the timeout, per program `once`, the names `live` in the runtimes, per job the statement in progress; Chdir is three steps, Exec one for each call that can wait or fail |
| `Gzip` | compressMode, decompressMode, decompressFiles, collectFiles, both writeOutput | per command a control state, the files left and the payload; the file system `fs`; one action per call on the file system |
| `Grep` | Exec, the search loop, collection of files and globs, budgets | `loop` holds the locals of search, `todo` the recursion of walkFiles; one action per line read, directory listed or file opened |
| `FindExpr` | parseExpression, buildExpressionTree, eval, matchGlob as operators, and reference definitions of what they compute | — |
| `Find` | Exec, the walker, apply | the recursion of visit is the work list `todo`; `effects` as in the code; one action per call on the file system |
| `Diff` | Exec, diffFiles, diffDirs, filesEqual, the five writers | pairs still to compare, what was read, what was printed; one action per reading |
| `MC…` | | constants of the runs: command lines, trees, inputs, symmetry |
| `…_proofs` | | theorems about `SophiaServer`, `SophiaStdin`, `S3Temp`, `S3Files`, `Shell`, `Gzip`, `Grep`, `Diff` |

Abstractions. A session's shell is one state in `SophiaServer`, which it need not leave;
`SophiaStdin` opens up its input, `Shell` what a line runs. A command in `SophiaStdin` reads
its input to the end, or ends by itself or at its deadline, or never ends; its output, which
can block it too, is not modelled. In `Shell` a native command is one state, also when it
runs other commands (find -exec, env, time). Bytes are text, Enter or Ctrl-D. Buffers hold values
instead of bytes. A file's content in `Gzip` is the datum it carries and how often it is
compressed; a path is a base name with a number of suffixes and the number of times the
working directory was joined to it, which is what tells gzip's and gunzip's ways of
resolving names apart.

A key in `S3Files` is the sequence of names between its slashes and a name is its place in
the listing order; the empty name stands for a placeholder object such as `a/`. A
goroutine has one handle, and the next one takes its place, which is how an abandoned
handle looks. `acked`, `ever` and `always` are history variables: the values whose Write
returned nil, and the directory entries that existed at some and at every moment of a
call. Remove of a directory succeeds without effect, as S3's DeleteObject does.

In `Shell` a job is a goroutine of the interpreter. A path is the number of its leading
slashes and its elements, since Resolve trims one slash and path.Clean treats what is left
differently with and without one. `seenDirs` and `seenPwds` are history: what was a
directory, and what the working directory was, at some moment of a cd.

A line of `Grep` is the number of its matches or a way to fail; a printed item is a record
of the line it is about, and limits count items; a path is a sequence of names, and the
name "." can only stand in front, where resolvePath drops it. A line of `Diff` is a text, a spelling that
`-i` and `-b` ignore, and whether a newline ends it; difflib answers with any alignment. A
word of `FindExpr` is its text with what it means as a glob or a number, and `-test` stands
for the four predicates that compare an attribute. In all three, another job changes the
tree between two calls on the file system, and each job names paths (`faulty`) at which any
call may fail although they exist, as for want of a permission or because a request is lost.
`Find` tells osfs and s3fs apart: in a bucket a directory is there only while something is
below it or while it has a placeholder (`kept`), and Remove of a directory succeeds without
effect.

External parts are modelled by how the code uses them: gliderlabs/ssh (listeners and
tracked connections; a connection in its handshake is neither closed nor waited for),
sync.WaitGroup with its panic on reuse, sync.Once, os pipes, golang.org/x/term, the
interpreter, wazero (one instance of a name in a runtime), difflib, osfs, and the bucket,
whose requests may fail before or after they have taken effect.

## Runs

Passing:

* `SophiaServer` — two sessions, two connections, every failure. `ServerInv` (the
  counter is exact, live buckets have a counted owner, Wait returns only on an empty
  group), `DoneMeansCleaned`, `WaitReturnsAfterCleanup`, and under `FairSpec`
  `ShutdownEnds` and `BucketFate` (a live bucket gets to the end of a DeleteBucket call
  unless the process dies or the session's shell goes on for ever). Two sessions are the smallest number for which
  one can register while Wait blocks on the other, which is also the case in which the
  WaitGroup panics. `DoneMeansCleaned` excepts sessions that register after Wait has
  returned: a connection that is still in its handshake during the shutdown can open one,
  and its bucket stays when the process exits.
* `SophiaStdin` — six bytes (line, text, Ctrl-D, text, line), chunks of up to three, a
  prompt pipe of two bytes and a stdin pipe of one, so that full pipes of both kinds, split
  lines and a Ctrl-D in the middle of a chunk all occur; two statements a line, commands
  that read, that do not read and that never end.
  `BytesRouted` (no byte is lost, doubled or reordered on its way to the one reader, and
  echo matches the reader), `PipesInv`, `CtrlDEndsCommand`, `HangUpEndsCommand`.
  `SessionFate` and `PromptFate` say that, on its input side, a session can get stuck in
  four states only: `Endless`, a command that heeds neither its context nor its input;
  `Flooded`, where the pump waits for room in the prompt pipe, which nobody reads while a
  command runs, and so brings neither Ctrl-D nor hang-up to a command that reads;
  `Deserted`, where a statement started after the pump has ended reads from a pipe nobody
  closes; and `Jammed`, where the pump writes to the full pipe of a command that does not
  read and holds the mutex the prompt loop needs. `CtrlDEndsCommand` and `HangUpEndsCommand`
  except the states in which the pump waits for room.
* `S3Temp_safety` — two buffers of up to two values, a reader that seeks before the start
  and past the end, two goroutines, two keys: `TempInv`, `ReaderSeesBuffer`,
  `PublishedIsWritten`, `OneTaker`.
* `S3Files` — the keys `a`, `b`, `a/a` and `a/`, present or not, one entry a page; one
  goroutine stats, opens or lists once while another one makes two changes (create and
  write, multipart, rename, remove, mkdir, chroot), every request failing before or after
  its effect. `StatTruth` (an answer of Stat or OpenFile was true at some moment of the
  call), `ListingTruth` (a listing has what was there all the time, nothing that never was,
  nothing twice; directories come before files, so it is not sorted by name), `FilesInv`,
  `FilesAreWhole` (handles implement `FileStore`), `CallsReturn`. Two changes are what it
  takes to remove one entry of a directory and make another between two pages, or to turn a
  file into a directory between two requests of Stat. One value is enough for TLC since the
  order of the parts is covered by the proof. MkdirAll puts an empty object under the path
  itself, which is why `FileStore` has `Empty`.
* `Shell` — two jobs of one session and one of another, a statement each; targets with
  more `..` than elements and with two leading slashes; a directory that comes and goes; a
  program under two names with one instance name, a native command and an unknown one.
  `RuntimeInv` (one owner of each compilation, guests only of compiled programs, the
  registered names are those of the running guests, one for each), `PathsInside`, `CdTruth`
  (a cd ends in a directory that was there during the call, as named from a working
  directory of the session during the call), `JobsEnd` (a job ends, or has come to a
  command, native or guest, that goes on). Three jobs are enough for one to
  compile, one to wait and one to hold the name, and for two cds to overtake each other.
* `Gzip` — one command over one or two files, `-f`, `-k`, `-c`, `-S ''`, a directory, up
  to three files present in any compression, both file systems, root and subdirectory,
  every call but the Stat of the output failing at will; and a compressing and an
  expanding command of the same name at once on s3fs: `DataKept`, `RemovedAfterReplaced`,
  `NoCorruptOutput`. Two files are enough for one command to meet its own earlier output.
  (Two commands at once on osfs, where Create truncates, can leave the datum in memory
  only for a moment; the run does not claim it. `gzip -d -f -S ''` is left out: it removes
  what it has just written.)
* `Grep` — inputs of up to four lines (and some longer ones that overrun the limits) under
  every mode, with `-v`, `-m` up to 2 and context up to 3; several inputs with a missing
  one, a directory, broken lines and a closed output among them; `-r` and globs over a
  tree of three levels that loses files, from its root, from `./2`, and from one directory
  named twice; calls that fail at a file, at a directory, and at the root.
  `OutputIsReference` compares with a definition by selected lines (of what the code
  counts, which its help text does not say), `StatusTruth` with one by inputs,
  `EntriesTruth` says which files are searched: those on the way to which no call may fail,
  since walkFiles says nothing of the others. Four lines hold two matches, whose contexts touch, overlap or leave a gap,
  and `-m` inside of them; the limits are scaled down so that the larger jobs meet them.
* `Find` — all sequences of up to five words of the operators with a test and `-delete`,
  of up to five around `-exec`, all globs of up to four elements on names of up to four;
  searches of a tree of eight entries with depth limits, `-xdev`, `-depth`, `-prune`,
  `-delete`, `-exec`, unreadable and lost directories, cancellation, and another job that
  removes and creates; the same tree in a bucket with a placeholder, and calls that fail at
  a start, a directory or a file. `WalkTruth` leaves out what a failing call hides, and
  `DeleteTruth` says what may be left although the status is 0. `ParseIsReference`, `EvalIsReference`, `WalkTruth`, `DeleteTruth`,
  `AllOrNothing`. Five words are what a parenthesis, a negation and two operands need.
* `Diff` — all pairs of files of up to three lines, with and without a last newline, in
  five formats with context 0 and 1, and longer ones whose hunks merge; two trees that
  another job changes, `-r`, `-q`, `-s`, standard input; calls that fail at a file, a
  directory, an operand or standard input. `ScriptsApply` carries the script
  out (ed one command after the other, the others by line number) and compares,
  `DirStatus`, `HeaderTruth` (the latter about files that stay and whose reading cannot
  fail). Three lines give every kind of range at the start, in the
  middle and at the end.

Violations, each a disagreement between the code and a text of the repository, quoted in
`PROJECT.json`:

* `SophiaServer_startup` — a signal before the listener is registered: Shutdown closes
  nothing and main waits on errCh for ever.
* `S3Temp_lost` — a Rename whose upload fails loses the buffer.
* `Shell_fresh` — two calls of one WASI command at once, in a pipeline or in two sessions:
  the second is refused, since the first one's instance has the name.

`PROJECT.json` ("findings") also lists disagreements that show in passing runs as a case a
property has to except: `SessionFate`, `PromptFate` and `HangUpEndsCommand`; MkdirAll; the outputs gzip and
gunzip overwrite without `-f` when Stat fails or two commands pass it together, and the
place below the root gunzip writes to; commands that do not see the timeout; a second
leading slash; a lone period in an ed script; the header of diff made from another
reading than the script, and a Stat of diff whose error is dropped; what grep -r and find
leave out without a word when a call fails; find -delete in a bucket; what grep -c and -o
count.

## Fairness

`SophiaServer!FairSpec`: every goroutine that can take a step takes it (the Go scheduler),
timers fire, requests to Tigris end (each has a deadline or the SDK's retries). A client
need not do anything, and a shell need not end, also when its connection is gone: what can
keep it is what `SessionFate` of `SophiaStdin` names. `SophiaStdin!FairSpec`: pump and
prompt loop run, time passes, a reading command goes on reading, and a command that heeds
its context or has read its input to the end ends; an endless one need not. Nothing makes a client type or hang up. `S3Files!FairSpec`: requests are answered, with an
error if need be (the SDK gives up after its retries). `Shell!FairSpec`: a job that can go
on does; a command need not end: a guest because the runtimes are made without
WithCloseOnContextDone and nothing interrupts it, a native command because it may wait in a
read of its standard input. All other specifications are checked for
safety only.

## Proofs

Proved by TLAPS for all values of the constants:

* `SophiaServer_proofs`, from `ServerAssumption` (finitely many sessions; `NoConn` is not
  a connection): `ServerInvariant`, `ServerTypeOK`, `DoneIsClean`, `WaitIsClean`. The
  inductive invariant is `ServerInv`. `TypeOK` alone is not inductive: that `wg` stays a
  natural number needs `WaitGroupCounts` (the counter is the cardinality of the handlers
  in flight), and the cardinality lemmas are where finiteness is used. `WaiterKnows` needs
  `late`: without recording who registered after Wait has returned, "the group was empty"
  says nothing about later states. `DoneMeansCleaned` follows from `WaiterKnows` and
  `BucketOwned`.
* `S3Temp_proofs`, from `TempAssumption`: `TempInvariant`, `TempTypeOK`, `ReaderIsExact`,
  `PublishedIsExact`, `TakenOnce`. The inductive invariant is `TempInv`. `OneTaker` needs
  `HoldersExclusive` (a buffer that is registered has been neither uploaded nor removed,
  and two Renames in flight hold different buffers); `PublishedIsWritten` needs the same
  fact about snapshots in flight (`SnapshotsWritten`), and that a closed writer writes no
  more (`ObjectsWritten`).
* `SophiaStdin_proofs`, from `StdinAssumption` (input of the three kinds of byte, sizes of
  at least one): `PipesSafe`, `BytesSafe`. Neither property is inductive. `PipesInv` needs
  `Control`, the table of which goroutine may be where and what that says of the mutex, the
  pipe and `commandActive`. `BytesRouted` needs `Routed` in addition: the bytes in the
  pump's hand come after all delivered ones, and have been echoed exactly when the pump is
  on its way to a command.
* `S3Files_proofs`, from `FilesAssumption` and `DraftAssumption` (finitely many keys, none
  of them empty; `Absent` is no content, `NoDraft` no draft): `FilesInvariant` and
  `FilesImplementStore`, with the inductive invariant `FilesInv`. The refinement needs its
  part `HandleAcked`: a Write that failed after its part was stored leaves data the writer
  does not know of, and only because the part counter follows the confirmed Writes is that
  at most one part, at the end, and replaced by the next Write. The abstract draft is the
  confirmed values (`sure`) and that part (`doubt`); Close is `Publish` or, when the upload
  failed, the end of the draft.
* `S3Files_proofs` too: `FilesTyped`, `AnswersAreTrue`, `ListingsAreTrue`. The inductive
  invariant is `LookIInv`. A call in flight watches the directory of its path, so `ever`
  and `always` enclose what is there now (`Watching`); a Stat that has missed the object
  knows that the file was not there all the time (`FileGone`). A listing under way
  (`Listing`) has taken just the entries up to its token in listing order: those
  before the token that were always there are in it, all of it was there at some time, and
  what is still to come lies after the token, which is why no entry comes twice although
  pages are cut from different buckets. That such a page exists at all, that is, that a
  finite set can be enumerated in order, is an induction over its size (`CanEnumerate`).
* `Shell_proofs`, from `CommandAssumption` (a command is native, unknown or a program; two
  programs share no instance name): `RuntimeSafe`. The inductive invariant is `RuntimeInv`
  with `ShellTypeOK`, which says where a job has a command and where that command is a
  program; without it the names in `RuntimeInv` could be anything. Its parts need each
  other: that a compiled program stays compiled rests on its compilation having one owner, and that the owner is
  alone on `once` being busy for as long as it works. All steps of a job before it reaches
  a program are covered by one lemma (`QuietKeepsRuntime`).
* `Shell_proofs` too: `CdIsTrue`, from `SessionAssumption`, with the inductive invariant
  `CdInv` (what a cd has resolved and looked up is in its history), and `NothingOutside`,
  from `PathAssumption` (".." is no element of a tree, targets are paths), with `InsideInv`.
  The latter rests on `ResolveInside`: for paths of every length, what Resolve returns has
  no "..", by induction over the elements that Clean has taken in.
* `Gzip_proofs`, from `GzipAssumption` (finitely many base names, at least one suffix;
  `Lost`, `ThisDir` and `Absent` are none of the paths and contents): `NothingLost`,
  `NothingCutOff`, `WholeFirst`, each under three named hypotheses: `OneCommand`, one
  command works on files (all others read their standard input); `StatSeesOutput`, the Stat
  of the output does not fail, as every other call may; and `NeverOverItsSource`, which
  leaves out `gzip -d -f -S ''`. Each is a finding about `DataKept`: it is false without
  them. The inductive invariant is `GzipIInv`: where a command is
  in its work on a file, the source is still there with its datum (`SourceThere`), the
  output's place was free or given up by `-f` (`OutputFree`), it is whole before the
  source is removed (`OutputWhole`), and only the file being written or one whose Remove
  failed is cut off (`CutOff`). Two commands at once are only model-checked, since
  `DataKept` then depends on the names they were given (see the findings).
* `Diff_proofs`, from `DiffAssumption` (a tree is a finite set of paths, and what has
  something below it is a directory): `HeadersAreTrue`, `StatusSumsUp`. Both rest on
  `TreeInv`: paths go away with all below them and never change their kind, what is
  not touched is as it was (`DiskInv`), each pair of the work list is the same place below
  both operands (`Walk`), and what was read of an untouched file is its content
  (`Reading`). The header needs where the last header stands while its pair is in hand
  (`Headers`). The status needs `Known`: a difference that nobody touches has been counted
  or is still below a pair of the work list. A listing keeps that true because the names
  read on the left include all that are still there, and because a path cannot lose what
  is above it without going away itself. Where nobody interferes and no call may
  fail (`Alone`) the converse holds too: every pair says truly on which sides it is, so what
  is counted is a difference, and no reading fails. Where a call may fail, the command may
  end with 2, and a directory whose Stat fails may be counted as a difference.
* `Grep_proofs`, from `GrepAssumption` (a tree is a finite set of paths, and what has
  something below it is a directory; lines, operands and numbers are such): `ExitSumsUp`
  with the inductive invariant `GrepIInv`. `StatusTruth` speaks of finished commands only
  and says nothing while one runs. The invariant adds what holds on the way: what was
  opened and that no limit is met while grep goes on (`Control`); where search is in its
  input (`Place`): nothing has failed so far, `selected` is the number of selected lines,
  and once `-m` is exhausted the lines left to read are the trailing context of the last
  selected one; what the end of a search says of the whole input (`Searching`); and that
  anyMatch and anyError sum up the entries that are done (`Tally`). The step that carries
  it is that `LastRead`, which is defined by the selected lines of the whole input, is
  where the loop stops, although the loop knows only what it has read (`LastReadIs`,
  `FaultOpen`, `FaultCapped`).
* `Grep_proofs` too: `WalkFindsFiles`, with the inductive invariant `EntriesIInv`. While
  files are collected (`Collecting`) whatever is below a path of the work list is to be
  found, and whatever is to be found in the tree as it is now, if no call on the way to it
  may fail (`Sure`), is listed or below a path of the work list; a path of the list is left of the next one, so the files below it come
  before all of the others. Reading a directory keeps that true since a file lies below
  exactly one of its children (`WantedUp`, `WantedDown`), and a removal since it takes away
  with a path all that is below it.
* `Grep_proofs` again: `PrintsTheReference`. The reference prints line by line, `Piece`, and
  whether a line is shown depends on lines further on, whose context it may be. search has
  only what it has read, so the inductive invariant `OutputIInv` says of its locals
  (`Printed`) that everything up to the pending lines is in the output as the reference has
  it; that the pending lines are the last ones read, as many as `-B` asks for or all since
  the last printed one (`Kept`); and that `after` counts from the last selected line. A
  selected line turns the pending ones into leading context (`PrintLeading` keeps them,
  `RunText` prints them); a line that drops out of `pending` is out of reach of every later
  selected line (`LeftOut`, `LeaveOut`). With `-c` the count is that of the lines read
  (`Tallied`). Across files, standard output is what the entries that are done add
  (`Written`). `FlattenSeq` is a recursive function over a choice; `FlattenStep` shows that
  it adds one sequence after the other.

Induction over numbers is stated with the set of the numbers for which a statement holds,
and derived from the existence of minimal elements: the library's induction theorems have
an operator as parameter, which the provers cannot instantiate. The proof modules that
need it hold these lemmas themselves: `LeastNatural` and, where it is used,
`SetInduction`, that a function defined step by step over `0..L` exists
(`RecursionExists`, for Clean in `Shell_proofs`), and that a finite set of numbered
elements can be listed in order (`EnumerationExists`, for the pages of `S3Files_proofs`).

Only model-checked: all liveness properties (fairness is outside the prover's reach);
`ScriptsApply` of `Diff`, which applies a script to a text; `FindExpr` and `Find`, whose parser and trees
are RECURSIVE operators; in `Gzip`, pairs of commands.

## Not modelled

Listed with reasons in `PROJECT.json` ("components").

* The output side of a session (two io.Copy goroutines): the next module of the plan.
* Unix metadata, du and tree, env, time, tac and column: sequential, without shared
  state; planned as pure operators where they compute something.
* zcat, the list and test modes of gzip and gunzip: they read only. The stat and readdir
  handlers of billysh resolve a path as the open handler does and change nothing.
* billyfs: one call for each call, flags and errors translated by tables.
* Left out for good: the WebAssembly programs, regular expressions and difflib's matching
  (third-party), option scanning and texts of grep and diff, `-printf` of find, tables
  (`file`, `stat`, usage), single calls without state (`snapshot`, `whoami`), the manual
  test program.

## Plan

1. `SophiaStdout`: pipes and drains; composition with `SophiaStdin` for "the prompt
   returns".
2. Unix metadata round trip, du and tree totals, option scanning of env and time.
3. Proofs: `ScriptsApply` of `Diff`, `AllOrNothing` of `Find` after its recursive operators have
   moved out of the walk, and `Gzip` for two commands whose names do not meet.
