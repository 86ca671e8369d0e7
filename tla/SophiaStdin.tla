----------------------------- MODULE SophiaStdin ----------------------------
(***************************************************************************)
(* The standard input of one sophia session, cmd/sophia/main.go: the pump  *)
(* goroutine that reads what the SSH client types and routes it, the       *)
(* goroutine of runKefka that reads lines at the prompt and runs their     *)
(* statements, and the foreground command.                                 *)
(*                                                                         *)
(* The pump writes to the prompt pipe, or to the stdin pipe of the         *)
(* foreground command; it decides by commandActive, and cmdMu guards       *)
(* cmdStdinW, the write end of the command's pipe.  Every typed byte has   *)
(* an identity, its position in Input, so that the properties can say      *)
(* where it went.  Bytes are "x" (any text), "cr" (Enter), "eot" (Ctrl-D). *)
(*                                                                         *)
(* External: os pipes (bounded, a full one blocks its writer), the line    *)
(* editor of golang.org/x/term (its read-ahead counts as part of the       *)
(* prompt pipe), and the shell interpreter.                                *)
(***************************************************************************)
EXTENDS Integers, Sequences, FiniteSets, SequencesExt

CONSTANTS
    Input,       \* the bytes the client types before it hangs up
    MaxChunk,    \* most bytes one sess.Read returns
    PromptCap,   \* capacity of the prompt pipe
    CmdCap,      \* capacity of a command's stdin pipe
    MaxStmts,    \* most statements on one line
    Commands     \* the kinds of commands: "reader" reads its stdin up to EOF,
                 \* "other" ends by itself or when its context is cancelled,
                 \* "endless" need not end, whatever happens

ASSUME StdinAssumption ==
    /\ Input \in Seq({"x", "cr", "eot"})
    /\ {MaxChunk, PromptCap, CmdCap, MaxStmts} \subseteq Nat \ {0}
    /\ Commands \subseteq {"reader", "other", "endless"}

VARIABLES
    online,         \* the client is connected
    pos,            \* bytes of Input that sess.Read has returned
    pump, chunk, eof,          \* pump: control state, bytes in hand, eofAt >= 0
    commandActive, cmdMu,      \* the flag and the holder of the mutex
    cmdStdinW, cmdBuf, cmdR,   \* stdin pipe: write end, content, read end
    promptW, promptBuf,        \* prompt pipe: write end, content
    main, typed, stmts,        \* runKefka: control state, the line being read
                               \* is not empty, statements left to run
    command, expired,          \* the foreground command; its context is done
    shellGot, cmdGot, echoed, discarded    \* where the bytes went

pumpVars == <<pump, chunk, eof>>
mainVars == <<main, typed, stmts, command, expired>>
cmdPipe == <<cmdStdinW, cmdBuf, cmdR>>
promptPipe == <<promptW, promptBuf>>
fates == <<shellGot, cmdGot, echoed, discarded>>
vars == <<online, pos, pumpVars, commandActive, cmdMu, cmdPipe, promptPipe,
          mainVars, fates>>

\* ICRNL: Enter arrives as \r and is passed on as \n.
Byte(p) == IF Input[p] = "cr" THEN "nl" ELSE Input[p]

Positions == 1..Len(Input)

TypeOK ==
    /\ online \in BOOLEAN /\ pos \in 0..Len(Input)
    /\ pump \in {"read", "load", "prompt", "lock", "write", "unlock",
                 "exit", "closePrompt", "done"}
    /\ chunk \in Seq(Positions) /\ eof \in BOOLEAN
    /\ commandActive \in BOOLEAN /\ cmdMu \in {"free", "pump"}
    /\ cmdStdinW \in {"nil", "open"} /\ cmdR \in {"open", "closed"}
    /\ cmdBuf \in Seq(Positions) /\ Len(cmdBuf) <= CmdCap
    /\ promptW \in {"open", "closed"}
    /\ promptBuf \in Seq(Positions) /\ Len(promptBuf) <= PromptCap
    /\ main \in {"prompt", "stmt", "install", "activate", "run", "deactivate",
                 "retire", "closeR", "return", "done"}
    /\ typed \in BOOLEAN /\ stmts \in 0..MaxStmts
    /\ command \in {"reader", "other", "endless"} /\ expired \in BOOLEAN
    /\ shellGot \in Seq(Positions) /\ cmdGot \in Seq(Positions)
    /\ echoed \subseteq Positions /\ discarded \subseteq Positions

Init ==
    /\ online = TRUE /\ pos = 0
    /\ pump = "read" /\ chunk = <<>> /\ eof = FALSE
    /\ commandActive = FALSE /\ cmdMu = "free"
    /\ cmdStdinW = "nil" /\ cmdBuf = <<>> /\ cmdR = "closed"
    /\ promptW = "open" /\ promptBuf = <<>>
    /\ main = "prompt" /\ typed = FALSE /\ stmts = 0
    /\ command = "other" /\ expired = FALSE
    /\ shellGot = <<>> /\ cmdGot = <<>> /\ echoed = {} /\ discarded = {}

-----------------------------------------------------------------------------
(***************************************************************************)
(* The client and the clock.                                               *)
(***************************************************************************)
HangUp ==
    /\ online
    /\ online' = FALSE
    /\ UNCHANGED <<pos, pumpVars, commandActive, cmdMu, cmdPipe, promptPipe,
                   mainVars, fates>>

DeadlinePasses ==
    /\ main = "run" /\ ~expired
    /\ expired' = TRUE
    /\ UNCHANGED <<online, pos, pumpVars, commandActive, cmdMu, cmdPipe,
                   promptPipe, main, typed, stmts, command, fates>>

-----------------------------------------------------------------------------
(***************************************************************************)
(* The pump.                                                               *)
(***************************************************************************)
PumpRead ==
    /\ pump = "read" /\ online
    /\ \E n \in 1..MaxChunk :
          /\ pos + n <= Len(Input)
          /\ chunk' = [i \in 1..n |-> pos + i]
          /\ pos' = pos + n
    /\ pump' = "load"
    /\ UNCHANGED <<online, eof, commandActive, cmdMu, cmdPipe, promptPipe,
                   mainVars, fates>>

\* sess.Read returns an error: the client has hung up.
PumpReadFails ==
    /\ pump = "read" /\ ~online
    /\ pump' = "exit"
    /\ UNCHANGED <<online, pos, chunk, eof, commandActive, cmdMu, cmdPipe,
                   promptPipe, mainVars, fates>>

BeforeEot(c) == SelectInSeq(c, LAMBDA p : Byte(p) = "eot")

\* commandActive.Load(): in command mode the bytes up to a Ctrl-D are echoed
\* and kept, the Ctrl-D and what follows it in the buffer are dropped.
PumpLoadActive ==
    /\ pump = "load" /\ commandActive
    /\ LET at   == BeforeEot(chunk)
           kept == IF at = 0 THEN chunk ELSE SubSeq(chunk, 1, at - 1)
       IN  /\ chunk' = kept
           /\ eof' = (at # 0)
           /\ echoed' = echoed \cup ToSet(kept)
           /\ discarded' = discarded \cup (ToSet(chunk) \ ToSet(kept))
    /\ pump' = "lock"
    /\ UNCHANGED <<online, pos, commandActive, cmdMu, cmdPipe, promptPipe,
                   mainVars, shellGot, cmdGot>>

PumpLoadIdle ==
    /\ pump = "load" /\ ~commandActive
    /\ pump' = "prompt"
    /\ UNCHANGED <<online, pos, chunk, eof, commandActive, cmdMu, cmdPipe,
                   promptPipe, mainVars, fates>>

\* promptW.Write, a byte at a time; it blocks while the pipe is full.
PumpPrompt ==
    /\ pump = "prompt" /\ promptW = "open"
    /\ \/ /\ chunk # <<>> /\ Len(promptBuf) < PromptCap
          /\ promptBuf' = Append(promptBuf, Head(chunk))
          /\ chunk' = Tail(chunk)
          /\ UNCHANGED pump
       \/ /\ chunk = <<>>
          /\ pump' = "read"
          /\ UNCHANGED <<promptBuf, chunk>>
    /\ UNCHANGED <<online, pos, eof, commandActive, cmdMu, cmdPipe, promptW,
                   mainVars, fates>>

PumpPromptFails ==
    /\ pump = "prompt" /\ promptW = "closed"
    /\ discarded' = discarded \cup ToSet(chunk)
    /\ chunk' = <<>>
    /\ pump' = "exit"
    /\ UNCHANGED <<online, pos, eof, commandActive, cmdMu, cmdPipe, promptPipe,
                   mainVars, shellGot, cmdGot, echoed>>

\* cmdMu.Lock(): without a command's pipe the bytes are dropped.
PumpLock ==
    /\ pump = "lock" /\ cmdMu = "free"
    /\ cmdMu' = "pump"
    /\ IF cmdStdinW = "nil"
       THEN /\ discarded' = discarded \cup ToSet(chunk)
            /\ chunk' = <<>>
            /\ pump' = "unlock"
       ELSE pump' = "write" /\ UNCHANGED <<chunk, discarded>>
    /\ UNCHANGED <<online, pos, eof, commandActive, cmdPipe, promptPipe,
                   mainVars, shellGot, cmdGot, echoed>>

\* cmdStdinW.Write, which blocks on a full pipe with cmdMu held.
PumpWrite ==
    /\ pump = "write" /\ chunk # <<>>
    /\ Len(cmdBuf) < CmdCap
    /\ cmdBuf' = Append(cmdBuf, Head(chunk))
    /\ chunk' = Tail(chunk)
    /\ UNCHANGED <<online, pos, pump, eof, commandActive, cmdMu, cmdStdinW,
                   cmdR, promptPipe, mainVars, fates>>

\* Mutant: Ctrl-D is swallowed, the command's stdin stays open.
PumpCloseEOF_Ignored ==
    /\ pump = "write" /\ chunk = <<>>
    /\ pump' = "unlock"
    /\ UNCHANGED <<online, pos, chunk, eof, commandActive, cmdMu, cmdPipe,
                   promptPipe, mainVars, fates>>

\* A Ctrl-D closes the command's stdin once the bytes before it are written.
PumpCloseEOF ==
    /\ pump = "write" /\ chunk = <<>>
    /\ cmdStdinW' = IF eof THEN "nil" ELSE cmdStdinW
    /\ pump' = "unlock"
    /\ UNCHANGED <<online, pos, chunk, eof, commandActive, cmdMu, cmdBuf, cmdR,
                   promptPipe, mainVars, fates>>

\* Mutant: the mutex is not released after the write.
PumpUnlock_Missing ==
    /\ pump = "unlock"
    /\ eof' = FALSE
    /\ pump' = "read"
    /\ UNCHANGED <<online, pos, chunk, commandActive, cmdMu, cmdPipe, promptPipe,
                   mainVars, fates>>

PumpUnlock ==
    /\ pump = "unlock"
    /\ cmdMu' = "free"
    /\ eof' = FALSE
    /\ pump' = "read"
    /\ UNCHANGED <<online, pos, chunk, commandActive, cmdPipe, promptPipe,
                   mainVars, fates>>

\* Mutant: the pump ends without closing the command's stdin.
PumpExit_NoClose ==
    /\ pump = "exit" /\ cmdMu = "free"
    /\ pump' = "closePrompt"
    /\ UNCHANGED <<online, pos, chunk, eof, commandActive, cmdMu, cmdPipe,
                   promptPipe, mainVars, fates>>

\* The deferred function: close the command's stdin under cmdMu.
PumpExit ==
    /\ pump = "exit" /\ cmdMu = "free"
    /\ cmdStdinW' = "nil"
    /\ pump' = "closePrompt"
    /\ UNCHANGED <<online, pos, chunk, eof, commandActive, cmdMu, cmdBuf, cmdR,
                   promptPipe, mainVars, fates>>

\* Mutant: the pump ends without closing the prompt pipe.
PumpClosePrompt_Missing ==
    /\ pump = "closePrompt"
    /\ pump' = "done"
    /\ UNCHANGED <<online, pos, chunk, eof, commandActive, cmdMu, cmdPipe,
                   promptPipe, mainVars, fates>>

PumpClosePrompt ==
    /\ pump = "closePrompt"
    /\ promptW' = "closed"
    /\ pump' = "done"
    /\ UNCHANGED <<online, pos, chunk, eof, commandActive, cmdMu, cmdPipe,
                   promptBuf, mainVars, fates>>

PumpStep ==
    \/ PumpRead \/ PumpReadFails \/ PumpLoadActive \/ PumpLoadIdle
    \/ PumpPrompt \/ PumpPromptFails \/ PumpLock \/ PumpWrite \/ PumpCloseEOF
    \/ PumpUnlock \/ PumpExit \/ PumpClosePrompt

-----------------------------------------------------------------------------
(***************************************************************************)
(* runKefka's loop over the lines of the prompt.                           *)
(***************************************************************************)
\* term.ReadLine takes a byte.  A finished line is parsed into statements (none
\* for an empty, incomplete or ill-formed one) under a fresh deadline; Ctrl-D
\* on an empty line is io.EOF.
ReadLine ==
    /\ main = "prompt" /\ promptBuf # <<>>
    /\ promptBuf' = Tail(promptBuf)
    /\ shellGot' = Append(shellGot, Head(promptBuf))
    /\ LET b == Byte(Head(promptBuf))
       IN  /\ typed' = (b = "x" \/ (b = "eot" /\ typed))
           /\ main' = IF b = "eot" /\ ~typed THEN "return"
                      ELSE IF b = "nl" THEN "stmt" ELSE "prompt"
           /\ IF b = "nl" /\ typed THEN stmts' \in 0..MaxStmts
              ELSE stmts' = 0
    /\ expired' = FALSE
    /\ UNCHANGED <<online, pos, pumpVars, commandActive, cmdMu, cmdPipe, promptW,
                   command, cmdGot, echoed, discarded>>

PromptEOF ==
    /\ main = "prompt" /\ promptBuf = <<>> /\ promptW = "closed"
    /\ main' = "return"
    /\ UNCHANGED <<online, pos, pumpVars, commandActive, cmdMu, cmdPipe,
                   promptPipe, typed, stmts, command, expired, fates>>

LineDone ==
    /\ main = "stmt" /\ stmts = 0
    /\ main' = "prompt"
    /\ UNCHANGED <<online, pos, pumpVars, commandActive, cmdMu, cmdPipe,
                   promptPipe, typed, stmts, command, expired, fates>>

\* os.Pipe() for the next statement; when it fails the statement is skipped.
OpenPipe ==
    /\ main = "stmt" /\ stmts > 0
    /\ \/ main' = "install" /\ cmdR' = "open" /\ cmdBuf' = <<>> /\ UNCHANGED stmts
       \/ stmts' = stmts - 1 /\ UNCHANGED <<main, cmdR, cmdBuf>>
    /\ UNCHANGED <<online, pos, pumpVars, commandActive, cmdMu, cmdStdinW,
                   promptPipe, typed, command, expired, fates>>

Install ==
    /\ main = "install" /\ cmdMu = "free"
    /\ cmdStdinW' = "open"
    /\ main' = "activate"
    /\ UNCHANGED <<online, pos, pumpVars, commandActive, cmdMu, cmdBuf, cmdR,
                   promptPipe, typed, stmts, command, expired, fates>>

Activate ==
    /\ main = "activate" /\ ~expired
    /\ commandActive' = TRUE
    /\ command' \in Commands
    /\ main' = "run"
    /\ UNCHANGED <<online, pos, pumpVars, cmdMu, cmdPipe, promptPipe, typed,
                   stmts, expired, fates>>

\* The foreground command reads a byte of its stdin.
CommandReads ==
    /\ main = "run" /\ cmdBuf # <<>>
    /\ cmdBuf' = Tail(cmdBuf)
    /\ cmdGot' = Append(cmdGot, Head(cmdBuf))
    /\ UNCHANGED <<online, pos, pumpVars, commandActive, cmdMu, cmdStdinW, cmdR,
                   promptPipe, mainVars, shellGot, echoed, discarded>>

\* sh.Run returns.  A reader blocked in read(2) does not see its context: it
\* ends at EOF only.
CommandEnds ==
    /\ main = "run"
    /\ command = "reader" => cmdBuf = <<>> /\ cmdStdinW = "nil"
    /\ main' = "deactivate"
    /\ UNCHANGED <<online, pos, pumpVars, commandActive, cmdMu, cmdPipe,
                   promptPipe, typed, stmts, command, expired, fates>>

\* sh.Run returns at once for a statement of a line whose time is used up.
RunRefused ==
    /\ main = "activate" /\ expired
    /\ main' = "deactivate"
    /\ commandActive' = TRUE
    /\ UNCHANGED <<online, pos, pumpVars, cmdMu, cmdPipe, promptPipe, typed,
                   stmts, command, expired, fates>>

Deactivate ==
    /\ main = "deactivate"
    /\ commandActive' = FALSE
    /\ main' = "retire"
    /\ UNCHANGED <<online, pos, pumpVars, cmdMu, cmdPipe, promptPipe, typed,
                   stmts, command, expired, fates>>

\* Mutant: the write end is closed without taking cmdMu.
Retire_Unlocked ==
    /\ main = "retire"
    /\ cmdStdinW' = "nil"
    /\ main' = "closeR"
    /\ UNCHANGED <<online, pos, pumpVars, commandActive, cmdMu, cmdBuf, cmdR,
                   promptPipe, typed, stmts, command, expired, fates>>

Retire ==
    /\ main = "retire" /\ cmdMu = "free"
    /\ cmdStdinW' = "nil"
    /\ main' = "closeR"
    /\ UNCHANGED <<online, pos, pumpVars, commandActive, cmdMu, cmdBuf, cmdR,
                   promptPipe, typed, stmts, command, expired, fates>>

\* Mutant: what the command did not read is put back into the prompt pipe.
CloseR_PutBack ==
    /\ main = "closeR"
    /\ cmdR' = "closed"
    /\ promptBuf' = promptBuf \o cmdBuf
    /\ cmdBuf' = <<>>
    /\ stmts' = stmts - 1
    /\ main' = "stmt"
    /\ UNCHANGED <<online, pos, pumpVars, commandActive, cmdMu, cmdStdinW,
                   promptW, typed, command, expired, fates>>

\* cmdR.Close(); then runKefka returns if the statement was an exit.
CloseR ==
    /\ main = "closeR"
    /\ cmdR' = "closed"
    /\ discarded' = discarded \cup ToSet(cmdBuf)
    /\ cmdBuf' = <<>>
    /\ stmts' = stmts - 1
    /\ main' \in {"stmt", "return"}
    /\ UNCHANGED <<online, pos, pumpVars, commandActive, cmdMu, cmdStdinW,
                   promptPipe, typed, command, expired, shellGot, cmdGot,
                   echoed>>

\* The deferred closes of the prompt pipe.
Return ==
    /\ main = "return"
    /\ promptW' = "closed"
    /\ discarded' = discarded \cup ToSet(promptBuf)
    /\ promptBuf' = <<>>
    /\ main' = "done"
    /\ UNCHANGED <<online, pos, pumpVars, commandActive, cmdMu, cmdPipe, typed,
                   stmts, command, expired, shellGot, cmdGot, echoed>>

MainStep ==
    \/ ReadLine \/ PromptEOF \/ LineDone \/ OpenPipe \/ Install \/ Activate
    \/ RunRefused \/ Deactivate \/ Retire \/ CloseR \/ Return

CommandStep == CommandReads \/ CommandEnds

Finished == main = "done" /\ UNCHANGED vars

Next == HangUp \/ DeadlinePasses \/ PumpStep \/ MainStep \/ CommandStep \/ Finished

(***************************************************************************)
(* Goroutines are scheduled fairly, time passes, a reader goes on reading  *)
(* and ends at the end of its input, a command that heeds its context      *)
(* ends.  The client need not hang up, an endless command need not end.    *)
(***************************************************************************)
Fairness ==
    /\ WF_vars(PumpStep) /\ WF_vars(MainStep)
    /\ WF_vars(DeadlinePasses)
    /\ WF_vars(command # "endless" /\ CommandEnds)
    /\ WF_vars(command = "reader" /\ CommandReads)

Spec == Init /\ [][Next]_vars

FairSpec == Spec /\ Fairness

-----------------------------------------------------------------------------
InHand == ToSet(chunk)

Places == <<InHand, ToSet(promptBuf), ToSet(shellGot), ToSet(cmdBuf),
            ToSet(cmdGot), discarded>>

(***************************************************************************)
(* No byte is lost without trace or delivered twice: each byte that        *)
(* sess.Read returned is in exactly one place, in the pump's hand, in a    *)
(* pipe, read by the shell, read by a command, or dropped by one of the    *)
(* code's drop points (main.go:320-363, 441-447).                          *)
(***************************************************************************)
ByteConservation ==
    /\ UNION ToSet(Places) = 1..pos
    /\ \A i, j \in DOMAIN Places : i # j => Places[i] \cap Places[j] = {}

Increasing(s) == \A i, j \in DOMAIN s : i < j => s[i] < s[j]

(***************************************************************************)
(* The shell and the commands each read typed bytes in the order they were *)
(* typed, however routing flips between them (main.go:328-358).            *)
(***************************************************************************)
TypedOrder == Increasing(shellGot \o promptBuf) /\ Increasing(cmdGot \o cmdBuf)

(***************************************************************************)
(* main.go:281-283: the terminal echoes at the prompt, so the pump echoes  *)
(* in command mode only.  A byte read by a command was echoed by the pump, *)
(* a byte read at the prompt was not.                                      *)
(***************************************************************************)
EchoOnce ==
    /\ ToSet(cmdGot \o cmdBuf) \subseteq echoed
    /\ ToSet(shellGot \o promptBuf) \cap echoed = {}

(***************************************************************************)
(* What becomes of a typed byte: the three parts above at once.            *)
(***************************************************************************)
BytesRouted == ByteConservation /\ TypedOrder /\ EchoOnce

(***************************************************************************)
(* cmdMu keeps the pipe the pump writes to in place: while the pump is in  *)
(* the middle of a write both ends of that pipe stay open                  *)
(* (main.go:343-353, 441-447).                                             *)
(***************************************************************************)
WriteEndStable == pump = "write" => cmdStdinW = "open" /\ cmdR = "open"

(***************************************************************************)
(* Between statements no pipe of an earlier command is left open and the   *)
(* pump does not route to commands (main.go:439-447).                      *)
(***************************************************************************)
PipesRetired ==
    main \in {"prompt", "stmt", "return", "done"} =>
        cmdStdinW = "nil" /\ cmdR = "closed" /\ ~commandActive

(***************************************************************************)
(* The life of a command's stdin pipe: in place while it is written to,    *)
(* gone between statements.                                                *)
(***************************************************************************)
PipesInv == TypeOK /\ WriteEndStable /\ PipesRetired

\* A command that heeds neither its context nor its stdin.
Endless == main = "run" /\ command = "endless"

\* The pump took its bytes for the prompt's and waits for room in the prompt
\* pipe; the reader that has begun since waits for an end of its stdin that
\* only the pump could bring, and nobody reads the prompt meanwhile.
Flooded ==
    /\ main = "run" /\ command = "reader" /\ cmdStdinW = "open"
    /\ pump = "prompt" /\ chunk # <<>> /\ Len(promptBuf) = PromptCap

\* A reader whose stdin pipe was opened after the pump had closed its last one:
\* the write end is open and nobody is left to close it.
Deserted ==
    /\ main = "run" /\ command = "reader" /\ cmdStdinW = "open"
    /\ pump \in {"closePrompt", "done"}

\* The pump holds cmdMu and waits for room in the pipe of a command that is
\* over; runKefka, which would close that pipe, waits for cmdMu.
Jammed ==
    /\ main = "retire" /\ cmdMu = "pump"
    /\ pump = "write" /\ chunk # <<>> /\ Len(cmdBuf) = CmdCap

(***************************************************************************)
(* A Ctrl-D that the pump has seen while a command ran closes that         *)
(* command's stdin: a reader does not wait for more (main.go:305-307).     *)
(***************************************************************************)
CtrlDEndsCommand ==
    (main = "run" /\ pump = "lock" /\ eof) ~> (main # "run" \/ Endless)

(***************************************************************************)
(* When the client hangs up while a command runs and the pump has not run  *)
(* its deferred close yet, the command sees the end of its stdin and       *)
(* sh.Run returns, unless the command is endless or the pump is stuck at   *)
(* the prompt pipe and never learns of it (main.go:308-317, 355).          *)
(***************************************************************************)
HangUpEndsCommand ==
    (main = "run" /\ ~online /\ pump \notin {"closePrompt", "done"})
        ~> (main # "run" \/ Endless \/ Flooded)

(***************************************************************************)
(* A session whose client is gone comes to its end, where the bucket is    *)
(* deleted, unless a command goes on for ever or the session gets into one *)
(* of three states it never leaves: a reader that was started too late to  *)
(* see the hang-up, a pump stuck at the prompt pipe under a reader, or the *)
(* pump and runKefka waiting for each other (main.go:308-317, 355,         *)
(* 432-434, 441-463).                                                      *)
(***************************************************************************)
SessionFate ==
    ~online ~> (main = "done" \/ Deserted \/ Flooded \/ Jammed \/ Endless)

(***************************************************************************)
(* After a command the next statement of the line runs or the prompt       *)
(* returns, unless the pump and runKefka wait for each other               *)
(* (main.go:343-353, 439-460).                                             *)
(***************************************************************************)
PromptFate ==
    main = "deactivate" ~> (main \in {"prompt", "run", "done"} \/ Jammed)

=============================================================================
