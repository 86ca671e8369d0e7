---------------------------- MODULE SophiaServer ----------------------------
(***************************************************************************)
(* The sophia SSH server, cmd/sophia/main.go: run() (start-up, the signal, *)
(* the tiered shutdown) and the life of a session from the moment its      *)
(* goroutine is started to the moment HandleSSH returns.                   *)
(*                                                                         *)
(* The processes are the goroutine of main (run), the goroutine that calls *)
(* ListenAndServe, the goroutine that calls srv.sessions.Wait, and one     *)
(* goroutine per session.  What a user types in a session is the subject   *)
(* of SophiaStdin; here a shell ends at any time or never, also when its   *)
(* connection is gone: a command may go on for as long as it likes.        *)
(*                                                                         *)
(* Three things are external and are modelled by how main.go uses them:    *)
(* gliderlabs/ssh (Serve, Shutdown, Close and its connWg), sync.WaitGroup  *)
(* (with its panic when a group is reused before Wait has returned), and   *)
(* the bucket operations of Tigris, which may fail after taking effect.    *)
(***************************************************************************)
EXTENDS Integers, FiniteSets

CONSTANTS
    Session,   \* SSH session channels, each used at most once
    Conn,      \* SSH connections, each used at most once
    NoConn     \* the connection of a session that was not opened yet

ASSUME ServerAssumption ==
    /\ IsFiniteSet(Session)
    /\ NoConn \notin Conn

VARIABLES
    main,      \* control state of run()
    exit,      \* which way run() left its last select
    serve,     \* ListenAndServe and the listener it registered
    errCh,     \* the channel ListenAndServe's result is sent on
    waiter,    \* the goroutine blocked in srv.sessions.Wait
    wg,        \* the counter of srv.sessions
    conn,      \* state of each connection
    connOf,    \* connection of each session
    sess,      \* control state of each session's goroutine
    bucket,    \* state of each session's bucket fork
    late       \* history: sessions that called Add after Wait had returned

mainVars == <<main, exit>>
servVars == <<serve, errCh>>
connVars == <<conn, connOf>>
sessVars == <<sess, bucket, late>>
vars == <<mainVars, servVars, waiter, wg, connVars, sessVars>>

(***************************************************************************)
(* A session is counted by srv.sessions from Add(1) to the deferred Done.  *)
(***************************************************************************)
Counted == {"client", "forking", "forked", "shell", "deleting", "returning"}

InFlight == {s \in Session : sess[s] \in Counted}

Alive == main \notin {"exited", "panicked"}

TypeOK ==
    /\ main \in {"serving", "shutdown", "close", "wait", "errCh",
                 "exited", "panicked"}
    /\ exit \in {"none", "listen", "done", "force"}
    /\ serve \in {"unstarted", "listening", "closing", "returned"}
    /\ errCh \in {"empty", "closed", "error"}
    /\ waiter \in {"idle", "started", "blocked", "released", "returned"}
    /\ wg \in Nat
    /\ conn \in [Conn -> {"none", "handshake", "tracked", "gone"}]
    /\ connOf \in [Session -> Conn \cup {NoConn}]
    /\ sess \in [Session -> {"none", "starting", "returned"} \cup Counted]
    /\ bucket \in [Session -> {"none", "live", "lost", "stuck", "deleted"}]
    /\ late \subseteq Session

Init ==
    /\ main = "serving"
    /\ exit = "none"
    /\ serve = "unstarted"
    /\ errCh = "empty"
    /\ waiter = "idle"
    /\ wg = 0
    /\ conn = [c \in Conn |-> "none"]
    /\ connOf = [s \in Session |-> NoConn]
    /\ sess = [s \in Session |-> "none"]
    /\ bucket = [s \in Session |-> "none"]
    /\ late = {}

-----------------------------------------------------------------------------
(***************************************************************************)
(* ListenAndServe.  Serve registers its listener some time after the       *)
(* goroutine was started; it returns once Shutdown or Close has closed the *)
(* listener, or with an error of Listen or Accept.                         *)
(***************************************************************************)
ServeStarts ==
    /\ Alive /\ serve = "unstarted"
    /\ serve' = "listening"
    /\ UNCHANGED <<mainVars, errCh, waiter, wg, connVars, sessVars>>

\* Mutant: the result of ListenAndServe is not sent to errCh.
ServeReturns_NoSend ==
    /\ Alive /\ serve = "closing"
    /\ serve' = "returned"
    /\ UNCHANGED <<mainVars, errCh, waiter, wg, connVars, sessVars>>

ServeReturns ==
    /\ Alive /\ serve = "closing"
    /\ serve' = "returned"
    /\ errCh' = "closed"
    /\ UNCHANGED <<mainVars, waiter, wg, connVars, sessVars>>

ListenFails ==
    /\ Alive /\ serve \in {"unstarted", "listening"}
    /\ serve' = "returned"
    /\ errCh' = "error"
    /\ UNCHANGED <<mainVars, waiter, wg, connVars, sessVars>>

(***************************************************************************)
(* Connections.  A connection counts in gliderlabs' connWg, and is closed  *)
(* by Close, only after its handshake: an accepted one that is still       *)
(* shaking hands survives both Shutdown and Close.                         *)
(***************************************************************************)
Accept(c) ==
    /\ Alive /\ serve = "listening" /\ conn[c] = "none"
    /\ conn' = [conn EXCEPT ![c] = "handshake"]
    /\ UNCHANGED <<mainVars, servVars, waiter, wg, connOf, sessVars>>

TrackConn(c) ==
    /\ Alive /\ conn[c] = "handshake"
    /\ conn' = [conn EXCEPT ![c] = "tracked"]
    /\ UNCHANGED <<mainVars, servVars, waiter, wg, connOf, sessVars>>

Disconnect(c) ==
    /\ Alive /\ conn[c] \in {"handshake", "tracked"}
    /\ conn' = [conn EXCEPT ![c] = "gone"]
    /\ UNCHANGED <<mainVars, servVars, waiter, wg, connOf, sessVars>>

\* The library starts the goroutine that will call HandleSSH.
OpenSession(s, c) ==
    /\ Alive /\ conn[c] = "tracked" /\ sess[s] = "none"
    /\ sess' = [sess EXCEPT ![s] = "starting"]
    /\ connOf' = [connOf EXCEPT ![s] = c]
    /\ UNCHANGED <<mainVars, servVars, waiter, wg, conn, bucket, late>>

-----------------------------------------------------------------------------
(***************************************************************************)
(* HandleSSH and the parts of runKefka that own the bucket.                *)
(***************************************************************************)

\* Mutant: HandleSSH without Add(1).
HandleSSH_NoAdd(s) ==
    /\ Alive /\ sess[s] = "starting"
    /\ sess' = [sess EXCEPT ![s] = "client"]
    /\ late' = IF waiter = "returned" THEN late \cup {s} ELSE late
    /\ UNCHANGED <<mainVars, servVars, waiter, wg, connVars, bucket>>

HandleSSH(s) ==
    /\ Alive /\ sess[s] = "starting"
    /\ wg' = wg + 1
    /\ sess' = [sess EXCEPT ![s] = "client"]
    /\ late' = IF waiter = "returned" THEN late \cup {s} ELSE late
    /\ UNCHANGED <<mainVars, servVars, waiter, connVars, bucket>>

\* storage.New: on an error runKefka returns before there is a bucket.
StorageNew(s) ==
    /\ Alive /\ sess[s] = "client"
    /\ \E next \in {"forking", "returning"} : sess' = [sess EXCEPT ![s] = next]
    /\ UNCHANGED <<mainVars, servVars, waiter, wg, connVars, bucket, late>>

\* CreateBucketFork(sess.Context()).  On an error runKefka returns before it
\* has deferred the delete, also when the fork was made and only the answer
\* was lost (bucket "lost").
CreateBucketFork(s) ==
    /\ Alive /\ sess[s] = "forking"
    /\ \/ /\ sess' = [sess EXCEPT ![s] = "forked"]
          /\ bucket' = [bucket EXCEPT ![s] = "live"]
       \/ /\ sess' = [sess EXCEPT ![s] = "returning"]
          /\ \E left \in {"none", "lost"} : bucket' = [bucket EXCEPT ![s] = left]
    /\ UNCHANGED <<mainVars, servVars, waiter, wg, connVars, late>>

\* Mutant: the delete is deferred only once the shell is set up.
SetUpShell_NoDefer(s) ==
    /\ Alive /\ sess[s] = "forked"
    /\ \E next \in {"shell", "returning"} : sess' = [sess EXCEPT ![s] = next]
    /\ UNCHANGED <<mainVars, servVars, waiter, wg, connVars, bucket, late>>

\* NewS3FS, the three pipes and interp.New: any of them failing unwinds
\* through the deferred delete.
SetUpShell(s) ==
    /\ Alive /\ sess[s] = "forked"
    /\ \E next \in {"shell", "deleting"} : sess' = [sess EXCEPT ![s] = next]
    /\ UNCHANGED <<mainVars, servVars, waiter, wg, connVars, bucket, late>>

\* The read loop ends at exit, at Ctrl-D, or because the connection is gone,
\* but only between two commands; nothing makes a running command end.
ShellEnds(s) ==
    /\ Alive /\ sess[s] = "shell"
    /\ sess' = [sess EXCEPT ![s] = "deleting"]
    /\ UNCHANGED <<mainVars, servVars, waiter, wg, connVars, bucket, late>>

\* The deferred DeleteBucket; an error (or its one-minute timeout) is logged.
DeleteBucket(s) ==
    /\ Alive /\ sess[s] = "deleting"
    /\ sess' = [sess EXCEPT ![s] = "returning"]
    /\ \E result \in {"deleted", "stuck"} :
          bucket' = [bucket EXCEPT ![s] = result]
    /\ UNCHANGED <<mainVars, servVars, waiter, wg, connVars, late>>

\* Mutant: Done is both deferred and called.
SessionDone_Twice(s) ==
    /\ Alive /\ sess[s] = "returning"
    /\ sess' = [sess EXCEPT ![s] = "returned"]
    /\ wg' = wg - 2
    /\ UNCHANGED <<mainVars, servVars, waiter, connVars, bucket, late>>

\* The deferred sessions.Done; the last one releases a blocked Wait.
SessionDone(s) ==
    /\ Alive /\ sess[s] = "returning"
    /\ sess' = [sess EXCEPT ![s] = "returned"]
    /\ wg' = wg - 1
    /\ waiter' = IF waiter = "blocked" /\ wg = 1 THEN "released" ELSE waiter
    /\ UNCHANGED <<mainVars, servVars, connVars, bucket, late>>

-----------------------------------------------------------------------------
(***************************************************************************)
(* run().                                                                  *)
(***************************************************************************)
\* First select, errCh ready: run() returns at once, whatever sessions do.
SelectErrCh ==
    /\ main = "serving" /\ errCh # "empty"
    /\ main' = "exited"
    /\ exit' = "listen"
    /\ UNCHANGED <<servVars, waiter, wg, connVars, sessVars>>

\* Closing a listener that Serve has not registered yet does nothing.
CloseListeners ==
    serve' = IF serve = "listening" THEN "closing" ELSE serve

\* First select, a signal has arrived: Shutdown closes the listeners and
\* starts to wait.
SelectSignal ==
    /\ main = "serving"
    /\ main' = "shutdown"
    /\ CloseListeners
    /\ UNCHANGED <<exit, errCh, waiter, wg, connVars, sessVars>>

StartWaiter ==
    /\ main' = "wait"
    /\ waiter' = "started"

\* Shutdown returns nil: no listener and no tracked connection is left.
ShutdownReturns ==
    /\ main = "shutdown"
    /\ serve \in {"unstarted", "returned"}
    /\ \A c \in Conn : conn[c] # "tracked"
    /\ StartWaiter
    /\ UNCHANGED <<exit, servVars, wg, connVars, sessVars>>

GraceExpires ==
    /\ main = "shutdown"
    /\ main' = "close"
    /\ UNCHANGED <<exit, servVars, waiter, wg, connVars, sessVars>>

ForceClose ==
    /\ main = "close"
    /\ conn' = [c \in Conn |-> IF conn[c] = "tracked" THEN "gone" ELSE conn[c]]
    /\ CloseListeners
    /\ StartWaiter
    /\ UNCHANGED <<exit, errCh, wg, connOf, sessVars>>

\* srv.sessions.Wait: returns at once on a zero counter, else blocks.
WaiterChecks ==
    /\ Alive /\ waiter = "started"
    /\ waiter' = IF wg = 0 THEN "returned" ELSE "blocked"
    /\ UNCHANGED <<mainVars, servVars, wg, connVars, sessVars>>

\* A released Wait panics, and with it the process, if the counter has been
\* raised again in the meantime.
WaiterWakes ==
    /\ Alive /\ waiter = "released"
    /\ \/ wg = 0 /\ waiter' = "returned" /\ UNCHANGED main
       \/ wg # 0 /\ main' = "panicked" /\ UNCHANGED waiter
    /\ UNCHANGED <<exit, servVars, wg, connVars, sessVars>>

\* Mutant: done is closed without waiting for the group.
SelectDone_NoWait ==
    /\ main = "wait"
    /\ main' = "errCh"
    /\ exit' = "done"
    /\ UNCHANGED <<servVars, waiter, wg, connVars, sessVars>>

\* Second select: done was closed, or shutdownForceTimeout has passed.
SelectDone ==
    /\ main = "wait" /\ waiter = "returned"
    /\ main' = "errCh"
    /\ exit' = "done"
    /\ UNCHANGED <<servVars, waiter, wg, connVars, sessVars>>

SelectForceTimeout ==
    /\ main = "wait"
    /\ main' = "errCh"
    /\ exit' = "force"
    /\ UNCHANGED <<servVars, waiter, wg, connVars, sessVars>>

ReceiveErrCh ==
    /\ main = "errCh" /\ errCh # "empty"
    /\ main' = "exited"
    /\ UNCHANGED <<exit, servVars, waiter, wg, connVars, sessVars>>

\* The process is gone and nothing changes any more.
Terminated == ~Alive /\ UNCHANGED vars

-----------------------------------------------------------------------------
SessionStep(s) ==
    \/ HandleSSH(s) \/ StorageNew(s) \/ CreateBucketFork(s) \/ SetUpShell(s)
    \/ DeleteBucket(s) \/ SessionDone(s)

MainStep ==
    \/ SelectErrCh \/ ShutdownReturns \/ GraceExpires \/ ForceClose
    \/ SelectDone \/ SelectForceTimeout \/ ReceiveErrCh

WaiterStep == WaiterChecks \/ WaiterWakes

Next ==
    \/ ServeStarts \/ ServeReturns \/ ListenFails
    \/ \E c \in Conn : Accept(c) \/ TrackConn(c) \/ Disconnect(c)
    \/ \E s \in Session, c \in Conn : OpenSession(s, c)
    \/ \E s \in Session : SessionStep(s) \/ ShellEnds(s)
    \/ SelectSignal \/ MainStep \/ WaiterStep
    \/ Terminated

(***************************************************************************)
(* Goroutines are scheduled fairly and timers fire.  No client has to do   *)
(* anything, and no shell has to end: ShellEnds is not fair.               *)
(***************************************************************************)
Fairness ==
    /\ WF_vars(ServeStarts) /\ WF_vars(ServeReturns)
    /\ WF_vars(MainStep) /\ WF_vars(WaiterStep)
    /\ \A s \in Session : WF_vars(SessionStep(s))

Spec == Init /\ [][Next]_vars

FairSpec == Spec /\ Fairness

-----------------------------------------------------------------------------
(***************************************************************************)
(* srv.sessions counts exactly the HandleSSH calls between Add and Done:   *)
(* it never misses or double counts a session (main.go:173-188).           *)
(***************************************************************************)
WaitGroupCounts == wg = Cardinality(InFlight)

(***************************************************************************)
(* A bucket waits for its delete exactly while its session is between the  *)
(* successful fork and the deferred DeleteBucket, so it always has an      *)
(* owner that is counted by srv.sessions (main.go:223-242).                *)
(***************************************************************************)
BucketOwned ==
    \A s \in Session :
        bucket[s] = "live" <=> sess[s] \in {"forked", "shell", "deleting"}

\* Wait is called once, after Shutdown; a session in flight after it has
\* returned registered after that.
WaiterKnows ==
    /\ main \in {"serving", "shutdown", "close"} => waiter = "idle"
    /\ waiter = "returned" => InFlight \subseteq late
    /\ exit = "done" => waiter = "returned"

(***************************************************************************)
(* The inductive invariant behind the shutdown: the counter of             *)
(* srv.sessions is the number of HandleSSH calls between Add and Done, a   *)
(* bucket that waits for its delete has one of them as its owner, and Wait *)
(* returns only when there was none (main.go:127-140, 186-242).            *)
(***************************************************************************)
ServerInv == TypeOK /\ WaitGroupCounts /\ BucketOwned /\ WaiterKnows

(***************************************************************************)
(* srv.sessions.Wait returns only in a state in which every session that   *)
(* has registered with Add has run its deferred DeleteBucket and Done, no  *)
(* matter which sessions register while it waits (main.go:131-135).        *)
(***************************************************************************)
WaitReturnsAfterCleanup ==
    [][waiter # "returned" /\ waiter' = "returned" => InFlight = {}]_vars

(***************************************************************************)
(* When run() leaves its last select because the sessions are done, a      *)
(* bucket whose owner still has to delete it belongs to a session that     *)
(* called Add only after Wait had returned (main.go:127-140).              *)
(***************************************************************************)
DoneMeansCleaned ==
    exit = "done" => \A s \in Session : bucket[s] = "live" => s \in late

(***************************************************************************)
(* A signal that arrives once the listener is registered ends the process, *)
(* whatever clients and Tigris do (main.go:116-146).                       *)
(***************************************************************************)
ShutdownEnds == (main = "shutdown" /\ serve # "unstarted") ~> ~Alive

(***************************************************************************)
(* Whatever fails after the fork, every live bucket gets to the end of a   *)
(* DeleteBucket call, unless the process dies first or its session's shell *)
(* goes on for ever; nothing else keeps a bucket (main.go:228-263).  What  *)
(* keeps a shell for ever is the subject of SophiaStdin's SessionFate.     *)
(***************************************************************************)
BucketFate ==
    \A s \in Session :
        bucket[s] = "live"
            ~> (\/ bucket[s] \in {"deleted", "stuck"}
                \/ ~Alive
                \/ [](sess[s] = "shell"))

(***************************************************************************)
(* The goal of docs/plans/sophia-graceful-shutdown.md: a trapped signal    *)
(* always gets the server to stop.                                         *)
(***************************************************************************)
SignalStopsServer == main = "shutdown" ~> ~Alive
=============================================================================
