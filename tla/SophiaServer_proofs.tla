------------------------ MODULE SophiaServer_proofs -------------------------
(***************************************************************************)
(* Proofs about SophiaServer, for every finite set of sessions and every   *)
(* set of connections.                                                     *)
(***************************************************************************)
EXTENDS SophiaServer, FiniteSetTheorems, TLAPS

-----------------------------------------------------------------------------
(***************************************************************************)
(* Lemmas about the set of sessions that srv.sessions counts.              *)
(***************************************************************************)

\* The sessions between Add and Done are finitely many, so they can be
\* counted (main.go:178).
LEMMA InFlightFinite ==
    /\ IsFiniteSet(InFlight)
    /\ Cardinality(InFlight) \in Nat
BY ServerAssumption, FS_Subset, FS_CardinalityType DEF InFlight

\* A zero counter means that no session is in flight: what Wait relies on
\* (main.go:133).
LEMMA ZeroMeansNone ==
    ASSUME WaitGroupCounts, wg = 0
    PROVE  InFlight = {}
BY InFlightFinite, FS_EmptySet DEF WaitGroupCounts

\* Add(1) at the start of HandleSSH puts one session into the group
\* (main.go:187).
LEMMA AddCounts ==
    ASSUME TypeOK, NEW s \in Session, HandleSSH(s)
    PROVE  /\ InFlight' = InFlight \cup {s}
           /\ Cardinality(InFlight') = Cardinality(InFlight) + 1
<1>1. s \notin InFlight
  BY DEF HandleSSH, InFlight, Counted
<1>2. InFlight' = InFlight \cup {s}
  BY DEF TypeOK, HandleSSH, InFlight, Counted
<1> QED
  BY <1>1, <1>2, InFlightFinite, FS_AddElement

\* The deferred Done takes one session out of the group (main.go:188).
LEMMA DoneCounts ==
    ASSUME TypeOK, NEW s \in Session, SessionDone(s)
    PROVE  /\ InFlight' = InFlight \ {s}
           /\ Cardinality(InFlight') = Cardinality(InFlight) - 1
           /\ Cardinality(InFlight) > 0
<1>1. s \in InFlight
  BY DEF SessionDone, InFlight, Counted
<1>2. InFlight' = InFlight \ {s}
  BY DEF TypeOK, SessionDone, InFlight, Counted
<1>3. Cardinality(InFlight \ {s}) = Cardinality(InFlight) - 1
  BY <1>1, InFlightFinite, FS_RemoveElement
<1>4. Cardinality(InFlight \ {s}) \in Nat
  BY InFlightFinite, FS_RemoveElement, FS_CardinalityType
<1> QED
  BY <1>2, <1>3, <1>4, InFlightFinite

\* No other step of a session moves it into or out of the group
\* (main.go:202-463).
LEMMA OthersDoNotCount ==
    ASSUME TypeOK, NEW s \in Session,
           \/ StorageNew(s) \/ CreateBucketFork(s) \/ SetUpShell(s)
           \/ ShellEnds(s) \/ DeleteBucket(s)
           \/ \E c \in Conn : OpenSession(s, c)
    PROVE  InFlight' = InFlight
BY DEF TypeOK, InFlight, Counted, StorageNew, CreateBucketFork, SetUpShell,
       ShellEnds, DeleteBucket, OpenSession

-----------------------------------------------------------------------------
(***************************************************************************)
(* The steps that change neither a session nor the group.                  *)
(***************************************************************************)
QuietStep ==
    \/ ServeStarts \/ ServeReturns \/ ListenFails
    \/ \E c \in Conn : Accept(c) \/ TrackConn(c) \/ Disconnect(c)
    \/ SelectErrCh \/ SelectSignal \/ ShutdownReturns \/ GraceExpires
    \/ ForceClose \/ SelectForceTimeout \/ ReceiveErrCh
    \/ UNCHANGED vars

\* Main, the listener and the connections leave sessions, buckets and the
\* group alone (main.go:102-146).
LEMMA QuietUnchanged ==
    ASSUME QuietStep
    PROVE  UNCHANGED <<wg, sess, bucket, late>>
BY DEF QuietStep, ServeStarts, ServeReturns, ListenFails, Accept, TrackConn,
       Disconnect, SelectErrCh, SelectSignal, ShutdownReturns, GraceExpires,
       ForceClose, SelectForceTimeout, ReceiveErrCh, StartWaiter, vars,
       sessVars

\* Every step keeps the types of the variables.
LEMMA TypeStep ==
    ASSUME ServerInv, [Next]_vars
    PROVE  TypeOK'
<1> USE DEF TypeOK, Counted
<1>0. TypeOK
  BY DEF ServerInv
<1>1. CASE ServeStarts \/ ServeReturns \/ ListenFails
  BY <1>0, <1>1 DEF ServeStarts, ServeReturns, ListenFails, mainVars, connVars,
                    sessVars
<1>2. ASSUME NEW c \in Conn, Accept(c) \/ TrackConn(c) \/ Disconnect(c)
      PROVE  TypeOK'
  BY <1>0, <1>2 DEF Accept, TrackConn, Disconnect, mainVars, servVars, sessVars
<1>3. ASSUME NEW s \in Session, NEW c \in Conn, OpenSession(s, c)
      PROVE  TypeOK'
  BY <1>0, <1>3 DEF OpenSession, mainVars, servVars
<1>4. ASSUME NEW s \in Session, HandleSSH(s)
      PROVE  TypeOK'
  BY <1>0, <1>4 DEF HandleSSH, mainVars, servVars, connVars
<1>5. ASSUME NEW s \in Session,
             StorageNew(s) \/ CreateBucketFork(s) \/ SetUpShell(s)
                \/ ShellEnds(s) \/ DeleteBucket(s)
      PROVE  TypeOK'
  BY <1>0, <1>5 DEF StorageNew, CreateBucketFork, SetUpShell, ShellEnds,
                    DeleteBucket, mainVars, servVars, connVars
<1>6. ASSUME NEW s \in Session, SessionDone(s)
      PROVE  TypeOK'
  <2>1. wg - 1 \in Nat
    BY <1>0, <1>6, DoneCounts, InFlightFinite DEF ServerInv, WaitGroupCounts
  <2> QED
    BY <1>0, <1>6, <2>1 DEF SessionDone, mainVars, servVars, connVars
<1>7. CASE SelectSignal \/ MainStep
  BY <1>0, <1>7 DEF SelectSignal, MainStep, SelectErrCh, ShutdownReturns,
                    GraceExpires, ForceClose, SelectDone, SelectForceTimeout,
                    ReceiveErrCh, CloseListeners, StartWaiter, mainVars,
                    servVars, connVars, sessVars
<1>8. CASE WaiterStep
  BY <1>0, <1>8 DEF WaiterStep, WaiterChecks, WaiterWakes, mainVars, servVars,
                    connVars, sessVars
<1>9. CASE Terminated \/ UNCHANGED vars
  BY <1>0, <1>9 DEF Terminated, vars, mainVars, servVars, connVars, sessVars
<1> QED
  BY <1>1, <1>2, <1>3, <1>4, <1>5, <1>6, <1>7, <1>8, <1>9
     DEF Next, SessionStep

\* Every step keeps the counter equal to the number of sessions in flight.
LEMMA CountStep ==
    ASSUME ServerInv, [Next]_vars
    PROVE  WaitGroupCounts'
<1> USE DEF WaitGroupCounts
<1>0. TypeOK /\ WaitGroupCounts
  BY DEF ServerInv
<1>1. CASE QuietStep
  BY <1>0, <1>1, QuietUnchanged DEF InFlight
<1>2. ASSUME NEW s \in Session, HandleSSH(s)
      PROVE  WaitGroupCounts'
  BY <1>0, <1>2, AddCounts DEF HandleSSH
<1>3. ASSUME NEW s \in Session, SessionDone(s)
      PROVE  WaitGroupCounts'
  BY <1>0, <1>3, DoneCounts DEF SessionDone
<1>4. ASSUME NEW s \in Session,
             \/ StorageNew(s) \/ CreateBucketFork(s) \/ SetUpShell(s)
             \/ ShellEnds(s) \/ DeleteBucket(s)
             \/ \E c \in Conn : OpenSession(s, c)
      PROVE  WaitGroupCounts'
  <2>1. UNCHANGED wg
    BY <1>4 DEF StorageNew, CreateBucketFork, SetUpShell, ShellEnds,
                DeleteBucket, OpenSession
  <2> QED
    BY <1>0, <1>4, <2>1, OthersDoNotCount
<1>5. CASE SelectDone \/ WaiterStep \/ Terminated
  BY <1>0, <1>5 DEF SelectDone, WaiterStep, WaiterChecks, WaiterWakes,
                    Terminated, vars, sessVars, InFlight
<1> QED
  BY <1>1, <1>2, <1>3, <1>4, <1>5 DEF Next, MainStep, SessionStep, QuietStep

\* Every step keeps a bucket that waits for its delete with its owner.
LEMMA OwnerStep ==
    ASSUME ServerInv, [Next]_vars
    PROVE  BucketOwned'
<1> USE DEF BucketOwned
<1>0. TypeOK /\ BucketOwned
  BY DEF ServerInv
<1>1. CASE QuietStep
  BY <1>0, <1>1, QuietUnchanged
<1>2. ASSUME NEW s \in Session, SessionStep(s) \/ ShellEnds(s)
      PROVE  BucketOwned'
  BY <1>0, <1>2 DEF TypeOK, SessionStep, HandleSSH, StorageNew,
                    CreateBucketFork, SetUpShell, ShellEnds, DeleteBucket,
                    SessionDone
<1>3. ASSUME NEW s \in Session, NEW c \in Conn, OpenSession(s, c)
      PROVE  BucketOwned'
  BY <1>0, <1>3 DEF TypeOK, OpenSession
<1>4. CASE SelectDone \/ WaiterStep \/ Terminated
  BY <1>0, <1>4 DEF SelectDone, WaiterStep, WaiterChecks, WaiterWakes,
                    Terminated, vars, sessVars
<1> QED
  BY <1>1, <1>2, <1>3, <1>4 DEF Next, MainStep, QuietStep

\* After Wait has returned, only sessions that register later are in flight.
LEMMA WaiterKnowsStep ==
    ASSUME ServerInv, [Next]_vars
    PROVE  WaiterKnows'
<1> USE DEF WaiterKnows
<1>0. TypeOK /\ WaitGroupCounts /\ WaiterKnows
  BY DEF ServerInv
<1>1. CASE QuietStep
  <2>1. InFlight' = InFlight /\ late' = late
    BY <1>1, QuietUnchanged DEF InFlight
  <2>2. /\ main' \in {"serving", "shutdown", "close"}
             => waiter' = waiter /\ main \in {"serving", "shutdown", "close"}
        /\ waiter' # waiter => waiter = "idle" /\ waiter' = "started"
        /\ exit' = "done" => exit = "done"
    BY <1>0, <1>1
       DEF QuietStep, ServeStarts, ServeReturns, ListenFails, Accept,
           TrackConn, Disconnect, SelectErrCh, SelectSignal, ShutdownReturns,
           GraceExpires, ForceClose, SelectForceTimeout, ReceiveErrCh,
           StartWaiter, vars, mainVars
  <2> QED
    BY <1>0, <2>1, <2>2
<1>2. ASSUME NEW s \in Session, HandleSSH(s)
      PROVE  WaiterKnows'
  <2>1. InFlight' = InFlight \cup {s}
    BY <1>0, <1>2, AddCounts
  <2> QED
    BY <1>0, <1>2, <2>1 DEF HandleSSH, mainVars
<1>3. ASSUME NEW s \in Session, SessionDone(s)
      PROVE  WaiterKnows'
  <2>1. InFlight' = InFlight \ {s}
    BY <1>0, <1>3, DoneCounts
  <2> QED
    BY <1>0, <1>3, <2>1 DEF SessionDone, mainVars
<1>4. ASSUME NEW s \in Session,
             \/ StorageNew(s) \/ CreateBucketFork(s) \/ SetUpShell(s)
             \/ ShellEnds(s) \/ DeleteBucket(s)
             \/ \E c \in Conn : OpenSession(s, c)
      PROVE  WaiterKnows'
  <2>1. UNCHANGED <<main, exit, waiter, late>>
    BY <1>4 DEF StorageNew, CreateBucketFork, SetUpShell, ShellEnds,
                DeleteBucket, OpenSession, mainVars
  <2>2. InFlight' = InFlight
    BY <1>0, <1>4, OthersDoNotCount
  <2> QED
    BY <1>0, <2>1, <2>2
<1>5. CASE WaiterStep
  <2>1. InFlight' = InFlight /\ late' = late /\ exit' = exit
    BY <1>5 DEF WaiterStep, WaiterChecks, WaiterWakes, InFlight, sessVars,
                mainVars
  <2>2. waiter' = "returned" => wg = 0
    BY <1>5 DEF WaiterStep, WaiterChecks, WaiterWakes
  <2>3. waiter \in {"started", "released"}
    BY <1>5 DEF WaiterStep, WaiterChecks, WaiterWakes
  <2>4. main' = main \/ main' = "panicked"
    BY <1>5 DEF WaiterStep, WaiterChecks, WaiterWakes, mainVars
  <2> QED
    BY <1>0, <2>1, <2>2, <2>3, <2>4, ZeroMeansNone
<1>6. CASE SelectDone \/ Terminated
  BY <1>0, <1>6 DEF SelectDone, Terminated, vars, sessVars, mainVars, InFlight
<1> QED
  BY <1>1, <1>2, <1>3, <1>4, <1>5, <1>6 DEF Next, MainStep, SessionStep,
                                            QuietStep

-----------------------------------------------------------------------------
\* The inductive invariant of the server holds in every reachable state, for
\* every finite set of sessions (main.go:80-147, 186-242).
THEOREM ServerInvariant == Spec => []ServerInv
<1>1. Init => ServerInv
  <2> SUFFICES ASSUME Init PROVE ServerInv
    OBVIOUS
  <2>1. TypeOK
    BY DEF Init, TypeOK, Counted
  <2>2. InFlight = {}
    BY DEF Init, InFlight, Counted
  <2>3. WaitGroupCounts
    BY <2>2, FS_EmptySet DEF Init, WaitGroupCounts
  <2>4. BucketOwned /\ WaiterKnows
    BY DEF Init, BucketOwned, WaiterKnows
  <2> QED
    BY <2>1, <2>3, <2>4 DEF ServerInv
<1>2. ServerInv /\ [Next]_vars => ServerInv'
  BY TypeStep, CountStep, OwnerStep, WaiterKnowsStep DEF ServerInv
<1> QED
  BY <1>1, <1>2, PTL DEF Spec

\* Type correctness.
THEOREM ServerTypeOK == Spec => []TypeOK
<1>1. ServerInv => TypeOK
  BY DEF ServerInv
<1> QED
  BY <1>1, ServerInvariant, PTL

\* When run() leaves its last select through done, every bucket that still
\* waits for its delete belongs to a session that registered after
\* srv.sessions.Wait had returned (main.go:127-140).
THEOREM DoneIsClean == Spec => []DoneMeansCleaned
<1>1. ServerInv => DoneMeansCleaned
  BY DEF ServerInv, DoneMeansCleaned, BucketOwned, WaiterKnows, InFlight,
         Counted
<1> QED
  BY <1>1, ServerInvariant, PTL

\* srv.sessions.Wait returns only when no registered session is still in
\* flight (main.go:131-135).
THEOREM WaitIsClean == Spec => WaitReturnsAfterCleanup
<1>1. ServerInv /\ [Next]_vars
        => [waiter # "returned" /\ waiter' = "returned" => InFlight = {}]_vars
  <2> SUFFICES ASSUME ServerInv, Next,
                      waiter # "returned", waiter' = "returned"
               PROVE  InFlight = {}
    BY DEF vars
  <2>1. wg = 0
    BY DEF Next, ServeStarts, ServeReturns, ListenFails, Accept, TrackConn,
           Disconnect, OpenSession, SessionStep, HandleSSH, StorageNew,
           CreateBucketFork, SetUpShell, ShellEnds, DeleteBucket, SessionDone,
           SelectSignal, MainStep, SelectErrCh, ShutdownReturns, GraceExpires,
           ForceClose, SelectDone, SelectForceTimeout, ReceiveErrCh,
           StartWaiter, WaiterStep, WaiterChecks, WaiterWakes, Terminated, vars
  <2> QED
    BY <2>1, ZeroMeansNone DEF ServerInv
<1> QED
  BY <1>1, ServerInvariant, PTL DEF Spec, WaitReturnsAfterCleanup
=============================================================================
