-------------------------- MODULE LifecycleProofs --------------------------
(***************************************************************************)
(* How a command ends, for any number of client and of database            *)
(* connections.                                                            *)
(*                                                                         *)
(* What is claimed of an exited process is not inductive: LInv says what   *)
(* each phase of the main task has started (Phases), who may have asked    *)
(* for the shutdown (RequestHasACause), that a part stops for a reason     *)
(* only (StopsHaveACause), and where the worker can be once it has claimed *)
(* a job after the request (OneLateJob).                                   *)
(***************************************************************************)
EXTENDS Lifecycle, TLAPS

AllParts == {"http", "worker"}

Started == \A p \in AllParts : PartState(p) = "off" <=> p \notin Parts

NotStarted == \A p \in AllParts : PartState(p) = "off"

Phases ==
    /\ main \in {"config", "migrate", "oidc"} =>
          NotStarted /\ notifier = "unborn" /\ ~requested
    /\ main \in {"running", "await_other"} =>
          Started /\ notifier \notin {"unborn", "aborted"}
    /\ main = "await_other" => command = "all" /\ requested
    /\ main = "exited" =>
          \/ NotStarted /\ result = "err"
          \/ /\ Started /\ \A p \in Parts : Ended(p)
             /\ result = Combined

\* Connections are in use only between Bind and Drained.
RequestsServed ==
    (\E c \in Connections : connection[c] # "idle") => http \in {"serving", "draining"}

\* Shutdown is requested by the listener, or by run_all after a failure.
RequestHasACause ==
    /\ notifier = "done" => requested
    /\ requested => notifier = "done" \/ \E p \in AllParts : PartState(p) = "failed"

\* A part that ends without a failure saw the request or, unless run_all keeps
\* a sender, the end of the listener.
StopsHaveACause ==
    http \in {"draining", "stopped"} \/ worker = "stopped" =>
        requested \/ (command # "all" /\ notifier \in {"panicked", "done"})

\* The worker does not come back to its claim.
OneLateJob ==
    /\ late <= 1
    /\ late > 0 => requested /\ worker \in {"handling", "pause", "top", "stopped"}

\* The inductive invariant.
LInv ==
    /\ TypeOK
    /\ Phases
    /\ RequestsServed
    /\ RequestHasACause
    /\ StopsHaveACause
    /\ OneLateJob

-----------------------------------------------------------------------------
LEMMA InitLInv == Init => LInv
<1> SUFFICES ASSUME Init PROVE LInv
  OBVIOUS
<1> USE LifecycleConstants DEF Init
<1>1. TypeOK
  <2>1. requested \in BOOLEAN /\ due \in BOOLEAN
    BY Zenon
  <2>2. connection \in [Connections -> {"idle", "sending", "served", "taking"}] /\ late \in 0 .. 2
    BY SMT
  <2> QED
    BY <2>1, <2>2, Zenon DEF TypeOK
<1>2. Phases /\ RequestsServed /\ RequestHasACause
  BY DEF Phases, NotStarted, AllParts, PartState, RequestsServed, RequestHasACause
<1>3. StopsHaveACause /\ OneLateJob
  BY DEF StopsHaveACause, OneLateJob
<1> QED
  BY <1>1, <1>2, <1>3 DEF LInv

LEMMA ConfigureKeeps ==
    ASSUME LInv, NEW total \in 1 .. MaxConnections, Configure(total)
    PROVE  LInv'
<1> USE LifecycleConstants DEF LInv, TypeOK, Unfinished, Alive, PartState, AllParts,
        Parts, Ended, Configure, Exit, parts, channel
<1>1. TypeOK'
  OBVIOUS
<1>2. Phases'
  BY DEF Phases, Started, NotStarted, Combined, StopsHaveACause
<1>3. RequestsServed'
  BY DEF RequestsServed, Phases, NotStarted
<1>4. RequestHasACause'
  BY DEF RequestHasACause, Phases, NotStarted, StopsHaveACause
<1>5. StopsHaveACause'
  BY DEF StopsHaveACause, Phases, NotStarted, Started
<1>6. OneLateJob'
  BY DEF OneLateJob, Phases, NotStarted
<1> QED
  BY <1>1, <1>2, <1>3, <1>4, <1>5, <1>6

LEMMA MigrateKeeps ==
    ASSUME LInv, Migrate
    PROVE  LInv'
<1> USE LifecycleConstants DEF LInv, TypeOK, Unfinished, Alive, PartState, AllParts,
        Parts, Ended, Migrate, Exit, parts
<1>1. TypeOK'
  OBVIOUS
<1>2. Phases'
  BY DEF Phases, Started, NotStarted, Combined, StopsHaveACause
<1>3. RequestsServed'
  BY DEF RequestsServed, Phases, NotStarted
<1>4. RequestHasACause'
  BY DEF RequestHasACause, Phases, NotStarted, StopsHaveACause
<1>5. StopsHaveACause'
  BY DEF StopsHaveACause, Phases, NotStarted, Started
<1>6. OneLateJob'
  BY DEF OneLateJob, Phases, NotStarted
<1> QED
  BY <1>1, <1>2, <1>3, <1>4, <1>5, <1>6

LEMMA SpawnKeeps ==
    ASSUME LInv, Spawn
    PROVE  LInv'
<1> USE LifecycleConstants DEF LInv, TypeOK, Unfinished, Alive, PartState, AllParts,
        Parts, Ended, Spawn, Exit
<1>1. TypeOK'
  OBVIOUS
<1>2. Phases'
  BY DEF Phases, Started, NotStarted, Combined, StopsHaveACause
<1>3. RequestsServed'
  BY DEF RequestsServed, Phases, NotStarted
<1>4. RequestHasACause'
  BY DEF RequestHasACause, Phases, NotStarted, StopsHaveACause
<1>5. StopsHaveACause'
  BY DEF StopsHaveACause, Phases, NotStarted, Started
<1>6. OneLateJob'
  BY DEF OneLateJob, Phases, NotStarted
<1> QED
  BY <1>1, <1>2, <1>3, <1>4, <1>5, <1>6

LEMMA FirstEndsKeeps ==
    ASSUME LInv, FirstEnds
    PROVE  LInv'
<1> USE LifecycleConstants DEF LInv, TypeOK, Unfinished, Alive, PartState, AllParts,
        Parts, Ended, FirstEnds, parts
<1>1. TypeOK'
  OBVIOUS
<1>2. Phases'
  BY DEF Phases, Started, NotStarted, Combined, StopsHaveACause
<1>3. RequestsServed'
  BY DEF RequestsServed, Phases, NotStarted
<1>4. RequestHasACause'
  BY DEF RequestHasACause, Phases, Started, StopsHaveACause
<1>5. StopsHaveACause'
  BY DEF StopsHaveACause, Phases, NotStarted, Started
<1>6. OneLateJob'
  BY DEF OneLateJob, Phases, NotStarted
<1> QED
  BY <1>1, <1>2, <1>3, <1>4, <1>5, <1>6

LEMMA FinishKeeps ==
    ASSUME LInv, Finish
    PROVE  LInv'
<1> USE LifecycleConstants DEF LInv, TypeOK, Unfinished, Alive, PartState, AllParts,
        Parts, Ended, Finish, Exit, parts
<1>1. TypeOK'
  BY DEF Combined
<1>2. Phases'
  BY DEF Phases, Started, NotStarted, Combined, StopsHaveACause
<1>3. RequestsServed'
  BY DEF RequestsServed, Phases, NotStarted
<1>4. RequestHasACause'
  BY DEF RequestHasACause, Phases, NotStarted, StopsHaveACause
<1>5. StopsHaveACause'
  BY DEF StopsHaveACause, Phases, NotStarted, Started
<1>6. OneLateJob'
  BY DEF OneLateJob, Phases, NotStarted
<1> QED
  BY <1>1, <1>2, <1>3, <1>4, <1>5, <1>6

LEMMA ListenerKeeps ==
    ASSUME LInv, Install \/ Signal \/ Notify
    PROVE  LInv'
<1> USE LifecycleConstants DEF LInv, TypeOK, Unfinished, Alive, PartState, AllParts,
        Parts, Ended, Install, Signal, Notify, parts
<1>1. TypeOK'
  <2>1. CASE Install
    BY <2>1
  <2>2. CASE Signal
    BY <2>2
  <2>3. CASE Notify
    <3>1. requested' \in BOOLEAN
      BY <2>3, Zenon
    <3> QED
      BY <2>3, <3>1, SMT
  <2> QED
    BY <2>1, <2>2, <2>3
<1>2. Phases'
  BY DEF Phases, Started, NotStarted, Combined, StopsHaveACause
<1>3. RequestsServed'
  BY DEF RequestsServed, Phases, NotStarted
<1>4. RequestHasACause'
  BY DEF RequestHasACause, Phases, NotStarted, StopsHaveACause
<1>5. StopsHaveACause'
  BY DEF StopsHaveACause, Phases, NotStarted, Started
<1>6. OneLateJob'
  BY DEF OneLateJob, Phases, NotStarted
<1> QED
  BY <1>1, <1>2, <1>3, <1>4, <1>5, <1>6

LEMMA StartupKeeps ==
    ASSUME LInv, Startup
    PROVE  LInv'
<1> USE LifecycleConstants DEF LInv, TypeOK, Unfinished, Alive, PartState, AllParts,
        Parts, Ended, Startup, Discover, BuildDependencies, Bind, HttpIs, channel
<1>1. TypeOK'
  OBVIOUS
<1>2. Phases'
  BY DEF Phases, Started, NotStarted, Combined, StopsHaveACause
<1>3. RequestsServed'
  BY DEF RequestsServed, Phases, NotStarted
<1>4. RequestHasACause'
  BY DEF RequestHasACause, Phases, NotStarted, StopsHaveACause
<1>5. StopsHaveACause'
  BY DEF StopsHaveACause, Phases, NotStarted, Started
<1>6. OneLateJob'
  BY DEF OneLateJob, Phases, NotStarted
<1> QED
  BY <1>1, <1>2, <1>3, <1>4, <1>5, <1>6

LEMMA DrainKeeps ==
    ASSUME LInv, BeginDrain \/ Drained
    PROVE  LInv'
<1> USE LifecycleConstants DEF LInv, TypeOK, Unfinished, Alive, PartState, AllParts,
        Parts, Ended, BeginDrain, Drained, HttpIs, channel, WaitReturns, Closed
<1>1. TypeOK'
  OBVIOUS
<1>2. Phases'
  BY DEF Phases, Started, NotStarted, Combined, StopsHaveACause
<1>3. RequestsServed'
  BY DEF RequestsServed, Phases, NotStarted
<1>4. RequestHasACause'
  BY DEF RequestHasACause, Phases, NotStarted, StopsHaveACause
<1>5. StopsHaveACause'
  BY DEF StopsHaveACause, Phases, NotStarted, Started
<1>6. OneLateJob'
  BY DEF OneLateJob, Phases, NotStarted
<1> QED
  BY <1>1, <1>2, <1>3, <1>4, <1>5, <1>6

LEMMA ConnectionsKeep ==
    ASSUME LInv, ConnectionStep
    PROVE  LInv'
<1> USE LifecycleConstants DEF LInv, TypeOK, Unfinished, Alive, PartState, AllParts,
        Parts, Ended, ConnectionStep, RequestBegins, RequestArrives, RequestEnds,
        ClientEnds, ConnectionIs, channel
<1>1. TypeOK'
  OBVIOUS
<1>2. Phases'
  BY DEF Phases, Started, NotStarted, Combined, StopsHaveACause
<1>3. RequestsServed'
  BY DEF RequestsServed, Phases, NotStarted
<1>4. RequestHasACause'
  BY DEF RequestHasACause, Phases, NotStarted, StopsHaveACause
<1>5. StopsHaveACause'
  BY DEF StopsHaveACause, Phases, NotStarted, Started
<1>6. OneLateJob'
  BY DEF OneLateJob, Phases, NotStarted
<1> QED
  BY <1>1, <1>2, <1>3, <1>4, <1>5, <1>6

LEMMA WorkerKeeps ==
    ASSUME LInv, WorkerStep
    PROVE  LInv'
<1> USE LifecycleConstants DEF LInv, TypeOK, Unfinished, Alive, PartState, AllParts,
        Parts, Ended, WorkerStep, Connect, Top, CleanupStops, CleanupEnds, ClaimNothing,
        ClaimJob, JobEnds, PauseStops, PauseEnds, WorkerIs, channel, WaitReturns, Closed
<1>1. TypeOK'
  <2>1. CASE CleanupEnds
    <3>1. due' \in BOOLEAN
      BY <2>1, Zenon
    <3> QED
      BY <2>1, <3>1, SMT
  <2>2. CASE ClaimJob
    <3>1. late' \in 0 .. 2
      BY <2>2, SMT
    <3> QED
      BY <2>2, <3>1, SMT
  <2>3. CASE WorkerStep /\ UNCHANGED <<due, late>>
    BY <2>3
  <2> QED
    BY <2>1, <2>2, <2>3
<1>2. Phases'
  BY DEF Phases, Started, NotStarted, Combined, StopsHaveACause
<1>3. RequestsServed'
  BY DEF RequestsServed, Phases, NotStarted
<1>4. RequestHasACause'
  BY DEF RequestHasACause, Phases, NotStarted, StopsHaveACause
<1>5. StopsHaveACause'
  BY DEF StopsHaveACause, Phases, NotStarted, Started
<1>6. OneLateJob'
  BY DEF OneLateJob, Phases, NotStarted
<1> QED
  BY <1>1, <1>2, <1>3, <1>4, <1>5, <1>6

LEMMA CleanupDueKeeps ==
    ASSUME LInv, CleanupDue
    PROVE  LInv'
<1> USE LifecycleConstants DEF LInv, TypeOK, Unfinished, Alive, PartState, AllParts,
        Parts, Ended, CleanupDue, channel
<1>1. TypeOK'
  OBVIOUS
<1>2. Phases'
  BY DEF Phases, Started, NotStarted, Combined, StopsHaveACause
<1>3. RequestsServed'
  BY DEF RequestsServed, Phases, NotStarted
<1>4. RequestHasACause'
  BY DEF RequestHasACause, Phases, NotStarted, StopsHaveACause
<1>5. StopsHaveACause'
  BY DEF StopsHaveACause, Phases, NotStarted, Started
<1>6. OneLateJob'
  BY DEF OneLateJob, Phases, NotStarted
<1> QED
  BY <1>1, <1>2, <1>3, <1>4, <1>5, <1>6

LEMMA StepLInv == ASSUME LInv, [Next]_vars PROVE LInv'
<1>1. CASE UNCHANGED vars
  BY <1>1 DEF vars, LInv, TypeOK, Phases, Started, NotStarted, RequestsServed,
     RequestHasACause, StopsHaveACause, OneLateJob, PartState, Parts, Ended, Combined
<1>2. CASE Next
  BY <1>1, <1>2, ConfigureKeeps, MigrateKeeps, SpawnKeeps, FirstEndsKeeps, FinishKeeps,
     ListenerKeeps, StartupKeeps, DrainKeeps, ConnectionsKeep, WorkerKeeps, CleanupDueKeeps
     DEF Next, MainStep, Gone
<1> QED
  BY <1>1, <1>2

LEMMA LInvInductive == Spec => []LInv
<1> QED
  BY InitLInv, StepLInv, PTL DEF Spec

-----------------------------------------------------------------------------
\* "run_http, run_worker and run_all return only when what they started has
\* returned": the process exits with no connection in use, no job, purge or
\* connection attempt under way.
THEOREM ExitsWithNothingLeft == Spec => []NothingLeftAtExit
<1>1. LInv => NothingLeftAtExit
  BY LifecycleConstants DEF LInv, TypeOK, Phases, Started, NotStarted, RequestsServed, AllParts, Parts,
     PartState, Ended, NothingLeftAtExit
<1> QED
  BY <1>1, LInvInductive, PTL

\* http_result.and(worker_result): the command returns an error exactly when a
\* part it started has failed.
THEOREM FailuresAreReported == Spec => []FailureReported
<1>1. LInv => FailureReported
  BY DEF LInv, TypeOK, Phases, Started, NotStarted, AllParts, Parts,
     PartState, Ended, Combined, FailureReported
<1> QED
  BY <1>1, LInvInductive, PTL

\* run returns Ok only after a signal, or, without run_all's own sender, when
\* the listener could not be installed.
THEOREM SuccessWasRequested == Spec => []SuccessIsRequested
<1>1. LInv => SuccessIsRequested
  BY DEF LInv, TypeOK, Phases, Started, NotStarted, RequestHasACause, StopsHaveACause,
     AllParts, Parts, PartState, Ended, Combined, SuccessIsRequested
<1> QED
  BY <1>1, LInvInductive, PTL

\* The check at the head of the worker's loop: after the request it claims at
\* most the job it was about to claim.
THEOREM OneMoreJobAtMost == Spec => []AtMostOneMoreJob
<1>1. LInv => AtMostOneMoreJob
  BY DEF LInv, OneLateJob, AtMostOneMoreJob
<1> QED
  BY <1>1, LInvInductive, PTL
=============================================================================
