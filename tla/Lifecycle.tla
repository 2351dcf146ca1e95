----------------------------- MODULE Lifecycle -----------------------------
(***************************************************************************)
(* A process from its command line to its exit: src/src/bootstrap/mod.rs   *)
(* (run_http, run_worker, run_all), http.rs, worker.rs and shutdown.rs.    *)
(*                                                                         *)
(* The HTTP server and the worker loop are futures of the main task; the   *)
(* signal listener is a task of its own.  They share one watch channel     *)
(* that carries "shutdown requested".  A step is what runs between two     *)
(* awaits.  Several steps may race inside tokio::select!, which takes any  *)
(* branch that is ready.                                                   *)
(***************************************************************************)
EXTENDS Naturals

CONSTANTS
    Connections,    \* connections of HTTP clients
    MaxConnections  \* BOUND: values of DATABASE_MAX_CONNECTIONS tried

ASSUME LifecycleConstants == MaxConnections \in Nat

VARIABLES
    command,    \* Command::Http, Worker or All
    main,       \* the main task
    result,     \* what bootstrap::run returned
    notifier,   \* the task of notify_on_signal
    requested,  \* the value in the watch channel
    http,       \* http::run
    connection, \* what each client's connection is at
    worker,     \* worker::run
    due,        \* now >= next_cleanup
    late        \* HISTORY: jobs claimed since `requested`, at most 2

vars == <<command, main, result, notifier, requested, http, connection, worker, due, late>>

channel == <<notifier, requested>>
parts == <<http, connection, worker, due, late>>

-----------------------------------------------------------------------------
(* State. *)

Parts == IF command = "all" THEN {"http", "worker"} ELSE {command}

PartState(p) == IF p = "http" THEN http ELSE worker

Ended(p) == PartState(p) \in {"stopped", "failed"}

Alive == main \notin {"exited", "killed"}

Unfinished == {"spawned", "listening", "notified"}

\* MUTANT of Closed: run_all gives its only sender away instead of a clone.
ClosedWithoutMain == notifier \notin Unfinished

\* Every sender is gone: run_all keeps one, the other commands keep none.
Closed == command # "all" /\ notifier \notin Unfinished

\* shutdown::wait: also ends when changed() says that no sender is left.
WaitReturns == requested \/ Closed

-----------------------------------------------------------------------------
(* The main task. *)

Exit(r) ==
    /\ main' = "exited"
    /\ result' = r
    /\ notifier' = IF notifier \in Unfinished THEN "aborted" ELSE notifier

\* split_all_mode_connections: one for the worker, at least one for HTTP.
Splits(total) == total >= 2

\* Config::from_env, then the split of the connections.
Configure(total) ==
    /\ main = "config"
    /\ \/ /\ Exit("err")
          /\ UNCHANGED <<command, requested, parts>>
       \/ /\ command = "all" => Splits(total)
          /\ \E next \in IF command = "all" THEN {"migrate", "oidc"} ELSE {"oidc"} :
                main' = next
          /\ UNCHANGED <<command, result, channel, parts>>

\* run_all --migrate.
Migrate ==
    /\ main = "migrate"
    /\ \/ /\ main' = "oidc"
          /\ UNCHANGED <<result, notifier>>
       \/ Exit("err")
    /\ UNCHANGED <<command, requested, parts>>

\* OidcConfig::from_env (not for the worker), then the channel, the listener
\* task and the futures.
Spawn ==
    /\ main = "oidc"
    /\ \/ /\ command # "worker"
          /\ Exit("err")
          /\ UNCHANGED <<http, worker>>
       \/ /\ main' = "running"
          /\ notifier' = "spawned"
          /\ http' = IF "http" \in Parts THEN "discover" ELSE http
          /\ worker' = IF "worker" \in Parts THEN "connect" ELSE worker
          /\ UNCHANGED result
    /\ UNCHANGED <<command, requested, connection, due, late>>

\* MUTANT of FirstEnds: the part that is left is not told.
FirstEndsSilently ==
    /\ main = "running" /\ command = "all"
    /\ \E p \in Parts : Ended(p)
    /\ main' = "await_other"
    /\ UNCHANGED <<command, result, channel, parts>>

\* run_all: the select takes the part that ended first, tells the other one
\* to stop and awaits it.
FirstEnds ==
    /\ main = "running" /\ command = "all"
    /\ \E p \in Parts : Ended(p)
    /\ requested' = TRUE
    /\ main' = "await_other"
    /\ UNCHANGED <<command, result, notifier, parts>>

\* MUTANT of Combined: only the HTTP server's result counts.
CombinedOfHttp == IF http = "failed" THEN "err" ELSE "ok"

\* http_result.and(worker_result).
Combined == IF \E p \in Parts : PartState(p) = "failed" THEN "err" ELSE "ok"

\* MUTANT of Finish: run_all returns as soon as one part is done.
FinishAtFirst ==
    /\ main = "running"
    /\ \E p \in Parts : Ended(p)
    /\ Exit(Combined)
    /\ UNCHANGED <<command, requested, parts>>

\* The last part has ended: the listener is aborted and the command returns.
Finish ==
    /\ main = IF command = "all" THEN "await_other" ELSE "running"
    /\ \A p \in Parts : Ended(p)
    /\ Exit(Combined)
    /\ UNCHANGED <<command, requested, parts>>

-----------------------------------------------------------------------------
(* The signal listener. *)

\* The task is polled for the first time: it installs its handlers, or
\* panics and drops its sender.
Install ==
    /\ Alive
    /\ notifier = "spawned"
    /\ notifier' \in {"listening", "panicked"}
    /\ UNCHANGED <<command, main, result, requested, parts>>

\* SIGINT or SIGTERM.  Without a handler the process is gone; after the first
\* one the handler stays installed and further signals do nothing.
Signal ==
    /\ Alive
    /\ \/ /\ notifier = "listening"
          /\ notifier' = "notified"
          /\ UNCHANGED main
       \/ /\ notifier \in {"unborn", "spawned", "panicked"}
          /\ main' = "killed"
          /\ UNCHANGED notifier
    /\ UNCHANGED <<command, result, requested, parts>>

\* sender.send(true), and the sender is dropped.
Notify ==
    /\ Alive
    /\ notifier = "notified"
    /\ notifier' = "done"
    /\ requested' = TRUE
    /\ UNCHANGED <<command, main, result, parts>>

-----------------------------------------------------------------------------
(* http::run. *)

HttpIs(from, to) ==
    /\ Alive
    /\ http = from
    /\ http' = to
    /\ UNCHANGED <<command, main, result, channel, connection, worker, due, late>>

\* Discovery of the provider, the dependencies (PostgreSQL is required; Redis
\* is not, its failure only disables the cache) and the listener.  None of the
\* three looks at the channel.
Discover == \E next \in {"dependencies", "failed"} : HttpIs("discover", next)

BuildDependencies == \E next \in {"bind", "failed"} : HttpIs("dependencies", next)

Bind == \E next \in {"serving", "failed"} : HttpIs("bind", next)

Startup == Discover \/ BuildDependencies \/ Bind

\* with_graceful_shutdown: no new connection from now on.
BeginDrain == WaitReturns /\ HttpIs("serving", "draining")

\* serve returns once every connection is closed.  Idle ones close at once.
Drained == (\A c \in Connections : connection[c] = "idle") /\ HttpIs("draining", "stopped")

ConnectionIs(c, from, to) ==
    /\ Alive
    /\ connection[c] = from
    /\ connection' = [connection EXCEPT ![c] = to]
    /\ UNCHANGED <<command, main, result, channel, http, worker, due, late>>

\* The first bytes of a request.
RequestBegins(c) == http = "serving" /\ ConnectionIs(c, "idle", "sending")

\* Its head is complete, also during the drain: the router has it.
RequestArrives(c) == ConnectionIs(c, "sending", "served")

\* Answered, at the latest by the TimeoutLayer.
RequestEnds(c) == ConnectionIs(c, "served", "taking")

\* The client has taken the answer, or is gone.
ClientEnds(c) == \E at \in {"sending", "served", "taking"} : ConnectionIs(c, at, "idle")

ConnectionStep ==
    \E c \in Connections :
        RequestBegins(c) \/ RequestArrives(c) \/ RequestEnds(c) \/ ClientEnds(c)

-----------------------------------------------------------------------------
(* worker::run. *)

WorkerIs(from, to) ==
    /\ Alive
    /\ worker = from
    /\ worker' = to
    /\ UNCHANGED <<command, main, result, channel, http, connection>>

Connect == \E next \in {"top", "failed"} : WorkerIs("connect", next) /\ UNCHANGED <<due, late>>

\* MUTANT of Top: shutdown is looked at in the pauses only.
TopUnchecked ==
    /\ WorkerIs("top", IF due THEN "cleanup" ELSE "claim")
    /\ UNCHANGED <<due, late>>

\* The head of the loop.
Top ==
    /\ WorkerIs("top", IF requested THEN "stopped" ELSE IF due THEN "cleanup" ELSE "claim")
    /\ UNCHANGED <<due, late>>

\* run_maintenance gives way to shutdown, or ends; its errors are logged.
CleanupStops == WaitReturns /\ WorkerIs("cleanup", "stopped") /\ UNCHANGED <<due, late>>

CleanupEnds == WorkerIs("cleanup", "claim") /\ due' = FALSE /\ UNCHANGED late

\* run_once finds nothing, or the queue fails: the loop pauses.
ClaimNothing == WorkerIs("claim", "pause") /\ UNCHANGED <<due, late>>

\* run_once has a job: until its outcome is recorded the channel is ignored.
ClaimJob ==
    /\ WorkerIs("claim", "handling")
    /\ late' = IF requested /\ late < 2 THEN late + 1 ELSE late
    /\ UNCHANGED due

\* The job was completed, failed or lost (no pause), or an error came back.
JobEnds == \E next \in {"top", "pause"} : WorkerIs("handling", next) /\ UNCHANGED <<due, late>>

\* wait_or_timeout.
PauseStops == WaitReturns /\ WorkerIs("pause", "stopped") /\ UNCHANGED <<due, late>>

PauseEnds == WorkerIs("pause", "top") /\ UNCHANGED <<due, late>>

\* cleanup_interval has passed.
CleanupDue ==
    /\ Alive
    /\ worker \notin {"off", "cleanup"}
    /\ ~due
    /\ due' = TRUE
    /\ UNCHANGED <<command, main, result, channel, http, connection, worker, late>>

-----------------------------------------------------------------------------
Init ==
    /\ command \in {"http", "worker", "all"}
    /\ main = "config"
    /\ result = "none"
    /\ notifier = "unborn"
    /\ requested = FALSE
    /\ http = "off"
    /\ connection = [c \in Connections |-> "idle"]
    /\ worker = "off"
    /\ due = TRUE
    /\ late = 0

MainStep == (\E total \in 1 .. MaxConnections : Configure(total)) \/ Migrate \/ Spawn
               \/ FirstEnds \/ Finish
WorkerStep == Connect \/ Top \/ CleanupStops \/ CleanupEnds \/ ClaimNothing \/ ClaimJob
                 \/ JobEnds \/ PauseStops \/ PauseEnds

\* The process is gone.
Gone == ~Alive /\ UNCHANGED vars

Next ==
    \/ MainStep
    \/ Install \/ Signal \/ Notify
    \/ Startup \/ BeginDrain \/ Drained \/ ConnectionStep
    \/ WorkerStep \/ CleanupDue
    \/ Gone

Spec == Init /\ [][Next]_vars

\* What worker::run does without waiting for PostgreSQL, or waits for with a
\* deadline: Connect for the pool's acquire timeout, JobEnds for the job's
\* deadline (the one handler there is awaits nothing).
WorkerRuns == Connect \/ Top \/ CleanupStops \/ JobEnds \/ PauseStops \/ PauseEnds

\* The runtime polls every task that is ready, startup waits with timeouts (of
\* the provider's client, of the pool, of Redis) and the TimeoutLayer ends every
\* request.  Nothing is assumed of what has no timeout here: a claim, a purge,
\* a migration, and clients.
LiveSpec ==
    /\ Spec
    /\ WF_vars(FirstEnds \/ Finish) /\ WF_vars(Notify)
    /\ WF_vars(Startup) /\ WF_vars(BeginDrain) /\ WF_vars(Drained)
    /\ \A c \in Connections : WF_vars(RequestEnds(c))
    /\ WF_vars(WorkerRuns)

-----------------------------------------------------------------------------
(* Properties. *)

\* TYPE.
TypeOK ==
    /\ command \in {"http", "worker", "all"}
    /\ main \in {"config", "migrate", "oidc", "running", "await_other", "exited", "killed"}
    /\ result \in {"none", "ok", "err"}
    /\ notifier \in Unfinished \cup {"unborn", "panicked", "done", "aborted"}
    /\ requested \in BOOLEAN
    /\ http \in {"off", "discover", "dependencies", "bind", "serving", "draining", "stopped", "failed"}
    /\ connection \in [Connections -> {"idle", "sending", "served", "taking"}]
    /\ worker \in {"off", "connect", "top", "cleanup", "claim", "handling", "pause",
                   "stopped", "failed"}
    /\ due \in BOOLEAN
    /\ late \in 0 .. 2

\* A command that returns leaves nothing running: no connection in use, no
\* job, purge or connection attempt under way, in whatever order the parts
\* ended and whichever of them failed.
NothingLeftAtExit ==
    main = "exited" => /\ \A c \in Connections : connection[c] = "idle"
                       /\ http \in {"off", "stopped", "failed"}
                       /\ worker \in {"off", "stopped", "failed"}

\* run_all returns an error exactly when a part failed, the part that ended
\* second included: its failure is not hidden behind a clean first end.
FailureReported ==
    main = "exited" /\ (\E p \in Parts : PartState(p) # "off") =>
        (result = "err" <=> \E p \in Parts : PartState(p) = "failed")

\* Success is returned only for a shutdown that was asked for.  (run_http and
\* run_worker also stop when the listener could not install its handlers,
\* because its sender was the last one; run_all does not.)
SuccessIsRequested ==
    main = "exited" /\ result = "ok" =>
        notifier = "done" \/ (command # "all" /\ notifier = "panicked")

\* Once shutdown is requested the worker starts at most one more job, the one
\* it was about to claim.
AtMostOneMoreJob == late <= 1

\* PostgreSQL leaves a claim without an answer: run_once waits without a deadline.
ClaimHangs == <>[](Alive /\ worker = "claim")

\* A client keeps the drain waiting: it never completes the request it began, or
\* never takes its answer.
ClientHolds(c) == <>[](Alive /\ http = "draining" /\ connection[c] \in {"sending", "taking"})

\* A signal that the listener received, at any moment of the startup or of
\* the work, ends the process, and so does the end of either part: nothing in
\* the process itself can keep it, only a claim that PostgreSQL never answers or
\* a client that never finishes.
ShutdownCompletes ==
    \/ ClaimHangs
    \/ \E c \in Connections : ClientHolds(c)
    \/ (Alive /\ (notifier = "notified" \/ \E p \in Parts : Ended(p))) ~> ~Alive
=============================================================================
