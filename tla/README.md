# Verification of the Rust service skeleton

TLA+ models of the program in `src/` (paths below are relative to the
repository's `src/` crate unless they start with `src/`), TLC configurations
that check them on small instances, and TLAPS proofs for every instance.

## The system

One binary serves an HTTP API (`http`), works off a job queue (`worker`), or
both (`all`), and administers its PostgreSQL schema (`db …`, `migration:create`).
A second crate, `src/scaffold`, generates new projects from this one.

| Component | State | Operations | Interacts with | What is hard | What makes it correct |
|---|---|---|---|---|---|
| Job queue: `infrastructure/database/postgres/job_queue.rs`, its migration, the README's runbook | rows of `background_jobs` | enqueue, claim (reap + select), complete, fail, renew, purge, the operator's retry | the worker and the user repository, through SQL | callers that are late, dead, duplicated; `SKIP LOCKED`; two autocommit statements per claim | constraints hold, the budget of attempts is spent exactly when a row is dead, attempt numbers are fencing tokens |
| Worker: `application/job/worker.rs`, `bootstrap/worker.rs` | claimed job, deadline, renewal timer, result kept during a renewal | claim, heartbeat, handler, complete/fail, maintenance | the queue; the shutdown channel | lease estimate against latency, lost replies, abandoned statements, crashes, shared worker ids | a lease the worker relies on is a lease it has; one owner; only handled attempts are completed; no job is stranded |
| Token verification: `infrastructure/oidc/mod.rs` (`verify`, `key_for`) | key cache, refresh mutex, time of the last attempt | verify, refresh | the provider; the router's timeout | rotation, outages, cancelled refreshes, throttling, stale checks | no withdrawn key or expired token beyond the bound; cache never goes back; valid tokens are not refused for long; rotated keys get in |
| JWKS index: same file (`parse_algorithms`, `index_keys`) | the index being built | index a document | token verification | iteration order of a `HashSet`, duplicate ids, undecodable keys | result does not depend on the order |
| User API: `application/user`, `user_repository.rs`, `cache/redis` | `users`, its job rows, cache entries | create, get, list, update, delete | PostgreSQL, Redis, the router's timeout | cache races, dropped requests, late commands, partial failures | user and job are created together; staleness is bounded |
| Lifecycle: `bootstrap/mod.rs`, `http.rs`, `worker.rs`, `shutdown.rs` | main task, signal task, watch channel, parts | start, signal, drain, exit | all of the above | signals and failures at every moment, waits without a timeout | nothing is left at exit, failures are reported, nothing in the process keeps it from ending |
| Migrations: `bootstrap/database.rs`, `postgres/migrations.rs` | `_sqlx_migrations`, sqlx's lock | migrate, revert, info, readiness | other processes of other builds | reads before the lock, crashes between migrations | no gaps; success means ready; the two comparisons agree; a revert spares what it read below the latest |
| Migration files: `database.rs` (`migration:create`) | the scripts in a project | create a pair | other creators, the generator | races of creators, failing and interrupted writes, clocks that go back | a pair or nothing; a reported pair stays; a later migration is newer |
| HTTP layer: `presentation/http` | where a request is, the gauge of active requests | receive, verify, extract, handle, answer, time out | use cases, token verification, telemetry | a timeout at every await, lost replies behind a status, forwarded chains | a client may trust every status but 408 and 503; no request is missing from the gauge; behind proxies configured as documented the rate limiter's key is the client's |
| Listing: `list_users.rs`, `dto.rs`, `request.rs` | — | one read | the table | clamping at the edges of pages | the pages tile the table |
| Value objects, configuration, CLI, telemetry | — | — | — | sequential | see *Not modelled* |
| Scaffold: `src/scaffold` | the target directory, the temporary checkout | generate, format | git, the file system | failures and kills half way, attempts again, overlapping runs, the order of `Cargo.lock` | a success is a whole project of one revision; no checkout is left by an error; the lock file stays sorted |

## Modules

| Module | Models | State and actions |
|---|---|---|
| `RelativeTime` | clocks | every instant is stored relative to `NOW = 0`; a tick ages all of them; instants older than `Horizon` are merged |
| `JobQueue` | the table and its statements | `jobs` is the table. A statement is the set of outcomes it may have (`ReapOutcomes`, `ClaimOutcomes`, `Guarded`, `PurgeOutcomes`) given its `NOW()` and the rows that others lock. `QSpec` lets any client call any statement with any arguments at any time |
| `JobWorker` | worker processes over that table (EXTENDS `JobQueue`) | `worker[w].pc` names the await the process is at; `call[w]` is the statement it awaits or the reply; `orphans` are statements whose caller is gone and which may still execute. One action per continuation of `run_once`, of the heartbeat `select!`, of `run_maintenance`; plus `Execute`, `ExecuteOrphan`, `Disconnect`, `Crash`, `Restart`, `Tick` |
| `JwksCache` | `verify` and `key_for` | `request[r].pc` is the await; `Lookup`, `Acquire` (mutex), `FetchReturns`, `FetchFails`, `Cancel`; `Serve` and `Rotate` are the provider |
| `JwkIndex` | `index_keys` | one step per turn of the inner loop, algorithms taken in any order |
| `LeasedQueue` | what the queue promises, without table, time or network | a job is absent, waiting, running, completed, dead or purged; `left` tries, `holders` entitled to act, `handled` in this try. `JobWorker!ImplementsLeasedQueue` is the refinement |
| `UserStore` | use cases, repository, cache | a step is one statement or cache command; `Drop` is the `TimeoutLayer` or a client that went away; `late` holds commands that may still execute |
| `HttpInputs` | `TrustedProxyIpKeyExtractor::extract`, `ListUsersInput` | operators on a request alone |
| `HttpApi` | the layers in front of the use cases (EXTENDS `UserStore`, `HttpInputs`) | `front[r]` is the await before the use case (`verify`, `body`), `gauge` is `http.server.active_requests`; `Receive`, `RefuseAtOnce`, `VerifyRefuses`, `AwaitBody`, `ExtractRefuses`, `Handle`, then `Work` (a step of `UserStore`); `TimeOut` drops a request wherever it is |
| `Lifecycle` | the process | a step is what runs between two awaits of the main task, the signal task, the server or the worker; `connection[c]` is idle, being sent a request, in the router, or waiting for its client to take the answer |
| `Migrations` | db commands and readiness | `applied` is `_sqlx_migrations`; every migration commits alone; processes of several builds |
| `ProjectDisk` | the directory of a project | `disk[path]`: nothing, a partial file, a template, or the file of a revision |
| `MigrationFiles` | `migration:create` on that directory | a step is what happens between two system calls; each may fail, a process may be killed |
| `Scaffold` | `skeleton-new` into that directory, `lockfile.rs` | clone, one step per copied file, format; `checkouts` are the temporary directories the processes own |
| `ProjectFiles` | the two together | a project is generated, perhaps in several attempts, and migrations are added; `StartOver` is a developer who removes it |
| `JobWorkerProofs`, `JobLeaseProofs`, `JwksCacheProofs`, `JwkIndexProofs`, `HttpApiProofs`, `LifecycleProofs`, `MigrationProofs`, `ProjectFilesProofs` | — | theorems, see *Proofs* |
| `MC…` | — | model values and definitions for TLC |

`JobWorker` is the composition of worker and queue: its `Execute` runs the
statements of `JobQueue` and nothing else touches the table, except the
producers. `UserStore` sees the queue only as the set of ids with a job,
because the job row is written in the transaction that inserts the user.
`HttpApi` composes the use cases with the layers around them: a request's time
starts in the `TimeoutLayer`, before its token is verified and its body has
come. `verify` is there a choice of its results, which `JwksCache` explains.
`MigrationFiles` and `Scaffold` share `disk`. `Migrations` takes for granted
that builds embed beginnings of one history; `LaterIsNewer` is what
`migration:create` adds to that in one working tree, for creations that do not
overlap. What several branches merge is up to who merges them.
`Lifecycle` sees the worker at the granularity of its loop.

Operators marked `MUTANT of X` are wrong versions of `X`, the kind of mistake a
change could introduce; with `X` replaced by one of them the property it
belongs to fails. No specification uses them.

## Runs

| Run | Question and answer |
|---|---|
| `job_queue` | Two jobs, two owners, any statement with any arguments: no statement leaves a row that the constraints refuse (one such row would make every later claim of every worker fail), a pending row always has an attempt left, attempt numbers never repeat. `max_attempts` includes 0 and a value beyond the column, which are refused. |
| `job_worker` | Two processes with the same `worker_id`, one job with two attempts, a lease of three units (so there is an interval of one and retries of a failed renewal), one abandoned statement, crashes and broken connections at any point: a worker within its budget owns its row, never two of them, a completed row was handled in the very attempt it shows, and all of it implements `LeasedQueue`. |
| `job_worker_live` | One worker, `MaxStall = 1`: the estimate of ownership is off by at most the stall; once faults stop every job is completed or dead, including one whose last attempt ended with the process. |
| `jwks_cache` | Two requests, one rotating and one stable key, good, forged, expired and too long-lived tokens: the bounds on withdrawn keys and expired tokens, monotonicity of the cache, and the only excuses for refusing a good token. |
| `jwks_cache_live` | A published key is in a fresh cache again and again, whatever other lookups use up the throttle. One request and a refresh interval of two, so that lookups are throttled. |
| `jwk_index` | All documents of up to three keys over a set that has every kind of metadata, and all subsets of four algorithms, one of them symmetric: index and verdict equal their definition. |
| `http_api` | Two requests of any kind (create, get, list, update, delete), two ids, one address, refused, failing or timed out at every await: user and job together; the staleness bound, now with the time a request spends in front of its use case; a client can trust every status but 408 and 503; no request is missing from the gauge. The operators of `HttpInputs` on every header of two forged entries, unreadable and non-ASCII ones included, and two proxies that join lines or add their own, and every table, page and `per_page` up to 5. |
| `user_store_lost_update` | Finding, below. |
| `lifecycle` | All three commands, two client connections, every failure and signal at every moment. Shutdown ends unless PostgreSQL never answers a claim or a client never finishes its request or never takes its answer; without either excuse TLC finds the process waiting. |
| `migrations` | Three processes of an older, a newer and an edited build, three versions: no gaps, success means ready, info agrees with readiness, a revert spares every migration it read but the latest. |
| `http_gauge` | Finding, below. |
| `project_files` | Two generators with two revisions (the second lacks a file of the first and has one more migration), two creators of one name, clocks that go back, versions up to 3 as the largest there is, any step failing or killed: pairs, reported files, versions, checkouts, whole projects; and every sorted lock file of up to four dependencies with names out of four, the same name twice included. |

### Bounds

Durations are small but keep the order of the code's: renewal interval less
than the lease, retry interval at most the renewal interval, refresh interval
at most the cache's age, `HttpTimeout` at most either. `Horizon` exceeds every
duration compared with (assumed, and checked by TLC), so merging older
instants loses nothing and time is unbounded. `AttemptCap` bounds only the
operator's retry: one retry is enough to reach an attempt number that a first
life of the row never had. One abandoned statement suffices for each race of
an earlier owner with a later one; two processes suffice since every property
of several workers is about pairs of them; two attempts give each row an
earlier and a later owner. `ReapLimit = PurgeLimit = 1` makes a full batch
happen with one row. In `job_worker` the stall is 0: with two workers and a
stall of 1 the state space has more than ten million states, so the stall is
checked with one worker and its abandoned statements (`job_worker_live`), and
both together are covered by the proofs, the refinement's included. Two concurrent requests suffice in
`UserStore` and `JwksCache` for every race of a reader with a writer; a third
would only be another of either. With the one address of `http_api` an update
leaves the row as it is: a second address makes more states than a run can
visit, and what an update changes is covered by the proofs. `late` in `Lifecycle` is a history counter
that saturates at 2. The gauge of `HttpApi` saturates `MaxLeak` above the
requests in flight: it never exceeds the code's, so `GaugeNeverLow` (`MaxLeak =
0`) holds of the code a fortiori, and one leak shows the finding (`MaxLeak = 1`).
In `project_files`, `MaxVersion = 3` leaves room for one migration of the
skeleton, one new one and the overflow; one new name makes the two creators
collide whenever their versions do. The lockfiles that `LockStaysSorted` tries have
up to four dependencies (`LockLength = 4`, `LockNames` four names): the root's block
comes before, between, next to an equal name and after them.

### Fairness

Safety needs none. `JobWorker!LiveSpec` assumes that time passes, that
PostgreSQL executes what it received, that the runtime polls tasks that can go
on and the supervisor restarts a dead process (all weak), that handlers
terminate (strong, because a handler is not polled while the terminal
statement or a timer step is due; the documentation requires handlers to be
finite), and that processes and connections stop failing at some point.
Producers, cleanup and the operator have no obligation.
`JwksCache!LiveSpec` assumes the same of its tasks, a FIFO mutex (strong
fairness of `Acquire`, which is what tokio's mutex gives) and clients that keep
presenting each kind of token.

`Lifecycle!LiveSpec` has weak fairness of what the process does by itself: the
runtime polls ready tasks; startup waits with timeouts (the provider's client,
the pool's acquire timeout, Redis); the `TimeoutLayer` ends the use case of every
request; a job ends by its deadline, its one handler awaiting nothing. It has
none of what the code waits for without a timeout: the claim (`run_once` awaits
it bare and looks at no channel, `application/job/worker.rs:62-65`), a purge
(given up at shutdown), `--migrate` (before there is a listener, so a signal
kills it), and clients, whose connections the drain of `axum::serve` waits for
while they send a request or have an answer to take, which the `TimeoutLayer`
does not bound. So `ShutdownCompletes` names the two excuses that are left,
`ClaimHangs` and `ClientHolds`. It needs a signal or an end of a part to claim
anything, and does not assume that either happens. An operator who wants a bound
on shutdown must have a statement timeout in PostgreSQL and a kill after the
grace period: `docs/system-architecture.md:938` asks only that the grace period
exceed the longest handler.

## Proofs

All proofs hold for every value of the constants within the modules' named
assumptions. For the queue and the worker these are `QueueConstants`,
`HorizonLongEnough` and `WorkerConstants`: finite sets of jobs, positive lease,
limits and retry grant, a horizon above the durations. For verification they
are the bounds that the configuration validates (`ValidConfig`), for the user
API those of `UserConstants`: a finite set of requests, positive durations, a
horizon above their sum.

* `JobWorkerProofs`: of the table, `TableStaysGood` (`QSpec => []TableConstraints`,
  types and the attempt budget with it) and `AttemptsAlwaysFence`. The invariant
  is `GoodTable`: every row has its type, satisfies the constraints and its
  budget, and a row that does not exist has no attempts. One lemma per
  statement is about the row it writes, one lifts it to tables. Of the workers,
  `WorkerTypes`: a reply turns into a job, an attempt and a deadline, and these
  go into later statements and into arithmetic; so the invariant `TypeInv` says
  at which `pc` they are present, that deadlines lie at most a lease ahead, and
  that the table is good.
* `JobLeaseProofs`: `OwnershipHolds`, `OneOwner`, `OnlyHandledCompleted`.
  `OwnershipEstimate` is not inductive. `LeaseInv` adds that attempts are
  tokens: a worker's attempt was granted (`TokensKnown`), to nobody else
  (`TokensUnique`, also with shared worker ids), and no abandoned `complete` or
  `fail` of an attempt in use is around (`NoneSettling`). Then `LeaseHeld` says
  of each instant a worker relies on, the one that an unread reply will give
  it included, that the stored lease lasts as long, less `MaxStall`. The three
  facts that carry it are in `LeaseSurvives`: the reaper looks only at leases
  that are over, a renewal writes an instant at most `MaxStall` old, and a
  terminal statement needs the attempt's token. `HandledInv` says that every
  `complete` that was or may be executed belongs to a handled attempt. And
  `Refinement`, that `JobWorker` implements `LeasedQueue`: the invariant is `LeaseInv` and `HandledInv`, and that only a
  granted attempt has succeeded. A step of the system is a step of the abstract
  queue for each job by itself (`JobStep`), and one claim may move many jobs: so
  the proof is per job, one lemma per statement.
* `JwksCacheProofs`: `Types`, `CacheGoesForward`, `AcceptedTokensLive`,
  `AcceptedKeysPublished`, `RefusalsExplained`. The invariant says that who holds the mutex is who
  fetches, that a fetch is under way no longer than its timeout, that what it
  will install was sent no earlier than what is cached, and since when each
  cached key has been known. With the mutex given up during the fetch the
  order would be lost; without the timeout the bound would. For the refusals
  (`Complete`, `LastSucceeded`): what a document lacks was published after the
  provider sent it, and a refresh that is over has either failed or left a
  cache no older than its attempt, so a throttled miss looks into a cache
  younger than the throttle.
* `JwkIndexProofs`: `IndexHoldsFirstMatches`, `VerdictOfDocument`. In the middle
  of a key some algorithms have seen it and some have not; the invariant says
  of every pair of algorithm and kid that the index is right about what that
  algorithm has seen, and that what is indexed was decoded.
* `MigrationProofs`: `RevertsOnlyTheLatest` for any builds; `MigratesToReady` and
  `InfoAndReadinessAgree` if builds embed a migration at all (`Embeds`: a build
  without any calls an empty table not ready, though nothing is pending); `SchemaHasNoGaps` if builds embed
  beginnings of one history (`Linear`) and have a down script for each
  (`Reversible`). `migration:create` writes pairs, but reads only its own working
  tree, so `Linear` is an assumption about how builds are cut: a branch that is
  merged behind a newer migration breaks it. The
  invariant: who works holds sqlx's lock and found nothing unknown under it, so
  the table stays one that its build knows until it lets go. TLC evaluates the
  three hypotheses on the builds of the run.
* `HttpApiProofs`: `HTypes`, `UserWithJob`, `StaleForABoundedTime`,
  `StatusesAreTrue`, `GaugeCountsAll`, `KeysNameClients`,
  `PagesShowEachRowOnce`. `ProgressMoves` says of every statement and
  cache command of a use case how it relates what it does to the table to how
  the request goes on (`Told`). With it: nobody else knows the id of a user that
  is being created (`Fresh`), so a commit always changes the table; who changed
  the table can only go on to the cache (`Noted`), so it can end in no error but
  503 or 408. For staleness, a copy that a request holds went stale after that
  request arrived (`GoodRequest`), a late command's at most a request's life
  before it was abandoned, an entry's at most the bound before it expires.
  The two about `HttpInputs` need no invariant, but hold for headers, chains of
  proxies, tables and page sizes of any length. `headers().get` sees only the
  first line of X-Forwarded-For. `KeysNameClients` is about deployments where no
  line of the client's own stands there by itself (`ProxiesSpeakFirst`): the
  proxies overwrite what the client sends, which `README.md:253` and
  `ARCHITECTURE.md:268` demand, or one of them joins all lines. In that line
  the rightmost entry that is not trusted is the one the first proxy wrote
  (`FirstLine`, `SeenThenProxies`), and a byte that `to_str` refuses makes the
  whole line count for nothing. With proxies that do neither, what the client
  wrote is its key: the code leaves that to the operator. The page of a row is the least one
  that ends at or after it (a least number exists by well-foundedness).
* `LifecycleProofs`: `ExitsWithNothingLeft`, `FailuresAreReported`,
  `SuccessWasRequested`, `OneMoreJobAtMost`. What an exited process looks like
  is not inductive; `LInv` says which parts each phase of the main task has
  started (`Phases`), who may have asked for the shutdown (`RequestHasACause`),
  that a part stops only when asked or without a listener (`StopsHaveACause`),
  and that a worker with a late job never comes back to its claim (`OneLateJob`).
* `ProjectFilesProofs`: `ProjectTypes` and `NoCheckoutLeft` without hypotheses;
  `PairsStayWhole`, `ReportedPairsStay`, `NewMigrationsAreNewest` and
  `GenerationIsComplete` if the names developers choose are none of the
  skeleton's (`NewNamesApart`, which TLC evaluates on the run's names): else a
  generator that overlaps with another one and copies a revision with a
  migration of that version and name writes over a reported pair. The invariant
  `PInv` has three parts. `MInv`: a creator owns the scripts of its version and
  name from its first `create_new` to its end, owners are unique, an owner finds
  on the disk what it wrote, and half a pair has an owner or is excused.
  `GeneratorsGood`: checkouts belong to generators that clone or copy, and a
  list of files still to copy is the rest of a revision's. `Undisputed`: a
  generator that nobody overlaps has on disk the files it has copied and no
  other file of the skeleton. `LocksStaySorted` is about the operator alone,
  for lockfiles of any length: the root is found where it stood, what remains
  are the dependencies, and its new neighbours are in order.

Every safety and action property of a passing run is stated by a theorem. Only
model-checked: liveness (`EventuallySettled`, `PublishedKeyReachesCache`,
`ShutdownCompletes`), which under fairness is out of the prover's reach, and the
two findings, which are counterexamples. No module uses a `RECURSIVE` operator.

The type invariants of `JwksCache`, `JwkIndex`, `Lifecycle`, `Migrations` and
`JobQueue` are stated for the reader and are not properties of a run: the
table's is part of `JobWorker!TypeOK` and of `TableStaysGood`, and those of the
cache, the index and the migrations are conjuncts of the invariants proved.

## Findings

Each is a run TLC must find violated.

* `user_store_lost_update`: `docs/system-architecture.md:446-450, 629` promise
  an update conditional on `updated_at` with a 409 for a modified row; the
  statement is `UPDATE … WHERE id = $1`.
* `http_gauge`: `README.md:398` and `ARCHITECTURE.md:276` list the metric of
  active requests; `record_http_metrics` takes a request off after
  `next.run(…).await`, and a request dropped there (timeout, client gone) stays
  in the gauge for the life of the process. `GaugeNeverLow` holds: it errs
  upwards only.

Divergences seen while reading, without a run:

* `application/job/worker.rs:59-60` says latency never extends the estimate of
  ownership beyond the stored lease. True up to the time a statement may stall
  between its `NOW()` and its effect (`MaxStall` in `OwnershipEstimate`): a
  renewal whose connection broke may take effect after the next one and write
  an older `locked_at`. With `MaxStall` left out of the property TLC finds
  this.
* `docs/system-architecture.md:133, 456` bound stale cache entries by the TTL;
  a request that read the row before it changed may store it afterwards, so
  the bound is the TTL plus the life of a request plus the delay of an
  abandoned command (`StalenessBounded`, and no less).
* `README.md:354` answers an unknown key during an outage with 503; within the
  refresh interval after a failed fetch the answer is 401.
* `docs/system-architecture.md:627` gives claim an explicit transaction (it is
  two statements, each its own), `:706` purges "the oldest" (no `ORDER BY`);
  `ARCHITECTURE.md:999` retries renewals after "about every eighth" of the lease
  (it is a twelfth).
* `ARCHITECTURE.md:225` calls a database with extra migrations not ready;
  `migration_state_is_current` looks only at the embedded ones. In `Migrations`
  that is `IsCurrent(b) => Extra(b) = {}`, which TLC refutes with an older and
  a newer build.
* `README.md:182` says `db revert` takes back the latest migration; its target
  is computed before sqlx's lock, so a migrate in between makes it take several
  back, without the check on their down scripts. What does hold is
  `RevertSparesWhatItRead`.
* `README.md:253` and `ARCHITECTURE.md:268` count a malformed forwarded chain
  under the proxy; `rate_limit.rs:59` reads from the right and takes an
  untrusted address that comes before the malformed entry (a unit test asserts
  it). `docs/system-architecture.md:559-561` counts under the first address of
  the chain, which a client writes itself.
* `src/scaffold/README.md:41` and `lib.rs:39`: "nothing is overwritten". The
  target is checked once, before the clone: two runs that overlap write into
  each other's project. `SuccessIsComplete` is about a run that nobody overlaps.
* `src/scaffold/README.md:50-51`: the root package goes where Cargo sorts it. Cargo
  breaks ties of the name by version; a project called like one of its
  dependencies goes behind it whatever the versions.
* Two concurrent `migration:create` with different names may get the same
  version (each reads the directory before the other has written), and
  sqlx refuses a directory with two migrations of one version.

## Not modelled

Telemetry but for the gauge of active requests: its other instruments only
grow, its spans, logs and exporters are observation. Routing, formatting and
error bodies; the token bucket behind the rate limiter (the governor crate's: a
request passes or is refused); the Prometheus and health routes, which only
read. The character rules of value objects, migration names and project names
(valid or refused is a choice), and the renaming of text in a generated project.
URL rules of the provider's discovery (success or failure is a choice);
configuration parsing (its bounds are assumptions). sqlx's migrator and lock,
Redis, PostgreSQL's row locks, git, cargo and the provider are modelled from
how the code uses them and marked external in the map.

A directory that a killed `skeleton-new` leaves in the temporary directory is
not followed: its name has the process id, a counter and the time in it, so no
later run meets it. A client that goes away is the `TimeOut` of `HttpApi`.

## Plan

1. Done: queue, worker, lease proofs; the queue's abstract specification and its
   refinement; verification and its index; user API and the HTTP layer;
   lifecycle; migrations; a project's files.
2. Done: the proofs above.
3. Done: proofs of all safety and action properties of `Lifecycle`, of a
   project's files, of the refusals of `JwksCache` and of the operators of
   `HttpInputs`.
4. Left: an abstract read-through cache that `UserStore` implements, with the
   refinement proved.
