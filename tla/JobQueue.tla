------------------------------ MODULE JobQueue ------------------------------
(***************************************************************************)
(* The table background_jobs and the SQL statements PostgresJobQueue runs  *)
(* against it (src/src/infrastructure/database/postgres/job_queue.rs, with *)
(* the schema in src/migrations/20260801000000_create_background_jobs).    *)
(* The worker of JobWorker.tla is one client of this table; the            *)
(* specification at the end of this module lets ANY client call ANY        *)
(* statement with any arguments, at any moment.                            *)
(***************************************************************************)
EXTENDS RelativeTime, FiniteSets

CONSTANTS
    Jobs,                \* job ids (the UUIDs of NewJob::new: never reused)
    WorkerIds,           \* values of locked_by
    MaxAttempts,         \* the max_attempts values producers ask for (u32)
    MaxI32,              \* i32::MAX, the largest max_attempts of the column
    RetryGrant,          \* attempts the runbook's retry adds to a dead job (5)
    AttemptCap,          \* BOUND: the runbook is not applied beyond this
    Lease,               \* lease_timeout
    RetryBase, RetryMax, \* retry_base, retry_max
    CompletedRetention,  \* completed_retention
    DeadRetention,       \* dead_retention
    ReapLimit,           \* LIMIT 1000 of the reaping statement
    PurgeLimit,          \* PURGE_BATCH_SIZE
    MaxStall             \* longest time from a statement's NOW() to its effect

VARIABLE jobs            \* job id -> row of background_jobs

ASSUME QueueConstants ==
    /\ IsFiniteSet(Jobs)
    /\ MaxAttempts \subseteq Nat
    /\ MaxI32 \in Nat /\ RetryGrant \in Nat \ {0} /\ AttemptCap \in Nat
    /\ Lease \in Nat \ {0}
    /\ RetryBase \in Nat /\ RetryMax \in Nat
    /\ CompletedRetention \in Nat /\ DeadRetention \in Nat
    /\ ReapLimit \in Nat \ {0} /\ PurgeLimit \in Nat \ {0}
    /\ MaxStall \in Nat
    /\ Null \notin Int
    /\ Null \notin WorkerIds
    /\ Null \notin Jobs

ASSUME HorizonLongEnough ==
    /\ Horizon \in Nat
    /\ Horizon > Lease + MaxStall
    /\ Horizon > CompletedRetention + MaxStall
    /\ Horizon > DeadRetention + MaxStall

-----------------------------------------------------------------------------
(* Rows.  "absent" is a row that was not inserted yet and "purged" one that *)
(* was deleted; the other statuses are those of the CHECK constraint.       *)

Statuses == {"absent", "pending", "running", "completed", "dead", "purged"}

RowType ==
    [status       : Statuses,
     attempts     : Nat,
     max_attempts : Nat,
     available_at : Instant \cup {Null},
     locked_at    : Instant \cup {Null},
     locked_by    : WorkerIds \cup {Null},
     created_at   : Instant \cup {Null},
     updated_at   : Instant \cup {Null},
     completed_at : Instant \cup {Null}]

NoRow(status) ==
    [status |-> status, attempts |-> 0, max_attempts |-> 0,
     available_at |-> Null, locked_at |-> Null, locked_by |-> Null,
     created_at |-> Null, updated_at |-> Null, completed_at |-> Null]

\* A row as INSERT leaves it: the columns insert_job does not name take the
\* DEFAULTs of the schema.
NewRow(max, ts) ==
    [status |-> "pending", attempts |-> 0, max_attempts |-> max,
     available_at |-> ts, locked_at |-> Null, locked_by |-> Null,
     created_at |-> ts, updated_at |-> ts, completed_at |-> Null]

AgedRow(row) ==
    [row EXCEPT !.available_at = Aged(@), !.locked_at = Aged(@),
                !.created_at = Aged(@), !.updated_at = Aged(@),
                !.completed_at = Aged(@)]

\* MUTANT of AfterFailure: > for >=.
AfterFailureLate(row) == IF row.attempts > row.max_attempts THEN "dead" ELSE "pending"

\* MUTANT of AfterFailure: a status the CHECK constraint does not list.
AfterFailureUnknown(row) == IF row.attempts >= row.max_attempts THEN "failed" ELSE "pending"

\* CASE WHEN attempts >= max_attempts THEN 'dead' ELSE 'pending' END
AfterFailure(row) == IF row.attempts >= row.max_attempts THEN "dead" ELSE "pending"

\* MUTANT of Reaped: the owner's name is left on the row.
ReapedStillLocked(row, ts) ==
    [row EXCEPT !.status = AfterFailure(row), !.available_at = ts,
                !.locked_at = Null, !.updated_at = ts]

Reaped(row, ts) ==
    [row EXCEPT !.status = AfterFailure(row), !.available_at = ts,
                !.locked_at = Null, !.locked_by = Null, !.updated_at = ts]

ClaimedRow(row, id, ts) ==
    [row EXCEPT !.status = "running", !.attempts = @ + 1,
                !.locked_at = ts, !.locked_by = id, !.updated_at = ts]

CompletedRow(row, ts) ==
    [row EXCEPT !.status = "completed", !.locked_at = Null, !.locked_by = Null,
                !.completed_at = ts, !.updated_at = ts]

RenewedRow(row, ts) == [row EXCEPT !.locked_at = ts, !.updated_at = ts]

FailedRow(row, delay, ts) ==
    [row EXCEPT !.status = AfterFailure(row),
                !.available_at = IF row.attempts >= row.max_attempts THEN @ ELSE ts + delay,
                !.locked_at = Null, !.locked_by = Null, !.updated_at = ts]

\* MUTANT of RetriedRow: the attempt number starts again.
RetriedFromZero(row, ts) ==
    [row EXCEPT !.status = "pending", !.attempts = 0, !.max_attempts = RetryGrant,
                !.available_at = ts, !.updated_at = ts]

RetriedRow(row, ts) ==
    [row EXCEPT !.status = "pending", !.max_attempts = row.attempts + RetryGrant,
                !.available_at = ts, !.updated_at = ts]

-----------------------------------------------------------------------------
(* WHERE clauses. *)

\* MUTANT of Owns: worker_id alone identifies the owner.
OwnsByIdOnly(j, id, attempt) ==
    /\ jobs[j].status = "running"
    /\ jobs[j].locked_by = id

\* The condition of complete, renew and fail: the caller's attempt is the
\* one the row is running.
Owns(j, id, attempt) ==
    /\ jobs[j].status = "running"
    /\ jobs[j].locked_by = id
    /\ jobs[j].attempts = attempt

\* MUTANT of Expired: only rows with an attempt left are recovered.
ExpiredRetryable(ts) ==
    {j \in Jobs : /\ jobs[j].status = "running" /\ jobs[j].locked_at < ts - Lease
                  /\ jobs[j].attempts < jobs[j].max_attempts}

Expired(ts) ==
    {j \in Jobs : jobs[j].status = "running" /\ jobs[j].locked_at < ts - Lease}

Claimable(ts) ==
    {j \in Jobs : /\ jobs[j].status = "pending"
                  /\ jobs[j].available_at <= ts
                  /\ jobs[j].attempts < jobs[j].max_attempts}

Purgeable(ts) ==
    {j \in Jobs :
        \/ /\ jobs[j].status = "completed"
           /\ jobs[j].completed_at < ts - CompletedRetention
        \/ /\ jobs[j].status = "dead"
           /\ jobs[j].updated_at < ts - DeadRetention}

\* LIMIT n of the rows S.
Limited(S, n) ==
    {B \in SUBSET S :
        Cardinality(B) = IF Cardinality(S) < n THEN Cardinality(S) ELSE n}

\* ORDER BY locked_at, id LIMIT 1000
OldestLocks(S) ==
    {B \in Limited(S, ReapLimit) :
        \A j \in B : \A k \in S \ B : jobs[j].locked_at <= jobs[k].locked_at}

\* ORDER BY available_at, created_at LIMIT 1
FirstInLine(S) ==
    {j \in S : \A k \in S :
        \/ jobs[j].available_at < jobs[k].available_at
        \/ /\ jobs[j].available_at = jobs[k].available_at
           /\ jobs[j].created_at <= jobs[k].created_at}

-----------------------------------------------------------------------------
(* Statements.  Each operator is the set of outcomes of one statement whose *)
(* transaction started at ts and that found the rows `skipped` locked by    *)
(* other transactions (FOR UPDATE SKIP LOCKED): the new table, and the      *)
(* reply the caller reads.                                                  *)

Reply(kind) == [kind |-> kind, sent |-> NOW, job |-> Null, attempt |-> 0, rows |-> 0]

JobReply(j, attempt) ==
    [kind |-> "ok", sent |-> NOW, job |-> j, attempt |-> attempt, rows |-> 0]

RowsReply(n) == [kind |-> "ok", sent |-> NOW, job |-> Null, attempt |-> 0, rows |-> n]

Outcome(table, reply) == [table |-> table, reply |-> reply]

With(j, row) == [jobs EXCEPT ![j] = row]

\* job_queue.rs claim, first statement.
ReapOutcomes(ts, skipped) ==
    {Outcome([j \in Jobs |-> IF j \in B THEN Reaped(jobs[j], ts) ELSE jobs[j]],
             Reply("ok"))
        : B \in OldestLocks(Expired(ts) \ skipped)}

\* job_queue.rs claim, second statement.
ClaimOutcomes(id, ts, skipped) ==
    LET candidates == Claimable(ts) \ skipped
    IN  IF candidates = {}
        THEN {Outcome(jobs, Reply("empty"))}
        ELSE {Outcome(With(j, ClaimedRow(jobs[j], id, ts)),
                      JobReply(j, jobs[j].attempts + 1))
                : j \in FirstInLine(candidates)}

\* ensure_lease: a guarded statement that changed no row is LeaseLost.
Guarded(j, id, attempt, row) ==
    IF Owns(j, id, attempt) THEN {Outcome(With(j, row), Reply("ok"))}
                            ELSE {Outcome(jobs, Reply("lease_lost"))}

CompleteOutcomes(j, id, attempt, ts) ==
    Guarded(j, id, attempt, CompletedRow(jobs[j], ts))

RenewOutcomes(j, id, attempt, ts) ==
    Guarded(j, id, attempt, RenewedRow(jobs[j], ts))

FailOutcomes(j, id, attempt, delay, ts) ==
    Guarded(j, id, attempt, FailedRow(jobs[j], delay, ts))

PurgeOutcomes(ts, skipped) ==
    {Outcome([j \in Jobs |-> IF j \in B THEN NoRow("purged") ELSE jobs[j]],
             RowsReply(Cardinality(B)))
        : B \in Limited(Purgeable(ts) \ skipped, PurgeLimit)}

\* validate_max_attempts: zero and values beyond the column are refused.
ValidMaxAttempts(max) == max # 0 /\ max <= MaxI32

\* retry_delay of worker.rs: base * 2^min(attempt - 1, 31), saturating, at
\* most maximum.
RetryDelay(attempt) ==
    LET exponent == IF attempt - 1 < 31 THEN attempt - 1 ELSE 31
        delay    == RetryBase * 2^exponent
    IN  IF delay < RetryMax THEN delay ELSE RetryMax

\* The instants a statement sent at `sent` may have as its NOW(): its
\* transaction started after it was sent, at most MaxStall ago.
StartInstants(sent) == {t \in (-MaxStall)..NOW : t >= sent}

-----------------------------------------------------------------------------
(* The table under arbitrary clients. *)

QInit == jobs = [j \in Jobs |-> NoRow("absent")]

Enqueue(j, max) ==
    /\ jobs[j].status = "absent"
    /\ ValidMaxAttempts(max)
    /\ jobs' = With(j, NewRow(max, NOW))

\* The runbook of src/README.md for one dead job.
OperatorRetry(j) ==
    /\ jobs[j].status = "dead"
    /\ jobs[j].attempts + RetryGrant <= AttemptCap
    /\ jobs' = With(j, RetriedRow(jobs[j], NOW))

Takes(outcomes) == \E o \in outcomes : jobs' = o.table

ReapStatement(ts, skipped) == Takes(ReapOutcomes(ts, skipped))

ClaimStatement(id, ts, skipped) == Takes(ClaimOutcomes(id, ts, skipped))

CompleteStatement(j, id, attempt, ts) == Takes(CompleteOutcomes(j, id, attempt, ts))

RenewStatement(j, id, attempt, ts) == Takes(RenewOutcomes(j, id, attempt, ts))

FailStatement(j, id, attempt, ts) ==
    Takes(FailOutcomes(j, id, attempt, RetryDelay(attempt), ts))

PurgeStatement(ts, skipped) == Takes(PurgeOutcomes(ts, skipped))

AgeRows == jobs' = [j \in Jobs |-> AgedRow(jobs[j])]

Statement(ts) ==
    \/ \E skipped \in SUBSET Jobs : ReapStatement(ts, skipped)
    \/ \E id \in WorkerIds, skipped \in SUBSET Jobs : ClaimStatement(id, ts, skipped)
    \/ \E j \in Jobs, id \in WorkerIds, attempt \in 1..AttemptCap :
          \/ CompleteStatement(j, id, attempt, ts)
          \/ RenewStatement(j, id, attempt, ts)
          \/ FailStatement(j, id, attempt, ts)
    \/ \E skipped \in SUBSET Jobs : PurgeStatement(ts, skipped)

QNext ==
    \/ \E j \in Jobs, max \in MaxAttempts : Enqueue(j, max)
    \/ \E j \in Jobs : OperatorRetry(j)
    \/ \E ts \in StartInstants(-MaxStall) : Statement(ts)
    \/ AgeRows

QSpec == QInit /\ [][QNext]_jobs

-----------------------------------------------------------------------------
(* Properties of the table, whatever its clients do. *)

\* TYPE.  Every row has the columns of the schema.
QTypeOK == jobs \in [Jobs -> RowType]

Exists(row) == row.status \notin {"absent", "purged"}

\* The CHECK constraints of background_jobs and its NOT NULL columns.
Constrained(row) ==
    Exists(row) =>
        /\ row.max_attempts > 0
        /\ row.attempts <= row.max_attempts
        /\ Null \notin {row.available_at, row.created_at, row.updated_at}
        /\ (row.status = "running") <=> (row.locked_at # Null)
        /\ (row.status = "running") <=> (row.locked_by # Null)
        /\ (row.status = "completed") <=> (row.completed_at # Null)

\* No statement ever leaves a row the constraints of background_jobs refuse.
\* PostgreSQL would fail such a statement: a reaping statement that tripped a
\* constraint on one row would make every later claim fail.
TableConstraints == \A j \in Jobs : Constrained(jobs[j])

WithinBudget(row) ==
    /\ row.status = "pending" => row.attempts < row.max_attempts
    /\ row.status = "running" => row.attempts > 0
    /\ row.status = "dead" => row.attempts = row.max_attempts

\* A pending row always has an attempt left, so the claim's condition
\* attempts < max_attempts can never strand it, and a row is dead only with
\* its budget spent: the two statements that fail an attempt (reap and fail)
\* and the runbook's retry agree on where the budget ends.
BudgetSpentExactlyWhenDead == \A j \in Jobs : WithinBudget(jobs[j])

\* The attempt number is a fencing token: every time a row starts running its
\* number is one that the row never had before, and no other statement, the
\* runbook's retry included, moves it.
AttemptsFence ==
    [][\A j \in Jobs : jobs'[j].status # "purged" =>
          IF jobs[j].status = "pending" /\ jobs'[j].status = "running"
          THEN jobs'[j].attempts = jobs[j].attempts + 1
          ELSE jobs'[j].attempts = jobs[j].attempts]_jobs

=============================================================================
