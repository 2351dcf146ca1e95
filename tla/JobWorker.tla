----------------------------- MODULE JobWorker -----------------------------
(***************************************************************************)
(* Worker processes (src/src/application/job/worker.rs, driven by the loop *)
(* of src/src/bootstrap/worker.rs) over the table of JobQueue.tla.         *)
(*                                                                         *)
(* A worker awaits at most one statement at a time.  A statement it sent   *)
(* is executed later, or never; a worker that stops waiting for one (its   *)
(* lease budget ran out, the connection broke, the process died) cannot    *)
(* call it back, so PostgreSQL may still execute it: such statements are   *)
(* in `orphans`.  Clocks advance at the same rate everywhere.              *)
(***************************************************************************)
EXTENDS JobQueue

CONSTANTS
    Workers,      \* worker processes
    WorkerId,     \* process -> its worker_id; two processes may share one
    Handled,      \* jobs whose job_type has a registered handler
    MaxBatches,   \* purge batches of one maintenance cycle (16)
    MaxOrphans    \* BOUND: abandoned statements that may still execute

VARIABLES
    worker,       \* process -> what run_once and the loop around it remember
    call,         \* process -> the statement it awaits, or its reply
    orphans,      \* abandoned statements that PostgreSQL may still execute
    succeeded     \* HISTORY: <<job, attempt>> whose handler returned Ok

vars == <<jobs, worker, call, orphans, succeeded>>

ASSUME WorkerConstants ==
    /\ WorkerId \in [Workers -> WorkerIds]
    /\ Handled \subseteq Jobs
    /\ MaxBatches \in Nat \ {0}
    /\ MaxOrphans \in Nat

-----------------------------------------------------------------------------
(* State of a worker.  pc names the await the process is at:               *)
(*   down      not running                                                 *)
(*   loop      top of the loop of bootstrap/worker.rs, or its pause        *)
(*   purge     purge_terminal awaited in run_maintenance                   *)
(*   ready     maintenance over, run_once about to start                   *)
(*   reap      first statement of claim awaited                            *)
(*   select    second statement of claim awaited                           *)
(*   run       select! between the renewal timer and the handler           *)
(*   renew     renew awaited, the handler still polled                     *)
(*   complete  complete awaited                                            *)
(*   fail      fail awaited                                                *)

Awaiting == {"purge", "reap", "select", "renew", "complete", "fail"}
Executing == {"run", "renew", "complete", "fail"}
Pcs == Awaiting \cup {"down", "loop", "ready", "run"}

WorkerType ==
    [pc           : Pcs,
     batch        : 0..MaxBatches,          \* index of run_maintenance's loop
     started      : Instant \cup {Null},    \* claimed_at or renewal_started
     job          : Jobs \cup {Null},
     attempt      : Nat,
     deadline     : Instant \cup {Null},
     next_renewal : Instant \cup {Null},
     handler      : {"none", "ok", "err"}]  \* result that came during a renewal

At(pc) ==
    [pc |-> pc, batch |-> 0, started |-> Null, job |-> Null, attempt |-> 0,
     deadline |-> Null, next_renewal |-> Null, handler |-> "none"]

AgedWorker(me) ==
    [me EXCEPT !.started = Aged(@), !.deadline = Aged(@), !.next_renewal = Aged(@)]

\* `sent` is when the awaited statement was sent; the rest is its reply.
CallType  == [kind    : {"none", "sent", "ok", "empty", "lease_lost", "unavailable"},
              sent    : (-MaxStall)..NOW,
              job     : Jobs \cup {Null},
              attempt : Nat,
              rows    : Nat]

\* A statement PostgreSQL may execute: the operation, its arguments and the
\* instant before which it was not sent.
StatementType == [op : Awaiting, id : WorkerIds, job : Jobs \cup {Null},
                  attempt : Nat, sent : (-MaxStall)..NOW]

StatementOf(w) ==
    [op |-> worker[w].pc, id |-> WorkerId[w], job |-> worker[w].job,
     attempt |-> worker[w].attempt, sent |-> call[w].sent]

\* One unit of time passes for a statement or an awaited call.  What was sent
\* more than MaxStall ago may start at any instant StartInstants allows.
AgedSent(s) == [s EXCEPT !.sent = IF @ > -MaxStall THEN @ - 1 ELSE @]

AgedCall(c) == IF c.kind = "sent" THEN AgedSent(c) ELSE c

AtLeastOne(t) == IF t > 1 THEN t ELSE 1

\* (lease_timeout / 3).max(1ns) and (interval / 4).max(1ns); the unit of time
\* is the nanosecond of the code.
Interval == AtLeastOne(Lease \div 3)
RetryInterval == AtLeastOne(Interval \div 4)

-----------------------------------------------------------------------------
(* PostgreSQL's side. *)

Outstanding ==
    {StatementOf(w) : w \in {v \in Workers : call[v].kind = "sent"}} \cup orphans

\* The rows statement s may hold a lock on while it executes.
Locking(s) ==
    CASE s.op = "reap"   -> Expired(NOW)
      [] s.op = "select" -> Claimable(NOW)
      [] s.op = "purge"  -> Purgeable(NOW)
      [] OTHER           -> {s.job}

\* What SKIP LOCKED may make s miss: rows other outstanding statements lock.
MaySkip(s) == SUBSET UNION {Locking(o) : o \in Outstanding \ {s}}

Outcomes(s, ts, skipped) ==
    CASE s.op = "reap"     -> ReapOutcomes(ts, skipped)
      [] s.op = "select"   -> ClaimOutcomes(s.id, ts, skipped)
      [] s.op = "renew"    -> RenewOutcomes(s.job, s.id, s.attempt, ts)
      [] s.op = "complete" -> CompleteOutcomes(s.job, s.id, s.attempt, ts)
      [] s.op = "fail"     -> FailOutcomes(s.job, s.id, s.attempt,
                                           RetryDelay(s.attempt), ts)
      [] s.op = "purge"    -> PurgeOutcomes(ts, skipped)

\* PostgreSQL executes the statement w awaits; the reply travels to w.
Execute(w) ==
    /\ call[w].kind = "sent"
    /\ LET s == StatementOf(w)
       IN  \E ts \in StartInstants(s.sent), skipped \in MaySkip(s) :
             \E o \in Outcomes(s, ts, skipped) :
                /\ jobs' = o.table
                /\ call' = [call EXCEPT ![w] = o.reply]
    /\ UNCHANGED <<worker, orphans, succeeded>>

\* PostgreSQL executes a statement nobody awaits any more.
ExecuteOrphan(s) ==
    /\ s \in orphans
    /\ \E ts \in StartInstants(s.sent), skipped \in MaySkip(s) :
          \E o \in Outcomes(s, ts, skipped) : jobs' = o.table
    /\ orphans' = orphans \ {s}
    /\ UNCHANGED <<worker, call, succeeded>>

\* The statement w awaits, if PostgreSQL has not answered it, is left to
\* itself: it is never executed, or executed at some later time.
Abandon(w) ==
    \/ orphans' = orphans
    \/ /\ call[w].kind = "sent"
       /\ Cardinality(orphans) < MaxOrphans
       /\ orphans' = orphans \cup {StatementOf(w)}

\* The pool gives no connection, or the connection breaks, before the reply
\* is read: sqlx::Error becomes JobQueueError::Unavailable.
Disconnect(w) ==
    /\ call[w].kind = "sent"
    /\ Abandon(w)
    /\ call' = [call EXCEPT ![w] = Reply("unavailable")]
    /\ UNCHANGED <<jobs, worker, succeeded>>

-----------------------------------------------------------------------------
(* The worker's side. *)

Move(w, me) ==
    /\ worker' = [worker EXCEPT ![w] = me]
    /\ call' = [call EXCEPT ![w] = Reply("none")]

Send(w, me) ==
    /\ worker' = [worker EXCEPT ![w] = me]
    /\ call' = [call EXCEPT ![w] = Reply("sent")]

Replied(w, kinds) == call[w].kind \in kinds

\* bootstrap/worker.rs: cleanup is due and run_maintenance starts its first
\* batch.  The cleanup interval is left out: it may be due at any iteration.
StartMaintenance(w) ==
    /\ worker[w].pc = "loop"
    /\ Send(w, [At("purge") EXCEPT !.batch = 1])
    /\ UNCHANGED <<jobs, orphans, succeeded>>

\* A full batch is followed by another, up to MaxBatches; an error ends the
\* cycle.  Either way the iteration follows.
PurgeReply(w) ==
    /\ worker[w].pc = "purge"
    /\ Replied(w, {"ok", "unavailable"})
    /\ IF /\ call[w].kind = "ok"
          /\ call[w].rows >= PurgeLimit
          /\ worker[w].batch < MaxBatches
       THEN Send(w, [worker[w] EXCEPT !.batch = @ + 1])
       ELSE Move(w, At("ready"))
    /\ UNCHANGED <<jobs, orphans, succeeded>>

\* run_once reads claimed_at, then claim sends its reaping statement.
StartClaim(w) ==
    /\ worker[w].pc \in {"loop", "ready"}
    /\ Send(w, [At("reap") EXCEPT !.started = NOW])
    /\ UNCHANGED <<jobs, orphans, succeeded>>

\* The reaping statement was its own transaction; claim goes on with the
\* second statement, or returns the error.
ReapReply(w) ==
    /\ worker[w].pc = "reap"
    /\ Replied(w, {"ok", "unavailable"})
    /\ IF call[w].kind = "ok" THEN Send(w, [worker[w] EXCEPT !.pc = "select"])
                              ELSE Move(w, At("loop"))
    /\ UNCHANGED <<jobs, orphans, succeeded>>

\* MUTANT of Claimed: the budget counts from the reply of the claim.
ClaimedFromReply(w, j, attempt) ==
    [At("run") EXCEPT !.job = j, !.attempt = attempt,
                      !.deadline = NOW + Lease, !.next_renewal = NOW + Interval]

\* Ownership as execute_with_heartbeat first computes it, from claimed_at.
Claimed(w, j, attempt) ==
    [At("run") EXCEPT !.job = j, !.attempt = attempt,
                      !.deadline = worker[w].started + Lease,
                      !.next_renewal = worker[w].started + Interval]

ClaimReply(w) ==
    /\ worker[w].pc = "select"
    /\ Replied(w, {"ok", "empty", "unavailable"})
    /\ Move(w, IF call[w].kind = "ok" THEN Claimed(w, call[w].job, call[w].attempt)
                                      ELSE At("loop"))
    /\ UNCHANGED <<jobs, orphans, succeeded>>

\* run_once after execute_with_heartbeat returned `result`, the lease being
\* good until me.deadline: the terminal statement is sent only within it.
SendTerminal(w, me, result) ==
    IF NOW < me.deadline
    THEN Send(w, [me EXCEPT !.pc = IF result = "ok" THEN "complete" ELSE "fail",
                            !.next_renewal = Null, !.handler = "none"])
    ELSE Move(w, At("loop"))

\* A job without a registered handler fails.
Results(j) == IF j \in Handled THEN {"ok", "err"} ELSE {"err"}

Record(w, result) ==
    succeeded' = IF result = "ok"
                 THEN succeeded \cup {<<worker[w].job, worker[w].attempt>>}
                 ELSE succeeded

\* The handler returns while the worker waits for it or for the renewal
\* timer; the select! is biased, so an elapsed timer goes first.
HandlerReturns(w) ==
    /\ worker[w].pc = "run"
    /\ NOW < worker[w].next_renewal
    /\ \E result \in Results(worker[w].job) :
          /\ SendTerminal(w, worker[w], result)
          /\ Record(w, result)
    /\ UNCHANGED <<jobs, orphans>>

\* The handler returns while a renewal is in flight: the result is kept
\* until the renewal has been answered.
HandlerReturnsDuringRenewal(w) ==
    /\ worker[w].pc = "renew"
    /\ call[w].kind = "sent"
    /\ worker[w].handler = "none"
    /\ \E result \in Results(worker[w].job) :
          /\ worker' = [worker EXCEPT ![w].handler = result]
          /\ Record(w, result)
    /\ UNCHANGED <<jobs, call, orphans>>

\* The timer of next_renewal elapsed, within the deadline.
StartRenewal(w) ==
    /\ worker[w].pc = "run"
    /\ NOW >= worker[w].next_renewal
    /\ NOW < worker[w].deadline
    /\ Send(w, [worker[w] EXCEPT !.pc = "renew", !.started = NOW])
    /\ UNCHANGED <<jobs, orphans, succeeded>>

\* MUTANT of AfterRenewal: the budget counts from the reply of the renewal.
AfterRenewalFromReply(w) ==
    IF call[w].kind = "ok"
    THEN [worker[w] EXCEPT !.pc = "run", !.deadline = NOW + Lease,
                           !.next_renewal = NOW + Interval, !.started = Null]
    ELSE [worker[w] EXCEPT !.pc = "run", !.next_renewal = NOW + RetryInterval,
                           !.started = Null]

\* The lease as a renewal that was answered leaves it: Ok counts from before
\* the renewal was sent; an error keeps the deadline and retries soon.
AfterRenewal(w) ==
    IF call[w].kind = "ok"
    THEN [worker[w] EXCEPT !.pc = "run", !.deadline = worker[w].started + Lease,
                           !.next_renewal = worker[w].started + Interval,
                           !.started = Null]
    ELSE [worker[w] EXCEPT !.pc = "run", !.next_renewal = NOW + RetryInterval,
                           !.started = Null]

RenewReply(w) ==
    /\ worker[w].pc = "renew"
    /\ Replied(w, {"ok", "unavailable"})
    /\ IF worker[w].handler = "none"
       THEN Move(w, AfterRenewal(w))
       ELSE SendTerminal(w, AfterRenewal(w), worker[w].handler)
    /\ UNCHANGED <<jobs, orphans, succeeded>>

RenewLeaseLost(w) ==
    /\ worker[w].pc = "renew"
    /\ Replied(w, {"lease_lost"})
    /\ Move(w, At("loop"))
    /\ UNCHANGED <<jobs, orphans, succeeded>>

\* complete or fail was answered: whatever the answer, run_once returns.
TerminalReply(w) ==
    /\ worker[w].pc \in {"complete", "fail"}
    /\ Replied(w, {"ok", "lease_lost", "unavailable"})
    /\ Move(w, At("loop"))
    /\ UNCHANGED <<jobs, orphans, succeeded>>

\* The deadline passed: at the top of the heartbeat loop, or in timeout_at
\* around the handler, the renewal or the terminal statement.  The future is
\* dropped, an unanswered statement with it.
LeaseTimeout(w) ==
    /\ worker[w].pc \in Executing
    /\ NOW >= worker[w].deadline
    /\ worker[w].pc = "run" \/ call[w].kind = "sent"
    /\ Abandon(w)
    /\ Move(w, At("loop"))
    /\ UNCHANGED <<jobs, succeeded>>

\* The process dies, or stops at a point where shutdown is observed.
Crash(w) ==
    /\ worker[w].pc # "down"
    /\ Abandon(w)
    /\ Move(w, At("down"))
    /\ UNCHANGED <<jobs, succeeded>>

Restart(w) ==
    /\ worker[w].pc = "down"
    /\ Move(w, At("loop"))
    /\ UNCHANGED <<jobs, orphans, succeeded>>

-----------------------------------------------------------------------------
Init ==
    /\ QInit
    /\ worker = [w \in Workers |-> At("loop")]
    /\ call = [w \in Workers |-> Reply("none")]
    /\ orphans = {}
    /\ succeeded = {}

Produce ==
    /\ \/ \E j \in Jobs, max \in MaxAttempts : Enqueue(j, max)
       \/ \E j \in Jobs : OperatorRetry(j)
    /\ UNCHANGED <<worker, call, orphans, succeeded>>

Tick ==
    /\ AgeRows
    /\ worker' = [w \in Workers |-> AgedWorker(worker[w])]
    /\ orphans' = {AgedSent(s) : s \in orphans}
    /\ call' = [w \in Workers |-> AgedCall(call[w])]
    /\ UNCHANGED succeeded

WorkerStep(w) ==
    \/ StartMaintenance(w) \/ PurgeReply(w)
    \/ StartClaim(w) \/ ReapReply(w) \/ ClaimReply(w)
    \/ HandlerReturns(w) \/ HandlerReturnsDuringRenewal(w)
    \/ StartRenewal(w) \/ RenewReply(w) \/ RenewLeaseLost(w)
    \/ TerminalReply(w) \/ LeaseTimeout(w)
    \/ Restart(w)

Next ==
    \/ Produce
    \/ Tick
    \/ \E s \in orphans : ExecuteOrphan(s)
    \/ \E w \in Workers : WorkerStep(w) \/ Execute(w) \/ Disconnect(w) \/ Crash(w)

Spec == Init /\ [][Next]_vars

Fault == \E w \in Workers : Disconnect(w) \/ Crash(w)

HandlerStep(w) == HandlerReturns(w) \/ HandlerReturnsDuringRenewal(w)

\* Fairness.  Time passes; PostgreSQL executes what it received; the runtime
\* polls a task that can go on, and a dead process is started again.  Handlers
\* terminate, which the documentation requires of them: a handler is polled in
\* every round of the heartbeat loop but not at every moment, hence the strong
\* form.  Producers, cleanup and the operator are under no obligation.
Fairness ==
    /\ WF_vars(Tick)
    /\ WF_vars(\E s \in orphans : ExecuteOrphan(s))
    /\ \A w \in Workers :
          /\ WF_vars(Execute(w))
          /\ WF_vars(WorkerStep(w))
          /\ SF_vars(HandlerStep(w))

\* Processes and connections stop failing at some point.
LiveSpec == Spec /\ Fairness /\ <>[][~Fault]_vars

-----------------------------------------------------------------------------
(* Properties. *)

\* TYPE.
TypeOK ==
    /\ QTypeOK
    /\ worker \in [Workers -> WorkerType]
    /\ call \in [Workers -> CallType]
    /\ orphans \subseteq StatementType
    /\ succeeded \subseteq Jobs \X Nat

\* Worker w acts as the owner of its job: it polls the handler or waits for
\* a statement about the attempt that PostgreSQL has not executed yet.
ActsAsOwner(w) ==
    \/ worker[w].pc \in {"run", "renew"}
    \/ worker[w].pc \in {"complete", "fail"} /\ call[w].kind = "sent"

\* The lease budget of worker.rs ("database/network latency must not extend
\* our estimate of ownership beyond the lease stored in PostgreSQL"): as long
\* as a worker's deadline has not passed, with MaxStall to spare, the row is
\* still running its attempt and no other worker can reap it.  Nothing lets a
\* second worker in: lost replies, late statements, crashes and restarts.
OwnershipEstimate ==
    \A w \in Workers :
        ActsAsOwner(w) /\ NOW < worker[w].deadline - MaxStall =>
            /\ Owns(worker[w].job, WorkerId[w], worker[w].attempt)
            /\ worker[w].deadline - MaxStall <= jobs[worker[w].job].locked_at + Lease

\* Hence no job is handled twice at the same time within the leases.
NoTwoOwners ==
    \A v, w \in Workers :
        /\ v # w /\ ActsAsOwner(v) /\ ActsAsOwner(w)
        /\ NOW < worker[v].deadline - MaxStall
        /\ NOW < worker[w].deadline - MaxStall
        => worker[v].job # worker[w].job

\* A row is completed only if the handler of the very attempt it shows
\* returned Ok: a stale completion, even one sent by an earlier process with
\* the same worker_id, never completes a later attempt.
CompletedMeansHandled ==
    \A j \in Jobs : jobs[j].status = "completed" => <<j, jobs[j].attempts>> \in succeeded

\* The attempt j's row shows is w's to act on.
Entitled(w, j) ==
    /\ ActsAsOwner(w) /\ worker[w].job = j
    /\ NOW < worker[w].deadline - MaxStall

Phase(row) ==
    CASE row.status = "pending" -> "waiting"
      [] OTHER                  -> row.status

\* What LeasedQueue.tla sees of the table and the workers.
Leases ==
    INSTANCE LeasedQueue WITH
        Budgets <- {max \in MaxAttempts : ValidMaxAttempts(max)},
        phase   <- [j \in Jobs |-> Phase(jobs[j])],
        left    <- [j \in Jobs |-> jobs[j].max_attempts - jobs[j].attempts],
        holders <- [j \in Jobs |-> {w \in Workers : Entitled(w, j)}],
        handled <- [j \in Jobs |-> /\ jobs[j].status = "running"
                                   /\ <<j, jobs[j].attempts>> \in succeeded]

\* The table, its statements and the workers implement the queue of
\* LeasedQueue.tla: through crashes, lost replies, late statements, expired
\* leases and the runbook's retry, a job that some worker holds moves only by
\* that worker's statement, and its tries never exceed its budget.
ImplementsLeasedQueue == Leases!Spec

\* Every job that waits is in the end completed or dead: no crash, lost reply,
\* expired lease or late statement strands it in pending or running.
EventuallySettled ==
    \A j \in Jobs :
        jobs[j].status = "pending" ~> jobs[j].status \in {"completed", "dead"}
=============================================================================
