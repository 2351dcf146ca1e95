--------------------------- MODULE JobLeaseProofs ---------------------------
(***************************************************************************)
(* The lease protocol of JobWorker, for every number of jobs, workers and  *)
(* abandoned statements, every lease and every stall: a worker within its  *)
(* budget owns its job, and only a handled attempt is recorded as          *)
(* completed.                                                              *)
(*                                                                         *)
(* OwnershipEstimate is not inductive.  Besides the shape of the state     *)
(* (TypeInv) it needs that attempts are tokens: a worker's attempt was     *)
(* really granted (TokensKnown), to it alone even when processes share a   *)
(* worker_id (TokensUnique), and no abandoned complete or fail is still    *)
(* around for an attempt in progress (NoneSettling).  LeaseHeld then says  *)
(* of every instant up to which a worker relies on its lease, a reply it   *)
(* has not read yet included, that the stored lease lasts as long.         *)
(*                                                                         *)
(* JobWorker implements LeasedQueue.  Each job is looked at by itself      *)
(* (JobStep): a statement moves it along LeasedQueue, and whatever else a  *)
(* step does only changes who is entitled to act on it.  Besides LeaseInv  *)
(* and HandledInv that argument needs that no handler has succeeded in an  *)
(* attempt that was not granted yet (SucceededGranted).                    *)
(***************************************************************************)
EXTENDS JobWorkerProofs

Settling == {"complete", "fail"}

\* A worker in state me, with reply c, was granted attempt a of job j and has
\* not let go of it.
HoldsAt(me, c, j, a) ==
    \/ me.pc \in Executing /\ me.job = j /\ me.attempt = a
    \/ me.pc = "select" /\ c.kind = "ok" /\ c.job = j /\ c.attempt = a

\* ... and its terminal statement, if any, was not executed.
ActiveAt(me, c, j, a) ==
    HoldsAt(me, c, j, a) /\ (me.pc \in Settling => c.kind = "sent")

\* t is an instant up to which it relies on its lease, or will when it reads
\* the reply that is on its way.
ReliesOn(me, c, t) ==
    \/ me.pc \in Executing /\ t = me.deadline
    \/ me.pc = "select" /\ t = me.started + Lease
    \/ me.pc = "renew" /\ c.kind = "ok" /\ t = me.started + Lease

Holds(w, j, a) == HoldsAt(worker[w], call[w], j, a)
Active(w, j, a) == ActiveAt(worker[w], call[w], j, a)
Relies(w, t) == ReliesOn(worker[w], call[w], t)

Granted(row, a) == row.status = "purged" \/ a <= row.attempts

TokensKnown ==
    /\ \A w \in Workers, j \in Jobs, a \in Nat : Holds(w, j, a) => Granted(jobs[j], a)
    /\ \A s \in orphans : s.op \in OnAttempt => Granted(jobs[s.job], s.attempt)

TokensUnique ==
    \A v, w \in Workers, j \in Jobs, a \in Nat :
        Holds(v, j, a) /\ Holds(w, j, a) => v = w

NoneSettling ==
    \A w \in Workers, s \in orphans :
        s.op \in Settling => ~Active(w, s.job, s.attempt)

\* The row's lease, for owner id and attempt a, lasts until t.
Secure(row, id, a, t) ==
    NOW < t - MaxStall =>
        /\ row.status = "running" /\ row.locked_by = id /\ row.attempts = a
        /\ t - MaxStall <= row.locked_at + Lease

LeaseHeld ==
    \A w \in Workers, j \in Jobs, a \in Nat, t \in Instant :
        Active(w, j, a) /\ Relies(w, t) => Secure(jobs[j], WorkerId[w], a, t)

\* The inductive invariant of the lease.
LeaseInv == TypeInv /\ TokensKnown /\ TokensUnique /\ NoneSettling /\ LeaseHeld

\* What a worker is about to complete, it handled.
HandledBy(me, done) ==
    me.pc = "complete" \/ me.handler = "ok" => <<me.job, me.attempt>> \in done

\* The inductive invariant of completion: every attempt that is, or may yet
\* be, recorded as completed was handled.
HandledInv ==
    /\ CompletedMeansHandled
    /\ \A w \in Workers : HandledBy(worker[w], succeeded)
    /\ \A s \in orphans : s.op = "complete" => <<s.job, s.attempt>> \in succeeded

-----------------------------------------------------------------------------
(* What a statement does to one row. *)

Matches(row, id, a) ==
    row.status = "running" /\ row.locked_by = id /\ row.attempts = a

RowStep(s, ts, j, row, next) ==
    \/ next = row
    \/ /\ s.op = "reap" /\ row.status = "running" /\ row.locked_at < ts - Lease
       /\ next = Reaped(row, ts)
    \/ /\ s.op = "select" /\ row.status = "pending"
       /\ next = ClaimedRow(row, s.id, ts)
    \/ /\ s.op \in OnAttempt /\ s.job = j /\ Matches(row, s.id, s.attempt)
       /\ \/ s.op = "renew" /\ next = RenewedRow(row, ts)
          \/ s.op = "complete" /\ next = CompletedRow(row, ts)
          \/ s.op = "fail" /\ next = FailedRow(row, RetryDelay(s.attempt), ts)
    \/ s.op = "purge" /\ row.status \in {"completed", "dead"} /\ next = NoRow("purged")

LEMMA OutcomeRows ==
    ASSUME GoodTable(jobs), NEW s \in StatementType, NEW ts, NEW skipped,
           NEW o \in Outcomes(s, ts, skipped), NEW j \in Jobs
    PROVE  RowStep(s, ts, j, jobs[j], o.table[j])
<1>0. DOMAIN jobs = Jobs
  BY DEF GoodTable
<1>1. CASE s.op = "reap"
  <2>1. o \in ReapOutcomes(ts, skipped)
    BY <1>1 DEF Outcomes
  <2>2. PICK B \in SUBSET Expired(ts) :
           o.table = [k \in Jobs |-> IF k \in B THEN Reaped(jobs[k], ts) ELSE jobs[k]]
    BY <2>1, ReapEffect
  <2> QED
    BY <1>1, <2>2 DEF RowStep, Expired
<1>2. CASE s.op = "select"
  <2>1. o \in ClaimOutcomes(s.id, ts, skipped)
    BY <1>2 DEF Outcomes
  <2>2. \/ o.table = jobs
        \/ \E k \in Claimable(ts) : o.table = With(k, ClaimedRow(jobs[k], s.id, ts))
    BY <2>1, ClaimEffect
  <2> QED
    BY <1>0, <1>2, <2>2 DEF RowStep, Claimable, With
<1>3. CASE s.op = "renew"
  <2>1. o \in Guarded(s.job, s.id, s.attempt, RenewedRow(jobs[s.job], ts))
    BY <1>3 DEF Outcomes, RenewOutcomes
  <2>2. \/ o.table = jobs
        \/ /\ Owns(s.job, s.id, s.attempt)
           /\ o.table = With(s.job, RenewedRow(jobs[s.job], ts))
    BY <2>1, GuardedEffect
  <2>3. CASE o.table = jobs
    BY <2>3 DEF RowStep
  <2>4. CASE /\ Owns(s.job, s.id, s.attempt)
             /\ o.table = With(s.job, RenewedRow(jobs[s.job], ts))
    <3>1. o.table[j] = IF s.job = j THEN RenewedRow(jobs[j], ts) ELSE jobs[j]
      BY <1>0, <2>4 DEF With
    <3>2. s.job = j => Matches(jobs[j], s.id, s.attempt)
      BY <2>4 DEF Owns, Matches
    <3> QED
      BY <1>3, <3>1, <3>2 DEF RowStep, OnAttempt
  <2> QED
    BY <2>2, <2>3, <2>4
<1>4. CASE s.op = "complete"
  <2>1. o \in Guarded(s.job, s.id, s.attempt, CompletedRow(jobs[s.job], ts))
    BY <1>4 DEF Outcomes, CompleteOutcomes
  <2>2. \/ o.table = jobs
        \/ /\ Owns(s.job, s.id, s.attempt)
           /\ o.table = With(s.job, CompletedRow(jobs[s.job], ts))
    BY <2>1, GuardedEffect
  <2>3. CASE o.table = jobs
    BY <2>3 DEF RowStep
  <2>4. CASE /\ Owns(s.job, s.id, s.attempt)
             /\ o.table = With(s.job, CompletedRow(jobs[s.job], ts))
    <3>1. o.table[j] = IF s.job = j THEN CompletedRow(jobs[j], ts) ELSE jobs[j]
      BY <1>0, <2>4 DEF With
    <3>2. s.job = j => Matches(jobs[j], s.id, s.attempt)
      BY <2>4 DEF Owns, Matches
    <3> QED
      BY <1>4, <3>1, <3>2 DEF RowStep, OnAttempt
  <2> QED
    BY <2>2, <2>3, <2>4
<1>5. CASE s.op = "fail"
  <2>1. o \in Guarded(s.job, s.id, s.attempt,
                      FailedRow(jobs[s.job], RetryDelay(s.attempt), ts))
    BY <1>5 DEF Outcomes, FailOutcomes
  <2>2. \/ o.table = jobs
        \/ /\ Owns(s.job, s.id, s.attempt)
           /\ o.table = With(s.job, FailedRow(jobs[s.job], RetryDelay(s.attempt), ts))
    BY <2>1, GuardedEffect
  <2>3. CASE o.table = jobs
    BY <2>3 DEF RowStep
  <2>4. CASE /\ Owns(s.job, s.id, s.attempt)
             /\ o.table = With(s.job, FailedRow(jobs[s.job], RetryDelay(s.attempt), ts))
    <3>1. o.table[j] = IF s.job = j THEN FailedRow(jobs[j], RetryDelay(s.attempt), ts) ELSE jobs[j]
      BY <1>0, <2>4 DEF With
    <3>2. s.job = j => Matches(jobs[j], s.id, s.attempt)
      BY <2>4 DEF Owns, Matches
    <3> QED
      BY <1>5, <3>1, <3>2 DEF RowStep, OnAttempt
  <2> QED
    BY <2>2, <2>3, <2>4
<1>6. CASE s.op = "purge"
  <2>1. o \in PurgeOutcomes(ts, skipped)
    BY <1>6 DEF Outcomes
  <2>2. PICK B \in SUBSET Purgeable(ts) :
           o.table = [k \in Jobs |-> IF k \in B THEN NoRow("purged") ELSE jobs[k]]
    BY <2>1, PurgeEffect
  <2> QED
    BY <1>6, <2>2 DEF RowStep, Purgeable
<1> QED
  BY <1>1, <1>2, <1>3, <1>4, <1>5, <1>6 DEF StatementType, Awaiting

\* An attempt once granted stays granted, and a row is only ever completed by
\* the complete statement of the attempt it shows.
LEMMA RowHistory ==
    ASSUME NEW s, NEW ts, NEW j, NEW row, NEW next,
           GoodRow(row), RowStep(s, ts, j, row, next)
    PROVE  /\ \A a \in Nat : Granted(row, a) => Granted(next, a)
           /\ next.status = "completed" =>
                 \/ row.status = "completed" /\ row.attempts = next.attempts
                 \/ s.op = "complete" /\ s.job = j /\ s.attempt = next.attempts
<1> USE DEF GoodRow, RowType, Granted
<1>1. CASE next = row
  BY <1>1
<1>2. CASE row.status = "running" /\ next = Reaped(row, ts)
  BY <1>2 DEF Reaped, AfterFailure
<1>3. CASE row.status = "pending" /\ next = ClaimedRow(row, s.id, ts)
  BY <1>3 DEF ClaimedRow
<1>4. CASE row.status = "running" /\ next = RenewedRow(row, ts)
  BY <1>4 DEF RenewedRow
<1>5. CASE /\ s.op = "complete" /\ s.job = j /\ Matches(row, s.id, s.attempt)
           /\ next = CompletedRow(row, ts)
  BY <1>5 DEF CompletedRow, Matches
<1>6. CASE row.status = "running" /\ next = FailedRow(row, RetryDelay(s.attempt), ts)
  BY <1>6 DEF FailedRow, AfterFailure
<1>7. CASE next = NoRow("purged")
  BY <1>7 DEF NoRow
<1> QED
  BY <1>1, <1>2, <1>3, <1>4, <1>5, <1>6, <1>7 DEF RowStep, Matches

\* The reaper finds a lease only after every budget that rests on it has
\* passed, and a renewal never shortens a lease below such a budget; so only
\* the terminal statement of the attempt itself ends a lease in use.
LEMMA LeaseSurvives ==
    ASSUME NEW s \in StatementType, NEW ts \in Instant, ts <= NOW, ts >= NOW - MaxStall,
           NEW j, NEW row, NEW next, GoodRow(row), RowStep(s, ts, j, row, next),
           NEW id, NEW a \in Nat, NEW t \in Instant, t <= NOW + Lease,
           Secure(row, id, a, t),
           ~(s.op \in Settling /\ s.job = j /\ s.attempt = a)
    PROVE  Secure(next, id, a, t)
<1> SUFFICES ASSUME NOW < t - MaxStall
             PROVE  /\ Matches(next, id, a)
                    /\ t - MaxStall <= next.locked_at + Lease
  BY DEF Secure, Matches
<1>1. /\ row.status = "running" /\ row.locked_by = id /\ row.attempts = a
      /\ t - MaxStall <= row.locked_at + Lease
  BY DEF Secure
<1>2. row.locked_at \in Int
  BY <1>1 DEF GoodRow, Constrained, Exists, RowType, Instant
<1>3. CASE next = row
  BY <1>1, <1>3 DEF Matches
<1>4. CASE row.locked_at < ts - Lease
  BY <1>1, <1>2, <1>4, QueueConstants DEF NOW, Instant
<1>5. CASE next = RenewedRow(row, ts)
  <2>1. next.locked_at = ts /\ Matches(next, id, a)
    BY <1>1, <1>5 DEF RenewedRow, GoodRow, RowType, Matches
  <2> QED
    BY <2>1, QueueConstants DEF NOW, Instant
<1>6. CASE s.op \in {"complete", "fail"} /\ s.job = j /\ Matches(row, s.id, s.attempt)
  BY <1>1, <1>6 DEF Matches, Settling
<1> QED
  BY <1>1, <1>3, <1>4, <1>5, <1>6 DEF RowStep

LEMMA OutcomeReply ==
    ASSUME GoodTable(jobs), NEW s \in StatementType, NEW ts, NEW skipped,
           NEW o \in Outcomes(s, ts, skipped), o.reply.kind = "ok"
    PROVE  /\ s.op = "select" =>
                 /\ o.reply.job \in Jobs
                 /\ jobs[o.reply.job].status = "pending"
                 /\ o.reply.attempt = jobs[o.reply.job].attempts + 1
                 /\ o.table[o.reply.job] = ClaimedRow(jobs[o.reply.job], s.id, ts)
           /\ s.op = "renew" /\ s.job \in Jobs =>
                 /\ Matches(jobs[s.job], s.id, s.attempt)
                 /\ o.table[s.job] = RenewedRow(jobs[s.job], ts)
<1>0. DOMAIN jobs = Jobs
  BY DEF GoodTable
<1>1. CASE s.op = "select"
  <2>1. o \in ClaimOutcomes(s.id, ts, skipped)
    BY <1>1 DEF Outcomes
  <2>2. o.reply # Reply("empty")
    BY DEF Reply
  <2>3. PICK k \in Claimable(ts) :
           /\ o.table = With(k, ClaimedRow(jobs[k], s.id, ts))
           /\ o.reply = JobReply(k, jobs[k].attempts + 1)
    BY <2>1, <2>2, ClaimEffect
  <2>4. k \in Jobs /\ jobs[k].status = "pending"
    BY DEF Claimable
  <2>5. o.reply.job = k /\ o.reply.attempt = jobs[k].attempts + 1
    BY <2>3 DEF JobReply
  <2>6. o.table[k] = ClaimedRow(jobs[k], s.id, ts)
    BY <1>0, <2>3, <2>4 DEF With
  <2> QED
    BY <1>1, <2>4, <2>5, <2>6
<1>2. CASE s.op = "renew" /\ s.job \in Jobs
  <2>1. o \in Guarded(s.job, s.id, s.attempt, RenewedRow(jobs[s.job], ts))
    BY <1>2 DEF Outcomes, RenewOutcomes
  <2>2. o.reply # Reply("lease_lost")
    BY DEF Reply
  <2>3. /\ Owns(s.job, s.id, s.attempt)
        /\ o.table = With(s.job, RenewedRow(jobs[s.job], ts))
    BY <2>1, <2>2, GuardedEffect
  <2>4. o.table[s.job] = RenewedRow(jobs[s.job], ts)
    BY <1>0, <1>2, <2>3 DEF With
  <2> QED
    BY <1>2, <2>3, <2>4 DEF Owns, Matches
<1> QED
  BY <1>1, <1>2

-----------------------------------------------------------------------------
(* The lease invariant step by step. *)

\* No budget reaches beyond a lease from now.
LEMMA BudgetBounded ==
    ASSUME NEW me \in WorkerType, LocalShape(me), NEW c, NEW t, ReliesOn(me, c, t)
    PROVE  t \in Instant /\ t <= NOW + Lease
<1>1. CASE me.pc \in Executing /\ t = me.deadline
  BY <1>1 DEF LocalShape, WorkerType
<1>2. CASE me.pc \in {"select", "renew"} /\ t = me.started + Lease
  <2>1. me.started \in Instant /\ me.started <= NOW
    BY <1>2 DEF LocalShape, WorkerType
  <2> QED
    BY <1>2, <2>1, QueueConstants, HorizonLongEnough DEF Instant, NOW
<1> QED
  BY <1>1, <1>2 DEF ReliesOn

\* A step of one worker that sends, drops or reads nothing but its own call:
\* it takes nothing it did not have, and leaves no terminal statement of an
\* attempt it goes on with.
LEMMA LocalStep ==
    ASSUME LeaseInv, TypeInv', jobs' = jobs, NEW w \in Workers, NEW me, NEW c,
           worker' = [worker EXCEPT ![w] = me], call' = [call EXCEPT ![w] = c],
           \A j \in Jobs, a \in Nat :
              /\ HoldsAt(me, c, j, a) => Holds(w, j, a)
              /\ ActiveAt(me, c, j, a) => Active(w, j, a)
              /\ \A t \in Instant :
                    ActiveAt(me, c, j, a) /\ ReliesOn(me, c, t) => Relies(w, t),
           \/ orphans' = orphans
           \/ /\ call[w].kind = "sent" /\ orphans' = orphans \cup {StatementOf(w)}
              /\ worker[w].pc \in Settling => \A j, a : ~ActiveAt(me, c, j, a)
    PROVE  LeaseInv'
<1>0. DOMAIN worker = Workers /\ DOMAIN call = Workers
  BY DEF LeaseInv, TypeInv, WorkersGood
<1>1. /\ worker'[w] = me /\ call'[w] = c
      /\ \A v \in Workers \ {w} : worker'[v] = worker[v] /\ call'[v] = call[v]
  BY <1>0
<1>2. \A v \in Workers, j \in Jobs, a \in Nat :
         /\ Holds(v, j, a)' => Holds(v, j, a)
         /\ Active(v, j, a)' => Active(v, j, a)
         /\ \A t \in Instant : Active(v, j, a)' /\ Relies(v, t)' => Relies(v, t)
  BY <1>1 DEF Holds, Active, Relies
<1>3. ASSUME NEW s \in orphans', s.op \in OnAttempt
      PROVE  s.job \in Jobs /\ s.attempt \in Nat
  BY <1>3 DEF TypeInv, OrphansGood, StatementShape, StatementType
<1>4. ASSUME NEW s \in orphans' \ orphans, s.op \in OnAttempt
      PROVE  /\ Holds(w, s.job, s.attempt)
             /\ s.op \in Settling => \A j, a : ~ActiveAt(me, c, j, a)
  <2>1. s = StatementOf(w)
    OBVIOUS
  <2> QED
    BY <1>4, <2>1 DEF StatementOf, Holds, HoldsAt, OnAttempt, Executing
<1>5. TokensKnown'
  <2>1. ASSUME NEW s \in orphans', s.op \in OnAttempt
        PROVE  Granted(jobs[s.job], s.attempt)
    BY <1>3, <1>4, <2>1 DEF LeaseInv, TokensKnown
  <2>2. \A v \in Workers, j \in Jobs, a \in Nat : Holds(v, j, a)' => Granted(jobs[j], a)
    BY <1>2 DEF LeaseInv, TokensKnown
  <2> QED
    BY <2>1, <2>2 DEF TokensKnown
<1>6. TokensUnique'
  BY <1>2 DEF LeaseInv, TokensUnique
<1>7. NoneSettling'
  <2> SUFFICES ASSUME NEW v \in Workers, NEW s \in orphans', s.op \in Settling
               PROVE  ~Active(v, s.job, s.attempt)'
    BY DEF NoneSettling
  <2>1. s.job \in Jobs /\ s.attempt \in Nat
    BY <1>3 DEF Settling, OnAttempt
  <2>2. CASE s \in orphans
    BY <1>2, <2>1, <2>2 DEF LeaseInv, NoneSettling
  <2>3. CASE s \notin orphans /\ v = w
    BY <1>1, <1>4, <2>3 DEF Settling, OnAttempt, Active
  <2>4. CASE s \notin orphans /\ v # w
    <3>1. Holds(w, s.job, s.attempt)
      BY <1>4, <2>4 DEF Settling, OnAttempt
    <3>2. ~Holds(v, s.job, s.attempt)
      BY <2>1, <2>4, <3>1 DEF LeaseInv, TokensUnique
    <3> QED
      BY <1>2, <2>1, <3>2 DEF Active, ActiveAt, Holds
  <2> QED
    BY <2>2, <2>3, <2>4
<1>8. LeaseHeld'
  BY <1>2 DEF LeaseInv, LeaseHeld
<1> QED
  BY <1>5, <1>6, <1>7, <1>8 DEF LeaseInv

LEMMA WorkerStepKeepsLease ==
    ASSUME LeaseInv, TypeInv', NEW w \in Workers, WorkerStep(w)
    PROVE  LeaseInv'
<1> DEFINE me == worker[w]
<1>0. me \in WorkerType /\ call[w] \in CallType /\ LocalShape(me) /\ CallShape(me, call[w])
  BY DEF LeaseInv, TypeInv, WorkersGood, WorkerShape
<1>a. Reply("sent").kind = "sent" /\ Reply("none").kind = "none"
  BY DEF Reply
\* The worker lets go of what it had, or had nothing.
<1>b. ASSUME NEW next, next.pc \notin Executing,
             Send(w, next) \/ Move(w, next),
             jobs' = jobs,
             orphans' = orphans \/ Abandon(w)
      PROVE  LeaseInv'
  <2>1. PICK c \in {Reply("sent"), Reply("none")} :
           /\ worker' = [worker EXCEPT ![w] = next] /\ call' = [call EXCEPT ![w] = c]
    BY <1>b DEF Send, Move
  <2>2. \A j, a : ~HoldsAt(next, c, j, a) /\ ~ActiveAt(next, c, j, a)
    BY <1>a, <1>b DEF HoldsAt, ActiveAt
  <2>3. \/ orphans' = orphans
        \/ call[w].kind = "sent" /\ orphans' = orphans \cup {StatementOf(w)}
    BY <1>b DEF Abandon
  <2> QED
    BY <1>b, <2>1, <2>2, <2>3, LocalStep
\* The worker goes on with its attempt, relying on nothing new.
<1>c. ASSUME NEW next, NEW c,
             worker' = [worker EXCEPT ![w] = next], call' = [call EXCEPT ![w] = c],
             UNCHANGED <<jobs, orphans>>,
             next.pc \in Executing, me.pc \in {"run", "renew"},
             next.job = me.job, next.attempt = me.attempt,
             \A t : ReliesOn(next, c, t) => Relies(w, t)
      PROVE  LeaseInv'
  <2>1. \A j \in Jobs, a \in Nat :
           HoldsAt(next, c, j, a) => Holds(w, j, a) /\ Active(w, j, a)
    BY <1>c DEF HoldsAt, ActiveAt, Holds, Active, Executing, Settling
  <2> QED
    BY <1>c, <2>1, LocalStep DEF ActiveAt
<1>d. ASSUME NEW next \in WorkerType, NEW result, SendTerminal(w, next, result),
             UNCHANGED <<jobs, orphans>>, me.pc \in {"run", "renew"},
             next.job = me.job, next.attempt = me.attempt, Relies(w, next.deadline)
      PROVE  LeaseInv'
  <2>1. CASE NOW < next.deadline
    <3> DEFINE last == [next EXCEPT !.pc = IF result = "ok" THEN "complete" ELSE "fail",
                                    !.next_renewal = Null, !.handler = "none"]
    <3>1. /\ last.pc \in Settling /\ last.job = next.job /\ last.attempt = next.attempt
          /\ last.deadline = next.deadline
      BY DEF WorkerType, Settling
    <3>2. Send(w, last)
      BY <1>d, <2>1 DEF SendTerminal
    <3> HIDE DEF last
    <3>3. \A t : ReliesOn(last, Reply("sent"), t) => t = last.deadline
      BY <3>1 DEF ReliesOn, Settling
    <3> QED
      BY <1>c, <1>d, <3>1, <3>2, <3>3 DEF Send, Settling, Executing
  <2>2. CASE ~(NOW < next.deadline)
    <3>1. Move(w, At("loop"))
      BY <1>d, <2>2 DEF SendTerminal
    <3> QED
      BY <1>b, <1>d, <3>1 DEF At, Executing
  <2> QED
    BY <2>1, <2>2
<1>1. CASE StartMaintenance(w)
  BY <1>1, <1>b DEF StartMaintenance, At, Executing
<1>2. CASE PurgeReply(w)
  <2>1. CASE Send(w, [me EXCEPT !.batch = @ + 1])
    <3>1. [me EXCEPT !.batch = @ + 1].pc = "purge"
      BY <1>0, <1>2 DEF PurgeReply, WorkerType
    <3> QED
      BY <1>2, <1>b, <2>1, <3>1 DEF PurgeReply, Executing
  <2>2. CASE Move(w, At("ready"))
    BY <1>2, <1>b, <2>2 DEF PurgeReply, At, Executing
  <2> QED
    BY <1>2, <2>1, <2>2 DEF PurgeReply
<1>3. CASE StartClaim(w)
  BY <1>3, <1>b DEF StartClaim, At, Executing
<1>4. CASE ReapReply(w)
  <2>1. CASE Send(w, [me EXCEPT !.pc = "select"])
    <3>1. [me EXCEPT !.pc = "select"].pc = "select"
      BY <1>0 DEF WorkerType
    <3> QED
      BY <1>4, <1>b, <2>1, <3>1 DEF ReapReply, Executing
  <2>2. CASE Move(w, At("loop"))
    BY <1>4, <1>b, <2>2 DEF ReapReply, At, Executing
  <2> QED
    BY <1>4, <2>1, <2>2 DEF ReapReply
<1>5. CASE ClaimReply(w)
  <2>1. CASE call[w].kind = "ok"
    <3> DEFINE next == Claimed(w, call[w].job, call[w].attempt)
    <3>1. /\ next.pc = "run" /\ next.job = call[w].job /\ next.attempt = call[w].attempt
          /\ next.deadline = me.started + Lease
      BY DEF Claimed, At
    <3>2. Move(w, next)
      BY <1>5, <2>1 DEF ClaimReply
    <3>3. me.pc = "select" /\ UNCHANGED <<jobs, orphans>>
      BY <1>5 DEF ClaimReply
    <3> HIDE DEF next
    <3>4. \A j \in Jobs, a \in Nat :
             HoldsAt(next, Reply("none"), j, a) => Holds(w, j, a) /\ Active(w, j, a)
      BY <2>1, <3>1, <3>3 DEF HoldsAt, Holds, Active, ActiveAt, Settling
    <3>5. \A t : ReliesOn(next, Reply("none"), t) => Relies(w, t)
      BY <3>1, <3>3 DEF ReliesOn, Relies
    <3> QED
      BY <3>2, <3>3, <3>4, <3>5, LocalStep DEF Move, ActiveAt
  <2>2. CASE call[w].kind # "ok"
    BY <1>5, <1>b, <2>2 DEF ClaimReply, At, Executing
  <2> QED
    BY <2>1, <2>2
<1>6. CASE HandlerReturns(w)
  <2>1. PICK result : SendTerminal(w, me, result)
    BY <1>6 DEF HandlerReturns
  <2>2. me.pc = "run" /\ UNCHANGED <<jobs, orphans>>
    BY <1>6 DEF HandlerReturns
  <2>3. Relies(w, me.deadline)
    BY <2>2 DEF Relies, ReliesOn, Executing
  <2> QED
    BY <1>0, <1>d, <2>1, <2>2, <2>3
<1>7. CASE HandlerReturnsDuringRenewal(w)
  <2>1. PICK result : worker' = [worker EXCEPT ![w].handler = result]
    BY <1>7 DEF HandlerReturnsDuringRenewal
  <2> DEFINE next == [me EXCEPT !.handler = result]
  <2>2. /\ next.pc = me.pc /\ next.job = me.job /\ next.attempt = me.attempt
        /\ next.deadline = me.deadline /\ next.started = me.started
    BY <1>0 DEF WorkerType
  <2>3. worker' = [worker EXCEPT ![w] = next] /\ call' = [call EXCEPT ![w] = call[w]]
    BY <1>7, <2>1 DEF HandlerReturnsDuringRenewal, LeaseInv, TypeInv, WorkersGood
  <2>4. me.pc = "renew" /\ UNCHANGED <<jobs, orphans>>
    BY <1>7 DEF HandlerReturnsDuringRenewal
  <2> HIDE DEF next
  <2>5. \A t : ReliesOn(next, call[w], t) => Relies(w, t)
    BY <2>2 DEF ReliesOn, Relies
  <2> QED
    BY <1>c, <2>2, <2>3, <2>4, <2>5 DEF Executing
<1>8. CASE StartRenewal(w)
  <2> DEFINE next == [me EXCEPT !.pc = "renew", !.started = NOW]
  <2>1. /\ next.pc = "renew" /\ next.job = me.job /\ next.attempt = me.attempt
        /\ next.deadline = me.deadline
    BY <1>0 DEF WorkerType
  <2>2. Send(w, next) /\ me.pc = "run" /\ UNCHANGED <<jobs, orphans>>
    BY <1>8 DEF StartRenewal
  <2> HIDE DEF next
  <2>3. \A t : ReliesOn(next, Reply("sent"), t) => Relies(w, t)
    BY <1>a, <2>1, <2>2 DEF ReliesOn, Relies, Executing
  <2> QED
    BY <1>c, <2>1, <2>2, <2>3 DEF Send, Executing
<1>9. CASE RenewReply(w)
  <2> DEFINE next == AfterRenewal(w)
  <2>1. next \in WorkerType /\ next.pc = "run"
    BY <1>9, AfterRenewalGood DEF RenewReply, LeaseInv, TypeInv
  <2>2. /\ next.job = me.job /\ next.attempt = me.attempt
        /\ \/ next.deadline = me.deadline
           \/ call[w].kind = "ok" /\ next.deadline = me.started + Lease
    BY <1>0 DEF AfterRenewal, WorkerType
  <2>3. me.pc = "renew" /\ UNCHANGED <<jobs, orphans>>
    BY <1>9 DEF RenewReply
  <2> HIDE DEF next
  <2>4. Relies(w, next.deadline)
    BY <2>2, <2>3 DEF Relies, ReliesOn, Executing
  <2>5. CASE Move(w, next)
    <3>1. \A t : ReliesOn(next, Reply("none"), t) => t = next.deadline
      BY <2>1 DEF ReliesOn
    <3> QED
      BY <1>c, <2>1, <2>2, <2>3, <2>4, <2>5, <3>1 DEF Move, Executing
  <2>6. CASE SendTerminal(w, next, me.handler)
    BY <1>d, <2>1, <2>2, <2>3, <2>4, <2>6
  <2> QED
    BY <1>9, <2>5, <2>6 DEF RenewReply, next
<1>10. CASE RenewLeaseLost(w)
  BY <1>10, <1>b DEF RenewLeaseLost, At, Executing
<1>11. CASE TerminalReply(w)
  BY <1>11, <1>b DEF TerminalReply, At, Executing
<1>12. CASE LeaseTimeout(w)
  BY <1>12, <1>b DEF LeaseTimeout, At, Executing
<1>13. CASE Restart(w)
  BY <1>13, <1>b DEF Restart, At, Executing
<1> QED
  BY <1>1, <1>2, <1>3, <1>4, <1>5, <1>6, <1>7, <1>8, <1>9, <1>10, <1>11, <1>12, <1>13
     DEF WorkerStep

\* A step on the table alone.
LEMMA TableStep ==
    ASSUME LeaseInv, TypeInv', UNCHANGED <<worker, call>>, orphans' \subseteq orphans,
           \A j \in Jobs, a \in Nat : Granted(jobs[j], a) => Granted(jobs'[j], a),
           \A w \in Workers, j \in Jobs, a \in Nat, t \in Instant :
              Active(w, j, a) /\ Relies(w, t) => Secure(jobs'[j], WorkerId[w], a, t)
    PROVE  LeaseInv'
<1>1. \A w \in Workers : \A j, a, t :
         /\ Holds(w, j, a)' <=> Holds(w, j, a)
         /\ Active(w, j, a)' <=> Active(w, j, a)
         /\ Relies(w, t)' <=> Relies(w, t)
  BY DEF Holds, Active, Relies
<1>2. \A s \in orphans : s.op \in OnAttempt => s.job \in Jobs /\ s.attempt \in Nat
  BY DEF LeaseInv, TypeInv, OrphansGood, StatementShape, StatementType
<1>3. TokensKnown'
  BY <1>1, <1>2 DEF LeaseInv, TokensKnown
<1>4. TokensUnique'
  BY <1>1 DEF LeaseInv, TokensUnique
<1>5. NoneSettling'
  BY <1>1 DEF LeaseInv, NoneSettling
<1>6. LeaseHeld'
  BY <1>1 DEF LeaseHeld
<1> QED
  BY <1>3, <1>4, <1>5, <1>6 DEF LeaseInv

\* Statement s is executed: what was granted stays granted, and only the
\* terminal statement of an attempt ends the lease of that attempt.
LEMMA StatementStep ==
    ASSUME LeaseInv, NEW s \in StatementType, NEW ts \in StartInstants(s.sent),
           NEW skipped, NEW o \in Outcomes(s, ts, skipped),
           NEW v \in Workers, NEW j \in Jobs, NEW a \in Nat
    PROVE  /\ Granted(jobs[j], a) => Granted(o.table[j], a)
           /\ \A t \in Instant :
                 /\ Active(v, j, a) /\ Relies(v, t)
                 /\ ~(s.op \in Settling /\ s.job = j /\ s.attempt = a)
                 => Secure(o.table[j], WorkerId[v], a, t)
<1>1. RowStep(s, ts, j, jobs[j], o.table[j]) /\ GoodRow(jobs[j])
  BY OutcomeRows DEF LeaseInv, TypeInv, GoodTable
<1>2. Granted(jobs[j], a) => Granted(o.table[j], a)
  BY <1>1, RowHistory
<1>3. ASSUME NEW t \in Instant, Active(v, j, a), Relies(v, t),
             ~(s.op \in Settling /\ s.job = j /\ s.attempt = a)
      PROVE  Secure(o.table[j], WorkerId[v], a, t)
  <2>1. Secure(jobs[j], WorkerId[v], a, t)
    BY <1>3 DEF LeaseInv, LeaseHeld
  <2>2. t <= NOW + Lease
    BY <1>3, BudgetBounded DEF Relies, LeaseInv, TypeInv, WorkersGood, WorkerShape
  <2>3. ts \in Instant /\ ts <= NOW /\ ts >= NOW - MaxStall
    BY StartInstant
  <2> QED
    BY <1>1, <1>3, <2>1, <2>2, <2>3, LeaseSurvives
<1> QED
  BY <1>2, <1>3

LEMMA ExecuteOrphanKeepsLease ==
    ASSUME LeaseInv, TypeInv', NEW s \in orphans, ExecuteOrphan(s)
    PROVE  LeaseInv'
<1>1. s \in StatementType
  BY DEF LeaseInv, TypeInv, OrphansGood
<1>2. PICK ts \in StartInstants(s.sent), skipped \in MaySkip(s) :
         \E o \in Outcomes(s, ts, skipped) : jobs' = o.table
  BY DEF ExecuteOrphan
<1>3. PICK o \in Outcomes(s, ts, skipped) : jobs' = o.table
  BY <1>2
<1>4. UNCHANGED <<worker, call>> /\ orphans' \subseteq orphans
  BY DEF ExecuteOrphan
<1>5. ASSUME NEW w \in Workers, NEW j \in Jobs, NEW a \in Nat, NEW t \in Instant,
             Active(w, j, a), Relies(w, t)
      PROVE  Secure(jobs'[j], WorkerId[w], a, t)
  <2>1. ~(s.op \in Settling /\ s.job = j /\ s.attempt = a)
    BY <1>5 DEF LeaseInv, NoneSettling
  <2> QED
    BY <1>1, <1>3, <1>5, <2>1, StatementStep
<1>6. ASSUME NEW j \in Jobs, NEW a \in Nat, Granted(jobs[j], a)
      PROVE  Granted(jobs'[j], a)
  <2>1. RowStep(s, ts, j, jobs[j], jobs'[j]) /\ GoodRow(jobs[j])
    BY <1>1, <1>3, OutcomeRows DEF LeaseInv, TypeInv, GoodTable
  <2> QED
    BY <1>6, <2>1, RowHistory
<1> QED
  BY <1>4, <1>5, <1>6, TableStep

LEMMA ProduceKeepsLease ==
    ASSUME LeaseInv, TypeInv', Produce
    PROVE  LeaseInv'
<1>0. \A j \in Jobs : GoodRow(jobs[j]) /\ DOMAIN jobs = Jobs
  BY DEF LeaseInv, TypeInv, GoodTable
<1>1. UNCHANGED <<worker, call>> /\ orphans' \subseteq orphans
  BY DEF Produce
<1>2. ASSUME NEW j \in Jobs
      PROVE  \/ jobs'[j] = jobs[j]
             \/ /\ jobs[j].status \in {"absent", "dead"}
                /\ jobs'[j].attempts = jobs[j].attempts
  <2>1. ASSUME NEW k \in Jobs, NEW max \in MaxAttempts, Enqueue(k, max)
        PROVE  \/ jobs'[j] = jobs[j]
               \/ jobs[j].status = "absent" /\ jobs'[j].attempts = jobs[j].attempts
    <3>1. jobs'[j] = IF j = k THEN NewRow(max, NOW) ELSE jobs[j]
      BY <1>0, <2>1 DEF Enqueue, With
    <3> QED
      BY <1>0, <2>1, <3>1 DEF Enqueue, NewRow, GoodRow, Exists
  <2>2. ASSUME NEW k \in Jobs, OperatorRetry(k)
        PROVE  \/ jobs'[j] = jobs[j]
               \/ jobs[j].status = "dead" /\ jobs'[j].attempts = jobs[j].attempts
    <3>1. jobs'[j] = IF j = k THEN RetriedRow(jobs[j], NOW) ELSE jobs[j]
      BY <1>0, <2>2 DEF OperatorRetry, With
    <3> QED
      BY <1>0, <2>2, <3>1 DEF OperatorRetry, RetriedRow, GoodRow, RowType
  <2> QED
    BY <2>1, <2>2 DEF Produce
<1>3. \A j \in Jobs, a \in Nat : Granted(jobs[j], a) => Granted(jobs'[j], a)
  BY <1>2 DEF Granted
<1>4. ASSUME NEW w \in Workers, NEW j \in Jobs, NEW a \in Nat, NEW t \in Instant,
             Active(w, j, a), Relies(w, t)
      PROVE  Secure(jobs'[j], WorkerId[w], a, t)
  <2>1. Secure(jobs[j], WorkerId[w], a, t)
    BY <1>4 DEF LeaseInv, LeaseHeld
  <2> QED
    BY <1>2, <2>1 DEF Secure
<1> QED
  BY <1>1, <1>3, <1>4, TableStep

\* PostgreSQL executes the statement worker w awaits.  Three things are new:
\* a claim grants an attempt nobody had, a renewal gives w another budget,
\* and a terminal statement takes its attempt out of use.
LEMMA ExecuteKeepsLease ==
    ASSUME LeaseInv, TypeInv', NEW w \in Workers, Execute(w)
    PROVE  LeaseInv'
<1> DEFINE s == StatementOf(w)
           me == worker[w]
<1>0. /\ me \in WorkerType /\ LocalShape(me) /\ call[w].kind = "sent"
      /\ DOMAIN call = Workers /\ GoodTable(jobs) /\ me.pc \in Awaiting
  BY DEF Execute, LeaseInv, TypeInv, WorkersGood, WorkerShape, CallShape
<1>1. s \in StatementType /\ StatementShape(s)
  BY <1>0, StatementOfTypes DEF LeaseInv
<1>2. s.op = me.pc /\ s.job = me.job /\ s.attempt = me.attempt /\ s.id = WorkerId[w]
  BY DEF StatementOf
<1> HIDE DEF s
<1>3. PICK ts \in StartInstants(s.sent), skipped \in MaySkip(s) :
         \E o \in Outcomes(s, ts, skipped) :
            jobs' = o.table /\ call' = [call EXCEPT ![w] = o.reply]
  BY DEF Execute, s
<1>4. PICK o \in Outcomes(s, ts, skipped) :
         jobs' = o.table /\ call' = [call EXCEPT ![w] = o.reply]
  BY <1>3
<1>5. /\ worker' = worker /\ orphans' = orphans /\ call'[w] = o.reply
      /\ \A v \in Workers \ {w} : call'[v] = call[v]
  BY <1>0, <1>4 DEF Execute
<1>6. ts \in Instant /\ ts <= NOW /\ ts >= NOW - MaxStall
  BY StartInstant
<1>7. o.reply.kind # "sent"
  BY <1>1, <1>6, OutcomeTypes DEF LeaseInv, TypeInv
<1>8. \A j \in Jobs, a \in Nat : Granted(jobs[j], a) => Granted(jobs'[j], a)
  BY <1>0, <1>1, <1>4, OutcomeRows, RowHistory DEF GoodTable
\* The attempt a claim grants: nobody had it before.
<1>9. ASSUME me.pc = "select", o.reply.kind = "ok"
      PROVE  LET j == o.reply.job
                 a == o.reply.attempt
             IN  /\ j \in Jobs /\ a \in Nat /\ ~Granted(jobs[j], a) /\ Granted(jobs'[j], a)
                 /\ jobs'[j] = ClaimedRow(jobs[j], WorkerId[w], ts)
                 /\ jobs[j] \in RowType /\ a = jobs[j].attempts + 1
  <2> DEFINE j == o.reply.job
             a == o.reply.attempt
  <2>1. /\ j \in Jobs /\ jobs[j].status = "pending" /\ a = jobs[j].attempts + 1
        /\ jobs'[j] = ClaimedRow(jobs[j], WorkerId[w], ts)
    BY <1>0, <1>1, <1>2, <1>4, <1>9, OutcomeReply
  <2>2. jobs[j] \in RowType
    BY <1>0, <2>1 DEF GoodTable
  <2> HIDE DEF j, a
  <2>3. /\ a \in Nat /\ ~Granted(jobs[j], a) /\ Granted(jobs'[j], a)
    BY <2>1, <2>2 DEF Granted, ClaimedRow, RowType
  <2> QED
    BY <2>1, <2>2, <2>3 DEF j, a
<1>10. ASSUME NEW v \in Workers, NEW j \in Jobs, NEW a \in Nat, Holds(v, j, a)'
       PROVE  \/ Holds(v, j, a)
              \/ /\ v = w /\ me.pc = "select" /\ o.reply.kind = "ok"
                 /\ j = o.reply.job /\ a = o.reply.attempt
  BY <1>5, <1>10 DEF Holds, HoldsAt
<1>11. TokensKnown'
  <2>1. ASSUME NEW v \in Workers, NEW j \in Jobs, NEW a \in Nat, Holds(v, j, a)'
        PROVE  Granted(jobs'[j], a)
    BY <1>8, <1>9, <1>10, <2>1 DEF LeaseInv, TokensKnown
  <2>2. ASSUME NEW r \in orphans, r.op \in OnAttempt
        PROVE  Granted(jobs'[r.job], r.attempt)
    <3>1. r.job \in Jobs /\ r.attempt \in Nat
      BY <2>2 DEF LeaseInv, TypeInv, OrphansGood, StatementShape, StatementType
    <3> QED
      BY <1>8, <2>2, <3>1 DEF LeaseInv, TokensKnown
  <2> QED
    BY <1>5, <2>1, <2>2 DEF TokensKnown
<1>12. TokensUnique'
  <2> SUFFICES ASSUME NEW u \in Workers, NEW v \in Workers, NEW j \in Jobs, NEW a \in Nat,
                      Holds(u, j, a)', Holds(v, j, a)'
               PROVE  u = v
    BY DEF TokensUnique
  <2>1. CASE Holds(u, j, a) /\ Holds(v, j, a)
    BY <2>1 DEF LeaseInv, TokensUnique
  <2>2. CASE ~Holds(u, j, a) \/ ~Holds(v, j, a)
    <3>1. /\ me.pc = "select" /\ o.reply.kind = "ok"
          /\ j = o.reply.job /\ a = o.reply.attempt
      BY <1>10, <2>2
    <3>2. ~Granted(jobs[j], a)
      BY <1>9, <3>1
    <3>3. ~Holds(u, j, a) /\ ~Holds(v, j, a)
      BY <3>2 DEF LeaseInv, TokensKnown
    <3> QED
      BY <1>10, <3>3
  <2> QED
    BY <2>1, <2>2
<1>13. NoneSettling'
  <2> SUFFICES ASSUME NEW v \in Workers, NEW r \in orphans, r.op \in Settling,
                      Active(v, r.job, r.attempt)'
               PROVE  FALSE
    BY <1>5 DEF NoneSettling
  <2>1. r.job \in Jobs /\ r.attempt \in Nat /\ r.op \in OnAttempt
    BY DEF LeaseInv, TypeInv, OrphansGood, StatementShape, StatementType, Settling, OnAttempt
  <2>2. Granted(jobs[r.job], r.attempt)
    BY <2>1 DEF LeaseInv, TokensKnown
  <2>3. Holds(v, r.job, r.attempt)'
    BY DEF Active, ActiveAt, Holds
  <2>4. Holds(v, r.job, r.attempt)
    BY <1>9, <1>10, <2>1, <2>2, <2>3
  <2>5. Active(v, r.job, r.attempt)
    BY <1>0, <1>5, <2>4 DEF Active, ActiveAt, Holds
  <2> QED
    BY <2>5 DEF LeaseInv, NoneSettling
<1>14. LeaseHeld'
  <2> SUFFICES ASSUME NEW v \in Workers, NEW j \in Jobs, NEW a \in Nat, NEW t \in Instant,
                      Active(v, j, a)', Relies(v, t)'
               PROVE  Secure(jobs'[j], WorkerId[v], a, t)
    BY DEF LeaseHeld
  <2>0. t <= NOW + Lease
    BY BudgetBounded DEF Relies, TypeInv, WorkersGood, WorkerShape
  <2>1. Holds(v, j, a)'
    BY DEF Active, ActiveAt, Holds
  <2>2. CASE v = w /\ me.pc = "select"
    <3>1. o.reply.kind = "ok" /\ j = o.reply.job /\ a = o.reply.attempt
      BY <1>5, <2>1, <2>2 DEF Holds, HoldsAt, Executing
    <3>2. /\ jobs'[j] = ClaimedRow(jobs[j], WorkerId[v], ts)
          /\ jobs[j] \in RowType /\ a = jobs[j].attempts + 1
      BY <1>9, <2>2, <3>1
    <3>3. /\ jobs'[j].status = "running" /\ jobs'[j].locked_by = WorkerId[v]
          /\ jobs'[j].attempts = a /\ jobs'[j].locked_at = ts
      BY <3>2 DEF ClaimedRow, RowType
    <3> QED
      BY <1>6, <2>0, <3>3, QueueConstants DEF Secure, Instant, NOW
  <2>3. CASE ~(v = w /\ me.pc = "select")
    <3>1. Holds(v, j, a)
      BY <1>10, <2>1, <2>3
    <3>2. Active(v, j, a)
      BY <1>0, <1>5, <3>1 DEF Active, ActiveAt, Holds
    <3>3. ~(s.op \in Settling /\ s.job = j /\ s.attempt = a)
      <4>1. CASE v = w
        BY <1>2, <1>5, <1>7, <4>1 DEF Active, ActiveAt
      <4>2. CASE v # w
        <5>1. ~Holds(w, j, a)
          BY <3>1, <4>2 DEF LeaseInv, TokensUnique
        <5> QED
          BY <1>2, <5>1 DEF Holds, HoldsAt, Settling, Executing
      <4> QED
        BY <4>1, <4>2
    <3>4. CASE Relies(v, t)
      BY <1>1, <1>4, <3>2, <3>3, <3>4, StatementStep
    <3>5. CASE ~Relies(v, t)
      <4>1. v = w /\ me.pc = "renew" /\ o.reply.kind = "ok"
        BY <1>5, <2>3, <3>5 DEF Relies, ReliesOn
      <4>2. j = s.job /\ a = s.attempt
        BY <1>2, <3>1, <4>1 DEF Holds, HoldsAt
      <4>3. /\ Matches(jobs[j], s.id, s.attempt)
            /\ jobs'[j] = RenewedRow(jobs[j], ts)
        BY <1>0, <1>1, <1>2, <1>4, <4>1, <4>2, OutcomeReply
      <4>4. jobs[j] \in RowType
        BY <1>0 DEF GoodTable
      <4>5. /\ jobs'[j].status = "running" /\ jobs'[j].locked_by = WorkerId[v]
            /\ jobs'[j].attempts = a /\ jobs'[j].locked_at = ts
        BY <1>2, <4>1, <4>2, <4>3, <4>4 DEF Matches, RenewedRow, RowType
      <4> QED
        BY <1>6, <2>0, <4>5, QueueConstants DEF Secure, Instant, NOW
    <3> QED
      BY <3>4, <3>5
  <2> QED
    BY <2>2, <2>3
<1> QED
  BY <1>11, <1>12, <1>13, <1>14 DEF LeaseInv

LEMMA FaultKeepsLease ==
    ASSUME LeaseInv, TypeInv', NEW w \in Workers, Disconnect(w) \/ Crash(w)
    PROVE  LeaseInv'
<1> DEFINE me == worker[w]
<1>1. \/ orphans' = orphans
      \/ call[w].kind = "sent" /\ orphans' = orphans \cup {StatementOf(w)}
  BY DEF Disconnect, Crash, Abandon
<1>2. CASE Disconnect(w)
  <2> DEFINE c == Reply("unavailable")
  <2>1. c.kind = "unavailable"
    BY DEF Reply
  <2>2. /\ worker' = [worker EXCEPT ![w] = me] /\ call' = [call EXCEPT ![w] = c]
        /\ jobs' = jobs /\ call[w].kind = "sent"
    BY <1>2 DEF Disconnect, LeaseInv, TypeInv, WorkersGood
  <2> HIDE DEF c
  <2>3. \A j, a :
           /\ HoldsAt(me, c, j, a) => Holds(w, j, a)
           /\ ActiveAt(me, c, j, a) => Active(w, j, a)
    BY <2>1, <2>2 DEF HoldsAt, ActiveAt, Holds, Active
  <2>4. \A t : ReliesOn(me, c, t) => Relies(w, t)
    BY <2>1 DEF ReliesOn, Relies
  <2>5. me.pc \in Settling => \A j, a : ~ActiveAt(me, c, j, a)
    BY <2>1 DEF ActiveAt
  <2> QED
    BY <1>1, <2>2, <2>3, <2>4, <2>5, LocalStep
<1>3. CASE Crash(w)
  <2>1. /\ worker' = [worker EXCEPT ![w] = At("down")]
        /\ call' = [call EXCEPT ![w] = Reply("none")] /\ jobs' = jobs
    BY <1>3 DEF Crash, Move
  <2>2. \A j, a : ~HoldsAt(At("down"), Reply("none"), j, a)
                  /\ ~ActiveAt(At("down"), Reply("none"), j, a)
    BY DEF HoldsAt, ActiveAt, At, Executing
  <2> QED
    BY <1>1, <2>1, <2>2, LocalStep
<1> QED
  BY <1>2, <1>3

\* The worker's clock and PostgreSQL's move together.
LEMMA TickKeepsLease ==
    ASSUME LeaseInv, TypeInv', Tick
    PROVE  LeaseInv'
<1>1. ASSUME NEW w \in Workers
      PROVE  /\ worker[w] \in WorkerType /\ LocalShape(worker[w]) /\ call[w] \in CallType
             /\ worker'[w] = AgedWorker(worker[w]) /\ call'[w] = AgedCall(call[w])
  BY DEF Tick, LeaseInv, TypeInv, WorkersGood, WorkerShape
<1>2. ASSUME NEW me \in WorkerType
      PROVE  LET next == AgedWorker(me)
             IN  /\ next.pc = me.pc /\ next.job = me.job /\ next.attempt = me.attempt
                 /\ next.deadline = Aged(me.deadline) /\ next.started = Aged(me.started)
  BY DEF AgedWorker, WorkerType
<1>3. ASSUME NEW c \in CallType
      PROVE  LET next == AgedCall(c)
             IN  next.kind = c.kind /\ next.job = c.job /\ next.attempt = c.attempt
  BY DEF AgedCall, AgedSent, CallType
<1>4. ASSUME NEW w \in Workers, NEW j, NEW a
      PROVE  (Holds(w, j, a)' <=> Holds(w, j, a)) /\ (Active(w, j, a)' <=> Active(w, j, a))
  <2>1. /\ worker'[w].pc = worker[w].pc /\ worker'[w].job = worker[w].job
        /\ worker'[w].attempt = worker[w].attempt /\ call'[w].kind = call[w].kind
        /\ call'[w].job = call[w].job /\ call'[w].attempt = call[w].attempt
    BY <1>1, <1>2, <1>3
  <2> QED
    BY <2>1 DEF Holds, Active, HoldsAt, ActiveAt
<1>5. ASSUME NEW j \in Jobs
      PROVE  /\ jobs[j] \in RowType /\ GoodRow(jobs[j]) /\ jobs'[j].status = jobs[j].status
             /\ jobs'[j].attempts = jobs[j].attempts /\ jobs'[j].locked_by = jobs[j].locked_by
             /\ jobs'[j].locked_at = Aged(jobs[j].locked_at)
  <2>1. jobs[j] \in RowType /\ GoodRow(jobs[j]) /\ jobs'[j] = AgedRow(jobs[j])
    BY DEF Tick, AgeRows, LeaseInv, TypeInv, GoodTable
  <2> QED
    BY <2>1 DEF AgedRow, RowType
<1>6. ASSUME NEW s \in orphans'
      PROVE  \E r \in orphans : r.op = s.op /\ r.job = s.job /\ r.attempt = s.attempt
  <2>1. PICK r \in orphans : s = AgedSent(r)
    BY DEF Tick
  <2>2. r \in StatementType
    BY DEF LeaseInv, TypeInv, OrphansGood
  <2> QED
    BY <2>1, <2>2 DEF AgedSent, StatementType
<1>7. TokensKnown'
  <2>1. \A w \in Workers, j \in Jobs, a \in Nat : Holds(w, j, a)' => Granted(jobs'[j], a)
    BY <1>4, <1>5 DEF LeaseInv, TokensKnown, Granted
  <2>2. ASSUME NEW s \in orphans', s.op \in OnAttempt
        PROVE  Granted(jobs'[s.job], s.attempt)
    <3>1. s.job \in Jobs
      BY <2>2 DEF TypeInv, OrphansGood, StatementShape
    <3>2. Granted(jobs[s.job], s.attempt)
      BY <1>6, <2>2 DEF LeaseInv, TokensKnown
    <3> QED
      BY <1>5, <3>1, <3>2 DEF Granted
  <2> QED
    BY <2>1, <2>2 DEF TokensKnown
<1>8. TokensUnique'
  BY <1>4 DEF LeaseInv, TokensUnique
<1>9. NoneSettling'
  BY <1>4, <1>6 DEF LeaseInv, NoneSettling
<1>10. LeaseHeld'
  <2> SUFFICES ASSUME NEW w \in Workers, NEW j \in Jobs, NEW a \in Nat, NEW t \in Instant,
                      Active(w, j, a)', Relies(w, t)', NOW < t - MaxStall
               PROVE  /\ jobs'[j].status = "running" /\ jobs'[j].locked_by = WorkerId[w]
                      /\ jobs'[j].attempts = a
                      /\ t - MaxStall <= jobs'[j].locked_at + Lease
    BY DEF LeaseHeld, Secure
  <2>1. t + 1 \in Instant /\ Relies(w, t + 1)
    <3> DEFINE me == worker[w]
    <3>0. t > 0 /\ t \in Int /\ t + 1 \in Instant
      BY QueueConstants, HorizonLongEnough DEF NOW, Instant
    <3>1. \A d \in Instant : Aged(d) = t => d = t + 1
      BY <3>0, QueueConstants, HorizonLongEnough DEF Aged, Instant
    <3>2. \A d \in Instant : Aged(d) + Lease = t => d + Lease = t + 1
      BY <3>0, HorizonLongEnough, QueueConstants DEF Aged, Instant
    <3>3. CASE me.pc \in Executing /\ t = Aged(me.deadline)
      <4>1. me.deadline \in Instant
        BY <1>1, <3>3 DEF LocalShape, WorkerType
      <4> QED
        BY <3>0, <3>1, <3>3, <4>1 DEF Relies, ReliesOn
    <3>4. CASE /\ me.pc = "select" \/ (me.pc = "renew" /\ call[w].kind = "ok")
               /\ t = Aged(me.started) + Lease
      <4>1. me.started \in Instant
        BY <1>1, <3>4 DEF LocalShape, WorkerType
      <4> QED
        BY <3>0, <3>2, <3>4, <4>1 DEF Relies, ReliesOn
    <3>5. /\ worker'[w].pc = me.pc /\ call'[w].kind = call[w].kind
          /\ worker'[w].deadline = Aged(me.deadline)
          /\ worker'[w].started = Aged(me.started)
      BY <1>1, <1>2, <1>3
    <3> QED
      BY <3>3, <3>4, <3>5 DEF Relies, ReliesOn
  <2>2. Active(w, j, a)
    BY <1>4
  <2>3. Secure(jobs[j], WorkerId[w], a, t + 1)
    BY <2>1, <2>2 DEF LeaseInv, LeaseHeld
  <2>4. /\ jobs[j].status = "running" /\ jobs[j].locked_by = WorkerId[w]
        /\ jobs[j].attempts = a
        /\ t + 1 - MaxStall <= jobs[j].locked_at + Lease
    BY <2>3, QueueConstants DEF Secure, NOW, Instant
  <2>5. jobs[j].locked_at \in Instant
    BY <1>5, <2>4 DEF GoodRow, Constrained, Exists, RowType
  <2>6. Aged(jobs[j].locked_at) >= jobs[j].locked_at - 1 /\ Aged(jobs[j].locked_at) \in Int
    BY <2>5, AgedInstant DEF Instant
  <2> QED
    BY <1>5, <2>4, <2>5, <2>6, QueueConstants DEF Instant
<1> QED
  BY <1>7, <1>8, <1>9, <1>10 DEF LeaseInv

LEMMA LeaseInvInductive ==
    /\ Init => LeaseInv
    /\ LeaseInv /\ [Next]_vars => LeaseInv'
<1>1. Init => LeaseInv
  <2> SUFFICES ASSUME Init PROVE LeaseInv
    OBVIOUS
  <2>1. TypeInv
    BY TypeInvInductive
  <2>2. \A w \in Workers : \A j, a : ~Holds(w, j, a)
    BY DEF Init, Holds, HoldsAt, At, Executing
  <2>3. orphans = {}
    BY DEF Init
  <2> QED
    BY <2>1, <2>2, <2>3
       DEF LeaseInv, TokensKnown, TokensUnique, NoneSettling, LeaseHeld, Active, ActiveAt, Holds
<1>2. LeaseInv /\ [Next]_vars => LeaseInv'
  <2> SUFFICES ASSUME LeaseInv, [Next]_vars PROVE LeaseInv'
    OBVIOUS
  <2>1. TypeInv'
    BY TypeInvInductive DEF LeaseInv
  <2>2. CASE UNCHANGED vars
    BY <2>1, <2>2 DEF vars, LeaseInv, TokensKnown, TokensUnique, NoneSettling, LeaseHeld,
                      Holds, Active, Relies
  <2> QED
    BY <2>1, <2>2, ProduceKeepsLease, TickKeepsLease, ExecuteOrphanKeepsLease,
       WorkerStepKeepsLease, ExecuteKeepsLease, FaultKeepsLease DEF Next
<1> QED
  BY <1>1, <1>2

\* A worker that relies on its lease is the owner of the row.
LEMMA LeaseOwns ==
    ASSUME LeaseInv
    PROVE  OwnershipEstimate
<1> SUFFICES ASSUME NEW w \in Workers, ActsAsOwner(w), NOW < worker[w].deadline - MaxStall
             PROVE  /\ Owns(worker[w].job, WorkerId[w], worker[w].attempt)
                    /\ worker[w].deadline - MaxStall <= jobs[worker[w].job].locked_at + Lease
  BY DEF OwnershipEstimate
<1>1. worker[w].pc \in Executing
  BY DEF ActsAsOwner, Executing
<1>2. worker[w].job \in Jobs /\ worker[w].attempt \in Nat /\ worker[w].deadline \in Instant
  BY <1>1 DEF LeaseInv, TypeInv, WorkersGood, WorkerShape, LocalShape, WorkerType
<1>3. Active(w, worker[w].job, worker[w].attempt) /\ Relies(w, worker[w].deadline)
  BY <1>1 DEF ActsAsOwner, Active, ActiveAt, HoldsAt, Relies, ReliesOn, Settling
<1>4. Secure(jobs[worker[w].job], WorkerId[w], worker[w].attempt, worker[w].deadline)
  BY <1>2, <1>3 DEF LeaseInv, LeaseHeld
<1> QED
  BY <1>4 DEF Secure, Owns

\* Two workers that rely on a lease of one job would share its attempt, which
\* was granted to one of them.
LEMMA LeaseExcludes ==
    ASSUME LeaseInv
    PROVE  NoTwoOwners
<1> SUFFICES ASSUME NEW v \in Workers, NEW w \in Workers, v # w,
                    ActsAsOwner(v), ActsAsOwner(w),
                    NOW < worker[v].deadline - MaxStall, NOW < worker[w].deadline - MaxStall,
                    worker[v].job = worker[w].job
             PROVE  FALSE
  BY DEF NoTwoOwners
<1> DEFINE j == worker[v].job
           a == worker[v].attempt
<1>1. worker[v].pc \in Executing /\ worker[w].pc \in Executing
  BY DEF ActsAsOwner, Executing
<1>2. \A u \in {v, w} :
         /\ worker[u].job \in Jobs /\ worker[u].attempt \in Nat /\ worker[u].deadline \in Instant
         /\ Active(u, worker[u].job, worker[u].attempt) /\ Relies(u, worker[u].deadline)
  BY <1>1 DEF LeaseInv, TypeInv, WorkersGood, WorkerShape, LocalShape, WorkerType,
              ActsAsOwner, Active, ActiveAt, HoldsAt, Relies, ReliesOn, Settling
<1>3. jobs[j].attempts = a /\ jobs[j].attempts = worker[w].attempt
  BY <1>2 DEF LeaseInv, LeaseHeld, Secure
<1>4. Holds(v, j, a) /\ Holds(w, j, a)
  BY <1>1, <1>3 DEF Holds, HoldsAt
<1> QED
  BY <1>2, <1>4 DEF LeaseInv, TokensUnique

\* Within its budget a worker owns its job (worker.rs: "database/network
\* latency must not extend our estimate of ownership beyond the lease stored
\* in PostgreSQL"), off by no more than a statement may stall.
THEOREM OwnershipHolds == Spec => []OwnershipEstimate
<1>1. LeaseInv => OwnershipEstimate
  BY LeaseOwns
<1> QED
  BY <1>1, LeaseInvInductive, PTL DEF Spec

\* No job is handled by two workers within their budgets, whatever fails and
\* even if the processes share a worker_id.
THEOREM OneOwner == Spec => []NoTwoOwners
<1>1. LeaseInv => NoTwoOwners
  BY LeaseExcludes
<1> QED
  BY <1>1, LeaseInvInductive, PTL DEF Spec

-----------------------------------------------------------------------------
(* Only handled attempts are completed. *)

LEMMA WorkerStepKeepsHandled ==
    ASSUME TypeInv, HandledInv, NEW w \in Workers, WorkerStep(w)
    PROVE  HandledInv'
<1> DEFINE me == worker[w]
<1>0. /\ me \in WorkerType
      /\ DOMAIN worker = Workers
  BY DEF TypeInv, WorkersGood
<1>a. ASSUME NEW next, Move(w, next) \/ Send(w, next), HandledBy(next, succeeded'),
             jobs' = jobs, succeeded \subseteq succeeded', orphans' = orphans \/ Abandon(w)
      PROVE  HandledInv'
  <2>1. CompletedMeansHandled'
    BY <1>a DEF HandledInv, CompletedMeansHandled
  <2>2. worker' = [worker EXCEPT ![w] = next]
    BY <1>a DEF Move, Send
  <2>3. ASSUME NEW v \in Workers PROVE HandledBy(worker'[v], succeeded')
    BY <1>0, <1>a, <2>2 DEF HandledInv, HandledBy
  <2>4. ASSUME NEW s \in orphans', s.op = "complete"
        PROVE  <<s.job, s.attempt>> \in succeeded'
    <3>1. CASE s \in orphans
      BY <1>a, <2>4, <3>1 DEF HandledInv
    <3>2. CASE s = StatementOf(w)
      <4>1. me.pc = "complete" /\ s.job = me.job /\ s.attempt = me.attempt
        BY <2>4, <3>2 DEF StatementOf
      <4> QED
        BY <1>a, <4>1 DEF HandledInv, HandledBy
    <3> QED
      BY <1>a, <3>1, <3>2 DEF Abandon
  <2> QED
    BY <2>1, <2>3, <2>4 DEF HandledInv, HandledBy
\* A move to a state that claims nothing.
<1>b. ASSUME NEW next, Move(w, next) \/ Send(w, next), next.pc # "complete", next.handler # "ok",
             UNCHANGED <<jobs, succeeded>>, orphans' = orphans \/ Abandon(w)
      PROVE  HandledInv'
  BY <1>a, <1>b DEF HandledBy
<1>c. ASSUME NEW next \in WorkerType, NEW result, SendTerminal(w, next, result),
             result = "ok" => <<next.job, next.attempt>> \in succeeded',
             jobs' = jobs, succeeded \subseteq succeeded', orphans' = orphans
      PROVE  HandledInv'
  <2>1. CASE NOW < next.deadline
    <3> DEFINE last == [next EXCEPT !.pc = IF result = "ok" THEN "complete" ELSE "fail",
                                    !.next_renewal = Null, !.handler = "none"]
    <3>1. /\ last.pc = (IF result = "ok" THEN "complete" ELSE "fail")
          /\ last.job = next.job /\ last.attempt = next.attempt /\ last.handler = "none"
      BY DEF WorkerType
    <3>2. Send(w, last)
      BY <1>c, <2>1 DEF SendTerminal
    <3> HIDE DEF last
    <3>3. HandledBy(last, succeeded')
      BY <1>c, <3>1 DEF HandledBy
    <3> QED
      BY <1>a, <1>c, <3>2, <3>3
  <2>2. CASE ~(NOW < next.deadline)
    <3>1. Move(w, At("loop"))
      BY <1>c, <2>2 DEF SendTerminal
    <3> QED
      BY <1>a, <1>c, <3>1 DEF At, HandledBy
  <2> QED
    BY <2>1, <2>2
<1>1. CASE StartMaintenance(w)
  BY <1>1, <1>b DEF StartMaintenance, At
<1>2. CASE PurgeReply(w)
  <2>1. CASE Send(w, [me EXCEPT !.batch = @ + 1])
    <3> DEFINE next == [me EXCEPT !.batch = @ + 1]
    <3>1. /\ next.pc = "purge" /\ next.handler = me.handler
          /\ next.job = me.job /\ next.attempt = me.attempt
      BY <1>0, <1>2 DEF PurgeReply, WorkerType
    <3>2. HandledBy(next, succeeded)
      BY <3>1 DEF HandledInv, HandledBy
    <3> QED
      BY <1>2, <1>a, <2>1, <3>2 DEF PurgeReply
  <2>2. CASE Move(w, At("ready"))
    BY <1>2, <1>b, <2>2 DEF PurgeReply, At
  <2> QED
    BY <1>2, <2>1, <2>2 DEF PurgeReply
<1>3. CASE StartClaim(w)
  BY <1>3, <1>b DEF StartClaim, At
<1>4. CASE ReapReply(w)
  <2>1. CASE Send(w, [me EXCEPT !.pc = "select"])
    <3> DEFINE next == [me EXCEPT !.pc = "select"]
    <3>1. /\ next.pc = "select" /\ next.handler = me.handler
          /\ next.job = me.job /\ next.attempt = me.attempt
      BY <1>0 DEF WorkerType
    <3>2. HandledBy(next, succeeded)
      BY <3>1 DEF HandledInv, HandledBy
    <3> QED
      BY <1>4, <1>a, <2>1, <3>2 DEF ReapReply
  <2>2. CASE Move(w, At("loop"))
    BY <1>4, <1>b, <2>2 DEF ReapReply, At
  <2> QED
    BY <1>4, <2>1, <2>2 DEF ReapReply
<1>5. CASE ClaimReply(w)
  <2> DEFINE next == IF call[w].kind = "ok" THEN Claimed(w, call[w].job, call[w].attempt)
                                          ELSE At("loop")
  <2>1. next.pc # "complete" /\ next.handler # "ok"
    BY DEF Claimed, At
  <2>2. Move(w, next) /\ UNCHANGED <<jobs, orphans, succeeded>>
    BY <1>5 DEF ClaimReply
  <2> HIDE DEF next
  <2> QED
    BY <1>b, <2>1, <2>2
<1>6. CASE HandlerReturns(w)
  <2>1. PICK result : SendTerminal(w, me, result) /\ Record(w, result)
    BY <1>6 DEF HandlerReturns
  <2>2. /\ succeeded \subseteq succeeded'
        /\ result = "ok" => <<me.job, me.attempt>> \in succeeded'
    BY <2>1 DEF Record
  <2>3. me \in WorkerType /\ jobs' = jobs /\ orphans' = orphans
    BY <1>0, <1>6 DEF HandlerReturns
  <2> HIDE DEF me
  <2> QED
    BY <1>c, <2>1, <2>2, <2>3
<1>7. CASE HandlerReturnsDuringRenewal(w)
  <2>1. PICK result : worker' = [worker EXCEPT ![w].handler = result] /\ Record(w, result)
    BY <1>7 DEF HandlerReturnsDuringRenewal
  <2> DEFINE next == [me EXCEPT !.handler = result]
  <2>2. /\ next.pc = "renew" /\ next.handler = result
        /\ next.job = me.job /\ next.attempt = me.attempt
    BY <1>0, <1>7 DEF HandlerReturnsDuringRenewal, WorkerType
  <2>3. /\ succeeded \subseteq succeeded'
        /\ result = "ok" => <<me.job, me.attempt>> \in succeeded'
    BY <2>1 DEF Record
  <2>4. worker' = [worker EXCEPT ![w] = next] /\ UNCHANGED <<jobs, orphans>>
    BY <1>7, <2>1 DEF HandlerReturnsDuringRenewal
  <2> HIDE DEF next
  <2>5. ASSUME NEW v \in Workers PROVE HandledBy(worker'[v], succeeded')
    BY <1>0, <2>2, <2>3, <2>4 DEF HandledInv, HandledBy
  <2> QED
    BY <2>3, <2>4, <2>5 DEF HandledInv, HandledBy, CompletedMeansHandled
<1>8. CASE StartRenewal(w)
  <2> DEFINE next == [me EXCEPT !.pc = "renew", !.started = NOW]
  <2>1. /\ next.pc = "renew" /\ next.handler = me.handler
        /\ next.job = me.job /\ next.attempt = me.attempt
    BY <1>0 DEF WorkerType
  <2>2. Send(w, next) /\ UNCHANGED <<jobs, orphans, succeeded>>
    BY <1>8 DEF StartRenewal
  <2>3. HandledBy(next, succeeded)
    BY <2>1 DEF HandledInv, HandledBy
  <2> QED
    BY <1>a, <2>2, <2>3
<1>9. CASE RenewReply(w)
  <2> DEFINE next == AfterRenewal(w)
  <2>1. next \in WorkerType /\ next.pc = "run"
    BY <1>9, AfterRenewalGood DEF RenewReply, TypeInv
  <2>2. next.job = me.job /\ next.attempt = me.attempt /\ next.handler = me.handler
    BY <1>0 DEF AfterRenewal, WorkerType
  <2>3. me.pc = "renew" /\ UNCHANGED <<jobs, orphans, succeeded>>
    BY <1>9 DEF RenewReply
  <2> HIDE DEF next
  <2>4. CASE Move(w, next)
    <3>1. HandledBy(next, succeeded)
      BY <2>1, <2>2 DEF HandledInv, HandledBy
    <3> QED
      BY <1>a, <2>3, <2>4, <3>1
  <2>5. CASE SendTerminal(w, next, me.handler)
    <3>1. me.handler = "ok" => <<next.job, next.attempt>> \in succeeded
      BY <2>2 DEF HandledInv, HandledBy
    <3> QED
      BY <1>c, <2>1, <2>3, <2>5, <3>1
  <2> QED
    BY <1>9, <2>4, <2>5 DEF RenewReply, next
<1>10. CASE RenewLeaseLost(w)
  BY <1>10, <1>b DEF RenewLeaseLost, At
<1>11. CASE TerminalReply(w)
  BY <1>11, <1>b DEF TerminalReply, At
<1>12. CASE LeaseTimeout(w)
  BY <1>12, <1>b DEF LeaseTimeout, At
<1>13. CASE Restart(w)
  BY <1>13, <1>b DEF Restart, At
<1> QED
  BY <1>1, <1>2, <1>3, <1>4, <1>5, <1>6, <1>7, <1>8, <1>9, <1>10, <1>11, <1>12, <1>13
     DEF WorkerStep

\* PostgreSQL completes a row only on a complete statement that matched it.
LEMMA StatementKeepsHandled ==
    ASSUME TypeInv, HandledInv, NEW s \in StatementType, NEW ts, NEW skipped,
           NEW o \in Outcomes(s, ts, skipped), jobs' = o.table, UNCHANGED succeeded,
           s.op = "complete" => <<s.job, s.attempt>> \in succeeded
    PROVE  CompletedMeansHandled'
<1> SUFFICES ASSUME NEW j \in Jobs, jobs'[j].status = "completed"
             PROVE  <<j, jobs'[j].attempts>> \in succeeded
  BY DEF CompletedMeansHandled
<1>1. RowStep(s, ts, j, jobs[j], jobs'[j]) /\ GoodRow(jobs[j])
  BY OutcomeRows DEF TypeInv, GoodTable
<1>2. \/ jobs[j].status = "completed" /\ jobs[j].attempts = jobs'[j].attempts
      \/ s.op = "complete" /\ s.job = j /\ s.attempt = jobs'[j].attempts
  BY <1>1, RowHistory
<1> QED
  BY <1>2 DEF HandledInv, CompletedMeansHandled

LEMMA HandledInvInductive ==
    /\ Init => HandledInv
    /\ TypeInv /\ HandledInv /\ [Next]_vars => HandledInv'
<1>1. Init => HandledInv
  BY DEF Init, QInit, NoRow, HandledInv, CompletedMeansHandled, HandledBy, At
<1>2. TypeInv /\ HandledInv /\ [Next]_vars => HandledInv'
  <2> SUFFICES ASSUME TypeInv, HandledInv, [Next]_vars PROVE HandledInv'
    OBVIOUS
  <2>a. ASSUME UNCHANGED <<worker, succeeded>>, CompletedMeansHandled',
               orphans' \subseteq orphans
        PROVE  HandledInv'
    BY <2>a DEF HandledInv
  <2>1. CASE UNCHANGED vars
    BY <2>1, <2>a DEF vars, HandledInv, CompletedMeansHandled
  <2>2. CASE Produce
    <3>1. \A j \in Jobs : jobs'[j].status = "completed" => jobs'[j] = jobs[j]
      <4>1. DOMAIN jobs = Jobs
        BY DEF TypeInv, GoodTable
      <4>2. ASSUME NEW k \in Jobs, NEW max, Enqueue(k, max), NEW j \in Jobs,
                   jobs'[j].status = "completed"
            PROVE  jobs'[j] = jobs[j]
        BY <4>1, <4>2 DEF Enqueue, With, NewRow
      <4>3. ASSUME NEW k \in Jobs, OperatorRetry(k), NEW j \in Jobs,
                   jobs'[j].status = "completed"
            PROVE  jobs'[j] = jobs[j]
        <5>1. jobs'[j] = IF j = k THEN RetriedRow(jobs[j], NOW) ELSE jobs[j]
          BY <4>1, <4>3 DEF OperatorRetry, With
        <5>2. jobs[j] \in RowType => RetriedRow(jobs[j], NOW).status = "pending"
          BY DEF RetriedRow, RowType
        <5> QED
          BY <4>3, <5>1, <5>2 DEF TypeInv, GoodTable
      <4> QED
        BY <2>2, <4>2, <4>3 DEF Produce
    <3> QED
      BY <2>2, <2>a, <3>1 DEF Produce, HandledInv, CompletedMeansHandled
  <2>3. CASE Tick
    <3>1. CompletedMeansHandled'
      <4>1. ASSUME NEW j \in Jobs
            PROVE  jobs'[j].status = jobs[j].status /\ jobs'[j].attempts = jobs[j].attempts
        BY <2>3 DEF Tick, AgeRows, AgedRow, RowType, TypeInv, GoodTable
      <4> QED
        BY <2>3, <4>1 DEF Tick, HandledInv, CompletedMeansHandled
    <3>2. ASSUME NEW w \in Workers PROVE HandledBy(worker'[w], succeeded')
      <4>1. worker[w] \in WorkerType /\ worker'[w] = AgedWorker(worker[w])
        BY <2>3 DEF Tick, TypeInv, WorkersGood
      <4>2. /\ worker'[w].pc = worker[w].pc /\ worker'[w].handler = worker[w].handler
            /\ worker'[w].job = worker[w].job /\ worker'[w].attempt = worker[w].attempt
        BY <4>1 DEF AgedWorker, WorkerType
      <4> QED
        BY <2>3, <4>2 DEF Tick, HandledInv, HandledBy
    <3>3. ASSUME NEW s \in orphans', s.op = "complete"
          PROVE  <<s.job, s.attempt>> \in succeeded'
      <4>1. PICK r \in orphans : s = AgedSent(r)
        BY <2>3 DEF Tick
      <4>2. r.op = s.op /\ r.job = s.job /\ r.attempt = s.attempt
        BY <4>1 DEF AgedSent, StatementType, TypeInv, OrphansGood
      <4> QED
        BY <2>3, <3>3, <4>1, <4>2 DEF Tick, HandledInv
    <3> QED
      BY <3>1, <3>2, <3>3 DEF HandledInv
  <2>4. ASSUME NEW s \in orphans, ExecuteOrphan(s) PROVE HandledInv'
    <3>1. PICK ts \in StartInstants(s.sent), skipped \in MaySkip(s) :
             \E o \in Outcomes(s, ts, skipped) : jobs' = o.table
      BY <2>4 DEF ExecuteOrphan
    <3>2. s \in StatementType /\ (s.op = "complete" => <<s.job, s.attempt>> \in succeeded)
      BY DEF TypeInv, OrphansGood, HandledInv
    <3>3. /\ UNCHANGED <<worker, succeeded>> /\ orphans' \subseteq orphans
      BY <2>4 DEF ExecuteOrphan
    <3> QED
      BY <2>a, <3>1, <3>2, <3>3, StatementKeepsHandled
  <2>5. ASSUME NEW w \in Workers, Execute(w) PROVE HandledInv'
    <3> DEFINE s == StatementOf(w)
    <3>1. PICK ts \in StartInstants(s.sent), skipped \in MaySkip(s) :
             \E o \in Outcomes(s, ts, skipped) : jobs' = o.table
      BY <2>5 DEF Execute
    <3>2. s \in StatementType
      BY <2>5, StatementOfTypes DEF Execute
    <3>3. s.op = "complete" => <<s.job, s.attempt>> \in succeeded
      BY DEF StatementOf, HandledInv, HandledBy
    <3>4. /\ UNCHANGED <<worker, succeeded>> /\ orphans' \subseteq orphans
      BY <2>5 DEF Execute
    <3> HIDE DEF s
    <3> QED
      BY <2>a, <3>1, <3>2, <3>3, <3>4, StatementKeepsHandled
  <2>6. ASSUME NEW w \in Workers, Disconnect(w) \/ Crash(w) PROVE HandledInv'
    <3>1. UNCHANGED <<jobs, succeeded>> /\ Abandon(w)
      BY <2>6 DEF Disconnect, Crash
    <3>2. ASSUME NEW s \in orphans', s.op = "complete"
          PROVE  <<s.job, s.attempt>> \in succeeded
      BY <3>1, <3>2 DEF Abandon, StatementOf, HandledInv, HandledBy
    <3>3. ASSUME NEW v \in Workers PROVE HandledBy(worker'[v], succeeded)
      <4>1. worker'[v] = worker[v] \/ worker'[v] = At("down")
        BY <2>6 DEF Disconnect, Crash, Move, TypeInv, WorkersGood
      <4> QED
        BY <4>1 DEF HandledInv, HandledBy, At
    <3> QED
      BY <3>1, <3>2, <3>3 DEF HandledInv, CompletedMeansHandled
  <2> QED
    BY <2>1, <2>2, <2>3, <2>4, <2>5, <2>6, WorkerStepKeepsHandled DEF Next
<1> QED
  BY <1>1, <1>2

\* A row is completed only for an attempt whose handler returned Ok: a late
\* complete, whoever sent it, never completes a later attempt.
THEOREM OnlyHandledCompleted == Spec => []CompletedMeansHandled
<1>1. HandledInv => CompletedMeansHandled
  BY DEF HandledInv
<1> QED
  BY <1>1, TypeInvInductive, HandledInvInductive, PTL DEF Spec

-----------------------------------------------------------------------------
(* The refinement.                                                         *)

SucceededGranted == \A j \in Jobs, a \in Nat : <<j, a>> \in succeeded => Granted(jobs[j], a)

RefInv == LeaseInv /\ HandledInv /\ SucceededGranted

-----------------------------------------------------------------------------
(* LeasedQueue's step of one job, in terms of its row and its workers.     *)

Left(row) == row.max_attempts - row.attempts

Holders(j) == {w \in Workers : Entitled(w, j)}

Done(j) == jobs[j].status = "running" /\ <<j, jobs[j].attempts>> \in succeeded

Moved(j, from, to, n) ==
    /\ Phase(jobs[j]) = from /\ Phase(jobs'[j]) = to
    /\ Left(jobs'[j]) = n
    /\ Holders(j)' = {}
    /\ ~Done(j)'

Same(j) == Phase(jobs'[j]) = Phase(jobs[j]) /\ Left(jobs'[j]) = Left(jobs[j])

JobStep(j) ==
    \/ Same(j) /\ (Done(j)' <=> Done(j)) /\ Holders(j)' \in {Holders(j), {}}
    \/ /\ Same(j) /\ (Done(j)' <=> Done(j)) /\ Phase(jobs[j]) = "running"
       /\ Holders(j) = {} /\ \E w \in Workers : Holders(j)' = {w}
    \/ Same(j) /\ Done(j)' /\ Phase(jobs[j]) = "running" /\ Holders(j)' = Holders(j)
    \/ \E n \in MaxAttempts : ValidMaxAttempts(n) /\ Moved(j, "absent", "waiting", n)
    \/ Left(jobs[j]) > 0 /\ Moved(j, "waiting", "running", Left(jobs[j]) - 1)
    \/ Done(j) /\ Moved(j, "running", "completed", Left(jobs[j]))
    \/ Moved(j, "running", IF Left(jobs[j]) = 0 THEN "dead" ELSE "waiting", Left(jobs[j]))
    \/ Moved(j, "dead", "waiting", RetryGrant)
    \/ \E from \in {"completed", "dead"} : Moved(j, from, "purged", 0)

LEMMA MovedMoves ==
    ASSUME NEW j \in Jobs, NEW from, NEW to, NEW n, Moved(j, from, to, n)
    PROVE  Leases!Moves(j, from, to, n)
BY DEF Moved, Leases!Moves, Holders, Done, Left

LEMMA JobStepsRefine ==
    ASSUME \A j \in Jobs : JobStep(j)
    PROVE  Leases!Next
<1> SUFFICES ASSUME NEW j \in Jobs
             PROVE  \/ Leases!Keep(j) \/ Leases!LetGo(j) \/ Leases!Hold(j) \/ Leases!Handle(j)
                    \/ Leases!Submit(j) \/ Leases!Grant(j) \/ Leases!Finish(j)
                    \/ Leases!Return(j) \/ Leases!Revive(j) \/ Leases!Purge(j)
  BY DEF Leases!Next
<1>0. JobStep(j)
  OBVIOUS
<1>1. CASE Same(j) /\ (Done(j)' <=> Done(j)) /\ Holders(j)' = Holders(j)
  BY <1>1 DEF Leases!Keep, Same, Holders, Done, Left
<1>2. CASE Same(j) /\ (Done(j)' <=> Done(j)) /\ Holders(j)' = {}
  BY <1>2 DEF Leases!LetGo, Same, Holders, Done, Left
<1>3. CASE /\ Same(j) /\ (Done(j)' <=> Done(j)) /\ Phase(jobs[j]) = "running"
           /\ Holders(j) = {} /\ \E w \in Workers : Holders(j)' = {w}
  BY <1>3 DEF Leases!Hold, Same, Holders, Done, Left
<1>4. CASE Same(j) /\ Done(j)' /\ Phase(jobs[j]) = "running" /\ Holders(j)' = Holders(j)
  BY <1>4 DEF Leases!Handle, Same, Holders, Done, Left
<1>5. CASE \E n \in MaxAttempts : ValidMaxAttempts(n) /\ Moved(j, "absent", "waiting", n)
  BY <1>5, MovedMoves DEF Leases!Submit
<1>6. CASE Left(jobs[j]) > 0 /\ Moved(j, "waiting", "running", Left(jobs[j]) - 1)
  BY <1>6 DEF Leases!Grant, Leases!Moves, Moved, Holders, Done, Left
<1>7. CASE Done(j) /\ Moved(j, "running", "completed", Left(jobs[j]))
  BY <1>7 DEF Leases!Finish, Leases!Moves, Moved, Holders, Done, Left
<1>8. CASE Moved(j, "running", IF Left(jobs[j]) = 0 THEN "dead" ELSE "waiting", Left(jobs[j]))
  BY <1>8 DEF Leases!Return, Leases!Moves, Moved, Holders, Done, Left
<1>9. CASE Moved(j, "dead", "waiting", RetryGrant)
  BY <1>9, MovedMoves DEF Leases!Revive
<1>10. CASE \E from \in {"completed", "dead"} : Moved(j, from, "purged", 0)
  BY <1>10, MovedMoves DEF Leases!Purge
<1> QED
  BY <1>0, <1>1, <1>2, <1>3, <1>4, <1>5, <1>6, <1>7, <1>8, <1>9, <1>10 DEF JobStep

-----------------------------------------------------------------------------
(* Statements. *)

\* Who is entitled to act on j owns its row, and is alone.
LEMMA HoldersOwn ==
    ASSUME LeaseInv, NEW j \in Jobs
    PROVE  /\ Holders(j) # {} => jobs[j].status = "running"
           /\ \A v, w \in Holders(j) : v = w
<1>1. OwnershipEstimate /\ NoTwoOwners
  BY LeaseOwns, LeaseExcludes
<1> QED
  BY <1>1 DEF Holders, Entitled, OwnershipEstimate, NoTwoOwners, Owns

LEMMA HoldersOwnNext ==
    ASSUME LeaseInv', NEW j \in Jobs
    PROVE  /\ Holders(j)' # {} => jobs'[j].status = "running"
           /\ \A v, w \in Holders(j)' : v = w
<1>1. (LeaseInv => /\ Holders(j) # {} => jobs[j].status = "running"
                   /\ \A v, w \in Holders(j) : v = w)'
  BY HoldersOwn, PTL
<1> QED
  BY <1>1

LEMMA StatementRefines ==
    ASSUME RefInv, LeaseInv', NEW s \in StatementType, NEW ts, NEW j \in Jobs,
           RowStep(s, ts, j, jobs[j], jobs'[j]), UNCHANGED succeeded,
           s.op = "complete" => <<s.job, s.attempt>> \in succeeded,
           Holders(j)' \subseteq Holders(j)
    PROVE  JobStep(j)
<1> DEFINE row == jobs[j]
           next == jobs'[j]
<1>0. GoodRow(row) /\ row \in RowType
  BY DEF RefInv, LeaseInv, TypeInv, GoodTable, GoodRow
<1>a. Holders(j)' \in {Holders(j), {}}
  BY HoldersOwn DEF RefInv
<1>b. next.status # "running" => Holders(j)' = {} /\ ~Done(j)'
  BY HoldersOwnNext DEF Done
<1>1. CASE next = row
  BY <1>1, <1>a DEF JobStep, Same, Done
<1>2. CASE row.status = "running" /\ next = Reaped(row, ts)
  <2>1. /\ next.status = IF Left(row) = 0 THEN "dead" ELSE "pending"
        /\ Left(next) = Left(row)
    BY <1>0, <1>2 DEF Reaped, AfterFailure, Left, RowType, GoodRow, Constrained, Exists
  <2>2. Moved(j, "running", IF Left(row) = 0 THEN "dead" ELSE "waiting", Left(row))
    BY <1>2, <1>b, <2>1 DEF Moved, Phase
  <2> QED
    BY <2>2 DEF JobStep
<1>3. CASE row.status = "pending" /\ next = ClaimedRow(row, s.id, ts)
  <2>1. /\ row.attempts \in Nat /\ next.status = "running" /\ next.attempts = row.attempts + 1
        /\ Left(row) > 0 /\ Left(next) = Left(row) - 1
    BY <1>0, <1>3 DEF ClaimedRow, Left, RowType, GoodRow, WithinBudget
  <2>2. Holders(j)' = {}
    BY <1>3, HoldersOwn DEF RefInv
  <2>3. <<j, row.attempts + 1>> \notin succeeded
    BY <1>3, <2>1 DEF RefInv, SucceededGranted, Granted
  <2>4. ~Done(j)'
    BY <2>1, <2>3 DEF Done
  <2>5. Moved(j, "waiting", "running", Left(row) - 1)
    BY <1>3, <2>1, <2>2, <2>4 DEF Moved, Phase
  <2> QED
    BY <2>1, <2>5 DEF JobStep
<1>4. CASE row.status = "running" /\ next = RenewedRow(row, ts)
  <2>1. next.status = row.status /\ next.attempts = row.attempts /\ Left(next) = Left(row)
    BY <1>0, <1>4 DEF RenewedRow, RowType, Left
  <2> QED
    BY <1>a, <2>1 DEF JobStep, Same, Done, Phase
<1>5. CASE s.op = "complete" /\ s.job = j /\ Matches(row, s.id, s.attempt)
           /\ next = CompletedRow(row, ts)
  <2>1. next.status = "completed" /\ Left(next) = Left(row)
    BY <1>0, <1>5 DEF CompletedRow, RowType, Left
  <2>2. Done(j)
    BY <1>5 DEF Done, Matches
  <2>3. Moved(j, "running", "completed", Left(row))
    BY <1>5, <1>b, <2>1 DEF Moved, Phase, Matches
  <2> QED
    BY <2>2, <2>3 DEF JobStep
<1>6. CASE row.status = "running" /\ next = FailedRow(row, RetryDelay(s.attempt), ts)
  <2>1. /\ next.status = IF Left(row) = 0 THEN "dead" ELSE "pending"
        /\ Left(next) = Left(row)
    BY <1>0, <1>6 DEF FailedRow, AfterFailure, Left, RowType, GoodRow, Constrained, Exists
  <2>2. Moved(j, "running", IF Left(row) = 0 THEN "dead" ELSE "waiting", Left(row))
    BY <1>6, <1>b, <2>1 DEF Moved, Phase
  <2> QED
    BY <2>2 DEF JobStep
<1>7. CASE row.status \in {"completed", "dead"} /\ next = NoRow("purged")
  <2>1. next.status = "purged" /\ Left(next) = 0
    BY <1>7 DEF NoRow, Left
  <2>2. Moved(j, row.status, "purged", 0)
    BY <1>7, <1>b, <2>1 DEF Moved, Phase
  <2> QED
    BY <1>7, <2>2 DEF JobStep
<1> QED
  BY <1>1, <1>2, <1>3, <1>4, <1>5, <1>6, <1>7 DEF RowStep, Matches

LEMMA ExecuteRefines ==
    ASSUME RefInv, LeaseInv', NEW w \in Workers, Execute(w), NEW j \in Jobs
    PROVE  JobStep(j)
<1> DEFINE s == StatementOf(w)
<1>0. TypeInv /\ GoodTable(jobs) /\ DOMAIN call = Workers
  BY DEF RefInv, LeaseInv, TypeInv, WorkersGood
<1>1. s \in StatementType /\ StatementShape(s)
  BY <1>0, StatementOfTypes DEF Execute
<1>2. s.op = "complete" => <<s.job, s.attempt>> \in succeeded
  BY DEF StatementOf, RefInv, HandledInv, HandledBy
<1>3. PICK ts \in StartInstants(s.sent), skipped \in MaySkip(s) :
         \E o \in Outcomes(s, ts, skipped) :
            jobs' = o.table /\ call' = [call EXCEPT ![w] = o.reply]
  BY DEF Execute
<1> HIDE DEF s
<1>4. PICK o \in Outcomes(s, ts, skipped) :
         jobs' = o.table /\ call' = [call EXCEPT ![w] = o.reply]
  BY <1>3
<1>5. RowStep(s, ts, j, jobs[j], jobs'[j])
  BY <1>0, <1>1, <1>4, OutcomeRows
<1>6. o.reply.kind # "sent"
  BY <1>0, <1>1, StartInstant, OutcomeTypes
<1>7. UNCHANGED <<worker, succeeded>>
  BY DEF Execute
<1>8. Holders(j)' \subseteq Holders(j)
  BY <1>0, <1>4, <1>6, <1>7 DEF Holders, Entitled, ActsAsOwner
<1> QED
  BY <1>1, <1>2, <1>5, <1>7, <1>8, StatementRefines

LEMMA ExecuteOrphanRefines ==
    ASSUME RefInv, LeaseInv', NEW s \in orphans, ExecuteOrphan(s), NEW j \in Jobs
    PROVE  JobStep(j)
<1>1. /\ GoodTable(jobs) /\ s \in StatementType
      /\ s.op = "complete" => <<s.job, s.attempt>> \in succeeded
  BY DEF RefInv, LeaseInv, TypeInv, OrphansGood, HandledInv
<1>2. PICK ts \in StartInstants(s.sent), skipped \in MaySkip(s) :
         \E o \in Outcomes(s, ts, skipped) : jobs' = o.table
  BY DEF ExecuteOrphan
<1>3. RowStep(s, ts, j, jobs[j], jobs'[j])
  BY <1>1, <1>2, OutcomeRows
<1>4. UNCHANGED <<worker, call, succeeded>>
  BY DEF ExecuteOrphan
<1>5. Holders(j)' = Holders(j)
  BY <1>4 DEF Holders, Entitled, ActsAsOwner
<1> QED
  BY <1>1, <1>3, <1>4, <1>5, StatementRefines

-----------------------------------------------------------------------------
(* Producers, the operator and time. *)

LEMMA ProduceRefines ==
    ASSUME RefInv, LeaseInv', Produce, NEW j \in Jobs
    PROVE  JobStep(j)
<1>0. DOMAIN jobs = Jobs /\ jobs[j] \in RowType
  BY DEF RefInv, LeaseInv, TypeInv, GoodTable
<1>1. UNCHANGED <<worker, call, succeeded>>
  BY DEF Produce
<1>2. Holders(j)' = Holders(j)
  BY <1>1 DEF Holders, Entitled, ActsAsOwner
<1>3. CASE jobs'[j] = jobs[j]
  BY <1>1, <1>2, <1>3 DEF JobStep, Same, Done
<1>4. ASSUME NEW max \in MaxAttempts, Enqueue(j, max) PROVE JobStep(j)
  <2>1. jobs[j].status = "absent" /\ ValidMaxAttempts(max) /\ jobs'[j] = NewRow(max, NOW)
    BY <1>0, <1>4 DEF Enqueue, With
  <2>2. jobs'[j].status = "pending" /\ Left(jobs'[j]) = max
    BY <2>1, QueueConstants DEF NewRow, Left
  <2>3. Holders(j)' = {}
    BY <2>2, HoldersOwnNext
  <2>4. Moved(j, "absent", "waiting", max)
    BY <2>1, <2>2, <2>3 DEF Moved, Phase, Done
  <2> QED
    BY <2>1, <2>4 DEF JobStep
<1>5. ASSUME OperatorRetry(j) PROVE JobStep(j)
  <2>1. jobs[j].status = "dead" /\ jobs'[j] = RetriedRow(jobs[j], NOW)
    BY <1>0, <1>5 DEF OperatorRetry, With
  <2>2. jobs'[j].status = "pending" /\ Left(jobs'[j]) = RetryGrant
    BY <1>0, <2>1, QueueConstants DEF RetriedRow, RowType, Left
  <2>3. Holders(j)' = {}
    BY <2>2, HoldersOwnNext
  <2>4. Moved(j, "dead", "waiting", RetryGrant)
    BY <2>1, <2>2, <2>3 DEF Moved, Phase, Done
  <2> QED
    BY <2>4 DEF JobStep
<1>6. \/ jobs'[j] = jobs[j]
      \/ \E max \in MaxAttempts : Enqueue(j, max)
      \/ OperatorRetry(j)
  BY <1>0 DEF Produce, Enqueue, OperatorRetry, With
<1> QED
  BY <1>3, <1>4, <1>5, <1>6

\* Entitlements run out as time passes.
LEMMA TickRefines ==
    ASSUME RefInv, Tick, NEW j \in Jobs
    PROVE  JobStep(j)
<1>1. /\ jobs'[j].status = jobs[j].status /\ jobs'[j].attempts = jobs[j].attempts
      /\ jobs'[j].max_attempts = jobs[j].max_attempts
  BY DEF Tick, AgeRows, AgedRow, RowType, RefInv, LeaseInv, TypeInv, GoodTable
<1>2. UNCHANGED succeeded
  BY DEF Tick
<1>3. ASSUME NEW w \in Workers, Entitled(w, j)' PROVE Entitled(w, j)
  <2>1. /\ worker[w] \in WorkerType /\ LocalShape(worker[w]) /\ call[w] \in CallType
        /\ worker'[w] = AgedWorker(worker[w]) /\ call'[w] = AgedCall(call[w])
    BY DEF Tick, RefInv, LeaseInv, TypeInv, WorkersGood, WorkerShape
  <2>2. /\ worker'[w].pc = worker[w].pc /\ worker'[w].job = worker[w].job
        /\ worker'[w].deadline = Aged(worker[w].deadline)
    BY <2>1 DEF AgedWorker, WorkerType
  <2>3. call'[w].kind = call[w].kind
    BY <2>1 DEF AgedCall, AgedSent, CallType
  <2>4. ActsAsOwner(w)
    BY <1>3, <2>2, <2>3 DEF Entitled, ActsAsOwner
  <2>5. worker[w].deadline \in Instant /\ worker[w].deadline # Null
    BY <2>1, <2>4 DEF ActsAsOwner, LocalShape, Executing, WorkerType
  <2>6. Aged(worker[w].deadline) \in Int /\ Aged(worker[w].deadline) <= worker[w].deadline
    BY <2>5, HorizonLongEnough DEF Aged, Instant
  <2>7. NOW < worker[w].deadline - MaxStall
    BY <1>3, <2>2, <2>5, <2>6, QueueConstants DEF Entitled, NOW, Instant
  <2> QED
    BY <1>3, <2>2, <2>4, <2>7 DEF Entitled
<1>4. Holders(j)' \subseteq Holders(j)
  BY <1>3 DEF Holders
<1>5. Holders(j)' \in {Holders(j), {}}
  BY <1>4, HoldersOwn DEF RefInv
<1> QED
  BY <1>1, <1>2, <1>5 DEF JobStep, Same, Done, Phase, Left

-----------------------------------------------------------------------------
(* Workers. *)

\* A step of one worker that leaves the table alone: as j has at most one
\* holder before and after, its holder stays, leaves, or is that worker.
LEMMA WorkerAloneRefines ==
    ASSUME RefInv, LeaseInv', NEW w \in Workers, NEW j \in Jobs, UNCHANGED <<jobs, succeeded>>,
           \A v \in Workers \ {w} : worker'[v] = worker[v] /\ call'[v] = call[v]
    PROVE  JobStep(j)
<1>1. \A v \in Workers \ {w} : v \in Holders(j)' <=> v \in Holders(j)
  BY DEF Holders, Entitled, ActsAsOwner
<1>2. Holders(j) \subseteq Workers /\ Holders(j)' \subseteq Workers
  BY DEF Holders
<1>3. \/ Holders(j)' \in {Holders(j), {}}
      \/ Holders(j) = {} /\ Holders(j)' = {w} /\ jobs[j].status = "running"
  <2>1. \A u, v \in Holders(j) : u = v
    BY HoldersOwn DEF RefInv
  <2>2. /\ Holders(j)' # {} => jobs'[j].status = "running"
        /\ \A u, v \in Holders(j)' : u = v
    BY HoldersOwnNext
  <2> HIDE DEF Holders
  <2> QED
    BY <1>1, <1>2, <2>1, <2>2
<1>4. Same(j) /\ (Done(j)' <=> Done(j))
  BY DEF Same, Done
<1>5. jobs[j].status = "running" => Phase(jobs[j]) = "running"
  BY DEF Phase
<1> QED
  BY <1>3, <1>4, <1>5 DEF JobStep

\* A handler's result changes nobody's entitlement.
LEMMA ResultRefines ==
    ASSUME NEW j \in Jobs, UNCHANGED jobs, succeeded \subseteq succeeded',
           Holders(j)' = Holders(j)
    PROVE  JobStep(j)
<1>1. Same(j)
  BY DEF Same
<1>2. CASE Done(j)' <=> Done(j)
  BY <1>1, <1>2 DEF JobStep
<1>3. CASE ~(Done(j)' <=> Done(j))
  <2>1. Done(j)' /\ Phase(jobs[j]) = "running"
    BY <1>3 DEF Done, Phase
  <2> QED
    BY <1>1, <2>1 DEF JobStep
<1> QED
  BY <1>2, <1>3

LEMMA HandlerReturnsRefines ==
    ASSUME RefInv, NEW w \in Workers, HandlerReturns(w), NEW j \in Jobs
    PROVE  JobStep(j)
<1> DEFINE me == worker[w]
<1>1. /\ me \in WorkerType /\ me.pc = "run" /\ me.deadline \in Int
      /\ DOMAIN worker = Workers /\ DOMAIN call = Workers
  BY DEF HandlerReturns, RefInv, LeaseInv, TypeInv, WorkersGood, WorkerShape, LocalShape,
         Executing, WorkerType, Instant
<1>2. jobs' = jobs /\ succeeded \subseteq succeeded'
  BY DEF HandlerReturns, Record
<1>3. PICK result : SendTerminal(w, me, result)
  BY DEF HandlerReturns
<1>4. CASE NOW < me.deadline
  <2>1. /\ worker'[w].pc \in {"complete", "fail"} /\ worker'[w].job = me.job
        /\ worker'[w].deadline = me.deadline /\ call'[w].kind = "sent"
        /\ \A v \in Workers \ {w} : worker'[v] = worker[v] /\ call'[v] = call[v]
    <3> DEFINE next == [me EXCEPT !.pc = IF result = "ok" THEN "complete" ELSE "fail",
                                  !.next_renewal = Null, !.handler = "none"]
    <3>1. Send(w, next)
      BY <1>3, <1>4 DEF SendTerminal
    <3>2. next.pc \in {"complete", "fail"} /\ next.job = me.job /\ next.deadline = me.deadline
      BY <1>1 DEF WorkerType
    <3>3. Reply("sent").kind = "sent"
      BY DEF Reply
    <3> HIDE DEF next
    <3> QED
      BY <1>1, <3>1, <3>2, <3>3 DEF Send
  <2>2. Holders(j)' = Holders(j)
    BY <1>1, <2>1 DEF Holders, Entitled, ActsAsOwner
  <2> QED
    BY <1>2, <2>2, ResultRefines
<1>5. CASE ~(NOW < me.deadline)
  <2>1. /\ worker'[w].pc = "loop"
        /\ \A v \in Workers \ {w} : worker'[v] = worker[v] /\ call'[v] = call[v]
    BY <1>1, <1>3, <1>5 DEF SendTerminal, Move, At
  <2>2. ~Entitled(w, j)
    BY <1>1, <1>5, QueueConstants DEF Entitled, NOW
  <2>3. Holders(j)' = Holders(j)
    BY <2>1, <2>2 DEF Holders, Entitled, ActsAsOwner
  <2> QED
    BY <1>2, <2>3, ResultRefines
<1> QED
  BY <1>4, <1>5

LEMMA HandlerReturnsDuringRenewalRefines ==
    ASSUME RefInv, NEW w \in Workers, HandlerReturnsDuringRenewal(w), NEW j \in Jobs
    PROVE  JobStep(j)
<1>1. /\ jobs' = jobs /\ call' = call /\ succeeded \subseteq succeeded'
      /\ \A v \in Workers :
            /\ worker'[v].pc = worker[v].pc /\ worker'[v].job = worker[v].job
            /\ worker'[v].deadline = worker[v].deadline
  BY DEF HandlerReturnsDuringRenewal, Record, RefInv, LeaseInv, TypeInv, WorkersGood, WorkerType
<1>2. Holders(j)' = Holders(j)
  BY <1>1 DEF Holders, Entitled, ActsAsOwner
<1> QED
  BY <1>1, <1>2, ResultRefines

\* Every other step of a worker, and the faults.
LEMMA WorkerStepRefines ==
    ASSUME RefInv, LeaseInv', NEW w \in Workers, NEW j \in Jobs,
           WorkerStep(w) \/ Disconnect(w) \/ Crash(w)
    PROVE  JobStep(j)
<1>0. DOMAIN worker = Workers /\ DOMAIN call = Workers
  BY DEF RefInv, LeaseInv, TypeInv, WorkersGood
<1>1. CASE HandlerReturns(w)
  BY <1>1, HandlerReturnsRefines
<1>2. CASE HandlerReturnsDuringRenewal(w)
  BY <1>2, HandlerReturnsDuringRenewalRefines
<1>3. CASE Disconnect(w)
  <2>1. /\ UNCHANGED <<jobs, succeeded, worker>>
        /\ \A v \in Workers \ {w} : call'[v] = call[v]
    BY <1>0, <1>3 DEF Disconnect
  <2> QED
    BY <2>1, WorkerAloneRefines
<1>4. ASSUME UNCHANGED <<jobs, succeeded>>, NEW me, Move(w, me) \/ Send(w, me)
      PROVE  JobStep(j)
  <2>1. \A v \in Workers \ {w} : worker'[v] = worker[v] /\ call'[v] = call[v]
    BY <1>0, <1>4 DEF Move, Send
  <2> QED
    BY <1>4, <2>1, WorkerAloneRefines
<1>5. CASE RenewReply(w)
  <2>1. UNCHANGED <<jobs, succeeded>>
    BY <1>5 DEF RenewReply
  <2>2. \E me : Move(w, me) \/ Send(w, me)
    BY <1>5 DEF RenewReply, SendTerminal
  <2> QED
    BY <1>4, <2>1, <2>2
<1>6. CASE StartMaintenance(w) \/ StartClaim(w) \/ StartRenewal(w) \/ PurgeReply(w) \/ ReapReply(w)
  BY <1>4, <1>6 DEF StartMaintenance, StartClaim, StartRenewal, PurgeReply, ReapReply
<1>7. CASE ClaimReply(w) \/ RenewLeaseLost(w) \/ TerminalReply(w) \/ Restart(w)
  BY <1>4, <1>7 DEF ClaimReply, RenewLeaseLost, TerminalReply, Restart
<1>8. CASE LeaseTimeout(w) \/ Crash(w)
  BY <1>4, <1>8 DEF LeaseTimeout, Crash
<1> QED
  BY <1>1, <1>2, <1>3, <1>5, <1>6, <1>7, <1>8 DEF WorkerStep

-----------------------------------------------------------------------------
(* A handler succeeds only in an attempt that was granted. *)

LEMMA SucceededStep ==
    ASSUME LeaseInv, SucceededGranted, [Next]_vars
    PROVE  SucceededGranted'
<1>0. GoodTable(jobs) /\ TypeInv
  BY DEF LeaseInv, TypeInv
\* A row, whatever is done to it, forgets no attempt.
<1>1. ASSUME NEW j \in Jobs, NEW a \in Nat, Granted(jobs[j], a)
      PROVE  Granted(jobs'[j], a)
  <2>1. GoodRow(jobs[j]) /\ jobs[j] \in RowType /\ DOMAIN jobs = Jobs
    BY <1>0 DEF GoodTable
  <2>2. CASE jobs'[j] = jobs[j]
    BY <1>1, <2>2
  <2>3. CASE Produce
    <3>1. ASSUME NEW max, Enqueue(j, max) PROVE Granted(jobs'[j], a)
      BY <1>1, <2>1, <3>1 DEF Enqueue, With, NewRow, Granted, GoodRow, Exists
    <3>2. ASSUME OperatorRetry(j) PROVE Granted(jobs'[j], a)
      <4>1. jobs'[j] = RetriedRow(jobs[j], NOW) /\ jobs[j].status = "dead"
        BY <2>1, <3>2 DEF OperatorRetry, With
      <4>2. jobs'[j].attempts = jobs[j].attempts
        BY <2>1, <4>1 DEF RetriedRow, RowType
      <4> QED
        BY <1>1, <4>1, <4>2 DEF Granted
    <3>3. \/ jobs'[j] = jobs[j]
          \/ \E max \in MaxAttempts : Enqueue(j, max)
          \/ OperatorRetry(j)
      BY <2>1, <2>3 DEF Produce, Enqueue, OperatorRetry, With
    <3> QED
      BY <2>2, <3>1, <3>2, <3>3
  <2>4. CASE Tick
    <3>1. jobs'[j].status = jobs[j].status /\ jobs'[j].attempts = jobs[j].attempts
      BY <2>1, <2>4 DEF Tick, AgeRows, AgedRow, RowType
    <3> QED
      BY <1>1, <3>1 DEF Granted
  <2>5. ASSUME NEW s \in StatementType, NEW ts, NEW skipped, NEW o \in Outcomes(s, ts, skipped),
               jobs' = o.table
        PROVE  Granted(jobs'[j], a)
    <3>1. RowStep(s, ts, j, jobs[j], jobs'[j])
      BY <1>0, <2>5, OutcomeRows
    <3> QED
      BY <1>1, <2>1, <3>1, RowHistory
  <2>6. CASE \E s \in orphans : ExecuteOrphan(s)
    BY <1>0, <2>5, <2>6 DEF ExecuteOrphan, TypeInv, OrphansGood
  <2>7. ASSUME NEW w \in Workers, Execute(w) PROVE Granted(jobs'[j], a)
    <3>1. StatementOf(w) \in StatementType
      BY <1>0, <2>7, StatementOfTypes DEF Execute
    <3> QED
      BY <2>5, <2>7, <3>1 DEF Execute
  <2>8. CASE UNCHANGED jobs
    BY <2>2, <2>8
  <2>9. ASSUME NEW w \in Workers, WorkerStep(w) \/ Disconnect(w) \/ Crash(w)
        PROVE  UNCHANGED jobs
    BY <2>9 DEF WorkerStep, StartMaintenance, PurgeReply, StartClaim, ReapReply, ClaimReply,
                HandlerReturns, HandlerReturnsDuringRenewal, StartRenewal, RenewReply,
                RenewLeaseLost, TerminalReply, LeaseTimeout, Restart, Disconnect, Crash
  <2> QED
    BY <2>3, <2>4, <2>6, <2>7, <2>8, <2>9 DEF Next, vars
\* The only attempt a step adds is one its worker holds.
<1>2. \/ succeeded' = succeeded
      \/ \E w \in Workers :
            /\ worker[w].pc \in Executing
            /\ succeeded' = succeeded \cup {<<worker[w].job, worker[w].attempt>>}
  <2>1. ASSUME NEW w \in Workers, HandlerReturns(w) \/ HandlerReturnsDuringRenewal(w)
        PROVE  \/ succeeded' = succeeded
               \/ /\ worker[w].pc \in Executing
                  /\ succeeded' = succeeded \cup {<<worker[w].job, worker[w].attempt>>}
    BY <2>1 DEF HandlerReturns, HandlerReturnsDuringRenewal, Record, Executing
  <2>2. ASSUME NEW w \in Workers, WorkerStep(w), ~HandlerReturns(w),
               ~HandlerReturnsDuringRenewal(w)
        PROVE  succeeded' = succeeded
    BY <2>2 DEF WorkerStep, StartMaintenance, PurgeReply, StartClaim, ReapReply, ClaimReply,
                StartRenewal, RenewReply, RenewLeaseLost, TerminalReply, LeaseTimeout, Restart
  <2>3. ASSUME NEW w \in Workers, Execute(w) \/ Disconnect(w) \/ Crash(w)
        PROVE  succeeded' = succeeded
    BY <2>3 DEF Execute, Disconnect, Crash
  <2>4. CASE Produce \/ Tick \/ (\E s \in orphans : ExecuteOrphan(s)) \/ UNCHANGED vars
    BY <2>4 DEF Produce, Tick, ExecuteOrphan, vars
  <2> QED
    BY <2>1, <2>2, <2>3, <2>4 DEF Next
<1>3. ASSUME NEW w \in Workers, worker[w].pc \in Executing
      PROVE  Granted(jobs[worker[w].job], worker[w].attempt)
  <2>1. worker[w].job \in Jobs /\ worker[w].attempt \in Nat
    BY <1>0, <1>3 DEF TypeInv, WorkersGood, WorkerShape, LocalShape, WorkerType
  <2> QED
    BY <1>3, <2>1 DEF LeaseInv, TokensKnown, Holds, HoldsAt
<1>4. ASSUME NEW j \in Jobs, NEW a \in Nat, <<j, a>> \in succeeded'
      PROVE  Granted(jobs[j], a)
  BY <1>2, <1>3, <1>4 DEF SucceededGranted
<1> QED
  BY <1>1, <1>4 DEF SucceededGranted

LEMMA RefInvInductive ==
    /\ Init => RefInv
    /\ RefInv /\ [Next]_vars => RefInv'
<1>1. Init => SucceededGranted
  BY DEF Init, SucceededGranted
<1>2. LeaseInv => TypeInv
  BY DEF LeaseInv
<1> QED
  BY <1>1, <1>2, LeaseInvInductive, HandledInvInductive, SucceededStep DEF RefInv

-----------------------------------------------------------------------------
(* Theorem. *)

LEMMA StepRefines ==
    ASSUME RefInv, RefInv', [Next]_vars
    PROVE  Leases!Next
<1> SUFFICES ASSUME NEW j \in Jobs PROVE JobStep(j)
  BY JobStepsRefine
<1>0. LeaseInv'
  BY DEF RefInv
<1>1. CASE UNCHANGED vars
  <2>1. Holders(j)' = Holders(j)
    BY <1>1 DEF vars, Holders, Entitled, ActsAsOwner
  <2> QED
    BY <1>1, <2>1, ResultRefines DEF vars
<1>2. CASE Next
  BY <1>0, <1>2, ProduceRefines, TickRefines, ExecuteOrphanRefines, ExecuteRefines,
     WorkerStepRefines DEF Next
<1> QED
  BY <1>1, <1>2

LEMMA InitRefines == Init => Leases!Init
<1> SUFFICES ASSUME Init PROVE Leases!Init
  OBVIOUS
<1>1. \A j \in Jobs : jobs[j] = NoRow("absent")
  BY DEF Init, QInit
<1>2. \A j \in Jobs : Phase(jobs[j]) = "absent" /\ jobs[j].status = "absent"
                      /\ jobs[j].max_attempts - jobs[j].attempts = 0
  BY <1>1 DEF NoRow, Phase
<1>3. \A w \in Workers, j \in Jobs : ~Entitled(w, j)
  BY DEF Init, At, Entitled, ActsAsOwner
<1> QED
  BY <1>2, <1>3 DEF Leases!Init

\* The table, its statements and the workers implement the queue that
\* LeasedQueue.tla promises: no crash, lost reply, late statement, expired
\* lease or shared worker_id lets a job that a worker holds move but by that
\* worker, a completion stand without its handler, or a budget be exceeded.
THEOREM Refinement == Spec => ImplementsLeasedQueue
<1>1. RefInv /\ RefInv' /\ [Next]_vars => [Leases!Next]_(Leases!lvars)
  BY StepRefines
<1> QED
  BY <1>1, InitRefines, RefInvInductive, PTL DEF Spec, ImplementsLeasedQueue, Leases!Spec
=============================================================================
