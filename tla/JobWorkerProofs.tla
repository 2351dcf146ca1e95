-------------------------- MODULE JobWorkerProofs --------------------------
(***************************************************************************)
(* The table background_jobs and the workers' local state, for every value *)
(* of the constants.                                                       *)
(*                                                                         *)
(* The table, whatever its clients do: every fact is about one row, so the *)
(* argument is one lemma per statement about the row it writes (GoodRow is *)
(* kept), then one about tables.                                           *)
(*                                                                         *)
(* The workers: TypeOK is not inductive.  A reply becomes a job and a      *)
(* deadline, and both are used in arithmetic and in statements later, so   *)
(* TypeInv also says at which pc they are there (LocalShape, CallShape,    *)
(* StatementShape), and that the table is good.                            *)
(***************************************************************************)
EXTENDS JobWorker, FiniteSetTheorems, TLAPS

\* The inductive invariant, for one row.
GoodRow(row) ==
    /\ row \in RowType
    /\ Constrained(row)
    /\ WithinBudget(row)
    /\ ~Exists(row) => row.attempts = 0

GoodTable(table) ==
    /\ table \in [Jobs -> RowType]
    /\ \A j \in Jobs : GoodRow(table[j])

\* The inductive invariant.
QInv == GoodTable(jobs)

-----------------------------------------------------------------------------
(* Lemmas on instants and rows. *)

\* 1_u32 << exponent is a positive number.
LEMMA PowerOfTwo == ASSUME NEW n \in 0..31 PROVE 2^n \in Int /\ 2^n > 0
<1>1. /\ 2^0 > 0 /\ 2^1 > 0 /\ 2^2 > 0 /\ 2^3 > 0 /\ 2^4 > 0 /\ 2^5 > 0
      /\ 2^6 > 0 /\ 2^7 > 0 /\ 2^8 > 0 /\ 2^9 > 0 /\ 2^10 > 0 /\ 2^11 > 0
      /\ 2^12 > 0 /\ 2^13 > 0 /\ 2^14 > 0 /\ 2^15 > 0 /\ 2^16 > 0 /\ 2^17 > 0
      /\ 2^18 > 0 /\ 2^19 > 0 /\ 2^20 > 0 /\ 2^21 > 0 /\ 2^22 > 0 /\ 2^23 > 0
      /\ 2^24 > 0 /\ 2^25 > 0 /\ 2^26 > 0 /\ 2^27 > 0 /\ 2^28 > 0 /\ 2^29 > 0
      /\ 2^30 > 0 /\ 2^31 > 0
  BY SMT
<1>2. \/ n = 0 \/ n = 1 \/ n = 2 \/ n = 3 \/ n = 4 \/ n = 5
      \/ n = 6 \/ n = 7 \/ n = 8 \/ n = 9 \/ n = 10 \/ n = 11
      \/ n = 12 \/ n = 13 \/ n = 14 \/ n = 15 \/ n = 16 \/ n = 17
      \/ n = 18 \/ n = 19 \/ n = 20 \/ n = 21 \/ n = 22 \/ n = 23
      \/ n = 24 \/ n = 25 \/ n = 26 \/ n = 27 \/ n = 28 \/ n = 29
      \/ n = 30 \/ n = 31
  BY SMT
<1>3. 2^n > 0
  BY <1>1, <1>2, Zenon
<1>4. 2^n \in Int
  BY SMT
<1> QED
  BY <1>3, <1>4

\* retry_delay is a duration of at most retry_max.
LEMMA RetryDelayBounded ==
    ASSUME NEW a \in Nat, a > 0
    PROVE  RetryDelay(a) \in Nat /\ RetryDelay(a) <= RetryMax
<1> DEFINE e == IF a - 1 < 31 THEN a - 1 ELSE 31
<1>1. e \in 0..31
  BY SMT
<1>2. 2^e \in Int /\ 2^e > 0
  BY <1>1, PowerOfTwo
<1> HIDE DEF e
<1>3. RetryBase * 2^e \in Nat
  BY <1>2, QueueConstants, SMT
<1>4. RetryDelay(a) = IF RetryBase * 2^e < RetryMax THEN RetryBase * 2^e ELSE RetryMax
  BY DEF RetryDelay, e
<1> QED
  BY <1>3, <1>4, QueueConstants, SMT

\* Ageing keeps instants instants, and NULL NULL.
LEMMA AgedInstant ==
    /\ \A t \in Instant : Aged(t) \in Instant /\ Aged(t) <= t /\ Aged(t) >= t - 1
    /\ Aged(Null) = Null
BY QueueConstants, HorizonLongEnough DEF Aged, Instant

\* The instants a statement's NOW() may have.
LEMMA StartInstant ==
    ASSUME NEW sent, NEW ts \in StartInstants(sent)
    PROVE  ts \in Instant /\ ts <= NOW /\ ts >= NOW - MaxStall
BY QueueConstants, HorizonLongEnough DEF StartInstants, Instant, NOW

LEMMA NewRowGood ==
    ASSUME NEW max \in MaxAttempts, ValidMaxAttempts(max), NEW ts \in Instant
    PROVE  GoodRow(NewRow(max, ts))
BY QueueConstants DEF GoodRow, NewRow, RowType, Statuses, Constrained, Exists,
   WithinBudget, Instant, ValidMaxAttempts

LEMMA NoRowGood ==
    ASSUME NEW status \in {"absent", "purged"}
    PROVE  GoodRow(NoRow(status))
BY QueueConstants DEF GoodRow, NoRow, RowType, Statuses, Constrained, Exists, WithinBudget

LEMMA ReapedGood ==
    ASSUME NEW row, GoodRow(row), row.status = "running", NEW ts \in Instant
    PROVE  GoodRow(Reaped(row, ts))
<1> USE QueueConstants DEF GoodRow, Reaped, AfterFailure
<1>1. Reaped(row, ts) \in RowType
  BY DEF RowType, Statuses, Instant, WithinBudget
<1>2. Constrained(Reaped(row, ts))
  BY DEF Constrained, Exists, WithinBudget, RowType, Instant
<1>3. WithinBudget(Reaped(row, ts))
  BY DEF Constrained, Exists, WithinBudget, RowType, Instant
<1> QED
  BY <1>1, <1>2, <1>3 DEF Exists, RowType, Statuses

LEMMA ClaimedGood ==
    ASSUME NEW row, GoodRow(row), row.status = "pending", NEW ts \in Instant,
           NEW id \in WorkerIds
    PROVE  GoodRow(ClaimedRow(row, id, ts))
<1> USE QueueConstants DEF GoodRow, ClaimedRow
<1>1. ClaimedRow(row, id, ts) \in RowType
  <2> DEFINE n == row.attempts + 1
  <2>1. n \in Nat
    BY DEF RowType
  <2>2. ClaimedRow(row, id, ts) =
           [row EXCEPT !.status = "running", !.attempts = n,
                       !.locked_at = ts, !.locked_by = id, !.updated_at = ts]
    OBVIOUS
  <2> HIDE DEF n
  <2> QED
    BY <2>1, <2>2 DEF RowType, Statuses
<1>2. Constrained(ClaimedRow(row, id, ts))
  BY DEF Constrained, Exists, WithinBudget, RowType, Instant
<1>3. WithinBudget(ClaimedRow(row, id, ts))
  BY DEF Constrained, Exists, WithinBudget, RowType, Instant
<1> QED
  BY <1>1, <1>2, <1>3 DEF Exists, RowType, Statuses

LEMMA CompletedGood ==
    ASSUME NEW row, GoodRow(row), row.status = "running", NEW ts \in Instant
    PROVE  GoodRow(CompletedRow(row, ts))
<1> USE QueueConstants DEF GoodRow, CompletedRow
<1>1. CompletedRow(row, ts) \in RowType
  BY DEF RowType, Statuses, Instant, WithinBudget
<1>2. Constrained(CompletedRow(row, ts))
  BY DEF Constrained, Exists, WithinBudget, RowType, Instant
<1>3. WithinBudget(CompletedRow(row, ts))
  BY DEF Constrained, Exists, WithinBudget, RowType, Instant
<1> QED
  BY <1>1, <1>2, <1>3 DEF Exists, RowType, Statuses

LEMMA RenewedGood ==
    ASSUME NEW row, GoodRow(row), row.status = "running", NEW ts \in Instant
    PROVE  GoodRow(RenewedRow(row, ts))
<1> USE QueueConstants DEF GoodRow, RenewedRow
<1>1. RenewedRow(row, ts) \in RowType
  BY DEF RowType, Statuses, Instant, WithinBudget
<1>2. Constrained(RenewedRow(row, ts))
  BY DEF Constrained, Exists, WithinBudget, RowType, Instant
<1>3. WithinBudget(RenewedRow(row, ts))
  BY DEF Constrained, Exists, WithinBudget, RowType, Instant
<1> QED
  BY <1>1, <1>2, <1>3 DEF Exists, RowType, Statuses

LEMMA FailedGood ==
    ASSUME NEW row, GoodRow(row), row.status = "running", NEW ts \in Instant,
           NEW delay \in Nat
    PROVE  GoodRow(FailedRow(row, delay, ts))
<1> USE QueueConstants DEF GoodRow, FailedRow, AfterFailure
<1>1. FailedRow(row, delay, ts) \in RowType
  <2> DEFINE n == IF row.attempts >= row.max_attempts THEN row.available_at ELSE ts + delay
  <2>1. n \in Instant \cup {Null}
    <3>1. ts + delay \in Instant
      BY HorizonLongEnough DEF Instant
    <3>2. row.available_at \in Instant \cup {Null}
      BY DEF RowType
    <3> QED
      BY <3>1, <3>2
  <2>2. FailedRow(row, delay, ts) =
           [row EXCEPT !.status = AfterFailure(row), !.available_at = n,
                       !.locked_at = Null, !.locked_by = Null, !.updated_at = ts]
    OBVIOUS
  <2> HIDE DEF n
  <2> QED
    BY <2>1, <2>2 DEF RowType, Statuses
<1>2. Constrained(FailedRow(row, delay, ts))
  BY DEF Constrained, Exists, WithinBudget, RowType, Instant
<1>3. WithinBudget(FailedRow(row, delay, ts))
  BY DEF Constrained, Exists, WithinBudget, RowType, Instant
<1> QED
  BY <1>1, <1>2, <1>3 DEF Exists, RowType, Statuses

LEMMA RetriedGood ==
    ASSUME NEW row, GoodRow(row), row.status = "dead", NEW ts \in Instant
    PROVE  GoodRow(RetriedRow(row, ts))
<1> USE QueueConstants DEF GoodRow, RetriedRow
<1>1. RetriedRow(row, ts) \in RowType
  <2> DEFINE n == row.attempts + RetryGrant
  <2>1. n \in Nat
    BY DEF RowType
  <2>2. RetriedRow(row, ts) =
           [row EXCEPT !.status = "pending", !.max_attempts = n,
                       !.available_at = ts, !.updated_at = ts]
    OBVIOUS
  <2> HIDE DEF n
  <2> QED
    BY <2>1, <2>2 DEF RowType, Statuses
<1>2. Constrained(RetriedRow(row, ts))
  BY DEF Constrained, Exists, WithinBudget, RowType, Instant
<1>3. WithinBudget(RetriedRow(row, ts))
  BY DEF Constrained, Exists, WithinBudget, RowType, Instant
<1> QED
  BY <1>1, <1>2, <1>3 DEF Exists, RowType, Statuses

LEMMA AgedGood ==
    ASSUME NEW row, GoodRow(row)
    PROVE  GoodRow(AgedRow(row))
<1>1. \A t \in Instant \cup {Null} :
         Aged(t) \in Instant \cup {Null} /\ (Aged(t) = Null <=> t = Null)
  BY QueueConstants, AgedInstant DEF Instant
<1>2. AgedRow(row) \in RowType
  BY <1>1 DEF GoodRow, AgedRow, RowType
<1>3. Constrained(AgedRow(row))
  BY <1>1 DEF GoodRow, AgedRow, RowType, Constrained, Exists
<1>4. WithinBudget(AgedRow(row))
  BY DEF GoodRow, AgedRow, RowType, WithinBudget
<1> QED
  BY <1>2, <1>3, <1>4 DEF GoodRow, AgedRow, RowType, Exists

-----------------------------------------------------------------------------
(* What each statement may do to the table. *)

LEMMA ReapEffect ==
    ASSUME NEW ts, NEW skipped, NEW o \in ReapOutcomes(ts, skipped)
    PROVE  /\ o.reply = Reply("ok")
           /\ \E B \in SUBSET Expired(ts) :
                o.table = [j \in Jobs |-> IF j \in B THEN Reaped(jobs[j], ts) ELSE jobs[j]]
<1>1. PICK B \in OldestLocks(Expired(ts) \ skipped) :
         o = Outcome([j \in Jobs |-> IF j \in B THEN Reaped(jobs[j], ts) ELSE jobs[j]],
                     Reply("ok"))
  BY DEF ReapOutcomes
<1>2. B \in SUBSET Expired(ts)
  BY DEF OldestLocks, Limited
<1> QED
  BY <1>1, <1>2 DEF Outcome

LEMMA ClaimEffect ==
    ASSUME NEW id, NEW ts, NEW skipped, NEW o \in ClaimOutcomes(id, ts, skipped)
    PROVE  \/ o.table = jobs /\ o.reply = Reply("empty")
           \/ \E j \in Claimable(ts) :
                /\ o.table = With(j, ClaimedRow(jobs[j], id, ts))
                /\ o.reply = JobReply(j, jobs[j].attempts + 1)
<1> DEFINE candidates == Claimable(ts) \ skipped
<1>1. CASE candidates = {}
  <2>1. o = Outcome(jobs, Reply("empty"))
    BY <1>1 DEF ClaimOutcomes
  <2> QED
    BY <2>1 DEF Outcome
<1>2. CASE candidates # {}
  <2>1. PICK j \in FirstInLine(candidates) :
           o = Outcome(With(j, ClaimedRow(jobs[j], id, ts)),
                       JobReply(j, jobs[j].attempts + 1))
    BY <1>2 DEF ClaimOutcomes
  <2>2. j \in Claimable(ts)
    BY DEF FirstInLine
  <2> QED
    BY <2>1, <2>2 DEF Outcome
<1> QED
  BY <1>1, <1>2

LEMMA GuardedEffect ==
    ASSUME NEW j, NEW id, NEW attempt, NEW row, NEW o \in Guarded(j, id, attempt, row)
    PROVE  \/ o.table = jobs /\ o.reply = Reply("lease_lost")
           \/ Owns(j, id, attempt) /\ o.table = With(j, row) /\ o.reply = Reply("ok")
BY DEF Guarded, Outcome

LEMMA PurgeEffect ==
    ASSUME NEW ts, NEW skipped, NEW o \in PurgeOutcomes(ts, skipped)
    PROVE  \E B \in SUBSET Purgeable(ts) :
              /\ o.reply = RowsReply(Cardinality(B))
              /\ o.table = [j \in Jobs |-> IF j \in B THEN NoRow("purged") ELSE jobs[j]]
<1>1. PICK B \in Limited(Purgeable(ts) \ skipped, PurgeLimit) :
         o = Outcome([j \in Jobs |-> IF j \in B THEN NoRow("purged") ELSE jobs[j]],
                     RowsReply(Cardinality(B)))
  BY DEF PurgeOutcomes
<1>2. B \in SUBSET Purgeable(ts)
  BY DEF Limited
<1> QED
  BY <1>1, <1>2 DEF Outcome

-----------------------------------------------------------------------------
(* Every statement keeps the table good. *)

LEMMA WithGood ==
    ASSUME GoodTable(jobs), NEW j \in Jobs, NEW row, GoodRow(row)
    PROVE  GoodTable(With(j, row))
BY DEF GoodTable, With, GoodRow

LEMMA ReapKeepsTable ==
    ASSUME GoodTable(jobs), NEW ts \in Instant, NEW skipped,
           NEW o \in ReapOutcomes(ts, skipped)
    PROVE  GoodTable(o.table)
<1>1. PICK B \in SUBSET Expired(ts) :
         o.table = [j \in Jobs |-> IF j \in B THEN Reaped(jobs[j], ts) ELSE jobs[j]]
  BY ReapEffect
<1>2. \A j \in Jobs : GoodRow(o.table[j])
  <2> TAKE j \in Jobs
  <2>1. CASE j \in B
    BY <1>1, <2>1, ReapedGood DEF Expired, GoodTable
  <2>2. CASE j \notin B
    BY <1>1, <2>2 DEF GoodTable
  <2> QED
    BY <2>1, <2>2
<1> QED
  BY <1>1, <1>2 DEF GoodTable, GoodRow

LEMMA ClaimKeepsTable ==
    ASSUME GoodTable(jobs), NEW ts \in Instant, NEW skipped, NEW id \in WorkerIds,
           NEW o \in ClaimOutcomes(id, ts, skipped)
    PROVE  GoodTable(o.table)
<1>1. ASSUME NEW j \in Claimable(ts) PROVE GoodRow(ClaimedRow(jobs[j], id, ts))
  BY ClaimedGood DEF Claimable, GoodTable
<1>2. Claimable(ts) \subseteq Jobs
  BY DEF Claimable
<1>3. \/ o.table = jobs
      \/ \E j \in Claimable(ts) : o.table = With(j, ClaimedRow(jobs[j], id, ts))
  BY ClaimEffect
<1> QED
  BY <1>1, <1>2, <1>3, WithGood

LEMMA CompleteKeepsTable ==
    ASSUME GoodTable(jobs), NEW ts \in Instant, NEW j \in Jobs, NEW id, NEW attempt,
           NEW o \in CompleteOutcomes(j, id, attempt, ts)
    PROVE  GoodTable(o.table)
<1>1. Owns(j, id, attempt) => GoodRow(CompletedRow(jobs[j], ts))
  BY CompletedGood DEF Owns, GoodTable
<1> QED
  BY <1>1, GuardedEffect, WithGood DEF CompleteOutcomes

LEMMA RenewKeepsTable ==
    ASSUME GoodTable(jobs), NEW ts \in Instant, NEW j \in Jobs, NEW id, NEW attempt,
           NEW o \in RenewOutcomes(j, id, attempt, ts)
    PROVE  GoodTable(o.table)
<1>1. Owns(j, id, attempt) => GoodRow(RenewedRow(jobs[j], ts))
  BY RenewedGood DEF Owns, GoodTable
<1> QED
  BY <1>1, GuardedEffect, WithGood DEF RenewOutcomes

LEMMA FailKeepsTable ==
    ASSUME GoodTable(jobs), NEW ts \in Instant, NEW j \in Jobs, NEW id, NEW attempt,
           NEW delay \in Nat, NEW o \in FailOutcomes(j, id, attempt, delay, ts)
    PROVE  GoodTable(o.table)
<1>1. Owns(j, id, attempt) => GoodRow(FailedRow(jobs[j], delay, ts))
  BY FailedGood DEF Owns, GoodTable
<1> QED
  BY <1>1, GuardedEffect, WithGood DEF FailOutcomes

LEMMA PurgeKeepsTable ==
    ASSUME GoodTable(jobs), NEW ts \in Instant, NEW skipped,
           NEW o \in PurgeOutcomes(ts, skipped)
    PROVE  GoodTable(o.table)
<1>1. PICK B \in SUBSET Purgeable(ts) :
         o.table = [j \in Jobs |-> IF j \in B THEN NoRow("purged") ELSE jobs[j]]
  BY PurgeEffect
<1>2. \A j \in Jobs : GoodRow(o.table[j])
  BY <1>1, NoRowGood DEF GoodTable
<1> QED
  BY <1>1, <1>2 DEF GoodTable, GoodRow

\* Producers, the operator and time keep it good too.
LEMMA OthersKeepTable ==
    ASSUME GoodTable(jobs),
           \/ \E j \in Jobs, max \in MaxAttempts : Enqueue(j, max)
           \/ \E j \in Jobs : OperatorRetry(j)
           \/ AgeRows
    PROVE  GoodTable(jobs')
<1>0. NOW \in Instant
  BY HorizonLongEnough DEF NOW, Instant
<1>1. ASSUME NEW j \in Jobs, NEW max \in MaxAttempts, Enqueue(j, max)
      PROVE  GoodTable(jobs')
  BY <1>0, <1>1, NewRowGood, WithGood DEF Enqueue
<1>2. ASSUME NEW j \in Jobs, OperatorRetry(j)
      PROVE  GoodTable(jobs')
  <2>1. GoodRow(RetriedRow(jobs[j], NOW))
    BY <1>0, <1>2, RetriedGood DEF OperatorRetry, GoodTable
  <2> QED
    BY <1>2, <2>1, WithGood DEF OperatorRetry
<1>3. CASE AgeRows
  BY <1>3, AgedGood DEF AgeRows, GoodTable, GoodRow
<1> QED
  BY <1>1, <1>2, <1>3

-----------------------------------------------------------------------------
(* The theorems. *)

LEMMA StatementKeepsTable ==
    ASSUME GoodTable(jobs), NEW ts \in Instant, Statement(ts)
    PROVE  GoodTable(jobs')
<1>1. ASSUME NEW skipped, ReapStatement(ts, skipped)
      PROVE  GoodTable(jobs')
  BY <1>1, ReapKeepsTable DEF ReapStatement, Takes
<1>2. ASSUME NEW id \in WorkerIds, NEW skipped, ClaimStatement(id, ts, skipped)
      PROVE  GoodTable(jobs')
  BY <1>2, ClaimKeepsTable DEF ClaimStatement, Takes
<1>3. ASSUME NEW j \in Jobs, NEW id \in WorkerIds, NEW attempt \in 1..AttemptCap
      PROVE  /\ CompleteStatement(j, id, attempt, ts) => GoodTable(jobs')
             /\ RenewStatement(j, id, attempt, ts) => GoodTable(jobs')
             /\ FailStatement(j, id, attempt, ts) => GoodTable(jobs')
  <2>1. RetryDelay(attempt) \in Nat
    BY RetryDelayBounded, QueueConstants
  <2>2. CompleteStatement(j, id, attempt, ts) => GoodTable(jobs')
    BY CompleteKeepsTable DEF CompleteStatement, Takes
  <2>3. RenewStatement(j, id, attempt, ts) => GoodTable(jobs')
    BY RenewKeepsTable DEF RenewStatement, Takes
  <2>4. FailStatement(j, id, attempt, ts) => GoodTable(jobs')
    BY <2>1, FailKeepsTable DEF FailStatement, Takes
  <2> QED
    BY <2>2, <2>3, <2>4
<1>4. ASSUME NEW skipped, PurgeStatement(ts, skipped)
      PROVE  GoodTable(jobs')
  BY <1>4, PurgeKeepsTable DEF PurgeStatement, Takes
<1> QED
  BY <1>1, <1>2, <1>3, <1>4 DEF Statement

LEMMA QInvInductive ==
    /\ QInit => QInv
    /\ QInv /\ [QNext]_jobs => QInv'
<1>1. QInit => QInv
  BY NoRowGood DEF QInit, QInv, GoodTable, GoodRow
<1>2. QInv /\ [QNext]_jobs => QInv'
  <2> SUFFICES ASSUME GoodTable(jobs), QNext PROVE GoodTable(jobs')
    BY DEF QInv
  <2>1. ASSUME NEW ts \in StartInstants(-MaxStall), Statement(ts) PROVE GoodTable(jobs')
    BY <2>1, StartInstant, StatementKeepsTable
  <2> QED
    BY <2>1, OthersKeepTable DEF QNext
<1> QED
  BY <1>1, <1>2

\* The table keeps its type, its CHECK constraints and its attempt budgets,
\* whatever statements its clients run and in whatever order.
THEOREM TableStaysGood ==
    QSpec => [](QTypeOK /\ TableConstraints /\ BudgetSpentExactlyWhenDead)
<1>1. QInv => QTypeOK /\ TableConstraints /\ BudgetSpentExactlyWhenDead
  BY DEF QInv, GoodTable, GoodRow, QTypeOK, TableConstraints, BudgetSpentExactlyWhenDead
<1> QED
  BY <1>1, QInvInductive, PTL DEF QSpec

-----------------------------------------------------------------------------
(* The attempt number as a fencing token. *)

\* The attempt number of a row moves only when it starts running, by one.
Fences(row, next) ==
    next.status # "purged" =>
        IF row.status = "pending" /\ next.status = "running"
        THEN next.attempts = row.attempts + 1
        ELSE next.attempts = row.attempts

LEMMA RowsFence ==
    ASSUME NEW row, GoodRow(row), NEW ts, NEW id, NEW delay
    PROVE  /\ Fences(row, row)
           /\ row.status = "running" => Fences(row, Reaped(row, ts))
           /\ row.status = "pending" => Fences(row, ClaimedRow(row, id, ts))
           /\ row.status = "running" => Fences(row, CompletedRow(row, ts))
           /\ row.status = "running" => Fences(row, RenewedRow(row, ts))
           /\ row.status = "running" => Fences(row, FailedRow(row, delay, ts))
           /\ row.status = "dead" => Fences(row, RetriedRow(row, ts))
           /\ Fences(row, AgedRow(row))
<1> USE DEF Fences, GoodRow, RowType
<1>1. row.status = "running" => Fences(row, Reaped(row, ts))
  BY DEF Reaped, AfterFailure
<1>2. row.status = "pending" => Fences(row, ClaimedRow(row, id, ts))
  BY DEF ClaimedRow
<1>3. row.status = "running" => Fences(row, CompletedRow(row, ts))
  BY DEF CompletedRow
<1>4. row.status = "running" => Fences(row, RenewedRow(row, ts))
  BY DEF RenewedRow
<1>5. row.status = "running" => Fences(row, FailedRow(row, delay, ts))
  BY DEF FailedRow, AfterFailure
<1>6. row.status = "dead" => Fences(row, RetriedRow(row, ts))
  BY DEF RetriedRow
<1>7. Fences(row, AgedRow(row))
  BY DEF AgedRow
<1> QED
  BY <1>1, <1>2, <1>3, <1>4, <1>5, <1>6, <1>7

\* One statement on the whole table.
LEMMA StatementFences ==
    ASSUME GoodTable(jobs), NEW ts \in Instant, Statement(ts), NEW k \in Jobs
    PROVE  Fences(jobs[k], jobs'[k])
<1> DEFINE Goal == Fences(jobs[k], jobs'[k])
<1>0. GoodRow(jobs[k])
  BY DEF GoodTable
<1>a. DOMAIN jobs = Jobs
  BY DEF GoodTable
<1>b. jobs'[k] = jobs[k] => Goal
  BY <1>0, RowsFence
<1>1. ASSUME NEW skipped, ReapStatement(ts, skipped) PROVE Goal
  <2>1. PICK B \in SUBSET Expired(ts) :
           jobs' = [j \in Jobs |-> IF j \in B THEN Reaped(jobs[j], ts) ELSE jobs[j]]
    BY <1>1, ReapEffect DEF ReapStatement, Takes
  <2>2. k \in B => jobs[k].status = "running"
    BY DEF Expired
  <2> QED
    BY <1>0, <2>1, <2>2, RowsFence
<1>2. ASSUME NEW id \in WorkerIds, NEW skipped, ClaimStatement(id, ts, skipped) PROVE Goal
  <2>1. \/ jobs' = jobs
        \/ \E j \in Claimable(ts) : jobs' = With(j, ClaimedRow(jobs[j], id, ts))
    BY <1>2, ClaimEffect DEF ClaimStatement, Takes
  <2>2. ASSUME NEW j \in Claimable(ts), jobs' = With(j, ClaimedRow(jobs[j], id, ts))
        PROVE  Goal
    <3>1. jobs[j].status = "pending"
      BY DEF Claimable
    <3>2. jobs'[k] = IF j = k THEN ClaimedRow(jobs[k], id, ts) ELSE jobs[k]
      BY <1>a, <2>2 DEF With
    <3> QED
      BY <1>0, <3>1, <3>2, RowsFence
  <2> QED
    BY <1>b, <2>1, <2>2
<1>3. ASSUME NEW j \in Jobs, NEW id \in WorkerIds, NEW attempt \in 1..AttemptCap,
             NEW row,
             jobs' = jobs \/ (Owns(j, id, attempt) /\ jobs' = With(j, row)),
             \/ row = CompletedRow(jobs[j], ts)
             \/ row = RenewedRow(jobs[j], ts)
             \/ row = FailedRow(jobs[j], RetryDelay(attempt), ts)
      PROVE  Goal
  <2>1. CASE jobs' = jobs
    BY <1>b, <2>1
  <2>2. CASE Owns(j, id, attempt) /\ jobs' = With(j, row)
    <3>1. jobs[j].status = "running"
      BY <2>2 DEF Owns
    <3>2. jobs'[k] = IF j = k THEN row ELSE jobs[k]
      BY <1>a, <2>2 DEF With
    <3> QED
      BY <1>0, <1>3, <3>1, <3>2, RowsFence
  <2> QED
    BY <1>3, <2>1, <2>2
<1>4. ASSUME NEW j \in Jobs, NEW id \in WorkerIds, NEW attempt \in 1..AttemptCap,
             \/ CompleteStatement(j, id, attempt, ts)
             \/ RenewStatement(j, id, attempt, ts)
             \/ FailStatement(j, id, attempt, ts)
      PROVE  Goal
  <2>1. CASE CompleteStatement(j, id, attempt, ts)
    <3>1. \/ jobs' = jobs
          \/ Owns(j, id, attempt) /\ jobs' = With(j, CompletedRow(jobs[j], ts))
      BY <2>1, GuardedEffect DEF CompleteStatement, CompleteOutcomes, Takes
    <3> QED
      BY <3>1, <1>3
  <2>2. CASE RenewStatement(j, id, attempt, ts)
    <3>1. \/ jobs' = jobs
          \/ Owns(j, id, attempt) /\ jobs' = With(j, RenewedRow(jobs[j], ts))
      BY <2>2, GuardedEffect DEF RenewStatement, RenewOutcomes, Takes
    <3> QED
      BY <3>1, <1>3
  <2>3. CASE FailStatement(j, id, attempt, ts)
    <3>1. \/ jobs' = jobs
          \/ /\ Owns(j, id, attempt)
             /\ jobs' = With(j, FailedRow(jobs[j], RetryDelay(attempt), ts))
      BY <2>3, GuardedEffect DEF FailStatement, FailOutcomes, Takes
    <3> QED
      BY <3>1, <1>3
  <2> QED
    BY <1>4, <2>1, <2>2, <2>3
<1>5. ASSUME NEW skipped, PurgeStatement(ts, skipped) PROVE Goal
  <2>1. PICK B \in SUBSET Purgeable(ts) :
           jobs' = [j \in Jobs |-> IF j \in B THEN NoRow("purged") ELSE jobs[j]]
    BY <1>5, PurgeEffect DEF PurgeStatement, Takes
  <2>2. CASE k \in B
    BY <2>1, <2>2 DEF Fences, NoRow
  <2>3. CASE k \notin B
    BY <1>b, <2>1, <2>3
  <2> QED
    BY <2>2, <2>3
<1> QED
  BY <1>1, <1>2, <1>4, <1>5 DEF Statement

LEMMA StepFences ==
    ASSUME QInv, QNext, NEW k \in Jobs
    PROVE  Fences(jobs[k], jobs'[k])
<1>0. GoodTable(jobs) /\ GoodRow(jobs[k]) /\ DOMAIN jobs = Jobs
  BY DEF QInv, GoodTable
<1>1. ASSUME NEW j \in Jobs, NEW max \in MaxAttempts, Enqueue(j, max)
      PROVE  Fences(jobs[k], jobs'[k])
  <2>1. jobs'[k] = IF j = k THEN NewRow(max, NOW) ELSE jobs[k]
    BY <1>0, <1>1 DEF Enqueue, With
  <2>2. jobs[k].status = "absent" => jobs[k].attempts = 0
    BY <1>0 DEF GoodRow, WithinBudget, Constrained, Exists, RowType
  <2> QED
    BY <1>0, <1>1, <2>1, <2>2, RowsFence DEF Enqueue, Fences, NewRow
<1>2. ASSUME NEW j \in Jobs, OperatorRetry(j)
      PROVE  Fences(jobs[k], jobs'[k])
  <2>1. jobs'[k] = IF j = k THEN RetriedRow(jobs[k], NOW) ELSE jobs[k]
    BY <1>0, <1>2 DEF OperatorRetry, With
  <2> QED
    BY <1>0, <1>2, <2>1, RowsFence DEF OperatorRetry
<1>3. CASE AgeRows
  BY <1>0, <1>3, RowsFence DEF AgeRows
<1>4. ASSUME NEW ts \in StartInstants(-MaxStall), Statement(ts)
      PROVE  Fences(jobs[k], jobs'[k])
  BY <1>0, <1>4, StartInstant, StatementFences
<1> QED
  BY <1>1, <1>2, <1>3, <1>4 DEF QNext

\* Attempt numbers fence: a row starts running only with a number it never
\* had, so a statement that names an earlier attempt can never match it.
THEOREM AttemptsAlwaysFence == QSpec => AttemptsFence
<1>1. QInv /\ [QNext]_jobs => [\A j \in Jobs : Fences(jobs[j], jobs'[j])]_jobs
  BY StepFences
<1>2. [\A j \in Jobs : Fences(jobs[j], jobs'[j])]_jobs
      => [\A j \in Jobs : jobs'[j].status # "purged" =>
            IF jobs[j].status = "pending" /\ jobs'[j].status = "running"
            THEN jobs'[j].attempts = jobs[j].attempts + 1
            ELSE jobs'[j].attempts = jobs[j].attempts]_jobs
  BY DEF Fences
<1> QED
  BY <1>1, <1>2, QInvInductive, PTL DEF QSpec, AttemptsFence

-----------------------------------------------------------------------------
(* The workers.                                                            *)

OnAttempt == {"renew", "complete", "fail"}

LocalShape(me) ==
    /\ me.pc \in Executing =>
          me.job \in Jobs /\ me.attempt > 0 /\ me.deadline # Null
    /\ me.pc \in {"run", "renew"} => me.next_renewal # Null
    /\ me.pc \in {"reap", "select", "renew"} => me.started # Null
    /\ me.started # Null => me.started <= NOW
    /\ me.deadline # Null => me.deadline <= NOW + Lease

CallShape(me, c) ==
    /\ c.kind = "sent" => me.pc \in Awaiting
    /\ me.pc = "run" => c.kind = "none"
    /\ me.pc = "select" /\ c.kind = "ok" => c.job \in Jobs /\ c.attempt > 0

WorkerShape(w) == LocalShape(worker[w]) /\ CallShape(worker[w], call[w])

StatementShape(s) == s.op \in OnAttempt => s.job \in Jobs /\ s.attempt > 0

WorkersGood ==
    /\ worker \in [Workers -> WorkerType]
    /\ call \in [Workers -> CallType]
    /\ \A w \in Workers : WorkerShape(w)

OrphansGood ==
    /\ orphans \subseteq StatementType
    /\ \A s \in orphans : StatementShape(s)

TypeInv ==
    /\ GoodTable(jobs)
    /\ WorkersGood
    /\ OrphansGood
    /\ succeeded \subseteq Jobs \X Nat

-----------------------------------------------------------------------------
(* Shape of the state. *)

LEMMA NowInstant == NOW \in Instant /\ Interval \in Nat /\ RetryInterval \in Nat
BY QueueConstants, HorizonLongEnough
   DEF NOW, Instant, Interval, RetryInterval, AtLeastOne

LEMMA ReplyTypes ==
    /\ \A kind \in {"none", "sent", "ok", "empty", "lease_lost", "unavailable"} :
          Reply(kind) \in CallType
    /\ \A j \in Jobs, n \in Nat : JobReply(j, n) \in CallType
    /\ \A n \in Nat : RowsReply(n) \in CallType
BY QueueConstants DEF Reply, JobReply, RowsReply, CallType, NOW

LEMMA OutcomeTypes ==
    ASSUME GoodTable(jobs), NEW s \in StatementType, StatementShape(s),
           NEW ts \in Instant, NEW skipped, NEW o \in Outcomes(s, ts, skipped)
    PROVE  /\ GoodTable(o.table)
           /\ o.reply \in CallType
           /\ o.reply.kind # "sent"
           /\ s.op = "select" /\ o.reply.kind = "ok" =>
                 o.reply.job \in Jobs /\ o.reply.attempt > 0
<1>1. CASE s.op = "reap"
  <2>1. o \in ReapOutcomes(ts, skipped)
    BY <1>1 DEF Outcomes
  <2>2. o.reply = Reply("ok")
    BY <2>1, ReapEffect
  <2> QED
    BY <1>1, <2>1, <2>2, ReapKeepsTable, ReplyTypes DEF Reply
<1>2. CASE s.op = "select"
  <2>1. o \in ClaimOutcomes(s.id, ts, skipped)
    BY <1>2 DEF Outcomes
  <2>2. s.id \in WorkerIds
    BY DEF StatementType
  <2>3. \/ o.reply = Reply("empty")
        \/ \E j \in Claimable(ts) : o.reply = JobReply(j, jobs[j].attempts + 1)
    BY <2>1, ClaimEffect
  <2>4. ASSUME NEW j \in Claimable(ts)
        PROVE  j \in Jobs /\ jobs[j].attempts + 1 \in Nat /\ jobs[j].attempts + 1 > 0
    BY DEF Claimable, GoodTable, GoodRow, RowType
  <2>5. GoodTable(o.table)
    BY <2>1, <2>2, ClaimKeepsTable
  <2>6. CASE o.reply = Reply("empty")
    BY <2>5, <2>6, ReplyTypes DEF Reply
  <2>7. ASSUME NEW j \in Claimable(ts), o.reply = JobReply(j, jobs[j].attempts + 1)
        PROVE  /\ o.reply \in CallType /\ o.reply.kind = "ok"
               /\ o.reply.job \in Jobs /\ o.reply.attempt > 0
    BY <2>4, <2>7, ReplyTypes DEF JobReply
  <2> QED
    BY <2>3, <2>5, <2>6, <2>7
<1>3. CASE s.op \in OnAttempt
  <2>1. s.job \in Jobs /\ s.attempt \in Nat /\ s.attempt > 0
    BY <1>3 DEF StatementShape, StatementType
  <2>2. RetryDelay(s.attempt) \in Nat
    BY <2>1, RetryDelayBounded
  <2>3. CASE s.op = "renew"
    <3>1. o \in RenewOutcomes(s.job, s.id, s.attempt, ts)
      BY <2>3 DEF Outcomes
    <3>2. o.reply = Reply("ok") \/ o.reply = Reply("lease_lost")
      BY <3>1, GuardedEffect DEF RenewOutcomes
    <3> QED
      BY <2>1, <2>3, <3>1, <3>2, RenewKeepsTable, ReplyTypes DEF Reply
  <2>4. CASE s.op = "complete"
    <3>1. o \in CompleteOutcomes(s.job, s.id, s.attempt, ts)
      BY <2>4 DEF Outcomes
    <3>2. o.reply = Reply("ok") \/ o.reply = Reply("lease_lost")
      BY <3>1, GuardedEffect DEF CompleteOutcomes
    <3> QED
      BY <2>1, <2>4, <3>1, <3>2, CompleteKeepsTable, ReplyTypes DEF Reply
  <2>5. CASE s.op = "fail"
    <3>1. o \in FailOutcomes(s.job, s.id, s.attempt, RetryDelay(s.attempt), ts)
      BY <2>5 DEF Outcomes
    <3>2. o.reply = Reply("ok") \/ o.reply = Reply("lease_lost")
      BY <3>1, GuardedEffect DEF FailOutcomes
    <3> QED
      BY <2>1, <2>2, <2>5, <3>1, <3>2, FailKeepsTable, ReplyTypes DEF Reply
  <2> QED
    BY <1>3, <2>3, <2>4, <2>5 DEF OnAttempt
<1>4. CASE s.op = "purge"
  <2>1. o \in PurgeOutcomes(ts, skipped)
    BY <1>4 DEF Outcomes
  <2>2. PICK B \in SUBSET Purgeable(ts) :
           /\ o.reply = RowsReply(Cardinality(B))
           /\ o.table = [j \in Jobs |-> IF j \in B THEN NoRow("purged") ELSE jobs[j]]
    BY <2>1, PurgeEffect
  <2>3. Cardinality(B) \in Nat
    <3>1. B \subseteq Jobs
      BY DEF Purgeable
    <3> QED
      BY <3>1, QueueConstants, FS_Subset, FS_CardinalityType
  <2>4. GoodTable(o.table)
    BY <2>1, PurgeKeepsTable
  <2>5. o.reply \in CallType
    BY <2>2, <2>3, ReplyTypes
  <2>6. o.reply.kind = "ok"
    BY <2>2 DEF RowsReply
  <2> QED
    BY <1>4, <2>4, <2>5, <2>6
<1> QED
  BY <1>1, <1>2, <1>3, <1>4 DEF StatementType, Awaiting, OnAttempt

LEMMA StatementOfTypes ==
    ASSUME TypeInv, NEW w \in Workers, call[w].kind = "sent"
    PROVE  StatementOf(w) \in StatementType /\ StatementShape(StatementOf(w))
<1>1. worker[w] \in WorkerType /\ call[w] \in CallType /\ WorkerId[w] \in WorkerIds
      /\ worker[w].pc \in Awaiting
  BY WorkerConstants DEF TypeInv, WorkersGood, WorkerShape, CallShape
<1>2. StatementOf(w) \in StatementType
  BY <1>1 DEF StatementOf, StatementType, WorkerType, CallType
<1>3. StatementShape(StatementOf(w))
  BY <1>1 DEF TypeInv, WorkersGood, WorkerShape, LocalShape, StatementShape, StatementOf, OnAttempt, Executing
<1> QED
  BY <1>2, <1>3

LEMMA WorkerMoves ==
    ASSUME WorkersGood, NEW w \in Workers,
           NEW me \in WorkerType, NEW c \in CallType, LocalShape(me), CallShape(me, c),
           worker' = [worker EXCEPT ![w] = me], call' = [call EXCEPT ![w] = c]
    PROVE  WorkersGood'
<1>1. worker' \in [Workers -> WorkerType] /\ call' \in [Workers -> CallType]
  BY DEF WorkersGood
<1>2. ASSUME NEW v \in Workers PROVE WorkerShape(v)'
  <2>1. CASE v = w
    BY <2>1 DEF WorkersGood, WorkerShape
  <2>2. CASE v # w
    BY <2>2 DEF WorkersGood, WorkerShape
  <2> QED
    BY <2>1, <2>2
<1> QED
  BY <1>1, <1>2 DEF WorkersGood

LEMMA AtGood ==
    ASSUME NEW pc \in {"loop", "ready", "down", "purge"}
    PROVE  At(pc) \in WorkerType /\ LocalShape(At(pc))
BY WorkerConstants DEF At, WorkerType, Pcs, Awaiting, LocalShape, Executing

\* Back to the loop, or down, with nothing remembered.
LEMMA RestMoves ==
    ASSUME WorkersGood, NEW w \in Workers, NEW pc \in {"loop", "ready", "down"},
           Move(w, At(pc))
    PROVE  WorkersGood'
<1>1. CallShape(At(pc), Reply("none"))
  BY DEF CallShape, At, Reply
<1> QED
  BY <1>1, AtGood, ReplyTypes, WorkerMoves DEF Move

LEMMA TerminalSends ==
    ASSUME WorkersGood, NEW w \in Workers, NEW me \in WorkerType, LocalShape(me),
           me.pc \in Executing, NEW result, SendTerminal(w, me, result)
    PROVE  WorkersGood'
<1>1. CASE NOW < me.deadline
  <2> DEFINE next == [me EXCEPT !.pc = IF result = "ok" THEN "complete" ELSE "fail",
                                !.next_renewal = Null, !.handler = "none"]
  <2>1. next \in WorkerType
    BY DEF WorkerType, Pcs, Awaiting
  <2>2. LocalShape(next)
    BY DEF LocalShape, WorkerType, Executing
  <2>3. CallShape(next, Reply("sent"))
    BY DEF CallShape, Reply, WorkerType, Awaiting
  <2>4. Send(w, next)
    BY <1>1 DEF SendTerminal
  <2> HIDE DEF next
  <2> QED
    BY <2>1, <2>2, <2>3, <2>4, ReplyTypes, WorkerMoves DEF Send
<1>2. CASE ~(NOW < me.deadline)
  <2>1. Move(w, At("loop"))
    BY <1>2 DEF SendTerminal
  <2> QED
    BY <2>1, RestMoves
<1> QED
  BY <1>1, <1>2

LEMMA AbandonGood ==
    ASSUME TypeInv, NEW w \in Workers, Abandon(w)
    PROVE  OrphansGood'
<1>1. CASE orphans' = orphans
  BY <1>1 DEF TypeInv, OrphansGood
<1>2. CASE call[w].kind = "sent" /\ orphans' = orphans \cup {StatementOf(w)}
  BY <1>2, StatementOfTypes DEF TypeInv, OrphansGood
<1> QED
  BY <1>1, <1>2 DEF Abandon

\* The lease as an answered renewal leaves it.
LEMMA AfterRenewalGood ==
    ASSUME WorkersGood, NEW w \in Workers, worker[w].pc = "renew"
    PROVE  /\ AfterRenewal(w) \in WorkerType
           /\ LocalShape(AfterRenewal(w))
           /\ AfterRenewal(w).pc = "run"
<1>1. /\ worker[w] \in WorkerType /\ LocalShape(worker[w])
      /\ worker[w].started \in Instant /\ worker[w].started <= NOW
  BY DEF WorkersGood, WorkerShape, LocalShape, WorkerType
<1> DEFINE d == worker[w].started + Lease
           n == worker[w].started + Interval
           m == NOW + RetryInterval
<1>2. d \in Instant /\ d <= NOW + Lease /\ n \in Instant /\ m \in Instant
  <2>1. d \in Instant /\ d <= NOW + Lease
    BY <1>1, QueueConstants, HorizonLongEnough DEF Instant, NOW
  <2>2. n \in Instant /\ m \in Instant
    BY <1>1, NowInstant, HorizonLongEnough DEF Instant, NOW
  <2> QED
    BY <2>1, <2>2
<1>3. d # Null /\ n # Null /\ m # Null
  BY <1>2, QueueConstants DEF Instant
<1>4. AfterRenewal(w) =
         IF call[w].kind = "ok"
         THEN [worker[w] EXCEPT !.pc = "run", !.deadline = d, !.next_renewal = n,
                                !.started = Null]
         ELSE [worker[w] EXCEPT !.pc = "run", !.next_renewal = m, !.started = Null]
  BY DEF AfterRenewal
<1> HIDE DEF d, n, m
<1>5. CASE call[w].kind = "ok"
  BY <1>1, <1>2, <1>3, <1>4, <1>5 DEF WorkerType, Pcs, LocalShape, Executing
<1>6. CASE call[w].kind # "ok"
  BY <1>1, <1>2, <1>3, <1>4, <1>6 DEF WorkerType, Pcs, LocalShape, Executing
<1> QED
  BY <1>5, <1>6

LEMMA WorkerStepKeepsType ==
    ASSUME TypeInv, NEW w \in Workers, WorkerStep(w)
    PROVE  TypeInv'
<1> DEFINE me == worker[w]
<1>0. /\ WorkersGood /\ me \in WorkerType /\ call[w] \in CallType
      /\ LocalShape(me) /\ CallShape(me, call[w])
  BY DEF TypeInv, WorkersGood, WorkerShape
<1>a. /\ Reply("sent") \in CallType /\ Reply("none") \in CallType
      /\ Reply("sent").kind = "sent" /\ Reply("none").kind = "none"
  BY ReplyTypes DEF Reply
<1>b. ASSUME NEW next \in WorkerType, LocalShape(next), next.pc \in Awaiting, Send(w, next)
      PROVE  WorkersGood'
  <2>1. CallShape(next, Reply("sent"))
    BY <1>b, <1>a DEF CallShape, Awaiting
  <2> QED
    BY <1>0, <1>a, <1>b, <2>1, WorkerMoves DEF Send
<1>c. ASSUME NEW next \in WorkerType, LocalShape(next), Move(w, next)
      PROVE  WorkersGood'
  <2>1. CallShape(next, Reply("none"))
    BY <1>a DEF CallShape
  <2> QED
    BY <1>0, <1>a, <1>c, <2>1, WorkerMoves DEF Move
<1>d. ASSUME WorkersGood', OrphansGood', jobs' = jobs, succeeded' \subseteq Jobs \X Nat
      PROVE  TypeInv'
  BY <1>d DEF TypeInv
<1>e. ASSUME WorkersGood', UNCHANGED <<jobs, orphans, succeeded>>
      PROVE  TypeInv'
  BY <1>e DEF TypeInv, OrphansGood
<1>f. ASSUME NEW result, Record(w, result), me.job \in Jobs
      PROVE  succeeded' \subseteq Jobs \X Nat
  BY <1>0, <1>f DEF Record, TypeInv, WorkerType
<1>1. CASE StartMaintenance(w)
  <2> DEFINE next == [At("purge") EXCEPT !.batch = 1]
  <2>1. next \in WorkerType /\ next.pc \in Awaiting
    BY AtGood, WorkerConstants DEF At, WorkerType, Awaiting
  <2>2. LocalShape(next)
    BY AtGood DEF At, LocalShape, Executing
  <2>3. Send(w, next)
    BY <1>1 DEF StartMaintenance
  <2> HIDE DEF next
  <2> QED
    BY <1>1, <1>b, <1>e, <2>1, <2>2, <2>3 DEF StartMaintenance
<1>2. CASE PurgeReply(w)
  <2>1. CASE me.batch < MaxBatches /\ Send(w, [me EXCEPT !.batch = @ + 1])
    <3> DEFINE b == me.batch + 1
               next == [me EXCEPT !.batch = b]
    <3>1. b \in 0..MaxBatches
      BY <1>0, <2>1, WorkerConstants DEF WorkerType
    <3>2. Send(w, next)
      BY <2>1
    <3> HIDE DEF b
    <3>3. next \in WorkerType /\ next.pc \in Awaiting /\ LocalShape(next)
      BY <1>0, <1>2, <3>1 DEF WorkerType, Awaiting, LocalShape, PurgeReply
    <3> HIDE DEF next
    <3> QED
      BY <1>2, <1>b, <1>e, <3>2, <3>3 DEF PurgeReply
  <2>2. CASE Move(w, At("ready"))
    BY <1>0, <1>2, <1>e, <2>2, RestMoves DEF PurgeReply
  <2> QED
    BY <1>2, <2>1, <2>2 DEF PurgeReply
<1>3. CASE StartClaim(w)
  <2> DEFINE next == [At("reap") EXCEPT !.started = NOW]
  <2>1. next \in WorkerType /\ next.pc \in Awaiting
    BY NowInstant, WorkerConstants DEF At, WorkerType, Awaiting, Pcs
  <2>2. LocalShape(next)
    BY QueueConstants DEF At, LocalShape, Executing, NOW
  <2>3. Send(w, next)
    BY <1>3 DEF StartClaim
  <2> HIDE DEF next
  <2> QED
    BY <1>3, <1>b, <1>e, <2>1, <2>2, <2>3 DEF StartClaim
<1>4. CASE ReapReply(w)
  <2>1. CASE Send(w, [me EXCEPT !.pc = "select"])
    <3> DEFINE next == [me EXCEPT !.pc = "select"]
    <3>1. next \in WorkerType /\ next.pc \in Awaiting /\ LocalShape(next)
      BY <1>0, <1>4 DEF WorkerType, Awaiting, Pcs, LocalShape, ReapReply, Executing
    <3> HIDE DEF next
    <3> QED
      BY <1>4, <1>b, <1>e, <2>1, <3>1 DEF ReapReply, next
  <2>2. CASE Move(w, At("loop"))
    BY <1>0, <1>4, <1>e, <2>2, RestMoves DEF ReapReply
  <2> QED
    BY <1>4, <2>1, <2>2 DEF ReapReply
<1>5. CASE ClaimReply(w)
  <2>1. CASE call[w].kind = "ok"
    <3> DEFINE d == me.started + Lease
               n == me.started + Interval
               j == call[w].job
               a == call[w].attempt
               next == [At("run") EXCEPT !.job = j, !.attempt = a,
                                         !.deadline = d, !.next_renewal = n]
    <3>1. me.started \in Instant /\ me.started <= NOW
      BY <1>0, <1>5 DEF ClaimReply, LocalShape, WorkerType
    <3>2. d \in Instant /\ d <= NOW + Lease /\ d # Null
      BY <3>1, QueueConstants, HorizonLongEnough DEF Instant, NOW
    <3>3. n \in Instant /\ n # Null
      BY <3>1, NowInstant, QueueConstants, HorizonLongEnough DEF Instant, NOW
    <3>4. j \in Jobs /\ a \in Nat /\ a > 0
      BY <1>0, <1>5, <2>1 DEF ClaimReply, CallShape, CallType
    <3>5. Move(w, next)
      BY <1>5, <2>1 DEF ClaimReply, Claimed
    <3> HIDE DEF d, n, j, a
    <3>6. next \in WorkerType
      <4>1. At("run") \in WorkerType
        BY WorkerConstants DEF At, WorkerType, Pcs
      <4> QED
        BY <3>2, <3>3, <3>4, <4>1 DEF WorkerType
    <3>7. LocalShape(next)
      BY <3>2, <3>3, <3>4, QueueConstants DEF At, LocalShape, Executing
    <3> HIDE DEF next
    <3> QED
      BY <1>5, <1>c, <1>e, <3>5, <3>6, <3>7 DEF ClaimReply
  <2>2. CASE call[w].kind # "ok"
    BY <1>0, <1>5, <1>e, <2>2, RestMoves DEF ClaimReply
  <2> QED
    BY <2>1, <2>2
<1>6. CASE HandlerReturns(w)
  <2>1. PICK result : SendTerminal(w, me, result) /\ Record(w, result)
    BY <1>6 DEF HandlerReturns
  <2>2. me.pc \in Executing /\ me.job \in Jobs
    BY <1>0, <1>6 DEF HandlerReturns, LocalShape, Executing
  <2>3. WorkersGood'
    BY <1>0, <2>1, <2>2, TerminalSends
  <2>4. OrphansGood'
    BY <1>6 DEF HandlerReturns, TypeInv, OrphansGood
  <2> QED
    BY <1>6, <1>d, <1>f, <2>1, <2>2, <2>3, <2>4 DEF HandlerReturns
<1>7. CASE HandlerReturnsDuringRenewal(w)
  <2>1. PICK result \in Results(me.job) :
           worker' = [worker EXCEPT ![w].handler = result] /\ Record(w, result)
    BY <1>7 DEF HandlerReturnsDuringRenewal
  <2> DEFINE next == [me EXCEPT !.handler = result]
  <2>2. me.job \in Jobs
    BY <1>0, <1>7 DEF HandlerReturnsDuringRenewal, LocalShape, Executing
  <2>3. next \in WorkerType /\ LocalShape(next) /\ CallShape(next, call[w])
    BY <1>0, <2>1 DEF Results, WorkerType, LocalShape, CallShape
  <2>4. worker' = [worker EXCEPT ![w] = next] /\ call' = [call EXCEPT ![w] = call[w]]
    BY <1>0, <1>7, <2>1 DEF HandlerReturnsDuringRenewal, WorkersGood
  <2> HIDE DEF next
  <2>5. WorkersGood'
    BY <1>0, <2>3, <2>4, WorkerMoves
  <2>6. OrphansGood'
    BY <1>7 DEF HandlerReturnsDuringRenewal, TypeInv, OrphansGood
  <2> QED
    BY <1>7, <1>d, <1>f, <2>1, <2>2, <2>5, <2>6 DEF HandlerReturnsDuringRenewal
<1>8. CASE StartRenewal(w)
  <2> DEFINE next == [me EXCEPT !.pc = "renew", !.started = NOW]
  <2>1. next \in WorkerType /\ next.pc \in Awaiting
    BY <1>0, NowInstant DEF WorkerType, Awaiting, Pcs
  <2>2. LocalShape(next)
    BY <1>0, <1>8, QueueConstants DEF StartRenewal, LocalShape, Executing, NOW, WorkerType
  <2>3. Send(w, next)
    BY <1>8 DEF StartRenewal
  <2> HIDE DEF next
  <2> QED
    BY <1>8, <1>b, <1>e, <2>1, <2>2, <2>3 DEF StartRenewal
<1>9. CASE RenewReply(w)
  <2>1. /\ AfterRenewal(w) \in WorkerType /\ LocalShape(AfterRenewal(w))
        /\ AfterRenewal(w).pc = "run"
    BY <1>0, <1>9, AfterRenewalGood DEF RenewReply
  <2>2. WorkersGood'
    <3>1. CASE Move(w, AfterRenewal(w))
      BY <1>c, <2>1, <3>1
    <3>2. CASE SendTerminal(w, AfterRenewal(w), me.handler)
      BY <1>0, <2>1, <3>2, TerminalSends DEF Executing
    <3> QED
      BY <1>9, <3>1, <3>2 DEF RenewReply
  <2> QED
    BY <1>9, <1>e, <2>2 DEF RenewReply
<1>10. CASE RenewLeaseLost(w)
  BY <1>0, <1>10, <1>e, RestMoves DEF RenewLeaseLost
<1>11. CASE TerminalReply(w)
  BY <1>0, <1>11, <1>e, RestMoves DEF TerminalReply
<1>12. CASE LeaseTimeout(w)
  <2>1. WorkersGood'
    BY <1>0, <1>12, RestMoves DEF LeaseTimeout
  <2>2. OrphansGood'
    BY <1>12, AbandonGood DEF LeaseTimeout
  <2>3. UNCHANGED <<jobs, succeeded>>
    BY <1>12 DEF LeaseTimeout
  <2> QED
    BY <1>d, <2>1, <2>2, <2>3 DEF TypeInv
<1>13. CASE Restart(w)
  BY <1>0, <1>13, <1>e, RestMoves DEF Restart
<1> QED
  BY <1>1, <1>2, <1>3, <1>4, <1>5, <1>6, <1>7, <1>8, <1>9, <1>10, <1>11, <1>12, <1>13
     DEF WorkerStep

LEMMA TypeInvInductive ==
    /\ Init => TypeInv
    /\ TypeInv /\ [Next]_vars => TypeInv'
<1>1. Init => TypeInv
  <2> SUFFICES ASSUME Init PROVE TypeInv
    OBVIOUS
  <2>1. GoodTable(jobs)
    BY NoRowGood DEF Init, QInit, GoodTable, GoodRow
  <2>2. WorkersGood
    BY AtGood, ReplyTypes DEF Init, WorkersGood, WorkerShape, CallShape, Reply, At
  <2> QED
    BY <2>1, <2>2 DEF Init, TypeInv, OrphansGood
<1>2. TypeInv /\ [Next]_vars => TypeInv'
  <2> SUFFICES ASSUME TypeInv, [Next]_vars PROVE TypeInv'
    OBVIOUS
  <2>1. CASE UNCHANGED vars
    BY <2>1 DEF vars, TypeInv, WorkersGood, OrphansGood, WorkerShape
  <2>2. CASE Produce
    <3>1. GoodTable(jobs')
      BY <2>2, OthersKeepTable DEF Produce, TypeInv
    <3> QED
      BY <2>2, <3>1 DEF Produce, TypeInv, WorkersGood, OrphansGood, WorkerShape
  <2>3. CASE Tick
    <3>1. GoodTable(jobs')
      BY <2>3, OthersKeepTable DEF Tick, TypeInv
    <3>2. ASSUME NEW me \in WorkerType, LocalShape(me)
          PROVE  AgedWorker(me) \in WorkerType /\ LocalShape(AgedWorker(me))
      <4>1. AgedWorker(me) \in WorkerType
        BY AgedInstant DEF AgedWorker, WorkerType
      <4>2. \A t \in Instant \cup {Null} :
              /\ t # Null => Aged(t) # Null /\ t \in Instant /\ Aged(t) \in Instant /\ Aged(t) <= t
              /\ Aged(t) # Null => t # Null
        BY AgedInstant, QueueConstants DEF Instant
      <4>3. LocalShape(AgedWorker(me))
        BY <3>2, <4>1, <4>2, QueueConstants
           DEF AgedWorker, WorkerType, LocalShape, NOW, Instant
      <4> QED
        BY <4>1, <4>3
    <3>3. ASSUME NEW me, NEW c \in CallType, CallShape(me, c)
          PROVE  AgedCall(c) \in CallType /\ CallShape(AgedWorker(me), AgedCall(c))
      <4>1. AgedWorker(me).pc = me.pc
        BY DEF AgedWorker
      <4> QED
        BY <3>3, QueueConstants DEF AgedCall, AgedSent, CallType, CallShape, NOW, AgedWorker
    <3>4. WorkersGood'
      BY <2>3, <3>2, <3>3 DEF Tick, TypeInv, WorkersGood, WorkerShape
    <3>5. OrphansGood'
      <4>1. ASSUME NEW s \in StatementType, StatementShape(s)
            PROVE  AgedSent(s) \in StatementType /\ StatementShape(AgedSent(s))
        BY <4>1, QueueConstants DEF AgedSent, StatementType, StatementShape, NOW
      <4> QED
        BY <2>3, <4>1 DEF Tick, TypeInv, OrphansGood
    <3> QED
      BY <2>3, <3>1, <3>4, <3>5 DEF Tick, TypeInv
  <2>4. ASSUME NEW s \in orphans, ExecuteOrphan(s) PROVE TypeInv'
    <3>1. s \in StatementType /\ StatementShape(s)
      BY DEF TypeInv, OrphansGood
    <3>2. PICK ts \in StartInstants(s.sent), skipped \in MaySkip(s) :
             \E o \in Outcomes(s, ts, skipped) : jobs' = o.table
      BY <2>4 DEF ExecuteOrphan
    <3>3. GoodTable(jobs')
      BY <3>1, <3>2, StartInstant, OutcomeTypes DEF TypeInv
    <3> QED
      BY <2>4, <3>3 DEF ExecuteOrphan, TypeInv, WorkersGood, OrphansGood, WorkerShape
  <2>5. ASSUME NEW w \in Workers, Execute(w) PROVE TypeInv'
    <3>0. /\ WorkersGood /\ worker[w] \in WorkerType /\ LocalShape(worker[w])
          /\ CallShape(worker[w], call[w]) /\ call[w].kind = "sent"
      BY <2>5 DEF TypeInv, WorkersGood, WorkerShape, Execute
    <3> DEFINE s == StatementOf(w)
    <3>1. s \in StatementType /\ StatementShape(s) /\ s.op = worker[w].pc
      BY <3>0, StatementOfTypes DEF StatementOf
    <3> HIDE DEF s
    <3>2. PICK ts \in StartInstants(s.sent), skipped \in MaySkip(s) :
             \E o \in Outcomes(s, ts, skipped) :
                jobs' = o.table /\ call' = [call EXCEPT ![w] = o.reply]
      BY <2>5 DEF Execute, s
    <3>3. PICK o \in Outcomes(s, ts, skipped) :
             jobs' = o.table /\ call' = [call EXCEPT ![w] = o.reply]
      BY <3>2
    <3>4. /\ GoodTable(o.table) /\ o.reply \in CallType /\ o.reply.kind # "sent"
          /\ s.op = "select" /\ o.reply.kind = "ok" =>
                o.reply.job \in Jobs /\ o.reply.attempt > 0
      <4>1. ts \in Instant
        BY StartInstant
      <4> QED
        BY <3>1, <4>1, OutcomeTypes DEF TypeInv
    <3>5. CallShape(worker[w], o.reply)
      BY <3>0, <3>1, <3>4 DEF CallShape, Awaiting
    <3>6. worker' = [worker EXCEPT ![w] = worker[w]]
      BY <2>5, <3>0 DEF Execute, WorkersGood
    <3>7. WorkersGood'
      BY <3>0, <3>3, <3>4, <3>5, <3>6, WorkerMoves
    <3> QED
      BY <2>5, <3>3, <3>4, <3>7 DEF Execute, TypeInv, OrphansGood
  <2>6. ASSUME NEW w \in Workers, Disconnect(w) PROVE TypeInv'
    <3>0. /\ WorkersGood /\ worker[w] \in WorkerType /\ LocalShape(worker[w])
          /\ CallShape(worker[w], call[w]) /\ call[w].kind = "sent"
      BY <2>6 DEF TypeInv, WorkersGood, WorkerShape, Disconnect
    <3>1. CallShape(worker[w], Reply("unavailable"))
      BY <3>0 DEF CallShape, Awaiting, Reply
    <3>2. /\ worker' = [worker EXCEPT ![w] = worker[w]]
          /\ call' = [call EXCEPT ![w] = Reply("unavailable")]
      BY <2>6, <3>0 DEF Disconnect, WorkersGood
    <3>3. WorkersGood'
      BY <3>0, <3>1, <3>2, ReplyTypes, WorkerMoves
    <3>4. OrphansGood'
      BY <2>6, AbandonGood DEF Disconnect
    <3> QED
      BY <2>6, <3>3, <3>4 DEF Disconnect, TypeInv
  <2>7. ASSUME NEW w \in Workers, Crash(w) PROVE TypeInv'
    <3>1. WorkersGood'
      BY <2>7, RestMoves DEF Crash, TypeInv
    <3>2. OrphansGood'
      BY <2>7, AbandonGood DEF Crash
    <3> QED
      BY <2>7, <3>1, <3>2 DEF Crash, TypeInv
  <2> QED
    BY <2>1, <2>2, <2>3, <2>4, <2>5, <2>6, <2>7, WorkerStepKeepsType DEF Next
<1> QED
  BY <1>1, <1>2

\* Worker, call and abandoned-statement state keep their types in every
\* interleaving of worker.rs with PostgreSQL, failures included.
THEOREM WorkerTypes == Spec => []TypeOK
<1>1. TypeInv => TypeOK
  BY DEF TypeInv, TypeOK, GoodTable, QTypeOK, WorkersGood, OrphansGood
<1> QED
  BY <1>1, TypeInvInductive, PTL DEF Spec
=============================================================================
