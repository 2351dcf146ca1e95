---------------------------- MODULE LeasedQueue ----------------------------
(***************************************************************************)
(* What the job queue promises its producers and handlers, whatever the    *)
(* table, the statements, the clocks and the network do: a job is tried at *)
(* most as often as its budget allows, held by at most one worker at a     *)
(* time, completed only after its handler succeeded in the current try,    *)
(* and dead only with nothing left.  JobWorker.tla implements it.          *)
(***************************************************************************)
EXTENDS Naturals

CONSTANTS
    Jobs,
    Workers,
    Budgets,      \* tries a producer may ask for
    RetryGrant    \* tries the operator gives a dead job

VARIABLES
    phase,        \* job -> where it stands
    left,         \* job -> tries left
    holders,      \* job -> workers entitled to act on the current try
    handled       \* job -> the handler succeeded in the current try

lvars == <<phase, left, holders, handled>>

Init ==
    /\ phase = [j \in Jobs |-> "absent"]
    /\ left = [j \in Jobs |-> 0]
    /\ holders = [j \in Jobs |-> {}]
    /\ handled = [j \in Jobs |-> FALSE]

\* Job j goes from phase `from` to phase `to` with n tries left: whoever held
\* it, and what its handler returned, is of the past.
Moves(j, from, to, n) ==
    /\ phase[j] = from
    /\ phase'[j] = to
    /\ left'[j] = n
    /\ holders'[j] = {}
    /\ handled'[j] = FALSE

Submit(j) == \E n \in Budgets : Moves(j, "absent", "waiting", n)

Grant(j) == left[j] > 0 /\ Moves(j, "waiting", "running", left[j] - 1)

Finish(j) == handled[j] /\ Moves(j, "running", "completed", left[j])

\* The try failed or its lease expired.
Return(j) == Moves(j, "running", IF left[j] = 0 THEN "dead" ELSE "waiting", left[j])

Revive(j) == Moves(j, "dead", "waiting", RetryGrant)

Purge(j) == \E from \in {"completed", "dead"} : Moves(j, from, "purged", 0)

\* A worker that learnt of the grant, or renewed it, is entitled to act.
Hold(j) ==
    /\ phase[j] = "running" /\ holders[j] = {}
    /\ \E w \in Workers : holders'[j] = {w}
    /\ UNCHANGED <<phase[j], left[j], handled[j]>>

\* Its entitlement ends: it says so, dies, or its time is over.
LetGo(j) ==
    /\ holders'[j] = {}
    /\ UNCHANGED <<phase[j], left[j], handled[j]>>

Handle(j) ==
    /\ phase[j] = "running"
    /\ handled'[j] = TRUE
    /\ UNCHANGED <<phase[j], left[j], holders[j]>>

Keep(j) == UNCHANGED <<phase[j], left[j], holders[j], handled[j]>>

\* One statement may move several jobs, and each moves by itself.
Next ==
    \A j \in Jobs :
        \/ Keep(j) \/ LetGo(j) \/ Hold(j) \/ Handle(j)
        \/ Submit(j) \/ Grant(j) \/ Finish(j) \/ Return(j) \/ Revive(j) \/ Purge(j)

Spec == Init /\ [][Next]_lvars
=============================================================================
