---------------------------- MODULE RelativeTime ----------------------------
(***************************************************************************)
(* Clocks.  Every timestamp is stored relative to the present: NOW is 0, a *)
(* past instant is negative, and a tick moves every stored instant one     *)
(* unit down.  Comparisons read as they do in the code.  Instants older    *)
(* than Horizon are kept at -Horizon: as every duration the code compares  *)
(* with is shorter, time is unbounded and the state space is finite.       *)
(***************************************************************************)
EXTENDS Integers

CONSTANTS
    Null,         \* no instant: SQL NULL, None
    Horizon       \* BOUND: older instants are indistinguishable

NOW == 0

Instant == {t \in Int : t >= -Horizon}

\* One unit of time passes for a stored instant.
Aged(t) == IF t = Null THEN Null ELSE IF t > -Horizon THEN t - 1 ELSE t
=============================================================================
