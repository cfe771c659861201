------------------------------- MODULE Clock -------------------------------
(***************************************************************************)
(* The time base of the daemon: now_ms() truncates gettimeofday() to a     *)
(* uint32_t, so time stamps are counted modulo Wrap (2^32 ms, 49.7 days,   *)
(* in the code) and differences of time stamps are unsigned differences.   *)
(* Both are written with a conditional instead of %, which keeps every     *)
(* formula linear.                                                         *)
(***************************************************************************)
EXTENDS Naturals

CONSTANT Wrap    \* number of distinct values of now_ms()

ASSUME WrapAssumption == Wrap \in Nat /\ Wrap > 1

Time == 0 .. (Wrap - 1)

\* Mutant of Later: a counter wider than uint32_t.
LaterUntruncated(t, d) == t + d

\* The reading of the clock d ticks after it read t (d < Wrap).
Later(t, d) == IF t + d < Wrap THEN t + d ELSE t + d - Wrap

\* The uint32_t difference  t - since.
Elapsed(t, since) == IF t >= since THEN t - since ELSE t + Wrap - since

\* Does the clock pass from Wrap - 1 to 0 in the d ticks after t?
Wraps(t, d) == t + d >= Wrap

Smaller(a, b) == IF a <= b THEN a ELSE b
Larger(a, b) == IF a >= b THEN a ELSE b
=============================================================================
