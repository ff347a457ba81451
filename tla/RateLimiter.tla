----------------------------- MODULE RateLimiter ------------------------------
(***************************************************************************)
(* auth/ratelimit.go: a limiter of password attempts is the times of the   *)
(* failures it still counts and the end of its lockout.  Its methods as    *)
(* functions of the limiter and the current time.                          *)
(***************************************************************************)
EXTENDS Naturals, Sequences, FiniteSets

CONSTANTS
  MaxAttempts,  \* failures within Window that start a lockout, 0 = disabled
  Window,
  Lockout

ASSUME LimiterAssumption == {MaxAttempts, Window, Lockout} \subseteq Nat

NewLimiter == [failures |-> <<>>, lockedUntil |-> 0]

Allow(r, now) == MaxAttempts = 0 \/ now >= r.lockedUntil

\* The failures the moving window still holds.  They are recorded in the order
\* of time, so that the ones pruneBefore drops come first.
Recent(failures, now) ==
  LET aged == {i \in DOMAIN failures : failures[i] + Window < now}
  IN  SubSeq(failures, Cardinality(aged) + 1, Len(failures))

Exceeded(n) == n > MaxAttempts
Reached(n) == n >= MaxAttempts

\* The failure that reaches the limit starts the lockout and clears the count.
RecordFailure(r, now) ==
  LET counted == Append(Recent(r.failures, now), now) IN
  IF MaxAttempts = 0 THEN r
  ELSE IF Reached(Len(counted))
       THEN [failures |-> <<>>, lockedUntil |-> now + Lockout]
       ELSE [r EXCEPT !.failures = counted]

RecordSuccess(r) == NewLimiter
=============================================================================
