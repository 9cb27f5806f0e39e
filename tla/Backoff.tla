------------------------------- MODULE Backoff -------------------------------
(***************************************************************************)
(* How long the supervisor waits before a restart: Backoff of              *)
(* process/supervisor.rs.  Durations are whole units of time, nanoseconds  *)
(* in the code, and short of the 584 years that fill 64 bits.  A product   *)
(* that saturates is as good as the exact one, because it exceeds every    *)
(* MaxDelay that is not itself the largest duration.                       *)
(***************************************************************************)
EXTENDS Integers

CONSTANTS InitialDelay, MaxDelay,   \* Backoff::exponential
          Jitter                    \* with_jitter

MaxExponent == 30

ASSUME BackoffAssumption ==
  /\ InitialDelay \in Nat /\ MaxDelay \in Nat /\ Jitter \in BOOLEAN
  /\ 2 ^ 0 = 1 /\ \A k \in 1 .. MaxExponent : 2 ^ k \in Nat /\ 2 ^ k = 2 * 2 ^ (k - 1)

Lesser(a, b) == IF a <= b THEN a ELSE b
Greater(a, b) == IF a <= b THEN b ELSE a

Base(attempt) == Lesser(InitialDelay * 2 ^ Lesser(attempt, MaxExponent), MaxDelay)

\* The clock and a counter, scrambled: time_entropy() can leave any remainder.
Entropy(modulus) == 0 .. modulus - 1

\* The offsets are centred on the base.
Jittered(base) ==
  LET span == base \div 2
  IN {base - span \div 2 + offset : offset \in Entropy(Greater(span, 1))}

\* With jitter even a delay of zero is one unit.
DelayFor(attempt) ==
  IF Jitter THEN Jittered(Greater(Base(attempt), 1)) ELSE {Base(attempt)}
=============================================================================
