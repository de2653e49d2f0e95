------------------------------ MODULE Durations ------------------------------
(***************************************************************************)
(* time.Duration (external): an int64 number of nanoseconds, in two's      *)
(* complement. maxDuration is 2^63 - 1; instances use fewer bits.          *)
(***************************************************************************)
EXTENDS Integers

CONSTANT maxDuration

ASSUME DurationAssumption == maxDuration \in Nat

minDuration == -maxDuration - 1

\* What is left of a result that may not fit.
Wrap(x) == ((x - minDuration) % (2 * (maxDuration + 1))) + minDuration

\* x / d: division truncates towards zero.
Quotient(x, d) == IF x >= 0 THEN x \div d ELSE -((-x) \div d)
====
