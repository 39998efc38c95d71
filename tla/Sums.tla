-------------------------------- MODULE Sums --------------------------------
(* Sums over a finite set, as the invariants about amounts need them. *)
EXTENDS Integers, FiniteSetsExt

\* The sum of a function's values at the arguments in S.
SumOf(f, S) == MapThenSumSet(LAMBDA x : f[x], S)
=============================================================================
