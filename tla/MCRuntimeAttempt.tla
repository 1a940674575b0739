------------------------- MODULE MCRuntimeAttempt -------------------------
(* RuntimeAttempt on small sets of calls and schedule goroutines. *)
EXTENDS RuntimeAttempt, TLC

CONSTANTS c1, c2, c3, j1, j2

TwoCalls == {c1, c2}
ThreeCalls == {c1, c2, c3}
NoJob == {}
OneJob == {j1}
TwoJobs == {j1, j2}

\* Calls are interchangeable: every one may make any of the operations.
Symmetry == Permutations(Calls) \cup Permutations(Jobs)
=============================================================================
