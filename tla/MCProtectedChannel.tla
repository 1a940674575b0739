------------------------- MODULE MCProtectedChannel -------------------------
(* ProtectedChannel with two goroutines and a short port span. *)
EXTENDS ProtectedChannel

CONSTANTS t1, t2

TwoThreads == {t1, t2}

\* The first lease may open either carrier, its renewal UDP.
FirstBoth == [g \in Gens |-> IF g = 1 THEN {"tcp", "udp"} ELSE {"udp"}]
=============================================================================
