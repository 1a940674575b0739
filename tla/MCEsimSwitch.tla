----------------------------- MODULE MCEsimSwitch -----------------------------
(* EsimSwitch on a card with two profiles, one call for each.                 *)
EXTENDS EsimSwitch

CONSTANTS s1, s2, p1, p2

OneForEach == [s \in Switches |-> IF s = s1 THEN p1 ELSE p2]

MCInit == Init /\ profile = p2

\* Bound: the call for the profile that is not active comes first, on a worker
\* that another may follow, and the other one is made when it has its lock.
FirstCall ==
    /\ at'[s1] # MaxWorker
    /\ at'[s2] # 0 => pc'[s1] \notin {"idle", "queued"}

\* Bound: only the first switch is slow enough for the guard.
GuardOfFirst == ~(Guard /\ context.token = s2)

\* Bound: the last worker starts and is not removed, and the process does not
\* end under it: nobody would come after it.
LastWorkerStays == MaxWorker \in accepting => MaxWorker \in accepting' /\ worker' = worker

MCNext == Next /\ FirstCall /\ GuardOfFirst /\ LastWorkerStays

MCSpec == MCInit /\ [][MCNext]_vars
MCFairSpec == MCSpec /\ Fairness
=============================================================================
