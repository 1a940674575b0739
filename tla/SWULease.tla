------------------------------ MODULE SWULease ------------------------------
(***************************************************************************)
(* The leases of the SWu sessions that one runtime opens, one for each     *)
(* ePDG candidate (runtimehost swuSessionLease): the Connect task, MOBIKE  *)
(* admission, and the cleanup which waits for the MOBIKE operations,       *)
(* cancels the session and joins it.                                       *)
(***************************************************************************)
EXTENDS Naturals

CONSTANTS
    MaxCandidate,  \* addresses tried at most (maxEPDGCandidates)
    Callers        \* goroutines that call the runtime

ASSUME LeaseAssumption == MaxCandidate \in Nat \ {0}

Candidates == 1..MaxCandidate

VARIABLES
    session,    \* where the Connect task of each lease is
    ready,      \* leases whose OnReady has come (readySeen, the ready channel)
    stopping,   \* leases that admit no MOBIKE operation
    mobike,     \* callers inside UpdateAddresses of each lease
    cleanup,    \* where the cleanup goroutine of each lease is
    cancelled   \* sessions whose context is cancelled or that are shut down

leaseVars == <<session, ready, stopping, mobike, cleanup, cancelled>>

Running == {"connecting", "up", "returned"}
Cleaning == {"draining", "cancelling", "joining", "done"}

LeaseTypeOK ==
    /\ session \in [Candidates -> {"none", "joined"} \cup Running]
    /\ ready \subseteq Candidates /\ stopping \subseteq Candidates /\ cancelled \subseteq Candidates
    /\ mobike \in [Candidates -> SUBSET Callers]
    /\ cleanup \in [Candidates -> {"none"} \cup Cleaning]

LeaseInit ==
    /\ session = [c \in Candidates |-> "none"]
    /\ ready = {} /\ stopping = {} /\ cancelled = {}
    /\ mobike = [c \in Candidates |-> {}]
    /\ cleanup = [c \in Candidates |-> "none"]

-----------------------------------------------------------------------------
(* The Connect task *)

\* newSWUSessionLease and start.
OpenLease(c) ==
    /\ session[c] = "none"
    /\ session' = [session EXCEPT ![c] = "connecting"]
    /\ UNCHANGED <<ready, stopping, mobike, cleanup, cancelled>>

\* OnReady, which may come after the session was cancelled.
MarkReady(c) ==
    /\ session[c] = "connecting"
    /\ session' = [session EXCEPT ![c] = "up"]
    /\ ready' = ready \cup {c}
    /\ UNCHANGED <<stopping, mobike, cleanup, cancelled>>

\* Connect returns: it failed, the tunnel is lost, or it was cancelled.
ConnectReturns(c) ==
    /\ session[c] \in {"connecting", "up"}
    /\ session' = [session EXCEPT ![c] = IF c \in ready THEN "returned" ELSE "joined"]
    /\ UNCHANGED <<ready, stopping, mobike, cleanup, cancelled>>

\* WaitDone of a session that was ready, then close(joined).
SessionDone(c) ==
    /\ session[c] = "returned"
    /\ session' = [session EXCEPT ![c] = "joined"]
    /\ UNCHANGED <<ready, stopping, mobike, cleanup, cancelled>>

-----------------------------------------------------------------------------
(* MOBIKE *)

acquireMOBIKE(c, p) ==
    /\ c \notin stopping
    /\ mobike' = [mobike EXCEPT ![c] = @ \cup {p}]
    /\ UNCHANGED <<session, ready, stopping, cleanup, cancelled>>

releaseMOBIKE(c, p) ==
    /\ p \in mobike[c]
    /\ mobike' = [mobike EXCEPT ![c] = @ \ {p}]
    /\ UNCHANGED <<session, ready, stopping, cleanup, cancelled>>

-----------------------------------------------------------------------------
(* Cleanup *)

BeginStop(c) ==
    /\ stopping' = stopping \cup {c}
    /\ UNCHANGED <<session, ready, mobike, cleanup, cancelled>>

\* startCleanup: BeginStop, and the cleanup goroutine unless it was started before.
\* Without a MOBIKE operation there is nothing to drain.
startCleanup(c) ==
    /\ stopping' = stopping \cup {c}
    /\ cleanup' = [cleanup EXCEPT ![c] =
                      IF @ # "none" THEN @ ELSE IF mobike[c] = {} THEN "cancelling" ELSE "draining"]
    /\ UNCHANGED <<session, ready, mobike, cancelled>>

\* The admitted MOBIKE operations are over: close(mobikeDrained).
Drain(c) ==
    /\ cleanup[c] = "draining"
    /\ mobike[c] = {}
    /\ cleanup' = [cleanup EXCEPT ![c] = "cancelling"]
    /\ UNCHANGED <<session, ready, stopping, mobike, cancelled>>

\* Mutation of cancelSession: a session that is not ready has nothing to shut down.
cancelSessionWhenReady(c) ==
    /\ cleanup[c] = "cancelling"
    /\ cancelled' = IF c \in ready THEN cancelled \cup {c} ELSE cancelled
    /\ cleanup' = [cleanup EXCEPT ![c] = "joining"]
    /\ UNCHANGED <<session, ready, stopping, mobike>>

cancelSession(c) ==
    /\ cleanup[c] = "cancelling"
    /\ cancelled' = cancelled \cup {c}
    /\ cleanup' = [cleanup EXCEPT ![c] = "joining"]
    /\ UNCHANGED <<session, ready, stopping, mobike>>

FinishCleanup(c) ==
    /\ cleanup[c] = "joining"
    /\ session[c] = "joined"
    /\ cleanup' = [cleanup EXCEPT ![c] = "done"]
    /\ UNCHANGED <<session, ready, stopping, mobike, cancelled>>

\* What the two stages of CancelAndJoin wait for.
Drained(c) == cleanup[c] \in {"cancelling", "joining", "done"}
Joined(c) == cleanup[c] = "done"
=============================================================================
