----------------------------- MODULE ApduArbiter -----------------------------
(***************************************************************************)
(* The APDU arbiter of one device (internal/apduarbiter): a queue of       *)
(* tickets under one mutex, leases of four kinds (session, one-shot,       *)
(* transport, barrier), a watchdog per lease and the suspect state that    *)
(* fences the transport until its owner or a recovery ends it.             *)
(*                                                                         *)
(* A caller makes one request.  One action is one critical section of      *)
(* Arbiter.mu.  A waiter sleeps on the notifyC it read under the mutex;    *)
(* signalLocked closes that channel, and the waiter is in `awake' until    *)
(* it has looked at the queue again.                                       *)
(***************************************************************************)
EXTENDS Naturals, Sequences, FiniteSets

CONSTANTS
    Callers,           \* goroutines, each with one request
    Requests,          \* what a caller may ask for
    MaxSessions,       \* Options.MaxSessions
    MaxQMITransports,  \* Options.MaxQMITransports
    RecoveryOptions,   \* Options.RecoverTransport is set: the values explored
    MayAge             \* a ticket may wait longer than transportPriorityAging

Types == {"session", "oneshot", "transport", "barrier"}
Scopes == {"exclusive", "qmi"}

\* A request: its lease type, APDU class, logical channel and scope as
\* normalizeTransportScope leaves it, and the classes a barrier blocks.
ASSUME ConstantsAssumption ==
    /\ IsFiniteSet(Callers)
    /\ MaxSessions \in Nat \ {0} /\ MaxQMITransports \in Nat \ {0}
    /\ RecoveryOptions \subseteq BOOLEAN /\ MayAge \in BOOLEAN
    /\ \A r \in Requests : r.type \in Types /\ r.scope \in Scopes

VARIABLES
    queue,     \* callers with a ticket, in the order of the queue
    request,   \* the request of each caller
    phase,     \* its active lease or barrier, and what the watchdog made of it
    pc,        \* where the caller is
    awake,     \* waiters whose notifyC is closed and who will look again
    aged,      \* queued callers that waited transportPriorityAging
    recovers   \* Options.RecoverTransport # nil

vars == <<queue, request, phase, pc, awake, aged, recovers>>

\* "none" is not active, "held" an armed watchdog, "fired" a watchdog that waits
\* for the mutex, "extended" one overtaken by a Touch, "recovering" and
\* "suspect" a suspect lease with and without its recovery in flight.
Phases == {"none", "held", "fired", "extended", "recovering", "suspect"}

\* "gone" is ownerDone: Release came while the recovery was in flight.
Places == {"idle", "waiting", "watching", "holding", "gone", "done"}

TypeOK ==
    /\ queue \in Seq(Callers)
    /\ request \in [Callers -> Requests]
    /\ phase \in [Callers -> Phases]
    /\ pc \in [Callers -> Places]
    /\ awake \subseteq {c \in Callers : pc[c] \in {"waiting", "watching"}}
    /\ aged \subseteq Callers
    /\ recovers \in BOOLEAN

Init ==
    /\ queue = << >>
    /\ request \in [Callers -> Requests]
    /\ phase = [c \in Callers |-> "none"]
    /\ pc = [c \in Callers |-> "idle"]
    /\ awake = {}
    /\ aged = {}
    /\ recovers \in RecoveryOptions

-----------------------------------------------------------------------------
(* What is active *)

Is(c, type) == request[c].type = type
Active(type) == {c \in Callers : phase[c] # "none" /\ Is(c, type)}
QMIActive == {c \in Active("transport") : request[c].scope = "qmi"}
Suspect == {c \in Callers : phase[c] \in {"recovering", "suspect"}}
NoLease == Active("session") \cup Active("oneshot") \cup Active("transport") = {}

isBlockedByActiveBarrier(c) ==
    \E b \in Active("barrier") : request[c].class \in request[b].blocked

hasPendingBarrierAhead(c, q) ==
    \E i, j \in DOMAIN q : /\ i < j /\ q[j] = c /\ Is(q[i], "barrier")
                           /\ request[c].class \in request[q[i]].blocked

-----------------------------------------------------------------------------
(* Which transport ticket is next *)

canAcquireOnAnyChannel(c) ==
    /\ Active("transport") \cap Suspect = {}
    /\ IF request[c].scope = "exclusive" THEN Active("transport") = {}
       ELSE /\ Active("transport") = QMIActive
            /\ Cardinality(QMIActive) < MaxQMITransports

canAcquireTransportNow(c) ==
    /\ Active("transport") \cap Suspect = {}
    /\ IF request[c].scope = "exclusive" THEN Active("transport") = {}
       ELSE /\ Active("transport") = QMIActive
            /\ Cardinality(QMIActive) < MaxQMITransports
            /\ \A d \in QMIActive : request[d].channel # request[c].channel

\* Mutation: a waiting exclusive transport does not hold back the queue.
transportWaitGatesWhenFull(c) ==
    Active("transport") \cap Suspect # {} \/ Cardinality(QMIActive) >= MaxQMITransports

\* A ticket that must wait for more than its own channel holds back the queue.
transportWaitGatesQueue(c) ==
    \/ Active("transport") \cap Suspect # {}
    \/ request[c].scope = "exclusive"
    \/ Active("transport") # QMIActive
    \/ Cardinality(QMIActive) >= MaxQMITransports

\* The scan of the queue stops at a barrier, at a legacy lease and at a gate.
StopsScan(c) ==
    \/ ~Is(c, "transport")
    \/ /\ ~isBlockedByActiveBarrier(c)
       /\ ~canAcquireTransportNow(c) /\ transportWaitGatesQueue(c)

Eligible(q) ==
    LET stops == {j \in DOMAIN q : StopsScan(q[j])} IN
    {i \in DOMAIN q : /\ \A j \in stops : i < j
                      /\ ~isBlockedByActiveBarrier(q[i])
                      /\ canAcquireTransportNow(q[i])}

Oldest(S) == {i \in S : \A j \in S : i <= j}

selectedTransport(q) ==
    LET E == Eligible(q)
        AKA == {i \in E : request[q[i]].class = "USIMAKA"}
        agedNonAKA == {i \in E \ AKA : q[i] \in aged}
    IN {q[i] : i \in Oldest(IF agedNonAKA # {} THEN agedNonAKA ELSE IF AKA # {} THEN AKA ELSE E)}

-----------------------------------------------------------------------------
(* Acquisition *)

\* Mutation: a barrier does not wait for the active leases.
canAcquireBarrierEarly(c, q) ==
    \E i \in DOMAIN q : q[i] = c /\ \A j \in 1..(i - 1) : ~Is(q[j], "barrier")

canAcquireBarrier(c, q) ==
    /\ NoLease
    /\ \E i \in DOMAIN q : /\ q[i] = c
                           /\ \A j \in 1..(i - 1) : ~Is(q[j], "barrier")

canAcquireLease(c, q) ==
    /\ ~isBlockedByActiveBarrier(c)
    /\ ~hasPendingBarrierAhead(c, q)
    /\ \/ /\ Is(c, "session") /\ q[1] = c
          /\ Active("oneshot") = {} /\ Active("transport") = {}
          /\ Cardinality(Active("session")) < MaxSessions
       \/ Is(c, "oneshot") /\ q[1] = c /\ NoLease
       \/ /\ Is(c, "transport")
          /\ Active("session") = {} /\ Active("oneshot") = {}
          /\ c \in selectedTransport(q)

canAcquire(c, q) ==
    IF Is(c, "barrier") THEN canAcquireBarrier(c, q) ELSE canAcquireLease(c, q)

\* removeTicketLocked: the ticket of c leaves the queue, which has one.
Without(q, c) ==
    LET k == CHOOSE i \in DOMAIN q : q[i] = c
    IN [i \in 1..(Len(q) - 1) |-> IF i < k THEN q[i] ELSE q[i + 1]]

Waiters == {c \in Callers : pc[c] \in {"waiting", "watching"}}

\* signalLocked: everyone waiting after the step looks again, except a caller
\* that takes its notifyC only now.
Signal(new) == awake' = Waiters' \ new

Goto(c, place) == pc' = [pc EXCEPT ![c] = place]

Acquire(c, q) ==
    /\ queue' = Without(q, c)
    /\ phase' = [phase EXCEPT ![c] = "held"]
    /\ aged' = aged \ {c}
    /\ Goto(c, "holding")
    /\ Signal({})

\* acquire and BeginBarrier up to their first wait: one critical section.
Request(c) ==
    LET q == Append(queue, c) IN
    /\ pc[c] = "idle"
    /\ \/ canAcquire(c, q) /\ Acquire(c, q)
       \/ /\ ~canAcquire(c, q)
          /\ queue' = q
          /\ Goto(c, "waiting")
          /\ Signal({c})
          /\ UNCHANGED <<phase, aged>>
    /\ UNCHANGED <<request, recovers>>

\* The waiter that was signalled takes the mutex and looks again.
LookAgain(c) ==
    /\ pc[c] = "waiting" /\ c \in awake
    /\ \/ canAcquire(c, queue) /\ Acquire(c, queue)
       \/ /\ ~canAcquire(c, queue)
          /\ awake' = awake \ {c}
          /\ UNCHANGED <<queue, phase, aged, pc>>
    /\ UNCHANGED <<request, recovers>>

\* Mutation: a timeout signals nobody.
TimeoutUnsignalled(c) ==
    /\ pc[c] = "waiting"
    /\ queue' = Without(queue, c)
    /\ aged' = aged \ {c}
    /\ awake' = awake \ {c}
    /\ Goto(c, "done")
    /\ UNCHANGED <<request, phase, recovers>>

\* Mutation: a ticket that timed out is not taken out of the signalled ones.
TimeoutStillAwake(c) ==
    /\ pc[c] = "waiting"
    /\ queue' = Without(queue, c)
    /\ aged' = aged \ {c}
    /\ awake' = Waiters
    /\ Goto(c, "done")
    /\ UNCHANGED <<request, phase, recovers>>

\* ctx.Done() while the caller waits: its ticket leaves the queue.
Timeout(c) ==
    /\ pc[c] = "waiting"
    /\ queue' = Without(queue, c)
    /\ aged' = aged \ {c}
    /\ Goto(c, "done")
    /\ Signal({})
    /\ UNCHANGED <<request, phase, recovers>>

\* The ticket has been queued for transportPriorityAging.  Nobody is signalled.
Age(c) ==
    /\ MayAge /\ pc[c] = "waiting" /\ c \notin aged
    /\ Is(c, "transport") /\ request[c].class # "USIMAKA"
    /\ aged' = aged \cup {c}
    /\ UNCHANGED <<queue, request, phase, pc, awake, recovers>>

-----------------------------------------------------------------------------
(* WaitIdle *)

isIdle == queue = << >> /\ \A c \in Callers : phase[c] = "none"

WaitIdle(c) ==
    /\ pc[c] = "idle"
    /\ Goto(c, IF isIdle THEN "done" ELSE "watching")
    /\ UNCHANGED <<queue, request, phase, awake, aged, recovers>>

\* A watcher that was signalled looks again.
LookIdle(c) ==
    /\ pc[c] = "watching" /\ c \in awake
    /\ awake' = awake \ {c}
    /\ Goto(c, IF isIdle THEN "done" ELSE "watching")
    /\ UNCHANGED <<queue, request, phase, aged, recovers>>

\* ctx.Done() while watching: no ticket to remove, nobody to signal.
WatchTimeout(c) ==
    /\ pc[c] = "watching"
    /\ awake' = awake \ {c}
    /\ Goto(c, "done")
    /\ UNCHANGED <<queue, request, phase, aged, recovers>>

-----------------------------------------------------------------------------
(* Owners, the watchdog and the recovery *)

\* Lease.Touch: a lease that is not suspect gets a new deadline.
Touch(c) ==
    /\ pc[c] = "holding" /\ phase[c] = "fired"
    /\ phase' = [phase EXCEPT ![c] = "extended"]
    /\ UNCHANGED <<queue, request, pc, awake, aged, recovers>>

\* Mutation: a release signals nobody.
ReleaseUnsignalled(c) ==
    /\ pc[c] = "holding"
    /\ phase' = [phase EXCEPT ![c] = IF @ = "recovering" THEN @ ELSE "none"]
    /\ Goto(c, IF phase[c] = "recovering" THEN "gone" ELSE "done")
    /\ UNCHANGED <<queue, request, awake, aged, recovers>>

\* Lease.Release and Barrier.Release, once.  A lease whose recovery is in
\* flight stays; one the recovery has removed already is gone.
Release(c) ==
    /\ pc[c] = "holding"
    /\ \/ /\ phase[c] = "recovering"
          /\ Goto(c, "gone")
          /\ Signal({})
          /\ UNCHANGED phase
       \/ /\ phase[c] \notin {"none", "recovering"}
          /\ phase' = [phase EXCEPT ![c] = "none"]
          /\ Goto(c, "done")
          /\ Signal({})
       \/ /\ phase[c] = "none"
          /\ Goto(c, "done")
          /\ UNCHANGED <<phase, awake>>
    /\ UNCHANGED <<queue, request, aged, recovers>>

\* The watchdog of a lease fires after MaxLeaseHold without a Touch.
TimerFires(c) ==
    /\ phase[c] = "held" /\ ~Is(c, "barrier")
    /\ phase' = [phase EXCEPT ![c] = "fired"]
    /\ UNCHANGED <<queue, request, pc, awake, aged, recovers>>

\* releaseExpired takes the mutex: a lease touched meanwhile is armed again, an
\* expired one is suspect from here on.
releaseExpired(c) ==
    /\ \/ /\ phase[c] = "extended"
          /\ phase' = [phase EXCEPT ![c] = "held"]
          /\ UNCHANGED awake
       \/ /\ phase[c] = "fired"
          /\ phase' = [phase EXCEPT ![c] = IF recovers THEN "recovering" ELSE "suspect"]
          /\ awake' = Waiters
    /\ UNCHANGED <<queue, request, pc, aged, recovers>>

\* The recovery callback succeeded: releaseRecovered removes the lease.
releaseRecovered(c) ==
    /\ phase[c] = "recovering"
    /\ phase' = [phase EXCEPT ![c] = "none"]
    /\ pc' = [pc EXCEPT ![c] = IF @ = "gone" THEN "done" ELSE @]
    /\ awake' = Waiters
    /\ UNCHANGED <<queue, request, aged, recovers>>

\* The recovery callback failed: ownerDone is not looked at, nobody is signalled.
RecoveryFails(c) ==
    /\ phase[c] = "recovering"
    /\ phase' = [phase EXCEPT ![c] = "suspect"]
    /\ UNCHANGED <<queue, request, pc, awake, aged, recovers>>

\* The context of a barrier's owner ends: the barrier stays, and is suspect.
markBarrierSuspect(c) ==
    /\ phase[c] = "held" /\ Is(c, "barrier")
    /\ phase' = [phase EXCEPT ![c] = "suspect"]
    /\ awake' = Waiters
    /\ UNCHANGED <<queue, request, pc, aged, recovers>>

-----------------------------------------------------------------------------
Quiet ==
    /\ \A c \in Callers : pc[c] \in {"done", "gone"} /\ phase[c] # "recovering"
    /\ UNCHANGED vars

CallerStep(c) ==
    \/ LookAgain(c) \/ LookIdle(c) \/ Release(c)

WatchdogStep(c) ==
    \/ releaseExpired(c) \/ releaseRecovered(c) \/ RecoveryFails(c)

Environment(c) ==
    \/ Request(c) \/ WaitIdle(c) \/ Timeout(c) \/ WatchTimeout(c) \/ Age(c)
    \/ Touch(c) \/ TimerFires(c) \/ markBarrierSuspect(c)

Next == (\E c \in Callers : CallerStep(c) \/ WatchdogStep(c) \/ Environment(c)) \/ Quiet

Spec == Init /\ [][Next]_vars

\* A woken goroutine takes the mutex, an owner releases what it holds, and a
\* recovery ends (it runs under RecoveryTimeout).  Nobody must time out.
Fairness == \A c \in Callers : /\ WF_vars(LookAgain(c) \/ LookIdle(c))
                              /\ WF_vars(Release(c)) /\ WF_vars(WatchdogStep(c))

FairSpec == Spec /\ Fairness

-----------------------------------------------------------------------------
(* Properties *)

\* While a barrier is active, suspect or not, no lease of a class it blocks is:
\* an AKA never runs during a profile switch.
BarrierHolds ==
    \A b \in Active("barrier"), c \in Callers :
        phase[c] # "none" /\ ~Is(c, "barrier") => request[c].class \notin request[b].blocked

\* No lost wake-up: as long as no ticket has aged, a waiter whose turn it is has
\* been signalled and will look, whatever released, timed out or failed.
NoLostWakeup ==
    aged = {} =>
        /\ \A i \in DOMAIN queue : canAcquire(queue[i], queue) => queue[i] \in awake
        /\ \A c \in Callers : pc[c] = "watching" /\ isIdle => c \in awake

\* A suspect transport is fenced: until its owner is done or its recovery
\* succeeds, no lease and no barrier is granted.
SuspectIsFenced ==
    [][Active("transport") \cap Suspect # {} =>
         \A c \in Callers : phase[c] = "none" => phase'[c] = "none"]_vars

\* The arbiter implements the bus: seen through its active leases and the
\* suspect ones, queueing, ageing, timeouts, watchdogs and recoveries are grants
\* of compatible leases, suspicions and ends.
Bus == INSTANCE ApduBus WITH granted <- {c \in Callers : phase[c] # "none"},
                             suspect <- Suspect
Implements == Bus!Spec

\* An exclusive transport waiting for the modem is not overtaken by the QMI
\* channels queued after it, so a stream of them cannot starve it.
ExclusiveNotOvertaken ==
    [][\A i, j \in DOMAIN queue :
         /\ i < j /\ Is(queue[i], "transport") /\ request[queue[i]].scope = "exclusive"
         /\ ~isBlockedByActiveBarrier(queue[i]) /\ Active("transport") # {}
         => phase'[queue[j]] = "none"]_vars

\* A lease nobody will end: its recovery failed after its owner had let go.
Abandoned == \E c \in Callers : pc[c] = "gone" /\ phase[c] = "suspect"

\* Every request is answered without a timeout: callers ask a finite number of
\* times, so nobody is left waiting, unless a ticket has aged or an abandoned
\* lease holds the transport.
Served == []<>((\A c \in Callers : pc[c] # "waiting") \/ aged # {} \/ Abandoned)

-----------------------------------------------------------------------------
(* What the tests and comments say, and the code does not do *)

\* Ageing prevents the starvation of an eUICC transport: a ticket that has aged
\* is served.
AgedIsServed ==
    \A c \in Callers : c \in aged ~> c \notin aged \/ Abandoned

=============================================================================
