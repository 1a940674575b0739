------------------------------ MODULE EsimSwitch ------------------------------
(***************************************************************************)
(* The eSIM profile switch of one device: the durable journal              *)
(* (internal/db/esim_switch_journal.go), the switch that writes it ahead   *)
(* of each physical step (internal/esim/manager.go and                     *)
(* internal/device/pool_esim_switch.go) and the reconciliation that a new  *)
(* worker starts (pool_esim_switch_reconcile.go).                          *)
(*                                                                         *)
(* A worker is named by a number that stands for the pair (owner epoch,    *)
(* worker generation): the epoch is new in every process, the generation   *)
(* in every worker of it.  A switch names its call, its journal row and    *)
(* its token.  One action is one transaction of the journal, one critical  *)
(* section, or one physical step.                                          *)
(***************************************************************************)
EXTENDS Naturals

CONSTANTS
    Switches,      \* calls of SwitchProfile
    MaxWorker,     \* bound: workers registered in all processes together
    Profiles,      \* profiles of the card
    Target,        \* the profile each call asks for
    JournalFaults, \* a write of the journal may fail
    ReadFaults,    \* the live ICCID may be unreadable
    GuardMayFire,  \* the two-minute guard may clear the switch context
    None

Workers == 1..MaxWorker

ASSUME ConstantsAssumption ==
    /\ MaxWorker \in Nat \ {0}
    /\ Target \in [Switches -> Profiles]
    /\ {JournalFaults, ReadFaults, GuardMayFire} \subseteq BOOLEAN
    /\ None \notin Switches

Open == {"intent", "teardown", "apply", "accepted", "restoring", "needsRec"}
Terminal == {"failedBefore", "succeeded"}
Phases == Open \cup Terminal

VARIABLES
    row,       \* the journal: the row of each switch
    worker,    \* the worker in Pool.workers, 0 for none
    workers,   \* workers registered so far
    accepting, \* workers whose esimOperationOwner gives leases
    closed,    \* workers whose modem, transport and backend are closed
    removing,  \* the workers whose RemoveWorker waits for their leases
    context,   \* Pool.switchContexts and switchTokens of the device
    profile,   \* the active profile of the card
    down,      \* a teardown has released radio and VoWiFi, and they are not restored
    tried,     \* since then a restore ended that only logs what it cannot do
    pc, at,    \* where each call is, and the worker it was made on
    rec, seen, \* where the reconciliation of each worker is, and the row it read
    touched,   \* history: switches that acted on the device
    evidence,  \* history: switches whose EnableProfile, or whose live ICCID, said so
    robbed,    \* history: switches claimed while the modem of their worker was open
    late,      \* history: switches that a worker which was registered no more created or
               \* claimed since the last one was registered
    overtaken  \* history: workers that acted on the device when another was registered

pool == <<worker, workers, accepting, closed, removing>>
device == <<profile, down, tried, touched, evidence>>
past == <<late, overtaken>>
vars == <<row, worker, workers, accepting, closed, removing, context, profile, down, tried,
          pc, at, rec, seen, touched, evidence, robbed, late, overtaken>>

NoRow == [phase |-> "none", owner |-> 0, version |-> 0, reconciler |-> 0]
Rows == [phase : Phases, owner : Workers, version : Nat \ {0}, reconciler : 0..MaxWorker] \cup {NoRow}
NoContext == [token |-> None, phase |-> "none", version |-> 0, owner |-> 0]
Contexts == [token : Switches, phase : Phases, version : Nat \ {0}, owner : Workers] \cup {NoContext}
NothingSeen == [op |-> None, phase |-> "none", version |-> 0, owner |-> 0]
Seen == [op : Switches, phase : Phases, version : Nat \ {0}, owner : Workers] \cup {NothingSeen}

InWrite == {"begin", "create", "plan", "teardown", "tearing", "barrier", "prepare", "apply",
            "applying", "accept"}
InRecovery == {"recover", "validate", "converge", "complete"}
InFailure == {"persist", "check", "undo"}
CallPlaces == {"idle", "queued", "failed", "after", "busy", "done"}
                  \cup InWrite \cup InRecovery \cup InFailure
Reconciling == {"read", "claim", "fail", "look", "accept", "doubt", "plan", "restore", "restoring", "succeed"}
RecPlaces == {"none", "scheduled", "missed", "done"} \cup Reconciling

TypeOK ==
    /\ row \in [Switches -> Rows]
    /\ worker \in 0..MaxWorker /\ workers \in 0..MaxWorker /\ removing \subseteq Workers
    /\ accepting \subseteq Workers /\ closed \subseteq Workers
    /\ context \in Contexts
    /\ profile \in Profiles /\ down \in BOOLEAN /\ tried \in BOOLEAN
    /\ pc \in [Switches -> CallPlaces] /\ at \in [Switches -> 0..MaxWorker]
    /\ rec \in [Workers -> RecPlaces] /\ seen \in [Workers -> Seen]
    /\ touched \subseteq Switches /\ evidence \subseteq Switches /\ robbed \subseteq Switches
    /\ late \subseteq Switches /\ overtaken \subseteq Workers

Init ==
    /\ row = [s \in Switches |-> NoRow]
    /\ worker = 0 /\ workers = 0 /\ removing = {}
    /\ accepting = {} /\ closed = {}
    /\ context = NoContext
    /\ profile \in Profiles /\ down = FALSE /\ tried = FALSE
    /\ pc = [s \in Switches |-> "idle"] /\ at = [s \in Switches |-> 0]
    /\ rec = [w \in Workers |-> "none"] /\ seen = [w \in Workers |-> NothingSeen]
    /\ touched = {} /\ evidence = {} /\ robbed = {} /\ late = {} /\ overtaken = {}

-----------------------------------------------------------------------------
(* Leases *)

\* Mutation: a refused switch keeps its lease.
HoldsLeaseWhenRefused(s) == pc[s] \in InWrite \cup InRecovery \cup InFailure \cup {"busy"}

HoldsLease(s) == pc[s] \in InWrite \cup InRecovery \cup InFailure

\* active = 0: the idle channel RemoveWorker waits for is closed.
Idle(w) == rec[w] \notin Reconciling /\ \A s \in Switches : HoldsLease(s) => at[s] # w

\* acquireESIMOperationLease and the check of RunPhysical: the owner accepts and
\* the worker is not stopped.
MayLease(w) == w \in accepting

\* validateESIMOperationLease.
Current(w) == w = worker /\ w \in accepting

Goto(s, place) == pc' = [pc EXCEPT ![s] = place]
RecGoto(w, place) == rec' = [rec EXCEPT ![w] = place]

-----------------------------------------------------------------------------
(* The journal *)

Blocking == {s \in Switches : row[s].phase \in Open}

validESIMSwitchTransition ==
    { <<"intent", "teardown">>, <<"intent", "failedBefore">>,
      <<"teardown", "apply">>, <<"teardown", "accepted">>, <<"teardown", "needsRec">>,
      <<"apply", "accepted">>, <<"apply", "needsRec">>,
      <<"accepted", "restoring">>, <<"accepted", "needsRec">>,
      <<"restoring", "succeeded">>, <<"restoring", "needsRec">>,
      <<"needsRec", "accepted">> }

\* The WHERE clause of Transition and of ClaimForReconciliation.
Matches(s, e) ==
    /\ row[s].owner = e.owner /\ row[s].phase = e.phase /\ row[s].version = e.version
    /\ row[s].phase \in Open

MayTransition(s, e, next) ==
    /\ e.owner = worker /\ <<e.phase, next>> \in validESIMSwitchTransition
    /\ Matches(s, e)

\* transitionOwnedESIMSwitch succeeds, or is stale or unavailable.
Transition(s, e, next) ==
    /\ MayTransition(s, e, next)
    /\ row' = [row EXCEPT ![s].phase = next, ![s].version = @ + 1]

TransitionFails(s, e, next) ==
    /\ JournalFaults \/ ~MayTransition(s, e, next)
    /\ UNCHANGED row

\* What the snapshot in the context says of the row, and its new state there.
Mine(s) == context.token = s
Snapshot == [phase |-> context.phase, version |-> context.version, owner |-> context.owner]

\* Mutation: the snapshot is stored whoever owns the context.
StoreAnyway(s, next) == context' = [context EXCEPT !.phase = next, !.version = @ + 1]

Store(s, next) ==
    context' = IF Mine(s) THEN [context EXCEPT !.phase = next, !.version = @ + 1] ELSE context

-----------------------------------------------------------------------------
(* A switch *)

\* The handler finds the worker and its eSIM manager.
Call(s) ==
    /\ pc[s] = "idle" /\ worker # 0
    /\ at' = [at EXCEPT ![s] = worker]
    /\ Goto(s, "queued")
    /\ UNCHANGED <<row, pool, context, device, rec, seen, robbed, past>>

\* SwitchProfileWithResult gets opMu and its lease.
Lock(s) ==
    /\ pc[s] = "queued"
    /\ \A t \in Switches : pc[t] \in InWrite => at[t] # at[s]
    /\ Goto(s, IF MayLease(at[s]) THEN "begin" ELSE "done")
    /\ UNCHANGED <<row, pool, context, device, at, rec, seen, robbed, past>>

\* beginDurableESIMSwitch: a lease and the worker are checked.
Begin(s) ==
    /\ pc[s] = "begin"
    /\ Goto(s, IF Current(at[s]) THEN "create" ELSE "done")
    /\ UNCHANGED <<row, pool, context, device, at, rec, seen, robbed, past>>

\* Create: the index over the rows that are not terminal lets one in.  The
\* snapshot is registered after it.
Create(s) ==
    /\ pc[s] = "create"
    /\ \/ /\ Blocking = {}
          /\ row' = [row EXCEPT ![s] = [phase |-> "intent", owner |-> at[s], version |-> 1, reconciler |-> 0]]
          /\ context' = [token |-> s, phase |-> "intent", version |-> 1, owner |-> at[s]]
          /\ late' = late \cup {t \in {s} : at[s] # worker}
          /\ Goto(s, "plan")
       \/ /\ Blocking # {}
          /\ Goto(s, "busy")
          /\ UNCHANGED <<row, context, late>>
       \/ /\ JournalFaults
          /\ Goto(s, "done")
          /\ UNCHANGED <<row, context, late>>
    /\ UNCHANGED <<pool, device, at, rec, seen, robbed, overtaken>>

\* From the intent to the planned teardown, with the row that Create returned.
PlanTeardown(s) ==
    LET e == [phase |-> "intent", version |-> 1, owner |-> at[s]] IN
    /\ pc[s] = "plan"
    /\ \/ Transition(s, e, "teardown") /\ Store(s, "teardown") /\ Goto(s, "teardown")
       \/ TransitionFails(s, e, "teardown") /\ Goto(s, "failed") /\ UNCHANGED context
    /\ UNCHANGED <<pool, device, at, rec, seen, robbed, past>>

\* RunPhysical looks at the lease, and validateESIMOperationLease at the worker;
\* the teardown runs after both.
CheckTeardown(s) ==
    /\ pc[s] = "teardown"
    /\ Goto(s, IF Current(at[s]) THEN "tearing" ELSE "failed")
    /\ UNCHANGED <<row, pool, context, device, at, rec, seen, robbed, past>>

performESIMSwitchTeardown(s) ==
    /\ pc[s] = "tearing"
    /\ down' = (down \/ at[s] \notin closed)
    /\ tried' = (tried /\ at[s] \in closed)
    /\ touched' = touched \cup {s}
    /\ Goto(s, "barrier")
    /\ UNCHANGED <<row, pool, context, profile, evidence, at, rec, seen, robbed, past>>

\* BeginBarrier is granted, or its context ends.
Barrier(s) ==
    /\ pc[s] = "barrier"
    /\ Goto(s, "prepare") \/ Goto(s, "failed")
    /\ UNCHANGED <<row, pool, context, device, at, rec, seen, robbed, past>>

prepareESIMSwitchPhysicalApply(s) ==
    LET e == [Snapshot EXCEPT !.phase = "teardown"] IN
    /\ pc[s] = "prepare"
    /\ \/ /\ Mine(s) /\ Transition(s, e, "apply")
          /\ Store(s, "apply") /\ Goto(s, "apply")
       \/ /\ IF Mine(s) THEN TransitionFails(s, e, "apply") ELSE UNCHANGED row
          /\ Goto(s, "failed") /\ UNCHANGED context
    /\ UNCHANGED <<pool, device, at, rec, seen, robbed, past>>

\* RunPhysical looks at the lease; EnableProfile runs after that.
CheckApply(s) ==
    /\ pc[s] = "apply"
    /\ Goto(s, IF MayLease(at[s]) THEN "applying" ELSE "failed")
    /\ UNCHANGED <<row, pool, context, device, at, rec, seen, robbed, past>>

\* EnableProfile ends: accepted (or with the expected card reset), refused, or
\* done with its answer lost.
EnableProfile(s) ==
    /\ pc[s] = "applying"
    /\ touched' = touched \cup {s}
    /\ \/ /\ at[s] \notin closed
          /\ profile' = Target[s]
          /\ evidence' = evidence \cup {s}
          /\ Goto(s, "accept")
       \/ /\ profile' \in IF at[s] \in closed THEN {profile} ELSE {profile, Target[s]}
          /\ Goto(s, "failed")
          /\ UNCHANGED evidence
    /\ UNCHANGED <<row, pool, context, down, tried, at, rec, seen, robbed, past>>

markESIMSwitchAccepted(s) ==
    LET e == [Snapshot EXCEPT !.phase = "apply"] IN
    /\ pc[s] = "accept"
    /\ \/ /\ Mine(s) /\ Transition(s, e, "accepted")
          /\ Store(s, "accepted") /\ Goto(s, "after")
       \/ /\ IF Mine(s) THEN TransitionFails(s, e, "accepted") ELSE UNCHANGED row
          /\ Goto(s, "failed") /\ UNCHANGED context
    /\ UNCHANGED <<pool, device, at, rec, seen, robbed, past>>

-----------------------------------------------------------------------------
(* A switch that failed *)

\* handleESIMSwitchFailedWithErrorForWorker, after opMu and the lease of the
\* switch are released, takes a lease of its own.
Failed(s) ==
    /\ pc[s] = "failed"
    /\ Goto(s, IF Mine(s) /\ MayLease(at[s]) THEN "persist" ELSE "done")
    /\ UNCHANGED <<row, pool, context, device, at, rec, seen, robbed, past>>

FailurePhase == IF context.phase = "intent" THEN "failedBefore" ELSE "needsRec"

persistESIMSwitchFailure(s) ==
    /\ pc[s] = "persist"
    /\ \/ /\ ~Mine(s)
          /\ Goto(s, "check") /\ UNCHANGED <<row, context>>
       \/ /\ Mine(s) /\ Transition(s, Snapshot, FailurePhase)
          /\ Store(s, FailurePhase) /\ Goto(s, "check")
       \/ /\ Mine(s) /\ TransitionFails(s, Snapshot, FailurePhase)
          /\ Goto(s, "done") /\ UNCHANGED context
    /\ UNCHANGED <<pool, device, at, rec, seen, robbed, past>>

CheckFailed(s) ==
    /\ pc[s] = "check"
    /\ Goto(s, IF Current(at[s]) THEN "undo" ELSE "done")
    /\ UNCHANGED <<row, pool, context, device, at, rec, seen, robbed, past>>

\* Radio, data and VoWiFi are up again, or some of it is not: that is only logged.
Restore(w) ==
    \/ UNCHANGED down
    \/ w \notin closed /\ down' = FALSE

\* handleESIMSwitchFailedForWorker takes the context; a switch that never
\* touched the device restores nothing, another one radio and data alone.
Undo(s) ==
    /\ pc[s] = "undo"
    /\ context' = IF Mine(s) THEN NoContext ELSE context
    /\ IF Mine(s) /\ context.phase # "failedBefore" THEN Restore(at[s]) ELSE UNCHANGED down
    /\ Goto(s, "done")
    /\ UNCHANGED <<row, pool, profile, tried, touched, evidence, at, rec, seen, robbed, past>>

-----------------------------------------------------------------------------
(* The recovery after an accepted switch *)

\* handleESIMSwitchAfter, on a goroutine of its own.
After(s) ==
    /\ pc[s] = "after"
    /\ Goto(s, IF Mine(s) /\ worker = at[s] /\ MayLease(at[s]) THEN "recover" ELSE "done")
    /\ UNCHANGED <<row, pool, context, device, at, rec, seen, robbed, past>>

beginESIMSwitchRecovery(s) ==
    /\ pc[s] = "recover"
    /\ \/ /\ Mine(s) /\ context.phase = "accepted" /\ Transition(s, Snapshot, "restoring")
          /\ Store(s, "restoring") /\ Goto(s, "validate")
       \/ /\ IF Mine(s) THEN TransitionFails(s, Snapshot, "restoring") ELSE UNCHANGED row
          /\ Goto(s, "done") /\ UNCHANGED context
    /\ UNCHANGED <<pool, device, at, rec, seen, robbed, past>>

Validate(s) ==
    /\ pc[s] = "validate"
    /\ Goto(s, IF Current(at[s]) THEN "converge" ELSE "done")
    /\ UNCHANGED <<row, pool, context, device, at, rec, seen, robbed, past>>

Clear(s) == context' = IF Mine(s) THEN NoContext ELSE context

\* restorePostSwitchConnectivity: all of it is attempted, and its errors are logged.
BestEffortRestore(w) ==
    /\ Restore(w)
    /\ tried' = (tried \/ (down /\ w \notin closed))

\* The waits for core, convergence, identity and SIM authentication: the token
\* is not current any more (the radio may be back online), the card did not
\* converge (the journal stays), or it did.
Converge(s) ==
    /\ pc[s] = "converge"
    /\ \/ /\ ~Mine(s)
          /\ Restore(at[s]) /\ UNCHANGED tried
          /\ Clear(s) /\ Goto(s, "done")
       \/ /\ BestEffortRestore(at[s])
          /\ Clear(s) /\ Goto(s, "done")
       \/ /\ Mine(s)
          /\ BestEffortRestore(at[s])
          /\ Goto(s, "complete") /\ UNCHANGED context
    /\ UNCHANGED <<row, pool, profile, touched, evidence, at, rec, seen, robbed, past>>

\* completeESIMSwitchRecovery, and the deferred clear after it.
Complete(s) ==
    /\ pc[s] = "complete"
    /\ \/ Mine(s) /\ context.phase = "restoring" /\ Transition(s, Snapshot, "succeeded")
       \/ ~Mine(s) /\ UNCHANGED row
       \/ Mine(s) /\ TransitionFails(s, Snapshot, "succeeded")
    /\ Clear(s) /\ Goto(s, "done")
    /\ UNCHANGED <<pool, device, at, rec, seen, robbed, past>>

\* The two-minute guard of registerESIMSwitchSnapshot.
Guard ==
    /\ GuardMayFire /\ context # NoContext
    /\ context' = NoContext
    /\ UNCHANGED <<row, pool, device, pc, at, rec, seen, robbed, past>>

-----------------------------------------------------------------------------
(* Reconciliation *)

rpool == <<context, pc, at, past>>

\* reconcileESIMSwitchForWorker: the worker, the lease and the blocking row.
Read(w) ==
    /\ rec[w] = "scheduled"
    /\ RecGoto(w, IF Current(w) THEN "read" ELSE "done")
    /\ UNCHANGED <<row, pool, device, rpool, seen, robbed>>

GetBlockingByDevice(w) ==
    /\ rec[w] = "read"
    /\ \/ Blocking = {} /\ RecGoto(w, "done") /\ UNCHANGED seen
       \/ \E s \in Blocking :
            /\ seen' = [seen EXCEPT ![w] = [op |-> s, phase |-> row[s].phase,
                                           version |-> row[s].version, owner |-> row[s].owner]]
            /\ RecGoto(w, "claim")
       \/ JournalFaults /\ RecGoto(w, "missed") /\ UNCHANGED seen
    /\ UNCHANGED <<row, pool, device, rpool, robbed>>

\* Mutation: a restoration that was under way is taken as done.
ClaimedTakesRestoringAsDone(phase) ==
    CASE phase = "intent" -> "fail"
      [] phase \in {"teardown", "apply", "needsRec"} -> "look"
      [] phase = "accepted" -> "plan"
      [] phase = "restoring" -> "succeed"

\* Where a claimed row goes on, by its phase.
Claimed(phase) ==
    CASE phase = "intent" -> "fail"
      [] phase \in {"teardown", "apply", "needsRec"} -> "look"
      [] phase = "accepted" -> "plan"
      [] phase = "restoring" -> "restore"

\* Mutation: what another worker once claimed stays claimed.
UnclaimedByAnyone(s, w) == row[s].reconciler = 0

UnclaimedBy(s, w) == row[s].reconciler # w

\* ClaimForReconciliation: the row is as it was read, and this worker has not
\* reconciled it yet.
ClaimForReconciliation(w) ==
    LET s == seen[w].op IN
    /\ rec[w] = "claim"
    /\ \/ /\ Matches(s, seen[w]) /\ UnclaimedBy(s, w)
          /\ row' = [row EXCEPT ![s].owner = w, ![s].reconciler = w, ![s].version = @ + 1]
          /\ seen' = [seen EXCEPT ![w].owner = w, ![w].version = @ + 1]
          /\ robbed' = robbed \cup {t \in {s} : seen[w].owner \notin closed}
          /\ late' = IF w = worker THEN late \ {s} ELSE late \cup {s}
          /\ RecGoto(w, Claimed(seen[w].phase))
       \/ /\ ~(Matches(s, seen[w]) /\ UnclaimedBy(s, w))
          /\ RecGoto(w, "done") /\ UNCHANGED <<row, seen, robbed, late>>
       \/ /\ JournalFaults
          /\ RecGoto(w, "missed") /\ UNCHANGED <<row, seen, robbed, late>>
    /\ UNCHANGED <<pool, device, context, pc, at, overtaken>>

\* transitionReconciledESIMSwitch, and the next place of a reconciliation.
Advance(w, from, next, place) ==
    LET s == seen[w].op IN
    /\ rec[w] = from
    /\ \/ /\ Transition(s, seen[w], next)
          /\ seen' = [seen EXCEPT ![w].phase = next, ![w].version = @ + 1]
          /\ RecGoto(w, place)
       \/ TransitionFails(s, seen[w], next) /\ RecGoto(w, "missed") /\ UNCHANGED seen
    /\ UNCHANGED <<pool, device, rpool, robbed>>

RejectIntent(w) == Advance(w, "fail", "failedBefore", "done")

\* Mutation: the switch is taken as done without reading the card.
AcceptUnseen(w) ==
    /\ rec[w] = "look"
    /\ RecGoto(w, "accept")
    /\ UNCHANGED <<row, pool, device, rpool, seen, robbed>>

\* GetICCIDLive, outside of every lock: unreadable, another profile or the target.
GetICCIDLive(w) ==
    /\ rec[w] = "look"
    /\ \/ ReadFaults /\ RecGoto(w, "missed") /\ UNCHANGED evidence
       \/ /\ profile = Target[seen[w].op]
          /\ evidence' = evidence \cup {seen[w].op}
          /\ RecGoto(w, "accept")
       \/ /\ profile # Target[seen[w].op]
          /\ RecGoto(w, IF seen[w].phase = "needsRec" THEN "done" ELSE "doubt")
          /\ UNCHANGED evidence
    /\ UNCHANGED <<row, pool, profile, down, tried, touched, rpool, seen, robbed>>

markReconciledESIMSwitchAmbiguous(w) == Advance(w, "doubt", "needsRec", "done")
AcceptReconciled(w) == Advance(w, "accept", "accepted", "plan")
PlanRestore(w) == Advance(w, "plan", "restoring", "restore")

CheckRestore(w) ==
    /\ rec[w] = "restore"
    /\ RecGoto(w, IF MayLease(w) THEN "restoring" ELSE "missed")
    /\ UNCHANGED <<row, pool, device, rpool, seen, robbed>>

\* restoreReconciledESIMSwitch: radio, data and VoWiFi as the row says they were;
\* an error ends it, but a radio state that the row does not know is left as it is.
restoreReconciledESIMSwitch(w) ==
    /\ rec[w] = "restoring"
    /\ \/ /\ w \notin closed
          /\ down' = FALSE
          /\ RecGoto(w, "succeed") /\ UNCHANGED tried
       \/ /\ tried' = (tried \/ down)
          /\ RecGoto(w, "succeed") /\ UNCHANGED down
       \/ RecGoto(w, "missed") /\ UNCHANGED <<down, tried>>
    /\ UNCHANGED <<row, pool, profile, touched, evidence, rpool, seen, robbed>>

SucceedReconciled(w) == Advance(w, "succeed", "succeeded", "done")

-----------------------------------------------------------------------------
(* Workers *)

calls == <<pc, at, rec, seen, robbed>>

\* Worker w is in a step that acts on the device.
Physical(w) ==
    \/ rec[w] = "restoring"
    \/ \E s \in Switches : at[s] = w /\ pc[s] \in {"tearing", "applying", "undo", "converge"}

\* registerWorkerStarting: no worker is registered, whether or not the one before
\* is still waited for.
Register ==
    /\ worker = 0 /\ workers < MaxWorker
    /\ workers' = workers + 1 /\ worker' = workers + 1
    /\ accepting' = accepting \cup {workers + 1}
    /\ overtaken' = overtaken \cup {v \in removing : Physical(v)}
    /\ late' = {}
    /\ UNCHANGED <<row, closed, removing, context, device, calls>>

\* The core has started: the reconciliation of this worker is scheduled.
Start(w) ==
    /\ w <= workers /\ rec[w] = "none" /\ w \notin closed
    /\ RecGoto(w, "scheduled")
    /\ UNCHANGED <<row, pool, context, device, pc, at, seen, robbed, past>>

\* The core does not start: the worker is unregistered, if it is registered still,
\* and its modem closed; nobody ends its leases.
StartFails(w) ==
    /\ w <= workers /\ rec[w] = "none" /\ w \notin closed
    /\ worker' = IF worker = w THEN 0 ELSE worker
    /\ closed' = closed \cup {w}
    /\ RecGoto(w, "done")
    /\ UNCHANGED <<row, workers, accepting, removing, context, device, pc, at, seen, robbed, past>>

\* RemoveWorker up to its wait for the leases.
RemoveWorker ==
    /\ worker # 0
    /\ worker' = 0 /\ removing' = removing \cup {worker}
    /\ accepting' = accepting \ {worker}
    /\ UNCHANGED <<row, workers, closed, context, device, calls, past>>

\* Mutation: the removal neither waits for the leases of the worker nor closes its modem.
RemovedUnjoined(w) ==
    /\ w \in removing
    /\ removing' = removing \ {w}
    /\ UNCHANGED <<row, worker, workers, closed, accepting, context, device, calls, past>>

Removed(w) ==
    /\ w \in removing /\ Idle(w)
    /\ closed' = closed \cup {w}
    /\ removing' = removing \ {w}
    /\ UNCHANGED <<row, worker, workers, accepting, context, device, calls, past>>

\* The process ends.  The next one has no context, and another owner epoch.
Crash ==
    /\ workers # 0
    /\ worker' = 0 /\ removing' = {} /\ accepting' = {}
    /\ closed' = 1..workers
    /\ context' = NoContext
    /\ pc' = [s \in Switches |-> IF pc[s] = "idle" THEN "idle" ELSE "done"]
    /\ rec' = [w \in Workers |-> IF w <= workers THEN "done" ELSE rec[w]]
    /\ UNCHANGED <<row, workers, device, at, seen, robbed, past>>

-----------------------------------------------------------------------------
SwitchStep(s) ==
    \/ Lock(s) \/ Begin(s) \/ Create(s) \/ PlanTeardown(s) \/ CheckTeardown(s)
    \/ performESIMSwitchTeardown(s) \/ Barrier(s) \/ prepareESIMSwitchPhysicalApply(s)
    \/ CheckApply(s) \/ EnableProfile(s) \/ markESIMSwitchAccepted(s)
    \/ Failed(s) \/ persistESIMSwitchFailure(s) \/ CheckFailed(s) \/ Undo(s)
    \/ After(s) \/ beginESIMSwitchRecovery(s) \/ Validate(s) \/ Converge(s) \/ Complete(s)

ReconcileStep(w) ==
    \/ Read(w) \/ GetBlockingByDevice(w) \/ ClaimForReconciliation(w) \/ RejectIntent(w)
    \/ GetICCIDLive(w) \/ markReconciledESIMSwitchAmbiguous(w) \/ AcceptReconciled(w)
    \/ PlanRestore(w) \/ CheckRestore(w) \/ restoreReconciledESIMSwitch(w) \/ SucceedReconciled(w)

WorkerStep == \E w \in Workers : Start(w) \/ StartFails(w) \/ Removed(w)

Environment == Guard \/ Register \/ WorkerStep \/ RemoveWorker \/ Crash

Next == (\E s \in Switches : Call(s) \/ SwitchStep(s))
        \/ (\E w \in Workers : ReconcileStep(w)) \/ Environment

Spec == Init /\ [][Next]_vars

\* Goroutines run, every physical step and wait has a deadline, a worker that is
\* registered starts or fails to, and RemoveWorker goes on when it may.  Nobody
\* must call, remove or register.
Fairness ==
    /\ \A s \in Switches : WF_vars(SwitchStep(s))
    /\ \A w \in Workers :
          WF_vars(ReconcileStep(w)) /\ WF_vars(Start(w)) /\ WF_vars(Removed(w))

FairSpec == Spec /\ Fairness

-----------------------------------------------------------------------------
(* Properties *)

\* What the journal says is true of the device: a switch that failed before its
\* physical apply never touched the device and never will, and a switch that is
\* accepted was answered by EnableProfile or read back from the card.
JournalIsTrue ==
    \A s \in Switches :
        /\ row[s].phase = "failedBefore" =>
              s \notin touched /\ pc[s] \notin {"tearing", "barrier", "prepare", "apply", "applying"}
        /\ row[s].phase \in {"accepted", "restoring", "succeeded"} => s \in evidence

\* Two workers act on the device at once only if the one was in a physical step
\* when the other was registered: a worker that was not, and is being removed,
\* begins none any more, and one that was removed has its modem closed.
OneWorkerActs ==
    \A v, w \in Workers :
        Physical(v) /\ Physical(w) /\ {v, w} \cap (closed \cup overtaken) = {} => v = w

\* When the journal lets the next switch in, the one before has not left the
\* device torn down without a restore that ran to its end after it, unless a
\* reconciliation took that one from a caller whose modem was open.
TornDownIsBlocked ==
    down /\ ~tried /\ Blocking = {} => robbed # {}

\* Every switch, recovery and reconciliation comes to an end, and so does the
\* removal of a worker, which waits for them without a deadline.
Settles ==
    []<>(/\ removing = {}
         /\ \A s \in Switches : pc[s] \in {"idle", "busy", "done"}
         /\ \A w \in Workers : rec[w] \in {"none", "missed", "done"})

\* What an earlier worker or process left unfinished is taken over by the next
\* one, unless the journal was not available to it, or the earlier worker, not
\* joined yet, created or claimed the row late.
TakenOver ==
    []<>(\/ worker = 0 \/ rec[worker] = "missed"
         \/ \A s \in Blocking : row[s].owner = worker \/ s \in late)

=============================================================================
