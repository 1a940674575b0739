-------------------------- MODULE EsimSwitchProofs --------------------------
(***************************************************************************)
(* Proofs about EsimSwitch for any calls, profiles and number of workers:  *)
(* the journal is true of the device, a worker that is being removed       *)
(* begins no step on it once another is registered, and the next switch    *)
(* finds it torn down only after a restore was tried.                      *)
(***************************************************************************)
EXTENDS EsimSwitch, TLAPS

\* A reconciliation that has read a row knows it.
SeenIsRow == \A w \in Workers : rec[w] \in Reconciling \ {"read"} => seen[w].op \in Switches

\* Places a switch reaches only after the teardown was planned in the journal.
Planned == {"teardown", "tearing", "barrier", "prepare", "apply", "applying", "accept"}
BeforeRow == {"idle", "queued", "begin", "create"}

PlanIsWritten ==
    \A s \in Switches :
        /\ s \in touched \/ pc[s] \in Planned => row[s].phase \notin {"none", "intent", "failedBefore"}
        /\ pc[s] \in BeforeRow => row[s] = NoRow /\ s \notin touched

EvidenceIsThere ==
    /\ \A s \in Switches :
         /\ pc[s] = "accept" => s \in evidence
         /\ row[s].phase \in {"accepted", "restoring", "succeeded"} => s \in evidence
    /\ \A w \in Workers : rec[w] = "accept" => seen[w].op \in evidence

\* Who has leases is registered, waited for by its removal, or has its modem
\* closed; who acts on the device is the last worker that was registered, or acted
\* when the next one was, or has its modem closed.
OneWorker ==
    /\ worker \in {0, workers} /\ worker \notin removing /\ removing \subseteq 1..workers
    /\ accepting \subseteq {worker} \cup closed
    /\ closed \subseteq 1..workers /\ accepting \subseteq 1..workers
    /\ \A w \in Workers : w > workers => rec[w] = "none"
    /\ \A w \in Workers : rec[w] \in Reconciling => w \in {worker} \cup removing \cup closed
    /\ \A s \in Switches : pc[s] # "idle" => at[s] \in 1..workers
    /\ \A s \in Switches : HoldsLease(s) => at[s] \in {worker} \cup removing \cup closed
    /\ \A w \in Workers : w < workers /\ Physical(w) => w \in closed \cup overtaken

IInv == TypeOK /\ SeenIsRow /\ PlanIsWritten /\ EvidenceIsThere /\ OneWorker

-----------------------------------------------------------------------------
(* Rows and snapshots *)

LEMMA RowFacts ==
  /\ NoRow \in Rows /\ NoRow.phase = "none"
  /\ \A r \in Rows : r.phase \in Open =>
        r \in [phase : Phases, owner : Workers, version : Nat \ {0}, reconciler : 0..MaxWorker]
BY DEF Rows, NoRow, Open, Phases

\* A transition moves the row of one switch along the relation.
LEMMA TransitionRow ==
  ASSUME TypeOK, NEW s \in Switches, NEW e, NEW next, Transition(s, e, next)
  PROVE  /\ row' \in [Switches -> Rows]
         /\ row[s].phase = e.phase /\ row'[s].phase = next
         /\ <<row[s].phase, next>> \in validESIMSwitchTransition
         /\ \A t \in Switches : t # s => row'[t] = row[t]
         /\ next \in Phases
<1>1. /\ row[s].phase = e.phase /\ row[s].phase \in Open
      /\ <<e.phase, next>> \in validESIMSwitchTransition
      /\ row' = [row EXCEPT ![s] = [row[s] EXCEPT !.phase = next, !.version = row[s].version + 1]]
  BY DEF Transition, MayTransition, Matches, TypeOK
<1>2. next \in Phases
  BY <1>1 DEF validESIMSwitchTransition, Phases, Open, Terminal
<1>3. row[s] \in [phase : Phases, owner : Workers, version : Nat \ {0}, reconciler : 0..MaxWorker]
  BY <1>1, RowFacts DEF TypeOK
<1>4. /\ [row[s] EXCEPT !.phase = next, !.version = row[s].version + 1] \in Rows
      /\ [row[s] EXCEPT !.phase = next, !.version = row[s].version + 1].phase = next
  <2>1. row[s].version + 1 \in Nat \ {0}
    BY <1>3
  <2>2. [row[s] EXCEPT !.phase = next, !.version = row[s].version + 1]
           \in [phase : Phases, owner : Workers, version : Nat \ {0}, reconciler : 0..MaxWorker]
    BY <1>2, <1>3, <2>1
  <2>3. [row[s] EXCEPT !.phase = next, !.version = row[s].version + 1].phase = next
    BY <1>3
  <2> QED
    BY <2>2, <2>3 DEF Rows
<1>5. row \in [Switches -> Rows]
  BY DEF TypeOK
<1>6. row'[s] = [row[s] EXCEPT !.phase = next, !.version = row[s].version + 1]
  BY <1>1, <1>5
<1>7. row' \in [Switches -> Rows] /\ \A t \in Switches : t # s => row'[t] = row[t]
  BY <1>1, <1>4, <1>5
<1> QED
  BY <1>1, <1>2, <1>4, <1>6, <1>7

LEMMA StoreType ==
  ASSUME ConstantsAssumption, TypeOK, NEW s \in Switches, NEW next \in Phases, Store(s, next)
  PROVE  context' \in Contexts
<1>1. CASE context.token = s
  <2>1. context \in [token : Switches, phase : Phases, version : Nat \ {0}, owner : Workers]
    BY <1>1 DEF TypeOK, Contexts, NoContext, ConstantsAssumption
  <2>2. context' = [context EXCEPT !.phase = next, !.version = context.version + 1]
    BY <1>1 DEF Store, Mine
  <2>3. context.version + 1 \in Nat \ {0}
    BY <2>1
  <2>4. context' \in [token : Switches, phase : Phases, version : Nat \ {0}, owner : Workers]
    BY <2>1, <2>2, <2>3
  <2> QED
    BY <2>4 DEF Contexts
<1>2. CASE context.token # s
  BY <1>2 DEF Store, Mine, TypeOK
<1> QED
  BY <1>1, <1>2

LEMMA CallType ==
  ASSUME TypeOK, NEW s \in Switches, NEW place \in CallPlaces, Goto(s, place)
  PROVE  pc' \in [Switches -> CallPlaces]
BY DEF TypeOK, Goto

LEMMA RecType ==
  ASSUME TypeOK, NEW w \in Workers, NEW place \in RecPlaces, RecGoto(w, place)
  PROVE  rec' \in [Workers -> RecPlaces]
BY DEF TypeOK, RecGoto

LEMMA Places ==
  /\ {"idle", "queued", "failed", "after", "busy", "done"} \subseteq CallPlaces
  /\ InWrite \subseteq CallPlaces /\ InRecovery \subseteq CallPlaces /\ InFailure \subseteq CallPlaces
  /\ {"none", "scheduled", "missed", "done"} \subseteq RecPlaces /\ Reconciling \subseteq RecPlaces
BY DEF CallPlaces, RecPlaces

-----------------------------------------------------------------------------
(* What a step of a switch, and of a reconciliation, does to each part *)

Leased == InWrite \cup InRecovery \cup InFailure
Recorded == {"accepted", "restoring", "succeeded"}
Acting == {"tearing", "applying", "undo", "converge"}

\* The row of s follows the relation, or is claimed in the phase it is in; only
\* s itself at its accept, or one that is in the evidence, becomes accepted.
RowStep(s, proved) ==
    /\ row' \in [Switches -> Rows]
    /\ \A t \in Switches : t # s => row'[t] = row[t]
    /\ row[s].phase \in Open
    /\ \/ row'[s].phase = row[s].phase
       \/ <<row[s].phase, row'[s].phase>> \in validESIMSwitchTransition
    /\ row'[s].phase = "accepted" => row[s].phase = "accepted" \/ s \in proved

RowCreated(s) ==
    /\ pc[s] = "create" /\ row' \in [Switches -> Rows]
    /\ \A t \in Switches : t # s => row'[t] = row[t]
    /\ row'[s].phase = "intent"

Takes(s, place) ==
    /\ Goto(s, place)
    /\ place \in BeforeRow => pc[s] \in BeforeRow \ {"create"} /\ row' = row /\ touched' = touched
    /\ place \in Planned => pc[s] \in Planned \/ row'[s].phase = "teardown"
    /\ place = "accept" => s \in evidence'
    /\ place \in Leased => pc[s] \in Leased \/ at[s] \in accepting
    /\ place \in Acting => at[s] \in accepting

CallShape(s) ==
    /\ UNCHANGED <<pool, rec, seen, robbed, overtaken>>
    /\ \E place \in CallPlaces : Takes(s, place)
    /\ at' = at /\ pc[s] # "idle"
    /\ row' = row \/ RowStep(s, evidence) \/ RowCreated(s)
    /\ touched' = touched \/ (pc[s] \in Planned /\ touched' = touched \cup {s})
    /\ evidence' = evidence \/ evidence' = evidence \cup {s}
    /\ context' \in Contexts /\ profile' \in Profiles
    /\ down' \in BOOLEAN /\ tried' \in BOOLEAN /\ late' \subseteq Switches

Reconciles(w, place) ==
    /\ RecGoto(w, place)
    /\ rec[w] # "none"
    /\ place \in Reconciling => rec[w] \in Reconciling \/ w = worker
    /\ place \in Reconciling \ {"read"} => seen'[w].op \in Switches
    /\ place = "accept" => seen'[w].op \in evidence'
    /\ place = "restoring" => w \in accepting

RecShape(w) ==
    /\ UNCHANGED <<pool, context, pc, at, touched, profile, overtaken>>
    /\ \E place \in RecPlaces : Reconciles(w, place)
    /\ row' = row \/ \E s \in Switches : RowStep(s, evidence)
    /\ seen' \in [Workers -> Seen] /\ \A v \in Workers : v # w => seen'[v] = seen[v]
    /\ evidence \subseteq evidence' /\ evidence' \subseteq Switches
    /\ robbed' \subseteq Switches /\ late' \subseteq Switches
    /\ down' \in BOOLEAN /\ tried' \in BOOLEAN

\* A step that only moves a switch on.
LEMMA MovedShape ==
  ASSUME TypeOK, NEW s \in Switches, NEW place \in CallPlaces, Goto(s, place), pc[s] # "idle",
         UNCHANGED <<row, pool, context, device, at, rec, seen, robbed, past>>,
         place \in BeforeRow => pc[s] \in BeforeRow \ {"create"},
         place \in Planned => pc[s] \in Planned, place # "accept",
         place \in Leased => pc[s] \in Leased \/ at[s] \in accepting,
         place \in Acting => at[s] \in accepting
  PROVE  CallShape(s)
<1>1. Takes(s, place)
  BY DEF Takes, device
<1> QED
  BY <1>1 DEF CallShape, TypeOK, device, past

\* A transition of s in its journal is a step of its row.
LEMMA TransitionStep ==
  ASSUME TypeOK, NEW s \in Switches, NEW e, NEW next, Transition(s, e, next),
         NEW proved, next = "accepted" => s \in proved
  PROVE  RowStep(s, proved) /\ row'[s].phase = next
<1>1. row[s].phase \in Open
  BY DEF Transition, MayTransition, Matches
<1> QED
  BY <1>1, TransitionRow DEF RowStep

LEMMA FailsRow ==
  ASSUME NEW s, NEW e, NEW next, TransitionFails(s, e, next) PROVE row' = row
BY DEF TransitionFails

LEMMA MoveSwitch ==
  ASSUME TypeOK, NEW s \in Switches,
         \/ Lock(s) \/ Begin(s) \/ CheckTeardown(s) \/ Barrier(s) \/ CheckApply(s)
         \/ Failed(s) \/ CheckFailed(s) \/ After(s) \/ Validate(s)
  PROVE  CallShape(s)
<1> USE Places DEF BeforeRow, Planned, Leased, Acting, InWrite, InRecovery, InFailure
<1>1. CASE Lock(s)
  <2>1. CASE MayLease(at[s])
    BY <1>1, <2>1, MovedShape DEF Lock, MayLease
  <2>2. CASE ~MayLease(at[s])
    BY <1>1, <2>2, MovedShape DEF Lock
  <2> QED
    BY <2>1, <2>2
<1>2. CASE Begin(s)
  BY <1>2, MovedShape DEF Begin
<1>3. CASE CheckTeardown(s)
  BY <1>3, MovedShape DEF CheckTeardown, Current
<1>4. CASE Barrier(s)
  BY <1>4, MovedShape DEF Barrier
<1>5. CASE CheckApply(s)
  BY <1>5, MovedShape DEF CheckApply, MayLease
<1>6. CASE Failed(s)
  BY <1>6, MovedShape DEF Failed, MayLease
<1>7. CASE CheckFailed(s)
  BY <1>7, MovedShape DEF CheckFailed, Current
<1>8. CASE After(s)
  BY <1>8, MovedShape DEF After, MayLease
<1>9. CASE Validate(s)
  BY <1>9, MovedShape DEF Validate, Current
<1> QED
  BY <1>1, <1>2, <1>3, <1>4, <1>5, <1>6, <1>7, <1>8, <1>9

LEMMA SnapshotPhase == ASSUME TypeOK, NEW s \in Switches, ConstantsAssumption, Mine(s)
  PROVE context \in [token : Switches, phase : Phases, version : Nat \ {0}, owner : Workers]
BY DEF TypeOK, Contexts, NoContext, ConstantsAssumption, Mine

LEMMA NoContextType == NoContext \in Contexts
BY DEF Contexts

\* A step of s that writes its row, or fails to, and goes to one of two places.
LEMMA WroteShape ==
  ASSUME ConstantsAssumption, TypeOK, NEW s \in Switches, NEW place \in CallPlaces, Goto(s, place),
         pc[s] \notin BeforeRow, place \notin BeforeRow,
         UNCHANGED <<pool, device, at, rec, seen, robbed, past>>,
         place \in Planned => pc[s] \in Planned \/ row'[s].phase = "teardown", place # "accept",
         place \in Leased => pc[s] \in Leased, place \notin Acting,
         row' = row \/ RowStep(s, evidence), context' \in Contexts
  PROVE  CallShape(s)
<1>1. Takes(s, place)
  BY DEF Takes
<1> QED
  BY <1>1 DEF CallShape, TypeOK, device, past, BeforeRow

\* A transition of s that its snapshot follows.
LEMMA StoredStep ==
  ASSUME ConstantsAssumption, TypeOK, NEW s \in Switches, NEW e, NEW next,
         Transition(s, e, next), Store(s, next), next = "accepted" => s \in evidence
  PROVE  RowStep(s, evidence) /\ row'[s].phase = next /\ context' \in Contexts
<1>1. RowStep(s, evidence) /\ row'[s].phase = next
  BY TransitionStep
<1>2. next \in Phases
  BY TransitionRow
<1>3. context' \in Contexts
  BY <1>2, StoreType
<1> QED
  BY <1>1, <1>3

LEMMA CreateShape ==
  ASSUME ConstantsAssumption, TypeOK, OneWorker, NEW s \in Switches, Create(s)
  PROVE  CallShape(s)
<1> DEFINE new == [phase |-> "intent", owner |-> at[s], version |-> 1, reconciler |-> 0]
<1>1. at[s] \in Workers
  BY DEF Create, OneWorker, TypeOK, Workers, ConstantsAssumption
<1>2. new \in Rows /\ [token |-> s, phase |-> "intent", version |-> 1, owner |-> at[s]] \in Contexts
  BY <1>1 DEF Rows, Contexts, Phases, Open, ConstantsAssumption
<1>3. UNCHANGED <<pool, device, at, rec, seen, robbed, overtaken>> /\ pc[s] = "create"
  BY DEF Create
<1>4. row' = row \/ RowCreated(s)
  <2>1. CASE row' = [row EXCEPT ![s] = new]
    BY <2>1, <1>2, <1>3 DEF RowCreated, TypeOK
  <2> QED
    BY <2>1 DEF Create
<1>5. context' \in Contexts
  BY <1>2 DEF Create, TypeOK
<1>6. \E place \in {"plan", "busy", "done"} : Goto(s, place)
  BY DEF Create
<1>7. \E place \in CallPlaces : Takes(s, place)
  BY <1>3, <1>6, Places DEF Takes, BeforeRow, Planned, Leased, Acting, InWrite, device
<1>8. late' \subseteq Switches
  BY DEF Create, TypeOK
<1> QED
  BY <1>3, <1>4, <1>5, <1>7, <1>8 DEF CallShape, device, TypeOK

LEMMA JournalShape ==
  ASSUME ConstantsAssumption, TypeOK, EvidenceIsThere, NEW s \in Switches,
         \/ PlanTeardown(s) \/ prepareESIMSwitchPhysicalApply(s) \/ markESIMSwitchAccepted(s)
         \/ persistESIMSwitchFailure(s) \/ beginESIMSwitchRecovery(s)
  PROVE  CallShape(s)
<1> USE Places DEF BeforeRow, Planned, Leased, Acting, InWrite, InRecovery, InFailure
<1> DEFINE intent == [phase |-> "intent", version |-> 1, owner |-> at[s]]
<1>0. context \in Contexts
  BY DEF TypeOK
<1>1. CASE PlanTeardown(s)
  <2>0. pc[s] = "plan" /\ UNCHANGED <<pool, device, at, rec, seen, robbed, past>>
    BY <1>1 DEF PlanTeardown
  <2>1. CASE Transition(s, intent, "teardown") /\ Store(s, "teardown") /\ Goto(s, "teardown")
    <3>1. RowStep(s, evidence) /\ row'[s].phase = "teardown" /\ context' \in Contexts
      BY <2>1, StoredStep
    <3> QED
      BY <2>0, <2>1, <3>1, WroteShape
  <2>2. CASE TransitionFails(s, intent, "teardown") /\ Goto(s, "failed") /\ UNCHANGED context
    BY <2>0, <2>2, <1>0, WroteShape, FailsRow
  <2> QED
    BY <1>1, <2>1, <2>2 DEF PlanTeardown
<1>2. CASE prepareESIMSwitchPhysicalApply(s)
  <2> DEFINE e == [Snapshot EXCEPT !.phase = "teardown"]
  <2>0. pc[s] = "prepare" /\ UNCHANGED <<pool, device, at, rec, seen, robbed, past>>
    BY <1>2 DEF prepareESIMSwitchPhysicalApply
  <2>1. CASE Transition(s, e, "apply") /\ Store(s, "apply") /\ Goto(s, "apply")
    <3>1. RowStep(s, evidence) /\ context' \in Contexts
      BY <2>1, StoredStep
    <3> QED
      BY <2>0, <2>1, <3>1, WroteShape
  <2>2. CASE row' = row /\ Goto(s, "failed") /\ UNCHANGED context
    BY <2>0, <2>2, <1>0, WroteShape
  <2> QED
    BY <1>2, <2>1, <2>2, FailsRow DEF prepareESIMSwitchPhysicalApply
<1>3. CASE markESIMSwitchAccepted(s)
  <2> DEFINE e == [Snapshot EXCEPT !.phase = "apply"]
  <2>0. pc[s] = "accept" /\ UNCHANGED <<pool, device, at, rec, seen, robbed, past>>
    BY <1>3 DEF markESIMSwitchAccepted
  <2>1. CASE Transition(s, e, "accepted") /\ Store(s, "accepted") /\ Goto(s, "after")
    <3>1. RowStep(s, evidence) /\ context' \in Contexts
      BY <2>0, <2>1, StoredStep DEF EvidenceIsThere
    <3> QED
      BY <2>0, <2>1, <3>1, WroteShape
  <2>2. CASE row' = row /\ Goto(s, "failed") /\ UNCHANGED context
    BY <2>0, <2>2, <1>0, WroteShape
  <2> QED
    BY <1>3, <2>1, <2>2, FailsRow DEF markESIMSwitchAccepted
<1>4. CASE persistESIMSwitchFailure(s)
  <2>0. pc[s] = "persist" /\ UNCHANGED <<pool, device, at, rec, seen, robbed, past>>
    BY <1>4 DEF persistESIMSwitchFailure
  <2>1. CASE Transition(s, Snapshot, FailurePhase) /\ Store(s, FailurePhase) /\ Goto(s, "check")
    <3>1. FailurePhase # "accepted"
      BY DEF FailurePhase
    <3>2. RowStep(s, evidence) /\ context' \in Contexts
      BY <2>1, <3>1, StoredStep
    <3> QED
      BY <2>0, <2>1, <3>2, WroteShape
  <2>2. CASE row' = row /\ Goto(s, "check") /\ UNCHANGED context
    BY <2>0, <2>2, <1>0, WroteShape
  <2>3. CASE row' = row /\ Goto(s, "done") /\ UNCHANGED context
    BY <2>0, <2>3, <1>0, WroteShape
  <2> QED
    BY <1>4, <2>1, <2>2, <2>3, FailsRow DEF persistESIMSwitchFailure
<1>5. CASE beginESIMSwitchRecovery(s)
  <2>0. pc[s] = "recover" /\ UNCHANGED <<pool, device, at, rec, seen, robbed, past>>
    BY <1>5 DEF beginESIMSwitchRecovery
  <2>1. CASE Transition(s, Snapshot, "restoring") /\ Store(s, "restoring") /\ Goto(s, "validate")
    <3>1. RowStep(s, evidence) /\ context' \in Contexts
      BY <2>1, StoredStep
    <3> QED
      BY <2>0, <2>1, <3>1, WroteShape
  <2>2. CASE row' = row /\ Goto(s, "done") /\ UNCHANGED context
    BY <2>0, <2>2, <1>0, WroteShape
  <2> QED
    BY <1>5, <2>1, <2>2, FailsRow DEF beginESIMSwitchRecovery
<1> QED
  BY <1>1, <1>2, <1>3, <1>4, <1>5

LEMMA DeviceShape ==
  ASSUME ConstantsAssumption, TypeOK, NEW s \in Switches,
         \/ performESIMSwitchTeardown(s) \/ EnableProfile(s) \/ Undo(s) \/ Converge(s) \/ Complete(s)
  PROVE  CallShape(s)
<1> USE Places, NoContextType DEF BeforeRow, Planned, Leased, Acting, InWrite, InRecovery, InFailure
<1>0. /\ context \in Contexts /\ profile \in Profiles /\ down \in BOOLEAN /\ tried \in BOOLEAN
      /\ late \subseteq Switches
  BY DEF TypeOK
<1>1. CASE performESIMSwitchTeardown(s)
  <2>1. Takes(s, "barrier")
    BY <1>1 DEF performESIMSwitchTeardown, Takes
  <2> QED
    BY <1>0, <1>1, <2>1 DEF performESIMSwitchTeardown, CallShape, past
<1>2. CASE EnableProfile(s)
  <2>1. \E place \in {"accept", "failed"} : Takes(s, place)
    <3>1. CASE evidence' = evidence \cup {s} /\ Goto(s, "accept")
      BY <1>2, <3>1 DEF EnableProfile, Takes
    <3>2. CASE Goto(s, "failed")
      BY <1>2, <3>2 DEF EnableProfile, Takes
    <3> QED
      BY <1>2, <3>1, <3>2 DEF EnableProfile
  <2>2. profile' \in Profiles
    BY <1>0, <1>2 DEF EnableProfile, ConstantsAssumption
  <2>3. /\ UNCHANGED <<row, pool, context, down, tried, at, rec, seen, robbed, late, overtaken>>
        /\ pc[s] = "applying" /\ touched' = touched \cup {s}
        /\ evidence' = evidence \/ evidence' = evidence \cup {s}
    BY <1>2 DEF EnableProfile, past
  <2> QED
    BY <1>0, <2>1, <2>2, <2>3 DEF CallShape
<1>3. CASE Undo(s)
  <2>1. Takes(s, "done")
    BY <1>3 DEF Undo, Takes
  <2>2. context' \in Contexts /\ down' \in BOOLEAN
    BY <1>0, <1>3 DEF Undo, Restore
  <2>3. /\ UNCHANGED <<row, pool, profile, tried, touched, evidence, at, rec, seen, robbed, late, overtaken>>
        /\ pc[s] # "idle"
    BY <1>3 DEF Undo, past
  <2> QED
    BY <1>0, <2>1, <2>2, <2>3 DEF CallShape
<1>4. CASE Converge(s)
  <2>1. \E place \in {"complete", "done"} : Takes(s, place)
    BY <1>4 DEF Converge, Takes
  <2>2. context' \in Contexts /\ down' \in BOOLEAN /\ tried' \in BOOLEAN
    BY <1>0, <1>4 DEF Converge, Clear, Restore, BestEffortRestore
  <2>3. /\ UNCHANGED <<row, pool, profile, touched, evidence, at, rec, seen, robbed, late, overtaken>>
        /\ pc[s] # "idle"
    BY <1>4 DEF Converge, past
  <2> QED
    BY <1>0, <2>1, <2>2, <2>3 DEF CallShape
<1>5. CASE Complete(s)
  <2>1. /\ Goto(s, "done") /\ UNCHANGED <<pool, device, at, rec, seen, robbed, past>> /\ pc[s] = "complete"
        /\ context' \in Contexts
    BY <1>0, <1>5 DEF Complete, Clear
  <2>2. CASE Transition(s, Snapshot, "succeeded")
    BY <2>1, <2>2, TransitionStep, WroteShape
  <2>3. CASE row' = row
    BY <2>1, <2>3, WroteShape
  <2> QED
    BY <1>5, <2>2, <2>3, FailsRow DEF Complete
<1> QED
  BY <1>1, <1>2, <1>3, <1>4, <1>5

LEMMA SwitchShape ==
  ASSUME ConstantsAssumption, IInv, NEW s \in Switches, SwitchStep(s)
  PROVE  CallShape(s)
BY MoveSwitch, CreateShape, JournalShape, DeviceShape DEF IInv, SwitchStep

-----------------------------------------------------------------------------
(* The steps of a reconciliation *)

LEMMA SeenSwitch ==
  ASSUME ConstantsAssumption, TypeOK, SeenIsRow, NEW w \in Workers, rec[w] \in Reconciling \ {"read"}
  PROVE  seen[w] \in [op : Switches, phase : Phases, version : Nat \ {0}, owner : Workers]
BY DEF TypeOK, SeenIsRow, Seen, NothingSeen, ConstantsAssumption

\* A step that only moves a reconciliation on, or ends it.
LEMMA MovedRec ==
  ASSUME TypeOK, SeenIsRow, NEW w \in Workers, NEW place \in RecPlaces, RecGoto(w, place),
         rec[w] # "none", UNCHANGED <<row, pool, context, profile, touched, pc, at, seen, robbed, late, overtaken>>,
         evidence \subseteq evidence', evidence' \subseteq Switches,
         down' \in BOOLEAN, tried' \in BOOLEAN, place = "restoring" => w \in accepting,
         place \in Reconciling => rec[w] \in Reconciling \/ (w = worker /\ place = "read"),
         place \in Reconciling \ {"read"} => rec[w] # "read",
         place = "accept" => seen[w].op \in evidence'
  PROVE  RecShape(w)
<1>1. Reconciles(w, place)
  BY DEF Reconciles, SeenIsRow
<1> QED
  BY <1>1 DEF RecShape, TypeOK

\* A step that advances the row it has read.
LEMMA AdvanceShape ==
  ASSUME ConstantsAssumption, TypeOK, SeenIsRow, NEW w \in Workers,
         NEW from \in Reconciling \ {"read"}, NEW next,
         NEW place \in (Reconciling \ {"read", "accept", "restoring"}) \cup {"done"},
         Advance(w, from, next, place), next = "accepted" => seen[w].op \in evidence
  PROVE  RecShape(w)
<1> DEFINE s == seen[w].op
<1>1. /\ rec[w] = from /\ from # "none"
      /\ UNCHANGED <<pool, context, pc, at, profile, down, tried, touched, evidence, robbed, late, overtaken>>
  BY DEF Advance, device, rpool, past, Reconciling
<1>2. seen[w] \in [op : Switches, phase : Phases, version : Nat \ {0}, owner : Workers] /\ s \in Switches
  BY <1>1, SeenSwitch
<1>3. CASE Transition(s, seen[w], next) /\ RecGoto(w, place)
            /\ seen' = [seen EXCEPT ![w].phase = next, ![w].version = @ + 1]
  <2>1. RowStep(s, evidence) /\ next \in Phases
    BY <1>2, <1>3, TransitionStep, TransitionRow
  <2>2. /\ seen' = [seen EXCEPT ![w] = [seen[w] EXCEPT !.phase = next, !.version = seen[w].version + 1]]
        /\ seen \in [Workers -> Seen]
    BY <1>3 DEF TypeOK
  <2>3. seen[w].version + 1 \in Nat \ {0}
    BY <1>2
  <2>4. /\ [seen[w] EXCEPT !.phase = next, !.version = seen[w].version + 1]
              \in [op : Switches, phase : Phases, version : Nat \ {0}, owner : Workers]
        /\ [seen[w] EXCEPT !.phase = next, !.version = seen[w].version + 1].op = s
    BY <1>2, <2>1, <2>3
  <2>5. seen' \in [Workers -> Seen] /\ seen'[w].op = s /\ \A v \in Workers : v # w => seen'[v] = seen[v]
    BY <2>2, <2>4 DEF Seen
  <2>6. Reconciles(w, place) /\ place \in RecPlaces
    BY <1>1, <1>2, <1>3, <2>5, Places DEF Reconciles, Reconciling
  <2> QED
    BY <1>1, <1>2, <2>1, <2>5, <2>6 DEF RecShape, TypeOK
<1>4. CASE TransitionFails(s, seen[w], next) /\ RecGoto(w, "missed") /\ UNCHANGED seen
  <2>1. /\ row' = row /\ evidence \subseteq Switches /\ "missed" \notin Reconciling
        /\ down' \in BOOLEAN /\ tried' \in BOOLEAN
    BY <1>1, <1>4, FailsRow DEF TypeOK, Reconciling
  <2> QED
    BY <1>1, <1>4, <2>1, MovedRec, Places
<1> QED
  BY <1>3, <1>4 DEF Advance

LEMMA AdvancesShape ==
  ASSUME ConstantsAssumption, TypeOK, SeenIsRow, EvidenceIsThere, NEW w \in Workers,
         \/ RejectIntent(w) \/ markReconciledESIMSwitchAmbiguous(w) \/ AcceptReconciled(w)
         \/ PlanRestore(w) \/ SucceedReconciled(w)
  PROVE  RecShape(w)
<1> USE DEF Reconciling
<1>1. CASE RejectIntent(w)
  BY <1>1, AdvanceShape DEF RejectIntent
<1>2. CASE markReconciledESIMSwitchAmbiguous(w)
  BY <1>2, AdvanceShape DEF markReconciledESIMSwitchAmbiguous
<1>3. CASE AcceptReconciled(w)
  <2>1. rec[w] = "accept"
    BY <1>3 DEF AcceptReconciled, Advance
  <2> QED
    BY <1>3, <2>1, AdvanceShape DEF AcceptReconciled, EvidenceIsThere
<1>4. CASE PlanRestore(w)
  BY <1>4, AdvanceShape DEF PlanRestore
<1>5. CASE SucceedReconciled(w)
  BY <1>5, AdvanceShape DEF SucceedReconciled
<1> QED
  BY <1>1, <1>2, <1>3, <1>4, <1>5

LEMMA ReadShape ==
  ASSUME ConstantsAssumption, TypeOK, SeenIsRow, NEW w \in Workers,
         \/ Read(w) \/ GetICCIDLive(w) \/ CheckRestore(w) \/ restoreReconciledESIMSwitch(w)
  PROVE  RecShape(w)
<1> USE Places DEF Reconciling, device, rpool, past
<1>0. evidence \subseteq Switches /\ down \in BOOLEAN /\ tried \in BOOLEAN
  BY DEF TypeOK
<1>1. CASE Read(w)
  <2>1. CASE Current(w)
    BY <1>0, <1>1, <2>1, MovedRec DEF Read, Current
  <2>2. CASE ~Current(w)
    BY <1>0, <1>1, <2>2, MovedRec DEF Read
  <2> QED
    BY <2>1, <2>2
<1>2. CASE GetICCIDLive(w)
  <2>0. /\ rec[w] = "look"
        /\ UNCHANGED <<row, pool, context, profile, down, tried, touched, pc, at, seen, robbed, late, overtaken>>
        /\ seen[w].op \in Switches
    BY <1>2 DEF GetICCIDLive, SeenIsRow
  <2>1. CASE evidence' = evidence \cup {seen[w].op} /\ RecGoto(w, "accept")
    BY <1>0, <2>0, <2>1, MovedRec
  <2>2. CASE evidence' = evidence /\ \E place \in {"missed", "done", "doubt"} : RecGoto(w, place)
    BY <1>0, <2>0, <2>2, MovedRec
  <2> QED
    BY <1>2, <2>1, <2>2 DEF GetICCIDLive
<1>3. CASE CheckRestore(w)
  BY <1>0, <1>3, MovedRec DEF CheckRestore, MayLease
<1>4. CASE restoreReconciledESIMSwitch(w)
  <2>1. \E place \in {"succeed", "missed"} : RecGoto(w, place)
    BY <1>4 DEF restoreReconciledESIMSwitch
  <2>2. /\ rec[w] = "restoring" /\ down' \in BOOLEAN /\ tried' \in BOOLEAN
        /\ UNCHANGED <<row, pool, context, profile, touched, evidence, pc, at, seen, robbed, late, overtaken>>
    BY <1>0, <1>4 DEF restoreReconciledESIMSwitch
  <2> QED
    BY <1>0, <2>1, <2>2, MovedRec
<1> QED
  BY <1>1, <1>2, <1>3, <1>4

\* The blocking row is read as it is.
LEMMA BlockingShape ==
  ASSUME ConstantsAssumption, TypeOK, SeenIsRow, NEW w \in Workers, GetBlockingByDevice(w)
  PROVE  RecShape(w)
<1>1. /\ rec[w] = "read" /\ evidence \subseteq Switches /\ down \in BOOLEAN /\ tried \in BOOLEAN
      /\ UNCHANGED <<row, pool, context, profile, down, tried, touched, evidence, pc, at, robbed, late, overtaken>>
  BY DEF GetBlockingByDevice, TypeOK, device, rpool, past
<1>2. CASE UNCHANGED seen /\ \E place \in {"done", "missed"} : RecGoto(w, place)
  BY <1>1, <1>2, MovedRec, Places DEF Reconciling
<1>3. ASSUME NEW s \in Blocking,
             seen' = [seen EXCEPT ![w] = [op |-> s, phase |-> row[s].phase,
                                         version |-> row[s].version, owner |-> row[s].owner]],
             RecGoto(w, "claim")
      PROVE  RecShape(w)
  <2>1. s \in Switches /\ row[s] \in Rows /\ row[s].phase \in Open
    BY DEF Blocking, TypeOK
  <2>2. row[s] \in [phase : Phases, owner : Workers, version : Nat \ {0}, reconciler : 0..MaxWorker]
    BY <2>1, RowFacts
  <2>3. /\ [op |-> s, phase |-> row[s].phase, version |-> row[s].version, owner |-> row[s].owner] \in Seen
        /\ seen \in [Workers -> Seen]
    BY <2>1, <2>2 DEF Seen, TypeOK
  <2>4. seen' \in [Workers -> Seen] /\ seen'[w].op = s /\ \A v \in Workers : v # w => seen'[v] = seen[v]
    BY <1>3, <2>3
  <2>5. Reconciles(w, "claim")
    BY <1>1, <1>3, <2>1, <2>4 DEF Reconciles, Reconciling
  <2> QED
    BY <1>1, <2>4, <2>5, Places DEF RecShape, Reconciling, TypeOK
<1> QED
  BY <1>2, <1>3 DEF GetBlockingByDevice

LEMMA ClaimShape ==
  ASSUME ConstantsAssumption, TypeOK, SeenIsRow, NEW w \in Workers, ClaimForReconciliation(w)
  PROVE  RecShape(w)
<1> DEFINE s == seen[w].op
<1>1. /\ rec[w] = "claim" /\ evidence \subseteq Switches /\ down \in BOOLEAN /\ tried \in BOOLEAN
      /\ UNCHANGED <<pool, context, profile, down, tried, touched, evidence, pc, at, overtaken>>
  BY DEF ClaimForReconciliation, TypeOK, device
<1>2. seen[w] \in [op : Switches, phase : Phases, version : Nat \ {0}, owner : Workers] /\ s \in Switches
  BY <1>1, SeenSwitch DEF Reconciling
<1>3. CASE UNCHANGED <<row, seen, robbed, late>> /\ \E place \in {"done", "missed"} : RecGoto(w, place)
  BY <1>1, <1>3, MovedRec, Places DEF Reconciling
<1>4. CASE /\ Matches(s, seen[w])
           /\ row' = [row EXCEPT ![s].owner = w, ![s].reconciler = w, ![s].version = @ + 1]
           /\ seen' = [seen EXCEPT ![w].owner = w, ![w].version = @ + 1]
           /\ robbed' = robbed \cup {t \in {s} : seen[w].owner \notin closed}
           /\ late' = (IF w = worker THEN late \ {s} ELSE late \cup {s})
           /\ RecGoto(w, Claimed(seen[w].phase))
  <2>1. /\ row[s].phase \in Open /\ row[s].phase = seen[w].phase /\ row[s] \in Rows
        /\ row \in [Switches -> Rows] /\ seen \in [Workers -> Seen]
    BY <1>2, <1>4 DEF Matches, TypeOK
  <2>2. row[s] \in [phase : Phases, owner : Workers, version : Nat \ {0}, reconciler : 0..MaxWorker]
    BY <2>1, RowFacts
  <2> DEFINE claimed == [row[s] EXCEPT !.owner = w, !.reconciler = w, !.version = row[s].version + 1]
  <2> DEFINE told == [seen[w] EXCEPT !.owner = w, !.version = seen[w].version + 1]
  <2>3. /\ row' = [row EXCEPT ![s] = claimed] /\ seen' = [seen EXCEPT ![w] = told]
        /\ row[s].version + 1 \in Nat \ {0} /\ seen[w].version + 1 \in Nat \ {0} /\ w \in 0..MaxWorker
    BY <1>2, <1>4, <2>1, <2>2 DEF Workers
  <2>4. /\ claimed \in [phase : Phases, owner : Workers, version : Nat \ {0}, reconciler : 0..MaxWorker]
        /\ claimed.phase = row[s].phase
    BY <2>2, <2>3
  <2>5. /\ told \in [op : Switches, phase : Phases, version : Nat \ {0}, owner : Workers]
        /\ told.op = s
    BY <1>2, <2>3
  <2> HIDE DEF claimed, told
  <2>6. RowStep(s, evidence)
    BY <1>2, <2>1, <2>3, <2>4 DEF RowStep, Rows
  <2>7. seen' \in [Workers -> Seen] /\ seen'[w].op = s /\ \A v \in Workers : v # w => seen'[v] = seen[v]
    BY <2>1, <2>3, <2>5 DEF Seen
  <2>8. Claimed(seen[w].phase) \in {"fail", "look", "plan", "restore"}
    BY <2>1 DEF Claimed, Open
  <2>9. Claimed(seen[w].phase) \in RecPlaces /\ Reconciles(w, Claimed(seen[w].phase))
    BY <1>1, <1>2, <1>4, <2>7, <2>8, Places DEF Reconciles, Reconciling
  <2>10. robbed' \subseteq Switches /\ late' \subseteq Switches
    BY <1>2, <1>4 DEF TypeOK
  <2> QED
    BY <1>1, <1>2, <2>6, <2>7, <2>9, <2>10 DEF RecShape
<1> QED
  BY <1>3, <1>4 DEF ClaimForReconciliation

LEMMA ReconcileShape ==
  ASSUME ConstantsAssumption, IInv, NEW w \in Workers, ReconcileStep(w)
  PROVE  RecShape(w)
BY AdvancesShape, ReadShape, BlockingShape, ClaimShape DEF IInv, ReconcileStep

-----------------------------------------------------------------------------
(* The invariant is inductive *)

\* Along the relation a row leaves the three early phases for good, and it
\* becomes accepted only from a phase that is not recorded yet.
LEMMA RelationFacts ==
  ASSUME NEW before, NEW next, <<before, next>> \in validESIMSwitchTransition
  PROVE  /\ next \notin {"none", "intent"}
         /\ next = "failedBefore" => before = "intent"
         /\ next \in Recorded => next = "accepted" \/ before \in Recorded
BY DEF validESIMSwitchTransition, Recorded

LEMMA RowStepFacts ==
  ASSUME NEW s \in Switches, NEW proved, RowStep(s, proved), NEW t \in Switches
  PROVE  /\ row[t].phase \notin {"none", "intent", "failedBefore"} =>
               row'[t].phase \notin {"none", "intent", "failedBefore"}
         /\ row[t] = NoRow => row'[t] = NoRow
         /\ row'[t].phase \in Recorded => row[t].phase \in Recorded \/ t \in proved
<1>1. CASE t # s
  BY <1>1 DEF RowStep
<1>2. CASE t = s
  <2>1. row[s].phase # "none" /\ NoRow.phase = "none"
    BY DEF RowStep, Open, NoRow
  <2>2. CASE row'[s].phase = row[s].phase
    BY <1>2, <2>1, <2>2
  <2>3. CASE <<row[s].phase, row'[s].phase>> \in validESIMSwitchTransition
    BY <1>2, <2>1, <2>3, RelationFacts DEF RowStep, Recorded
  <2> QED
    BY <2>2, <2>3 DEF RowStep
<1> QED
  BY <1>1, <1>2

LEMMA WorkerFacts ==
  ASSUME ConstantsAssumption, TypeOK
  PROVE  /\ MaxWorker \in Nat \ {0}
         /\ worker \in Nat /\ workers \in Nat /\ workers <= MaxWorker
         /\ \A w \in Workers : w \in Nat /\ w # 0 /\ w \in 0..MaxWorker
BY DEF ConstantsAssumption, TypeOK, Workers

LEMMA CallKeeps ==
  ASSUME ConstantsAssumption, IInv, NEW s \in Switches, CallShape(s)
  PROVE  IInv'
<1>0. TypeOK /\ SeenIsRow /\ PlanIsWritten /\ EvidenceIsThere /\ OneWorker
  BY DEF IInv
<1>1. PICK place \in CallPlaces : Takes(s, place)
  BY DEF CallShape
<1>2. /\ pc' = [pc EXCEPT ![s] = place] /\ pc \in [Switches -> CallPlaces]
      /\ UNCHANGED <<worker, workers, accepting, closed, removing, rec, seen, robbed, at, overtaken>>
      /\ row \in [Switches -> Rows]
  BY <1>0, <1>1 DEF Takes, Goto, TypeOK, CallShape, pool
<1>3. pc' \in [Switches -> CallPlaces] /\ pc'[s] = place /\ \A t \in Switches : t # s => pc'[t] = pc[t]
  BY <1>2
<1>4. row' \in [Switches -> Rows]
  BY <1>2 DEF CallShape, RowStep, RowCreated
<1>5. TypeOK'
  <2>1. touched' \subseteq Switches /\ evidence' \subseteq Switches
    BY <1>0 DEF CallShape, TypeOK
  <2> QED
    BY <1>0, <1>2, <1>3, <1>4, <2>1 DEF TypeOK, CallShape
<1>6. SeenIsRow'
  BY <1>0, <1>2 DEF SeenIsRow
<1>7. PlanIsWritten'
  <2> SUFFICES ASSUME NEW t \in Switches
               PROVE  /\ t \in touched' \/ pc'[t] \in Planned =>
                            row'[t].phase \notin {"none", "intent", "failedBefore"}
                      /\ pc'[t] \in BeforeRow => row'[t] = NoRow /\ t \notin touched'
    BY DEF PlanIsWritten
  <2>1. CASE row' = row \/ RowStep(s, evidence)
    <3>1. /\ row[t].phase \notin {"none", "intent", "failedBefore"} =>
                row'[t].phase \notin {"none", "intent", "failedBefore"}
          /\ row[t] = NoRow => row'[t] = NoRow
      BY <2>1, RowStepFacts
    <3>2. CASE t = s
      <4>1. t \in touched' => t \in touched \/ pc[t] \in Planned
        BY <3>2 DEF CallShape
      <4>2. pc'[t] \in Planned => pc[t] \in Planned \/ row'[t].phase = "teardown"
        BY <1>1, <1>3, <3>2 DEF Takes
      <4>3. pc'[t] \in BeforeRow => pc[t] \in BeforeRow /\ touched' = touched
        BY <1>1, <1>3, <3>2 DEF Takes
      <4> QED
        BY <1>0, <3>1, <4>1, <4>2, <4>3 DEF PlanIsWritten
    <3>3. CASE t # s
      <4>1. pc'[t] = pc[t] /\ (t \in touched' <=> t \in touched)
        BY <1>3, <3>3 DEF CallShape
      <4> QED
        BY <1>0, <3>1, <4>1 DEF PlanIsWritten
    <3> QED
      BY <3>2, <3>3
  <2>2. CASE RowCreated(s)
    <3>1. row[s] = NoRow /\ s \notin touched /\ pc[s] = "create" /\ pc[s] \notin Planned
      BY <1>0, <2>2 DEF RowCreated, PlanIsWritten, BeforeRow, Planned
    <3>2. touched' = touched
      BY <3>1 DEF CallShape
    <3>3. CASE t = s
      <4>1. row'[s].phase = "intent" /\ NoRow.phase = "none"
        BY <2>2 DEF RowCreated, NoRow
      <4>2. pc'[t] \notin BeforeRow
        BY <1>1, <1>3, <3>1, <3>3, <4>1 DEF Takes
      <4>3. pc'[t] \notin Planned
        BY <1>1, <1>3, <3>1, <3>3, <4>1 DEF Takes
      <4> QED
        BY <3>1, <3>2, <3>3, <4>2, <4>3
    <3>4. CASE t # s
      BY <1>0, <1>3, <2>2, <3>2, <3>4 DEF PlanIsWritten, RowCreated
    <3> QED
      BY <3>3, <3>4
  <2> QED
    BY <2>1, <2>2 DEF CallShape
<1>8. EvidenceIsThere'
  <2>1. evidence \subseteq evidence'
    BY DEF CallShape
  <2>2. ASSUME NEW t \in Switches PROVE pc'[t] = "accept" => t \in evidence'
    BY <1>0, <1>1, <1>3, <2>1 DEF EvidenceIsThere, Takes
  <2>3. ASSUME NEW t \in Switches, row'[t].phase \in Recorded PROVE t \in evidence'
    <3>1. CASE row' = row
      BY <1>0, <2>1, <2>3, <3>1 DEF EvidenceIsThere, Recorded
    <3>2. CASE RowStep(s, evidence)
      BY <1>0, <2>1, <2>3, <3>2, RowStepFacts DEF EvidenceIsThere, Recorded
    <3>3. CASE RowCreated(s)
      <4>1. t # s
        BY <2>3, <3>3 DEF RowCreated, Recorded
      <4> QED
        BY <1>0, <2>1, <2>3, <3>3, <4>1 DEF RowCreated, EvidenceIsThere, Recorded
    <3> QED
      BY <3>1, <3>2, <3>3 DEF CallShape
  <2> QED
    BY <1>0, <1>2, <2>1, <2>2, <2>3 DEF EvidenceIsThere, Recorded
<1>9. OneWorker'
  <2>1. \A t \in Switches : pc'[t] # "idle" => at[t] \in 1..workers
    BY <1>0, <1>3 DEF OneWorker, CallShape
  <2>2. ASSUME NEW t \in Switches, pc'[t] \in Leased PROVE at[t] \in {worker} \cup removing \cup closed
    <3>1. pc[t] \in Leased \/ at[t] \in accepting
      BY <1>1, <1>3, <2>2 DEF Takes
    <3> QED
      BY <1>0, <3>1 DEF OneWorker, HoldsLease, Leased
  <2>3. ASSUME NEW v \in Workers, v < workers, Physical(v)' PROVE v \in closed \cup overtaken
    <3>1. CASE rec[v] = "restoring"
      BY <1>0, <2>3, <3>1 DEF OneWorker, Physical
    <3>2. ASSUME NEW t \in Switches, at[t] = v, pc'[t] \in Acting PROVE v \in closed \cup overtaken
      <4>1. CASE t = s
        <5>1. v \in {worker} \cup closed
          BY <1>0, <1>1, <1>3, <3>2, <4>1 DEF OneWorker, Takes
        <5> QED
          BY <1>0, <2>3, <5>1, WorkerFacts DEF OneWorker
      <4>2. CASE t # s
        BY <1>0, <1>3, <2>3, <3>2, <4>2 DEF OneWorker, Physical, Acting
      <4> QED
        BY <4>1, <4>2
    <3> QED
      BY <1>2, <2>3, <3>1, <3>2 DEF Physical, Acting
  <2> QED
    BY <1>0, <1>2, <2>1, <2>2, <2>3 DEF OneWorker, HoldsLease, Leased
<1> QED
  BY <1>5, <1>6, <1>7, <1>8, <1>9 DEF IInv

LEMMA RecKeeps ==
  ASSUME ConstantsAssumption, IInv, NEW w \in Workers, RecShape(w)
  PROVE  IInv'
<1>0. TypeOK /\ SeenIsRow /\ PlanIsWritten /\ EvidenceIsThere /\ OneWorker
  BY DEF IInv
<1>1. PICK place \in RecPlaces : Reconciles(w, place)
  BY DEF RecShape
<1>2. /\ rec' = [rec EXCEPT ![w] = place] /\ rec \in [Workers -> RecPlaces]
      /\ UNCHANGED <<worker, workers, accepting, closed, removing, context, pc, at, touched, profile, overtaken>>
      /\ row \in [Switches -> Rows]
  BY <1>0, <1>1 DEF Reconciles, RecGoto, TypeOK, RecShape, pool
<1>3. rec' \in [Workers -> RecPlaces] /\ rec'[w] = place /\ \A v \in Workers : v # w => rec'[v] = rec[v]
  BY <1>2
<1>4. row' \in [Switches -> Rows]
  BY <1>2 DEF RecShape, RowStep
<1>5. TypeOK'
  BY <1>0, <1>2, <1>3, <1>4 DEF TypeOK, RecShape
<1>6. SeenIsRow'
  BY <1>0, <1>1, <1>3 DEF SeenIsRow, RecShape, Reconciles
<1>7. ASSUME NEW t \in Switches
      PROVE  /\ row[t].phase \notin {"none", "intent", "failedBefore"} =>
                   row'[t].phase \notin {"none", "intent", "failedBefore"}
             /\ row[t] = NoRow => row'[t] = NoRow
             /\ row'[t].phase \in Recorded => row[t].phase \in Recorded \/ t \in evidence
  BY RowStepFacts DEF RecShape
<1>8. PlanIsWritten'
  BY <1>0, <1>2, <1>7 DEF PlanIsWritten
<1>9. EvidenceIsThere'
  <2>1. evidence \subseteq evidence'
    BY DEF RecShape
  <2>2. ASSUME NEW v \in Workers, rec'[v] = "accept" PROVE seen'[v].op \in evidence'
    <3>1. CASE v = w
      BY <1>1, <1>3, <2>2, <3>1 DEF Reconciles
    <3>2. CASE v # w
      BY <1>0, <1>3, <2>1, <2>2, <3>2 DEF EvidenceIsThere, RecShape
    <3> QED
      BY <3>1, <3>2
  <2> QED
    BY <1>0, <1>2, <1>7, <2>1, <2>2 DEF EvidenceIsThere, Recorded
<1>10. OneWorker'
  <2>1. \A v \in Workers : v > workers => rec'[v] = "none"
    <3>1. ~(w > workers)
      BY <1>0, <1>1 DEF OneWorker, Reconciles
    <3> QED
      BY <1>0, <1>3, <3>1 DEF OneWorker
  <2>2. \A v \in Workers : rec'[v] \in Reconciling => v \in {worker} \cup removing \cup closed
    BY <1>0, <1>1, <1>3 DEF OneWorker, Reconciles
  <2>3. ASSUME NEW v \in Workers, v < workers, Physical(v)' PROVE v \in closed \cup overtaken
    <3>1. CASE Physical(v)
      BY <1>0, <2>3, <3>1 DEF OneWorker
    <3>2. CASE ~Physical(v)
      <4>1. v = w /\ place = "restoring"
        BY <1>2, <1>3, <2>3, <3>2 DEF Physical
      <4>2. v \in {worker} \cup closed
        BY <1>0, <1>1, <4>1 DEF OneWorker, Reconciles
      <4> QED
        BY <1>0, <2>3, <4>2, WorkerFacts DEF OneWorker
    <3> QED
      BY <3>1, <3>2
  <2> QED
    BY <1>0, <1>2, <2>1, <2>2, <2>3 DEF OneWorker, HoldsLease
<1> QED
  BY <1>5, <1>6, <1>8, <1>9, <1>10 DEF IInv

\* The environment leaves the journal and the device alone; it lets a call
\* begin, and schedules or ends what runs.
EnvironmentShape ==
    /\ UNCHANGED <<row, device, seen, robbed>>
    /\ pc' \in [Switches -> CallPlaces] /\ at' \in [Switches -> 0..MaxWorker]
    /\ rec' \in [Workers -> RecPlaces] /\ context' \in Contexts
    /\ \A s \in Switches : \/ pc'[s] = pc[s]
                           \/ pc[s] = "idle" /\ pc'[s] = "queued"
                           \/ pc'[s] = "done"
    /\ \A s \in Switches : pc[s] # "idle" => at'[s] = at[s]
    /\ \A w \in Workers : rec'[w] = rec[w] \/ rec'[w] \in {"scheduled", "done"}

LEMMA EnvironmentKeepsJournal ==
  ASSUME ConstantsAssumption, IInv, EnvironmentShape
  PROVE  SeenIsRow' /\ PlanIsWritten' /\ EvidenceIsThere'
<1> USE DEF EnvironmentShape, device, IInv
<1>1. SeenIsRow'
  BY DEF SeenIsRow, Reconciling
<1>2. PlanIsWritten'
  <2> SUFFICES ASSUME NEW s \in Switches
               PROVE  /\ s \in touched' \/ pc'[s] \in Planned =>
                            row'[s].phase \notin {"none", "intent", "failedBefore"}
                      /\ pc'[s] \in BeforeRow => row'[s] = NoRow /\ s \notin touched'
    BY DEF PlanIsWritten
  <2>1. pc'[s] \in Planned => pc[s] \in Planned
    BY DEF Planned
  <2>2. pc'[s] \in BeforeRow => pc[s] \in BeforeRow
    BY DEF BeforeRow
  <2> QED
    BY <2>1, <2>2 DEF PlanIsWritten
<1>3. EvidenceIsThere'
  <2>1. \A s \in Switches : pc'[s] = "accept" => pc[s] = "accept"
    OBVIOUS
  <2>2. \A w \in Workers : rec'[w] = "accept" => rec[w] = "accept"
    OBVIOUS
  <2> QED
    BY <2>1, <2>2 DEF EvidenceIsThere
<1> QED
  BY <1>1, <1>2, <1>3

\* Nobody gets a lease or acts on the device in a step of the environment.
LEMMA EnvironmentActs ==
  ASSUME EnvironmentShape
  PROVE  /\ \A s \in Switches : HoldsLease(s)' => HoldsLease(s) /\ at'[s] = at[s] /\ pc[s] # "idle"
         /\ \A w \in Workers : rec'[w] \in Reconciling => rec[w] \in Reconciling
         /\ \A w \in Workers : Physical(w)' => Physical(w)
<1>1. \A s \in Switches : pc'[s] \in InWrite \cup InRecovery \cup InFailure =>
                             pc'[s] = pc[s] /\ at'[s] = at[s] /\ pc[s] # "idle"
  BY DEF EnvironmentShape, InWrite, InRecovery, InFailure
<1>2. \A w \in Workers : rec'[w] \in Reconciling => rec'[w] = rec[w]
  BY DEF EnvironmentShape, Reconciling
<1>3. ASSUME NEW w \in Workers, Physical(w)' PROVE Physical(w)
  <2>1. CASE rec'[w] = "restoring"
    BY <1>2, <2>1 DEF Physical, Reconciling
  <2>2. ASSUME NEW s \in Switches, at'[s] = w, pc'[s] \in {"tearing", "applying", "undo", "converge"}
        PROVE  Physical(w)
    <3>1. pc'[s] = pc[s] /\ at'[s] = at[s]
      BY <1>1, <2>2 DEF InWrite, InRecovery, InFailure
    <3> QED
      BY <2>2, <3>1 DEF Physical
  <2> QED
    BY <1>3, <2>1, <2>2 DEF Physical
<1> QED
  BY <1>1, <1>2, <1>3 DEF HoldsLease

\* Who acts holds a lease.
LEMMA ActingIsKnown ==
  ASSUME OneWorker, NEW w \in Workers, Physical(w)
  PROVE  w \in {worker} \cup removing \cup closed
<1>1. CASE rec[w] = "restoring"
  BY <1>1 DEF OneWorker, Reconciling
<1>2. CASE \E s \in Switches : at[s] = w /\ pc[s] \in {"tearing", "applying", "undo", "converge"}
  BY <1>2 DEF OneWorker, HoldsLease, InWrite, InRecovery, InFailure
<1> QED
  BY <1>1, <1>2 DEF Physical

\* A worker that is known stays known: it is registered, waited for or closed.
LEMMA EnvironmentKeepsWorkers ==
  ASSUME OneWorker, EnvironmentShape, workers' = workers, overtaken' = overtaken,
         closed \subseteq closed',
         {worker} \cup removing \cup closed \subseteq {worker'} \cup removing' \cup closed',
         worker' \in {0, workers}, worker' \notin removing', removing' \subseteq 1..workers,
         accepting' \subseteq {worker'} \cup closed', closed' \subseteq 1..workers,
         accepting' \subseteq 1..workers,
         \A w \in Workers : w > workers => rec'[w] = "none",
         \A s \in Switches : pc'[s] # "idle" => at'[s] \in 1..workers
  PROVE  OneWorker'
<1>1. \A w \in Workers : rec'[w] \in Reconciling => w \in {worker'} \cup removing' \cup closed'
  BY EnvironmentActs DEF OneWorker
<1>2. \A s \in Switches : HoldsLease(s)' => at'[s] \in {worker'} \cup removing' \cup closed'
  BY EnvironmentActs DEF OneWorker
<1>3. \A w \in Workers : w < workers' /\ Physical(w)' => w \in closed' \cup overtaken'
  BY EnvironmentActs DEF OneWorker
<1> QED
  BY <1>1, <1>2, <1>3 DEF OneWorker

LEMMA EnvironmentKeeps ==
  ASSUME ConstantsAssumption, IInv, (\E s \in Switches : Call(s)) \/ Environment
  PROVE  IInv'
<1> USE Places, NoContextType, WorkerFacts DEF past
<1>0. TypeOK /\ OneWorker
  BY DEF IInv
<1>1. /\ worker \in {0, workers} /\ worker \notin removing /\ removing \subseteq 1..workers
      /\ accepting \subseteq {worker} \cup closed
      /\ closed \subseteq 1..workers /\ accepting \subseteq 1..workers
      /\ \A w \in Workers : w > workers => rec[w] = "none"
      /\ \A s \in Switches : pc[s] # "idle" => at[s] \in 1..workers
      /\ pc \in [Switches -> CallPlaces] /\ at \in [Switches -> 0..MaxWorker]
      /\ rec \in [Workers -> RecPlaces] /\ workers \in Nat
  BY <1>0 DEF OneWorker, TypeOK
<1>2. ASSUME NEW s \in Switches, Call(s) PROVE IInv'
  <2>1. /\ EnvironmentShape /\ TypeOK'
        /\ at' = [at EXCEPT ![s] = worker] /\ pc' = [pc EXCEPT ![s] = "queued"]
        /\ worker # 0 /\ UNCHANGED <<worker, workers, accepting, closed, removing, rec, overtaken>>
    BY <1>0, <1>2 DEF Call, Goto, EnvironmentShape, TypeOK, device, pool
  <2>2. \A t \in Switches : pc'[t] # "idle" => at'[t] \in 1..workers
    BY <1>0, <1>1, <2>1
  <2>3. OneWorker'
    BY <1>0, <1>1, <2>1, <2>2, EnvironmentKeepsWorkers
  <2> QED
    BY <2>1, <2>3, EnvironmentKeepsJournal DEF IInv
<1>3. CASE Guard
  <2>1. /\ EnvironmentShape /\ TypeOK'
        /\ UNCHANGED <<worker, workers, accepting, closed, removing, rec, overtaken, pc, at>>
    BY <1>0, <1>3 DEF Guard, EnvironmentShape, TypeOK, device, pool
  <2>2. OneWorker'
    BY <1>0, <1>1, <2>1, EnvironmentKeepsWorkers
  <2> QED
    BY <2>1, <2>2, EnvironmentKeepsJournal DEF IInv
<1>4. CASE Register
  <2>1. /\ worker = 0 /\ workers < MaxWorker
        /\ workers' = workers + 1 /\ worker' = workers + 1
        /\ accepting' = accepting \cup {workers + 1}
        /\ late' = {}
        /\ UNCHANGED <<row, closed, removing, context, device, pc, at, rec, seen, robbed>>
    BY <1>4 DEF Register, calls
  <2>0. /\ overtaken' \subseteq overtaken \cup removing
        /\ \A v \in removing : Physical(v) => v \in overtaken'
    BY <1>4 DEF Register
  <2>2. EnvironmentShape
    BY <1>0, <2>1 DEF EnvironmentShape, TypeOK
  <2>3. TypeOK'
    <3>1. overtaken' \subseteq Workers /\ workers + 1 \in Workers /\ workers + 1 \in 0..MaxWorker
      BY <1>0, <2>0, <2>1 DEF TypeOK, Workers
    <3> QED
      BY <1>0, <2>1, <3>1 DEF TypeOK, device
  <2>4. OneWorker'
    <3>1. /\ workers + 1 \in 1..workers' /\ 1..workers \subseteq 1..workers' /\ workers' \in Nat
          /\ workers + 1 \notin 1..workers
      BY <1>0, <2>1
    <3>2. /\ worker' \in {0, workers'} /\ worker' \notin removing' /\ removing' \subseteq 1..workers'
          /\ accepting' \subseteq {worker'} \cup closed'
          /\ closed' \subseteq 1..workers' /\ accepting' \subseteq 1..workers'
          /\ \A s \in Switches : pc'[s] # "idle" => at'[s] \in 1..workers'
      BY <1>1, <2>1, <3>1
    <3>3. \A w \in Workers : w > workers' => rec'[w] = "none"
      BY <1>0, <1>1, <2>1
    <3>4. \A w \in Workers : rec'[w] \in Reconciling => w \in {worker'} \cup removing' \cup closed'
      BY <1>0, <2>1 DEF OneWorker, Workers, ConstantsAssumption
    <3>5. \A s \in Switches : HoldsLease(s)' => at'[s] \in {worker'} \cup removing' \cup closed'
      <4>1. \A s \in Switches : HoldsLease(s)' => HoldsLease(s) /\ at'[s] = at[s] /\ pc[s] # "idle"
        BY <2>2, EnvironmentActs
      <4>2. \A s \in Switches : HoldsLease(s) => at[s] \in {0} \cup removing \cup closed
        BY <1>0, <2>1 DEF OneWorker
      <4> QED
        BY <1>1, <2>1, <4>1, <4>2
    <3>6. ASSUME NEW w \in Workers, Physical(w)' PROVE w \in closed' \cup overtaken'
      <4>1. Physical(w)
        BY <2>2, <3>6, EnvironmentActs
      <4>2. w \in removing \cup closed
        BY <1>0, <2>1, <4>1, ActingIsKnown
      <4> QED
        BY <2>0, <2>1, <4>1, <4>2
    <3> QED
      BY <3>2, <3>3, <3>4, <3>5, <3>6 DEF OneWorker
  <2> QED
    BY <2>2, <2>3, <2>4, EnvironmentKeepsJournal DEF IInv
<1>5. ASSUME NEW w \in Workers, Start(w) PROVE IInv'
  <2>1. /\ w <= workers /\ rec' = [rec EXCEPT ![w] = "scheduled"]
        /\ UNCHANGED <<row, worker, workers, accepting, closed, removing, context, device,
                       pc, at, seen, robbed, late, overtaken>>
    BY <1>5 DEF Start, RecGoto, pool
  <2>2. EnvironmentShape /\ TypeOK'
    BY <1>0, <2>1 DEF EnvironmentShape, TypeOK, device
  <2>3. \A v \in Workers : v > workers => rec'[v] = "none"
    BY <1>0, <1>1, <2>1
  <2>4. OneWorker'
    BY <1>0, <1>1, <2>1, <2>2, <2>3, EnvironmentKeepsWorkers
  <2> QED
    BY <2>2, <2>4, EnvironmentKeepsJournal DEF IInv
<1>6. ASSUME NEW w \in Workers, StartFails(w) PROVE IInv'
  <2>1. /\ w <= workers /\ worker' = (IF worker = w THEN 0 ELSE worker) /\ closed' = closed \cup {w}
        /\ rec' = [rec EXCEPT ![w] = "done"]
        /\ UNCHANGED <<row, workers, accepting, removing, context, device, pc, at, seen, robbed,
                       late, overtaken>>
    BY <1>6 DEF StartFails, RecGoto
  <2>2. EnvironmentShape /\ TypeOK'
    BY <1>0, <2>1 DEF EnvironmentShape, TypeOK, device
  <2>3. w \in 1..workers /\ 0 \notin 1..workers
    BY <1>0, <1>1, <2>1 DEF Workers
  <2>4. \A v \in Workers : v > workers => rec'[v] = "none"
    BY <1>0, <1>1, <2>1
  <2>5. /\ {worker} \cup removing \cup closed \subseteq {worker'} \cup removing' \cup closed'
        /\ worker' \in {0, workers} /\ worker' \notin removing' /\ removing' \subseteq 1..workers
        /\ accepting' \subseteq {worker'} \cup closed' /\ closed' \subseteq 1..workers
    BY <1>1, <2>1, <2>3
  <2>6. OneWorker'
    BY <1>0, <1>1, <2>1, <2>2, <2>4, <2>5, EnvironmentKeepsWorkers
  <2> QED
    BY <2>2, <2>6, EnvironmentKeepsJournal DEF IInv
<1>7. CASE RemoveWorker
  <2>1. /\ worker # 0 /\ worker' = 0 /\ removing' = removing \cup {worker}
        /\ accepting' = accepting \ {worker}
        /\ UNCHANGED <<row, workers, closed, context, device, pc, at, rec, seen, robbed, late, overtaken>>
    BY <1>7 DEF RemoveWorker, calls
  <2>2. worker \in 1..workers /\ 0 \notin 1..workers
    BY <1>1, <2>1
  <2>3. EnvironmentShape /\ TypeOK'
    BY <1>0, <1>1, <2>1, <2>2 DEF EnvironmentShape, TypeOK, device, Workers
  <2>4. OneWorker'
    BY <1>0, <1>1, <2>1, <2>2, <2>3, EnvironmentKeepsWorkers
  <2> QED
    BY <2>3, <2>4, EnvironmentKeepsJournal DEF IInv
<1>8. ASSUME NEW w \in Workers, Removed(w) PROVE IInv'
  <2>1. /\ w \in removing /\ removing' = removing \ {w} /\ closed' = closed \cup {w}
        /\ UNCHANGED <<row, worker, workers, accepting, context, device, pc, at, rec, seen, robbed,
                       late, overtaken>>
    BY <1>8 DEF Removed, calls
  <2>2. EnvironmentShape /\ TypeOK'
    BY <1>0, <2>1 DEF EnvironmentShape, TypeOK, device, Workers
  <2>3. OneWorker'
    BY <1>0, <1>1, <2>1, <2>2, EnvironmentKeepsWorkers
  <2> QED
    BY <2>2, <2>3, EnvironmentKeepsJournal DEF IInv
<1>9. CASE Crash
  <2>1. /\ worker' = 0 /\ removing' = {} /\ accepting' = {} /\ closed' = 1..workers
        /\ context' = NoContext
        /\ pc' = [s \in Switches |-> IF pc[s] = "idle" THEN "idle" ELSE "done"]
        /\ rec' = [w \in Workers |-> IF w <= workers THEN "done" ELSE rec[w]]
        /\ UNCHANGED <<row, workers, device, at, seen, robbed, late, overtaken>>
    BY <1>9 DEF Crash
  <2>2. EnvironmentShape /\ TypeOK'
    BY <1>0, <2>1 DEF EnvironmentShape, TypeOK, device, Workers
  <2>3. \A w \in Workers : w > workers => rec'[w] = "none"
    BY <1>0, <1>1, <2>1
  <2>4. \A s \in Switches : pc'[s] # "idle" => at'[s] \in 1..workers
    BY <1>1, <2>1
  <2>5. {worker} \cup removing \cup closed \subseteq {worker'} \cup removing' \cup closed'
    BY <1>1, <2>1
  <2>6. OneWorker'
    BY <1>0, <1>1, <2>1, <2>2, <2>3, <2>4, <2>5, EnvironmentKeepsWorkers
  <2> QED
    BY <2>2, <2>6, EnvironmentKeepsJournal DEF IInv
<1> QED
  BY <1>2, <1>3, <1>4, <1>5, <1>6, <1>7, <1>8, <1>9 DEF Environment, WorkerStep

LEMMA InitEstablishes == ASSUME ConstantsAssumption, Init PROVE IInv
<1> USE Places, NoContextType DEF Init
<1>1. MaxWorker \in Nat \ {0} /\ NothingSeen \in Seen
  BY DEF ConstantsAssumption, Seen
<1>2. TypeOK
  <2>1. row \in [Switches -> Rows] /\ pc \in [Switches -> CallPlaces] /\ at \in [Switches -> 0..MaxWorker]
    BY <1>1, RowFacts
  <2>2. rec \in [Workers -> RecPlaces] /\ seen \in [Workers -> Seen]
    BY <1>1
  <2>3. worker \in 0..MaxWorker /\ workers \in 0..MaxWorker /\ removing \subseteq Workers
    BY <1>1
  <2> QED
    BY <2>1, <2>2, <2>3 DEF TypeOK
<1>3. SeenIsRow /\ PlanIsWritten /\ EvidenceIsThere
  BY RowFacts DEF SeenIsRow, PlanIsWritten, EvidenceIsThere, Reconciling, Planned, BeforeRow
<1>4. OneWorker
  BY <1>1 DEF OneWorker, Workers, HoldsLease, InWrite, InRecovery, InFailure, Reconciling, Physical
<1> QED
  BY <1>2, <1>3, <1>4 DEF IInv

LEMMA StutterKeeps == ASSUME IInv, UNCHANGED vars PROVE IInv'
BY DEF IInv, vars, TypeOK, SeenIsRow, PlanIsWritten, EvidenceIsThere, OneWorker, HoldsLease, Physical

LEMMA Inductive == Spec => []IInv
<1>1. Init => IInv
  BY InitEstablishes, ConstantsAssumption
<1>2. IInv /\ [Next]_vars => IInv'
  <2> SUFFICES ASSUME IInv, [Next]_vars PROVE IInv'
    OBVIOUS
  <2>1. ASSUME NEW s \in Switches, SwitchStep(s) PROVE IInv'
    BY <2>1, SwitchShape, CallKeeps, ConstantsAssumption
  <2>2. ASSUME NEW w \in Workers, ReconcileStep(w) PROVE IInv'
    BY <2>2, ReconcileShape, RecKeeps, ConstantsAssumption
  <2>3. CASE (\E s \in Switches : Call(s)) \/ Environment
    BY <2>3, EnvironmentKeeps, ConstantsAssumption
  <2>4. CASE UNCHANGED vars
    BY <2>4, StutterKeeps
  <2> QED
    BY <2>1, <2>2, <2>3, <2>4 DEF Next
<1> QED
  BY <1>1, <1>2, PTL DEF Spec

-----------------------------------------------------------------------------
(* Theorems *)

\* Rows, workers, snapshots and places keep their types, for any number of
\* calls, workers and profiles.
THEOREM TypeCorrect == Spec => []TypeOK
<1>1. IInv => TypeOK
  BY DEF IInv
<1> QED
  BY <1>1, Inductive, PTL

\* The journal is true of the device: a switch recorded as failed before its
\* apply never touched it, and one recorded as accepted has its evidence, however
\* crashes, removals, the guard and the reconciliations of old and new workers
\* fall between the transactions.
THEOREM JournalTruth == Spec => []JournalIsTrue
<1>1. IInv => JournalIsTrue
  BY DEF IInv, PlanIsWritten, EvidenceIsThere, JournalIsTrue, Planned
<1> QED
  BY <1>1, Inductive, PTL

\* Two workers with open modems act on the device at once only if the older one
\* was acting when the other was registered: the leases that its removal takes
\* back let it begin no further step, and its modem is closed when they are idle.
THEOREM OneWorkerTruth == Spec => []OneWorkerActs
<1>1. ASSUME IInv, ConstantsAssumption PROVE OneWorkerActs
  <2> SUFFICES ASSUME NEW v \in Workers, NEW w \in Workers, Physical(v), Physical(w),
                      {v, w} \cap (closed \cup overtaken) = {}
               PROVE  v = w
    BY DEF OneWorkerActs
  <2>0. OneWorker /\ TypeOK
    BY <1>1 DEF IInv
  <2>1. ASSUME NEW u \in Workers, Physical(u), u \notin closed \cup overtaken PROVE u = workers
    <3>1. u \in 1..workers
      <4>1. u \in {worker} \cup removing
        BY <2>0, <2>1, ActingIsKnown
      <4>2. u # 0
        BY <1>1, WorkerFacts, <2>0
      <4> QED
        BY <1>1, <2>0, <4>1, <4>2, WorkerFacts DEF OneWorker
    <3>2. ~(u < workers)
      BY <2>0, <2>1 DEF OneWorker
    <3> QED
      BY <1>1, <2>0, <3>1, <3>2, WorkerFacts
  <2> QED
    BY <2>1
<1>2. IInv => OneWorkerActs
  BY <1>1, ConstantsAssumption
<1> QED
  BY <1>2, Inductive, PTL

-----------------------------------------------------------------------------
(* A device that is left torn down blocks the next switch *)

\* Torn down, and no restore has ended since.
Untended == down /\ ~tried

\* The index of the journal over the rows that are not terminal.
OneOpen == \A s, t \in Switches : row[s].phase \in Open /\ row[t].phase \in Open => s = t

\* A claim makes a new version.
FirstVersion == \A s \in Switches : row[s].version = 1 => row[s].reconciler = 0

\* A row is still as the worker that claimed it knows it, or a newer version of it.
AfterClaim == Reconciling \ {"read", "claim"}
ClaimIsKnown ==
    \A w \in Workers : rec[w] \in AfterClaim =>
        /\ seen[w].owner = w /\ seen[w].version <= row[seen[w].op].version
        /\ row[seen[w].op].version = seen[w].version => row[seen[w].op].reconciler = w

SnapshotIsOwn == \A s \in Switches : Mine(s) => pc[s] # "idle" /\ context.owner = at[s]

\* The modem of a worker is closed only after its reconciliation.
OpenModems ==
    /\ worker \notin closed
    /\ \A w \in Workers : rec[w] \in Reconciling => w \notin closed

\* While the modem of its worker is open, a switch that acts on the device has its
\* row, past the intent, and nobody claimed it.
PlanIsUnclaimed ==
    \A s \in Switches : pc[s] \in Planned /\ at[s] \notin closed =>
        row[s].phase \in Open \ {"intent"} /\ row[s].reconciler = 0 /\ row[s].owner = at[s]

\* Who may end a row, ends it with the device restored or never torn down.
RestoredIsUp ==
    \A s \in Switches : pc[s] = "complete" /\ at[s] \notin closed /\ row[s].phase \in Open => ~Untended
ReconciledIsUp ==
    \A w \in Workers : rec[w] = "succeed" /\ Matches(seen[w].op, seen[w]) => ~Untended
IntentIsUp == \A s \in Switches : row[s].phase = "intent" => ~Untended

JournalInv == OneOpen /\ FirstVersion /\ ClaimIsKnown /\ SnapshotIsOwn /\ OpenModems
DownInv == /\ PlanIsUnclaimed /\ RestoredIsUp /\ ReconciledIsUp /\ IntentIsUp
           /\ Untended => Blocking # {}
TInv == JournalInv /\ (robbed = {} => DownInv)

\* The row of s follows the relation, in its owner's hands.
RowAdvances(s) ==
    /\ row[s].phase \in Open
    /\ <<row[s].phase, row'[s].phase>> \in validESIMSwitchTransition
    /\ row'[s].version = row[s].version + 1
    /\ row'[s].owner = row[s].owner /\ row'[s].reconciler = row[s].reconciler
    /\ \A t \in Switches : t # s => row'[t] = row[t]

LEMMA OpenRow ==
  ASSUME TypeOK, NEW s \in Switches, row[s].phase \in Open
  PROVE  row[s] \in [phase : Phases, owner : Workers, version : Nat \ {0}, reconciler : 0..MaxWorker]
BY RowFacts DEF TypeOK

LEMMA TransitionAdvances ==
  ASSUME TypeOK, NEW s \in Switches, NEW e, NEW next, Transition(s, e, next)
  PROVE  /\ RowAdvances(s) /\ row'[s].phase = next /\ Matches(s, e)
         /\ e.owner = worker /\ row[s].owner = worker
<1>1. /\ row[s].phase = e.phase /\ row[s].phase \in Open /\ row[s].owner = e.owner /\ e.owner = worker
      /\ <<e.phase, next>> \in validESIMSwitchTransition
      /\ row' = [row EXCEPT ![s] = [row[s] EXCEPT !.phase = next, !.version = row[s].version + 1]]
      /\ row \in [Switches -> Rows]
  BY DEF Transition, MayTransition, Matches, TypeOK
<1>2. row[s] \in [phase : Phases, owner : Workers, version : Nat \ {0}, reconciler : 0..MaxWorker]
  BY <1>1, OpenRow
<1>3. row'[s] = [row[s] EXCEPT !.phase = next, !.version = row[s].version + 1]
      /\ \A t \in Switches : t # s => row'[t] = row[t]
  BY <1>1
<1>4. /\ row'[s].phase = next /\ row'[s].version = row[s].version + 1
      /\ row'[s].owner = row[s].owner /\ row'[s].reconciler = row[s].reconciler
  BY <1>2, <1>3
<1> QED
  BY <1>1, <1>3, <1>4 DEF RowAdvances, Transition, MayTransition

-----------------------------------------------------------------------------
(* The steps of a switch, as the device and the next switch see them *)

Rests(s) ==
    /\ row' = row /\ (Untended' => Untended)
    /\ pc'[s] \in Planned => pc[s] \in Planned
    /\ pc'[s] = "complete" => ~Untended' \/ at[s] \in closed

Tears(s) ==
    /\ pc[s] = "tearing" /\ pc'[s] = "barrier"
    /\ row' = row /\ (Untended' => Untended \/ at[s] \notin closed)

Enters(s) ==
    /\ Blocking = {} /\ pc'[s] = "plan" /\ (Untended' <=> Untended)
    /\ row'[s] = [phase |-> "intent", owner |-> at[s], version |-> 1, reconciler |-> 0]
    /\ \A t \in Switches : t # s => row'[t] = row[t]
    /\ pc[s] = "create"

Records(s) ==
    /\ RowAdvances(s) /\ (Untended' <=> Untended)
    /\ row[s].owner = at[s] /\ at[s] = worker
    /\ pc'[s] \in Planned => row'[s].phase \in Open /\ (pc[s] \in Planned \/ row[s].version = 1)
    /\ pc'[s] # "complete"
    /\ row'[s].phase = "succeeded" => pc[s] = "complete"

\* The snapshot is of the call that registered it.
KeepsSnapshot(s) ==
    \A t \in Switches : context'.token = t =>
        \/ context.token = t /\ context'.owner = context.owner
        \/ t = s /\ context'.owner = at[s]

TornShape(s) ==
    /\ UNCHANGED <<worker, closed, removing, at, rec, seen, robbed>>
    /\ \A t \in Switches : t # s => pc'[t] = pc[t]
    /\ pc[s] # "idle" /\ pc'[s] # "idle"
    /\ KeepsSnapshot(s)
    /\ Rests(s) \/ Tears(s) \/ Enters(s) \/ Records(s)

\* The parts of the shape that every step of s has.
LEMMA Common ==
  ASSUME TypeOK, NEW s \in Switches, NEW place \in CallPlaces \ {"idle"}, Goto(s, place),
         UNCHANGED <<worker, closed, removing, at, rec, seen, robbed>>, pc[s] # "idle",
         KeepsSnapshot(s), Rests(s) \/ Tears(s) \/ Enters(s) \/ Records(s)
  PROVE  TornShape(s)
BY DEF TornShape, TypeOK, Goto

LEMMA SnapshotKept ==
  ASSUME ConstantsAssumption, TypeOK, NEW s \in Switches,
         \/ context' = context \/ context' = NoContext
         \/ \E next \in Phases : Store(s, next)
  PROVE  KeepsSnapshot(s)
<1>1. CASE context' = context
  BY <1>1 DEF KeepsSnapshot
<1>2. CASE context' = NoContext
  BY <1>2 DEF KeepsSnapshot, NoContext, ConstantsAssumption
<1>3. ASSUME NEW next \in Phases, Store(s, next) PROVE KeepsSnapshot(s)
  <2>1. CASE Mine(s)
    <3>1. context \in [token : Switches, phase : Phases, version : Nat \ {0}, owner : Workers]
      BY <2>1, SnapshotPhase
    <3>2. context'.token = context.token /\ context'.owner = context.owner
      BY <1>3, <2>1, <3>1 DEF Store
    <3> QED
      BY <3>2 DEF KeepsSnapshot
  <2>2. CASE ~Mine(s)
    BY <1>3, <2>2 DEF Store, KeepsSnapshot
  <2> QED
    BY <2>1, <2>2
<1> QED
  BY <1>1, <1>2, <1>3

LEMMA MovesTorn ==
  ASSUME ConstantsAssumption, TypeOK, NEW s \in Switches,
         \/ Lock(s) \/ Begin(s) \/ CheckTeardown(s) \/ Barrier(s) \/ CheckApply(s)
         \/ Failed(s) \/ CheckFailed(s) \/ After(s) \/ Validate(s)
  PROVE  TornShape(s)
<1>1. /\ UNCHANGED <<row, pool, context, device, at, rec, seen, robbed, past>>
      /\ pc[s] # "idle"
  BY DEF Lock, Begin, CheckTeardown, Barrier, CheckApply, Failed, CheckFailed, After, Validate
<1>2. PICK place \in {"begin", "done", "create", "tearing", "failed", "prepare", "applying",
                      "persist", "undo", "recover", "converge"} : Goto(s, place)
  BY DEF Lock, Begin, CheckTeardown, Barrier, CheckApply, Failed, CheckFailed, After, Validate
<1>3. place \in CallPlaces \ {"idle"} /\ pc'[s] = place
  BY <1>2 DEF CallPlaces, InWrite, InRecovery, InFailure, TypeOK, Goto
<1>4. pc'[s] \in Planned => pc[s] \in Planned
  <2>1. pc'[s] \in {"tearing", "prepare", "applying"} => pc[s] \in {"teardown", "barrier", "apply"}
    BY <1>3 DEF Lock, Begin, CheckTeardown, Barrier, CheckApply, Failed, CheckFailed, After, Validate, Goto, TypeOK
  <2> QED
    BY <1>2, <1>3, <2>1 DEF Planned
<1>5. Rests(s)
  BY <1>1, <1>2, <1>3, <1>4 DEF Rests, device, Untended
<1>6. KeepsSnapshot(s)
  BY <1>1, SnapshotKept
<1> QED
  BY <1>1, <1>2, <1>3, <1>5, <1>6, Common DEF pool

LEMMA CreateTorn ==
  ASSUME ConstantsAssumption, TypeOK, NEW s \in Switches, Create(s)
  PROVE  TornShape(s)
<1>1. UNCHANGED <<pool, device, at, rec, seen, robbed, overtaken>> /\ pc[s] = "create"
  BY DEF Create
<1> DEFINE new == [phase |-> "intent", owner |-> at[s], version |-> 1, reconciler |-> 0]
<1>2. CASE /\ Blocking = {} /\ row' = [row EXCEPT ![s] = new] /\ Goto(s, "plan")
           /\ context' = [token |-> s, phase |-> "intent", version |-> 1, owner |-> at[s]]
  <2>1. pc'[s] = "plan" /\ row'[s] = new /\ \A t \in Switches : t # s => row'[t] = row[t]
    BY <1>2 DEF Goto, TypeOK
  <2>2. Enters(s)
    BY <1>1, <1>2, <2>1 DEF Enters, device, Untended
  <2>3. KeepsSnapshot(s)
    BY <1>2 DEF KeepsSnapshot
  <2>4. "plan" \in CallPlaces \ {"idle"}
    BY DEF CallPlaces, InWrite
  <2> QED
    BY <1>1, <1>2, <2>2, <2>3, <2>4, Common DEF pool
<1>3. CASE UNCHANGED <<row, context>> /\ \E place \in {"busy", "done"} : Goto(s, place)
  <2>1. PICK place \in {"busy", "done"} : Goto(s, place)
    BY <1>3
  <2>2. pc'[s] = place /\ place \in CallPlaces \ {"idle"}
    BY <2>1 DEF Goto, TypeOK, CallPlaces
  <2>3. Rests(s) /\ KeepsSnapshot(s)
    BY <1>1, <1>3, <2>1, <2>2, SnapshotKept DEF Rests, device, Untended, Planned
  <2> QED
    BY <1>1, <2>1, <2>2, <2>3, Common DEF pool
<1> QED
  BY <1>2, <1>3 DEF Create

\* A transition of s in its own journal row, by the worker that is registered.
LEMMA RecordsShape ==
  ASSUME ConstantsAssumption, TypeOK, NEW s \in Switches, NEW e, NEW next, Transition(s, e, next),
         e.owner = at[s], NEW place \in CallPlaces \ {"idle", "complete"}, Goto(s, place),
         UNCHANGED <<pool, device, at, rec, seen, robbed, past>>, pc[s] # "idle", KeepsSnapshot(s),
         place \in Planned => next \in Open /\ (pc[s] \in Planned \/ row[s].version = 1),
         next = "succeeded" => pc[s] = "complete"
  PROVE  TornShape(s)
<1>1. /\ RowAdvances(s) /\ row'[s].phase = next /\ e.owner = worker /\ row[s].owner = worker
  BY TransitionAdvances
<1>2. pc'[s] = place
  BY DEF Goto, TypeOK
<1>3. Records(s)
  BY <1>1, <1>2 DEF Records, device, Untended
<1> QED
  BY <1>3, Common DEF pool

LEMMA FailsToRecord ==
  ASSUME ConstantsAssumption, TypeOK, NEW s \in Switches,
         NEW place \in CallPlaces \ ({"idle", "complete"} \cup Planned), Goto(s, place), row' = row,
         UNCHANGED <<pool, device, at, rec, seen, robbed, past>>, pc[s] # "idle", KeepsSnapshot(s)
  PROVE  TornShape(s)
<1>1. pc'[s] = place
  BY DEF Goto, TypeOK
<1>2. Rests(s)
  BY <1>1 DEF Rests, device, Untended
<1> QED
  BY <1>2, Common DEF pool

LEMMA JournalTorn ==
  ASSUME ConstantsAssumption, TypeOK, SnapshotIsOwn, NEW s \in Switches,
         \/ PlanTeardown(s) \/ prepareESIMSwitchPhysicalApply(s) \/ markESIMSwitchAccepted(s)
         \/ persistESIMSwitchFailure(s) \/ beginESIMSwitchRecovery(s)
  PROVE  TornShape(s)
<1>0. /\ {"teardown", "apply", "failed", "after", "check", "done", "validate"}
            \subseteq CallPlaces \ {"idle", "complete"}
      /\ {"failed", "after", "check", "done", "validate"} \cap Planned = {}
      /\ {"teardown", "apply", "accepted", "restoring", "needsRec"} \subseteq Open
      /\ Open \subseteq Phases /\ "failedBefore" \in Phases
  BY DEF CallPlaces, InWrite, InRecovery, InFailure, Planned, Open, Phases, Terminal
<1>1. Mine(s) => \A phase : /\ Snapshot.owner = at[s]
                            /\ [Snapshot EXCEPT !.phase = phase].owner = at[s]
  BY DEF SnapshotIsOwn, Snapshot
<1>2. CASE PlanTeardown(s)
  <2> DEFINE intent == [phase |-> "intent", version |-> 1, owner |-> at[s]]
  <2>0. pc[s] = "plan" /\ UNCHANGED <<pool, device, at, rec, seen, robbed, past>>
    BY <1>2 DEF PlanTeardown
  <2>1. CASE Transition(s, intent, "teardown") /\ Store(s, "teardown") /\ Goto(s, "teardown")
    <3>1. row[s].version = 1 /\ intent.owner = at[s]
      BY <2>1 DEF Transition, MayTransition, Matches
    <3>2. KeepsSnapshot(s)
      BY <1>0, <2>1, SnapshotKept
    <3> QED
      BY <1>0, <2>0, <2>1, <3>1, <3>2, RecordsShape
  <2>2. CASE TransitionFails(s, intent, "teardown") /\ Goto(s, "failed") /\ UNCHANGED context
    <3>1. row' = row /\ KeepsSnapshot(s)
      BY <2>2, SnapshotKept, FailsRow
    <3> QED
      BY <1>0, <2>0, <2>2, <3>1, FailsToRecord
  <2> QED
    BY <1>2, <2>1, <2>2 DEF PlanTeardown
<1>3. CASE prepareESIMSwitchPhysicalApply(s)
  <2> DEFINE e == [Snapshot EXCEPT !.phase = "teardown"]
  <2>0. pc[s] = "prepare" /\ pc[s] \in Planned /\ UNCHANGED <<pool, device, at, rec, seen, robbed, past>>
    BY <1>3 DEF prepareESIMSwitchPhysicalApply, Planned
  <2>1. CASE Mine(s) /\ Transition(s, e, "apply") /\ Store(s, "apply") /\ Goto(s, "apply")
    <3>1. KeepsSnapshot(s)
      BY <1>0, <2>1, SnapshotKept
    <3> QED
      BY <1>0, <1>1, <2>0, <2>1, <3>1, RecordsShape
  <2>2. CASE row' = row /\ Goto(s, "failed") /\ UNCHANGED context
    BY <1>0, <2>0, <2>2, FailsToRecord, SnapshotKept
  <2> QED
    BY <1>3, <2>1, <2>2, FailsRow DEF prepareESIMSwitchPhysicalApply
<1>4. CASE markESIMSwitchAccepted(s)
  <2> DEFINE e == [Snapshot EXCEPT !.phase = "apply"]
  <2>0. pc[s] = "accept" /\ UNCHANGED <<pool, device, at, rec, seen, robbed, past>>
    BY <1>4 DEF markESIMSwitchAccepted
  <2>1. CASE Mine(s) /\ Transition(s, e, "accepted") /\ Store(s, "accepted") /\ Goto(s, "after")
    <3>1. KeepsSnapshot(s)
      BY <1>0, <2>1, SnapshotKept
    <3> QED
      <4>1. e.owner = at[s] /\ pc[s] # "idle"
        BY <1>1, <2>0, <2>1
      <4>2. "after" \in CallPlaces \ {"idle", "complete"} /\ "after" \notin Planned
        BY <1>0
      <4> HIDE DEF e
      <4> QED
        BY <2>0, <2>1, <3>1, <4>1, <4>2, RecordsShape
  <2>2. CASE row' = row /\ Goto(s, "failed") /\ UNCHANGED context
    BY <1>0, <2>0, <2>2, FailsToRecord, SnapshotKept
  <2> QED
    BY <1>4, <2>1, <2>2, FailsRow DEF markESIMSwitchAccepted
<1>5. CASE persistESIMSwitchFailure(s)
  <2>0. pc[s] = "persist" /\ UNCHANGED <<pool, device, at, rec, seen, robbed, past>>
    BY <1>5 DEF persistESIMSwitchFailure
  <2>1. CASE /\ Mine(s) /\ Transition(s, Snapshot, FailurePhase) /\ Store(s, FailurePhase)
             /\ Goto(s, "check")
    <3>1. FailurePhase \in {"failedBefore", "needsRec"}
      BY DEF FailurePhase
    <3>2. KeepsSnapshot(s)
      BY <1>0, <2>1, <3>1, SnapshotKept
    <3> QED
      BY <1>0, <1>1, <2>0, <2>1, <3>1, <3>2, RecordsShape
  <2>2. CASE row' = row /\ UNCHANGED context /\ (Goto(s, "check") \/ Goto(s, "done"))
    BY <1>0, <2>0, <2>2, FailsToRecord, SnapshotKept
  <2> QED
    BY <1>5, <2>1, <2>2, FailsRow DEF persistESIMSwitchFailure
<1>6. CASE beginESIMSwitchRecovery(s)
  <2>0. pc[s] = "recover" /\ UNCHANGED <<pool, device, at, rec, seen, robbed, past>>
    BY <1>6 DEF beginESIMSwitchRecovery
  <2>1. CASE /\ Mine(s) /\ Transition(s, Snapshot, "restoring") /\ Store(s, "restoring")
             /\ Goto(s, "validate")
    <3>1. KeepsSnapshot(s)
      BY <1>0, <2>1, SnapshotKept
    <3> QED
      BY <1>0, <1>1, <2>0, <2>1, <3>1, RecordsShape
  <2>2. CASE row' = row /\ Goto(s, "done") /\ UNCHANGED context
    BY <1>0, <2>0, <2>2, FailsToRecord, SnapshotKept
  <2> QED
    BY <1>6, <2>1, <2>2, FailsRow DEF beginESIMSwitchRecovery
<1> QED
  BY <1>2, <1>3, <1>4, <1>5, <1>6

LEMMA DeviceTorn ==
  ASSUME ConstantsAssumption, TypeOK, SnapshotIsOwn, NEW s \in Switches,
         \/ performESIMSwitchTeardown(s) \/ EnableProfile(s) \/ Undo(s) \/ Converge(s) \/ Complete(s)
  PROVE  TornShape(s)
<1>0. /\ {"barrier", "accept", "failed", "done", "complete"} \subseteq CallPlaces \ {"idle"}
      /\ {"done", "complete", "failed"} \cap Planned = {} /\ "applying" \in Planned
      /\ pc \in [Switches -> CallPlaces] /\ down \in BOOLEAN /\ tried \in BOOLEAN
  BY DEF CallPlaces, InWrite, InRecovery, InFailure, Planned, TypeOK
<1>1. CASE performESIMSwitchTeardown(s)
  <2>1. KeepsSnapshot(s)
    BY <1>1, SnapshotKept DEF performESIMSwitchTeardown
  <2>2. Tears(s)
    BY <1>0, <1>1 DEF performESIMSwitchTeardown, Tears, Goto, Untended
  <2> QED
    BY <1>0, <1>1, <2>1, <2>2, Common DEF performESIMSwitchTeardown, pool
<1>2. CASE EnableProfile(s)
  <2>1. KeepsSnapshot(s)
    BY <1>2, SnapshotKept DEF EnableProfile
  <2>2. PICK place \in {"accept", "failed"} : Goto(s, place)
    BY <1>2 DEF EnableProfile
  <2>3. Rests(s)
    BY <1>0, <1>2, <2>2 DEF EnableProfile, Rests, Goto, Untended
  <2> QED
    BY <1>0, <1>2, <2>1, <2>2, <2>3, Common DEF EnableProfile, pool
<1>3. CASE Undo(s)
  <2>1. KeepsSnapshot(s)
    BY <1>3, SnapshotKept DEF Undo
  <2>2. Rests(s)
    BY <1>0, <1>3 DEF Undo, Rests, Goto, Restore, Untended
  <2> QED
    BY <1>0, <1>3, <2>1, <2>2, Common DEF Undo, pool
<1>4. CASE Converge(s)
  <2>1. KeepsSnapshot(s)
    BY <1>4, SnapshotKept DEF Converge, Clear
  <2>2. PICK place \in {"complete", "done"} :
                Goto(s, place) /\ (place = "complete" => BestEffortRestore(at[s]))
    BY <1>4 DEF Converge
  <2>3. row' = row /\ (Untended' => Untended)
    BY <1>0, <1>4 DEF Converge, Restore, BestEffortRestore, Untended
  <2>5. place = "complete" => ~Untended' \/ at[s] \in closed
    BY <1>0, <2>2 DEF Restore, BestEffortRestore, Untended
  <2>4. Rests(s)
    BY <1>0, <2>2, <2>3, <2>5 DEF Rests, Goto
  <2> QED
    BY <1>0, <1>4, <2>1, <2>2, <2>4, Common DEF Converge, pool
<1>5. CASE Complete(s)
  <2>1. KeepsSnapshot(s)
    BY <1>5, SnapshotKept DEF Complete, Clear
  <2>2. Goto(s, "done") /\ UNCHANGED <<pool, device, at, rec, seen, robbed, past>> /\ pc[s] = "complete"
    BY <1>5 DEF Complete
  <2>3. CASE Mine(s) /\ Transition(s, Snapshot, "succeeded")
    <3>1. Snapshot.owner = at[s]
      BY <2>3 DEF SnapshotIsOwn, Snapshot
    <3> QED
      BY <1>0, <2>1, <2>2, <2>3, <3>1, RecordsShape
  <2>4. CASE row' = row
    BY <1>0, <2>1, <2>2, <2>4, FailsToRecord
  <2> QED
    BY <1>5, <2>3, <2>4, FailsRow DEF Complete
<1> QED
  BY <1>1, <1>2, <1>3, <1>4, <1>5

LEMMA SwitchTorn ==
  ASSUME ConstantsAssumption, TypeOK, SnapshotIsOwn, NEW s \in Switches, SwitchStep(s)
  PROVE  TornShape(s)
BY MovesTorn, CreateTorn, JournalTorn, DeviceTorn DEF SwitchStep

-----------------------------------------------------------------------------
(* The steps of a reconciliation, likewise *)

Looks(w) ==
    /\ row' = row /\ (Untended' => Untended) /\ robbed' = robbed
    /\ rec'[w] \in AfterClaim => rec[w] \in AfterClaim /\ seen'[w] = seen[w]
    /\ rec'[w] = "succeed" => ~Untended'

Claims(w) ==
    /\ rec[w] = "claim" /\ rec'[w] # "succeed" /\ (Untended' <=> Untended)
    /\ seen[w].op \in Switches /\ Matches(seen[w].op, seen[w])
    /\ row' = [row EXCEPT ![seen[w].op].owner = w, ![seen[w].op].reconciler = w,
                          ![seen[w].op].version = @ + 1]
    /\ seen'[w].op = seen[w].op /\ seen'[w].owner = w /\ seen'[w].version = seen[w].version + 1
    /\ robbed' = robbed \cup {t \in {seen[w].op} : seen[w].owner \notin closed}

Advances(w) ==
    /\ rec[w] \in AfterClaim /\ rec'[w] # "succeed" /\ (Untended' <=> Untended) /\ robbed' = robbed
    /\ seen[w].op \in Switches /\ Matches(seen[w].op, seen[w]) /\ RowAdvances(seen[w].op)
    /\ seen'[w].op = seen[w].op /\ seen'[w].owner = seen[w].owner
    /\ seen'[w].version = seen[w].version + 1
    /\ row'[seen[w].op].phase = "succeeded" => rec[w] = "succeed"

TornRec(w) ==
    /\ UNCHANGED <<worker, closed, removing, context, pc, at>>
    /\ \A v \in Workers : v # w => rec'[v] = rec[v] /\ seen'[v] = seen[v]
    /\ rec'[w] \in Reconciling => rec[w] \in Reconciling \/ w = worker
    /\ Looks(w) \/ Claims(w) \/ Advances(w)

LEMMA AdvanceTorn ==
  ASSUME ConstantsAssumption, TypeOK, SeenIsRow, NEW w \in Workers,
         NEW from \in AfterClaim, NEW next, NEW place \in (AfterClaim \ {"succeed"}) \cup {"done"},
         Advance(w, from, next, place), next = "succeeded" => from = "succeed"
  PROVE  TornRec(w)
<1> DEFINE s == seen[w].op
<1>1. /\ rec[w] = from /\ UNCHANGED <<pool, device, context, pc, at, robbed>>
      /\ seen \in [Workers -> Seen] /\ rec \in [Workers -> RecPlaces]
  BY DEF Advance, rpool, TypeOK
<1>2. /\ seen[w] \in [op : Switches, phase : Phases, version : Nat \ {0}, owner : Workers]
      /\ rec[w] \in AfterClaim /\ rec[w] \in Reconciling
  BY <1>1, SeenSwitch DEF AfterClaim
<1>3. CASE Transition(s, seen[w], next) /\ RecGoto(w, place)
            /\ seen' = [seen EXCEPT ![w].phase = next, ![w].version = @ + 1]
  <2>1. seen' = [seen EXCEPT ![w] = [seen[w] EXCEPT !.phase = next, !.version = seen[w].version + 1]]
    BY <1>1, <1>3
  <2>2. /\ seen'[w].op = s /\ seen'[w].owner = seen[w].owner /\ seen'[w].version = seen[w].version + 1
        /\ \A v \in Workers : v # w => seen'[v] = seen[v]
    BY <1>1, <1>2, <2>1
  <2>3. rec'[w] = place /\ \A v \in Workers : v # w => rec'[v] = rec[v]
    BY <1>1, <1>3 DEF RecGoto
  <2>4. RowAdvances(s) /\ row'[s].phase = next /\ Matches(s, seen[w])
    BY <1>2, <1>3, TransitionAdvances
  <2>5. Advances(w)
    BY <1>1, <1>2, <2>2, <2>3, <2>4 DEF Advances, device, Untended, AfterClaim
  <2> QED
    BY <1>1, <1>2, <2>2, <2>3, <2>5 DEF TornRec, pool
<1>4. CASE TransitionFails(s, seen[w], next) /\ RecGoto(w, "missed") /\ UNCHANGED seen
  <2>1. row' = row /\ rec'[w] = "missed" /\ \A v \in Workers : v # w => rec'[v] = rec[v]
    BY <1>1, <1>4, FailsRow DEF RecGoto
  <2> QED
    BY <1>1, <1>4, <2>1 DEF TornRec, Looks, pool, device, Untended, AfterClaim, Reconciling
<1> QED
  BY <1>3, <1>4 DEF Advance

LEMMA AdvancesTorn ==
  ASSUME ConstantsAssumption, TypeOK, SeenIsRow, NEW w \in Workers,
         \/ RejectIntent(w) \/ markReconciledESIMSwitchAmbiguous(w) \/ AcceptReconciled(w)
         \/ PlanRestore(w) \/ SucceedReconciled(w)
  PROVE  TornRec(w)
<1>0. {"fail", "doubt", "accept", "plan", "restore", "succeed"} \subseteq AfterClaim
  BY DEF AfterClaim, Reconciling
<1>1. CASE RejectIntent(w)
  BY <1>0, <1>1, AdvanceTorn DEF RejectIntent
<1>2. CASE markReconciledESIMSwitchAmbiguous(w)
  BY <1>0, <1>2, AdvanceTorn DEF markReconciledESIMSwitchAmbiguous
<1>3. CASE AcceptReconciled(w)
  BY <1>0, <1>3, AdvanceTorn DEF AcceptReconciled
<1>4. CASE PlanRestore(w)
  BY <1>0, <1>4, AdvanceTorn DEF PlanRestore
<1>5. CASE SucceedReconciled(w)
  BY <1>0, <1>5, AdvanceTorn DEF SucceedReconciled
<1> QED
  BY <1>1, <1>2, <1>3, <1>4, <1>5

LEMMA LooksTorn ==
  ASSUME TypeOK, NEW w \in Workers,
         \/ Read(w) \/ GetBlockingByDevice(w) \/ GetICCIDLive(w) \/ CheckRestore(w)
         \/ restoreReconciledESIMSwitch(w)
  PROVE  TornRec(w)
<1> USE DEF RecGoto, TypeOK
<1>1. /\ UNCHANGED <<worker, closed, removing, context, pc, at, row, robbed>>
      /\ \A v \in Workers : v # w => rec'[v] = rec[v]
  BY DEF Read, GetBlockingByDevice, GetICCIDLive, CheckRestore, restoreReconciledESIMSwitch, pool, rpool
<1>2. \A v \in Workers : v # w => seen'[v] = seen[v]
  BY DEF Read, GetBlockingByDevice, GetICCIDLive, CheckRestore, restoreReconciledESIMSwitch
<1>3. rec'[w] \in Reconciling => rec[w] \in Reconciling \/ w = worker
  BY DEF Read, GetBlockingByDevice, GetICCIDLive, CheckRestore, restoreReconciledESIMSwitch, Current,
     Reconciling
<1>4. Untended' => Untended
  BY DEF Read, GetBlockingByDevice, GetICCIDLive, CheckRestore, restoreReconciledESIMSwitch, device, Untended
<1>5. rec'[w] \in AfterClaim => rec[w] \in AfterClaim /\ seen'[w] = seen[w]
  BY DEF Read, GetBlockingByDevice, GetICCIDLive, CheckRestore, restoreReconciledESIMSwitch,
     AfterClaim, Reconciling
<1>6. rec'[w] = "succeed" => ~Untended'
  BY DEF Read, GetBlockingByDevice, GetICCIDLive, CheckRestore, restoreReconciledESIMSwitch, Untended
<1> QED
  BY <1>1, <1>2, <1>3, <1>4, <1>5, <1>6 DEF TornRec, Looks

LEMMA ClaimTorn ==
  ASSUME ConstantsAssumption, TypeOK, SeenIsRow, NEW w \in Workers, ClaimForReconciliation(w)
  PROVE  TornRec(w)
<1> DEFINE s == seen[w].op
<1>1. /\ rec[w] = "claim" /\ UNCHANGED <<pool, device, context, pc, at>>
      /\ seen \in [Workers -> Seen] /\ rec \in [Workers -> RecPlaces]
  BY DEF ClaimForReconciliation, TypeOK
<1>2. seen[w] \in [op : Switches, phase : Phases, version : Nat \ {0}, owner : Workers] /\ s \in Switches
  BY <1>1, SeenSwitch DEF Reconciling
<1>3. CASE UNCHANGED <<row, seen, robbed, late>> /\ \E place \in {"done", "missed"} : RecGoto(w, place)
  BY <1>1, <1>3 DEF RecGoto, TornRec, Looks, pool, device, Untended, AfterClaim, Reconciling
<1>4. CASE /\ Matches(s, seen[w])
           /\ row' = [row EXCEPT ![s].owner = w, ![s].reconciler = w, ![s].version = @ + 1]
           /\ seen' = [seen EXCEPT ![w].owner = w, ![w].version = @ + 1]
           /\ robbed' = robbed \cup {t \in {s} : seen[w].owner \notin closed}
           /\ late' = (IF w = worker THEN late \ {s} ELSE late \cup {s})
           /\ RecGoto(w, Claimed(seen[w].phase))
  <2>1. seen' = [seen EXCEPT ![w] = [seen[w] EXCEPT !.owner = w, !.version = seen[w].version + 1]]
    BY <1>1, <1>4
  <2>2. /\ seen'[w].op = s /\ seen'[w].owner = w /\ seen'[w].version = seen[w].version + 1
        /\ \A v \in Workers : v # w => seen'[v] = seen[v]
    BY <1>1, <1>2, <2>1
  <2>3. Claimed(seen[w].phase) \in {"fail", "look", "plan", "restore"}
    BY <1>4 DEF Matches, Claimed, Open
  <2>4. rec'[w] # "succeed" /\ \A v \in Workers : v # w => rec'[v] = rec[v]
    BY <1>1, <1>4, <2>3 DEF RecGoto
  <2>5. Claims(w)
    BY <1>1, <1>2, <1>4, <2>2, <2>4 DEF Claims, device, Untended
  <2> QED
    BY <1>1, <2>2, <2>4, <2>5 DEF TornRec, pool, Reconciling
<1> QED
  BY <1>3, <1>4 DEF ClaimForReconciliation

LEMMA ReconcileTorn ==
  ASSUME ConstantsAssumption, TypeOK, SeenIsRow, NEW w \in Workers, ReconcileStep(w)
  PROVE  TornRec(w)
BY AdvancesTorn, LooksTorn, ClaimTorn DEF ReconcileStep

-----------------------------------------------------------------------------
(* The steps of a switch keep the invariant *)

\* Only the row of s changes, and it gets a new version in an open or terminal phase.
NewVersion(s) ==
    /\ row[s].phase \in Open
    /\ row'[s].version = row[s].version + 1
    /\ \A t \in Switches : t # s => row'[t] = row[t]

\* Nobody but the one who made the new version knows the row any more.
LEMMA NewVersionFacts ==
  ASSUME ConstantsAssumption, TypeOK, SeenIsRow, OneOpen, FirstVersion, ClaimIsKnown, NEW s \in Switches, NewVersion(s)
  PROVE  /\ OneOpen' /\ FirstVersion'
         /\ \A t \in Switches : row[t].phase \in Open => t = s
         /\ \A w \in Workers : rec[w] \in AfterClaim =>
               /\ seen[w].op \in Switches
               /\ seen[w].version <= row'[seen[w].op].version
               /\ row'[seen[w].op].version = seen[w].version => seen[w].op # s
<1>1. row[s] \in [phase : Phases, owner : Workers, version : Nat \ {0}, reconciler : 0..MaxWorker]
  BY OpenRow DEF NewVersion
<1>2. \A t \in Switches : row[t].phase \in Open => t = s
  BY DEF NewVersion, OneOpen
<1>3. OneOpen'
  <2> SUFFICES ASSUME NEW t \in Switches, NEW u \in Switches, t # u,
                      row'[t].phase \in Open, row'[u].phase \in Open
               PROVE  FALSE
    BY DEF OneOpen
  <2>1. t = s
    BY <1>2 DEF NewVersion
  <2>2. u = s
    BY <1>2 DEF NewVersion
  <2> QED
    BY <2>1, <2>2
<1>4. FirstVersion'
  BY <1>1 DEF FirstVersion, NewVersion
<1>5. ASSUME NEW w \in Workers, rec[w] \in AfterClaim
      PROVE  /\ seen[w].op \in Switches
             /\ seen[w].version <= row'[seen[w].op].version
             /\ row'[seen[w].op].version = seen[w].version => seen[w].op # s
  <2>1. /\ seen[w] \in [op : Switches, phase : Phases, version : Nat \ {0}, owner : Workers]
        /\ seen[w].op \in Switches
    BY <1>5, SeenSwitch DEF AfterClaim
  <2>2. seen[w].version <= row[seen[w].op].version
    BY <1>5 DEF ClaimIsKnown
  <2>3. CASE seen[w].op = s
    BY <1>1, <2>1, <2>2, <2>3 DEF NewVersion
  <2>4. CASE seen[w].op # s
    BY <2>1, <2>2, <2>4 DEF NewVersion
  <2> QED
    BY <2>1, <2>3, <2>4
<1> QED
  BY <1>2, <1>3, <1>4, <1>5

LEMMA TornSnapshot ==
  ASSUME SnapshotIsOwn, NEW s \in Switches, TornShape(s)
  PROVE  SnapshotIsOwn'
<1> SUFFICES ASSUME NEW t \in Switches, context'.token = t
             PROVE  pc'[t] # "idle" /\ context'.owner = at'[t]
  BY DEF SnapshotIsOwn, Mine
<1>1. at' = at /\ pc'[s] # "idle" /\ (t # s => pc'[t] = pc[t])
  BY DEF TornShape
<1>2. CASE context.token = t /\ context'.owner = context.owner
  BY <1>1, <1>2 DEF SnapshotIsOwn, Mine
<1>3. CASE t = s /\ context'.owner = at[s]
  BY <1>1, <1>3
<1> QED
  BY <1>2, <1>3 DEF TornShape, KeepsSnapshot

LEMMA RecordsKeepJournal ==
  ASSUME ConstantsAssumption, TypeOK, SeenIsRow, JournalInv, NEW s \in Switches, RowAdvances(s),
         UNCHANGED <<worker, closed, removing, rec, seen>>, SnapshotIsOwn'
  PROVE  JournalInv'
<1>1. NewVersion(s)
  BY DEF RowAdvances, NewVersion
<1>2. OneOpen /\ FirstVersion /\ ClaimIsKnown /\ OpenModems
  BY DEF JournalInv
<1>3. OneOpen' /\ FirstVersion'
  BY <1>1, <1>2, NewVersionFacts
<1>4. ClaimIsKnown'
  <2> SUFFICES ASSUME NEW w \in Workers, rec[w] \in AfterClaim
               PROVE  /\ seen[w].owner = w /\ seen[w].version <= row'[seen[w].op].version
                      /\ row'[seen[w].op].version = seen[w].version => row'[seen[w].op].reconciler = w
    BY DEF ClaimIsKnown
  <2>1. /\ seen[w].op \in Switches /\ seen[w].version <= row'[seen[w].op].version
        /\ row'[seen[w].op].version = seen[w].version => seen[w].op # s
    BY <1>1, <1>2, NewVersionFacts
  <2>2. /\ seen[w].owner = w
        /\ row[seen[w].op].version = seen[w].version => row[seen[w].op].reconciler = w
    BY <1>2 DEF ClaimIsKnown
  <2>3. seen[w].op # s => row'[seen[w].op] = row[seen[w].op]
    BY <1>1, <2>1 DEF NewVersion
  <2> QED
    BY <2>1, <2>2, <2>3
<1>5. OpenModems'
  BY <1>2 DEF OpenModems
<1> QED
  BY <1>3, <1>4, <1>5 DEF JournalInv

LEMMA EntersKeepJournal ==
  ASSUME ConstantsAssumption, TypeOK, SeenIsRow, PlanIsWritten, JournalInv, NEW s \in Switches, Enters(s),
         UNCHANGED <<worker, closed, removing, rec, seen>>, SnapshotIsOwn'
  PROVE  /\ JournalInv'
         /\ \A w \in Workers : rec[w] \in AfterClaim => seen[w].op \in Switches \ {s}
<1>1. OneOpen /\ FirstVersion /\ ClaimIsKnown /\ OpenModems
  BY DEF JournalInv
<1>2. row[s].version = 0
  BY DEF Enters, PlanIsWritten, BeforeRow, NoRow
<1>3. ASSUME NEW w \in Workers, rec[w] \in AfterClaim PROVE seen[w].op \in Switches \ {s}
  <2>1. /\ seen[w] \in [op : Switches, phase : Phases, version : Nat \ {0}, owner : Workers]
        /\ seen[w].op \in Switches
    BY <1>3, SeenSwitch DEF AfterClaim
  <2>2. seen[w].version <= row[seen[w].op].version
    BY <1>1, <1>3 DEF ClaimIsKnown
  <2> QED
    BY <1>2, <2>1, <2>2
<1>4. \A t \in Switches : t # s => row'[t] = row[t] /\ row[t].phase \notin Open
  BY DEF Enters, Blocking
<1>5. OneOpen'
  <2> SUFFICES ASSUME NEW t \in Switches, NEW u \in Switches, t # u,
                      row'[t].phase \in Open, row'[u].phase \in Open
               PROVE  FALSE
    BY DEF OneOpen
  <2>1. t = s
    BY <1>4
  <2>2. u = s
    BY <1>4
  <2> QED
    BY <2>1, <2>2
<1>6. FirstVersion'
  <2> SUFFICES ASSUME NEW t \in Switches, row'[t].version = 1 PROVE row'[t].reconciler = 0
    BY DEF FirstVersion
  <2>1. CASE t = s
    BY <2>1 DEF Enters
  <2>2. CASE t # s
    BY <1>1, <1>4, <2>2 DEF FirstVersion
  <2> QED
    BY <2>1, <2>2
<1>7. ClaimIsKnown'
  BY <1>1, <1>3, <1>4 DEF ClaimIsKnown
<1>8. OpenModems'
  BY <1>1 DEF OpenModems
<1> QED
  BY <1>3, <1>5, <1>6, <1>7, <1>8 DEF JournalInv

\* A switch that rests, or tears down: the journal stays as it is.
LEMMA QuietJournal ==
  ASSUME JournalInv, UNCHANGED <<row, worker, closed, removing, rec, seen>>, SnapshotIsOwn'
  PROVE  JournalInv'
BY DEF JournalInv, OneOpen, FirstVersion, ClaimIsKnown, OpenModems

LEMMA TornJournal ==
  ASSUME ConstantsAssumption, IInv, JournalInv, NEW s \in Switches, TornShape(s)
  PROVE  JournalInv'
<1>1. TypeOK /\ SeenIsRow /\ PlanIsWritten
  BY DEF IInv
<1>2. UNCHANGED <<worker, closed, removing, rec, seen>> /\ SnapshotIsOwn'
  BY TornSnapshot DEF TornShape, JournalInv
<1>3. CASE Rests(s) \/ Tears(s)
  <2>1. row' = row
    BY <1>3 DEF Rests, Tears
  <2> QED
    BY <1>2, <2>1, QuietJournal
<1>4. CASE Enters(s)
  BY <1>1, <1>2, <1>4, EntersKeepJournal
<1>5. CASE Records(s)
  <2>1. RowAdvances(s)
    BY <1>5 DEF Records
  <2> QED
    BY <1>1, <1>2, <2>1, RecordsKeepJournal
<1> QED
  BY <1>3, <1>4, <1>5 DEF TornShape

\* A row that is claimed, and still as its claimant knows it, is in that one's hands.
LEMMA ClaimedRow ==
  ASSUME ConstantsAssumption, TypeOK, SeenIsRow, JournalInv, NEW w \in Workers, rec[w] \in AfterClaim,
         Matches(seen[w].op, seen[w])
  PROVE  /\ seen[w].op \in Switches /\ row[seen[w].op].phase \in Open
         /\ row[seen[w].op].reconciler = w /\ row[seen[w].op].version = seen[w].version
         /\ \A t \in Switches : row[t].phase \in Open => t = seen[w].op
<1>1. seen[w].op \in Switches
  BY SeenSwitch DEF AfterClaim
<1>2. row[seen[w].op].phase \in Open /\ row[seen[w].op].version = seen[w].version
  BY DEF Matches
<1>3. row[seen[w].op].reconciler = w
  BY <1>2 DEF JournalInv, ClaimIsKnown
<1> QED
  BY <1>1, <1>2, <1>3 DEF JournalInv, OneOpen

LEMMA RestsDown ==
  ASSUME DownInv, NEW s \in Switches, TornShape(s), Rests(s)
  PROVE  DownInv'
<1>1. /\ row' = row /\ UNCHANGED <<closed, at, rec, seen>> /\ (Untended' => Untended)
      /\ \A t \in Switches : pc'[t] \in Planned => pc[t] \in Planned
      /\ \A t \in Switches : pc'[t] = "complete" => \/ pc[t] = "complete"
                                                     \/ ~Untended' \/ at[t] \in closed
  BY DEF TornShape, Rests
<1>2. PlanIsUnclaimed'
  BY <1>1 DEF DownInv, PlanIsUnclaimed
<1>3. RestoredIsUp'
  BY <1>1 DEF DownInv, RestoredIsUp
<1>4. ReconciledIsUp'
  BY <1>1 DEF DownInv, ReconciledIsUp, Matches
<1>5. IntentIsUp' /\ (Untended' => Blocking' # {})
  BY <1>1 DEF DownInv, IntentIsUp, Blocking
<1> QED
  BY <1>2, <1>3, <1>4, <1>5 DEF DownInv

LEMMA TearsDown ==
  ASSUME ConstantsAssumption, TypeOK, SeenIsRow, JournalInv, DownInv, NEW s \in Switches,
         TornShape(s), Tears(s)
  PROVE  DownInv'
<1>1. /\ row' = row /\ UNCHANGED <<closed, at, rec, seen>> /\ (Untended' => Untended \/ at[s] \notin closed)
      /\ pc[s] = "tearing" /\ pc'[s] = "barrier" /\ pc[s] \in Planned
      /\ \A t \in Switches : t # s => pc'[t] = pc[t]
  BY DEF TornShape, Tears, Planned
<1>2. at[s] \notin closed =>
        /\ row[s].phase \in Open \ {"intent"} /\ row[s].reconciler = 0
        /\ \A t \in Switches : row[t].phase \in Open => t = s
  BY <1>1 DEF DownInv, PlanIsUnclaimed, JournalInv, OneOpen
<1>3. PlanIsUnclaimed'
  BY <1>1 DEF DownInv, PlanIsUnclaimed
<1>4. RestoredIsUp'
  BY <1>1, <1>2 DEF DownInv, RestoredIsUp
<1>5. ReconciledIsUp'
  <2> SUFFICES ASSUME NEW w \in Workers, rec[w] = "succeed", Matches(seen[w].op, seen[w]), Untended'
               PROVE  FALSE
    BY <1>1 DEF ReconciledIsUp, Matches
  <2>1. ~Untended
    BY DEF DownInv, ReconciledIsUp
  <2>2. at[s] \notin closed
    BY <1>1, <2>1
  <2>3. /\ seen[w].op \in Switches /\ row[seen[w].op].phase \in Open
        /\ row[seen[w].op].reconciler = w
    BY ClaimedRow DEF AfterClaim, Reconciling
  <2>4. w # 0
    BY DEF Workers, ConstantsAssumption
  <2> QED
    BY <1>2, <2>2, <2>3, <2>4
<1>6. IntentIsUp'
  <2> SUFFICES ASSUME NEW t \in Switches, row[t].phase = "intent", Untended' PROVE FALSE
    BY <1>1 DEF IntentIsUp
  <2>1. ~Untended
    BY DEF DownInv, IntentIsUp
  <2>2. row[t].phase \in Open
    BY DEF Open
  <2> QED
    BY <1>1, <1>2, <2>1, <2>2
<1>7. Untended' => Blocking' # {}
  <2>1. Blocking' = Blocking
    BY <1>1 DEF Blocking
  <2>2. at[s] \notin closed => s \in Blocking
    BY <1>2 DEF Blocking
  <2> QED
    BY <1>1, <2>1, <2>2 DEF DownInv
<1> QED
  BY <1>3, <1>4, <1>5, <1>6, <1>7 DEF DownInv

LEMMA EntersDown ==
  ASSUME ConstantsAssumption, TypeOK, SeenIsRow, PlanIsWritten, JournalInv, DownInv, NEW s \in Switches,
         TornShape(s), Enters(s)
  PROVE  DownInv'
<1>1. /\ UNCHANGED <<closed, at, rec, seen>> /\ (Untended' <=> Untended) /\ ~Untended
      /\ pc'[s] = "plan" /\ \A t \in Switches : t # s => pc'[t] = pc[t]
      /\ row'[s].phase = "intent"
      /\ \A t \in Switches : row[t].phase \notin Open
      /\ \A t \in Switches : t # s => row'[t] = row[t]
  BY DEF TornShape, Enters, DownInv, Blocking
<1>2. PlanIsUnclaimed'
  BY <1>1 DEF DownInv, PlanIsUnclaimed, Planned
<1>3. RestoredIsUp' /\ ReconciledIsUp' /\ IntentIsUp'
  BY <1>1 DEF RestoredIsUp, ReconciledIsUp, IntentIsUp
<1> QED
  BY <1>1, <1>2, <1>3 DEF DownInv

LEMMA TerminalPhase ==
  ASSUME NEW before, NEW next, <<before, next>> \in validESIMSwitchTransition
  PROVE  /\ next # "intent"
         /\ next \notin Open => next = "succeeded" \/ before = "intent"
BY DEF validESIMSwitchTransition, Open

LEMMA RecordsDown ==
  ASSUME ConstantsAssumption, TypeOK, SeenIsRow, JournalInv, DownInv, NEW s \in Switches,
         TornShape(s), Records(s)
  PROVE  DownInv'
<1>0. OneOpen /\ FirstVersion /\ ClaimIsKnown /\ OpenModems
  BY DEF JournalInv
<1>1. NewVersion(s)
  BY DEF Records, RowAdvances, NewVersion
<1>2. /\ UNCHANGED <<closed, at, rec, seen>> /\ (Untended' <=> Untended)
      /\ \A t \in Switches : t # s => pc'[t] = pc[t] /\ row'[t] = row[t]
      /\ row'[s].owner = at[s] /\ row'[s].reconciler = row[s].reconciler /\ at[s] = worker
      /\ row[s].phase \in Open
      /\ pc'[s] # "complete" /\ (row'[s].phase = "succeeded" => pc[s] = "complete")
      /\ pc'[s] \in Planned => row'[s].phase \in Open /\ (pc[s] \in Planned \/ row[s].version = 1)
  BY DEF TornShape, Records, RowAdvances
<1>3. \A t \in Switches : row[t].phase \in Open => t = s
  BY <1>0, <1>1, NewVersionFacts
<1>4. /\ row'[s].phase # "intent"
      /\ row'[s].phase \notin Open => row'[s].phase = "succeeded" \/ row[s].phase = "intent"
  BY TerminalPhase DEF Records, RowAdvances
<1>5. PlanIsUnclaimed'
  <2> SUFFICES ASSUME NEW t \in Switches, pc'[t] \in Planned, at[t] \notin closed
               PROVE  row'[t].phase \in Open \ {"intent"} /\ row'[t].reconciler = 0 /\ row'[t].owner = at[t]
    BY <1>2 DEF PlanIsUnclaimed
  <2>1. CASE t = s
    <3>1. row[s].reconciler = 0
      BY <1>0, <1>2, <2>1 DEF DownInv, PlanIsUnclaimed, FirstVersion
    <3> QED
      BY <1>2, <1>4, <2>1, <3>1
  <2>2. CASE t # s
    BY <1>2, <1>3, <2>2 DEF DownInv, PlanIsUnclaimed
  <2> QED
    BY <2>1, <2>2
<1>6. RestoredIsUp'
  BY <1>2, <1>3 DEF RestoredIsUp
<1>7. ReconciledIsUp'
  <2> SUFFICES ASSUME NEW w \in Workers, rec[w] = "succeed",
                      row'[seen[w].op].phase \in Open, row'[seen[w].op].version = seen[w].version
               PROVE  FALSE
    BY <1>2 DEF ReconciledIsUp, Matches
  <2>1. rec[w] \in AfterClaim
    BY DEF AfterClaim, Reconciling
  <2>2. seen[w].op \in Switches /\ seen[w].op # s
    BY <1>0, <1>1, <2>1, NewVersionFacts
  <2> QED
    BY <1>2, <1>3, <2>2
<1>8. IntentIsUp'
  BY <1>2, <1>3, <1>4 DEF IntentIsUp, Open
<1>9. Untended' => Blocking' # {}
  <2>1. CASE row'[s].phase \in Open
    BY <2>1 DEF Blocking
  <2>2. CASE row'[s].phase = "succeeded"
    <3>1. at[s] \notin closed
      BY <1>0, <1>2 DEF OpenModems
    <3> QED
      BY <1>2, <2>2, <3>1 DEF DownInv, RestoredIsUp
  <2>3. CASE row[s].phase = "intent"
    BY <1>2, <2>3 DEF DownInv, IntentIsUp
  <2> QED
    BY <1>4, <2>1, <2>2, <2>3
<1> QED
  BY <1>5, <1>6, <1>7, <1>8, <1>9 DEF DownInv

LEMMA SwitchKeepsTorn ==
  ASSUME ConstantsAssumption, IInv, TInv, NEW s \in Switches, SwitchStep(s)
  PROVE  TInv'
<1>1. TypeOK /\ SeenIsRow /\ PlanIsWritten /\ JournalInv
  BY DEF IInv, TInv
<1>2. TornShape(s)
  BY <1>1, SwitchTorn DEF JournalInv
<1>3. JournalInv'
  BY <1>1, <1>2, TornJournal
<1>4. robbed' = robbed
  BY <1>2 DEF TornShape
<1>5. ASSUME robbed' = {} PROVE DownInv'
  <2>1. DownInv
    BY <1>4, <1>5, SMTT(30) DEF TInv
  <2> QED
    <3>1. CASE Rests(s)
      BY <1>2, <2>1, <3>1, RestsDown
    <3>2. CASE Tears(s)
      BY <1>1, <1>2, <2>1, <3>2, TearsDown
    <3>3. CASE Enters(s)
      BY <1>1, <1>2, <2>1, <3>3, EntersDown
    <3>4. CASE Records(s)
      BY <1>1, <1>2, <2>1, <3>4, RecordsDown
    <3> QED
      BY <1>2, <3>1, <3>2, <3>3, <3>4 DEF TornShape
<1> QED
  BY <1>3, <1>5 DEF TInv

-----------------------------------------------------------------------------
(* The steps of a reconciliation keep the invariant *)

LEMMA ClaimsVersion ==
  ASSUME TypeOK, NEW w \in Workers, Claims(w)
  PROVE  /\ NewVersion(seen[w].op) /\ row'[seen[w].op].phase = row[seen[w].op].phase
         /\ row'[seen[w].op].reconciler = w /\ row[seen[w].op].owner = seen[w].owner
         /\ seen'[w].version = row'[seen[w].op].version
<1> DEFINE s == seen[w].op
<1>1. /\ s \in Switches /\ row \in [Switches -> Rows] /\ row[s].phase \in Open
      /\ row[s].version = seen[w].version /\ row[s].owner = seen[w].owner
  BY DEF Claims, Matches, TypeOK
<1>2. row[s] \in [phase : Phases, owner : Workers, version : Nat \ {0}, reconciler : 0..MaxWorker]
  BY <1>1, OpenRow
<1> DEFINE claimed == [row[s] EXCEPT !.owner = w, !.reconciler = w, !.version = row[s].version + 1]
<1>3. row' = [row EXCEPT ![s] = claimed]
  BY <1>1 DEF Claims
<1>4. /\ claimed.phase = row[s].phase /\ claimed.version = row[s].version + 1
      /\ claimed.reconciler = w
  BY <1>2
<1> HIDE DEF claimed
<1>5. row'[s] = claimed /\ \A t \in Switches : t # s => row'[t] = row[t]
  BY <1>1, <1>3
<1> QED
  BY <1>1, <1>4, <1>5 DEF NewVersion, Claims

LEMMA AdvancesVersion ==
  ASSUME ConstantsAssumption, TypeOK, SeenIsRow, JournalInv, NEW w \in Workers, Advances(w)
  PROVE  /\ NewVersion(seen[w].op) /\ row[seen[w].op].reconciler = w
         /\ row'[seen[w].op].reconciler = w
         /\ row'[seen[w].op].phase # "intent"
         /\ row'[seen[w].op].phase \notin Open =>
               row'[seen[w].op].phase = "succeeded" \/ row[seen[w].op].phase = "intent"
         /\ seen'[w].version = row'[seen[w].op].version
<1>1. RowAdvances(seen[w].op) /\ rec[w] \in AfterClaim /\ Matches(seen[w].op, seen[w])
      /\ seen'[w].version = seen[w].version + 1
  BY DEF Advances
<1>2. row[seen[w].op].reconciler = w /\ row[seen[w].op].version = seen[w].version
  BY <1>1, ClaimedRow
<1> QED
  BY <1>1, <1>2, TerminalPhase DEF RowAdvances, NewVersion

LEMMA RecJournal ==
  ASSUME ConstantsAssumption, TypeOK, SeenIsRow, JournalInv, NEW w \in Workers, TornRec(w)
  PROVE  JournalInv'
<1>0. OneOpen /\ FirstVersion /\ ClaimIsKnown /\ SnapshotIsOwn /\ OpenModems
  BY DEF JournalInv
<1>1. SnapshotIsOwn'
  BY <1>0 DEF SnapshotIsOwn, Mine, TornRec
<1>2. OpenModems'
  BY <1>0 DEF OpenModems, TornRec
<1>3. CASE Looks(w)
  <2>1. OneOpen' /\ FirstVersion'
    BY <1>0, <1>3 DEF OneOpen, FirstVersion, Looks
  <2>2. ClaimIsKnown'
    <3> SUFFICES ASSUME NEW v \in Workers, rec'[v] \in AfterClaim
                 PROVE  /\ seen'[v].owner = v /\ seen'[v].version <= row[seen'[v].op].version
                        /\ row[seen'[v].op].version = seen'[v].version => row[seen'[v].op].reconciler = v
      BY <1>3 DEF ClaimIsKnown, Looks
    <3>1. rec[v] \in AfterClaim /\ seen'[v] = seen[v]
      BY <1>3 DEF TornRec, Looks
    <3> QED
      BY <1>0, <3>1 DEF ClaimIsKnown
  <2> QED
    BY <1>1, <1>2, <2>1, <2>2 DEF JournalInv
<1>4. CASE Claims(w) \/ Advances(w)
  <2> DEFINE s == seen[w].op
  <2>1. /\ s \in Switches /\ NewVersion(s) /\ row'[s].reconciler = w
        /\ seen'[w].version = row'[s].version /\ seen'[w].op = s /\ seen'[w].owner = w
    <3>1. CASE Claims(w)
      <4>1. NewVersion(s) /\ row'[s].reconciler = w /\ seen'[w].version = row'[s].version
        BY <3>1, ClaimsVersion
      <4>2. s \in Switches /\ seen'[w].op = s /\ seen'[w].owner = w
        BY <3>1 DEF Claims
      <4> QED
        BY <4>1, <4>2
    <3>2. CASE Advances(w)
      <4>1. NewVersion(s) /\ row'[s].reconciler = w /\ seen'[w].version = row'[s].version
        BY <3>2, AdvancesVersion
      <4>2. s \in Switches /\ seen'[w].op = s /\ seen'[w].owner = seen[w].owner /\ rec[w] \in AfterClaim
        BY <3>2 DEF Advances
      <4> QED
        BY <1>0, <4>1, <4>2 DEF ClaimIsKnown
    <3> HIDE DEF s
    <3> QED
      BY <1>4, <3>1, <3>2
  <2>2. OneOpen' /\ FirstVersion'
    BY <1>0, <2>1, NewVersionFacts
  <2>3. ClaimIsKnown'
    <3> SUFFICES ASSUME NEW v \in Workers, rec'[v] \in AfterClaim
                 PROVE  /\ seen'[v].owner = v /\ seen'[v].version <= row'[seen'[v].op].version
                        /\ row'[seen'[v].op].version = seen'[v].version => row'[seen'[v].op].reconciler = v
      BY DEF ClaimIsKnown
    <3>1. CASE v = w
      <4>1. row[s] \in [phase : Phases, owner : Workers, version : Nat \ {0}, reconciler : 0..MaxWorker]
        BY <2>1, OpenRow DEF NewVersion
      <4>2. row'[s].version \in Nat
        BY <2>1, <4>1 DEF NewVersion
      <4> QED
        BY <2>1, <3>1, <4>2
    <3>2. CASE v # w
      <4>1. rec[v] \in AfterClaim /\ seen'[v] = seen[v]
        BY <3>2 DEF TornRec
      <4>2. /\ seen[v].op \in Switches /\ seen[v].version <= row'[seen[v].op].version
            /\ row'[seen[v].op].version = seen[v].version => seen[v].op # s
        BY <1>0, <2>1, <4>1, NewVersionFacts
      <4>3. /\ seen[v].owner = v
            /\ row[seen[v].op].version = seen[v].version => row[seen[v].op].reconciler = v
        BY <1>0, <4>1 DEF ClaimIsKnown
      <4>4. seen[v].op # s => row'[seen[v].op] = row[seen[v].op]
        BY <2>1, <4>2 DEF NewVersion
      <4> QED
        BY <4>1, <4>2, <4>3, <4>4
    <3> QED
      BY <3>1, <3>2
  <2> QED
    BY <1>1, <1>2, <2>2, <2>3 DEF JournalInv
<1> QED
  BY <1>3, <1>4 DEF TornRec

LEMMA LooksDown ==
  ASSUME DownInv, NEW w \in Workers, TornRec(w), Looks(w)
  PROVE  DownInv'
<1>1. /\ UNCHANGED <<row, closed, pc, at>> /\ (Untended' => Untended) /\ (rec'[w] = "succeed" => ~Untended')
      /\ \A v \in Workers : v # w => rec'[v] = rec[v] /\ seen'[v] = seen[v]
  BY DEF TornRec, Looks
<1>2. PlanIsUnclaimed' /\ RestoredIsUp'
  BY <1>1 DEF DownInv, PlanIsUnclaimed, RestoredIsUp
<1>3. ReconciledIsUp'
  <2> SUFFICES ASSUME NEW v \in Workers, rec'[v] = "succeed", Matches(seen'[v].op, seen'[v]) PROVE ~Untended'
    BY <1>1 DEF ReconciledIsUp, Matches
  <2>1. CASE v = w
    BY <1>1, <2>1
  <2>2. CASE v # w
    BY <1>1, <2>2 DEF DownInv, ReconciledIsUp
  <2> QED
    BY <2>1, <2>2
<1>4. IntentIsUp' /\ (Untended' => Blocking' # {})
  BY <1>1 DEF DownInv, IntentIsUp, Blocking
<1> QED
  BY <1>2, <1>3, <1>4 DEF DownInv

\* What a claim or an advance of w leaves of the others.
LEMMA NewVersionDown ==
  ASSUME ConstantsAssumption, TypeOK, SeenIsRow, JournalInv, DownInv, NEW w \in Workers, TornRec(w),
         seen[w].op \in Switches, NewVersion(seen[w].op), rec'[w] # "succeed", (Untended' <=> Untended)
  PROVE  /\ RestoredIsUp' /\ ReconciledIsUp'
         /\ \A t \in Switches : row[t].phase \in Open => t = seen[w].op
<1> DEFINE s == seen[w].op
<1>0. OneOpen /\ FirstVersion /\ ClaimIsKnown
  BY DEF JournalInv
<1>1. /\ UNCHANGED <<closed, pc, at>> /\ row[s].phase \in Open
      /\ \A v \in Workers : v # w => rec'[v] = rec[v] /\ seen'[v] = seen[v]
      /\ \A t \in Switches : t # s => row'[t] = row[t]
      /\ \A t \in Switches : row[t].phase \in Open => t = s
  BY <1>0, NewVersionFacts DEF TornRec, NewVersion
<1>2. RestoredIsUp'
  <2> SUFFICES ASSUME NEW t \in Switches, pc[t] = "complete", at[t] \notin closed, row'[t].phase \in Open
               PROVE  ~Untended
    BY <1>1 DEF RestoredIsUp
  <2>1. row[t].phase \in Open
    BY <1>1
  <2> QED
    BY <2>1 DEF DownInv, RestoredIsUp
<1>3. ReconciledIsUp'
  <2> SUFFICES ASSUME NEW v \in Workers, rec'[v] = "succeed",
                      row'[seen'[v].op].phase \in Open, row'[seen'[v].op].version = seen'[v].version
               PROVE  FALSE
    BY DEF ReconciledIsUp, Matches
  <2>1. v # w /\ rec[v] = "succeed" /\ seen'[v] = seen[v] /\ rec[v] \in AfterClaim
    BY <1>1 DEF AfterClaim, Reconciling
  <2>2. seen[v].op \in Switches /\ seen[v].op # s
    BY <1>0, <2>1, NewVersionFacts
  <2> QED
    BY <1>1, <2>1, <2>2
<1> QED
  BY <1>1, <1>2, <1>3

LEMMA ClaimsDown ==
  ASSUME ConstantsAssumption, IInv, JournalInv, DownInv, NEW w \in Workers, TornRec(w), Claims(w),
         robbed' = {}
  PROVE  DownInv'
<1> DEFINE s == seen[w].op
<1>0. TypeOK /\ SeenIsRow
  BY DEF IInv
<1>1. /\ NewVersion(s) /\ row'[s].phase = row[s].phase /\ row[s].owner = seen[w].owner
      /\ s \in Switches /\ rec'[w] # "succeed" /\ (Untended' <=> Untended) /\ rec[w] = "claim"
      /\ row[s].phase \in Open /\ \A t \in Switches : t # s => row'[t] = row[t]
  <2>1. NewVersion(s) /\ row'[s].phase = row[s].phase /\ row[s].owner = seen[w].owner
    BY <1>0, ClaimsVersion
  <2>2. s \in Switches /\ rec'[w] # "succeed" /\ (Untended' <=> Untended) /\ rec[w] = "claim"
    BY DEF Claims
  <2>3. row[s].phase \in Open /\ \A t \in Switches : t # s => row'[t] = row[t]
    BY <2>1 DEF NewVersion
  <2> HIDE DEF s
  <2> QED
    BY <2>1, <2>2, <2>3
<1>2. RestoredIsUp' /\ ReconciledIsUp' /\ \A t \in Switches : row[t].phase \in Open => t = s
  <2>1. NewVersion(s) /\ s \in Switches /\ rec'[w] # "succeed" /\ (Untended' <=> Untended)
    BY <1>1, SMTT(30)
  <2> HIDE DEF s
  <2> QED
    BY <1>0, <2>1, NewVersionDown DEF s
<1>3. seen[w].owner \in closed
  BY <1>1 DEF Claims
<1>4. \A t \in Switches : row'[t].phase = row[t].phase
  BY <1>1
<1>5. PlanIsUnclaimed'
  <2> SUFFICES ASSUME NEW t \in Switches, pc[t] \in Planned, at[t] \notin closed PROVE FALSE
    BY DEF PlanIsUnclaimed, TornRec
  <2>1. t = s /\ row[s].owner = at[t]
    BY <1>2 DEF DownInv, PlanIsUnclaimed
  <2> QED
    BY <1>1, <1>3, <2>1
<1>6. IntentIsUp' /\ (Untended' => Blocking' # {})
  BY <1>1, <1>4 DEF DownInv, IntentIsUp, Blocking
<1> QED
  BY <1>2, <1>5, <1>6 DEF DownInv

LEMMA AdvancesDown ==
  ASSUME ConstantsAssumption, TypeOK, SeenIsRow, JournalInv, DownInv, NEW w \in Workers, TornRec(w),
         Advances(w)
  PROVE  DownInv'
<1> DEFINE s == seen[w].op
<1>1. /\ NewVersion(s) /\ row[s].reconciler = w /\ row'[s].phase # "intent"
      /\ row'[s].phase \notin Open => row'[s].phase = "succeeded" \/ row[s].phase = "intent"
  BY AdvancesVersion
<1>2. /\ s \in Switches /\ rec'[w] # "succeed" /\ (Untended' <=> Untended)
      /\ Matches(s, seen[w]) /\ (row'[s].phase = "succeeded" => rec[w] = "succeed")
      /\ row[s].phase \in Open /\ \A t \in Switches : t # s => row'[t] = row[t]
  BY <1>1 DEF Advances, NewVersion
<1>3. RestoredIsUp' /\ ReconciledIsUp' /\ \A t \in Switches : row[t].phase \in Open => t = s
  BY <1>1, <1>2, NewVersionDown
<1>4. PlanIsUnclaimed'
  <2> SUFFICES ASSUME NEW t \in Switches, pc[t] \in Planned, at[t] \notin closed PROVE FALSE
    BY DEF PlanIsUnclaimed, TornRec
  <2>1. t = s /\ row[s].reconciler = 0
    BY <1>3 DEF DownInv, PlanIsUnclaimed
  <2>2. w # 0
    BY DEF Workers, ConstantsAssumption
  <2> QED
    BY <1>1, <2>1, <2>2
<1>5. IntentIsUp'
  BY <1>1, <1>2 DEF DownInv, IntentIsUp
<1>6. Untended' => Blocking' # {}
  <2>1. CASE row'[s].phase \in Open
    BY <1>2, <2>1 DEF Blocking
  <2>2. CASE row'[s].phase = "succeeded"
    BY <1>2, <2>2 DEF DownInv, ReconciledIsUp
  <2>3. CASE row[s].phase = "intent"
    BY <1>2, <2>3 DEF DownInv, IntentIsUp
  <2> QED
    BY <1>1, <2>1, <2>2, <2>3
<1> QED
  BY <1>3, <1>4, <1>5, <1>6 DEF DownInv

LEMMA ReconcileKeepsTorn ==
  ASSUME ConstantsAssumption, IInv, TInv, NEW w \in Workers, ReconcileStep(w)
  PROVE  TInv'
<1>1. TypeOK /\ SeenIsRow /\ JournalInv
  BY DEF IInv, TInv
<1>2. TornRec(w)
  BY <1>1, ReconcileTorn
<1>3. JournalInv'
  BY <1>1, <1>2, RecJournal
<1>4. ASSUME robbed' = {} PROVE DownInv'
  <2>1. robbed = {}
    BY <1>2, <1>4 DEF TornRec, Looks, Claims, Advances
  <2>2. DownInv
    BY <2>1 DEF TInv
  <2> QED
    BY <1>1, <1>2, <1>4, <2>2, LooksDown, ClaimsDown, AdvancesDown DEF TornRec
<1> QED
  BY <1>3, <1>4 DEF TInv

-----------------------------------------------------------------------------
(* The steps of the environment keep the invariant *)

\* The environment moves nothing but calls that begin or end, closes modems and
\* clears the snapshot.
Apart ==
    /\ UNCHANGED <<row, seen, robbed>> /\ (Untended' <=> Untended) /\ closed \subseteq closed'
    /\ context' = context \/ context' = NoContext
    /\ \A s \in Switches :
          \/ pc'[s] = pc[s] /\ at'[s] = at[s]
          \/ pc[s] = "idle" /\ pc'[s] = "queued"
          \/ pc[s] # "idle" /\ pc'[s] = "done" /\ at'[s] = at[s]
    /\ \A w \in Workers : rec'[w] = rec[w] \/ rec'[w] \in {"scheduled", "done"}

LEMMA ApartKeeps ==
  ASSUME ConstantsAssumption, TInv, Apart, OpenModems'
  PROVE  TInv'
<1>1. JournalInv
  BY DEF TInv
<1>2. \A w \in Workers : rec'[w] \in AfterClaim => rec[w] \in AfterClaim
  BY DEF Apart, AfterClaim, Reconciling
<1>3. OneOpen' /\ FirstVersion' /\ ClaimIsKnown'
  BY <1>1, <1>2 DEF JournalInv, OneOpen, FirstVersion, ClaimIsKnown, Apart
<1>4. SnapshotIsOwn'
  <2> SUFFICES ASSUME NEW t \in Switches, context'.token = t
               PROVE  pc'[t] # "idle" /\ context'.owner = at'[t]
    BY DEF SnapshotIsOwn, Mine
  <2>1. context' = context
    BY DEF Apart, NoContext, ConstantsAssumption
  <2>2. pc[t] # "idle" /\ context.owner = at[t]
    BY <1>1, <2>1 DEF JournalInv, SnapshotIsOwn, Mine
  <2> QED
    BY <2>1, <2>2 DEF Apart
<1>5. JournalInv'
  BY <1>3, <1>4 DEF JournalInv
<1>6. ASSUME robbed' = {} PROVE DownInv'
  <2>1. DownInv
    BY <1>6 DEF TInv, Apart
  <2>2. \A s \in Switches : pc'[s] \in Planned \cup {"complete"} => pc'[s] = pc[s] /\ at'[s] = at[s]
    BY DEF Apart, Planned
  <2>3. PlanIsUnclaimed' /\ RestoredIsUp'
    BY <2>1, <2>2 DEF DownInv, PlanIsUnclaimed, RestoredIsUp, Apart
  <2>4. \A w \in Workers : rec'[w] = "succeed" => rec[w] = "succeed"
    BY DEF Apart
  <2>5. ReconciledIsUp'
    BY <2>1, <2>4 DEF DownInv, ReconciledIsUp, Matches, Apart
  <2>6. IntentIsUp' /\ (Untended' => Blocking' # {})
    BY <2>1 DEF DownInv, IntentIsUp, Blocking, Apart
  <2> QED
    BY <2>3, <2>5, <2>6 DEF DownInv
<1> QED
  BY <1>5, <1>6 DEF TInv

LEMMA EnvironmentKeepsTorn ==
  ASSUME ConstantsAssumption, IInv, TInv, (\E s \in Switches : Call(s)) \/ Environment
  PROVE  TInv'
<1>0. TypeOK /\ OneWorker /\ OpenModems
  BY DEF IInv, TInv, JournalInv
<1>1. /\ closed \subseteq 1..workers /\ MaxWorker \in Nat /\ workers \in Nat /\ 0 \notin closed
      /\ pc \in [Switches -> CallPlaces] /\ at \in [Switches -> 0..MaxWorker]
      /\ rec \in [Workers -> RecPlaces]
      /\ worker \notin closed
      /\ \A w \in Workers : rec[w] \in Reconciling => w \notin closed
  BY <1>0, WorkerFacts DEF OneWorker, OpenModems, TypeOK
<1>2. ASSUME NEW s \in Switches, Call(s) PROVE TInv'
  <2>1. Apart
    BY <1>1, <1>2 DEF Call, Goto, Apart, device, Untended, pool
  <2>2. OpenModems'
    BY <1>0, <1>2 DEF Call, OpenModems, pool
  <2> QED
    BY <2>1, <2>2, ApartKeeps
<1>3. CASE Guard
  <2>1. Apart /\ OpenModems'
    BY <1>0, <1>3 DEF Guard, Apart, OpenModems, device, Untended, pool
  <2> QED
    BY <2>1, ApartKeeps
<1>4. CASE Register
  <2>1. Apart
    BY <1>4 DEF Register, calls, Apart, device, Untended
  <2>2. worker' = workers + 1 /\ workers + 1 \notin closed
    BY <1>1, <1>4 DEF Register
  <2>3. OpenModems'
    BY <1>1, <1>4, <2>2 DEF Register, calls, OpenModems
  <2> QED
    BY <2>1, <2>3, ApartKeeps
<1>5. ASSUME NEW w \in Workers, Start(w) PROVE TInv'
  <2>1. Apart
    BY <1>1, <1>5 DEF Start, RecGoto, Apart, device, Untended, pool
  <2>2. OpenModems'
    BY <1>1, <1>5 DEF Start, RecGoto, OpenModems, pool, Reconciling
  <2> QED
    BY <2>1, <2>2, ApartKeeps
<1>6. ASSUME NEW w \in Workers, StartFails(w) PROVE TInv'
  <2>1. Apart
    BY <1>1, <1>6 DEF StartFails, RecGoto, Apart, device, Untended
  <2>2. /\ worker' = (IF worker = w THEN 0 ELSE worker) /\ closed' = closed \cup {w}
        /\ rec'[w] = "done" /\ \A v \in Workers : v # w => rec'[v] = rec[v]
    BY <1>1, <1>6 DEF StartFails, RecGoto
  <2>3. w # 0
    BY WorkerFacts, <1>0
  <2>4. OpenModems'
    <3>1. \A v \in Workers : rec'[v] \in Reconciling => v # w /\ v \notin closed
      BY <1>1, <2>2 DEF Reconciling
    <3> QED
      BY <1>1, <2>2, <2>3, <3>1 DEF OpenModems
  <2> QED
    BY <2>1, <2>4, ApartKeeps
<1>7. CASE RemoveWorker
  <2>1. Apart
    BY <1>7 DEF RemoveWorker, calls, Apart, device, Untended
  <2>2. OpenModems'
    BY <1>1, <1>7 DEF RemoveWorker, calls, OpenModems
  <2> QED
    BY <2>1, <2>2, ApartKeeps
<1>8. ASSUME NEW w \in Workers, Removed(w) PROVE TInv'
  <2>1. Apart
    BY <1>8 DEF Removed, calls, Apart, device, Untended
  <2>2. /\ w \in removing /\ worker' = worker /\ closed' = closed \cup {w}
        /\ rec' = rec /\ rec[w] \notin Reconciling
    BY <1>8 DEF Removed, calls, Idle
  <2>3. worker # w
    BY <1>0, <2>2 DEF OneWorker
  <2>4. OpenModems'
    BY <1>1, <2>2, <2>3 DEF OpenModems
  <2> QED
    BY <2>1, <2>4, ApartKeeps
<1>9. CASE Crash
  <2>1. Apart
    BY <1>1, <1>9 DEF Crash, Apart, device, Untended
  <2>2. OpenModems'
    <3>1. \A w \in Workers : rec'[w] \notin Reconciling
      BY <1>0, <1>9, WorkerFacts DEF Crash, OneWorker, Reconciling
    <3>2. worker' = 0 /\ 0 \notin closed'
      BY <1>1, <1>9 DEF Crash
    <3> QED
      BY <3>1, <3>2 DEF OpenModems
  <2> QED
    BY <2>1, <2>2, ApartKeeps
<1> QED
  BY <1>2, <1>3, <1>4, <1>5, <1>6, <1>7, <1>8, <1>9 DEF Environment, WorkerStep

LEMMA InitTorn == ASSUME ConstantsAssumption, Init PROVE TInv
<1> USE DEF Init
<1>1. \A s \in Switches : row[s].phase \notin Open /\ row[s].version = 0 /\ pc[s] = "idle"
  BY DEF NoRow, Open
<1>2. \A w \in Workers : rec[w] = "none"
  OBVIOUS
<1>3. \A s \in Switches : ~Mine(s)
  BY DEF Mine, NoContext, ConstantsAssumption
<1>4. JournalInv
  BY <1>1, <1>2, <1>3 DEF JournalInv, OneOpen, FirstVersion, ClaimIsKnown, SnapshotIsOwn, OpenModems,
     AfterClaim, Reconciling
<1>5. DownInv
  BY <1>1, <1>2 DEF DownInv, PlanIsUnclaimed, RestoredIsUp, ReconciledIsUp, IntentIsUp, Planned, Untended
<1> QED
  BY <1>4, <1>5 DEF TInv

LEMMA StutterTorn == ASSUME TInv, UNCHANGED vars PROVE TInv'
BY DEF TInv, vars, JournalInv, OneOpen, FirstVersion, ClaimIsKnown, SnapshotIsOwn, OpenModems, DownInv,
   PlanIsUnclaimed, RestoredIsUp, ReconciledIsUp, IntentIsUp, Mine, Matches, Blocking, Untended

\* When the journal lets the next switch in, a restore of the device has ended
\* since the last teardown (handleESIMSwitchAfterForWorker and
\* restoreReconciledESIMSwitch write no terminal phase before it), unless a
\* reconciliation claimed a switch whose worker's modem was open: for any calls,
\* workers, crashes and failing journal writes.
THEOREM TornDownBlocks == Spec => []TornDownIsBlocked
<1>1. Init => TInv
  BY InitTorn, ConstantsAssumption
<1>2. IInv /\ TInv /\ [Next]_vars => TInv'
  <2> SUFFICES ASSUME IInv, TInv, [Next]_vars PROVE TInv'
    OBVIOUS
  <2>1. ASSUME NEW s \in Switches, SwitchStep(s) PROVE TInv'
    BY <2>1, SwitchKeepsTorn, ConstantsAssumption
  <2>2. ASSUME NEW w \in Workers, ReconcileStep(w) PROVE TInv'
    BY <2>2, ReconcileKeepsTorn, ConstantsAssumption
  <2>3. CASE (\E s \in Switches : Call(s)) \/ Environment
    BY <2>3, EnvironmentKeepsTorn, ConstantsAssumption
  <2>4. CASE UNCHANGED vars
    BY <2>4, StutterTorn
  <2> QED
    BY <2>1, <2>2, <2>3, <2>4 DEF Next
<1>3. TInv => TornDownIsBlocked
  BY DEF TInv, DownInv, TornDownIsBlocked, Untended
<1> QED
  BY <1>1, <1>2, <1>3, Inductive, PTL DEF Spec
=============================================================================
