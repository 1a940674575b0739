------------------------ MODULE RuntimeAttemptProofs ------------------------
(***************************************************************************)
(* Theorems of RuntimeAttempt for every set of calls and schedules.        *)
(***************************************************************************)
EXTENDS RuntimeAttempt, TLAPS

-----------------------------------------------------------------------------
(* What the updates the actions are built from do to the types *)

LEMMA GotoType ==
  ASSUME pc \in [Procs -> Labels], NEW p \in Procs, NEW label \in Labels,
         Goto(p, label)
  PROVE  pc' \in [Procs -> Labels]
BY DEF Goto

LEMMA ResType ==
  ASSUME loc \in [Procs -> Loc], NEW p \in Procs, NEW result \in Results
  PROVE  [loc EXCEPT ![p].res = result] \in [Procs -> Loc]
BY DEF Loc

LEMMA FinishType ==
  ASSUME pc \in [Procs -> Labels], loc \in [Procs -> Loc], NEW p \in Procs,
         NEW result \in Results, NEW label \in Labels, Finish(p, result, label)
  PROVE  pc' \in [Procs -> Labels] /\ loc' \in [Procs -> Loc]
BY GotoType, ResType DEF Finish

LEMMA CancelType ==
  ASSUME ctxDone \in [Procs -> BOOLEAN], NEW owner \in Procs \cup {None},
         Cancel(owner)
  PROVE  ctxDone' \in [Procs -> BOOLEAN]
BY DEF Cancel

LEMMA CancelScheduleType ==
  ASSUME schedDone \in [Jobs -> BOOLEAN], NEW job \in Jobs \cup {None},
         CancelSchedule(job)
  PROVE  schedDone' \in [Jobs -> BOOLEAN]
BY DEF CancelSchedule

LEMMA NoRunType == NoRun \in Run
BY DEF NoRun, Run

LEMMA RunOwner == ASSUME NEW r \in Run PROVE r.owner \in Procs \cup {None}
BY DEF Run

LEMMA RecoverFields ==
  ASSUME NEW r \in Recover
  PROVE  /\ r.gen \in Nat /\ r.gen + 1 \in Nat
         /\ r.attempt \in 0..MaxAttempt
         /\ r.job \in Jobs \cup {None}
BY DEF Recover

LEMMA FlagsType ==
  ASSUME NEW r \in Recover, NEW a \in 0..MaxAttempt, NEW w \in BOOLEAN,
         NEW f \in BOOLEAN, NEW b \in BOOLEAN
  PROVE  [r EXCEPT !.attempt = a, !.waiting = w, !.inFlight = f, !.present = b]
            \in Recover
BY DEF Recover

LEMMA FlightType ==
  ASSUME NEW r \in Recover, NEW w \in BOOLEAN, NEW f \in BOOLEAN
  PROVE  /\ [r EXCEPT !.waiting = w] \in Recover
         /\ [r EXCEPT !.inFlight = f] \in Recover
         /\ [r EXCEPT !.inFlight = f, !.waiting = w] \in Recover
BY DEF Recover

LEMMA GenType ==
  ASSUME NEW r \in Recover, NEW g \in Nat, NEW j \in Jobs \cup {None}
  PROVE  /\ [r EXCEPT !.gen = g] \in Recover
         /\ [r EXCEPT !.job = j] \in Recover
         /\ [r EXCEPT !.gen = g, !.job = j] \in Recover
BY DEF Recover

LEMMA ResetType == ASSUME NEW r \in Recover PROVE ResetRecover(r) \in Recover
<1>1. 0 \in 0..MaxAttempt /\ FALSE \in BOOLEAN
  BY DEF MaxAttempt
<1> QED
  BY <1>1, FlagsType, Zenon DEF ResetRecover

\* A reset that also starts a new generation and drops the schedule.
LEMMA RestartType ==
  ASSUME NEW r \in Recover
  PROVE  /\ [ResetRecover(r) EXCEPT !.gen = @ + 1] \in Recover
         /\ [ResetRecover(r) EXCEPT !.gen = @ + 1, !.job = None] \in Recover
<1> DEFINE z == ResetRecover(r)
<1>1. z \in Recover
  BY ResetType
<1>2. z.gen + 1 \in Nat
  BY <1>1, RecoverFields
<1> HIDE DEF z
<1>3. [z EXCEPT !.gen = z.gen + 1] \in Recover
      /\ [z EXCEPT !.gen = z.gen + 1, !.job = None] \in Recover
  BY <1>1, <1>2, GenType
<1> QED
  BY <1>3 DEF z

LEMMA BackOffType == ASSUME NEW r \in Recover PROVE BackOff(r) \in Recover
<1> DEFINE a == IF r.attempt < MaxAttempt THEN r.attempt + 1 ELSE r.attempt
<1>1. a \in 0..MaxAttempt
  BY RecoverFields DEF MaxAttempt
<1>2. \A w \in BOOLEAN, b \in BOOLEAN :
        [r EXCEPT !.attempt = a, !.waiting = w, !.present = b] \in Recover
  BY <1>1 DEF Recover
<1>3. TRUE \in BOOLEAN
  OBVIOUS
<1> HIDE DEF a
<1>4. [r EXCEPT !.attempt = a, !.waiting = TRUE, !.present = TRUE] \in Recover
  BY <1>2, <1>3, Zenon
<1> QED
  BY <1>4 DEF a, BackOff

LEMMA FinishRecoverType ==
  ASSUME recover \in Recover, NEW p \in Procs, finishDesiredRecover(p)
  PROVE  recover' \in Recover
<1>1. [recover EXCEPT !.inFlight = FALSE] \in Recover
  BY FlightType, Zenon
<1> QED
  BY <1>1, BackOffType, ResetType DEF finishDesiredRecover

LEMMA PhaseType ==
  ASSUME rt \in [Procs -> Rt], NEW i \in Procs
  PROVE  /\ [rt EXCEPT ![i].phase = "live"] \in [Procs -> Rt]
         /\ [rt EXCEPT ![i].phase = "joined"] \in [Procs -> Rt]
         /\ StopRt(i) => rt' \in [Procs -> Rt]
BY DEF Rt, StopRt

-----------------------------------------------------------------------------
(* The types are invariant *)

LEMMA TypeInit == Init => TypeOK
<1> SUFFICES ASSUME Init PROVE TypeOK
  OBVIOUS
<1> USE DEF Init
<1>1. state \in State /\ run \in Run
  BY NoRunType DEF NoState, State
<1>2. recover \in Recover
  BY DEF Recover, NoRecover, MaxAttempt
<1>3. pc \in [Procs -> Labels]
  BY DEF Labels
<1>4. loc \in [Procs -> Loc]
  BY DEF Loc, NewLoc, Results, Opportunities
<1>5. rt \in [Procs -> Rt]
  BY DEF Rt, NewRt
<1> QED
  BY <1>1, <1>2, <1>3, <1>4, <1>5 DEF TypeOK

LEMMA TypeInvoke ==
  ASSUME TypeOK, NEW c \in Calls, Invoke(c)
  PROVE  TypeOK'
<1> USE DEF TypeOK, Invoke
<1>1. c \in Procs
  BY DEF Procs
<1>2. loc' \in [Procs -> Loc]
  BY <1>1, RecoverFields, ConstantsAssumption DEF beginDesiredRecover, Loc, AllKinds
<1>3. pc' \in [Procs -> Labels]
  BY <1>1, GotoType DEF beginDesiredRecover, Labels
<1>4. recover' \in Recover
  <2>1. CASE UNCHANGED recover
    BY <2>1
  <2>2. CASE beginDesiredRecover(c)
    <3>1. \A f \in BOOLEAN, b \in BOOLEAN :
            [recover EXCEPT !.gen = recover.gen + 1, !.inFlight = f, !.present = b] \in Recover
      BY RecoverFields DEF Recover
    <3>2. [recover EXCEPT !.gen = recover.gen + 1, !.inFlight = TRUE, !.present = TRUE] \in Recover
      BY <3>1, Zenon
    <3> QED
      BY <2>2, <3>2 DEF beginDesiredRecover
  <2> QED
    BY <2>1, <2>2
<1> QED
  BY <1>2, <1>3, <1>4 DEF slotVars, lifeVars

LEMMA TypeForgetting ==
  ASSUME TypeOK, NEW p \in Procs, NEW a \in Labels, NEW b \in Labels,
         forgetDesiredRecover(p, a, b)
  PROVE  TypeOK'
<1> USE DEF TypeOK, forgetDesiredRecover
<1>1. loc' \in [Procs -> Loc]
  BY RecoverFields DEF Loc
<1>2. pc' \in [Procs -> Labels]
  BY GotoType
<1>3. run' \in Run /\ ctxDone' \in [Procs -> BOOLEAN]
  BY CancelType, RunOwner, NoRunType
<1>4. recover' \in Recover
  BY RestartType
<1>5. schedDone' \in [Jobs -> BOOLEAN]
  BY CancelScheduleType, RecoverFields
<1> QED
  BY <1>1, <1>2, <1>3, <1>4, <1>5 DEF slotVars

LEMMA TypeAdmission ==
  ASSUME TypeOK, NEW p \in Procs,
         \/ Forget(p) \/ Join(p) \/ Invalidate(p)
         \/ Admit(p) \/ Submit(p) \/ Check(p) \/ bindLifecycleRun(p) \/ Unlock(p)
  PROVE  TypeOK'
<1> USE DEF TypeOK
<1>0. {"join", "done", "invalidate", "find", "admit", "submit", "check", "bind",
       "unlock", "settle", "begin", "recoverable"} \subseteq Labels
      /\ {"ok", "failed"} \subseteq Results
  BY DEF Labels, Results
<1>1. CASE Forget(p)
  BY <1>1, <1>0, TypeForgetting DEF Forget, AfterForget
<1>2. CASE Join(p)
  BY <1>2, <1>0, GotoType DEF Join, AfterForget, slotVars, lifeVars, recVars
<1>3. CASE Invalidate(p)
  <2>1. pc' \in [Procs -> Labels]
    BY <1>3, <1>0, GotoType DEF Invalidate
  <2>2. run' \in Run /\ ctxDone' \in [Procs -> BOOLEAN]
    BY <1>3, CancelType, RunOwner, NoRunType DEF Invalidate
  <2>3. state' \in State
    BY <1>3 DEF Invalidate, NoState, State
  <2>4. UNCHANGED <<instance, generation, runMu, recover, schedDone, loc, rt, smsMode>>
    BY <1>3 DEF Invalidate, recVars
  <2>5. starting' \in BOOLEAN
    BY <1>3, Zenon DEF Invalidate
  <2>6. epoch' \in Nat
    BY <1>3 DEF Invalidate
  <2> QED
    BY <2>1, <2>2, <2>3, <2>4, <2>5, <2>6
<1>4. CASE Admit(p)
  <2>1. [loc EXCEPT ![p].gen = generation + 1] \in [Procs -> Loc]
    BY DEF Loc
  <2>2. pc' \in [Procs -> Labels] /\ loc' \in [Procs -> Loc]
    BY <1>4, <2>1, <1>0, FinishType, GotoType DEF Admit
  <2>3. run' \in Run /\ ctxDone' \in [Procs -> BOOLEAN] /\ generation' \in Nat
    BY <1>4, CancelType, RunOwner, NoRunType DEF Admit, preemptLifecycle, admitLifecycle
  <2> QED
    BY <1>4, <2>2, <2>3 DEF Admit, slotVars, recVars
<1>5. CASE Submit(p)
  BY <1>5, <1>0, GotoType DEF Submit, slotVars, recVars
<1>6. CASE Check(p)
  BY <1>6, <1>0, GotoType, FinishType DEF Check, slotVars, lifeVars, recVars
<1>7. CASE bindLifecycleRun(p)
  <2>1. FirstStep(p) \subseteq Labels
    BY DEF FirstStep, Labels
  <2>2. pc' \in [Procs -> Labels] /\ loc' \in [Procs -> Loc]
    BY <1>7, <2>1, <1>0, GotoType, FinishType DEF bindLifecycleRun
  <2>3. run' \in Run
    <3>1. IsRecovery(p) \in BOOLEAN
      BY DEF IsRecovery
    <3>2. loc[p].rgen \in Nat
      BY DEF Loc
    <3>3. \A b \in BOOLEAN : [owner |-> p, rgen |-> loc[p].rgen, recovery |-> b] \in Run
      BY <3>2 DEF Run
    <3>4. [owner |-> p, rgen |-> loc[p].rgen, recovery |-> IsRecovery(p)] \in Run
      BY <3>1, <3>3, Zenon
    <3> QED
      BY <1>7, <3>4 DEF bindLifecycleRun
  <2>4. ctxDone' \in [Procs -> BOOLEAN]
    BY <1>7 DEF bindLifecycleRun
  <2> QED
    BY <1>7, <2>2, <2>3, <2>4 DEF bindLifecycleRun, slotVars, recVars
<1>8. CASE Unlock(p)
  <2>1. pc' \in [Procs -> Labels] /\ run' \in Run
    BY <1>8, <1>0, GotoType, NoRunType DEF Unlock
  <2> QED
    BY <1>8, <2>1 DEF Unlock, slotVars, recVars
<1> QED
  BY <1>1, <1>2, <1>3, <1>4, <1>5, <1>6, <1>7, <1>8

LEMMA TypeTeardown ==
  ASSUME TypeOK, NEW p \in Procs,
         \/ CheckRecoverable(p) \/ FindInstance(p) \/ Stop(p) \/ StopWait(p)
         \/ DeleteInstance(p) \/ RestoreSMSMode(p)
  PROVE  TypeOK'
<1> USE DEF TypeOK
<1>0. /\ {"find", "stop", "stopWait", "delete", "restore", "unlock", "begin", "done"}
            \subseteq Labels
      /\ "ok" \in Results
      /\ AfterTeardown(p) \in Labels
  BY DEF Labels, Results, AfterTeardown
<1>1. CASE CheckRecoverable(p)
  BY <1>1, <1>0, GotoType, FinishType DEF CheckRecoverable, slotVars, lifeVars, recVars
<1>2. CASE FindInstance(p)
  <2>1. loc' \in [Procs -> Loc]
    BY <1>2 DEF FindInstance, Loc
  <2>2. pc' \in [Procs -> Labels]
    BY <1>2, <1>0, GotoType DEF FindInstance
  <2> QED
    BY <1>2, <2>1, <2>2 DEF FindInstance, slotVars, lifeVars, recVars
<1>3. CASE Stop(p)
  <2>1. rt' \in [Procs -> Rt]
    <3>1. CASE loc[p].inst \in Procs
      BY <1>3, <3>1, PhaseType DEF Stop
    <3>2. CASE loc[p].inst \notin Procs
      BY <1>3, <3>2 DEF Stop, StopRt
    <3> QED
      BY <3>1, <3>2
  <2> QED
    BY <1>3, <2>1, <1>0, GotoType DEF Stop, slotVars, lifeVars, recVars
<1>4. CASE StopWait(p)
  BY <1>4, <1>0, GotoType DEF StopWait, slotVars, lifeVars, recVars
<1>5. CASE DeleteInstance(p)
  <2>1. NoState \in State /\ NoRecover \in Recover
    BY DEF NoState, State, NoRecover, Recover, MaxAttempt
  <2>2. pc' \in [Procs -> Labels]
    BY <1>5, <1>0, GotoType DEF DeleteInstance
  <2>3. run' \in Run /\ recover' \in Recover /\ state' \in State /\ generation' \in Nat
    BY <1>5, <2>1, NoRunType DEF DeleteInstance
  <2> QED
    BY <1>5, <2>2, <2>3 DEF DeleteInstance
<1>6. CASE RestoreSMSMode(p)
  BY <1>6, <1>0, GotoType DEF RestoreSMSMode, slotVars, lifeVars, recVars
<1> QED
  BY <1>1, <1>2, <1>3, <1>4, <1>5, <1>6

LEMMA TypeStartup ==
  ASSUME TypeOK, NEW p \in Procs,
         \/ BeginStart(p) \/ PrepareAndStart(p) \/ BeforeStart(p)
         \/ CreateInstance(p) \/ AddObserver(p) \/ ClaimStarted(p)
         \/ StaleStop(p) \/ StaleWait(p) \/ MarkRuntimeStarted(p)
  PROVE  TypeOK'
<1> USE DEF TypeOK
<1>0. /\ {"prepare", "before", "create", "observe", "claim", "staleStop", "staleWait",
          "mark", "startErr", "failStart", "unlock"} \subseteq Labels
      /\ Results = {"ok", "failed", "policy", "busy"}
  BY DEF Labels, Results
<1>1. CASE BeginStart(p)
  <2>1. [loc EXCEPT ![p].epoch = epoch] \in [Procs -> Loc]
    BY DEF Loc
  <2>2. pc' \in [Procs -> Labels] /\ loc' \in [Procs -> Loc]
    BY <1>1, <2>1, <1>0, GotoType, FinishType DEF BeginStart
  <2>3. starting' \in BOOLEAN
    BY <1>1 DEF BeginStart
  <2> QED
    BY <1>1, <2>2, <2>3 DEF BeginStart, lifeVars, recVars
<1>2. CASE PrepareAndStart(p)
  <2>1. pc' \in [Procs -> Labels] /\ loc' \in [Procs -> Loc]
    BY <1>2, <1>0, GotoType, FinishType DEF PrepareAndStart
  <2> QED
    BY <1>2, <2>1 DEF PrepareAndStart, slotVars, lifeVars, recVars
<1>3. CASE BeforeStart(p)
  <2>1. state' \in State
    BY <1>3 DEF BeforeStart, State
  <2> QED
    BY <1>3, <2>1, <1>0, GotoType DEF BeforeStart, lifeVars, recVars
<1>4. CASE CreateInstance(p)
  <2>1. StartErrors \subseteq Results
    BY <1>0 DEF StartErrors
  <2>2. pc' \in [Procs -> Labels] /\ loc' \in [Procs -> Loc]
    BY <1>4, <2>1, <1>0, GotoType, FinishType DEF CreateInstance
  <2>3. rt' \in [Procs -> Rt]
    BY <1>4, PhaseType DEF CreateInstance
  <2> QED
    BY <1>4, <2>2, <2>3 DEF CreateInstance, slotVars, lifeVars, recVars
<1>5. CASE AddObserver(p)
  <2>1. \A b \in BOOLEAN : [rt EXCEPT ![p].observed = b] \in [Procs -> Rt]
    BY DEF Rt
  <2>2. [rt EXCEPT ![p].observed = TRUE] \in [Procs -> Rt]
    BY <2>1, Zenon
  <2> QED
    BY <1>5, <2>2, <1>0, GotoType DEF AddObserver, slotVars, lifeVars, recVars
<1>6. CASE ClaimStarted(p)
  <2>1. pc' \in [Procs -> Labels]
    BY <1>6, <1>0, GotoType DEF ClaimStarted
  <2>2. state' \in State
    <3>1. rt[p].st \in {"up", "ready", "failed", "canceled"}
      BY DEF Rt
    <3> QED
      BY <1>6, <3>1 DEF ClaimStarted, State
  <2>3. recover' \in Recover
    BY <1>6, RestartType DEF ClaimStarted, recVars
  <2>4. schedDone' \in [Jobs -> BOOLEAN]
    BY <1>6, CancelScheduleType, RecoverFields DEF ClaimStarted, recVars
  <2>5. instance' \in Procs \cup {None} /\ starting' \in BOOLEAN
    BY <1>6 DEF ClaimStarted
  <2> QED
    BY <1>6, <2>1, <2>2, <2>3, <2>4, <2>5 DEF ClaimStarted, lifeVars
<1>7. CASE StaleStop(p)
  <2>1. loc' \in [Procs -> Loc]
    <3>1. [loc[p] EXCEPT !.inst = p] \in Loc
      BY DEF Loc
    <3>2. loc' = [loc EXCEPT ![p] = [loc[p] EXCEPT !.inst = p]]
      BY <1>7 DEF StaleStop
    <3> QED
      BY <3>1, <3>2
  <2>2. rt' \in [Procs -> Rt]
    BY <1>7, PhaseType DEF StaleStop
  <2> QED
    BY <1>7, <2>1, <2>2, <1>0, GotoType DEF StaleStop, slotVars, lifeVars, recVars
<1>8. CASE StaleWait(p)
  BY <1>8, <1>0, FinishType DEF StaleWait, slotVars, lifeVars, recVars
<1>9. CASE MarkRuntimeStarted(p)
  BY <1>9, <1>0, FinishType DEF MarkRuntimeStarted, slotVars, lifeVars, recVars
<1> QED
  BY <1>1, <1>2, <1>3, <1>4, <1>5, <1>6, <1>7, <1>8, <1>9

LEMMA TypeFailure ==
  ASSUME TypeOK, NEW p \in Procs,
         \/ HandleStartupError(p) \/ BusyForget(p) \/ BusyJoin(p) \/ FailStart(p)
         \/ SettleDesired(p)
  PROVE  TypeOK'
<1> USE DEF TypeOK
<1>0. /\ {"failStart", "busyForget", "busyJoin", "unlock", "timer", "done"} \subseteq Labels
      /\ {"ok", "failed"} \subseteq Results
  BY DEF Labels, Results
<1>1. CASE HandleStartupError(p)
  <2>1. CASE \E j \in Jobs : beginAPDUBusyRecoverSchedule(p, j)
    <3> PICK j \in Jobs : beginAPDUBusyRecoverSchedule(p, j)
      BY <2>1
    <3>1. j \in Procs
      BY DEF Procs
    <3>2. loc' \in [Procs -> Loc]
      BY <3>1, <1>0, RecoverFields DEF beginAPDUBusyRecoverSchedule, Loc
    <3>3. pc' \in [Procs -> Labels]
      BY <3>1, <1>0 DEF beginAPDUBusyRecoverSchedule
    <3>4. recover' \in Recover
      <4>1. \A a \in 0..MaxAttempt, w \in BOOLEAN, b \in BOOLEAN :
              [recover EXCEPT !.gen = recover.gen + 1, !.attempt = a, !.waiting = w,
                              !.present = b, !.job = j] \in Recover
        BY RecoverFields DEF Recover
      <4>2. 0 \in 0..MaxAttempt /\ TRUE \in BOOLEAN
        BY DEF MaxAttempt
      <4>3. [recover EXCEPT !.gen = recover.gen + 1, !.attempt = 0, !.waiting = TRUE,
                            !.present = TRUE, !.job = j] \in Recover
        BY <4>1, <4>2, Zenon
      <4> QED
        BY <4>3 DEF beginAPDUBusyRecoverSchedule
    <3> QED
      BY <1>1, <3>2, <3>3, <3>4 DEF HandleStartupError, slotVars, lifeVars
  <2>2. CASE ~ \E j \in Jobs : beginAPDUBusyRecoverSchedule(p, j)
    <3>1. pc' \in [Procs -> Labels] /\ loc' \in [Procs -> Loc] /\ recover' \in Recover
      BY <1>1, <2>2, <1>0, GotoType, FinishType DEF HandleStartupError
    <3> QED
      BY <1>1, <3>1 DEF HandleStartupError, slotVars, lifeVars
  <2> QED
    BY <2>1, <2>2
<1>2. CASE BusyForget(p)
  BY <1>2, <1>0, TypeForgetting DEF BusyForget
<1>3. CASE BusyJoin(p)
  BY <1>3, <1>0, GotoType DEF BusyJoin, slotVars, lifeVars, recVars
<1>4. CASE FailStart(p)
  <2>1. starting' \in BOOLEAN
    BY <1>4, Zenon DEF FailStart
  <2>2. state' \in State
    BY <1>4 DEF FailStart, NoState, State
  <2> QED
    BY <1>4, <2>1, <2>2, <1>0, GotoType DEF FailStart, lifeVars, recVars
<1>5. CASE SettleDesired(p)
  <2>1. recover' \in Recover
    BY <1>5, FinishRecoverType DEF SettleDesired
  <2> QED
    BY <1>5, <2>1, <1>0, GotoType DEF SettleDesired, slotVars, lifeVars
<1> QED
  BY <1>1, <1>2, <1>3, <1>4, <1>5

LEMMA TypeSchedule ==
  ASSUME TypeOK, NEW j \in Jobs, ScheduleStep(j)
  PROVE  TypeOK'
<1> USE DEF TypeOK
<1>0. /\ {"attempt", "close", "timer", "admit", "release", "done"} \subseteq Labels
      /\ j \in Procs
  BY DEF Labels, Procs
<1>1. CASE ScheduleTimer(j)
  BY <1>1, <1>0, GotoType DEF ScheduleTimer, slotVars, lifeVars, recVars
<1>2. CASE beginAPDUBusyRecoverAttempt(j)
  <2>1. [recover EXCEPT !.inFlight = TRUE, !.waiting = FALSE] \in Recover
    BY FlightType, Zenon
  <2>2. recover' \in Recover /\ pc' \in [Procs -> Labels]
    BY <1>2, <2>1, <1>0, GotoType DEF beginAPDUBusyRecoverAttempt
  <2> QED
    BY <1>2, <2>2 DEF beginAPDUBusyRecoverAttempt, slotVars, lifeVars
<1>3. CASE SettleSchedule(j)
  <2>1. [recover EXCEPT !.inFlight = FALSE, !.waiting = TRUE] \in Recover
    BY FlightType, Zenon
  <2>2. recover' \in Recover
    BY <1>3, <2>1, <1>0, FinishRecoverType DEF SettleSchedule, deferAPDUBusyRecoverAttempt
  <2>3. pc' \in [Procs -> Labels]
    BY <1>3, <1>0, GotoType DEF SettleSchedule, deferAPDUBusyRecoverAttempt
  <2>4. loc' \in [Procs -> Loc]
    <3>1. OwnsRecovery(j) \in BOOLEAN
      BY DEF OwnsRecovery, Recover
    <3>2. \A b \in BOOLEAN : [loc EXCEPT ![j].completed = b] \in [Procs -> Loc]
      BY <1>0 DEF Loc
    <3>3. [loc EXCEPT ![j].completed = OwnsRecovery(j)] \in [Procs -> Loc]
      BY <3>1, <3>2, Zenon
    <3>4. loc[j].opp < Opportunities
            => [loc EXCEPT ![j].opp = loc[j].opp + 1] \in [Procs -> Loc]
      BY <1>0 DEF Loc, Opportunities
    <3> QED
      BY <1>3, <3>3, <3>4 DEF SettleSchedule, deferAPDUBusyRecoverAttempt
  <2> QED
    BY <1>3, <2>2, <2>3, <2>4 DEF SettleSchedule, slotVars, lifeVars
<1>4. CASE CloseSchedule(j)
  BY <1>4, <1>0, GotoType DEF CloseSchedule, slotVars, lifeVars, recVars
<1>5. CASE releaseAPDUBusyRecoverSchedule(j)
  <2>1. recover' \in Recover
    BY <1>5, RestartType, GenType DEF releaseAPDUBusyRecoverSchedule
  <2> QED
    BY <1>5, <2>1, <1>0, GotoType DEF releaseAPDUBusyRecoverSchedule, slotVars, lifeVars
<1> QED
  BY <1>1, <1>2, <1>3, <1>4, <1>5 DEF ScheduleStep

LEMMA TypeRuntime ==
  ASSUME TypeOK, NEW i \in Procs, RuntimeStep(i)
  PROVE  TypeOK'
<1> USE DEF TypeOK
<1>1. CASE UpdateRuntimeState(i)
  <2>1. rt' \in [Procs -> Rt]
    BY <1>1 DEF UpdateRuntimeState, Rt
  <2> QED
    BY <1>1, <2>1 DEF UpdateRuntimeState, slotVars, lifeVars, recVars
<1>2. CASE SnapshotObservers(i)
  <2>1. rt' \in [Procs -> Rt]
    BY <1>2 DEF SnapshotObservers, Rt
  <2> QED
    BY <1>2, <2>1 DEF SnapshotObservers, slotVars, lifeVars, recVars
<1>3. CASE publishRuntimeState(i)
  <2>1. rt' \in [Procs -> Rt]
    BY <1>3 DEF publishRuntimeState, Rt
  <2>2. state' \in State
    <3>1. rt[i].st \in {"up", "ready", "failed", "canceled"}
      BY DEF Rt
    <3> QED
      BY <1>3, <3>1 DEF publishRuntimeState, State
  <2>3. recover' \in Recover
    BY <1>3, ResetType, BackOffType DEF publishRuntimeState
  <2> QED
    BY <1>3, <2>1, <2>2, <2>3 DEF publishRuntimeState, lifeVars
<1>4. CASE FinishStopCleanup(i)
  BY <1>4, PhaseType DEF FinishStopCleanup, slotVars, lifeVars, recVars
<1> QED
  BY <1>1, <1>2, <1>3, <1>4 DEF RuntimeStep

LEMMA TypeStep == TypeOK /\ [Next]_vars => TypeOK'
<1> SUFFICES ASSUME TypeOK, [Next]_vars PROVE TypeOK'
  OBVIOUS
<1>1. ASSUME NEW p \in Procs, CommandStep(p) PROVE TypeOK'
  BY <1>1, TypeAdmission, TypeTeardown, TypeStartup, TypeFailure DEF CommandStep
<1>2. CASE BackoffElapses
  <2>1. [recover EXCEPT !.waiting = FALSE] \in Recover
    BY FlightType, Zenon DEF TypeOK
  <2> QED
    BY <1>2, <2>1 DEF BackoffElapses, TypeOK, slotVars, lifeVars
<1>3. CASE UNCHANGED vars
  BY <1>3 DEF vars, TypeOK
<1> QED
  BY <1>1, <1>2, <1>3, TypeInvoke, TypeSchedule, TypeRuntime DEF Next, Quiet

\* Every reachable state has the types of the code's fields; in particular the
\* retry history stays within the delays the code knows.
THEOREM TypeCorrect == Spec => []TypeOK
  BY TypeInit, TypeStep, PTL DEF Spec

-----------------------------------------------------------------------------
(* The inductive invariant *)

\* The labels at which a command holds runMu; a teardown reached through the
\* controller holds it too, TeardownForReconnect does not.
CommandLabels == {"check", "bind", "recoverable", "begin", "prepare", "before",
                  "create", "observe", "claim", "staleStop", "staleWait", "mark",
                  "startErr", "busyForget", "busyJoin", "failStart", "unlock"}
TeardownLabels == {"find", "stop", "stopWait", "delete", "restore"}

\* Only a call tears down outside the controller, and it never enters it.
Outside ==
    \A p \in Procs : /\ p \in Jobs => loc[p].op = "none"
                     /\ pc[p] \in {"admit", "submit"} \cup CommandLabels
                          => loc[p].op # "teardown"

\* runMu serialises the commands of the device.
Serialised ==
    \A p \in Procs :
        pc[p] \in CommandLabels \/ (pc[p] \in TeardownLabels /\ loc[p].op # "teardown")
            => runMu = p

StartingIsFree == starting => instance = None

\* A process that created its runtime does not start another one.
CreatedOnce ==
    \A p \in Procs : rt[p].phase # "unused" =>
        \/ pc[p] \in {"observe", "claim", "staleStop", "staleWait", "mark",
                      "close", "release", "done"}
        \/ pc[p] \in {"unlock", "settle"} /\ loc[p].res = "ok"

\* A runtime not yet claimed runs, and nobody else stops it.
Unclaimed == {"observe", "claim", "staleStop"}
LiveUntilClaimed == \A p \in Procs : pc[p] \in Unclaimed => rt[p].phase = "live"
ClaimedIsPublic ==
    \A p \in Procs : instance = p =>
        rt[p].phase # "unused" /\ pc[p] \notin Unclaimed \cup {"staleWait"}
StoppedIsPublic ==
    \A q \in Procs : pc[q] \in {"stop", "stopWait", "delete"} =>
        /\ loc[q].inst \in Procs
        /\ rt[loc[q].inst].phase # "unused"
        /\ pc[loc[q].inst] \notin Unclaimed \cup {"staleWait"}
        /\ pc[q] # "stop" => rt[loc[q].inst].phase # "live"

IInv ==
    /\ TypeOK /\ Outside /\ Serialised
    /\ StartingIsFree /\ StartingHasOwner /\ RunCancelIsRunning
    /\ CreatedOnce /\ LiveUntilClaimed /\ ClaimedIsPublic /\ StoppedIsPublic
    /\ NoOrphanRuntime /\ NoStoppedRuntimeClaimed /\ NoGhostState


LEMMA InvInit == Init => IInv
<1> SUFFICES ASSUME Init PROVE IInv
  OBVIOUS
<1>1. TypeOK
  BY TypeInit
<1>2. /\ \A p \in Procs : pc[p] = "idle" /\ loc[p].op = "none" /\ rt[p].phase = "unused"
      /\ instance = None /\ ~starting /\ run.owner = None /\ state.st = "none"
  BY DEF Init, NewLoc, NewRt, NoRun, NoState
<1>3. Outside /\ Serialised /\ StartingIsFree /\ StartingHasOwner /\ RunCancelIsRunning
  BY <1>2 DEF Outside, Serialised, StartingIsFree, StartingHasOwner, RunCancelIsRunning,
     CommandLabels, TeardownLabels
<1>4. CreatedOnce /\ LiveUntilClaimed /\ ClaimedIsPublic /\ StoppedIsPublic
  BY <1>2, ConstantsAssumption DEF CreatedOnce, LiveUntilClaimed, ClaimedIsPublic, StoppedIsPublic, Unclaimed
<1>5. NoOrphanRuntime /\ NoStoppedRuntimeClaimed /\ NoGhostState
  BY <1>2, ConstantsAssumption, SMTT(30) DEF NoOrphanRuntime, NoStoppedRuntimeClaimed, NoGhostState
<1> QED
  BY <1>1, <1>3, <1>4, <1>5 DEF IInv

LEMMA InvAdmission ==
  ASSUME IInv, TypeOK', NEW p \in Procs,
         \/ Forget(p) \/ Join(p) \/ Invalidate(p) \/ Admit(p) \/ Submit(p)
         \/ Check(p) \/ bindLifecycleRun(p) \/ Unlock(p)
  PROVE  IInv'
<1> USE DEF IInv, TypeOK, Loc, slotVars, lifeVars, recVars,
           CommandLabels, TeardownLabels, StartLabels, Unclaimed,
           Outside, Serialised, StartingIsFree, StartingHasOwner, RunCancelIsRunning, CreatedOnce,
           LiveUntilClaimed, ClaimedIsPublic, StoppedIsPublic, NoOrphanRuntime,
           NoStoppedRuntimeClaimed, NoGhostState
<1>0. p \in Procs /\ None \notin Procs
  BY ConstantsAssumption DEF Procs
<1>1. CASE Forget(p)
  <2>1. Outside' /\ Serialised' /\ StartingIsFree' /\ StartingHasOwner' /\ RunCancelIsRunning'
    BY <1>1, <1>0, ConstantsAssumption, SMTT(30) DEF Forget, forgetDesiredRecover, AfterForget, Cancel, NoRun, Goto
  <2>2. CreatedOnce' /\ LiveUntilClaimed' /\ ClaimedIsPublic' /\ NoOrphanRuntime'
    BY <1>1, <1>0, ConstantsAssumption, SMTT(30) DEF Forget, forgetDesiredRecover, AfterForget, Cancel, NoRun, Goto
  <2>3. StoppedIsPublic' /\ NoStoppedRuntimeClaimed' /\ NoGhostState'
    BY <1>1, <1>0, ConstantsAssumption, SMTT(30) DEF Forget, forgetDesiredRecover, AfterForget, Cancel, NoRun, Goto
  <2> QED
    BY <2>1, <2>2, <2>3
<1>2. CASE Join(p)
  BY <1>2, <1>0, ConstantsAssumption, SMTT(30) DEF Join, AfterForget, Goto
<1>3. CASE Invalidate(p)
  BY <1>3, <1>0, ConstantsAssumption, SMTT(30) DEF Invalidate, Cancel, NoRun, NoState, Goto
<1>4. CASE Admit(p)
  <2>1. CASE /\ preemptLifecycle(p) \/ admitLifecycle(p)
             /\ loc' = [loc EXCEPT ![p].gen = generation + 1] /\ Goto(p, "submit")
    BY <1>4, <2>1, <1>0, SMTT(30)
       DEF Admit, preemptLifecycle, admitLifecycle, Preempting, Cancel, NoRun, Goto
  <2>2. CASE loc[p].op = "enable" /\ Finish(p, "ok", "done") /\ UNCHANGED run
    BY <1>4, <2>2, <1>0, SMTT(30) DEF Admit, Finish, Goto
  <2> QED
    BY <1>4, <2>1, <2>2, <1>0 DEF Admit
<1>5. CASE Submit(p)
  BY <1>5, <1>0, ConstantsAssumption, SMTT(30) DEF Submit, Goto
<1>6. CASE Check(p)
  BY <1>6, <1>0, ConstantsAssumption, SMTT(30) DEF Check, Goto, Finish
<1>7. CASE bindLifecycleRun(p)
  <2>1. CASE generation = loc[p].gen
    <3>1. PICK label \in {"recoverable", "begin", "unlock", "find"} : Goto(p, label)
      BY <1>7, <2>1 DEF bindLifecycleRun, FirstStep
    <3>2. pc[p] = "bind" /\ run'.owner = p /\ UNCHANGED <<slotVars, generation, runMu, recVars, loc, rt, smsMode>>
      BY <1>7, <2>1 DEF bindLifecycleRun
    <3>3. Outside' /\ Serialised'
      BY <1>0, <3>1, <3>2, SMTT(30) DEF Goto
    <3>6. StartingIsFree' /\ StartingHasOwner' /\ RunCancelIsRunning'
      BY <1>0, <3>1, <3>2, SMTT(30) DEF Goto
    <3>4. CreatedOnce' /\ LiveUntilClaimed' /\ ClaimedIsPublic' /\ NoOrphanRuntime'
      BY <1>0, <3>1, <3>2, SMTT(30) DEF Goto
    <3>5. StoppedIsPublic' /\ NoStoppedRuntimeClaimed' /\ NoGhostState'
      BY <1>0, <3>1, <3>2, SMTT(30) DEF Goto
    <3> QED
      BY <3>3, <3>4, <3>5, <3>6
  <2>2. CASE generation # loc[p].gen
    <3>1. /\ pc'[p] = "unlock" /\ \A q \in Procs \ {p} : pc'[q] = pc[q]
          /\ UNCHANGED <<run, ctxDone, slotVars, generation, runMu, recVars, rt>>
      BY <1>7, <1>0, <2>2 DEF bindLifecycleRun, Goto, Finish
    <3>2. \A q \in Procs : /\ loc'[q].op = loc[q].op /\ loc'[q].inst = loc[q].inst
                           /\ loc'[q].epoch = loc[q].epoch
                           /\ q # p => loc'[q].res = loc[q].res
      BY <1>7, <1>0, <2>2 DEF bindLifecycleRun, Finish, Loc
    <3>3. pc[p] = "bind"
      BY <1>7 DEF bindLifecycleRun
    <3>4. Outside' /\ Serialised' /\ StartingIsFree' /\ StartingHasOwner' /\ RunCancelIsRunning'
      BY <1>0, <3>1, <3>2, <3>3, SMTT(30) DEF slotVars
    <3>5. CreatedOnce' /\ LiveUntilClaimed' /\ ClaimedIsPublic' /\ NoOrphanRuntime'
      <4>1. rt[p].phase = "unused" /\ UNCHANGED <<instance, rt>>
        BY <1>0, <3>1, <3>3 DEF slotVars
      <4>2. CreatedOnce'
        BY <3>1, <3>2, <4>1
      <4> QED
        BY <3>1, <4>1, <4>2
    <3>6. StoppedIsPublic' /\ NoStoppedRuntimeClaimed' /\ NoGhostState'
      BY <1>0, <3>1, <3>2, <3>3, SMTT(30) DEF slotVars
    <3> QED
      BY <3>4, <3>5, <3>6
  <2> QED
    BY <2>1, <2>2
<1>8. CASE Unlock(p)
  BY <1>8, <1>0, ConstantsAssumption, SMTT(30) DEF Unlock, NoRun, Goto
<1> QED
  BY <1>1, <1>2, <1>3, <1>4, <1>5, <1>6, <1>7, <1>8

LEMMA InvTeardown ==
  ASSUME IInv, TypeOK', NEW p \in Procs,
         \/ CheckRecoverable(p) \/ FindInstance(p) \/ Stop(p) \/ StopWait(p)
         \/ DeleteInstance(p) \/ RestoreSMSMode(p)
  PROVE  IInv'
<1> USE DEF IInv, TypeOK, Loc, slotVars, lifeVars, recVars,
           CommandLabels, TeardownLabels, StartLabels, Unclaimed,
           Outside, Serialised, StartingIsFree, StartingHasOwner, RunCancelIsRunning, CreatedOnce,
           LiveUntilClaimed, ClaimedIsPublic, StoppedIsPublic, NoOrphanRuntime,
           NoStoppedRuntimeClaimed, NoGhostState
<1>0. p \in Procs /\ None \notin Procs
  BY ConstantsAssumption DEF Procs
<1>1. CASE CheckRecoverable(p)
  BY <1>1, <1>0, ConstantsAssumption, SMTT(30) DEF CheckRecoverable, Goto, Finish
<1>2. CASE FindInstance(p)
  BY <1>2, <1>0, ConstantsAssumption, SMTT(30) DEF FindInstance, AfterTeardown, IsRecovery, Goto
<1>3. CASE Stop(p)
  <2>1. Outside' /\ Serialised' /\ StartingIsFree' /\ StartingHasOwner' /\ RunCancelIsRunning'
    BY <1>3, <1>0, ConstantsAssumption, SMTT(30) DEF Stop, StopRt, Goto
  <2>2. CreatedOnce' /\ LiveUntilClaimed' /\ ClaimedIsPublic' /\ NoOrphanRuntime'
    BY <1>3, <1>0, ConstantsAssumption, SMTT(30) DEF Stop, StopRt, Goto
  <2>3. StoppedIsPublic' /\ NoStoppedRuntimeClaimed' /\ NoGhostState'
    BY <1>3, <1>0, ConstantsAssumption, SMTT(30) DEF Stop, StopRt, Goto
  <2> QED
    BY <2>1, <2>2, <2>3
<1>4. CASE StopWait(p)
  BY <1>4, <1>0, ConstantsAssumption, SMTT(30) DEF StopWait, Goto
<1>5. CASE DeleteInstance(p)
  BY <1>5, <1>0, ConstantsAssumption, SMTT(30) DEF DeleteInstance, NoRun, NoState, Goto
<1>6. CASE RestoreSMSMode(p)
  BY <1>6, <1>0, ConstantsAssumption, SMTT(30) DEF RestoreSMSMode, AfterTeardown, IsRecovery, Goto
<1> QED
  BY <1>1, <1>2, <1>3, <1>4, <1>5, <1>6

LEMMA InvStartup ==
  ASSUME IInv, TypeOK', NEW p \in Procs,
         \/ BeginStart(p) \/ PrepareAndStart(p) \/ BeforeStart(p)
         \/ CreateInstance(p) \/ AddObserver(p) \/ ClaimStarted(p)
         \/ StaleStop(p) \/ StaleWait(p) \/ MarkRuntimeStarted(p)
  PROVE  IInv'
<1> USE DEF IInv, TypeOK, Loc, slotVars, lifeVars, recVars,
           CommandLabels, TeardownLabels, StartLabels, Unclaimed,
           Outside, Serialised, StartingIsFree, StartingHasOwner, RunCancelIsRunning, CreatedOnce,
           LiveUntilClaimed, ClaimedIsPublic, StoppedIsPublic, NoOrphanRuntime,
           NoStoppedRuntimeClaimed, NoGhostState
<1>0. p \in Procs /\ None \notin Procs
  BY ConstantsAssumption DEF Procs
<1>1. CASE BeginStart(p)
  BY <1>1, <1>0, ConstantsAssumption, SMTT(30) DEF BeginStart, Finish, Goto
<1>2. CASE PrepareAndStart(p)
  BY <1>2, <1>0, ConstantsAssumption, SMTT(30) DEF PrepareAndStart, Finish, Goto
<1>3. CASE BeforeStart(p)
  BY <1>3, <1>0, ConstantsAssumption, SMTT(30) DEF BeforeStart, Goto
<1>4. CASE CreateInstance(p)
  <2>1. rt[p].phase = "unused" /\ runMu = p
    BY <1>4, <1>0 DEF CreateInstance
  <2>2. CASE /\ rt' = [rt EXCEPT ![p].phase = "live"]
             /\ Goto(p, "observe") /\ UNCHANGED loc
    <3>1. /\ rt'[p].phase = "live"
          /\ \A q \in Procs \ {p} : rt'[q] = rt[q]
      BY <2>2, <1>0, SMTT(30) DEF Rt
    <3> QED
      BY <1>4, <2>1, <2>2, <3>1, <1>0, SMTT(30) DEF CreateInstance, Goto
  <2>3. CASE UNCHANGED rt /\ \E r \in StartErrors : Finish(p, r, "startErr")
    BY <1>4, <2>3, <1>0, SMTT(30) DEF CreateInstance, Finish, Goto
  <2> QED
    BY <1>4, <2>2, <2>3 DEF CreateInstance
<1>5. CASE AddObserver(p)
  BY <1>5, <1>0, ConstantsAssumption, SMTT(30) DEF AddObserver, Goto
<1>6. CASE ClaimStarted(p)
  BY <1>6, <1>0, ConstantsAssumption, SMTT(30) DEF ClaimStarted, Claimable, Goto
<1>7. CASE StaleStop(p)
  BY <1>7, <1>0, ConstantsAssumption, SMTT(30) DEF StaleStop, StopRt, Goto
<1>8. CASE StaleWait(p)
  BY <1>8, <1>0, ConstantsAssumption, SMTT(30) DEF StaleWait, Finish, Goto
<1>9. CASE MarkRuntimeStarted(p)
  BY <1>9, <1>0, ConstantsAssumption, SMTT(30) DEF MarkRuntimeStarted, Finish, Goto
<1> QED
  BY <1>1, <1>2, <1>3, <1>4, <1>5, <1>6, <1>7, <1>8, <1>9

LEMMA InvFailure ==
  ASSUME IInv, TypeOK', NEW p \in Procs,
         \/ HandleStartupError(p) \/ BusyForget(p) \/ BusyJoin(p)
         \/ FailStart(p) \/ SettleDesired(p)
  PROVE  IInv'
<1> USE DEF IInv, TypeOK, Loc, slotVars, lifeVars, recVars,
           CommandLabels, TeardownLabels, StartLabels, Unclaimed,
           Outside, Serialised, StartingIsFree, StartingHasOwner, RunCancelIsRunning, CreatedOnce,
           LiveUntilClaimed, ClaimedIsPublic, StoppedIsPublic, NoOrphanRuntime,
           NoStoppedRuntimeClaimed, NoGhostState
<1>0. p \in Procs /\ None \notin Procs
  BY ConstantsAssumption DEF Procs
<1>1. CASE HandleStartupError(p)
  <2>1. CASE \E j \in Jobs : beginAPDUBusyRecoverSchedule(p, j)
    <3> PICK j \in Jobs : beginAPDUBusyRecoverSchedule(p, j)
      BY <2>1, SMTT(30)
    <3>1. /\ j \in Procs /\ pc[p] = "startErr" /\ pc[j] = "idle"
          /\ p # j /\ pc'[p] = "failStart" /\ pc'[j] = "timer"
          /\ \A q \in Procs \ {p, j} : pc'[q] = pc[q]
      BY <1>1, <1>0 DEF HandleStartupError, beginAPDUBusyRecoverSchedule, Procs
    <3>2. \A q \in Procs : /\ loc'[q].op = loc[q].op /\ loc'[q].inst = loc[q].inst
                           /\ loc'[q].epoch = loc[q].epoch
                           /\ q # p => loc'[q].res = loc[q].res
      BY <3>1, <1>0 DEF beginAPDUBusyRecoverSchedule
    <3>3. UNCHANGED <<instance, starting, epoch, state, run, runMu, rt>>
      BY <1>1 DEF HandleStartupError
    <3>4. runMu = p
      BY <3>1, <1>0
    <3>5. Outside' /\ Serialised' /\ RunCancelIsRunning'
      BY <3>1, <3>2, <3>3, <3>4, <1>0, SMTT(30)
    <3>6. StartingIsFree' /\ StartingHasOwner'
      <4>1. pc'[p] \in StartLabels /\ loc'[p].epoch = loc[p].epoch
        BY <3>1, <3>2, <1>0
      <4> QED
        BY <4>1, <3>3, <3>4, <1>0, Zenon
    <3>7. CreatedOnce'
      <4>1. \A q \in Procs \ {p} : loc'[q].res = loc[q].res
        BY <3>2
      <4>2. rt[p].phase = "unused" /\ rt[j].phase = "unused"
        BY <3>1, <1>0
      <4> QED
        BY <4>1, <4>2, <3>1, <3>3
    <3>8. pc[p] \notin Unclaimed /\ pc'[p] \notin Unclaimed /\ pc'[j] \notin Unclaimed
          /\ pc'[p] # "staleWait" /\ pc'[j] # "staleWait"
      BY <3>1
    <3>9. LiveUntilClaimed'
      BY <3>1, <3>3, <3>8, <1>0
    <3>10. ClaimedIsPublic'
      BY <3>1, <3>3, <3>8, <1>0
    <3>11. NoOrphanRuntime'
      BY <3>1, <3>3, <3>8, <1>0
    <3>12. StoppedIsPublic'
      <4>1. ASSUME NEW q \in Procs, pc'[q] \in {"stop", "stopWait", "delete"}
            PROVE  pc'[q] = pc[q] /\ loc'[q].inst = loc[q].inst
        BY <4>1, <3>1, <3>2
      <4>2. ASSUME NEW i \in Procs, pc[i] \notin Unclaimed \cup {"staleWait"}
            PROVE  pc'[i] \notin Unclaimed \cup {"staleWait"}
        BY <4>2, <3>1
      <4> QED
        BY <4>1, <4>2, <3>3
    <3>13. NoStoppedRuntimeClaimed' /\ NoGhostState'
      BY <3>1, <3>2, <3>3, <1>0
    <3> QED
      BY <3>5, <3>6, <3>7, <3>9, <3>10, <3>11, <3>12, <3>13
  <2>2. CASE \/ \E label \in {"failStart", "busyForget"} : Finish(p, "failed", label)
             \/ Goto(p, "failStart") /\ UNCHANGED loc
    BY <1>1, <2>2, <1>0, SMTT(30) DEF HandleStartupError, Finish, Goto
  <2> QED
    BY <1>1, <2>1, <2>2 DEF HandleStartupError
<1>2. CASE BusyForget(p)
  BY <1>2, <1>0, ConstantsAssumption, SMTT(30) DEF BusyForget, forgetDesiredRecover, Cancel, NoRun, Goto
<1>3. CASE BusyJoin(p)
  BY <1>3, <1>0, ConstantsAssumption, SMTT(30) DEF BusyJoin, Goto
<1>4. CASE FailStart(p)
  BY <1>4, <1>0, ConstantsAssumption, SMTT(30) DEF FailStart, NoState, Goto
<1>5. CASE SettleDesired(p)
  BY <1>5, <1>0, ConstantsAssumption, SMTT(30) DEF SettleDesired, Goto
<1> QED
  BY <1>1, <1>2, <1>3, <1>4, <1>5

LEMMA InvSchedule ==
  ASSUME IInv, TypeOK', NEW p \in Jobs,
         \/ ScheduleTimer(p) \/ beginAPDUBusyRecoverAttempt(p)
         \/ SettleSchedule(p) \/ CloseSchedule(p)
         \/ releaseAPDUBusyRecoverSchedule(p)
  PROVE  IInv'
<1> USE DEF IInv, TypeOK, Loc, slotVars, lifeVars, recVars,
           CommandLabels, TeardownLabels, StartLabels, Unclaimed,
           Outside, Serialised, StartingIsFree, StartingHasOwner, RunCancelIsRunning, CreatedOnce,
           LiveUntilClaimed, ClaimedIsPublic, StoppedIsPublic, NoOrphanRuntime,
           NoStoppedRuntimeClaimed, NoGhostState
<1>0. p \in Procs /\ None \notin Procs
  BY ConstantsAssumption DEF Procs
<1>1. CASE ScheduleTimer(p)
  BY <1>1, <1>0, ConstantsAssumption, SMTT(30) DEF ScheduleTimer, Goto
<1>2. CASE beginAPDUBusyRecoverAttempt(p)
  BY <1>2, <1>0, ConstantsAssumption, SMTT(30) DEF beginAPDUBusyRecoverAttempt, Goto
<1>3. CASE SettleSchedule(p)
  BY <1>3, <1>0, ConstantsAssumption, SMTT(30) DEF SettleSchedule, deferAPDUBusyRecoverAttempt, Goto
<1>4. CASE CloseSchedule(p)
  BY <1>4, <1>0, ConstantsAssumption, SMTT(30) DEF CloseSchedule, Goto
<1>5. CASE releaseAPDUBusyRecoverSchedule(p)
  BY <1>5, <1>0, ConstantsAssumption, SMTT(30) DEF releaseAPDUBusyRecoverSchedule, Goto
<1> QED
  BY <1>1, <1>2, <1>3, <1>4, <1>5

LEMMA InvRuntime ==
  ASSUME IInv, TypeOK', NEW p \in Procs,
         \/ UpdateRuntimeState(p) \/ SnapshotObservers(p)
         \/ publishRuntimeState(p) \/ FinishStopCleanup(p)
  PROVE  IInv'
<1> USE DEF IInv, TypeOK, Loc, slotVars, lifeVars, recVars,
           CommandLabels, TeardownLabels, StartLabels, Unclaimed,
           Outside, Serialised, StartingIsFree, StartingHasOwner, RunCancelIsRunning, CreatedOnce,
           LiveUntilClaimed, ClaimedIsPublic, StoppedIsPublic, NoOrphanRuntime,
           NoStoppedRuntimeClaimed, NoGhostState
<1>0. p \in Procs /\ None \notin Procs
  BY ConstantsAssumption DEF Procs
<1>1. CASE UpdateRuntimeState(p)
  BY <1>1, <1>0, ConstantsAssumption, SMTT(30) DEF UpdateRuntimeState
<1>2. CASE SnapshotObservers(p)
  BY <1>2, <1>0, ConstantsAssumption, SMTT(30) DEF SnapshotObservers
<1>3. CASE publishRuntimeState(p)
  BY <1>3, <1>0, ConstantsAssumption, SMTT(30) DEF publishRuntimeState, Publishable
<1>4. CASE FinishStopCleanup(p)
  BY <1>4, <1>0, ConstantsAssumption, SMTT(30) DEF FinishStopCleanup
<1> QED
  BY <1>1, <1>2, <1>3, <1>4

LEMMA InvInvoke == ASSUME IInv, TypeOK', NEW p \in Calls, Invoke(p) PROVE IInv'
<1>0. p \in Procs /\ p \notin Jobs /\ None \notin Procs /\ loc \in [Procs -> Loc]
  BY ConstantsAssumption DEF Procs, IInv, TypeOK
<1>1. pc[p] = "idle" /\ \E label \in {"admit", "forget"} : Goto(p, label)
  BY DEF Invoke, beginDesiredRecover
<1>2. \A q \in Procs : loc'[q].epoch = loc[q].epoch /\ loc'[q].inst = loc[q].inst
  BY <1>0 DEF Invoke, beginDesiredRecover, Loc
<1>3. \A q \in Procs \ {p} : loc'[q] = loc[q]
  BY <1>0 DEF Invoke, beginDesiredRecover
<1>4. Goto(p, "admit") => loc'[p].op # "teardown"
  <2>1. ASSUME NEW k \in Kinds \ {"desired"}, loc' = [loc EXCEPT ![p].op = k],
               k \in {"enable", "recover", "switchEnd"}
        PROVE  loc'[p].op # "teardown"
    BY <1>0, <2>1 DEF Loc
  <2>2. beginDesiredRecover(p) => loc'[p].op # "teardown"
    BY <1>0 DEF beginDesiredRecover, Loc
  <2>3. p \in Procs /\ pc \in [Procs -> Labels]
    BY <1>0 DEF IInv, TypeOK
  <2> QED
    BY <2>1, <2>2, <2>3 DEF Invoke, Goto
<1>5. /\ instance' = instance /\ starting' = starting /\ epoch' = epoch /\ state' = state
      /\ run' = run /\ runMu' = runMu /\ rt' = rt
  BY DEF Invoke, slotVars, lifeVars
<1>6. /\ pc'[p] \in {"admit", "forget"}
      /\ pc'[p] = "admit" => loc'[p].op # "teardown"
      /\ \A q \in Procs \ {p} : pc'[q] = pc[q]
  BY <1>0, <1>1, <1>4 DEF Goto, IInv, TypeOK
<1> USE DEF CommandLabels, TeardownLabels, StartLabels, Unclaimed
<1>7. Outside' /\ Serialised'
  BY <1>0, <1>3, <1>5, <1>6 DEF IInv, Outside, Serialised
<1>8. StartingIsFree' /\ StartingHasOwner' /\ RunCancelIsRunning'
  <2>1. starting => runMu \in Procs \ {p}
    BY <1>0, <1>1 DEF IInv, TypeOK, StartingHasOwner
  <2>2. StartingIsFree' /\ RunCancelIsRunning'
    BY <1>5 DEF IInv, StartingIsFree, RunCancelIsRunning
  <2>3. StartingHasOwner'
    <3> SUFFICES ASSUME starting' PROVE StartingHasOwner'
      BY DEF StartingHasOwner
    <3>1. starting /\ runMu \in Procs \ {p} /\ runMu' = runMu /\ epoch' = epoch
      BY <2>1, <1>5
    <3>2. pc'[runMu] = pc[runMu] /\ loc'[runMu].epoch = loc[runMu].epoch
      BY <3>1, <1>2, <1>6
    <3> QED
      BY <3>1, <3>2 DEF IInv, StartingHasOwner
  <2> QED
    BY <2>2, <2>3
<1>9. CreatedOnce' /\ LiveUntilClaimed' /\ ClaimedIsPublic'
  <2>1. CreatedOnce' /\ LiveUntilClaimed'
    BY <1>1, <1>3, <1>5, <1>6 DEF IInv, CreatedOnce, LiveUntilClaimed
  <2>2. ClaimedIsPublic'
    BY <1>1, <1>5, <1>6 DEF IInv, ClaimedIsPublic
  <2> QED
    BY <2>1, <2>2
<1>10. StoppedIsPublic' /\ NoStoppedRuntimeClaimed'
  <2>1. \A q \in Procs : pc[q] \in {"stop", "stopWait", "delete"} \/ pc'[q] \in {"stop", "stopWait", "delete"} =>
                            q # p /\ pc'[q] = pc[q] /\ loc'[q].inst = loc[q].inst
    BY <1>1, <1>2, <1>6
  <2>2. StoppedIsPublic'
    BY <2>1, <1>5, <1>6 DEF IInv, StoppedIsPublic
  <2>3. NoStoppedRuntimeClaimed'
    BY <2>1, <1>5 DEF IInv, NoStoppedRuntimeClaimed
  <2> QED
    BY <2>2, <2>3
<1>11. NoOrphanRuntime' /\ NoGhostState'
  BY <1>0, <1>1, <1>5, <1>6 DEF IInv, NoOrphanRuntime, NoGhostState
<1> QED
  BY <1>7, <1>8, <1>9, <1>10, <1>11 DEF IInv

LEMMA InvStep == IInv /\ [Next]_vars => IInv'
<1> SUFFICES ASSUME IInv, [Next]_vars PROVE IInv'
  OBVIOUS
<1>1. TypeOK'
  BY TypeStep DEF IInv
<1>2. ASSUME NEW p \in Procs, CommandStep(p) PROVE IInv'
  BY <1>1, <1>2, InvAdmission, InvTeardown, InvStartup, InvFailure DEF CommandStep
<1>3. ASSUME NEW p \in Procs, RuntimeStep(p) PROVE IInv'
  BY <1>1, <1>3, InvRuntime DEF RuntimeStep
<1>4. ASSUME NEW j \in Jobs, ScheduleStep(j) PROVE IInv'
  BY <1>1, <1>4, InvSchedule DEF ScheduleStep
<1>5. CASE BackoffElapses \/ UNCHANGED vars
  <2>1. UNCHANGED <<instance, starting, epoch, state, run, runMu, pc, loc, rt>>
    BY <1>5 DEF BackoffElapses, vars, slotVars, lifeVars
  <2> QED
    BY <1>1, <2>1 DEF IInv, CommandLabels, TeardownLabels, StartLabels, Unclaimed,
       Outside, Serialised, StartingIsFree, StartingHasOwner, RunCancelIsRunning, CreatedOnce,
       LiveUntilClaimed, ClaimedIsPublic, StoppedIsPublic, NoOrphanRuntime,
       NoStoppedRuntimeClaimed, NoGhostState
<1> QED
  BY <1>1, <1>2, <1>3, <1>4, <1>5, InvInvoke DEF Next, Quiet

THEOREM Invariant == Spec => []IInv
  BY InvInit, InvStep, PTL DEF Spec

\* The starting flag is never leaked: it belongs to the command that holds
\* runMu, at the current epoch.
THEOREM StartingOwned == Spec => []StartingHasOwner
<1>1. IInv => StartingHasOwner
  BY DEF IInv
<1> QED
  BY <1>1, Invariant, PTL

\* The cancel handle preemption calls is the one of the running command.
THEOREM RunCancelRunning == Spec => []RunCancelIsRunning
<1>1. IInv => RunCancelIsRunning
  BY DEF IInv
<1> QED
  BY <1>1, Invariant, PTL

\* No interleaving of calls, schedules and teardowns leaks a running runtime.
THEOREM NoOrphan == Spec => []NoOrphanRuntime
<1>1. IInv => NoOrphanRuntime
  BY DEF IInv
<1> QED
  BY <1>1, Invariant, PTL

\* A stopped runtime stays claimed only while the call stopping it deletes it.
THEOREM NoStoppedClaimed == Spec => []NoStoppedRuntimeClaimed
<1>1. IInv => NoStoppedRuntimeClaimed
  BY DEF IInv
<1> QED
  BY <1>1, Invariant, PTL

\* Neither a dropped runtime nor an ended attempt stays published.
THEOREM NoGhost == Spec => []NoGhostState
<1>1. IInv => NoGhostState
  BY DEF IInv
<1> QED
  BY <1>1, Invariant, PTL

-----------------------------------------------------------------------------
(* A claimed runtime leaves the slot stopped, and leaves it empty *)

Leaves == instance # None /\ instance' # instance =>
             instance' = None /\ rt[instance].phase # "live"

LEMMA LeavesStep == IInv /\ [Next]_vars => Leaves
<1> SUFFICES ASSUME IInv, [Next]_vars, instance # None, instance' # instance
             PROVE  instance' = None /\ rt[instance].phase # "live"
  BY DEF Leaves
<1>1. (\E p \in Procs : DeleteInstance(p)) \/ (\E p \in Procs : ClaimStarted(p))
  <2>1. PICK p \in Procs : CommandStep(p)
    BY DEF Next, RuntimeStep, ScheduleStep, Invoke, Quiet, vars, slotVars, BackoffElapses,
       ScheduleTimer, beginAPDUBusyRecoverAttempt, SettleSchedule, CloseSchedule,
       releaseAPDUBusyRecoverSchedule, UpdateRuntimeState, SnapshotObservers,
       publishRuntimeState, FinishStopCleanup
  <2>2. ~(Forget(p) \/ Join(p) \/ Invalidate(p) \/ Admit(p) \/ Submit(p) \/ Check(p)
            \/ bindLifecycleRun(p) \/ Unlock(p))
    BY DEF slotVars, Forget, forgetDesiredRecover, Join, Invalidate, Admit, Submit, Check,
       bindLifecycleRun, Unlock
  <2>3. ~(CheckRecoverable(p) \/ FindInstance(p) \/ Stop(p) \/ StopWait(p) \/ RestoreSMSMode(p)
            \/ BeginStart(p) \/ PrepareAndStart(p) \/ BeforeStart(p))
    BY DEF slotVars, CheckRecoverable, FindInstance, Stop, StopWait, RestoreSMSMode, BeginStart,
       PrepareAndStart, BeforeStart
  <2>4. ~(CreateInstance(p) \/ AddObserver(p) \/ StaleStop(p) \/ StaleWait(p) \/ MarkRuntimeStarted(p)
            \/ HandleStartupError(p) \/ BusyForget(p) \/ BusyJoin(p) \/ FailStart(p) \/ SettleDesired(p))
    BY DEF slotVars, CreateInstance, AddObserver, StaleStop, StaleWait, MarkRuntimeStarted,
       HandleStartupError, BusyForget, forgetDesiredRecover, BusyJoin, FailStart, SettleDesired
  <2> QED
    BY <2>1, <2>2, <2>3, <2>4 DEF CommandStep
<1>2. CASE \E p \in Procs : DeleteInstance(p)
  <2> PICK p \in Procs : DeleteInstance(p)
    BY <1>2
  <2> QED
    BY DEF DeleteInstance, IInv, StoppedIsPublic
<1>3. CASE \E p \in Procs : ClaimStarted(p)
  BY <1>3 DEF ClaimStarted, Claimable
<1> QED
  BY <1>1, <1>2, <1>3

\* Replacement goes through a stopped runtime and an empty slot.
THEOREM Replacement == Spec => ReplacedOnlyWhenStopped
<1>1. IInv /\ [Next]_vars => [instance # None /\ instance' # instance =>
         instance' = None /\ rt[instance].phase # "live"]_vars
  BY LeavesStep DEF Leaves
<1> QED
  BY <1>1, Invariant, PTL DEF Spec, ReplacedOnlyWhenStopped

-----------------------------------------------------------------------------
(* The SMS mode follows the runtime, as long as every teardown holds runMu *)

StopLabels == {"stop", "stopWait", "delete"}

IdleIsNew == \A p \in Procs : pc[p] = "idle" => loc[p].op = "none"

\* A start that has claimed its runtime keeps it until it set the mode.
MarkIsClaimed == \A p \in Procs : pc[p] = "mark" => instance = p

\* A teardown stops the claimed runtime, and restores the mode without one.
TeardownKnows ==
    \A p \in Procs : /\ pc[p] \in StopLabels => instance = loc[p].inst
                     /\ pc[p] = "restore" => instance = None

\* A mode that is not the due one is about to be set.
ModeIsDue ==
    /\ instance = None /\ smsMode = "vowifi" => \E p \in Procs : pc[p] = "restore"
    /\ instance # None /\ smsMode = "native" => pc[instance] = "mark"

SmsInv == IdleIsNew /\ (NoReconnect => MarkIsClaimed /\ TeardownKnows /\ ModeIsDue)

\* A step of p that is neither a claim, a deletion nor a change of the mode.
Bystands(p) ==
    /\ UNCHANGED <<instance, smsMode>>
    /\ \A q \in Procs \ {p} :
         /\ pc'[q] # pc[q] => pc[q] = "idle" /\ pc'[q] = "timer"
         /\ loc'[q].inst = loc[q].inst
    /\ \A q \in Procs : loc'[q].op = loc[q].op
    /\ pc[p] \notin {"idle", "mark", "restore"} /\ pc'[p] \notin {"idle", "mark"}
    /\ pc'[p] \in StopLabels =>
         instance = loc'[p].inst \/ (pc[p] \in StopLabels /\ loc'[p].inst = loc[p].inst)
    /\ pc'[p] = "restore" => instance = None

LEMMA BystandsKeepsSms ==
  ASSUME TypeOK, SmsInv, NEW p \in Procs, Bystands(p)
  PROVE  SmsInv'
<1>1. IdleIsNew'
  BY DEF SmsInv, IdleIsNew, Bystands
<1>2. ASSUME NoReconnect' PROVE MarkIsClaimed' /\ TeardownKnows' /\ ModeIsDue'
  <2>1. NoReconnect
    BY <1>2 DEF NoReconnect, Bystands, Procs
  <2>2. MarkIsClaimed /\ TeardownKnows /\ ModeIsDue
    BY <2>1 DEF SmsInv
  <2>3. MarkIsClaimed'
    BY <2>2 DEF MarkIsClaimed, Bystands
  <2>4. TeardownKnows'
    BY <2>2 DEF TeardownKnows, Bystands, StopLabels
  <2>5. ModeIsDue'
    <3>1. \A q \in Procs : pc[q] \in {"mark", "restore"} => pc'[q] = pc[q]
      BY DEF Bystands
    <3>2. instance \in Procs \cup {None} /\ UNCHANGED <<instance, smsMode>>
      BY DEF TypeOK, Bystands
    <3> QED
      BY <2>2, <3>1, <3>2 DEF ModeIsDue
  <2> QED
    BY <2>3, <2>4, <2>5
<1> QED
  BY <1>1, <1>2 DEF SmsInv

LEMMA ForgetBystands ==
  ASSUME TypeOK, NEW p \in Procs, NEW join \in Labels \ (StopLabels \cup {"idle", "mark", "restore"}),
         NEW next \in Labels \ (StopLabels \cup {"idle", "mark", "restore"}),
         forgetDesiredRecover(p, join, next), pc[p] \in {"forget", "busyForget"}
  PROVE  Bystands(p)
<1>1. UNCHANGED <<instance, smsMode>>
  BY DEF forgetDesiredRecover, slotVars
<1>2. \E label \in {join, next} : Goto(p, label)
  BY DEF forgetDesiredRecover
<1>3. pc'[p] \in {join, next} /\ \A q \in Procs \ {p} : pc'[q] = pc[q]
  BY <1>2 DEF Goto, TypeOK
<1>4. \A q \in Procs : loc'[q].op = loc[q].op /\ loc'[q].inst = loc[q].inst
  BY DEF forgetDesiredRecover, TypeOK, Loc
<1> QED
  BY <1>1, <1>3, <1>4 DEF Bystands, StopLabels

LEMMA AdmissionBystands ==
  ASSUME TypeOK, NEW p \in Procs,
         \/ Forget(p) \/ Join(p) \/ Invalidate(p) \/ Admit(p) \/ Submit(p)
         \/ Check(p) \/ bindLifecycleRun(p) \/ Unlock(p)
  PROVE  Bystands(p)
<1> USE DEF TypeOK, Goto, Finish, slotVars, StopLabels
<1>1. CASE Forget(p)
  <2>1. {"join", AfterForget(p)} \subseteq Labels \ (StopLabels \cup {"idle", "mark", "restore"})
    BY DEF AfterForget, Labels
  <2> QED
    BY <1>1, <2>1, ForgetBystands DEF Forget
<1>2. CASE Join(p)
  BY <1>2 DEF Join, Bystands, AfterForget
<1>3. CASE Invalidate(p)
  BY <1>3 DEF Invalidate, Bystands
<1>4. CASE Admit(p)
  BY <1>4 DEF Admit, Bystands, Loc
<1>5. CASE Submit(p)
  BY <1>5 DEF Submit, Bystands
<1>6. CASE Check(p)
  BY <1>6 DEF Check, Bystands, Loc
<1>7. CASE bindLifecycleRun(p)
  BY <1>7 DEF bindLifecycleRun, FirstStep, Bystands, Loc
<1>8. CASE Unlock(p)
  BY <1>8 DEF Unlock, Bystands
<1> QED
  BY <1>1, <1>2, <1>3, <1>4, <1>5, <1>6, <1>7, <1>8

LEMMA TeardownBystands ==
  ASSUME TypeOK, NEW p \in Procs,
         CheckRecoverable(p) \/ FindInstance(p) \/ Stop(p) \/ StopWait(p)
  PROVE  Bystands(p)
<1> USE DEF TypeOK, Goto, Finish, slotVars, StopLabels, Bystands
<1>1. CASE CheckRecoverable(p)
  BY <1>1 DEF CheckRecoverable, Loc
<1>2. CASE FindInstance(p)
  <2>1. CASE instance # None
    BY <1>2, <2>1 DEF FindInstance, Loc
  <2>2. CASE instance = None
    BY <1>2, <2>2 DEF FindInstance, AfterTeardown
  <2> QED
    BY <2>1, <2>2
<1>3. CASE Stop(p)
  BY <1>3 DEF Stop
<1>4. CASE StopWait(p)
  BY <1>4 DEF StopWait
<1> QED
  BY <1>1, <1>2, <1>3, <1>4

LEMMA StartupBystands ==
  ASSUME TypeOK, NEW p \in Procs,
         \/ BeginStart(p) \/ PrepareAndStart(p) \/ BeforeStart(p) \/ CreateInstance(p)
         \/ AddObserver(p) \/ (ClaimStarted(p) /\ ~Claimable(p)) \/ StaleStop(p) \/ StaleWait(p)
  PROVE  Bystands(p)
<1> USE DEF TypeOK, Goto, Finish, slotVars, StopLabels, Bystands
<1>1. CASE BeginStart(p)
  BY <1>1 DEF BeginStart, Loc
<1>2. CASE PrepareAndStart(p)
  BY <1>2 DEF PrepareAndStart, Loc
<1>3. CASE BeforeStart(p)
  BY <1>3 DEF BeforeStart
<1>4. CASE CreateInstance(p)
  <2>1. CASE Goto(p, "observe") /\ UNCHANGED loc
    BY <1>4, <2>1 DEF CreateInstance
  <2>2. ASSUME NEW r \in StartErrors, Finish(p, r, "startErr") PROVE Bystands(p)
    BY <1>4, <2>2 DEF CreateInstance, Loc
  <2> QED
    BY <1>4, <2>1, <2>2 DEF CreateInstance
<1>5. CASE AddObserver(p)
  BY <1>5 DEF AddObserver
<1>6. CASE ClaimStarted(p) /\ ~Claimable(p)
  BY <1>6 DEF ClaimStarted
<1>7. CASE StaleStop(p)
  BY <1>7 DEF StaleStop, Loc
<1>8. CASE StaleWait(p)
  BY <1>8 DEF StaleWait, Loc
<1> QED
  BY <1>1, <1>2, <1>3, <1>4, <1>5, <1>6, <1>7, <1>8

LEMMA FailureBystands ==
  ASSUME TypeOK, NEW p \in Procs,
         HandleStartupError(p) \/ BusyForget(p) \/ BusyJoin(p) \/ FailStart(p) \/ SettleDesired(p)
  PROVE  Bystands(p)
<1> USE DEF TypeOK, Goto, slotVars, StopLabels
<1>1. CASE HandleStartupError(p)
  <2>1. UNCHANGED <<instance, smsMode>> /\ pc[p] = "startErr"
    BY <1>1 DEF HandleStartupError
  <2>2. CASE \E j \in Jobs : beginAPDUBusyRecoverSchedule(p, j)
    <3>1. PICK j \in Jobs : beginAPDUBusyRecoverSchedule(p, j)
      BY <2>2
    <3>2. j \in Procs /\ j # p /\ pc[j] = "idle"
      BY <2>1, <3>1 DEF Procs, beginAPDUBusyRecoverSchedule
    <3>3. /\ pc'[p] = "failStart" /\ pc'[j] = "timer"
          /\ \A q \in Procs \ {p, j} : pc'[q] = pc[q]
      BY <3>1, <3>2 DEF beginAPDUBusyRecoverSchedule
    <3>4. \A q \in Procs : loc'[q].op = loc[q].op /\ loc'[q].inst = loc[q].inst
      BY <3>1, <3>2 DEF beginAPDUBusyRecoverSchedule, Loc
    <3> QED
      BY <2>1, <3>2, <3>3, <3>4 DEF Bystands
  <2>3. CASE Goto(p, "failStart") /\ UNCHANGED loc
    BY <2>1, <2>3 DEF Bystands
  <2>4. CASE Finish(p, "failed", "failStart") \/ Finish(p, "failed", "busyForget")
    BY <2>1, <2>4 DEF Bystands, Finish, Loc
  <2> QED
    BY <1>1, <2>2, <2>3, <2>4 DEF HandleStartupError
<1>2. CASE BusyForget(p)
  <2>1. {"busyJoin", "failStart"} \subseteq Labels \ (StopLabels \cup {"idle", "mark", "restore"})
    BY DEF Labels
  <2> QED
    BY <1>2, <2>1, ForgetBystands DEF BusyForget
<1>3. CASE BusyJoin(p)
  BY <1>3 DEF BusyJoin, Bystands
<1>4. CASE FailStart(p)
  BY <1>4 DEF FailStart, Bystands
<1>5. CASE SettleDesired(p)
  BY <1>5 DEF SettleDesired, Bystands
<1> QED
  BY <1>1, <1>2, <1>3, <1>4, <1>5

LEMMA ScheduleBystands ==
  ASSUME TypeOK, NEW j \in Jobs, ScheduleStep(j)
  PROVE  Bystands(j)
<1> USE DEF TypeOK, Goto, slotVars, StopLabels, Bystands
<1>0. j \in Procs
  BY DEF Procs
<1>1. CASE ScheduleTimer(j)
  BY <1>0, <1>1 DEF ScheduleTimer
<1>2. CASE beginAPDUBusyRecoverAttempt(j)
  BY <1>0, <1>2 DEF beginAPDUBusyRecoverAttempt
<1>3. CASE SettleSchedule(j)
  <2>1. UNCHANGED <<instance, smsMode>> /\ pc[j] = "settle"
    BY <1>3 DEF SettleSchedule
  <2>2. Goto(j, "close") \/ Goto(j, "timer")
    BY <1>3 DEF SettleSchedule, deferAPDUBusyRecoverAttempt
  <2>3. \A q \in Procs : loc'[q].op = loc[q].op /\ loc'[q].inst = loc[q].inst
    <3>1. \/ loc' = loc \/ loc' = [loc EXCEPT ![j].opp = @ + 1]
          \/ loc' = [loc EXCEPT ![j].completed = OwnsRecovery(j)]
      BY <1>3 DEF SettleSchedule, deferAPDUBusyRecoverAttempt
    <3> QED
      BY <1>0, <3>1 DEF Loc
  <2> QED
    BY <1>0, <2>1, <2>2, <2>3
<1>4. CASE CloseSchedule(j)
  BY <1>0, <1>4 DEF CloseSchedule
<1>5. CASE releaseAPDUBusyRecoverSchedule(j)
  BY <1>0, <1>5 DEF releaseAPDUBusyRecoverSchedule
<1> QED
  BY <1>1, <1>2, <1>3, <1>4, <1>5 DEF ScheduleStep

\* Without a TeardownForReconnect, whoever is in a command or a teardown holds runMu.
LEMMA OneInside ==
  ASSUME IInv, NoReconnect, NEW p \in Procs, NEW q \in Procs,
         pc[p] \in {"claim", "mark", "restore"} \cup StopLabels,
         pc[q] \in {"claim", "mark", "restore"} \cup StopLabels
  PROVE  p = q
<1>1. loc[p].op # "teardown" /\ loc[q].op # "teardown"
  BY DEF IInv, Outside, NoReconnect, Procs
<1> QED
  BY <1>1 DEF IInv, Serialised, CommandLabels, TeardownLabels, StopLabels

LEMMA ClaimKeepsSms ==
  ASSUME IInv, SmsInv, NEW p \in Procs, ClaimStarted(p), Claimable(p)
  PROVE  SmsInv'
<1>1. /\ instance = None /\ instance' = p /\ pc[p] = "claim" /\ pc'[p] = "mark"
      /\ \A q \in Procs \ {p} : pc'[q] = pc[q]
      /\ UNCHANGED <<loc, smsMode>> /\ p # None
  BY ConstantsAssumption DEF ClaimStarted, Claimable, Goto, IInv, TypeOK
<1>2. IdleIsNew'
  BY <1>1 DEF SmsInv, IdleIsNew
<1>3. ASSUME NoReconnect' PROVE MarkIsClaimed' /\ TeardownKnows' /\ ModeIsDue'
  <2>1. NoReconnect
    BY <1>1, <1>3 DEF NoReconnect
  <2>2. \A q \in Procs \ {p} : pc'[q] \notin {"mark", "restore"} \cup StopLabels
    BY <1>1, <2>1, OneInside
  <2> QED
    BY <1>1, <2>2 DEF MarkIsClaimed, TeardownKnows, ModeIsDue, StopLabels
<1> QED
  BY <1>2, <1>3 DEF SmsInv

LEMMA MarkKeepsSms ==
  ASSUME IInv, SmsInv, NEW p \in Procs, MarkRuntimeStarted(p)
  PROVE  SmsInv'
<1>1. /\ smsMode' = "vowifi" /\ instance' = instance /\ pc[p] = "mark" /\ pc'[p] = "unlock"
      /\ \A q \in Procs \ {p} : pc'[q] = pc[q]
      /\ \A q \in Procs : loc'[q].op = loc[q].op /\ loc'[q].inst = loc[q].inst
  BY DEF MarkRuntimeStarted, Finish, Goto, IInv, TypeOK, Loc, slotVars
<1>2. IdleIsNew'
  BY <1>1 DEF SmsInv, IdleIsNew
<1>3. ASSUME NoReconnect' PROVE MarkIsClaimed' /\ TeardownKnows' /\ ModeIsDue'
  <2>1. MarkIsClaimed /\ TeardownKnows
    BY <1>1, <1>3 DEF NoReconnect, Procs, SmsInv
  <2>2. instance = p /\ p # None
    BY <1>1, <2>1, ConstantsAssumption DEF MarkIsClaimed
  <2> QED
    BY <1>1, <2>1, <2>2 DEF MarkIsClaimed, TeardownKnows, ModeIsDue, StopLabels
<1> QED
  BY <1>2, <1>3 DEF SmsInv

LEMMA DeleteKeepsSms ==
  ASSUME IInv, SmsInv, NEW p \in Procs, DeleteInstance(p)
  PROVE  SmsInv'
<1>1. /\ pc[p] = "delete" /\ pc'[p] = "restore"
      /\ \A q \in Procs \ {p} : pc'[q] = pc[q]
      /\ UNCHANGED <<loc, smsMode>>
      /\ instance = loc[p].inst => instance' = None
  BY DEF DeleteInstance, Goto, IInv, TypeOK
<1>2. IdleIsNew'
  BY <1>1 DEF SmsInv, IdleIsNew
<1>3. ASSUME NoReconnect' PROVE MarkIsClaimed' /\ TeardownKnows' /\ ModeIsDue'
  <2>1. NoReconnect
    BY <1>1, <1>3 DEF NoReconnect
  <2>2. \A q \in Procs \ {p} : pc'[q] \notin {"mark", "restore"} \cup StopLabels
    BY <1>1, <2>1, OneInside DEF StopLabels
  <2>3. instance' = None
    BY <1>1, <2>1 DEF SmsInv, TeardownKnows, StopLabels
  <2> QED
    BY <1>1, <2>2, <2>3 DEF MarkIsClaimed, TeardownKnows, ModeIsDue, StopLabels
<1> QED
  BY <1>2, <1>3 DEF SmsInv

LEMMA RestoreKeepsSms ==
  ASSUME IInv, SmsInv, NEW p \in Procs, RestoreSMSMode(p)
  PROVE  SmsInv'
<1>1. /\ pc[p] = "restore" /\ pc'[p] \in {"begin", "done", "unlock"}
      /\ \A q \in Procs \ {p} : pc'[q] = pc[q]
      /\ UNCHANGED <<instance, loc>> /\ smsMode' = "native"
  BY DEF RestoreSMSMode, AfterTeardown, Goto, IInv, TypeOK, slotVars
<1>2. IdleIsNew'
  BY <1>1 DEF SmsInv, IdleIsNew
<1>3. ASSUME NoReconnect' PROVE MarkIsClaimed' /\ TeardownKnows' /\ ModeIsDue'
  <2>1. MarkIsClaimed /\ TeardownKnows /\ instance = None
    BY <1>1, <1>3 DEF NoReconnect, SmsInv, TeardownKnows
  <2> QED
    BY <1>1, <2>1 DEF MarkIsClaimed, TeardownKnows, ModeIsDue, StopLabels
<1> QED
  BY <1>2, <1>3 DEF SmsInv

LEMMA InvokeKeepsSms ==
  ASSUME IInv, SmsInv, NEW c \in Calls, Invoke(c)
  PROVE  SmsInv'
<1>1. /\ c \in Procs /\ pc[c] = "idle" /\ UNCHANGED <<instance, smsMode>>
      /\ \E label \in {"admit", "forget"} : Goto(c, label)
  BY DEF Procs, Invoke, beginDesiredRecover, slotVars
<1>2. pc'[c] \in {"admit", "forget"} /\ \A q \in Procs \ {c} : pc'[q] = pc[q]
  BY <1>1 DEF Goto, IInv, TypeOK
<1>3. \A q \in Procs \ {c} : loc'[q] = loc[q]
  BY <1>1 DEF Invoke, beginDesiredRecover, IInv, TypeOK
<1>4. IdleIsNew'
  BY <1>2, <1>3 DEF SmsInv, IdleIsNew
<1>5. ASSUME NoReconnect' PROVE MarkIsClaimed' /\ TeardownKnows' /\ ModeIsDue'
  <2>1. NoReconnect
    <3>1. loc[c].op = "none"
      BY <1>1 DEF SmsInv, IdleIsNew
    <3> QED
      BY <1>3, <1>5, <3>1 DEF NoReconnect, Procs
  <2>2. MarkIsClaimed /\ TeardownKnows /\ ModeIsDue
    BY <2>1 DEF SmsInv
  <2>3. MarkIsClaimed' /\ TeardownKnows'
    BY <1>1, <1>2, <1>3, <2>2 DEF MarkIsClaimed, TeardownKnows, StopLabels
  <2>4. ModeIsDue'
    <3>1. \A q \in Procs : pc[q] \in {"mark", "restore"} => pc'[q] = pc[q]
      BY <1>1, <1>2
    <3>2. instance \in Procs \cup {None}
      BY DEF IInv, TypeOK
    <3> QED
      BY <1>1, <2>2, <3>1, <3>2 DEF ModeIsDue
  <2> QED
    BY <2>3, <2>4
<1> QED
  BY <1>4, <1>5 DEF SmsInv

LEMMA SmsStep == IInv /\ SmsInv /\ [Next]_vars => SmsInv'
<1> SUFFICES ASSUME IInv, SmsInv, [Next]_vars PROVE SmsInv'
  OBVIOUS
<1>0. TypeOK
  BY DEF IInv
<1>1. ASSUME NEW p \in Procs, CommandStep(p) PROVE SmsInv'
  <2>1. CASE Bystands(p)
    BY <1>0, <2>1, BystandsKeepsSms
  <2>2. CASE ClaimStarted(p) /\ Claimable(p)
    BY <2>2, ClaimKeepsSms
  <2>3. CASE MarkRuntimeStarted(p) \/ DeleteInstance(p) \/ RestoreSMSMode(p)
    BY <2>3, MarkKeepsSms, DeleteKeepsSms, RestoreKeepsSms
  <2> QED
    BY <1>0, <1>1, <2>1, <2>2, <2>3, AdmissionBystands, TeardownBystands, StartupBystands,
       FailureBystands DEF CommandStep
<1>2. ASSUME NEW j \in Jobs, ScheduleStep(j) PROVE SmsInv'
  <2>1. j \in Procs
    BY DEF Procs
  <2> QED
    BY <1>0, <1>2, <2>1, ScheduleBystands, BystandsKeepsSms
<1>3. CASE BackoffElapses \/ UNCHANGED vars \/ \E p \in Procs : RuntimeStep(p)
  <2>1. UNCHANGED <<instance, smsMode, pc, loc>>
    BY <1>3 DEF BackoffElapses, vars, slotVars, RuntimeStep, UpdateRuntimeState, SnapshotObservers,
       publishRuntimeState, FinishStopCleanup
  <2> QED
    BY <2>1 DEF SmsInv, IdleIsNew, NoReconnect, MarkIsClaimed, TeardownKnows, ModeIsDue
<1> QED
  BY <1>1, <1>2, <1>3, InvokeKeepsSms DEF Next, Quiet

\* At rest the SMS mode is the one the slot asks for, for any calls, schedules and
\* interleavings without a TeardownForReconnect.
THEOREM SmsFollows == Spec => []SMSModeFollowsRuntime
<1>1. Init => SmsInv
  BY ConstantsAssumption DEF Init, NewLoc, SmsInv, IdleIsNew, MarkIsClaimed, TeardownKnows, ModeIsDue, StopLabels
<1>2. IInv /\ SmsInv => SMSModeFollowsRuntime
  BY DEF IInv, TypeOK, SmsInv, SMSModeFollowsRuntime, AtRest, ModeIsDue
<1> QED
  BY <1>1, <1>2, SmsStep, Invariant, PTL DEF Spec
=============================================================================
