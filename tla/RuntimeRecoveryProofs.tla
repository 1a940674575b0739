----------------------- MODULE RuntimeRecoveryProofs -----------------------
(***************************************************************************)
(* Theorems about the desired recovery of RuntimeAttempt, for every set of *)
(* calls and schedules: the recovery flight of the slot has one carrier,   *)
(* and one schedule at most can act.                                       *)
(*                                                                         *)
(* A recovery or a schedule is given the generation of the slot when it    *)
(* begins, its ticket: loc[p].rgen.  The generation only grows, so a       *)
(* ticket that is still the slot's generation belongs to the last one      *)
(* begun, and a forgotten or superseded one never matches again.           *)
(***************************************************************************)
EXTENDS RuntimeAttemptProofs

-----------------------------------------------------------------------------
(* The inductive invariant *)

\* Where a recovery that was admitted is until it settles.
FlightLabels == {"admit", "submit", "check", "bind", "recoverable", "find", "stop",
                 "stopWait", "delete", "restore", "begin", "prepare", "before", "create",
                 "observe", "claim", "staleStop", "staleWait", "mark", "startErr",
                 "busyForget", "busyJoin", "failStart", "unlock", "settle"}

\* A ticket is a generation the slot has had; every schedule that was spawned
\* has one, and of the calls only a desired recovery.
TicketsAreIssued ==
    \A p \in Procs : /\ loc[p].rgen <= recover.gen
                     /\ pc[p] = "idle" => loc[p].rgen = 0
                     /\ loc[p].rgen # 0 => p \in Jobs \/ loc[p].op = "desired"
                     /\ p \in Jobs /\ pc[p] # "idle" => loc[p].rgen # 0

TicketsAreDistinct ==
    \A p, q \in Procs : loc[p].rgen # 0 /\ loc[p].rgen = loc[q].rgen => p = q

CancelledIsStale ==
    \A j \in Jobs : schedDone[j] => loc[j].rgen # 0 /\ loc[j].rgen < recover.gen

CurrentIsInstalled ==
    \A j \in Jobs : loc[j].rgen # 0 /\ loc[j].rgen = recover.gen /\ pc[j] # "done"
                        => recover.job = j

FlightIsCarried ==
    recover.inFlight =>
        /\ recover.present /\ recover.gen # 0
        /\ \E p \in Procs : loc[p].rgen = recover.gen /\ pc[p] \in FlightLabels

\* A slot that never recovered has no schedule (DeleteInstance resets it whole).
UnusedHasNoSchedule == recover.gen = 0 => recover.job = None

RInv ==
    /\ TicketsAreIssued /\ TicketsAreDistinct /\ CancelledIsStale /\ CurrentIsInstalled
    /\ FlightIsCarried /\ UnusedHasNoSchedule /\ OneLiveSchedule

LEMMA RInvInit == Init => RInv
<1> SUFFICES ASSUME Init PROVE RInv
  OBVIOUS
<1>1. /\ \A p \in Procs : pc[p] = "idle" /\ loc[p].rgen = 0
      /\ \A j \in Jobs : j \in Procs /\ ~schedDone[j]
      /\ recover.gen = 0 /\ recover.job = None /\ ~recover.inFlight
  BY DEF Init, NewLoc, NoRecover, Procs
<1> QED
  BY <1>1 DEF RInv, TicketsAreIssued, TicketsAreDistinct, CancelledIsStale,
     CurrentIsInstalled, FlightIsCarried, UnusedHasNoSchedule, OneLiveSchedule

-----------------------------------------------------------------------------
(* The shapes of a step, as the recovery sees it *)

\* Only p moves, it neither starts nor ends a schedule, and no ticket changes.
Moves(p) ==
    /\ \A q \in Procs \ {p} : pc'[q] = pc[q]
    /\ pc'[p] = "idle" <=> pc[p] = "idle"
    /\ p \in Jobs => (pc'[p] = "done" <=> pc[p] = "done")
    /\ \A q \in Procs : loc'[q].rgen = loc[q].rgen /\ loc'[q].op = loc[q].op

\* The generation stays, and a carrier carries its flight on or ends it.
Continues(p) ==
    /\ Moves(p)
    /\ UNCHANGED schedDone
    /\ recover'.gen = recover.gen /\ recover'.job = recover.job
    /\ recover'.inFlight => recover.inFlight /\ recover'.present
    /\ /\ pc[p] \in FlightLabels /\ recover'.inFlight
       /\ loc[p].rgen # 0 /\ loc[p].rgen = recover.gen
       => pc'[p] \in FlightLabels

\* The generation grows and the schedule of the slot is cancelled.
Supersedes(p) ==
    /\ Moves(p)
    /\ recover'.gen = recover.gen + 1 /\ ~recover'.inFlight
    /\ recover'.job \in {None, recover.job}
    /\ CancelSchedule(recover.job)

LEMMA ContinuesKeepsRInv ==
  ASSUME TypeOK, TypeOK', RInv, NEW p \in Procs, Continues(p)
  PROVE  RInv'
<1> USE DEF RInv, Continues, Moves
<1>0. \A j \in Jobs : /\ j \in Procs
                      /\ pc'[j] = "idle" <=> pc[j] = "idle"
                      /\ pc'[j] = "done" <=> pc[j] = "done"
  BY DEF Procs
<1>1. TicketsAreIssued'
  BY DEF TicketsAreIssued
<1>2. TicketsAreDistinct' /\ CancelledIsStale' /\ UnusedHasNoSchedule'
  BY <1>0 DEF TicketsAreDistinct, CancelledIsStale, UnusedHasNoSchedule
<1>3. CurrentIsInstalled'
  BY <1>0 DEF CurrentIsInstalled
<1>4. FlightIsCarried'
  <2> SUFFICES ASSUME recover'.inFlight PROVE FlightIsCarried'
    BY DEF FlightIsCarried
  <2>1. recover.gen # 0
    BY DEF FlightIsCarried
  <2>2. PICK q \in Procs : loc[q].rgen = recover.gen /\ pc[q] \in FlightLabels
    BY DEF FlightIsCarried
  <2>3. pc'[q] \in FlightLabels /\ loc'[q].rgen = recover'.gen
    BY <2>1, <2>2
  <2> QED
    BY <2>1, <2>3 DEF FlightIsCarried
<1>5. OneLiveSchedule'
  <2>1. recover.job \in Jobs \cup {None}
    BY DEF TypeOK, Recover
  <2> QED
    BY <1>0, <2>1 DEF OneLiveSchedule
<1> QED
  BY <1>1, <1>2, <1>3, <1>4, <1>5

LEMMA SupersedesKeepsRInv ==
  ASSUME TypeOK, TypeOK', RInv, NEW p \in Procs, Supersedes(p)
  PROVE  RInv'
<1> USE DEF RInv, Supersedes, Moves
<1>0. \A j \in Jobs : /\ j \in Procs
                      /\ pc'[j] = "idle" <=> pc[j] = "idle"
                      /\ pc'[j] = "done" <=> pc[j] = "done"
  BY DEF Procs
<1>1. /\ \A q \in Procs : loc[q].rgen \in Nat /\ loc[q].rgen < recover'.gen
      /\ recover.gen \in Nat /\ recover.job \in Jobs \cup {None}
      /\ schedDone \in [Jobs -> BOOLEAN]
  BY DEF TypeOK, Loc, Recover, TicketsAreIssued
<1>2. TicketsAreIssued' /\ TicketsAreDistinct'
  BY <1>1 DEF TicketsAreIssued, TicketsAreDistinct
<1>3. CurrentIsInstalled' /\ FlightIsCarried' /\ UnusedHasNoSchedule'
  BY <1>0, <1>1 DEF CurrentIsInstalled, FlightIsCarried, UnusedHasNoSchedule
<1>4. \A j \in Jobs : schedDone'[j] <=> schedDone[j] \/ j = recover.job
  BY <1>1, ConstantsAssumption DEF CancelSchedule, Procs
<1>5. CancelledIsStale'
  <2> SUFFICES ASSUME NEW j \in Jobs, schedDone'[j]
               PROVE  loc'[j].rgen # 0 /\ loc'[j].rgen < recover'.gen
    BY DEF CancelledIsStale
  <2>1. loc[j].rgen # 0
    <3>1. j = recover.job => pc[j] # "idle"
      BY <1>0, ConstantsAssumption DEF OneLiveSchedule
    <3> QED
      BY <1>0, <1>4, <3>1 DEF CancelledIsStale, TicketsAreIssued
  <2> QED
    BY <2>1, <1>0, <1>1
<1>6. OneLiveSchedule'
  BY <1>0, <1>1, <1>4, ConstantsAssumption DEF OneLiveSchedule, Procs
<1> QED
  BY <1>2, <1>3, <1>5, <1>6

-----------------------------------------------------------------------------
(* The shape of every step *)

\* A ticket is held by schedules and by desired recoveries only, so what its
\* holder does next does not depend on the kinds of the other calls.
LEMMA Holder ==
  ASSUME IInv, RInv, NEW p \in Procs
  PROVE  /\ loc[p].rgen # 0 => IsRecovery(p) /\ loc[p].op \in {"none", "desired"}
         /\ p \in Jobs => IsRecovery(p) /\ loc[p].op = "none" /\ p \notin Calls
         /\ p \in Jobs /\ pc[p] # "idle" => loc[p].rgen # 0
         /\ p \in Jobs /\ schedDone[p] => loc[p].rgen # recover.gen
<1>1. loc[p].rgen \in Nat /\ recover.gen \in Nat
  BY DEF IInv, TypeOK, Loc, Recover
<1> QED
  BY <1>1, ConstantsAssumption
     DEF IInv, Outside, RInv, TicketsAreIssued, CancelledIsStale, IsRecovery

LEMMA ForgetShape ==
  ASSUME IInv, RInv, NEW p \in Procs, NEW a, NEW b, forgetDesiredRecover(p, a, b),
         "idle" \notin {pc[p], a, b},
         p \in Jobs => "done" \notin {pc[p], a, b},
         pc[p] \in FlightLabels => {a, b} \subseteq FlightLabels
  PROVE  Continues(p) \/ Supersedes(p)
<1> USE DEF IInv, TypeOK, forgetDesiredRecover, Moves, Goto
<1>0. p \in Calls => p \notin Jobs
  BY ConstantsAssumption
<1>1. \A q \in Procs : loc'[q].rgen = loc[q].rgen /\ loc'[q].op = loc[q].op
  BY DEF Loc
<1>2. Moves(p)
  BY <1>0, <1>1
<1>3. CASE recover.present \/ recover.inFlight \/ recover.job # None
  <2>1. /\ recover'.gen = recover.gen + 1 /\ ~recover'.inFlight
        /\ recover'.job = None
    BY <1>3 DEF ResetRecover, Recover
  <2> QED
    BY <1>2, <1>3, <2>1 DEF Supersedes
<1>4. CASE ~(recover.present \/ recover.inFlight \/ recover.job # None)
  BY <1>2, <1>4 DEF Continues
<1> QED
  BY <1>3, <1>4

LEMMA AdmissionShape ==
  ASSUME IInv, RInv, NEW p \in Procs,
         \/ Forget(p) \/ Join(p) \/ Invalidate(p) \/ Admit(p) \/ Submit(p)
         \/ Check(p) \/ bindLifecycleRun(p) \/ Unlock(p)
  PROVE  Continues(p) \/ Supersedes(p)
<1> USE DEF Continues, Moves, Goto, Finish, FlightLabels
<1>0. /\ pc \in [Procs -> Labels] /\ loc \in [Procs -> Loc] 
      /\ recover.inFlight => recover.present
  BY DEF IInv, TypeOK, RInv, FlightIsCarried
<1>1. CASE Forget(p)
  <2>1. pc[p] = "forget" /\ forgetDesiredRecover(p, "join", AfterForget(p))
    BY <1>1 DEF Forget
  <2>2. AfterForget(p) \in {"done", "invalidate"} /\ (p \in Jobs => AfterForget(p) = "invalidate")
    BY Holder DEF AfterForget
  <2>3. p \in Calls \/ p \in Jobs
    BY DEF Procs
  <2> QED
    BY <2>1, <2>2, <2>3, ForgetShape, Zenon
<1>2. CASE Join(p)
  BY <1>0, <1>2, Holder DEF Join, AfterForget, recVars
<1>3. CASE Invalidate(p)
  BY <1>0, <1>3 DEF Invalidate, recVars
<1>4. CASE Admit(p)
  BY <1>0, <1>4, Holder DEF Admit, Loc, recVars
<1>5. CASE Submit(p)
  BY <1>0, <1>5 DEF Submit, recVars
<1>6. CASE Check(p)
  BY <1>0, <1>6 DEF Check, Loc, recVars
<1>7. CASE bindLifecycleRun(p)
  BY <1>0, <1>7 DEF bindLifecycleRun, FirstStep, Loc, recVars
<1>8. CASE Unlock(p)
  BY <1>0, <1>8, Holder DEF Unlock, recVars
<1> QED
  BY <1>1, <1>2, <1>3, <1>4, <1>5, <1>6, <1>7, <1>8

LEMMA TeardownShape ==
  ASSUME IInv, RInv, NEW p \in Procs,
         \/ CheckRecoverable(p) \/ FindInstance(p) \/ Stop(p) \/ StopWait(p)
         \/ DeleteInstance(p) \/ RestoreSMSMode(p)
  PROVE  Continues(p)
<1> USE DEF Continues, Moves, Goto, Finish, FlightLabels
<1>0. /\ pc \in [Procs -> Labels] /\ loc \in [Procs -> Loc]
      /\ recover.inFlight => recover.present
  BY DEF IInv, TypeOK, RInv, FlightIsCarried
<1>1. CASE CheckRecoverable(p)
  BY <1>0, <1>1 DEF CheckRecoverable, Loc, recVars
<1>2. CASE FindInstance(p)
  BY <1>0, <1>2, Holder DEF FindInstance, AfterTeardown, Loc, recVars
<1>3. CASE Stop(p)
  BY <1>0, <1>3 DEF Stop, recVars
<1>4. CASE StopWait(p)
  BY <1>0, <1>4 DEF StopWait, recVars
<1>5. CASE DeleteInstance(p)
  <2>1. recover.gen = 0 => recover.job = None
    BY DEF RInv, UnusedHasNoSchedule
  <2> QED
    BY <1>0, <1>5, <2>1 DEF DeleteInstance, NoRecover
<1>6. CASE RestoreSMSMode(p)
  BY <1>0, <1>6, Holder DEF RestoreSMSMode, AfterTeardown, recVars
<1> QED
  BY <1>1, <1>2, <1>3, <1>4, <1>5, <1>6

LEMMA StartupShape ==
  ASSUME IInv, RInv, NEW p \in Procs,
         \/ BeginStart(p) \/ PrepareAndStart(p) \/ BeforeStart(p)
         \/ CreateInstance(p) \/ AddObserver(p) \/ ClaimStarted(p)
         \/ StaleStop(p) \/ StaleWait(p) \/ MarkRuntimeStarted(p)
  PROVE  Continues(p) \/ Supersedes(p)
<1> USE DEF Continues, Moves, Goto, Finish, FlightLabels
<1>0. /\ pc \in [Procs -> Labels] /\ loc \in [Procs -> Loc]
      /\ recover.inFlight => recover.present
  BY DEF IInv, TypeOK, RInv, FlightIsCarried
<1>1. CASE BeginStart(p)
  BY <1>0, <1>1 DEF BeginStart, Loc, recVars
<1>2. CASE PrepareAndStart(p)
  BY <1>0, <1>2 DEF PrepareAndStart, Loc, recVars
<1>3. CASE BeforeStart(p)
  BY <1>0, <1>3 DEF BeforeStart, recVars
<1>4. CASE CreateInstance(p)
  BY <1>0, <1>4 DEF CreateInstance, Loc, recVars
<1>5. CASE AddObserver(p)
  BY <1>0, <1>5 DEF AddObserver, recVars
<1>6. CASE ClaimStarted(p)
  <2>1. Moves(p) /\ pc'[p] \in {"mark", "staleStop"}
    BY <1>0, <1>6 DEF ClaimStarted
  <2>2. CASE UNCHANGED recVars
    BY <1>0, <2>1, <2>2 DEF recVars
  <2>3. CASE /\ recover' = [ResetRecover(recover) EXCEPT !.gen = @ + 1]
             /\ CancelSchedule(recover.job)
    <3>1. /\ recover'.gen = recover.gen + 1 /\ ~recover'.inFlight
          /\ recover'.job = recover.job
      BY <2>3 DEF ResetRecover, Recover, IInv, TypeOK
    <3> QED
      BY <2>1, <2>3, <3>1 DEF Supersedes
  <2> QED
    BY <1>6, <2>2, <2>3 DEF ClaimStarted
<1>7. CASE StaleStop(p)
  BY <1>0, <1>7 DEF StaleStop, Loc, recVars
<1>8. CASE StaleWait(p)
  BY <1>0, <1>8 DEF StaleWait, Loc, recVars
<1>9. CASE MarkRuntimeStarted(p)
  BY <1>0, <1>9 DEF MarkRuntimeStarted, Loc, recVars
<1> QED
  BY <1>1, <1>2, <1>3, <1>4, <1>5, <1>6, <1>7, <1>8, <1>9

\* What ends or keeps a flight when its recovery settles.
LEMMA FinishShape ==
  ASSUME IInv, RInv, NEW p \in Procs, finishDesiredRecover(p)
  PROVE  /\ recover'.gen = recover.gen /\ recover'.job = recover.job
         /\ recover'.inFlight => recover.inFlight /\ recover'.present
         /\ recover'.inFlight => loc[p].rgen # recover.gen
<1>1. recover \in Recover /\ (recover.inFlight => recover.present)
  BY DEF IInv, TypeOK, RInv, FlightIsCarried
<1>2. CASE ~OwnsRecovery(p)
  BY <1>1, <1>2 DEF finishDesiredRecover, OwnsRecovery
<1>3. CASE OwnsRecovery(p)
  <2>1. \/ recover' = BackOff([recover EXCEPT !.inFlight = FALSE])
        \/ recover' = [recover EXCEPT !.inFlight = FALSE]
        \/ recover' = ResetRecover(recover)
    BY <1>3 DEF finishDesiredRecover
  <2> QED
    BY <1>1, <2>1 DEF BackOff, ResetRecover, Recover
<1> QED
  BY <1>2, <1>3

LEMMA FailureShape ==
  ASSUME IInv, RInv, NEW p \in Procs,
         \/ HandleStartupError(p) \/ BusyForget(p) \/ BusyJoin(p)
         \/ FailStart(p) \/ SettleDesired(p),
         HandleStartupError(p) => \A j \in Jobs : ~beginAPDUBusyRecoverSchedule(p, j)
  PROVE  Continues(p) \/ Supersedes(p)
<1> USE DEF Continues, Moves, Goto, Finish, FlightLabels
<1>0. /\ pc \in [Procs -> Labels] /\ loc \in [Procs -> Loc]
      /\ recover.inFlight => recover.present
  BY DEF IInv, TypeOK, RInv, FlightIsCarried
<1>1. CASE HandleStartupError(p)
  BY <1>0, <1>1 DEF HandleStartupError, Loc
<1>2. CASE BusyForget(p)
  BY <1>2, ForgetShape DEF BusyForget
<1>3. CASE BusyJoin(p)
  BY <1>0, <1>3 DEF BusyJoin, recVars
<1>4. CASE FailStart(p)
  BY <1>0, <1>4 DEF FailStart, recVars
<1>5. CASE SettleDesired(p)
  BY <1>0, <1>5, Holder, FinishShape DEF SettleDesired
<1> QED
  BY <1>1, <1>2, <1>3, <1>4, <1>5

LEMMA ScheduleShape ==
  ASSUME IInv, RInv, NEW j \in Jobs,
         ScheduleTimer(j) \/ SettleSchedule(j) \/ CloseSchedule(j)
  PROVE  Continues(j)
<1> USE DEF Continues, Moves, Goto, FlightLabels
<1>0. /\ pc \in [Procs -> Labels] /\ loc \in [Procs -> Loc] /\ j \in Procs
      /\ recover.inFlight => recover.present
  BY DEF IInv, TypeOK, RInv, FlightIsCarried, Procs
<1>1. CASE ScheduleTimer(j)
  BY <1>0, <1>1 DEF ScheduleTimer, recVars
<1>2. CASE SettleSchedule(j)
  <2>1. Moves(j) /\ UNCHANGED schedDone
    BY <1>0, <1>2 DEF SettleSchedule, deferAPDUBusyRecoverAttempt, Loc
  <2>2. CASE UNCHANGED recover /\ (schedDone[j] \/ ~(recover.present /\ OwnsRecovery(j) /\ recover.job # None))
    <3>1. loc[j].rgen = recover.gen => recover.job # None
      BY <1>0, <1>2, Holder, ConstantsAssumption
         DEF SettleSchedule, RInv, CurrentIsInstalled, Procs
    <3>2. recover.inFlight => loc[j].rgen # recover.gen
      BY <1>0, <2>2, <3>1, Holder DEF OwnsRecovery
    <3> QED
      BY <1>0, <2>1, <2>2, <3>2
  <2>3. CASE recover' = [recover EXCEPT !.inFlight = FALSE, !.waiting = TRUE]
    BY <2>1, <2>3 DEF IInv, TypeOK, Recover
  <2>4. CASE finishDesiredRecover(j)
    BY <1>0, <2>1, <2>4, FinishShape
  <2> QED
    BY <1>2, <2>2, <2>3, <2>4 DEF SettleSchedule, deferAPDUBusyRecoverAttempt
<1>3. CASE CloseSchedule(j)
  BY <1>0, <1>3 DEF CloseSchedule, recVars
<1> QED
  BY <1>1, <1>2, <1>3

LEMMA RuntimeShape ==
  ASSUME IInv, RInv, NEW p \in Procs, RuntimeStep(p) \/ BackoffElapses \/ UNCHANGED vars
  PROVE  Continues(p)
<1>1. /\ UNCHANGED <<pc, loc, schedDone>>
      /\ \/ UNCHANGED recover
         \/ recover' = ResetRecover(recover)
         \/ recover' = BackOff(recover) /\ ~recover.inFlight
         \/ recover' = [recover EXCEPT !.waiting = FALSE]
  BY DEF RuntimeStep, UpdateRuntimeState, SnapshotObservers, publishRuntimeState,
     FinishStopCleanup, BackoffElapses, vars, recVars
<1>2. recover \in Recover /\ (recover.inFlight => recover.present)
  BY DEF IInv, TypeOK, RInv, FlightIsCarried
<1>3. /\ recover'.gen = recover.gen /\ recover'.job = recover.job
      /\ recover'.inFlight => recover.inFlight /\ recover'.present
  BY <1>1, <1>2 DEF ResetRecover, BackOff, Recover
<1> QED
  BY <1>1, <1>3 DEF Continues, Moves

-----------------------------------------------------------------------------
(* The steps that issue a ticket, take a flight or release a schedule *)

LEMMA InvokeKeepsRInv ==
  ASSUME IInv, TypeOK', RInv, NEW c \in Calls, Invoke(c)
  PROVE  RInv'
<1> USE DEF RInv, Goto
<1>0. /\ c \in Procs /\ c \notin Jobs /\ \A j \in Jobs : j \in Procs /\ j # c
      /\ pc \in [Procs -> Labels] /\ loc \in [Procs -> Loc] /\ recover \in Recover
      /\ recover.gen \in Nat /\ recover.job \in Jobs \cup {None}
      /\ UNCHANGED schedDone
      /\ \A q \in Procs : loc[q].rgen \in Nat /\ loc[q].rgen <= recover.gen
  BY ConstantsAssumption DEF Procs, IInv, TypeOK, TicketsAreIssued, Recover, Loc, Invoke
<1>1. /\ pc[c] = "idle" /\ pc'[c] \in {"admit", "forget"} /\ loc[c].rgen = 0
      /\ \A q \in Procs \ {c} : pc'[q] = pc[q] /\ loc'[q] = loc[q]
  BY <1>0 DEF Invoke, beginDesiredRecover, TicketsAreIssued
<1>2. OneLiveSchedule' /\ recover'.job = recover.job
  BY <1>0, <1>1 DEF Invoke, beginDesiredRecover, OneLiveSchedule, Recover
<1>3. CASE UNCHANGED recover
  <2>1. loc'[c].rgen = 0
    BY <1>0, <1>1, <1>3 DEF Invoke, beginDesiredRecover, Recover, Loc
  <2>2. TicketsAreIssued' /\ TicketsAreDistinct'
    BY <1>0, <1>1, <1>3, <2>1 DEF TicketsAreIssued, TicketsAreDistinct
  <2>3. CancelledIsStale' /\ CurrentIsInstalled' /\ UnusedHasNoSchedule'
    BY <1>0, <1>1, <1>3 DEF CancelledIsStale, CurrentIsInstalled, UnusedHasNoSchedule
  <2>4. FlightIsCarried'
    BY <1>0, <1>1, <1>3 DEF FlightIsCarried, FlightLabels
  <2> QED
    BY <1>2, <2>2, <2>3, <2>4
<1>4. CASE beginDesiredRecover(c)
  <2>1. /\ recover'.gen = recover.gen + 1 /\ recover'.present
        /\ recover.job = None /\ loc'[c].rgen = recover.gen + 1
        /\ loc'[c].op = "desired" /\ pc'[c] = "admit"
    BY <1>0, <1>4 DEF beginDesiredRecover, Recover, Loc
  <2>2. TicketsAreIssued' /\ TicketsAreDistinct'
    BY <1>0, <1>1, <2>1 DEF TicketsAreIssued, TicketsAreDistinct
  <2>3. CancelledIsStale' /\ CurrentIsInstalled' /\ UnusedHasNoSchedule'
    BY <1>0, <1>1, <1>2, <2>1 DEF CancelledIsStale, CurrentIsInstalled, UnusedHasNoSchedule
  <2>4. FlightIsCarried'
    BY <1>0, <2>1 DEF FlightIsCarried, FlightLabels
  <2> QED
    BY <1>2, <2>2, <2>3, <2>4
<1> QED
  BY <1>3, <1>4 DEF Invoke

LEMMA BeginScheduleKeepsRInv ==
  ASSUME IInv, TypeOK', RInv, NEW p \in Procs, HandleStartupError(p),
         NEW j \in Jobs, beginAPDUBusyRecoverSchedule(p, j)
  PROVE  RInv'
<1> USE DEF RInv
<1>0. /\ j \in Procs /\ pc[p] = "startErr" /\ pc[j] = "idle" /\ p # j
      /\ \A k \in Jobs : k \in Procs
      /\ pc \in [Procs -> Labels] /\ loc \in [Procs -> Loc] /\ recover \in Recover
      /\ recover.gen \in Nat /\ recover.job = None /\ None \notin Procs
      /\ UNCHANGED schedDone
      /\ \A q \in Procs : loc[q].rgen \in Nat /\ loc[q].rgen <= recover.gen
  BY ConstantsAssumption DEF Procs, IInv, TypeOK, TicketsAreIssued, Recover, Loc,
     HandleStartupError, beginAPDUBusyRecoverSchedule
<1>1. /\ pc'[p] = "failStart" /\ pc'[j] = "timer"
      /\ \A q \in Procs \ {p, j} : pc'[q] = pc[q]
  BY <1>0 DEF beginAPDUBusyRecoverSchedule
<1>2. /\ loc'[j].rgen = recover.gen + 1
      /\ \A q \in Procs \ {j} : loc'[q].rgen = loc[q].rgen
      /\ \A q \in Procs : loc'[q].op = loc[q].op
  <2>1. loc' = [loc EXCEPT ![p] = [loc[p] EXCEPT !.res = "failed"],
                           ![j] = [loc[j] EXCEPT !.rgen = recover.gen + 1]]
    BY <1>0 DEF beginAPDUBusyRecoverSchedule
  <2>2. /\ loc'[p] = [loc[p] EXCEPT !.res = "failed"]
        /\ loc'[j] = [loc[j] EXCEPT !.rgen = recover.gen + 1]
        /\ \A q \in Procs \ {p, j} : loc'[q] = loc[q]
    BY <1>0, <2>1
  <2>3. loc[p] \in Loc /\ loc[j] \in Loc
    BY <1>0
  <2>4. /\ loc'[j].rgen = recover.gen + 1 /\ loc'[j].op = loc[j].op
        /\ loc'[p].rgen = loc[p].rgen /\ loc'[p].op = loc[p].op
    BY <2>2, <2>3 DEF Loc
  <2> QED
    BY <2>2, <2>4
<1>3. /\ recover'.gen = recover.gen + 1 /\ recover'.job = j /\ ~recover'.inFlight
  BY <1>0 DEF beginAPDUBusyRecoverSchedule, Recover
<1>4. loc[j].rgen = 0 /\ ~schedDone[j]
  BY <1>0 DEF TicketsAreIssued, CancelledIsStale
<1>5. TicketsAreIssued' /\ TicketsAreDistinct'
  BY <1>0, <1>1, <1>2, <1>3 DEF TicketsAreIssued, TicketsAreDistinct
<1>6. /\ CancelledIsStale' /\ CurrentIsInstalled'
      /\ FlightIsCarried' /\ UnusedHasNoSchedule'
  <2>1. CancelledIsStale'
    BY <1>0, <1>1, <1>2, <1>3, <1>4 DEF CancelledIsStale
  <2>2. CurrentIsInstalled'
    BY <1>0, <1>1, <1>2, <1>3 DEF CurrentIsInstalled
  <2>3. FlightIsCarried'
    BY <1>3 DEF FlightIsCarried
  <2>4. UnusedHasNoSchedule'
    BY <1>0, <1>1, <1>3 DEF UnusedHasNoSchedule
  <2> QED
    BY <2>1, <2>2, <2>3, <2>4
<1>7. OneLiveSchedule'
  BY <1>0, <1>1, <1>3 DEF OneLiveSchedule
<1> QED
  BY <1>5, <1>6, <1>7

LEMMA AttemptKeepsRInv ==
  ASSUME IInv, TypeOK', RInv, NEW j \in Jobs, beginAPDUBusyRecoverAttempt(j)
  PROVE  RInv'
<1> USE DEF Goto
<1>0. /\ j \in Procs /\ pc[j] = "attempt"
      /\ pc \in [Procs -> Labels] /\ loc \in [Procs -> Loc] /\ recover \in Recover
      /\ loc[j].rgen # 0 /\ UNCHANGED <<loc, schedDone>>
  BY DEF Procs, IInv, TypeOK, RInv, TicketsAreIssued, beginAPDUBusyRecoverAttempt
<1>1. CASE UNCHANGED recover /\ Goto(j, "close")
  <2>1. Continues(j)
    BY <1>0, <1>1 DEF Continues, Moves, FlightLabels, RInv, FlightIsCarried
  <2> QED
    BY <1>0, <2>1, ContinuesKeepsRInv DEF IInv
<1>2. CASE /\ recover.present /\ recover.gen = loc[j].rgen /\ Goto(j, "admit")
           /\ recover' = [recover EXCEPT !.inFlight = TRUE, !.waiting = FALSE]
  <2>1. /\ recover'.gen = recover.gen /\ recover'.job = recover.job /\ recover'.present
        /\ recover.job \in Jobs \cup {None}
    BY <1>0, <1>2 DEF Recover
  <2>2. pc'[j] = "admit" /\ \A q \in Procs \ {j} : pc'[q] = pc[q]
    BY <1>0, <1>2
  <2>3. \A k \in Jobs : /\ k \in Procs
                        /\ pc'[k] = "idle" <=> pc[k] = "idle"
                        /\ pc'[k] = "done" <=> pc[k] = "done"
    BY <1>0, <2>2 DEF Procs
  <2>4. TicketsAreIssued' /\ TicketsAreDistinct'
    BY <1>0, <2>1, <2>2 DEF RInv, TicketsAreIssued, TicketsAreDistinct
  <2>5. CancelledIsStale' /\ CurrentIsInstalled' /\ UnusedHasNoSchedule'
    BY <1>0, <2>1, <2>3 DEF RInv, CancelledIsStale, CurrentIsInstalled, UnusedHasNoSchedule
  <2>6. FlightIsCarried'
    BY <1>0, <1>2, <2>1, <2>2 DEF FlightIsCarried, FlightLabels
  <2>7. OneLiveSchedule'
    BY <1>0, <2>1, <2>3 DEF RInv, OneLiveSchedule
  <2> QED
    BY <2>4, <2>5, <2>6, <2>7 DEF RInv
<1> QED
  BY <1>1, <1>2 DEF beginAPDUBusyRecoverAttempt

LEMMA ReleaseKeepsRInv ==
  ASSUME IInv, TypeOK', RInv, NEW j \in Jobs, releaseAPDUBusyRecoverSchedule(j)
  PROVE  RInv'
<1> USE DEF RInv
<1>0. /\ j \in Procs /\ \A k \in Jobs : k \in Procs
      /\ pc[j] = "release" /\ pc'[j] = "done"
      /\ \A q \in Procs \ {j} : pc'[q] = pc[q]
      /\ UNCHANGED <<loc, schedDone>>
      /\ recover \in Recover /\ recover.gen \in Nat /\ recover.job \in Jobs \cup {None}
      /\ \A q \in Procs : loc[q].rgen \in Nat /\ loc[q].rgen <= recover.gen
  BY DEF Procs, IInv, TypeOK, Recover, Loc, TicketsAreIssued,
     releaseAPDUBusyRecoverSchedule, Goto
<1>1. /\ recover'.job = IF recover.job = j THEN None ELSE recover.job
      /\ \/ recover'.gen = recover.gen /\ recover'.inFlight = recover.inFlight
            /\ recover'.present = recover.present
         \/ recover'.gen = recover.gen + 1 /\ ~recover'.inFlight
  BY <1>0 DEF releaseAPDUBusyRecoverSchedule, ResetRecover, Recover
<1>2. TicketsAreIssued' /\ TicketsAreDistinct'
  BY <1>0, <1>1 DEF TicketsAreIssued, TicketsAreDistinct
<1>3. CancelledIsStale' /\ UnusedHasNoSchedule'
  BY <1>0, <1>1 DEF CancelledIsStale, UnusedHasNoSchedule
<1>4. CurrentIsInstalled'
  BY <1>0, <1>1 DEF CurrentIsInstalled
<1>5. FlightIsCarried'
  BY <1>0, <1>1 DEF FlightIsCarried, FlightLabels
<1>6. OneLiveSchedule'
  BY <1>0, <1>1 DEF OneLiveSchedule
<1> QED
  BY <1>2, <1>3, <1>4, <1>5, <1>6

LEMMA RInvStep == IInv /\ RInv /\ [Next]_vars => RInv'
<1> SUFFICES ASSUME IInv, RInv, [Next]_vars PROVE RInv'
  OBVIOUS
<1>0. TypeOK /\ TypeOK'
  BY TypeStep DEF IInv
<1>1. ASSUME NEW p \in Procs, Continues(p) \/ Supersedes(p) PROVE RInv'
  BY <1>0, <1>1, ContinuesKeepsRInv, SupersedesKeepsRInv
<1>2. ASSUME NEW p \in Procs, CommandStep(p) PROVE RInv'
  <2>1. CASE HandleStartupError(p) /\ \E j \in Jobs : beginAPDUBusyRecoverSchedule(p, j)
    BY <1>0, <2>1, BeginScheduleKeepsRInv
  <2>2. CASE HandleStartupError(p) => \A j \in Jobs : ~beginAPDUBusyRecoverSchedule(p, j)
    BY <1>1, <1>2, <2>2, AdmissionShape, TeardownShape, StartupShape, FailureShape
       DEF CommandStep
  <2> QED
    BY <2>1, <2>2
<1>3. ASSUME NEW j \in Jobs, ScheduleStep(j) PROVE RInv'
  <2>1. j \in Procs
    BY DEF Procs
  <2> QED
    BY <1>0, <1>1, <1>3, <2>1, ScheduleShape, AttemptKeepsRInv, ReleaseKeepsRInv
       DEF ScheduleStep
<1>4. ASSUME NEW p \in Procs, RuntimeStep(p) PROVE RInv'
  BY <1>1, <1>4, RuntimeShape
<1>5. CASE BackoffElapses \/ UNCHANGED vars
  <2>1. CASE Procs = {}
    <3>1. Jobs = {} /\ recover.job = None /\ ~recover.inFlight
      BY <1>0, <2>1 DEF Procs, RInv, FlightIsCarried, TypeOK, Recover
    <3>2. recover'.job = None /\ ~recover'.inFlight
      BY <1>0, <1>5, <3>1 DEF BackoffElapses, vars, TypeOK, Recover
    <3> QED
      BY <2>1, <3>1, <3>2 DEF RInv, TicketsAreIssued, TicketsAreDistinct, CancelledIsStale,
         CurrentIsInstalled, FlightIsCarried, UnusedHasNoSchedule, OneLiveSchedule
  <2>2. CASE Procs # {}
    BY <1>1, <1>5, <2>2, RuntimeShape
  <2> QED
    BY <2>1, <2>2
<1> QED
  BY <1>0, <1>2, <1>3, <1>4, <1>5, InvokeKeepsRInv DEF Next, Quiet

-----------------------------------------------------------------------------
(* What it means for the recovery *)

\* Tickets of the recovery slot are issued in order, live in one hand each, and
\* the slot names the schedule and the flight that hold the current one.
THEOREM RecoveryInvariant == Spec => []RInv
<1>1. IInv /\ RInv /\ [Next]_vars => RInv'
  BY RInvStep
<1> QED
  BY <1>1, RInvInit, Invariant, PTL DEF Spec

\* The flag that deduplicates desired recovery always has exactly one owner,
\* which will still settle it: no interleaving of calls, schedules, refusals and
\* claims loses the flight or doubles it.
THEOREM FlightOwned == Spec => []InFlightHasOwner
<1>1. RInv => InFlightHasOwner
  <2> SUFFICES ASSUME RInv, recover.inFlight PROVE InFlightHasOwner
    BY DEF InFlightHasOwner
  <2>1. PICK p \in Procs : /\ recover.gen # 0 /\ loc[p].rgen = recover.gen
                           /\ pc[p] \in FlightLabels
    BY DEF RInv, FlightIsCarried
  <2>2. \A q \in Procs : loc[q].rgen = recover.gen => q = p
    BY <2>1 DEF RInv, TicketsAreDistinct
  <2> QED
    BY <2>1, <2>2 DEF InFlightHasOwner, FlightLabels
<1> QED
  BY <1>1, RecoveryInvariant, PTL

\* At most one APDU-busy schedule can act: the one the slot names is alive, and
\* every other one still alive has been cancelled.
THEOREM ScheduleIsOne == Spec => []OneLiveSchedule
<1>1. RInv => OneLiveSchedule
  BY DEF RInv
<1> QED
  BY <1>1, RecoveryInvariant, PTL
=============================================================================
