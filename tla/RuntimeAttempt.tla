--------------------------- MODULE RuntimeAttempt ---------------------------
(***************************************************************************)
(* RuntimeAttempt and StatePublication/Reconcile of one device: the        *)
(* per-device slot of internal/vowifihost.Store, the serialised lifecycle  *)
(* commands of LifecycleController, desired recovery and the APDU-busy     *)
(* schedule, against the runtime instances they start and stop.            *)
(*                                                                         *)
(* A process is one call into vowifihost.Manager (Calls) or one APDU-busy  *)
(* schedule goroutine (Jobs).  Its pc names the next critical section; one *)
(* action is one critical section of Store.mu, runMu or Instance.mu.       *)
(* Every process creates at most one runtime, so the runtime it creates is *)
(* named by the process.  A deleted slot and a slot never created behave   *)
(* alike and are both the zero slot.                                       *)
(***************************************************************************)
EXTENDS Naturals

CONSTANTS
    Calls,            \* calls into the manager, each made once
    Jobs,             \* APDU-busy schedule goroutines, each spawned once
    None,             \* no process and no runtime (a nil pointer)
    Kinds,            \* the operations the environment may call
    BusyPossible,     \* StartRuntime may fail with ErrAPDUBusy
    PolicyRevocable,  \* the device may refuse the APDU-busy schedule and forget
    StopDeadline      \* the 10 s deadline of Instance.Stop may expire

Procs == Calls \cup Jobs

AllKinds == {"enable", "disable", "restart", "recover", "desired",
             "switchBegin", "switchEnd", "teardown", "forget"}

ASSUME ConstantsAssumption ==
    /\ Calls \cap Jobs = {}
    /\ None \notin Procs
    /\ Kinds \subseteq AllKinds
    /\ {BusyPossible, PolicyRevocable, StopDeadline} \subseteq BOOLEAN

MaxAttempt == 2       \* DesiredRecoverDelay is constant from attempt 2 on
Opportunities == 3    \* len(apduBusyRecoverOpportunities)

VARIABLES
    instance,    \* slot.instance
    starting,    \* slot.starting
    epoch,       \* slot.epoch
    state,       \* slot.state: its outcome and the runtime it speaks of
    generation,  \* slot.lifecycleGeneration
    run,         \* slot.runCancel, runKind, runRecoverGeneration
    recover,     \* the slot's recover* fields; job stands for recoverSchedule*
    runMu,       \* holder of deviceLifecycle.runMu
    pc,          \* next critical section of each process
    loc,         \* local variables of each process
    ctxDone,     \* the run context of the process is cancelled
    schedDone,   \* the schedule context of the job is cancelled
    rt,          \* the runtime each process created
    smsMode      \* worker.smsMode as MarkRuntimeStarted and RestoreSMSMode set it

slotVars == <<instance, starting, epoch, state>>
lifeVars == <<generation, run, runMu>>
recVars  == <<recover, schedDone>>
vars == <<instance, starting, epoch, state, generation, run, recover, runMu,
          pc, loc, ctxDone, schedDone, rt, smsMode>>

-----------------------------------------------------------------------------
(* Types and values *)

Labels == {"idle", "forget", "join", "invalidate", "admit", "submit", "check",
           "bind", "recoverable", "find", "stop", "stopWait", "delete",
           "restore", "begin", "prepare", "before", "create",
           "observe", "claim", "staleStop", "staleWait", "mark", "startErr",
           "busyForget", "busyJoin", "failStart", "unlock", "settle", "timer",
           "attempt", "close", "release", "done"}
Results == {"ok", "failed", "policy", "busy"}

NoRun == [owner |-> None, rgen |-> 0, recovery |-> FALSE]
NoState == [st |-> "none", src |-> None]
NoRecover == [gen |-> 0, attempt |-> 0, waiting |-> FALSE, inFlight |-> FALSE,
              present |-> FALSE, job |-> None]
NewLoc == [op |-> "none", gen |-> 0, rgen |-> 0, epoch |-> 0, inst |-> None,
           res |-> "ok", join |-> None, opp |-> 1, completed |-> FALSE]
NewRt == [phase |-> "unused", st |-> "up", observed |-> FALSE, pipe |-> "idle"]

State == [st : {"none", "sim", "up", "ready", "failed", "canceled"},
          src : Procs \cup {None}]
Run == [owner : Procs \cup {None}, rgen : Nat, recovery : BOOLEAN]
Recover == [gen : Nat, attempt : 0..MaxAttempt, waiting : BOOLEAN,
            inFlight : BOOLEAN, present : BOOLEAN, job : Jobs \cup {None}]
Loc == [op : AllKinds \cup {"none"}, gen : Nat, rgen : Nat, epoch : Nat,
        inst : Procs \cup {None}, res : Results, join : Jobs \cup {None},
        opp : 1..Opportunities, completed : BOOLEAN]
Rt == [phase : {"unused", "live", "stopped", "joined"},
       st : {"up", "ready", "failed", "canceled"},
       observed : BOOLEAN, pipe : {"idle", "notify", "publish"}]

\* The types of the state: one definition for the runs and for the proofs.
TypeOK ==
    /\ instance \in Procs \cup {None}
    /\ starting \in BOOLEAN
    /\ epoch \in Nat
    /\ state \in State
    /\ generation \in Nat
    /\ run \in Run
    /\ recover \in Recover
    /\ runMu \in Procs \cup {None}
    /\ pc \in [Procs -> Labels]
    /\ loc \in [Procs -> Loc]
    /\ ctxDone \in [Procs -> BOOLEAN]
    /\ schedDone \in [Jobs -> BOOLEAN]
    /\ rt \in [Procs -> Rt]
    /\ smsMode \in {"native", "vowifi"}

Init ==
    /\ instance = None
    /\ starting = FALSE
    /\ epoch = 0
    /\ state = NoState
    /\ generation = 0
    /\ run = NoRun
    /\ recover = NoRecover
    /\ runMu = None
    /\ pc = [p \in Procs |-> "idle"]
    /\ loc = [p \in Procs |-> NewLoc]
    /\ ctxDone = [p \in Procs |-> FALSE]
    /\ schedDone = [j \in Jobs |-> FALSE]
    /\ rt = [p \in Procs |-> NewRt]
    /\ smsMode = "native"

-----------------------------------------------------------------------------
(* Helpers *)

Goto(p, label) == pc' = [pc EXCEPT ![p] = label]

Finish(p, result, label) ==
    /\ Goto(p, label)
    /\ loc' = [loc EXCEPT ![p].res = result]

IsRecovery(p) == p \in Jobs \/ loc[p].op \in {"recover", "desired"}
Preempting(p) == loc[p].op \in {"disable", "restart", "switchBegin"}

\* ctx.Err() of the context a command of p runs under: its own run context,
\* and for a schedule job the schedule context it was derived from.
Cancelled(p) == ctxDone[p] \/ (p \in Jobs /\ schedDone[p])

Cancel(owner) ==
    ctxDone' = IF owner = None THEN ctxDone ELSE [ctxDone EXCEPT ![owner] = TRUE]

\* Mutation: the schedule context is not cancelled.
CancelScheduleForgotten(job) == UNCHANGED schedDone

CancelSchedule(job) ==
    schedDone' = IF job = None THEN schedDone ELSE [schedDone EXCEPT ![job] = TRUE]

\* Mutation: the in-flight flag survives a reset.
ResetRecoverKeepsFlight(r) == [r EXCEPT !.attempt = 0, !.waiting = FALSE,
                                        !.present = FALSE]

ResetRecover(r) == [r EXCEPT !.attempt = 0, !.waiting = FALSE,
                             !.inFlight = FALSE, !.present = FALSE]

BackOff(r) == [r EXCEPT !.attempt = IF @ < MaxAttempt THEN @ + 1 ELSE @,
                        !.waiting = TRUE, !.present = TRUE]

DesiredRecoverable == ~starting /\ (instance = None \/ state.st = "failed")

\* done channel of the schedule: closed once its goroutine reached its defer
ScheduleClosed(j) == pc[j] \in {"release", "done"}

-----------------------------------------------------------------------------
(* A call arrives *)

\* ScheduleDesiredRecover is admitted by beginDesiredRecover before its
\* goroutine exists; every other operation starts with its first critical
\* section.
beginDesiredRecover(c) ==
    /\ DesiredRecoverable
    /\ recover.job = None /\ ~recover.inFlight /\ ~recover.waiting
    /\ recover' = [recover EXCEPT !.gen = @ + 1, !.inFlight = TRUE, !.present = TRUE]
    /\ loc' = [loc EXCEPT ![c].op = "desired", ![c].rgen = recover.gen + 1]
    /\ Goto(c, "admit")

Invoke(c) ==
    /\ pc[c] = "idle"
    /\ \/ \E k \in Kinds \ {"desired"} :
            /\ loc' = [loc EXCEPT ![c].op = k]
            /\ Goto(c, IF k \in {"enable", "recover", "switchEnd"}
                       THEN "admit" ELSE "forget")
            /\ UNCHANGED recover
       \/ "desired" \in Kinds /\ beginDesiredRecover(c)
    /\ UNCHANGED <<slotVars, lifeVars, ctxDone, schedDone, rt, smsMode>>

\* The backoff delay of the slot runs out.
BackoffElapses ==
    /\ recover.waiting
    /\ recover' = [recover EXCEPT !.waiting = FALSE]
    /\ UNCHANGED <<slotVars, lifeVars, pc, loc, ctxDone, schedDone, rt, smsMode>>

-----------------------------------------------------------------------------
(* InvalidateRuntime: forgetDesiredRecover, then Invalidate *)

forgetDesiredRecover(p, joinLabel, nextLabel) ==
    /\ UNCHANGED <<slotVars, generation, runMu, rt, smsMode>>
    /\ IF recover.present \/ recover.inFlight \/ recover.job # None
       THEN /\ recover' = [ResetRecover(recover) EXCEPT !.gen = @ + 1, !.job = None]
            /\ CancelSchedule(recover.job)
            /\ IF run.recovery /\ run.rgen = recover.gen
               THEN Cancel(run.owner) /\ run' = NoRun
               ELSE UNCHANGED <<ctxDone, run>>
            /\ loc' = [loc EXCEPT ![p].join = recover.job]
            /\ Goto(p, IF recover.job = None THEN nextLabel ELSE joinLabel)
       ELSE /\ Goto(p, nextLabel)
            /\ UNCHANGED <<recover, schedDone, run, ctxDone, loc>>

AfterForget(p) == IF loc[p].op = "forget" THEN "done" ELSE "invalidate"

Forget(p) ==
    /\ pc[p] = "forget"
    /\ forgetDesiredRecover(p, "join", AfterForget(p))

Join(p) ==
    /\ pc[p] = "join"
    /\ ScheduleClosed(loc[p].join)
    /\ Goto(p, AfterForget(p))
    /\ UNCHANGED <<slotVars, lifeVars, recVars, loc, ctxDone, rt, smsMode>>

\* Mutation: the startup claim survives the invalidation.
InvalidateKeepsClaim(p) ==
    /\ pc[p] = "invalidate"
    /\ epoch' = epoch + 1
    /\ state' = NoState
    /\ run' = NoRun
    /\ Cancel(run.owner)
    /\ Goto(p, IF loc[p].op = "teardown" THEN "find" ELSE "admit")
    /\ UNCHANGED <<instance, starting, generation, runMu, recVars, loc, rt, smsMode>>

Invalidate(p) ==
    /\ pc[p] = "invalidate"
    /\ epoch' = epoch + 1
    /\ starting' = FALSE
    /\ state' = NoState
    /\ run' = NoRun
    /\ Cancel(run.owner)
    /\ Goto(p, IF loc[p].op = "teardown" THEN "find" ELSE "admit")
    /\ UNCHANGED <<instance, generation, runMu, recVars, loc, rt, smsMode>>

-----------------------------------------------------------------------------
(* SubmitLifecycle, LifecycleController.Submit, runAdmittedLifecycleCommand *)

preemptLifecycle(p) ==
    /\ Preempting(p)
    /\ run' = NoRun
    /\ Cancel(run.owner)

\* admitLifecycle refuses Enable when a runtime is claimed or starting.
admitLifecycle(p) ==
    /\ ~Preempting(p)
    /\ loc[p].op = "enable" => instance = None /\ ~starting
    /\ UNCHANGED <<run, ctxDone>>

Admit(p) ==
    /\ pc[p] = "admit"
    /\ \/ /\ preemptLifecycle(p) \/ admitLifecycle(p)
          /\ generation' = generation + 1
          /\ loc' = [loc EXCEPT ![p].gen = generation + 1]
          /\ Goto(p, "submit")
       \/ /\ loc[p].op = "enable" /\ (instance # None \/ starting)
          /\ Finish(p, "ok", "done")
          /\ UNCHANGED <<generation, run, ctxDone>>
    /\ UNCHANGED <<slotVars, runMu, recVars, rt, smsMode>>

Submit(p) ==
    /\ pc[p] = "submit"
    /\ runMu = None
    /\ runMu' = p
    /\ Goto(p, IF loc[p].rgen # 0 THEN "check" ELSE "bind")
    /\ UNCHANGED <<slotVars, generation, run, recVars, loc, ctxDone, rt, smsMode>>

desiredRecoverCurrent(g) == recover.present /\ recover.inFlight /\ recover.gen = g

Check(p) ==
    /\ pc[p] = "check"
    /\ IF desiredRecoverCurrent(loc[p].rgen)
       THEN Goto(p, "bind") /\ UNCHANGED loc
       ELSE Finish(p, "ok", "unlock")
    /\ UNCHANGED <<slotVars, lifeVars, recVars, ctxDone, rt, smsMode>>

\* runLifecycleCommand: where each kind of command starts.  SwitchEnd starts
\* the runtime only when it restores the radio; Restart of a removed worker
\* fails at once.
FirstStep(p) ==
    IF p \in Jobs THEN {"recoverable"}
    ELSE CASE loc[p].op = "enable"                  -> {"begin"}
           [] loc[p].op = "switchEnd"               -> {"begin", "unlock"}
           [] loc[p].op \in {"recover", "desired"}  -> {"recoverable"}
           [] loc[p].op = "restart"                 -> {"find", "unlock"}
           [] OTHER                                 -> {"find"}

bindLifecycleRun(p) ==
    /\ pc[p] = "bind"
    /\ IF generation = loc[p].gen
       THEN /\ run' = [owner |-> p, rgen |-> loc[p].rgen, recovery |-> IsRecovery(p)]
            /\ ctxDone' = [ctxDone EXCEPT ![p] = FALSE]
            /\ \E label \in FirstStep(p) : Goto(p, label)
            /\ UNCHANGED loc
       ELSE /\ Finish(p, "ok", "unlock")
            /\ UNCHANGED <<run, ctxDone>>
    /\ UNCHANGED <<slotVars, generation, runMu, recVars, rt, smsMode>>

\* Mutation: the run binding is not released.
UnlockKeepsRun(p) ==
    /\ pc[p] = "unlock"
    /\ runMu' = None
    /\ Goto(p, IF loc[p].rgen # 0 THEN "settle" ELSE "done")
    /\ UNCHANGED <<slotVars, generation, run, recVars, loc, ctxDone, rt, smsMode>>

\* Mutation: a desired recovery returns without finishDesiredRecover.
UnlockWithoutSettling(p) ==
    /\ pc[p] = "unlock"
    /\ run' = IF run.owner = p THEN NoRun ELSE run
    /\ runMu' = None
    /\ Goto(p, "done")
    /\ UNCHANGED <<slotVars, generation, recVars, loc, ctxDone, rt, smsMode>>

\* The deferred release of the run binding, then runMu.Unlock.
Unlock(p) ==
    /\ pc[p] = "unlock"
    /\ run' = IF run.owner = p THEN NoRun ELSE run
    /\ runMu' = None
    /\ Goto(p, IF loc[p].rgen # 0 THEN "settle" ELSE "done")
    /\ UNCHANGED <<slotVars, generation, recVars, loc, ctxDone, rt, smsMode>>

-----------------------------------------------------------------------------
(* Teardown: StopInstanceForTeardown, TeardownSession *)

CheckRecoverable(p) ==
    /\ pc[p] = "recoverable"
    /\ IF DesiredRecoverable
       THEN Goto(p, "find") /\ UNCHANGED loc
       ELSE Finish(p, "ok", "unlock")
    /\ UNCHANGED <<slotVars, lifeVars, recVars, ctxDone, rt, smsMode>>

\* What follows a teardown: Restart and Recover start a new runtime, a
\* teardown outside the controller returns, the rest return to Submit.
AfterTeardown(p) ==
    IF IsRecovery(p) \/ loc[p].op = "restart" THEN "begin"
    ELSE IF loc[p].op = "teardown" THEN "done" ELSE "unlock"

\* Mutation: the instance is deleted before it is stopped.
FindInstanceDeletes(p) ==
    /\ pc[p] = "find"
    /\ IF instance # None
       THEN loc' = [loc EXCEPT ![p].inst = instance] /\ Goto(p, "delete")
       ELSE UNCHANGED loc /\ Goto(p, AfterTeardown(p))
    /\ UNCHANGED <<slotVars, lifeVars, recVars, ctxDone, rt, smsMode>>

FindInstance(p) ==
    /\ pc[p] = "find"
    /\ IF instance # None
       THEN /\ loc' = [loc EXCEPT ![p].inst = instance]
            /\ Goto(p, "stop")
       ELSE /\ Goto(p, IF loc[p].op \in {"disable", "restart"} THEN "restore"
                       ELSE AfterTeardown(p))
            /\ UNCHANGED loc
    /\ UNCHANGED <<slotVars, lifeVars, recVars, ctxDone, rt, smsMode>>

\* Instance.Stop marks the runtime stopped and cancels its pipeline at once;
\* its cleanup goroutine joins the pipeline later.
StopRt(i) == rt' = [rt EXCEPT ![i].phase = IF @ = "live" THEN "stopped" ELSE @]

Stop(p) ==
    /\ pc[p] = "stop"
    /\ StopRt(loc[p].inst)
    /\ Goto(p, "stopWait")
    /\ UNCHANGED <<slotVars, lifeVars, recVars, loc, ctxDone, smsMode>>

\* Mutation: the wait for the stop cleanup has no way out.
StopReturnsJoined(p, ctxEnded) == rt[loc[p].inst].phase = "joined"

\* waitForStopCleanup: joined, or the context of the stop ended first.
StopReturns(p, ctxEnded) ==
    rt[loc[p].inst].phase = "joined" \/ StopDeadline \/ ctxEnded

\* Mutation: a Stop that ended with an error skips DeleteInstance.
StopWaitFails(p) ==
    /\ pc[p] = "stopWait"
    /\ StopReturns(p, Cancelled(p))
    /\ Goto(p, IF rt[loc[p].inst].phase = "joined" THEN "delete" ELSE AfterTeardown(p))
    /\ UNCHANGED <<slotVars, lifeVars, recVars, loc, ctxDone, rt, smsMode>>

StopWait(p) ==
    /\ pc[p] = "stopWait"
    /\ StopReturns(p, Cancelled(p))
    /\ Goto(p, "delete")
    /\ UNCHANGED <<slotVars, lifeVars, recVars, loc, ctxDone, rt, smsMode>>

\* DeleteInstance also deletes a slot that never was invalidated and never
\* recovered, and with it the lifecycle generation.
DeleteInstance(p) ==
    /\ pc[p] = "delete"
    /\ IF instance = loc[p].inst
       THEN /\ instance' = None
            /\ starting' = FALSE
            /\ state' = NoState
            /\ IF epoch = 0 /\ recover.gen = 0
               THEN generation' = 0 /\ run' = NoRun /\ recover' = NoRecover
               ELSE UNCHANGED <<generation, run, recover>>
       ELSE UNCHANGED <<instance, starting, state, generation, run, recover>>
    /\ Goto(p, "restore")
    /\ UNCHANGED <<epoch, runMu, loc, ctxDone, schedDone, rt, smsMode>>

\* Mutation: the teardown of a switch does not restore the SMS mode.
RestoreSMSModeUnlessSwitch(p) ==
    /\ pc[p] = "restore"
    /\ smsMode' = IF loc[p].op = "switchBegin" THEN smsMode ELSE "native"
    /\ Goto(p, AfterTeardown(p))
    /\ UNCHANGED <<slotVars, lifeVars, recVars, loc, ctxDone, rt>>

RestoreSMSMode(p) ==
    /\ pc[p] = "restore"
    /\ smsMode' = "native"
    /\ Goto(p, AfterTeardown(p))
    /\ UNCHANGED <<slotVars, lifeVars, recVars, loc, ctxDone, rt>>

-----------------------------------------------------------------------------
(* Startup: enableWhenReady, enableRuntime, StartRuntime *)

\* What may refuse a start before its claim: IsSwitching (not for SwitchEnd),
\* and for Restart and Recover also WaitQMICoreReady and WaitWorkerReady.
MayRefuse(p) == p \in Jobs \/ loc[p].op # "switchEnd"

BeginStart(p) ==
    /\ pc[p] = "begin"
    /\ \/ /\ MayRefuse(p)
          /\ Finish(p, "failed", "unlock")
          /\ UNCHANGED starting
       \/ /\ instance # None
          /\ Finish(p, "ok", "unlock")
          /\ UNCHANGED starting
       \/ /\ instance = None /\ starting
          /\ Finish(p, "failed", "unlock")
          /\ UNCHANGED starting
       \/ /\ instance = None /\ ~starting
          /\ starting' = TRUE
          /\ loc' = [loc EXCEPT ![p].epoch = epoch]
          /\ Goto(p, "prepare")
    /\ UNCHANGED <<instance, epoch, state, lifeVars, recVars, ctxDone, rt, smsMode>>

ShouldRun(p) == ~Cancelled(p) /\ epoch = loc[p].epoch

\* PrepareStart may fail; runtimehost.Start then asks ShouldRun first.
PrepareAndStart(p) ==
    /\ pc[p] = "prepare"
    /\ \/ \E r \in {"failed", "policy"} : Finish(p, r, "failStart")
       \/ ShouldRun(p) /\ Goto(p, "before") /\ UNCHANGED loc
       \/ ~ShouldRun(p) /\ Finish(p, "failed", "startErr")
    /\ UNCHANGED <<slotVars, lifeVars, recVars, ctxDone, rt, smsMode>>

\* BeforeStart: RecordStartupState carries no attempt token.
BeforeStart(p) ==
    /\ pc[p] = "before"
    /\ state' = IF instance = None /\ starting THEN [st |-> "sim", src |-> p] ELSE state
    /\ Goto(p, "create")
    /\ UNCHANGED <<instance, starting, epoch, lifeVars, recVars, loc, ctxDone, rt, smsMode>>

StartErrors == IF BusyPossible THEN {"failed", "busy"} ELSE {"failed"}

CreateInstance(p) ==
    /\ pc[p] = "create"
    /\ \/ /\ rt' = [rt EXCEPT ![p].phase = "live"]
          /\ Goto(p, "observe") /\ UNCHANGED loc
       \/ /\ \E r \in StartErrors : Finish(p, r, "startErr")
          /\ UNCHANGED rt
    /\ UNCHANGED <<slotVars, lifeVars, recVars, ctxDone, smsMode>>

AddObserver(p) ==
    /\ pc[p] = "observe"
    /\ rt' = [rt EXCEPT ![p].observed = TRUE]
    /\ Goto(p, "claim")
    /\ UNCHANGED <<slotVars, lifeVars, recVars, loc, ctxDone, smsMode>>

CurrentRecoverRun ==
    /\ recover.job # None \/ recover.inFlight
    /\ run.recovery /\ run.rgen = recover.gen

Claimable(p) == epoch = loc[p].epoch /\ starting /\ instance = None

ClaimStarted(p) ==
    /\ pc[p] = "claim"
    /\ IF Claimable(p)
       THEN /\ instance' = p
            /\ starting' = FALSE
            /\ state' = [st |-> rt[p].st, src |-> p]
            /\ IF (recover.present \/ recover.inFlight \/ recover.job # None)
                  /\ ~CurrentRecoverRun
               THEN /\ recover' = [ResetRecover(recover) EXCEPT !.gen = @ + 1]
                    /\ CancelSchedule(recover.job)
               ELSE UNCHANGED recVars
            /\ Goto(p, "mark")
       ELSE /\ Goto(p, "staleStop")
            /\ UNCHANGED <<instance, starting, state, recVars>>
    /\ UNCHANGED <<epoch, lifeVars, loc, ctxDone, rt, smsMode>>

\* Mutation: a superseded start returns without stopping its runtime.
StaleStopForgotten(p) ==
    /\ pc[p] = "staleStop"
    /\ loc' = [loc EXCEPT ![p].inst = p]
    /\ Goto(p, "staleWait")
    /\ UNCHANGED <<slotVars, lifeVars, recVars, ctxDone, rt, smsMode>>

StaleStop(p) ==
    /\ pc[p] = "staleStop"
    /\ StopRt(p)
    /\ loc' = [loc EXCEPT ![p].inst = p]
    /\ Goto(p, "staleWait")
    /\ UNCHANGED <<slotVars, lifeVars, recVars, ctxDone, smsMode>>

StaleWait(p) ==
    /\ pc[p] = "staleWait"
    /\ StopReturns(p, FALSE)
    /\ Finish(p, "ok", "unlock")
    /\ UNCHANGED <<slotVars, lifeVars, recVars, ctxDone, rt, smsMode>>

MarkRuntimeStarted(p) ==
    /\ pc[p] = "mark"
    /\ smsMode' = "vowifi"
    /\ Finish(p, "ok", "unlock")
    /\ UNCHANGED <<slotVars, lifeVars, recVars, ctxDone, rt>>

beginAPDUBusyRecoverSchedule(p, j) ==
    /\ pc[j] = "idle"
    /\ instance = None /\ recover.job = None /\ ~recover.present /\ ~recover.inFlight
    /\ recover' = [recover EXCEPT !.gen = @ + 1, !.attempt = 0, !.waiting = TRUE,
                                  !.present = TRUE, !.job = j]
    /\ loc' = [loc EXCEPT ![p].res = "failed", ![j].rgen = recover.gen + 1]
    /\ pc' = [pc EXCEPT ![p] = "failStart", ![j] = "timer"]

\* handleVoWiFiStartupError: a busy APDU path asks for a schedule, unless the
\* device refuses it; a refusal of the card policy forgets the recovery.
HandleStartupError(p) ==
    /\ pc[p] = "startErr"
    /\ IF loc[p].res = "busy"
       THEN \/ Finish(p, "failed", "failStart") /\ UNCHANGED recover
            \/ PolicyRevocable /\ Finish(p, "failed", "busyForget") /\ UNCHANGED recover
            \/ \E j \in Jobs : beginAPDUBusyRecoverSchedule(p, j)
       ELSE Goto(p, "failStart") /\ UNCHANGED <<recover, loc>>
    /\ UNCHANGED <<slotVars, lifeVars, ctxDone, schedDone, rt, smsMode>>

BusyForget(p) ==
    /\ pc[p] = "busyForget"
    /\ forgetDesiredRecover(p, "busyJoin", "failStart")

BusyJoin(p) ==
    /\ pc[p] = "busyJoin"
    /\ ScheduleClosed(loc[p].join)
    /\ Goto(p, "failStart")
    /\ UNCHANGED <<slotVars, lifeVars, recVars, loc, ctxDone, rt, smsMode>>

FailStart(p) ==
    /\ pc[p] = "failStart"
    /\ IF epoch = loc[p].epoch /\ starting
       THEN starting' = FALSE /\ state' = NoState
       ELSE UNCHANGED <<starting, state>>
    /\ Goto(p, "unlock")
    /\ UNCHANGED <<instance, epoch, lifeVars, recVars, loc, ctxDone, rt, smsMode>>

-----------------------------------------------------------------------------
(* Desired recovery results and the APDU-busy schedule goroutine *)

OwnsRecovery(p) == recover.inFlight /\ recover.gen = loc[p].rgen

\* finishDesiredRecover: a claimed runtime that is neither ready nor failed
\* keeps the retry history and only ends the flight.
finishDesiredRecover(p) ==
    LET pending  == loc[p].res = "ok" /\ instance # None /\ state.st # "ready"
        errored  == state.st \in {"failed", "canceled"}
        backsOff == loc[p].res = "failed" \/ (pending /\ errored)
    IN recover' = IF ~OwnsRecovery(p) THEN recover
                  ELSE CASE backsOff             -> BackOff([recover EXCEPT !.inFlight = FALSE])
                         [] pending /\ ~errored  -> [recover EXCEPT !.inFlight = FALSE]
                         [] OTHER                -> ResetRecover(recover)

SettleDesired(p) ==
    /\ pc[p] = "settle" /\ p \in Calls
    /\ finishDesiredRecover(p)
    /\ Goto(p, "done")
    /\ UNCHANGED <<slotVars, lifeVars, schedDone, loc, ctxDone, rt, smsMode>>

\* One opportunity of runAPDUBusyRecoverSchedule: its timer or its context.
ScheduleTimer(j) ==
    /\ pc[j] = "timer"
    /\ Goto(j, "attempt") \/ (schedDone[j] /\ Goto(j, "close"))
    /\ UNCHANGED <<slotVars, lifeVars, recVars, loc, ctxDone, rt, smsMode>>

beginAPDUBusyRecoverAttempt(j) ==
    /\ pc[j] = "attempt"
    /\ IF /\ instance = None /\ recover.present /\ ~recover.inFlight
          /\ recover.gen = loc[j].rgen /\ recover.job # None
       THEN /\ recover' = [recover EXCEPT !.inFlight = TRUE, !.waiting = FALSE]
            /\ Goto(j, "admit")
       ELSE Goto(j, "close") /\ UNCHANGED recover
    /\ UNCHANGED <<slotVars, lifeVars, schedDone, loc, ctxDone, rt, smsMode>>

deferAPDUBusyRecoverAttempt(j) ==
    IF recover.present /\ OwnsRecovery(j) /\ recover.job # None
    THEN /\ recover' = [recover EXCEPT !.inFlight = FALSE, !.waiting = TRUE]
         /\ loc' = [loc EXCEPT ![j].opp = @ + 1]
         /\ Goto(j, "timer")
    ELSE Goto(j, "close") /\ UNCHANGED <<recover, loc>>

\* Mutation: the last opportunity is followed by one more.
SettleScheduleOffByOne(j) ==
    /\ pc[j] = "settle" /\ j \in Jobs
    /\ IF schedDone[j]
       THEN Goto(j, "close") /\ UNCHANGED <<recover, loc>>
       ELSE IF loc[j].res = "failed" /\ loc[j].opp <= Opportunities
       THEN deferAPDUBusyRecoverAttempt(j)
       ELSE /\ finishDesiredRecover(j)
            /\ loc' = [loc EXCEPT ![j].completed = OwnsRecovery(j)]
            /\ Goto(j, "close")
    /\ UNCHANGED <<slotVars, lifeVars, schedDone, ctxDone, rt, smsMode>>

SettleSchedule(j) ==
    /\ pc[j] = "settle" /\ j \in Jobs
    /\ IF schedDone[j]
       THEN Goto(j, "close") /\ UNCHANGED <<recover, loc>>
       ELSE IF loc[j].res = "failed" /\ loc[j].opp < Opportunities
       THEN deferAPDUBusyRecoverAttempt(j)
       ELSE /\ finishDesiredRecover(j)
            /\ loc' = [loc EXCEPT ![j].completed = OwnsRecovery(j)]
            /\ Goto(j, "close")
    /\ UNCHANGED <<slotVars, lifeVars, schedDone, ctxDone, rt, smsMode>>

\* The deferred close(done) precedes releaseAPDUBusyRecoverSchedule.
CloseSchedule(j) ==
    /\ pc[j] = "close"
    /\ Goto(j, "release")
    /\ UNCHANGED <<slotVars, lifeVars, recVars, loc, ctxDone, rt, smsMode>>

releaseAPDUBusyRecoverSchedule(j) ==
    /\ pc[j] = "release"
    /\ recover' = IF recover.job # j THEN recover
                  ELSE IF ~loc[j].completed /\ recover.gen = loc[j].rgen
                  THEN [ResetRecover(recover) EXCEPT !.gen = @ + 1, !.job = None]
                  ELSE [recover EXCEPT !.job = None]
    /\ Goto(j, "done")
    /\ UNCHANGED <<slotVars, lifeVars, schedDone, loc, ctxDone, rt, smsMode>>

-----------------------------------------------------------------------------
(* The runtime of process i: its pipeline goroutine and its stop cleanup *)

\* updateStateForGeneration and failStageForGeneration: the pipeline moves on,
\* becomes ready, fails, or finds at its start that it should not run.
UpdateRuntimeState(i) ==
    /\ rt[i].phase = "live" /\ rt[i].pipe = "idle"
    /\ \E st \in {"up", "ready", "failed", "canceled"} :
         /\ CASE rt[i].st = "up"    -> st = "canceled" => ~ShouldRun(i)
              [] rt[i].st = "ready" -> st = "failed"
              [] OTHER              -> FALSE
         /\ rt' = [rt EXCEPT ![i].st = st, ![i].pipe = "notify"]
    /\ UNCHANGED <<slotVars, lifeVars, recVars, pc, loc, ctxDone, smsMode>>

\* snapshotForGeneration: observers are copied under the instance lock and
\* called after it is released.
SnapshotObservers(i) ==
    /\ rt[i].pipe = "notify"
    /\ rt' = [rt EXCEPT ![i].pipe =
                IF rt[i].phase = "live" /\ rt[i].observed THEN "publish" ELSE "idle"]
    /\ UNCHANGED <<slotVars, lifeVars, recVars, pc, loc, ctxDone, smsMode>>

\* Mutation: a state is taken although no startup is in progress.
PublishableWhenIdle(i) ==
    /\ epoch = loc[i].epoch
    /\ instance = i \/ (instance = None /\ state.src \in {None, i})

\* Before the claim the slot takes the state unless a newer one is there:
\* only the startup record of i's own attempt is older than a state of i.
Publishable(i) ==
    /\ epoch = loc[i].epoch
    /\ instance = i \/ (instance = None /\ starting /\ state.src \in {None, i})

publishRuntimeState(i) ==
    /\ rt[i].pipe = "publish"
    /\ rt' = [rt EXCEPT ![i].pipe = "idle"]
    /\ IF Publishable(i)
       THEN /\ state' = [st |-> rt[i].st, src |-> i]
            /\ recover' =
                 IF instance # i THEN recover
                 ELSE IF rt[i].st = "ready" THEN ResetRecover(recover)
                 ELSE IF /\ state.st \notin {"failed", "canceled"}
                         /\ rt[i].st = "failed" /\ ~recover.inFlight
                 THEN BackOff(recover) ELSE recover
       ELSE UNCHANGED <<state, recover>>
    /\ UNCHANGED <<instance, starting, epoch, lifeVars, schedDone, pc, loc,
                   ctxDone, smsMode>>

\* finishStopCleanup: the pipeline goroutine has returned.
FinishStopCleanup(i) ==
    /\ rt[i].phase = "stopped" /\ rt[i].pipe = "idle"
    /\ rt' = [rt EXCEPT ![i].phase = "joined"]
    /\ UNCHANGED <<slotVars, lifeVars, recVars, pc, loc, ctxDone, smsMode>>

-----------------------------------------------------------------------------
CommandStep(p) ==
    \/ Forget(p) \/ Join(p) \/ Invalidate(p)
    \/ Admit(p) \/ Submit(p) \/ Check(p) \/ bindLifecycleRun(p) \/ Unlock(p)
    \/ CheckRecoverable(p) \/ FindInstance(p) \/ Stop(p) \/ StopWait(p)
    \/ DeleteInstance(p) \/ RestoreSMSMode(p)
    \/ BeginStart(p) \/ PrepareAndStart(p)
    \/ BeforeStart(p) \/ CreateInstance(p) \/ AddObserver(p) \/ ClaimStarted(p)
    \/ StaleStop(p) \/ StaleWait(p) \/ MarkRuntimeStarted(p)
    \/ HandleStartupError(p) \/ BusyForget(p) \/ BusyJoin(p) \/ FailStart(p)
    \/ SettleDesired(p)

ScheduleStep(j) ==
    \/ ScheduleTimer(j) \/ beginAPDUBusyRecoverAttempt(j) \/ SettleSchedule(j)
    \/ CloseSchedule(j) \/ releaseAPDUBusyRecoverSchedule(j)

RuntimeStep(i) ==
    \/ UpdateRuntimeState(i) \/ SnapshotObservers(i)
    \/ publishRuntimeState(i) \/ FinishStopCleanup(i)

Returned == /\ \A c \in Calls : pc[c] = "done"
            /\ \A j \in Jobs : pc[j] \in {"idle", "done"}

\* Every call has returned and nothing is left to do.
Quiet == Returned /\ UNCHANGED vars

Next ==
    \/ \E c \in Calls : Invoke(c)
    \/ \E p \in Procs : CommandStep(p) \/ RuntimeStep(p)
    \/ \E j \in Jobs : ScheduleStep(j)
    \/ BackoffElapses
    \/ Quiet

Spec == Init /\ [][Next]_vars

\* Goroutines are scheduled and the schedule's timers fire; the environment
\* need not call, and a runtime need not progress.
Fairness ==
    /\ \A p \in Procs : WF_vars(CommandStep(p))
    /\ \A j \in Jobs : WF_vars(ScheduleStep(j))

FairSpec == Spec /\ Fairness
-----------------------------------------------------------------------------
(* Properties *)

StartLabels == {"prepare", "before", "create", "observe", "claim",
                "startErr", "busyForget", "busyJoin", "failStart"}

\* The starting flag belongs to the attempt that holds runMu, at its epoch: no
\* error path, preemption or teardown leaks it (a leaked flag would refuse
\* every later Enable, BeginStart and desired recovery of the device).
StartingHasOwner ==
    starting => /\ runMu # None
                /\ pc[runMu] \in StartLabels
                /\ loc[runMu].epoch = epoch

\* A cancel handle in the slot is the one of the command that holds runMu, so
\* preemption never cancels a command that has already returned.
RunCancelIsRunning == run.owner # None => run.owner = runMu

\* Every running runtime is the claimed one or is still in the hands of the
\* attempt that created it, which claims it or stops it: none is leaked.
NoOrphanRuntime ==
    \A i \in Procs : rt[i].phase = "live" =>
        instance = i \/ pc[i] \in {"observe", "claim", "staleStop"}

\* A stopped runtime stays in the slot only while the call that stops it is
\* about to delete it; a stale start never claims a runtime it stopped.
NoStoppedRuntimeClaimed ==
    \A i \in Procs : instance = i /\ rt[i].phase # "live" =>
        \E q \in Procs : pc[q] \in {"stopWait", "delete"} /\ loc[q].inst = i

\* A visible state speaks of the claimed runtime, or of a startup in progress:
\* neither a dropped runtime nor an ended attempt stays published.
NoGhostState ==
    state.st # "none" => state.src = instance \/ (instance = None /\ starting)

\* The in-flight flag that deduplicates desired recovery is owned by exactly
\* one call or schedule that will still settle it: a lost owner would disable
\* reconcile for good, a second one would double the recovery.
InFlightHasOwner ==
    recover.inFlight =>
        \E p \in Procs : /\ loc[p].rgen = recover.gen
                         /\ pc[p] \notin {"idle", "done"}
                         /\ \A q \in Procs : loc[q].rgen = recover.gen => q = p

\* The slot's APDU-busy schedule is alive, and every other schedule goroutine
\* still alive has been cancelled: at most one schedule can act.
OneLiveSchedule ==
    /\ recover.job # None => pc[recover.job] \notin {"idle", "done"}
    /\ \A j \in Jobs : pc[j] \notin {"idle", "done"} /\ recover.job # j => schedDone[j]

\* Once every call has returned, no runtime stays claimed at an epoch that was
\* invalidated under it: Stop or replacement really stopped it.
InvalidatedRuntimeIsStopped ==
    Returned /\ instance # None => loc[instance].epoch = epoch

\* No command or schedule is under way, and no TeardownForReconnect was called: that
\* one runs outside runMu.
AtRest == \A p \in Procs : pc[p] \in {"idle", "done"}
NoReconnect == \A c \in Calls : loc[c].op # "teardown"

\* At rest, SMS goes through the modem on a device without a runtime, and through
\* the runtime on a device that has one, whatever claims, marks, stops and restores
\* came before.
SMSModeFollowsRuntime ==
    AtRest /\ NoReconnect => smsMode = IF instance = None THEN "native" ELSE "vowifi"

\* A runtime leaves the slot only stopped, and never directly to another one.
ReplacedOnlyWhenStopped ==
    [][instance # None /\ instance' # instance =>
         instance' = None /\ rt[instance].phase # "live"]_vars

\* The policy refuses a busy start, and the refusal forgets and joins the schedule
\* while it holds runMu: the schedule that runs this start, or one that waits for
\* runMu.
JoinsUnderRunMu ==
    \E p \in Procs : /\ pc[p] = "busyJoin"
                     /\ loc[p].join = p \/ pc[loc[p].join] = "submit"

\* Every call returns: no cycle of runMu, the schedule's done channel and a
\* runtime's stop blocks a caller for ever, but for that one.
CallsReturn == \A c \in Calls : pc[c] # "idle" ~> pc[c] = "done" \/ JoinsUnderRunMu

\* Every recovery flight ends, so reconcile can act again.
FlightsEnd == recover.inFlight ~> ~recover.inFlight

-----------------------------------------------------------------------------
(* What the documentation says, and the code does not do *)

\* Stale attempts and stale instances publish nothing: while a startup is in
\* progress and nothing is claimed, the visible state is that startup's own.
StalePublishNothing ==
    instance = None /\ starting /\ state.st # "none" => state.src = runMu
=============================================================================
