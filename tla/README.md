# A verification project for shannon-ims (VoHive)

The program runs 4G/5G modems and, for each of them, a VoWiFi client: an IKEv2/IPsec tunnel to the
operator's ePDG, an IMS registration over it, and SMS, USSD and voice over that registration. This
directory holds TLA+ models of the parts of it whose correctness depends on the order in which things
happen, the TLC configurations that check them on small instances, and proofs of the main invariants for
every size of the instance.

Paths below are relative to the repository root (`src/`).

## 1. Inventory

### 1.1 Parts, state and operations

| Part | State it keeps | Operations | What makes it correct |
| --- | --- | --- | --- |
| `internal/vowifihost.Store` | per device: startup `epoch`, `starting`, claimed `instance`, last `state`, `lifecycleGeneration`, cancel handle of the running command, desired-recovery record | BeginStart, ClaimStarted, FailStart, RecordStartupState, publishRuntimeState, Invalidate, DeleteInstance, admit/preempt/bindLifecycleRun | one claimed runtime, no leaked claim, nothing stale published, a cancelled thing is the right thing |
| `vowifihost.Manager`, `LifecycleController` | `runMu` of each device | Enable, Disable, Restart, Recover, SwitchBegin/End, TeardownForReconnect, InvalidateRuntime | commands are serial, the latest intention wins, every call returns, an invalidated runtime ends stopped |
| Reconcile, APDU-busy schedule (same package) | generation, attempt count, delay, in-flight flag, schedule goroutine | ScheduleDesiredRecover, ForgetDesiredRecover, schedule begin/attempt/defer/release | one recovery at a time, cancelable and joined, a flight always ends |
| `internal/device` VoWiFi adapter | `Worker.smsMode`, policy projection | startup gates, handling of startup errors, teardown, radio restore | the device is left with a working SMS path |
| `runtimehost.Instance` | state, generation, observers, messaging service with its in-flight count, stop/cleanup channels | Start, pipeline, AddObserver, Stop, borrow/release of messaging | Stop refuses new borrows and joins old ones; nothing is published after it |
| `runtimehost.swuSessionLease` | session, Connect task, MOBIKE admission, result | open, ready, MOBIKE, cancel, close | no session survives its lease, no MOBIKE during cleanup |
| `ipsec3gpp.ProtectedChannelOwner` | generation counter, client port table, current channel, pending leases; per channel its flows, dial flag, in-flight operations, close state | Reserve, Install, OpenUDP/OpenTCP, DialTCPClient, Adopt, AcceptServerFlow, operations, lease and handle Close, Close | exactly-once adopt and close, no generation lost, a port is free only when nothing of its generation is left, every close returns |
| `ipsec3gpp` replay window, packet transforms, TCP stack | highest sequence number and bitmap per SA; TCP flows | seal, open, verify | a sequence number is accepted at most once |
| `imscore.Service` | registration state, refresh timer, protected channel handle | StartSession, Refresh, Close | a failed refresh leaves a usable or a closed service |
| `internal/apduarbiter` | ticket queue, current lease, barriers, suspect transport | Acquire, Release, Submit, transport recovery | FIFO, one APDU owner, a suspect transport is recovered before it is used |
| `internal/db` eSIM switch journal, `device` eSIM switch | journal row: epoch, generation, phase, version | Begin, Transition, Reconcile on start | a crash leaves a row that reconciliation can finish |
| `internal/db` SMS delivery | part states, message state | submit report, status report | accepted is not delivered; duplicate and reordered reports are harmless |
| transport recovery, health watchdog (`internal/device`) | recovery stage, attempt counters | suspect, recover, reboot | one recovery per device, escalation bounded |
| CS calls, SIP gateway, proxies, modem/QMI/MBIM drivers, eSIM LPA, notification, HTTP API, web UI, configuration | mostly I/O and codecs | | left out, see 12 |

### 1.2 How they interact

The HTTP API and the device pool call the vowifihost Manager. The Manager serialises commands through one
mutex per device (`deviceLifecycle.runMu`), keeps everything it knows about the device in the Store under
`Store.mu`, and starts and stops `runtimehost.Instance`s. An Instance runs a pipeline goroutine that leases
a SWu session, registers with IMS through a protected channel, and reports its state through an observer
the Manager installed; the observer writes the Store. The device pool is called back for the gates of a
startup (SIM, policy, radio), for its errors and for the radio restore after a teardown; on a busy APDU
path it asks the Store for a schedule of later attempts. Reconcile looks at the Store from the outside and
admits a desired recovery when nothing runs.

### 1.3 What is hard

Several callers, one pipeline goroutine for each runtime (an old one may still be ending), schedule
goroutines and observers all touch one slot, and no lock is held across a start or a stop. Every decision
is therefore taken with a token (epoch, lifecycle generation, recovery generation, instance pointer) read
in an earlier critical section. Stop has a deadline and a context, so it may return early. The hazards are
listed at their lines in `PROJECT.json`.

## 2. Plan

1. **RuntimeAttempt** (done): Store, Manager, LifecycleController, Reconcile and the
   APDU-busy schedule against the life of the Instances. It comes first because every other part is
   started and stopped through it. Proofs: every safety property of its passing run.
2. **ProtectedChannel** (done): reserve, open, adopt, replace, retire, stop, and the operations, dials and accepts that
   race them. Proofs: all its safety invariants.
3. **ReplayWindow** (done): the anti-replay window and the inbound transform that feeds it, refining **AntiReplay**, which remembers
   every accepted number; proof of the refinement.
4. **ApduArbiter** (done): the ticket queue, leases, barriers, suspect transport, recovery, watchdog, refining **ApduBus**, which
   says only which leases may be granted together.
5. **EsimSwitch** (done): the journal and its compare-and-swap with crash and restart, the switch, its recovery and the
   reconciliation by the next worker.
6. **SmsDelivery** (done): part and message state under lost, duplicated, reordered and late reports.
7. **RuntimeInstance** over **SWULease** (done): one runtime from the inside, the staged pipeline, the sessions it opens, the calls that
   borrow from it, and Stop. Proofs: its safety invariants.
8. Left: **ImsService**, **TransportRecovery**, and the mapping of RuntimeInstance to the `rt` part of RuntimeAttempt.

The number of runs is kept small: one safety run for a component, which checks its liveness too where the instance is small enough,
with the properties of one question together, and one run for each difference from the documentation that matters most.

## 3. RuntimeAttempt: the model

`RuntimeAttempt.tla` is one device. A process is one call into the Manager (`Calls`) or one APDU-busy
schedule goroutine (`Jobs`); a runtime is named by the process that creates it, because a process creates
at most one. The program counter `pc[p]` names the critical section p runs next, and one action is one
critical section of `Store.mu`, of `runMu` or of `Instance.mu`: everything the code does between
`Lock` and `Unlock`, its early returns included.

| Variable | Code |
| --- | --- |
| `instance`, `starting`, `epoch`, `state` | the same fields of `runtimeSlot` (`internal/vowifihost/store.go`); `state` keeps the outcome class and the runtime it speaks of |
| `generation`, `run` | `lifecycleGeneration`; `runCancel`, `runKind`, `runRecoverGeneration` |
| `recover` | the `recover*` fields; `waiting` is "recoverNextAt is in the future", `job` is recoverScheduleCancel/Done |
| `runMu` | `deviceLifecycle.runMu` (`controller.go`) |
| `pc`, `loc` | where each goroutine is and its local tokens (generation, epoch, recovery generation, instance it stops, result) |
| `ctxDone`, `schedDone` | the run context and the schedule context are cancelled |
| `rt` | each runtime: unused, live, stopped or joined; its state; whether its observer is installed; where its pipeline is in "change state, copy observers, call them" |
| `smsMode` | `Worker.smsMode` as MarkRuntimeStarted and RestoreSMSMode write it |

Actions by part of the code (every row of the map in `PROJECT.json` names the lines):

- `Invoke`, `Forget`, `Join`, `Invalidate`: the entry of an operation, ForgetDesiredRecover with its wait for
  the schedule, and Store.Invalidate.
- `Admit`, `Submit`, `Check`, `bindLifecycleRun`, `Unlock`: SubmitLifecycle, the wait for `runMu`, and
  runAdmittedLifecycleCommand.
- `CheckRecoverable`, `FindInstance`, `Stop`, `StopWait`, `DeleteInstance`, `RestoreSMSMode`: recoverRuntime and
  the teardown.
- `BeginStart`, `PrepareAndStart`, `BeforeStart`, `CreateInstance`, `AddObserver`, `ClaimStarted`, `StaleStop`,
  `StaleWait`, `MarkRuntimeStarted`, `HandleStartupError`, `BusyForget`, `BusyJoin`, `FailStart`: enableRuntime,
  StartRuntime and runtimehost.Start.
- `SettleDesired`, `BackoffElapses`, `ScheduleTimer`, `beginAPDUBusyRecoverAttempt`, `SettleSchedule`,
  `CloseSchedule`, `releaseAPDUBusyRecoverSchedule`: the goroutines of reconcile and of the schedule.
- `UpdateRuntimeState`, `SnapshotObservers`, `publishRuntimeState`, `FinishStopCleanup`: the pipeline goroutine of
  a runtime and its cleanup.

What is abstracted:

- The stages of the pipeline are one state `up`; only ready, failed and canceled are told apart, as
  the Store does (`IMSReady`, `LastErrorClass`).
- The gates of a startup (SIM, policy, radio, profile) and the operations of the radio are choices: a start may fail
  at any of them. `PolicyRevocable` says whether the policy may refuse the busy schedule.
- `UpdatedAt` is compared in one place, to refuse a state older than the startup record. A startup record is made
  after the stop of the runtime before it, so the comparison is `state.src \in {None, i}`.
- A cancel function taken from the slot is called right after `Store.mu` is released; in the model it is called in the
  same step. Every check of the context that matters is made together with the epoch or the recovery generation,
  which change under the lock.
- Waiting for a timer (back-off, schedule opportunity) is a step that may happen at any time. The attempt count is
  capped at `MaxAttempt` = 2, from which `DesiredRecoverDelay` is constant.
- A slot that the Store deletes (empty, epoch 0) equals one it never created, except for its lifecycle
  generation; in the model generation and recovery generation are never reset. A command queued across such a
  deletion is therefore not covered.

The operations RequestVoWiFiRecover, ClearStartupState and SetInstance have no callers in production code and
are not operations of the environment (`recover` is Manager.Recover, which the API of the package offers).

### 3.1 Bounds and fairness

`MCRuntimeAttempt.tla` gives two or three calls (model values, symmetric in safety runs) and at most two schedules,
and each configuration lists the operations the calls may choose (`Kinds`). Three calls are what the interesting races
need: one to own the runtime, one to invalidate it, one that is admitted in between. Each call is made once, so
generations and epochs are bounded by the number of calls. `BusyPossible` and `PolicyRevocable` switch the busy path
on; `StopDeadline` lets Stop return before the runtime is joined, as its 10 s deadline does.

Fairness (`FairSpec`, used by `live`) is weak fairness of every process's own steps: goroutines are scheduled, timers of
the schedule fire, and the deadline of Stop expires. That is what the Go runtime gives. A call need not be made, a runtime
need not make progress, and `runMu` need not be fair: each call takes it a bounded number of times, so a waiter gets
it in the end.

### 3.2 Runs

| Run | Calls and operations | Shows |
| --- | --- | --- |
| `replace` | one of three mixes: three of restart, recover; three of enable, disable, begin of a card switch; two of enable, desired recovery, disable, forget, teardown, end of a switch, with two schedules and a policy that may refuse | TypeOK, StartingHasOwner, RunCancelIsRunning, NoOrphanRuntime, NoGhostState, SMSModeFollowsRuntime, NoStoppedRuntimeClaimed, InFlightHasOwner, OneLiveSchedule, ReplacedOnlyWhenStopped |
| `live` | 2, and one schedule: enable, desired recovery, disable, forget, with a policy that may refuse, under FairSpec | CallsReturn, FlightsEnd |

`replace` is `MCRuntimeMix.tla`: the callers of a behaviour agree on a mix of operations before they start, so that the kinds of calls which
need three of them are explored with three, and the kinds which need the schedules with two. The third call comes while there is a claimed
runtime and no startup in progress, and the busy path and the policy refusal are open in the third mix only; these two restrictions keep the run small, and the
proofs of 10.1 do not have them. SMSModeFollowsRuntime speaks of every moment at which no command or schedule is under way (`AtRest`), unless a
TeardownForReconnect was called (`NoReconnect`): that one does not hold `runMu`, see 3.3. Deadlock is not checked in either run: a
busy start may block for ever, see 3.3.

The runs expected to be violated are differences between code and documentation:

| Run | Difference |
| --- | --- |
| `dropped_stop` | InvalidatedRuntimeIsStopped. A Disable waits for `runMu`; a desired recovery is admitted, which makes the Disable's generation stale; the Disable is dropped, and the recovery, forgotten in the meantime, returns: the runtime of the invalidated epoch stays. `SHANNON_IMS_ARCHITECTURE.md:101`. |
| `stale` | StalePublishNothing. Between BeginStart and the first startup record, a state snapshotted by a deleted runtime of the same epoch is published. `SHANNON_IMS_ARCHITECTURE.md:258`. |

### 3.3 Observations without a run

- A second Restart cancels the context under which the first waits in Stop; the first then deletes and replaces a runtime that
  has been stopped but not joined.
- A desired recovery that is forgotten between `desiredRecoverCurrent` and `bindLifecycleRun`
  (`lifecycle_run.go:32`) is bound and enters its lifecycle run, although `reconcile_test.go:182` calls a forgotten
  recovery in a lifecycle run a failure; the test forgets before the first of the two sections. The claim at the end of
  that run is refused.
- A Forget that cancels the run context after `runtimehost.Start` returned makes the pipeline end as canceled.
  ClaimStarted compares epoch and `starting` and claims the dead runtime, and `desiredRecoverableSlot` excludes
  canceled: reconcile does not bring the device back.
- On a busy startup error the adapter asks for the eligibility, whose policy refusal calls ForgetDesiredRecover, which waits for the done channel
  of the schedule while the command holds `runMu`. When the command is the schedule's own attempt, or the schedule's attempt waits for
  `runMu`, the wait never ends (`JoinsUnderRunMu`). CallsReturn shows that nothing else keeps a call from returning. `runtimehost.Start` returns no
  busy error today, so the path is only reached through the host contract.
- A TeardownForReconnect, which does not take `runMu`, can restore the SMS path before MarkRuntimeStarted switches it
  to VoWiFi, and the device is left in VoWiFi mode without a runtime (TLC finds it when SMSModeFollowsRuntime is checked without `NoReconnect`).
- Enable returns nil without starting anything while a Disable has not yet deleted the old runtime.

## 4. ProtectedChannel: the model

`ProtectedChannel.tla` is one `ProtectedChannelOwner` (`vowifi-go/internal/vowifi/ipsec3gpp/protected_channel.go`) with
every lease, channel and handle it makes. A generation names its lease, its channel and its handle, since they are made
together. A thread is a goroutine inside one call; `pc` names what it does next and `loc` holds its local variables.
One action is one critical section of the owner's, the lease's or the channel's mutex, or one call into a flow.

| Variable | Code |
| --- | --- |
| `stopped`, `generation`, `portOffset`, `activePorts`, `activeGenerations` | fields of the owner |
| `current`, `pending` | `owner.current`, `owner.pending` |
| `lease` | `lease.closed`, `lease.adopted` and the presence of the lease |
| `handles` | the handles Adopt has returned |
| `installed`, `held`, `dialing` | `channel.transport`; the flow fields of the channel (`udp`, `tcpStack`, `tcpListener`, `tcpClient`, `tcpServers`); `tcpDialing` |
| `open` | the flows that exist, whoever refers to them: what a leak would leave |
| `phase`, `operations` | `closing`/`closeOnce`; the `sync.WaitGroup`, as the set of its borrowers |
| `replaced` | history: what each adoption displaced |

- `Reserve`, `Install`, `OpenUDP`, `OpenTCP`: the life of a lease until it is ready. The port search from the rotating offset is
  `reserveClientPort`.
- `LeaseIO`, `HandleIO`, `ServerIO`, `clientConn`, `IOReturns`, `endOperation`: every operation that borrows the channel (read,
  write, deadlines, addresses). The flow is read under the lock and used after it, so a close may come between.
- `DialTCPClient`, `DialChecked`, `DialReturns`, `Publish`; `AcceptServerFlow`, `Listener`, `AcceptReturns`, `RegisterServer`,
  `CloseServer`: the TCP flows. A dial and an accept produce a connection outside any lock, and only then look whether the lease or
  the channel still wants it.
- `Adopt`, `AdoptStale`, `CloseLease`, `retire`, `CloseOwner`: the ways to take a generation out of the owner; each hands it to
  the close that follows.
- `BeginClose`, `Collect`, `Shut`, `Join`, `releaseGeneration`: `protectedChannel.close` and the callback that frees the port.

Abstracted: packets, SPIs, transforms and addresses; errors of a flow call (it returns); the stage of an Install that can fail
before it changes anything. OpenTCP publishes stack and listener together, as the code does under the lease's mutex. The order in which
Owner.Close closes several leases is any, as it ranges over a map. A lease whose Reserve finds no free port is not made.

### 4.1 Bounds and fairness

`MaxGeneration` bounds the reservations, `ClientSpan` is 2 for 256, so that the offset wraps, a port is live at the
search and all are taken; a thread holds one accepted connection at a time. `Carriers` says which carriers the lease of a
generation may open. Two threads are enough for each pair of operations to race while one of them is a close. The proofs hold
for every number of each.

`FairSpec`: weak fairness of a thread's own steps inside a call (goroutines run; a dial ends with its context, whose deadline
the caller sets) and of the return of a call whose flow has been closed, which is the contract of `net.Conn` and of the
protected flows. A read or an accept on an open flow may block for ever: the peer owes nothing. No call has to be made.

### 4.2 Runs

| Run | Instance | Shows |
| --- | --- | --- |
| `channel` | 2 threads, 2 generations, the first over either carrier and its renewal over UDP, 2 ports, FairSpec | TypeOK, ClosedByOne, NoLostGeneration, ReplacementJoins, LiveGenerationOwnsPort, ClosedLeavesNothing, CloseReturns, StopClosesAll |

Deadlock is not checked: a stopped owner whose threads are idle has nothing left to do.

StopIsFinal (nothing is open to use after Stop) is proved and not checked by the run; StopClosesAll is its consequence in time.

Observations without a run:

- Owner.Close joins the channels it takes itself. One that a handle's Close, a lease's Close or an Adopt took just before, and is still
  joining, is not among them, and Owner.Close returns while its operation runs (three goroutines and one generation reach it).
  `SHANNON_IMS_ARCHITECTURE.md:169` says that the owner enforces "in-flight operation join before replacement or Stop". The
  messaging connection's Close and the service's Close (`imscore/service.go:168`) are two such callers.
- Adopt joins only the channel it displaces. While a retired channel is still being joined, `current` is already nil, the next Adopt
  returns at once, and operations run on both generations. `SHANNON_IMS_ARCHITECTURE.md:167` says "replacement without mixing SA
  generations". `imscore.Service` adopts one lease in its life today.
- A lease is stale when a newer generation is current. After the newer one was retired, an older pending lease can be adopted,
  and the generation goes back.

## 5. ReplayWindow: the model

`ReplayWindow.tla` is one inbound SA: `ReplayWindow` (`ipsec3gpp/replay.go`) and the part of `Transport.TransformInbound`
(`transport.go:160-217`) that decides whether and when `Accept` is called. The peer is outside of `src/` and may send any number in any
order; whatever it sent may arrive any number of times, and a packet that it did not send may carry any number and fails the
integrity check. Each thread takes one packet through `Receive`, `Decapsulate` (no lock, no shared state) and `Accept` (under
the window's mutex), so that verified packets race to the window. `bitmap` is the set of the positions of the bits that are set;
`<<=` and `1 << delta` lose what leaves the word, as Go's do. `accepted` is history; `verdict` is the outcome of the last Accept, the counter
of its statistics that grew. `Take` and `Drop` are the ways through Accept that return true and false.

`AntiReplay.tla` is what it promises without a window: among the numbers sent, a number is accepted once, and refused only when
it is zero, was accepted, or is Size or more behind a number accepted before. `Implements` is `AntiReplay!Spec` with `sent`, `accepted` and `verdict` as they are; it says both that nothing is replayed and that nothing fresh is refused.

The run `replay_window` (2 threads, numbers 0 to 6, window and word of 3 bits; the code has 64 for both, so the case that a bit leaves
the word is at the same place) checks Implements, of which the exactness of the window (WindowExact) and OnlyAuthenticated, proved in 10.3, are parts. Seven numbers and a window of three are enough for a
jump inside the window, to its end and past it. `RELEASE_NOTES.md:79` says that numbers are committed only after the integrity
check; the model agrees with it. Left out: the protocol check after Accept, which only drops the packet, and the outbound counter, one
atomic addition.

## 6. ApduArbiter: the model

`ApduArbiter.tla` is the `Arbiter` of one device (`internal/apduarbiter/arbiter.go`). A caller is a goroutine with one request; an action is
one critical section of `Arbiter.mu`.

| Variable | Code |
| --- | --- |
| `queue` | `Arbiter.queue`, the tickets in their order |
| `phase` | the lease or barrier of a caller: its presence among the active ones, its watchdog timer, `suspect`, `recovering` |
| `pc` | where the caller is; `gone` is `ownerDone` |
| `awake` | waiters whose `notifyC` has been closed and who have not looked since |
| `aged` | tickets older than `transportPriorityAging` |
| `recovers` | `Options.RecoverTransport` is set |

`Request`, `LookAgain`, `Timeout`: acquire and BeginBarrier with their wait; `canAcquire` and what it calls, down to the choice of the next transport
ticket (`selectedTransport`), are the functions of the same names. `Release`, `Touch`, `TimerFires`, `releaseExpired`, `releaseRecovered`,
`RecoveryFails`, `markBarrierSuspect`: owners, the watchdog and the recovery. `WaitIdle`, `LookIdle`, `WatchTimeout`: WaitIdle. Logging, owner names
and durations are left out; a context that ends is a step that may happen whenever the caller waits.

`ApduBus.tla` is what the modem is promised: a one-shot or an exclusive transport is alone, sessions and QMI channels stay in their windows and
QMI channels differ, a barrier starts without leases and keeps its classes out, and nothing is granted beside a suspect transport.
`Implements` maps the active leases to `granted` and the suspect ones to `suspect`.

The run `apdu` starts from six mixes of four requests, those production code makes: a profile switch against AKA and downloads, two switches, QMI
channels against the window (two channels) and an exclusive transport, one channel asked for twice, AKA against downloads, and the legacy leases.
Four callers fill the window and leave two in the queue, which is what the scan of the queue distinguishes. It checks TypeOK,
NoLostWakeup, ExclusiveNotOvertaken, Served and Implements; BarrierHolds and SuspectIsFenced, which the bus says too, are proved. Fairness: a woken goroutine takes the mutex, an owner releases,
a recovery ends (it runs under `RecoveryTimeout`). Nobody must time out, so Served says that the queue empties without time-outs.

`apdu_aging` is a difference from a test (`arbiter_test.go:162`, `TestTransportPriorityAgingPreventsEUICCStarvation`). An AKA ticket
and an older eUICC ticket wait; the holder releases and wakes both; the eUICC ticket looks, is not selected and sleeps; it ages; the AKA ticket looks, finds that the aged
one is selected, and sleeps. Both wait for an idle modem until a third party signals. NoLostWakeup and Served exclude exactly this case.

Served has a second exception, `Abandoned`: a recovery that fails after the owner released (`arbiter.go:780`) clears `recovering`, but looks at no
`ownerDone` and signals nobody, so the suspect lease fences the device from then on.

## 7. EsimSwitch: the model

`EsimSwitch.tla` is one device: the journal (`internal/db/esim_switch_journal.go`), the switch (`internal/esim/manager.go` SwitchProfileWithResult and
the callbacks of `internal/device/pool_esim_switch.go`) and the reconciliation (`pool_esim_switch_reconcile.go`). A switch names its call, its
row and its token. A worker is a number that stands for owner epoch and worker generation: both only grow, and no row survives with one and not the other.

| Variable | Code |
| --- | --- |
| `row` | the journal rows: phase, owner, version, and which worker reconciles |
| `worker`, `workers`, `accepting`, `closed`, `removing` | `Pool.workers`, the generation counter, the lease owner of each worker, closed modems, the removals that wait |
| `context` | `Pool.switchContexts` and `switchTokens` |
| `profile`, `down`, `tried` | the card; radio, data or VoWiFi released by a teardown and not back; a restore that only logs its errors has ended since |
| `pc`, `at`; `rec`, `seen` | where each call is and its worker; where each reconciliation is and the row it read |
| `touched`, `evidence`, `robbed` | history: which switches acted on the device, were answered by the card, were claimed from a worker whose modem was open |
| `late`, `overtaken` | history: rows created or claimed by a worker that was not registered any more; workers that were in a physical step when another was registered |

Every transaction of the journal may fail (`JournalFaults`), the live ICCID may be unreadable (`ReadFaults`), the two-minute guard may fire at any time
(`GuardMayFire`), the process may end between any two steps (`Crash`), a worker may be removed and replaced while a switch runs, and
EnableProfile may end without an answer although the card has switched. A restore after a switch (`Restore`, `BestEffortRestore`) may leave the device down: radio, data and VoWiFi
are each attempted, and an error is logged and nothing else. A worker is registered whenever the pool has none (`Register`), whether or not `RemoveWorker` still waits for the leases of the one before;
several removals may wait at once. Abstracted: the identity, registration and SIM authentication waits of the recovery and the restore at their end are one step that ends well, badly or overtaken;
the radio, data and VoWiFi facts of the snapshot are `down`; the `rebuilding` flag of the pool is left out: it only keeps
workers out, and may be cleared at any time.

The run `esim` has two calls for two profiles and two workers, so each switch can meet the other, its own worker's reconciliation, and the next worker's (1.45 million states). Its bounds are in
`MCEsimSwitch.tla`: the call for the profile that is not active comes first, on a worker that another may follow, and the other call is made when the first is past its wait for the lock (`FirstCall`); the guard
fires on the first switch only (`GuardOfFirst`); the last worker starts and stays, since nobody would come after it (`LastWorkerStays`). The proofs have none of these.
It checks TypeOK, JournalIsTrue, OneWorkerActs, TornDownIsBlocked, Settles and TakenOver. Fairness: goroutines run, physical steps and waits have
deadlines, the start of a worker is followed by its reconciliation, a removal goes on when its leases are idle. Deadlock is not checked:
when both calls are over and no worker is left nothing happens.

The properties name the exceptions the code has:

- OneWorkerActs excuses a worker that was in a physical step (`Physical`) when the next one was registered (`overtaken`). It has that step only: `RemoveWorker` has taken its leases back before the next one
  can come, and every physical step begins with a look at them (`CheckTeardown`, `CheckApply`, `CheckFailed`, `Validate`, `CheckRestore`).
- TornDownIsBlocked speaks of a device for which no restore has ended since its teardown (`tried`): that the restore succeeded is more than the code promises. It excuses a device on which a reconciliation
  took over a switch whose worker's modem was open (`robbed`): its own worker's, or that of one still waited for. The worker is in the pool before
  its reconciliation is scheduled (`pool.go:1814`, `pool_bootstrap.go:624`), a switch made in between is claimed by it, and the switch then
  finds its row stale after its teardown.
- TakenOver excuses a reconciliation that missed (journal or card unreadable; it is not retried), and a row that a worker which was not registered any more created or claimed (`late`): one that is still
  waited for, or one whose start failed, since that path does not stop its leases.

Observations without a run:

- A row can end `succeeded` with the device wholly or partly down. `bringRadioOnlineAfterSwitch` (`pool_esim_switch.go:676`), `restorePostSwitchConnectivity` (1294: a failed SIM authentication gate skips VoWiFi, a failed
  SwitchEnd marks the phase degraded) and `restoreRadioDataForSwitchSnapshot` (1339) log what fails, and `finalizeOK` (1677) lets the deferred call complete the row. The undo of a failed
  switch (1373) restores radio and data and never VoWiFi. A reconciliation ends on the first error, except that it leaves the radio alone when the row does not know its state. With `down` alone in place of
  `down /\ ~tried`, TLC finds TornDownIsBlocked violated.
- The only thing that keeps a worker out of the pool is the one in it (`pool.go:378`). The `rebuilding` flag is set before that, but RemoveWorker does not own it when it finds it set (`pool.go:1073`, 1088): its owner
  clears it (`endRebuildAttemptIfCurrent`, 1164) or the 90 s watchdog does (1190), while RemoveWorker waits at 1102. The next worker is then registered while the old one ends a physical step,
  and the old one may still create or claim a row. In one such trace the new worker reads a row, the old worker's reconciliation claims it, the new worker's own claim is stale, which it takes for "nothing to do" (`pool_esim_switch_reconcile.go:66`),
  and nobody takes the row over.
- Workers that are not QMI are put into the pool without a look at who is there (`pool.go:1810`, `pool_bootstrap.go:618`). The model has registration through `registerWorkerStarting` only.
- A switch whose journal write fails after the intent leaves an open row. Every later switch of the same worker is refused with "eSIM operation in
  progress, please retry later" (the text at `internal/esim/manager.go:321`), and retrying does not help before the worker is replaced.
- handleESIMSwitchAfter returns without clearing the context when the worker was replaced; the guard clears it.
- The reconciliation gives up when the ICCID cannot be read; the row then blocks until the next worker.

## 8. SmsDelivery: the model

`SmsDelivery.tla` follows messages from `SendVoWiFiSMSWithOptions` and `Client.SendSMS` (`vowifi-go/runtimehost/voiceclient/sms.go`) to the rows of
`internal/db/sms_delivery.go` and the status of the message history (`db.go`). One device, one IMSI, any number of messages of any number of parts. An action is one
statement or transaction of the store (SQLite, one connection), or one event of the network.

| Variable | Code |
| --- | --- |
| `counter`, `ref` | `rpmrCounter`; the reference of each part, RP-MR and TP-MR alike |
| `pc`, `part`, `then` | where SendSMS is, its part, what follows a failed submission |
| `was`, `tally` | the locals of its recompute: the state it has read or decided on, the parts it has counted so far |
| `delivery`, `age` | the row of `sms_delivery`: its state, and how old it is by the two limits of the code |
| `row` | the rows of `sms_delivery_part`: state, reference, whether the Call-ID is known |
| `history` | the status of the sent message in the history, 0 without one |
| `submitted`, `said`, `refused` | history: what reached the network, what it reported, what failed |

`MarkSMSDeliveryPartReport` and `MarkSMSDeliveryPartStatusReport` are the network's reports: any, for a part that reached the network, any number of times, in any order,
correlated by the code's rules (`RPCandidates`, `StatusCandidates`) and applied with the recompute in one transaction. The recompute after a failed submission has no transaction, so each
of its statements is a step that may fail (`ReadDelivery`, `CountAcked`, `FindFailed`, `CountDelivered`, `CountPending`, `CountUnconfirmed`, `WriteDelivery`), and reports commit in between. Its first count, of all rows
of the message, is not a step: only the SendSMS that recomputes adds rows. Counts are sets of parts. Assumptions: a
network report comes within 120 s of the creation of the message and a status report within seven days, which are the limits the code correlates by; later ones may be
credited to another part with the same reference. The `timeout` state is never written by production code. The states of a message that counts acknowledgements (`acks`) and texts of errors are left out.

The run `sms` has one message of two parts with up to three different reports, each possibly repeated, or two messages of one part to one recipient, which get the same reference when the
process restarts between them, with up to two; any statement may fail (1.49 million states). Messages that are sent at once get different references, so it is enough to send the second after the
first; of two messages the process restarts before the second is sent or after, a later message is no older, and a message alone does not get old, since no other takes its reference. It checks TypeOK, PartTellsTruth, MessageTellsTruth and NothingTakenBack.

MessageTellsTruth says of a state what it says of the parts, and no more: each part of an `acked` message was accepted or reported on. A recompute that counts between two reports can be *out of date*. When the delivered parts are counted
before a report says "delivered" and the pending ones after it, the message is written `acked`, `partial_ack` or `pending` although a part is final. Each such state was true of the parts when they were counted, and the next report recomputes
it; that it is the state of the rows as they are is not so.

`sms_receipt` is the worst case of this and a bug, found in the same instance without store faults, in a message of one part: the submission ends without an answer, RecomputeSMSDelivery counts a failed part, the status report arrives and its transaction
makes the message delivered, the stale write makes it failed, and a failed message stays failed unless a later report recomputes it. The comment at
`sms_delivery.go:562` says what should win.

## 9. RuntimeInstance and SWULease: the model

RuntimeAttempt sees a runtime from the outside. `RuntimeInstance.tla` is one `runtimehost.Instance` from the inside, from the moment Start has
made it: the pipeline goroutine (`runStagedPipeline`, `establishSWu`, `startSWuSession`, `watchIMSHealth`), the callers of its methods, and the
cleanup goroutine of Stop. `SWULease.tla` is the part of it that `swu_session_types.go` keeps for each session: one lease for each ePDG candidate.

| Variable | Code |
| --- | --- |
| `session` | the goroutine of `start`: Connect runs, is ready, has returned, `joined` is closed |
| `ready`, `stopping`, `cancelled` | `readySeen`; `stopping`; `cancelOnce` was taken |
| `mobike` | `mobikeUsers`, as the set of the callers |
| `cleanup` | the goroutine of `startCleanup`: it drains MOBIKE, cancels, joins, has closed `cleanupDone` |
| `stopped`, `cancelable`, `adopted` | `stopped` (and `lifecycleGeneration`, which changes with it), `pipelineCancel`, `swuLease` |
| `readiness`, `service`, `users` | TunnelReady, IMSReady and SMSReady; `svc` and whether it is closed; `serviceUsers` as a set |
| `ctxDone` | the context of the pipeline, cancelled by Stop or by who gave it |
| `pipe`, `candidate`, `total`, `then` | the place of the pipeline and its local variables; `then`: what it does when its join succeeds |
| `stop` | the place of `finishStopCleanup`, the lease Stop took, `leaseErr` |
| `pc`, `gaveUp` | where each caller is; history: the leases whose join the pipeline gave up |

One action is one critical section of `Instance.mu` or `lease.mu`, one select, or one call out; `Connect` is the select of `startSWuSession`.
`CancelAndJoin` waits twice with a deadline of two seconds, for MOBIKE and for the session, so each wait is an action that succeeds or times out. A timeout
ends the pipeline (it is not retryable), or is the error of Stop.

Abstracted: addresses, snapshots, the IKE exchange and the reasons of a failure. A wait times out whenever what it waits for is not there yet. The budget of a candidate
may end at any time. Connect of the real session (`third_party/swu-go`, which `go.mod` puts in the place of the module, `pkg/swu/session.go`) returns only with an error, so a lease is never handed
out after Connect returned. Cancelling the context and Shutdown are one step, as are `pipelineCancel()` and the critical section of Stop. The transport is closed with the
service. AddObserver and the order of the notifications are in RuntimeAttempt. TriggerMOBIKE has no caller in production today; it is in the model because the lease is built around it.
Left out: the checks of Start, and a Start that fails after making the Instance, whose pipeline never runs.

Fairness: goroutines run, the waits have deadlines, the network calls of the pipeline, of a borrower and of MOBIKE return, and so does a Connect whose session
is cancelled, which is what the join relies on and what the session does: it selects on its context wherever it waits, and closes its `done` channel whenever it had been ready. No call is made for fairness, no session has to become ready or to fail, and no context has to end.

The run `instance` (three candidates, three callers, 105 thousand states) checks, without symmetry or state constraint, TypeOK and

- `NoDetachedSession`: one session runs at a time, and its owner is the pipeline, the Instance or the cleanup of Stop, unless its join
  ran into its deadline, and then no other is started. Three candidates are enough for a retry after a retry and one that is left over;
- `InUseIsOpen`: what a borrower, a MOBIKE operation or the pipeline uses is open, and what is announced as ready is open;
- `StopEnds`: after a Stop the cleanup ends, the service is closed and every session is joined in the end. The session whose join timed out is among them:
  its cleanup goroutine goes on.

Deadlock is checked: a stopped Instance still answers Stop.

Observations without a run:

- A session whose join the pipeline gave up is nobody's: Stop, which has no lease to take, returns nil while it may still run. `SHANNON_IMS_ARCHITECTURE.md:261`
  says "Timeout/cancel/Stop leave no detached SWu owner"; `swu_session_lifecycle_test.go:238` expects the timeout to be reported for an adopted lease.
- After a failure of IMS, a missing P-CSCF or a lost registration, TunnelReady stays and nobody watches the tunnel any more. A failed start of
  IMS even cancels the session.

## 10. Proofs

All proofs rest on the assumption on constants of their module alone; only that of ApduArbiter restricts the set of processes, to a finite one.
Every safety property of a passing run, and every refinement, is a theorem. Liveness stays with TLC, since the prover has no rule for fairness and ENABLED: CallsReturn,
FlightsEnd, CloseReturns, StopClosesAll, Served, Settles, TakenOver and StopEnds. The properties of the four other runs are false of the code, so there is nothing to prove.

### 10.1 RuntimeAttemptProofs and RuntimeRecoveryProofs

`RuntimeAttemptProofs.tla` proves, for any finite or infinite sets of calls and schedules and all values of the other
constants, from `ConstantsAssumption` alone:

| Theorem | Statement |
| --- | --- |
| `TypeCorrect` | `Spec => []TypeOK` |
| `Invariant` | `Spec => []IInv` |
| `StartingOwned` | `Spec => []StartingHasOwner` |
| `RunCancelRunning` | `Spec => []RunCancelIsRunning` |
| `NoOrphan` | `Spec => []NoOrphanRuntime` |
| `NoStoppedClaimed` | `Spec => []NoStoppedRuntimeClaimed` |
| `NoGhost` | `Spec => []NoGhostState` |
| `Replacement` | `Spec => ReplacedOnlyWhenStopped` |
| `SmsFollows` | `Spec => []SMSModeFollowsRuntime` |

and `RuntimeRecoveryProofs.tla`, which extends it:

| Theorem | Statement |
| --- | --- |
| `RecoveryInvariant` | `Spec => []RInv` |
| `FlightOwned` | `Spec => []InFlightHasOwner` |
| `ScheduleIsOne` | `Spec => []OneLiveSchedule` |

None of the properties is inductive alone. `IInv` adds to them:

- where a call and a schedule can be (`CommandLabels`, `TeardownLabels`), so that a label tells the operation;
- `Outside` and `Serialised`: only the holder of `runMu` is at a label inside a command, except a teardown;
- `StartingIsFree`: while a startup is in progress no instance is claimed and its state is the attempt's own or none;
- `CreatedOnce`, `Unclaimed`, `LiveUntilClaimed`: a runtime does not exist before its process creates it, is not claimed and
  not stopped before its process has claimed it, except by its own stale stop;
- `ClaimedIsPublic`, `StoppedIsPublic`: whatever is claimed, or in the hands of a teardown, has left its creator.

The argument is by action: one lemma for each part of the code (`InvAdmission`, the teardown, the start,
recovery, the runtime), each with a step per action, and `InvStep` puts them together. The conjunct that carries the most is
that a claim by p means p holds `runMu`, is past `observe`, and its runtime is live.

`SmsFollows` needs what holds between a claim and the mode that follows it. `SmsInv` says, as long as no teardown runs outside `runMu`, that a start
which is about to set the mode still has its runtime in the slot, that a teardown stops the runtime of the slot and restores the mode of an empty one, and
(`ModeIsDue`) that a mode which is not the due one is about to be set. Most actions only *stand by* (`Bystands`): they change neither slot nor mode, and
enter none of these places without knowing the slot. The claim, the mark, the deletion and the restoration have a lemma each; `OneInside` gives them the slot
for themselves.

`RInv` is about generations as *tickets*. A desired recovery or a schedule takes the next generation of the slot when it begins, so no two
share one (`TicketsAreDistinct`), and a forget, a claim or a new start that supersedes it moves the slot on. A cancelled schedule therefore holds an old ticket
(`CancelledIsStale`), a schedule with the current one is the slot's (`CurrentIsInstalled`), and a flight is carried by the process with the current ticket, which
is at a place from which it still settles (`FlightIsCarried`). Seen from there every action has one of two shapes: it `Continues`, with the generation kept, or
it `Supersedes`, with the generation grown and the schedule cancelled; the begin of a recovery or a schedule, its attempts and its release are treated apart.
TLC checked `RInv` and `SmsInv` on the instance of `replace` (3.2 million states) before they were proved.

### 10.2 ProtectedChannelProofs

For any set of goroutines and any number of generations and ports:

| Theorem | Statement |
| --- | --- |
| `TypeCorrect` | `Spec => []TypeOK` |
| `ClosedOnce` | `Spec => []ClosedByOne` |
| `NoneLost` | `Spec => []NoLostGeneration` |
| `StopFinal` | `Spec => []StopIsFinal` |
| `ReplacementJoined` | `Spec => []ReplacementJoins` |
| `PortsOwned` | `Spec => []LiveGenerationOwnsPort` |
| `NothingLeft` | `Spec => []ClosedLeavesNothing` |

`IInv` adds to these what ties the owner, the threads and the flows together:

- `OwnerInv`: what is current was adopted, what is pending has a pending lease and an open channel, and a generation not reserved yet has
  left no trace. Hence a generation that is about to be taken has no closer yet.
- `CloserInv`: a thread in a close works on channels that are not current, not pending and not closed, whose `phase` fits the
  step it has reached, and no two threads share one.
- `OperationInv`: a thread inside an operation is one of the borrowers of its generation, so a finished Join means that no thread
  is at a label inside an operation of it.
- `PortInv`: a reserved generation that is not closed has a port, and the port table names that generation at it; so two of them
  never share one.
- `FlowInv`: every open flow is held by the channel, taken by its closer, or in the hands of the one thread that dialed or
  accepted it, which is still an operation. With the join this gives ClosedLeavesNothing: when nothing is borrowed and the taken
  flows are shut, nothing is open.
- `GrantInv`: the handle a close returns at its end is that of a generation which displaced the channel being closed.

The proof has a lemma for each conjunct and each group of actions, a step per action inside it.

### 10.3 ReplayWindowProofs

For any set of goroutines, any largest number and any window that fits its word: `TypeCorrect`, `Exact` (`Spec => []WindowExact`), `Authenticated`
(`Spec => []OnlyAuthenticated`) and `Implementation` (`Spec => AntiReplay!Spec`). `IInv` adds `Verified`: a packet at Accept was verified and
sent. `AdvancedExact` is the lemma about the shift; with an exact window, `TakeAccepts` and `DropRefuses` map the two outcomes of Accept to
the two steps of the abstract specification.

### 10.4 SmsDeliveryProofs

For any set of messages, any number of parts each, any recipients and any number of references: `TypeCorrect`, `PartTruth` (`Spec => []PartTellsTruth`),
`MessageTruth` (`Spec => []MessageTellsTruth`) and `NothingIsTakenBack` (`Spec => NothingTakenBack`). `IInv` adds

- `SubmittedHasRow`: the row of a part is written before the part is submitted, so a report always finds the row it is about among its candidates;
- `RefusalsAreTrue`: a part or a message is marked failed only behind a refusal, which the steps of the failure path hand on;
- `RowsInOrder`: the row of the message exists while it is sent, its history afterwards;
- `RecomputeIsTrue`: what a recompute outside a transaction has read in one step and writes in another is true, although other reports are applied in
  between, and what it has counted so far was said of the parts counted. The counts need not be of the same moment: what was said of a part only grows, so each stays true of what was said, and so does what
  follows from them. That the result is the latest state is neither proved nor so (8).

The central lemmas are about candidates: a report is credited only when there is one candidate, the row of the reported part is a candidate, hence the credited part
is the reported one.

### 10.5 ApduArbiterProofs

For any finite set of callers, any requests, any size of the window, any recovery options: `TypeCorrect`, `BarriersHold`, `Implementation` (`Spec => Bus!Spec`), `SuspectFences`,
`WakeupsAreKept` and `ExclusiveKeepsPlace`. `IInv` adds to the types `OwnersHold` (a caller in a state of an owner has its lease), `QueueIsWaiting` (the tickets are those
of the waiting callers, one each) and `Bus!Compatible(Granted)`. `Implementation` shows that each action keeps the granted set, removes from it, changes what is suspect, or adds one
lease that `canAcquire` admitted, which is a step of the bus. The wake-up proof is the long one: for each action, a ticket that can be granted after it either could before and
was awake, or its way is cleared by a change that signals it. The finite set is needed because both modules count leases.

### 10.6 EsimSwitchProofs

For any set of switches and profiles, any number of workers, with all faults: `TypeCorrect`, `JournalTruth` (`Spec => []JournalIsTrue`), `OneWorkerTruth`
(`Spec => []OneWorkerActs`) and `TornDownBlocks` (`Spec => []TornDownIsBlocked`). `IInv` adds

- `SeenIsRow`: a reconciliation past its read works on the row of a switch;
- `PlanIsWritten`: the device is touched only when the journal is past intent, so a row that says `failedBefore` belongs to an untouched device; a call
  that has not begun has no row;
- `EvidenceIsThere`: whoever writes `accepted` has seen the card answer or read the target from it;
- `OneWorker`: leases and reconciliations belong to the registered worker, to one whose removal waits, or to one whose modem is closed; and (its last conjunct) a worker other than the last one that is in a physical
  step has its modem closed or was in that step when the next one was registered. The step of a check into a physical step needs the lease of the worker, which a removal has taken back.

The proof first gives each step a *shape* (`CallShape`, `RecShape`, `EnvironmentShape`): which place moves, what the row may become, which history grows. The conjuncts of `IInv`
are then proved from the shapes, not from the twenty-odd actions. A write of the journal is a compare-and-swap on version and owner, so `TransitionRow` bounds what a stale writer can do.

`TornDownBlocks` needs a second invariant, `TInv`, on top of `IInv`. Its first part holds always:

- `OneOpen`: one row at most is not terminal, whoever crashed and whatever was not written;
- `FirstVersion`, `ClaimIsKnown`: a claim makes a version, so a worker that still knows the last version of a row it claimed is its claimer;
- `SnapshotIsOwn`, `OpenModems`: the snapshot of the pool is that of a running switch, and a modem is closed only after its reconciliation.

The second part holds until a reconciliation takes a switch from a worker whose modem is open (`robbed`), its own or one that is still waited for, which the property excuses:

- `PlanIsUnclaimed`: a switch that acts on the device through an open modem has its row, past intent and claimed by nobody, so its next compare-and-swap succeeds;
- `IntentIsUp`, `RestoredIsUp`, `ReconciledIsUp`: before the teardown is in the journal, and wherever a row is about to be ended, the device is not `Untended`, that is, down without a restore that has ended since;
- an untended device has an open row. This is the property; the three before make each end of a row keep it.

### 10.7 RuntimeInstanceProofs

For any number of candidates and any set of callers: `TypeCorrect`, `SessionsOwned` (`Spec => []NoDetachedSession`) and `UsedIsOpen` (`Spec => []InUseIsOpen`).
`IInv` adds

- `LeaseInv`: the stages of a cleanup in order; it begins on a lease that was started and closes it to MOBIKE, so none is inside when the session is cancelled;
- `StopInv`: the adopted lease belongs to the Instance before Stop and to its cleanup after it, which does not touch it before the pipeline has ended,
  and which has joined it at its end unless it reports an error;
- `PipeInv`: at each place of the pipeline, whether its session exists, that nobody has begun to clean it up, and what became of the service. It is what makes
  the two goroutines that may clean up a lease exclude each other;
- `UseInv`: an installed service stands on a lease that is not cleaned up before the wait for the borrowers is over.

Each operation of a lease has a lemma, each step of the runtime one that uses it. StopEnds stays with TLC.

## 11. Reading order and tools

For each component: the module, then its `MC` module (ReplayWindow and RuntimeInstance need none) with a configuration, then the proofs.

    tlc -config RuntimeAttempt_replace.cfg MCRuntimeMix.tla
    tlc -config ProtectedChannel.cfg MCProtectedChannel.tla
    tlc -config ReplayWindow.cfg ReplayWindow.tla
    tlc -config ApduArbiter.cfg MCApduArbiter.tla
    tlc -config RuntimeInstance.cfg RuntimeInstance.tla
    tlc -config EsimSwitch.cfg MCEsimSwitch.tla
    tlc -config SmsDelivery.cfg MCSmsDelivery.tla
    tlapm RuntimeAttemptProofs.tla          (and the other modules named *Proofs)

Next to some definitions stands a *mutation*: the same definition with a plausible bug. Every property is paired in
`PROJECT.json` with a mutation that must break it.

## 12. Not modelled

Codecs and cryptography (SIP, SMS TPDU, IKE, EAP-AKA, QMI, MBIM): no interleaving. HTTP API, web UI, notification and
configuration: callers and I/O. Vendored code under `third_party/`. Circuit-switched calls, the SIP gateway, proxies and the
eSIM LPA are stateful and are not in the plan above; the other parts marked `not_modelled` in `PROJECT.json` follow the plan of 2.
