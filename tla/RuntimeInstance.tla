-------------------------- MODULE RuntimeInstance --------------------------
(***************************************************************************)
(* One runtimehost.Instance: the staged pipeline that opens a SWu session  *)
(* (SWULease), registers with IMS and watches both; the calls that borrow  *)
(* the messaging service or the session; and Stop with its cleanup, which  *)
(* goes on when the caller of Stop no longer waits.                        *)
(***************************************************************************)
EXTENDS SWULease

VARIABLES
    stopped,     \* stopped; the lifecycle generation changes with it and only then
    cancelable,  \* pipelineCancel is installed
    ctxDone,     \* the context of the pipeline is cancelled
    readiness,   \* State.TunnelReady, IMSReady, SMSReady, as the set of those that hold
    service,     \* the messaging service: none, made (by the pipeline), installed, closed
    adopted,     \* swuLease, 0 for none
    users,       \* callers that borrow the service (serviceUsers)
    pipe,        \* where the pipeline goroutine is
    candidate,   \* the candidate it tries, whose lease it holds
    total,       \* number of candidates DNS gave
    then,        \* what the pipeline does when CancelAndJoin returns nil
    stop,        \* where the cleanup goroutine of Stop is, what it took, its error
    pc,          \* where each caller is
    gaveUp       \* history: leases whose join the pipeline did not wait for

pipeVars == <<pipe, candidate, total, then, gaveUp>>
stateVars == <<stopped, cancelable, readiness, service, adopted, users>>
vars == <<leaseVars, pipeVars, stateVars, ctxDone, stop, pc>>

Places == {"begin", "resolve", "lookup", "candidate", "open", "connect", "drain", "join", "adopt",
           "tunnelReady", "ims", "install", "imsReady", "watch", "done"}
StopPlaces == {"none", "pipeline", "users", "lease", "drain", "join", "close", "done"}
NoStop == [at |-> "none", lease |-> 0, err |-> FALSE]

TypeOK ==
    /\ LeaseTypeOK
    /\ stopped \in BOOLEAN /\ cancelable \in BOOLEAN /\ ctxDone \in BOOLEAN
    /\ readiness \subseteq {"tunnel", "ims", "sms"}
    /\ service \in {"none", "made", "installed", "closed"}
    /\ adopted \in {0} \cup Candidates
    /\ users \subseteq Callers /\ gaveUp \subseteq Candidates
    /\ pipe \in Places /\ then \in {"retry", "end"}
    /\ candidate \in Candidates /\ total \in Candidates
    /\ stop \in [at : StopPlaces, lease : {0} \cup Candidates, err : BOOLEAN]
    /\ pc \in [Callers -> {"idle", "borrow", "mobike", "stop"}]

\* Start: the checks before the Instance exists are not part of its life.
Init ==
    /\ LeaseInit
    /\ stopped = FALSE /\ cancelable = FALSE /\ ctxDone = FALSE
    /\ readiness = {} /\ service = "none" /\ adopted = 0 /\ users = {}
    /\ pipe = "begin" /\ candidate = 1 /\ total = 1 /\ then = "end" /\ gaveUp = {}
    /\ stop = NoStop
    /\ pc = [p \in Callers |-> "idle"]

-----------------------------------------------------------------------------
(* The pipeline *)

\* failStageForGeneration: a stopped Instance keeps its state.
failStage(class) ==
    readiness' = IF stopped THEN readiness
                 ELSE readiness \ ({"ims", "sms"} \cup IF class = "tunnel" THEN {"tunnel"} ELSE {})

PipeEnds == pipe' = "done" /\ UNCHANGED <<candidate, total, then, gaveUp>>
PipeGoes(place) == pipe' = place /\ UNCHANGED <<candidate, total, then, gaveUp>>

Begin ==
    /\ pipe = "begin"
    /\ IF stopped THEN PipeEnds /\ UNCHANGED cancelable
       ELSE PipeGoes("resolve") /\ cancelable' = TRUE
    /\ UNCHANGED <<leaseVars, stopped, readiness, service, adopted, users, ctxDone, stop, pc>>

\* ShouldRun, the first announcement, and the name of the ePDG.
Resolve ==
    /\ pipe = "resolve"
    /\ \/ failStage("tunnel") /\ PipeEnds
       \/ ~stopped /\ PipeGoes("lookup") /\ UNCHANGED readiness
    /\ UNCHANGED <<leaseVars, stopped, cancelable, service, adopted, users, ctxDone, stop, pc>>

\* LookupIPAddr and normalizeEPDGCandidates.
Lookup ==
    /\ pipe = "lookup"
    /\ \/ failStage("tunnel") /\ PipeEnds
       \/ /\ pipe' = "candidate" /\ candidate' = 1 /\ total' \in Candidates
          /\ UNCHANGED <<then, gaveUp, readiness>>
    /\ UNCHANGED <<leaseVars, stopped, cancelable, service, adopted, users, ctxDone, stop, pc>>

\* One round of establishSWu up to the start of the session; it may find its
\* context cancelled, its budget used up, or the Instance stopped.
TryCandidate ==
    /\ pipe = "candidate"
    /\ \/ failStage("tunnel") /\ PipeEnds
       \/ ~ctxDone /\ ~stopped /\ PipeGoes("open") /\ UNCHANGED readiness
    /\ UNCHANGED <<leaseVars, stopped, cancelable, service, adopted, users, ctxDone, stop, pc>>

\* It looks at neither the context nor the Instance; without a SIM or with a wrong
\* port it opens nothing.
startSWuSession ==
    /\ pipe = "open"
    /\ \/ failStage("tunnel") /\ PipeEnds /\ UNCHANGED leaseVars
       \/ OpenLease(candidate) /\ PipeGoes("connect") /\ UNCHANGED readiness
    /\ UNCHANGED <<stopped, cancelable, service, adopted, users, ctxDone, stop, pc>>

\* CancelAndJoin by the pipeline, and what follows when it succeeds.
CancelAndJoin(next) ==
    /\ startCleanup(candidate)
    /\ pipe' = "drain" /\ then' = next
    /\ UNCHANGED <<candidate, total, gaveUp>>

\* The select of startSWuSession: cancelled, Connect returned (with an error), ready
\* with or without a usable address, or the deadline of the candidate.
Connect ==
    /\ pipe = "connect"
    /\ \/ ctxDone /\ CancelAndJoin("end")
       \/ session[candidate] \in {"returned", "joined"} /\ \E next \in {"retry", "end"} : CancelAndJoin(next)
       \/ candidate \in ready /\ PipeGoes("adopt") /\ UNCHANGED leaseVars
       \/ candidate \in ready /\ CancelAndJoin("end")
       \/ \E next \in {"retry", "end"} : CancelAndJoin(next)
    /\ UNCHANGED <<stateVars, ctxDone, stop, pc>>

\* The end of the pipeline behind a CancelAndJoin: a failure of the tunnel before
\* the lease is adopted, and nothing after the failure of IMS was recorded.
AfterJoin == IF adopted = 0 THEN failStage("tunnel") ELSE UNCHANGED readiness

\* Mutation of GiveUp: the join that timed out counts as a timeout of the candidate.
GiveUpRetried ==
    /\ gaveUp' = gaveUp \cup {candidate}
    /\ IF then = "retry" /\ candidate < total
       THEN pipe' = "candidate" /\ candidate' = candidate + 1 /\ UNCHANGED readiness
       ELSE pipe' = "done" /\ AfterJoin /\ UNCHANGED candidate
    /\ UNCHANGED <<total, then>>

\* A join that times out is not retryable.
GiveUp ==
    /\ pipe' = "done" /\ gaveUp' = gaveUp \cup {candidate}
    /\ AfterJoin
    /\ UNCHANGED <<candidate, total, then>>

WaitDrained ==
    /\ pipe = "drain"
    /\ \/ Drained(candidate) /\ PipeGoes("join") /\ UNCHANGED readiness
       \/ ~Drained(candidate) /\ GiveUp
    /\ UNCHANGED <<leaseVars, stopped, cancelable, service, adopted, users, ctxDone, stop, pc>>

\* Mutation of WaitJoined: one candidate too many.
WaitJoinedOffByOne ==
    /\ pipe = "join"
    /\ \/ ~Joined(candidate) /\ GiveUp
       \/ /\ Joined(candidate) /\ then = "retry" /\ candidate <= total
          /\ pipe' = "candidate" /\ candidate' = candidate + 1
          /\ UNCHANGED <<total, then, gaveUp, readiness>>
       \/ Joined(candidate) /\ then = "end" /\ PipeEnds /\ AfterJoin
    /\ UNCHANGED <<leaseVars, stopped, cancelable, service, adopted, users, ctxDone, stop, pc>>

WaitJoined ==
    /\ pipe = "join"
    /\ \/ ~Joined(candidate) /\ GiveUp
       \/ /\ Joined(candidate) /\ then = "retry" /\ candidate < total
          /\ pipe' = "candidate" /\ candidate' = candidate + 1
          /\ UNCHANGED <<total, then, gaveUp, readiness>>
       \/ /\ Joined(candidate) /\ (then = "end" \/ candidate >= total)
          /\ PipeEnds /\ AfterJoin
    /\ UNCHANGED <<leaseVars, stopped, cancelable, service, adopted, users, ctxDone, stop, pc>>

\* establishSWu adopts the lease, unless the Instance was stopped meanwhile.
installSWULease ==
    /\ pipe = "adopt"
    /\ IF ctxDone \/ stopped THEN CancelAndJoin("end") /\ UNCHANGED adopted
       ELSE adopted' = candidate /\ PipeGoes("tunnelReady") /\ UNCHANGED leaseVars
    /\ UNCHANGED <<stopped, cancelable, readiness, service, users, ctxDone, stop, pc>>

\* The tunnel is announced; without a P-CSCF the pipeline ends and leaves it up.
TunnelReady ==
    /\ pipe = "tunnelReady"
    /\ IF stopped THEN PipeEnds /\ UNCHANGED readiness
       ELSE /\ readiness' = readiness \cup {"tunnel"}
            /\ \/ PipeGoes("ims")
               \/ PipeEnds
    /\ UNCHANGED <<leaseVars, stopped, cancelable, service, adopted, users, ctxDone, stop, pc>>

\* NewUserspaceIMSNetwork and StartSessionIMSCore. The lease stays in swuLease
\* when they fail and the session is cancelled.
StartIMS ==
    /\ pipe = "ims"
    /\ \/ service' = "made" /\ PipeGoes("install") /\ UNCHANGED <<leaseVars, readiness>>
       \/ failStage("ims") /\ CancelAndJoin("end") /\ UNCHANGED service
    /\ UNCHANGED <<stopped, cancelable, adopted, users, ctxDone, stop, pc>>

installService ==
    /\ pipe = "install"
    /\ IF stopped THEN service' = "closed" /\ PipeEnds
       ELSE service' = "installed" /\ PipeGoes("imsReady")
    /\ UNCHANGED <<leaseVars, stopped, cancelable, readiness, adopted, users, ctxDone, stop, pc>>

\* markIMSReadyState: messaging may not be ready although IMS is.
IMSReady ==
    /\ pipe = "imsReady"
    /\ IF stopped THEN PipeEnds /\ UNCHANGED readiness
       ELSE PipeGoes("watch") /\ \E r \in {{"ims"}, {"ims", "sms"}} : readiness' = readiness \cup r
    /\ UNCHANGED <<leaseVars, stopped, cancelable, service, adopted, users, ctxDone, stop, pc>>

\* The context, the channel of the service or its registration, or the tunnel ends.
watchIMSHealth ==
    /\ pipe = "watch"
    /\ PipeEnds
    /\ \/ ctxDone /\ UNCHANGED readiness
       \/ failStage("ims")
       \/ session[candidate] = "joined" /\ failStage("tunnel")
    /\ UNCHANGED <<leaseVars, stopped, cancelable, service, adopted, users, ctxDone, stop, pc>>

\* The context given to Start ends.
CancelRun ==
    /\ ~ctxDone /\ ctxDone' = TRUE
    /\ UNCHANGED <<leaseVars, pipeVars, stateVars, stop, pc>>

-----------------------------------------------------------------------------
(* Callers *)

Goto(p, place) == pc' = [pc EXCEPT ![p] = place]

\* i.svc # nil
HasService == ~stopped /\ service = "installed"

acquireServiceUse(p) ==
    /\ pc[p] = "idle" /\ Goto(p, "borrow")
    /\ users' = users \cup {p}
    /\ UNCHANGED <<leaseVars, pipeVars, stopped, cancelable, readiness, service, adopted, ctxDone, stop>>

SendSMS(p) == HasService /\ "sms" \in readiness /\ acquireServiceUse(p)

\* SendUSSD, ContinueUSSD, CancelUSSD.
acquireUSSDService(p) == HasService /\ "ims" \in readiness /\ acquireServiceUse(p)

\* The status of IMS can be read as long as the service is installed.
Obs(p) == HasService /\ acquireServiceUse(p)

releaseServiceUse(p) ==
    /\ pc[p] = "borrow" /\ Goto(p, "idle")
    /\ users' = users \ {p}
    /\ UNCHANGED <<leaseVars, pipeVars, stopped, cancelable, readiness, service, adopted, ctxDone, stop>>

TriggerMOBIKE(p) ==
    /\ pc[p] = "idle" /\ Goto(p, "mobike")
    /\ ~stopped /\ adopted # 0
    /\ acquireMOBIKE(adopted, p)
    /\ UNCHANGED <<pipeVars, stateVars, ctxDone, stop>>

MOBIKEReturns(p) ==
    /\ pc[p] = "mobike" /\ Goto(p, "idle")
    /\ \E c \in Candidates : releaseMOBIKE(c, p)
    /\ UNCHANGED <<pipeVars, stateVars, ctxDone, stop>>

\* The first Stop takes everything and starts the cleanup; the others wait for it.
Stop(p) ==
    /\ pc[p] = "idle" /\ Goto(p, "stop")
    /\ IF stopped THEN UNCHANGED <<leaseVars, stopped, ctxDone, adopted, stop>>
       ELSE /\ stopped' = TRUE
            /\ ctxDone' = (ctxDone \/ cancelable)
            /\ IF adopted = 0 THEN UNCHANGED leaseVars ELSE BeginStop(adopted)
            /\ adopted' = 0
            /\ stop' = [at |-> "pipeline", lease |-> adopted, err |-> FALSE]
    /\ UNCHANGED <<pipeVars, cancelable, readiness, service, users>>

\* waitForStopCleanup: the cleanup is done, or the context of the caller ends.
StopReturns(p) ==
    /\ pc[p] = "stop" /\ Goto(p, "idle")
    /\ UNCHANGED <<leaseVars, pipeVars, stateVars, ctxDone, stop>>

-----------------------------------------------------------------------------
(* finishStopCleanup *)

CleanupGoes(place) == stop' = [stop EXCEPT !.at = place]
CleanupFails == stop' = [stop EXCEPT !.at = "close", !.err = TRUE]

AwaitPipeline ==
    /\ stop.at = "pipeline" /\ pipe = "done"
    /\ CleanupGoes("users")
    /\ UNCHANGED <<leaseVars, pipeVars, stateVars, ctxDone, pc>>

\* Mutation of AwaitUsers: the borrowers are not waited for.
AwaitNoUsers ==
    /\ stop.at = "users"
    /\ CleanupGoes(IF stop.lease = 0 THEN "close" ELSE "lease")
    /\ UNCHANGED <<leaseVars, pipeVars, stateVars, ctxDone, pc>>

AwaitUsers ==
    /\ stop.at = "users" /\ users = {}
    /\ CleanupGoes(IF stop.lease = 0 THEN "close" ELSE "lease")
    /\ UNCHANGED <<leaseVars, pipeVars, stateVars, ctxDone, pc>>

CleanLease ==
    /\ stop.at = "lease" /\ startCleanup(stop.lease)
    /\ CleanupGoes("drain")
    /\ UNCHANGED <<pipeVars, stateVars, ctxDone, pc>>

AwaitDrained ==
    /\ stop.at = "drain"
    /\ IF Drained(stop.lease) THEN CleanupGoes("join") ELSE CleanupFails
    /\ UNCHANGED <<leaseVars, pipeVars, stateVars, ctxDone, pc>>

AwaitJoined ==
    /\ stop.at = "join"
    /\ IF Joined(stop.lease) THEN CleanupGoes("close") ELSE CleanupFails
    /\ UNCHANGED <<leaseVars, pipeVars, stateVars, ctxDone, pc>>

\* closeMessagingService with the service Stop took, and the transport.
CloseService ==
    /\ stop.at = "close"
    /\ service' = IF service = "installed" THEN "closed" ELSE service
    /\ CleanupGoes("done")
    /\ UNCHANGED <<leaseVars, pipeVars, stopped, cancelable, readiness, adopted, users, ctxDone, pc>>

-----------------------------------------------------------------------------
Pipeline ==
    \/ Begin \/ Resolve \/ Lookup \/ TryCandidate \/ startSWuSession \/ Connect \/ WaitDrained
    \/ WaitJoined \/ installSWULease \/ TunnelReady \/ StartIMS \/ installService \/ IMSReady \/ watchIMSHealth

StopCleanup ==
    \/ AwaitPipeline \/ AwaitUsers \/ CleanLease \/ AwaitDrained \/ AwaitJoined \/ CloseService

Elsewhere == UNCHANGED <<pipeVars, stateVars, ctxDone, stop, pc>>

Lease(c) ==
    \/ MarkReady(c) /\ Elsewhere
    \/ ConnectReturns(c) /\ Elsewhere
    \/ SessionDone(c) /\ Elsewhere
    \/ Drain(c) /\ Elsewhere
    \/ cancelSession(c) /\ Elsewhere
    \/ FinishCleanup(c) /\ Elsewhere

Call(p) ==
    \/ SendSMS(p) \/ acquireUSSDService(p) \/ Obs(p) \/ releaseServiceUse(p)
    \/ TriggerMOBIKE(p) \/ MOBIKEReturns(p) \/ Stop(p) \/ StopReturns(p)

Next ==
    \/ Pipeline \/ CancelRun \/ StopCleanup
    \/ \E p \in Callers : Call(p)
    \/ \E c \in Candidates : Lease(c)

Spec == Init /\ [][Next]_vars

\* Goroutines run and the waits of CancelAndJoin have deadlines; a cancelled session
\* returns, and so do the network calls of the pipeline, of a borrower and of MOBIKE.
\* Nobody has to stop the Instance.
Fairness ==
    /\ WF_vars(Pipeline) /\ WF_vars(StopCleanup)
    /\ \A p \in Callers : WF_vars(releaseServiceUse(p) \/ MOBIKEReturns(p))
    /\ \A c \in Candidates :
          WF_vars((c \in cancelled /\ ConnectReturns(c)) /\ Elsewhere)
          /\ WF_vars((SessionDone(c) \/ Drain(c) \/ cancelSession(c) \/ FinishCleanup(c)) /\ Elsewhere)

FairSpec == Spec /\ Fairness

-----------------------------------------------------------------------------
(* Properties *)

Live(c) == session[c] \in Running

\* The lease that Stop or an operation may still use: in swuLease, or taken by Stop.
Held == {adopted, stop.lease} \ {0}

\* One session at a time, and none without an owner: a running session is the one the
\* pipeline works on, the adopted one, or one that Stop took and has not joined; but
\* for one whose join ran into its deadline, and after that no other is started.
NoDetachedSession ==
    \A c \in Candidates : Live(c) =>
        /\ c = candidate
        /\ \/ pipe \notin {"done", "candidate", "open"}
           \/ c = adopted
           \/ c = stop.lease /\ (stop.at # "done" \/ stop.err)
           \/ c \in gaveUp

\* What is in use is open: neither a Stop, nor a failure of the pipeline, nor a join
\* that ran into its deadline closes the service under a borrower or under the
\* pipeline, or cancels the session under a borrower or a MOBIKE operation; and what
\* is announced as ready can be borrowed.
InUseIsOpen ==
    /\ users # {} => service = "installed" /\ Held # {} /\ Held \cap cancelled = {}
    /\ pipe \in {"install", "imsReady"} => service # "closed"
    /\ \A c \in Candidates : mobike[c] # {} => c \notin cancelled
    /\ ~stopped /\ readiness \cap {"ims", "sms"} # {} =>
          service = "installed" /\ adopted # 0 /\ adopted \notin cancelled

\* Stop ends, whatever stage it meets: the cleanup finishes, the service is closed, and
\* every session is joined in the end, also those whose joins were given up.
StopEnds == stopped ~> /\ stop.at = "done" /\ service \in {"none", "closed"}
                       /\ \A c \in Candidates : session[c] \in {"none", "joined"}
=============================================================================
