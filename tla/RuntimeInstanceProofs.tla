------------------------ MODULE RuntimeInstanceProofs ------------------------
(***************************************************************************)
(* Proofs about RuntimeInstance for any number of candidates and callers:  *)
(* no SWu session is without an owner, and what is in use is not closed.   *)
(***************************************************************************)
EXTENDS RuntimeInstance, TLAPS

\* A cleanup goes through its stages in order: it starts on a lease that was started,
\* closes it to MOBIKE, waits for the operations inside, cancels and joins.
LeaseInv ==
    \A c \in Candidates :
        /\ cleanup[c] # "none" => session[c] # "none" /\ c \in stopping
        /\ cleanup[c] \in {"cancelling", "joining", "done"} => mobike[c] = {}
        /\ c \in cancelled => cleanup[c] \in {"joining", "done"}
        /\ cleanup[c] = "done" => session[c] = "joined"

\* Stop takes the lease, so that at most one of the two holds it; its cleanup waits for
\* the pipeline, and for the join unless that timed out.
StopInv ==
    /\ stopped <=> stop.at # "none"
    /\ ~stopped => stop.lease = 0
    /\ stopped => adopted = 0
    /\ stop.at \notin {"none", "pipeline"} => pipe = "done"
    /\ stop.at \in {"lease", "drain", "join"} => stop.lease # 0
    /\ stop.at \in {"close", "done"} /\ stop.lease # 0 /\ ~stop.err => cleanup[stop.lease] = "done"
    /\ \A c \in Held : session[c] # "none"

Early == {"begin", "resolve", "lookup"}
Established == {"tunnelReady", "ims", "install", "imsReady", "watch"}
Untouched == {"connect", "adopt"} \cup Established

\* What the pipeline knows at each place: no session before the lookup, the session it
\* works on, that nobody cleans up what it has not given back, and the service.
PipeInv ==
    /\ pipe \in Early => \A c \in Candidates : session[c] = "none"
    /\ pipe \in {"connect", "drain", "join", "adopt"} => session[candidate] # "none"
    /\ pipe \in Untouched => cleanup[candidate] = "none"
    /\ pipe \in Established => candidate \in Held
    /\ pipe \notin {"install", "imsReady", "watch", "done"} => service = "none"
    /\ pipe = "install" => service = "made"
    /\ pipe \in {"imsReady", "watch"} => service = "installed"

\* The cleanup of Stop has not passed the wait for the borrowers.
Open == stop.at \in {"none", "pipeline", "users"}

\* The service is installed over a lease, which lives as long as somebody can borrow.
UseInv ==
    /\ service = "installed" => Held # {}
    /\ service = "installed" /\ Open => \A c \in Held : cleanup[c] = "none"
    /\ users # {} => service = "installed" /\ Open
    /\ ~stopped /\ readiness \cap {"ims", "sms"} # {} => service = "installed"

\* TypeOK, in the parts that the steps are proved by.
FlagsOK == stopped \in BOOLEAN /\ cancelable \in BOOLEAN /\ ctxDone \in BOOLEAN
PipeOK ==
    /\ pipe \in Places /\ then \in {"retry", "end"} /\ gaveUp \subseteq Candidates
    /\ candidate \in Candidates /\ total \in Candidates
HostOK ==
    /\ readiness \subseteq {"tunnel", "ims", "sms"}
    /\ service \in {"none", "made", "installed", "closed"}
    /\ adopted \in {0} \cup Candidates /\ users \subseteq Callers
CallsOK ==
    /\ stop \in [at : StopPlaces, lease : {0} \cup Candidates, err : BOOLEAN]
    /\ pc \in [Callers -> {"idle", "borrow", "mobike", "stop"}]

Types == LeaseTypeOK /\ FlagsOK /\ PipeOK /\ HostOK /\ CallsOK

IInv == Types /\ LeaseInv /\ StopInv /\ PipeInv /\ UseInv /\ NoDetachedSession

-----------------------------------------------------------------------------
USE LeaseAssumption DEF LeaseAssumption, Candidates, Running, Cleaning, Places, StopPlaces, Held, Live, Early, Established,
                        Untouched, Open, leaseVars, pipeVars, stateVars

LEMMA TypeParts == Types => TypeOK
BY DEF Types, TypeOK, LeaseTypeOK, FlagsOK, PipeOK, HostOK, CallsOK

-----------------------------------------------------------------------------
(* The operations of a lease *)

LEMMA OpenLeaseKeeps ==
  ASSUME LeaseTypeOK, LeaseInv, NEW c \in Candidates, OpenLease(c)
  PROVE  LeaseTypeOK' /\ LeaseInv'
BY DEF LeaseTypeOK, LeaseInv, OpenLease

LEMMA TaskKeeps ==
  ASSUME LeaseTypeOK, LeaseInv, NEW c \in Candidates, MarkReady(c) \/ ConnectReturns(c) \/ SessionDone(c)
  PROVE  LeaseTypeOK' /\ LeaseInv'
<1>1. LeaseTypeOK'
  BY DEF LeaseTypeOK, MarkReady, ConnectReturns, SessionDone
<1>2. LeaseInv'
  BY DEF LeaseTypeOK, LeaseInv, MarkReady, ConnectReturns, SessionDone
<1> QED BY <1>1, <1>2

LEMMA MOBIKEKeeps ==
  ASSUME LeaseTypeOK, LeaseInv, NEW c \in Candidates, NEW p \in Callers,
         acquireMOBIKE(c, p) \/ releaseMOBIKE(c, p)
  PROVE  LeaseTypeOK' /\ LeaseInv'
<1>1. LeaseTypeOK'
  <2>1. CASE acquireMOBIKE(c, p)
    BY <2>1 DEF LeaseTypeOK, acquireMOBIKE
  <2>2. CASE releaseMOBIKE(c, p)
    BY <2>2 DEF LeaseTypeOK, releaseMOBIKE
  <2> QED BY <2>1, <2>2
<1>2. LeaseInv'
  <2>1. CASE acquireMOBIKE(c, p)
    BY <2>1 DEF LeaseTypeOK, LeaseInv, acquireMOBIKE
  <2>2. CASE releaseMOBIKE(c, p)
    BY <2>2 DEF LeaseTypeOK, LeaseInv, releaseMOBIKE
  <2> QED BY <2>1, <2>2
<1> QED BY <1>1, <1>2

LEMMA BeginStopKeeps ==
  ASSUME LeaseTypeOK, LeaseInv, NEW c \in Candidates, BeginStop(c)
  PROVE  LeaseTypeOK' /\ LeaseInv'
BY DEF LeaseTypeOK, LeaseInv, BeginStop

\* A cleanup touches no other lease.
LEMMA StartCleanupKeeps ==
  ASSUME LeaseTypeOK, LeaseInv, NEW c \in Candidates, session[c] # "none", startCleanup(c)
  PROVE  /\ LeaseTypeOK' /\ LeaseInv'
         /\ \A d \in Candidates \ {c} : cleanup'[d] = cleanup[d]
<1>1. LeaseTypeOK' /\ \A d \in Candidates \ {c} : cleanup'[d] = cleanup[d]
  BY DEF LeaseTypeOK, startCleanup
<1>2. LeaseInv'
  BY DEF LeaseTypeOK, LeaseInv, startCleanup
<1> QED BY <1>1, <1>2

LEMMA CleansOrNot ==
  ASSUME LeaseTypeOK, LeaseInv, NEW c \in Candidates, session[c] # "none", startCleanup(c) \/ UNCHANGED leaseVars
  PROVE  LeaseTypeOK' /\ LeaseInv'
<1>1. CASE startCleanup(c)
  BY <1>1, StartCleanupKeeps
<1>2. CASE UNCHANGED leaseVars
  BY <1>2 DEF LeaseTypeOK, LeaseInv
<1> QED BY <1>1, <1>2

LEMMA CleanupKeeps ==
  ASSUME LeaseTypeOK, LeaseInv, NEW c \in Candidates, Drain(c) \/ cancelSession(c) \/ FinishCleanup(c)
  PROVE  LeaseTypeOK' /\ LeaseInv'
<1>1. LeaseTypeOK'
  BY DEF LeaseTypeOK, Drain, cancelSession, FinishCleanup
<1>2. LeaseInv'
  BY DEF LeaseTypeOK, LeaseInv, Drain, cancelSession, FinishCleanup
<1> QED BY <1>1, <1>2

\* No session exists before the first candidate is tried.
LEMMA InitIInv == Init => IInv
<1> SUFFICES ASSUME Init PROVE IInv
  OBVIOUS
<1> USE DEF Init, LeaseInit, NoStop
<1>1. LeaseTypeOK /\ PipeOK /\ HostOK
  BY DEF LeaseTypeOK, PipeOK, HostOK
<1>2. FlagsOK /\ CallsOK
  BY DEF FlagsOK, CallsOK
<1>3. LeaseInv /\ StopInv /\ PipeInv /\ UseInv /\ NoDetachedSession
  BY DEF LeaseInv, StopInv, PipeInv, UseInv, NoDetachedSession
<1> QED BY <1>1, <1>2, <1>3 DEF IInv, Types

-----------------------------------------------------------------------------
(* The steps of the pipeline *)

LEMMA BeginKeeps ==
  ASSUME IInv, Begin
  PROVE  IInv'
<1> USE DEF Begin, PipeEnds, PipeGoes
<1>1. LeaseTypeOK /\ FlagsOK /\ PipeOK /\ HostOK /\ CallsOK
  BY DEF IInv, Types
<1>2. LeaseTypeOK' /\ LeaseInv'
  BY <1>1 DEF IInv, LeaseTypeOK, LeaseInv
<1>3. FlagsOK' /\ PipeOK' /\ HostOK' /\ CallsOK'
  <2>1. FlagsOK' /\ CallsOK'
    BY <1>1 DEF FlagsOK, CallsOK
  <2>2. PipeOK'
    BY <1>1 DEF PipeOK, HostOK
  <2>3. HostOK'
    BY <1>1 DEF HostOK, PipeOK
  <2> QED BY <2>1, <2>2, <2>3
<1>4. StopInv' /\ PipeInv' /\ UseInv' /\ NoDetachedSession'
  BY <1>1, <1>2 DEF IInv, LeaseTypeOK, PipeOK, HostOK, CallsOK, LeaseInv, PipeInv, StopInv, UseInv, NoDetachedSession
<1> QED BY <1>2, <1>3, <1>4 DEF IInv, Types

LEMMA ResolveKeeps ==
  ASSUME IInv, Resolve
  PROVE  IInv'
<1> USE DEF Resolve, failStage, PipeEnds, PipeGoes
<1>1. LeaseTypeOK /\ FlagsOK /\ PipeOK /\ HostOK /\ CallsOK
  BY DEF IInv, Types
<1>2. LeaseTypeOK' /\ LeaseInv'
  BY <1>1 DEF IInv, LeaseTypeOK, LeaseInv
<1>3. FlagsOK'
  BY <1>1 DEF FlagsOK, PipeOK, HostOK, CallsOK
<1>4. PipeOK' /\ HostOK'
  BY <1>1 DEF FlagsOK, PipeOK, HostOK, CallsOK
<1>5. CallsOK'
  BY <1>1 DEF FlagsOK, PipeOK, HostOK, CallsOK
<1>6. StopInv' /\ PipeInv' /\ UseInv' /\ NoDetachedSession'
  BY <1>1, <1>2 DEF IInv, LeaseTypeOK, PipeOK, HostOK, CallsOK, LeaseInv, PipeInv, StopInv, UseInv, NoDetachedSession
<1> QED BY <1>2, <1>3, <1>4, <1>5, <1>6 DEF IInv, Types

LEMMA LookupKeeps ==
  ASSUME IInv, Lookup
  PROVE  IInv'
<1> USE DEF Lookup, failStage, PipeEnds, PipeGoes
<1>1. LeaseTypeOK /\ FlagsOK /\ PipeOK /\ HostOK /\ CallsOK
  BY DEF IInv, Types
<1>2. LeaseTypeOK' /\ LeaseInv'
  BY <1>1 DEF IInv, LeaseTypeOK, LeaseInv
<1>3. FlagsOK'
  BY <1>1 DEF FlagsOK, PipeOK, HostOK, CallsOK
<1>4. PipeOK'
  <2>1. 1 \in Candidates
    OBVIOUS
  <2>2. candidate' \in Candidates /\ total' \in Candidates
    BY <1>1, <2>1 DEF PipeOK
  <2>3. pipe' \in Places /\ then' \in {"retry", "end"} /\ gaveUp' \subseteq Candidates
    BY <1>1 DEF PipeOK
  <2> QED BY <2>2, <2>3 DEF PipeOK
<1>5. HostOK'
  BY <1>1 DEF FlagsOK, PipeOK, HostOK, CallsOK
<1>6. CallsOK'
  BY <1>1 DEF FlagsOK, PipeOK, HostOK, CallsOK
<1>7. StopInv' /\ PipeInv' /\ UseInv' /\ NoDetachedSession'
  BY <1>1, <1>2 DEF IInv, LeaseTypeOK, PipeOK, HostOK, CallsOK, LeaseInv, PipeInv, StopInv, UseInv, NoDetachedSession
<1> QED BY <1>2, <1>3, <1>4, <1>5, <1>6, <1>7 DEF IInv, Types

LEMMA TryCandidateKeeps ==
  ASSUME IInv, TryCandidate
  PROVE  IInv'
<1> USE DEF TryCandidate, failStage, PipeEnds, PipeGoes
<1>1. LeaseTypeOK /\ FlagsOK /\ PipeOK /\ HostOK /\ CallsOK
  BY DEF IInv, Types
<1>2. LeaseTypeOK' /\ LeaseInv'
  BY <1>1 DEF IInv, LeaseTypeOK, LeaseInv
<1>3. FlagsOK'
  BY <1>1 DEF FlagsOK, PipeOK, HostOK, CallsOK
<1>4. PipeOK' /\ HostOK'
  BY <1>1 DEF FlagsOK, PipeOK, HostOK, CallsOK
<1>5. CallsOK'
  BY <1>1 DEF FlagsOK, PipeOK, HostOK, CallsOK
<1>6. StopInv' /\ PipeInv' /\ UseInv' /\ NoDetachedSession'
  BY <1>1, <1>2 DEF IInv, LeaseTypeOK, PipeOK, HostOK, CallsOK, LeaseInv, PipeInv, StopInv, UseInv, NoDetachedSession
<1> QED BY <1>2, <1>3, <1>4, <1>5, <1>6 DEF IInv, Types

LEMMA startSWuSessionKeeps ==
  ASSUME IInv, startSWuSession
  PROVE  IInv'
<1> USE DEF startSWuSession, failStage, PipeEnds, PipeGoes, OpenLease
<1>1. LeaseTypeOK /\ FlagsOK /\ PipeOK /\ HostOK /\ CallsOK
  BY DEF IInv, Types
<1>2. LeaseTypeOK' /\ LeaseInv'
  BY <1>1, OpenLeaseKeeps DEF IInv, PipeOK, LeaseTypeOK, LeaseInv
<1>3. FlagsOK'
  BY <1>1 DEF FlagsOK, PipeOK, HostOK, CallsOK
<1>4. PipeOK' /\ HostOK'
  BY <1>1 DEF FlagsOK, PipeOK, HostOK, CallsOK
<1>5. CallsOK'
  BY <1>1 DEF FlagsOK, PipeOK, HostOK, CallsOK
<1>6. StopInv' /\ PipeInv' /\ UseInv' /\ NoDetachedSession'
  BY <1>1, <1>2 DEF IInv, LeaseTypeOK, PipeOK, HostOK, CallsOK, LeaseInv, PipeInv, StopInv, UseInv, NoDetachedSession
<1> QED BY <1>2, <1>3, <1>4, <1>5, <1>6 DEF IInv, Types

LEMMA ConnectKeeps ==
  ASSUME IInv, Connect
  PROVE  IInv'
<1> USE DEF Connect, CancelAndJoin, PipeEnds, PipeGoes
<1>1. LeaseTypeOK /\ FlagsOK /\ PipeOK /\ HostOK /\ CallsOK
  BY DEF IInv, Types
<1>2. LeaseTypeOK' /\ LeaseInv'
  <2>1. candidate \in Candidates /\ session[candidate] # "none"
    BY <1>1 DEF IInv, PipeInv, PipeOK, StopInv
  <2>2. startCleanup(candidate) \/ UNCHANGED leaseVars
    OBVIOUS
  <2> QED
    BY <1>1, <2>1, <2>2, CleansOrNot DEF IInv
<1> USE DEF startCleanup
<1>3. FlagsOK' /\ PipeOK' /\ HostOK' /\ CallsOK'
  <2>1. FlagsOK' /\ CallsOK'
    BY <1>1 DEF FlagsOK, CallsOK
  <2>2. PipeOK'
    BY <1>1 DEF PipeOK, HostOK
  <2>3. HostOK'
    BY <1>1 DEF HostOK, PipeOK
  <2> QED BY <2>1, <2>2, <2>3
<1>4. StopInv' /\ PipeInv' /\ UseInv' /\ NoDetachedSession'
  <2>1. StopInv'
    BY <1>1, <1>2 DEF IInv, LeaseTypeOK, PipeOK, HostOK, CallsOK, LeaseInv, PipeInv, StopInv
  <2>2. PipeInv'
    BY <1>1, <1>2 DEF IInv, LeaseTypeOK, PipeOK, HostOK, CallsOK, LeaseInv, PipeInv, StopInv, UseInv
  <2>3. UseInv'
    BY <1>1, <1>2 DEF IInv, PipeOK, HostOK, CallsOK, PipeInv, StopInv, UseInv
  <2>4. NoDetachedSession'
    BY <1>1, <1>2 DEF IInv, LeaseTypeOK, PipeOK, HostOK, CallsOK, LeaseInv, PipeInv, StopInv, NoDetachedSession
  <2> QED BY <2>1, <2>2, <2>3, <2>4
<1> QED BY <1>2, <1>3, <1>4 DEF IInv, Types

LEMMA WaitDrainedKeeps ==
  ASSUME IInv, WaitDrained
  PROVE  IInv'
<1> USE DEF WaitDrained, GiveUp, AfterJoin, failStage, Drained, PipeEnds, PipeGoes
<1>1. LeaseTypeOK /\ FlagsOK /\ PipeOK /\ HostOK /\ CallsOK
  BY DEF IInv, Types
<1>2. LeaseTypeOK' /\ LeaseInv'
  BY <1>1 DEF IInv, LeaseTypeOK, LeaseInv
<1>3. FlagsOK'
  BY <1>1 DEF FlagsOK, PipeOK, HostOK, CallsOK
<1>4. PipeOK' /\ HostOK'
  BY <1>1 DEF FlagsOK, PipeOK, HostOK, CallsOK
<1>5. CallsOK'
  BY <1>1 DEF FlagsOK, PipeOK, HostOK, CallsOK
<1>6. StopInv' /\ PipeInv' /\ UseInv' /\ NoDetachedSession'
  BY <1>1, <1>2 DEF IInv, LeaseTypeOK, PipeOK, HostOK, CallsOK, LeaseInv, PipeInv, StopInv, UseInv, NoDetachedSession
<1> QED BY <1>2, <1>3, <1>4, <1>5, <1>6 DEF IInv, Types

LEMMA WaitJoinedKeeps ==
  ASSUME IInv, WaitJoined
  PROVE  IInv'
<1> USE DEF WaitJoined, GiveUp, AfterJoin, failStage, Joined, PipeEnds, PipeGoes
<1>1. LeaseTypeOK /\ FlagsOK /\ PipeOK /\ HostOK /\ CallsOK
  BY DEF IInv, Types
<1>2. LeaseTypeOK' /\ LeaseInv'
  BY <1>1 DEF IInv, LeaseTypeOK, LeaseInv
<1>3. FlagsOK'
  BY <1>1 DEF FlagsOK, PipeOK, HostOK, CallsOK
<1>4. PipeOK'
  <2>1. candidate < total => candidate + 1 \in Candidates
    BY <1>1 DEF PipeOK
  <2>2. candidate' \in Candidates /\ total' \in Candidates
    BY <1>1, <2>1 DEF PipeOK
  <2>3. pipe' \in Places /\ then' \in {"retry", "end"} /\ gaveUp' \subseteq Candidates
    BY <1>1 DEF PipeOK
  <2> QED BY <2>2, <2>3 DEF PipeOK
<1>5. HostOK'
  BY <1>1 DEF FlagsOK, PipeOK, HostOK, CallsOK
<1>6. CallsOK'
  BY <1>1 DEF FlagsOK, PipeOK, HostOK, CallsOK
<1>7. StopInv' /\ PipeInv' /\ UseInv' /\ NoDetachedSession'
  BY <1>1, <1>2 DEF IInv, LeaseTypeOK, PipeOK, HostOK, CallsOK, LeaseInv, PipeInv, StopInv, UseInv, NoDetachedSession
<1> QED BY <1>2, <1>3, <1>4, <1>5, <1>6, <1>7 DEF IInv, Types

LEMMA installSWULeaseKeeps ==
  ASSUME IInv, installSWULease
  PROVE  IInv'
<1> USE DEF installSWULease, CancelAndJoin, PipeEnds, PipeGoes
<1>1. LeaseTypeOK /\ FlagsOK /\ PipeOK /\ HostOK /\ CallsOK
  BY DEF IInv, Types
<1>2. LeaseTypeOK' /\ LeaseInv'
  <2>1. candidate \in Candidates /\ session[candidate] # "none"
    BY <1>1 DEF IInv, PipeInv, PipeOK, StopInv
  <2>2. startCleanup(candidate) \/ UNCHANGED leaseVars
    OBVIOUS
  <2> QED
    BY <1>1, <2>1, <2>2, CleansOrNot DEF IInv
<1> USE DEF startCleanup
<1>3. FlagsOK' /\ PipeOK' /\ HostOK' /\ CallsOK'
  <2>1. FlagsOK' /\ CallsOK'
    BY <1>1 DEF FlagsOK, CallsOK
  <2>2. PipeOK'
    BY <1>1 DEF PipeOK, HostOK
  <2>3. HostOK'
    BY <1>1 DEF HostOK, PipeOK
  <2> QED BY <2>1, <2>2, <2>3
<1>4. StopInv' /\ PipeInv' /\ UseInv' /\ NoDetachedSession'
  <2>1. StopInv'
    BY <1>1, <1>2 DEF IInv, LeaseTypeOK, PipeOK, HostOK, CallsOK, LeaseInv, PipeInv, StopInv
  <2>2. PipeInv'
    BY <1>1, <1>2 DEF IInv, LeaseTypeOK, PipeOK, HostOK, CallsOK, LeaseInv, PipeInv, StopInv, UseInv
  <2>3. UseInv'
    BY <1>1, <1>2 DEF IInv, PipeOK, HostOK, CallsOK, PipeInv, StopInv, UseInv
  <2>4. NoDetachedSession'
    BY <1>1, <1>2 DEF IInv, LeaseTypeOK, PipeOK, HostOK, CallsOK, LeaseInv, PipeInv, StopInv, NoDetachedSession
  <2> QED BY <2>1, <2>2, <2>3, <2>4
<1> QED BY <1>2, <1>3, <1>4 DEF IInv, Types

LEMMA TunnelReadyKeeps ==
  ASSUME IInv, TunnelReady
  PROVE  IInv'
<1> USE DEF TunnelReady, PipeEnds, PipeGoes
<1>1. LeaseTypeOK /\ FlagsOK /\ PipeOK /\ HostOK /\ CallsOK
  BY DEF IInv, Types
<1>2. LeaseTypeOK' /\ LeaseInv'
  BY <1>1 DEF IInv, LeaseTypeOK, LeaseInv
<1>3. FlagsOK'
  BY <1>1 DEF FlagsOK, PipeOK, HostOK, CallsOK
<1>4. PipeOK' /\ HostOK'
  BY <1>1 DEF FlagsOK, PipeOK, HostOK, CallsOK
<1>5. CallsOK'
  BY <1>1 DEF FlagsOK, PipeOK, HostOK, CallsOK
<1>6. StopInv' /\ PipeInv' /\ UseInv' /\ NoDetachedSession'
  <2>1. StopInv'
    BY <1>1, <1>2 DEF IInv, LeaseTypeOK, PipeOK, HostOK, CallsOK, LeaseInv, PipeInv, StopInv
  <2>2. PipeInv'
    BY <1>1, <1>2 DEF IInv, LeaseTypeOK, PipeOK, HostOK, CallsOK, LeaseInv, PipeInv, StopInv, UseInv
  <2>3. UseInv'
    BY <1>1, <1>2 DEF IInv, PipeOK, HostOK, CallsOK, PipeInv, StopInv, UseInv
  <2>4. NoDetachedSession'
    BY <1>1, <1>2 DEF IInv, LeaseTypeOK, PipeOK, HostOK, CallsOK, LeaseInv, PipeInv, StopInv, NoDetachedSession
  <2> QED BY <2>1, <2>2, <2>3, <2>4
<1> QED BY <1>2, <1>3, <1>4, <1>5, <1>6 DEF IInv, Types

LEMMA StartIMSKeeps ==
  ASSUME IInv, StartIMS
  PROVE  IInv'
<1> USE DEF StartIMS, failStage, CancelAndJoin, PipeEnds, PipeGoes
<1>1. LeaseTypeOK /\ FlagsOK /\ PipeOK /\ HostOK /\ CallsOK
  BY DEF IInv, Types
<1>2. LeaseTypeOK' /\ LeaseInv'
  <2>1. candidate \in Candidates /\ session[candidate] # "none"
    BY <1>1 DEF IInv, PipeInv, PipeOK, StopInv
  <2>2. startCleanup(candidate) \/ UNCHANGED leaseVars
    OBVIOUS
  <2> QED
    BY <1>1, <2>1, <2>2, CleansOrNot DEF IInv
<1> USE DEF startCleanup
<1>3. FlagsOK' /\ PipeOK' /\ HostOK' /\ CallsOK'
  <2>1. FlagsOK' /\ CallsOK'
    BY <1>1 DEF FlagsOK, CallsOK
  <2>2. PipeOK'
    BY <1>1 DEF PipeOK, HostOK
  <2>3. HostOK'
    BY <1>1 DEF HostOK, PipeOK
  <2> QED BY <2>1, <2>2, <2>3
<1>4. StopInv' /\ PipeInv' /\ UseInv' /\ NoDetachedSession'
  <2>1. StopInv'
    BY <1>1, <1>2 DEF IInv, LeaseTypeOK, PipeOK, HostOK, CallsOK, LeaseInv, PipeInv, StopInv
  <2>2. PipeInv'
    BY <1>1, <1>2 DEF IInv, LeaseTypeOK, PipeOK, HostOK, CallsOK, LeaseInv, PipeInv, StopInv, UseInv
  <2>3. UseInv'
    BY <1>1, <1>2 DEF IInv, PipeOK, HostOK, CallsOK, PipeInv, StopInv, UseInv
  <2>4. NoDetachedSession'
    BY <1>1, <1>2 DEF IInv, LeaseTypeOK, PipeOK, HostOK, CallsOK, LeaseInv, PipeInv, StopInv, NoDetachedSession
  <2> QED BY <2>1, <2>2, <2>3, <2>4
<1> QED BY <1>2, <1>3, <1>4 DEF IInv, Types

LEMMA installServiceKeeps ==
  ASSUME IInv, installService
  PROVE  IInv'
<1> USE DEF installService, PipeEnds, PipeGoes
<1>1. LeaseTypeOK /\ FlagsOK /\ PipeOK /\ HostOK /\ CallsOK
  BY DEF IInv, Types
<1>2. LeaseTypeOK' /\ LeaseInv'
  BY <1>1 DEF IInv, LeaseTypeOK, LeaseInv
<1>3. FlagsOK' /\ PipeOK' /\ HostOK' /\ CallsOK'
  <2>1. FlagsOK' /\ CallsOK'
    BY <1>1 DEF FlagsOK, CallsOK
  <2>2. PipeOK'
    BY <1>1 DEF PipeOK, HostOK
  <2>3. HostOK'
    BY <1>1 DEF HostOK, PipeOK
  <2> QED BY <2>1, <2>2, <2>3
<1>4. StopInv'
  BY <1>1, <1>2 DEF IInv, LeaseTypeOK, PipeOK, HostOK, CallsOK, PipeInv, StopInv, LeaseInv
<1>5. PipeInv'
  BY <1>1, <1>2 DEF IInv, LeaseTypeOK, PipeOK, HostOK, CallsOK, PipeInv, StopInv, UseInv, LeaseInv
<1>6. UseInv'
  BY <1>1, <1>2 DEF IInv, LeaseTypeOK, PipeOK, HostOK, CallsOK, PipeInv, StopInv, UseInv
<1>7. NoDetachedSession'
  BY <1>1, <1>2 DEF IInv, LeaseTypeOK, PipeOK, HostOK, CallsOK, PipeInv, StopInv, LeaseInv, NoDetachedSession
<1> QED BY <1>2, <1>3, <1>4, <1>5, <1>6, <1>7 DEF IInv, Types

LEMMA IMSReadyKeeps ==
  ASSUME IInv, IMSReady
  PROVE  IInv'
<1> USE DEF IMSReady, PipeEnds, PipeGoes
<1>1. LeaseTypeOK /\ FlagsOK /\ PipeOK /\ HostOK /\ CallsOK
  BY DEF IInv, Types
<1>2. LeaseTypeOK' /\ LeaseInv'
  BY <1>1 DEF IInv, LeaseTypeOK, LeaseInv
<1>3. FlagsOK'
  BY <1>1 DEF FlagsOK, PipeOK, HostOK, CallsOK
<1>4. PipeOK' /\ HostOK'
  BY <1>1 DEF FlagsOK, PipeOK, HostOK, CallsOK
<1>5. CallsOK'
  BY <1>1 DEF FlagsOK, PipeOK, HostOK, CallsOK
<1>6. StopInv'
  BY <1>1, <1>2 DEF IInv, LeaseTypeOK, PipeOK, HostOK, CallsOK, PipeInv, StopInv, LeaseInv
<1>7. PipeInv'
  BY <1>1, <1>2 DEF IInv, LeaseTypeOK, PipeOK, HostOK, CallsOK, PipeInv, StopInv, UseInv, LeaseInv
<1>8. UseInv'
  BY <1>1, <1>2 DEF IInv, LeaseTypeOK, PipeOK, HostOK, CallsOK, PipeInv, StopInv, UseInv
<1>9. NoDetachedSession'
  BY <1>1, <1>2 DEF IInv, LeaseTypeOK, PipeOK, HostOK, CallsOK, PipeInv, StopInv, LeaseInv, NoDetachedSession
<1> QED BY <1>2, <1>3, <1>4, <1>5, <1>6, <1>7, <1>8, <1>9 DEF IInv, Types

LEMMA watchIMSHealthKeeps ==
  ASSUME IInv, watchIMSHealth
  PROVE  IInv'
<1> USE DEF watchIMSHealth, failStage, PipeEnds, PipeGoes
<1>1. LeaseTypeOK /\ FlagsOK /\ PipeOK /\ HostOK /\ CallsOK
  BY DEF IInv, Types
<1>2. LeaseTypeOK' /\ LeaseInv'
  BY <1>1 DEF IInv, LeaseTypeOK, LeaseInv
<1>3. FlagsOK'
  BY <1>1 DEF FlagsOK, PipeOK, HostOK, CallsOK
<1>4. PipeOK' /\ HostOK'
  BY <1>1 DEF FlagsOK, PipeOK, HostOK, CallsOK
<1>5. CallsOK'
  BY <1>1 DEF FlagsOK, PipeOK, HostOK, CallsOK
<1>6. StopInv' /\ PipeInv' /\ UseInv' /\ NoDetachedSession'
  <2>1. StopInv'
    BY <1>1, <1>2 DEF IInv, LeaseTypeOK, PipeOK, HostOK, CallsOK, LeaseInv, PipeInv, StopInv
  <2>2. PipeInv'
    BY <1>1, <1>2 DEF IInv, LeaseTypeOK, PipeOK, HostOK, CallsOK, LeaseInv, PipeInv, StopInv, UseInv
  <2>3. UseInv'
    BY <1>1, <1>2 DEF IInv, PipeOK, HostOK, CallsOK, PipeInv, StopInv, UseInv
  <2>4. NoDetachedSession'
    BY <1>1, <1>2 DEF IInv, LeaseTypeOK, PipeOK, HostOK, CallsOK, LeaseInv, PipeInv, StopInv, NoDetachedSession
  <2> QED BY <2>1, <2>2, <2>3, <2>4
<1> QED BY <1>2, <1>3, <1>4, <1>5, <1>6 DEF IInv, Types

LEMMA CancelRunKeeps ==
  ASSUME IInv, CancelRun
  PROVE  IInv'
<1> USE DEF CancelRun
<1>1. LeaseTypeOK /\ FlagsOK /\ PipeOK /\ HostOK /\ CallsOK
  BY DEF IInv, Types
<1>2. LeaseTypeOK' /\ LeaseInv'
  BY <1>1 DEF IInv, LeaseTypeOK, LeaseInv
<1>3. FlagsOK' /\ PipeOK' /\ HostOK' /\ CallsOK'
  BY <1>1 DEF FlagsOK, PipeOK, HostOK, CallsOK
<1>4. StopInv' /\ PipeInv' /\ UseInv' /\ NoDetachedSession'
  <2>1. StopInv'
    BY <1>1, <1>2 DEF IInv, LeaseTypeOK, PipeOK, HostOK, CallsOK, LeaseInv, PipeInv, StopInv
  <2>2. PipeInv'
    BY <1>1, <1>2 DEF IInv, LeaseTypeOK, PipeOK, HostOK, CallsOK, LeaseInv, PipeInv, StopInv, UseInv
  <2>3. UseInv'
    BY <1>1, <1>2 DEF IInv, PipeOK, HostOK, CallsOK, PipeInv, StopInv, UseInv
  <2>4. NoDetachedSession'
    BY <1>1, <1>2 DEF IInv, LeaseTypeOK, PipeOK, HostOK, CallsOK, LeaseInv, PipeInv, StopInv, NoDetachedSession
  <2> QED BY <2>1, <2>2, <2>3, <2>4
<1> QED BY <1>2, <1>3, <1>4 DEF IInv, Types

-----------------------------------------------------------------------------
(* The calls *)

LEMMA BorrowKeeps ==
  ASSUME IInv, NEW p \in Callers, HasService, acquireServiceUse(p)
  PROVE  IInv'
<1> USE DEF HasService, acquireServiceUse, Goto
<1>1. LeaseTypeOK /\ FlagsOK /\ PipeOK /\ HostOK /\ CallsOK
  BY DEF IInv, Types
<1>2. LeaseTypeOK' /\ LeaseInv'
  BY <1>1 DEF IInv, LeaseTypeOK, LeaseInv
<1>3. FlagsOK' /\ PipeOK' /\ HostOK' /\ CallsOK'
  BY <1>1 DEF FlagsOK, PipeOK, HostOK, CallsOK
<1>4. StopInv'
  BY <1>1, <1>2 DEF IInv, LeaseTypeOK, PipeOK, HostOK, CallsOK, PipeInv, StopInv, LeaseInv
<1>5. PipeInv'
  BY <1>1, <1>2 DEF IInv, LeaseTypeOK, PipeOK, HostOK, CallsOK, PipeInv, StopInv, UseInv, LeaseInv
<1>6. UseInv'
  BY <1>1, <1>2 DEF IInv, LeaseTypeOK, PipeOK, HostOK, CallsOK, PipeInv, StopInv, UseInv
<1>7. NoDetachedSession'
  BY <1>1, <1>2 DEF IInv, LeaseTypeOK, PipeOK, HostOK, CallsOK, PipeInv, StopInv, LeaseInv, NoDetachedSession
<1> QED BY <1>2, <1>3, <1>4, <1>5, <1>6, <1>7 DEF IInv, Types

LEMMA releaseServiceUseKeeps ==
  ASSUME IInv, NEW p \in Callers, releaseServiceUse(p)
  PROVE  IInv'
<1> USE DEF releaseServiceUse, Goto
<1>1. LeaseTypeOK /\ FlagsOK /\ PipeOK /\ HostOK /\ CallsOK
  BY DEF IInv, Types
<1>2. LeaseTypeOK' /\ LeaseInv'
  BY <1>1 DEF IInv, LeaseTypeOK, LeaseInv
<1>3. FlagsOK' /\ PipeOK' /\ HostOK' /\ CallsOK'
  BY <1>1 DEF FlagsOK, PipeOK, HostOK, CallsOK
<1>4. StopInv' /\ PipeInv' /\ UseInv' /\ NoDetachedSession'
  BY <1>1, <1>2 DEF IInv, LeaseTypeOK, PipeOK, HostOK, CallsOK, LeaseInv, PipeInv, StopInv, UseInv, NoDetachedSession
<1> QED BY <1>2, <1>3, <1>4 DEF IInv, Types

LEMMA TriggerMOBIKEKeeps ==
  ASSUME IInv, NEW p \in Callers, TriggerMOBIKE(p)
  PROVE  IInv'
<1> USE DEF TriggerMOBIKE, acquireMOBIKE, Goto
<1>1. LeaseTypeOK /\ FlagsOK /\ PipeOK /\ HostOK /\ CallsOK
  BY DEF IInv, Types
<1>2. LeaseTypeOK' /\ LeaseInv'
  BY <1>1, MOBIKEKeeps DEF IInv, HostOK, LeaseTypeOK, LeaseInv
<1>3. FlagsOK' /\ PipeOK' /\ HostOK' /\ CallsOK'
  BY <1>1 DEF FlagsOK, PipeOK, HostOK, CallsOK
<1>4. StopInv' /\ PipeInv' /\ UseInv' /\ NoDetachedSession'
  <2>1. StopInv'
    BY <1>1, <1>2 DEF IInv, LeaseTypeOK, PipeOK, HostOK, CallsOK, LeaseInv, PipeInv, StopInv
  <2>2. PipeInv'
    BY <1>1, <1>2 DEF IInv, LeaseTypeOK, PipeOK, HostOK, CallsOK, LeaseInv, PipeInv, StopInv, UseInv
  <2>3. UseInv'
    BY <1>1, <1>2 DEF IInv, PipeOK, HostOK, CallsOK, PipeInv, StopInv, UseInv
  <2>4. NoDetachedSession'
    BY <1>1, <1>2 DEF IInv, LeaseTypeOK, PipeOK, HostOK, CallsOK, LeaseInv, PipeInv, StopInv, NoDetachedSession
  <2> QED BY <2>1, <2>2, <2>3, <2>4
<1> QED BY <1>2, <1>3, <1>4 DEF IInv, Types

LEMMA MOBIKEReturnsKeeps ==
  ASSUME IInv, NEW p \in Callers, MOBIKEReturns(p)
  PROVE  IInv'
<1> USE DEF MOBIKEReturns, releaseMOBIKE, Goto
<1>1. LeaseTypeOK /\ FlagsOK /\ PipeOK /\ HostOK /\ CallsOK
  BY DEF IInv, Types
<1>2. LeaseTypeOK' /\ LeaseInv'
  BY <1>1, MOBIKEKeeps DEF IInv, LeaseTypeOK, LeaseInv
<1>3. /\ Held' = Held /\ Held \subseteq Candidates /\ UNCHANGED <<pipeVars, stateVars, stop>>
      /\ \A d \in Candidates : cleanup[d] = "none" => cleanup'[d] = "none"
  BY <1>1 DEF LeaseTypeOK, HostOK, CallsOK
<1>4. FlagsOK' /\ PipeOK' /\ HostOK' /\ CallsOK'
  BY <1>1 DEF FlagsOK, PipeOK, HostOK, CallsOK
<1>5. StopInv'
  BY <1>1, <1>2, <1>3 DEF IInv, LeaseTypeOK, PipeOK, HostOK, CallsOK, PipeInv, StopInv, LeaseInv
<1>6. PipeInv'
  BY <1>1, <1>2, <1>3 DEF IInv, LeaseTypeOK, PipeOK, HostOK, CallsOK, PipeInv, StopInv, UseInv, LeaseInv
<1>7. UseInv'
  BY <1>3 DEF IInv, UseInv
<1>8. NoDetachedSession'
  BY <1>1, <1>2, <1>3 DEF IInv, LeaseTypeOK, PipeOK, HostOK, CallsOK, PipeInv, StopInv, LeaseInv, NoDetachedSession
<1> QED BY <1>2, <1>4, <1>5, <1>6, <1>7, <1>8 DEF IInv, Types

LEMMA StopKeeps ==
  ASSUME IInv, NEW p \in Callers, Stop(p)
  PROVE  IInv'
<1> USE DEF Stop, BeginStop, Goto
<1>1. LeaseTypeOK /\ FlagsOK /\ PipeOK /\ HostOK /\ CallsOK
  BY DEF IInv, Types
<1>2. LeaseTypeOK' /\ LeaseInv'
  <2>1. CASE UNCHANGED leaseVars
    BY <1>1, <2>1 DEF IInv, LeaseTypeOK, LeaseInv
  <2>2. CASE adopted \in Candidates /\ BeginStop(adopted)
    BY <1>1, <2>2, BeginStopKeeps DEF IInv
  <2> QED BY <1>1, <2>1, <2>2 DEF HostOK
<1>3. FlagsOK'
  BY <1>1 DEF FlagsOK, PipeOK, HostOK, CallsOK
<1>4. PipeOK' /\ HostOK'
  BY <1>1 DEF FlagsOK, PipeOK, HostOK, CallsOK
<1>5. CallsOK'
  <2>1. pc' \in [Callers -> {"idle", "borrow", "mobike", "stop"}]
    BY <1>1 DEF CallsOK
  <2>2. CASE stopped
    BY <1>1, <2>1, <2>2 DEF CallsOK
  <2>3. CASE ~stopped
    <3>1. stop' = [at |-> "pipeline", lease |-> adopted, err |-> FALSE]
      BY <2>3
    <3>2. adopted \in {0} \cup Candidates
      BY <1>1 DEF HostOK
    <3> QED BY ONLY <2>1, <3>1, <3>2 DEF CallsOK, StopPlaces
  <2> QED BY <2>2, <2>3
<1>6. StopInv'
  BY <1>1, <1>2 DEF IInv, LeaseTypeOK, PipeOK, HostOK, CallsOK, PipeInv, StopInv, LeaseInv
<1>7. PipeInv'
  <2>1. Held' = Held
    BY <1>1 DEF IInv, StopInv, CallsOK
  <2>2. UNCHANGED <<pipeVars, service, session, cleanup>>
    BY DEF pipeVars
  <2> QED BY ONLY IInv, <2>1, <2>2 DEF IInv, PipeInv, pipeVars, Early, Untouched, Established
<1>8. UseInv'
  <2>1. Held' = Held /\ (Open => Open') /\ (Open' => Open)
    BY <1>1 DEF IInv, StopInv, CallsOK
  <2>2. UNCHANGED <<service, users, readiness, cleanup>> /\ (~stopped' => ~stopped)
    OBVIOUS
  <2> QED BY ONLY IInv, <2>1, <2>2 DEF IInv, UseInv
<1>9. NoDetachedSession'
  BY <1>1, <1>2 DEF IInv, LeaseTypeOK, PipeOK, HostOK, CallsOK, PipeInv, StopInv, LeaseInv, NoDetachedSession
<1> QED BY <1>2, <1>3, <1>4, <1>5, <1>6, <1>7, <1>8, <1>9 DEF IInv, Types

LEMMA StopReturnsKeeps ==
  ASSUME IInv, NEW p \in Callers, StopReturns(p)
  PROVE  IInv'
<1> USE DEF StopReturns, Goto
<1>1. LeaseTypeOK /\ FlagsOK /\ PipeOK /\ HostOK /\ CallsOK
  BY DEF IInv, Types
<1>2. LeaseTypeOK' /\ LeaseInv'
  BY <1>1 DEF IInv, LeaseTypeOK, LeaseInv
<1>3. FlagsOK' /\ PipeOK' /\ HostOK' /\ CallsOK'
  BY <1>1 DEF FlagsOK, PipeOK, HostOK, CallsOK
<1>4. StopInv' /\ PipeInv' /\ UseInv' /\ NoDetachedSession'
  BY <1>1, <1>2 DEF IInv, LeaseTypeOK, PipeOK, HostOK, CallsOK, LeaseInv, PipeInv, StopInv, UseInv, NoDetachedSession
<1> QED BY <1>2, <1>3, <1>4 DEF IInv, Types

-----------------------------------------------------------------------------
(* The cleanup of Stop *)

LEMMA AwaitPipelineKeeps ==
  ASSUME IInv, AwaitPipeline
  PROVE  IInv'
<1> USE DEF AwaitPipeline, CleanupGoes
<1>1. LeaseTypeOK /\ FlagsOK /\ PipeOK /\ HostOK /\ CallsOK
  BY DEF IInv, Types
<1>2. LeaseTypeOK' /\ LeaseInv'
  BY <1>1 DEF IInv, LeaseTypeOK, LeaseInv
<1>3. FlagsOK' /\ PipeOK' /\ HostOK' /\ CallsOK'
  BY <1>1 DEF FlagsOK, PipeOK, HostOK, CallsOK
<1>4. StopInv'
  BY <1>1, <1>2 DEF IInv, LeaseTypeOK, PipeOK, HostOK, CallsOK, PipeInv, StopInv, LeaseInv
<1>5. PipeInv'
  BY <1>1, <1>2 DEF IInv, LeaseTypeOK, PipeOK, HostOK, CallsOK, PipeInv, StopInv, UseInv, LeaseInv
<1>6. UseInv'
  BY <1>1, <1>2 DEF IInv, LeaseTypeOK, PipeOK, HostOK, CallsOK, PipeInv, StopInv, UseInv
<1>7. NoDetachedSession'
  BY <1>1, <1>2 DEF IInv, LeaseTypeOK, PipeOK, HostOK, CallsOK, PipeInv, StopInv, LeaseInv, NoDetachedSession
<1> QED BY <1>2, <1>3, <1>4, <1>5, <1>6, <1>7 DEF IInv, Types

LEMMA AwaitUsersKeeps ==
  ASSUME IInv, AwaitUsers
  PROVE  IInv'
<1> USE DEF AwaitUsers, CleanupGoes
<1>1. LeaseTypeOK /\ FlagsOK /\ PipeOK /\ HostOK /\ CallsOK
  BY DEF IInv, Types
<1>2. LeaseTypeOK' /\ LeaseInv'
  BY <1>1 DEF IInv, LeaseTypeOK, LeaseInv
<1>3. FlagsOK' /\ PipeOK' /\ HostOK' /\ CallsOK'
  BY <1>1 DEF FlagsOK, PipeOK, HostOK, CallsOK
<1>4. StopInv'
  BY <1>1, <1>2 DEF IInv, LeaseTypeOK, PipeOK, HostOK, CallsOK, PipeInv, StopInv, LeaseInv
<1>5. PipeInv'
  BY <1>1, <1>2 DEF IInv, LeaseTypeOK, PipeOK, HostOK, CallsOK, PipeInv, StopInv, UseInv, LeaseInv
<1>6. UseInv'
  BY <1>1, <1>2 DEF IInv, LeaseTypeOK, PipeOK, HostOK, CallsOK, PipeInv, StopInv, UseInv
<1>7. NoDetachedSession'
  BY <1>1, <1>2 DEF IInv, LeaseTypeOK, PipeOK, HostOK, CallsOK, PipeInv, StopInv, LeaseInv, NoDetachedSession
<1> QED BY <1>2, <1>3, <1>4, <1>5, <1>6, <1>7 DEF IInv, Types

LEMMA CleanLeaseKeeps ==
  ASSUME IInv, CleanLease
  PROVE  IInv'
<1> USE DEF CleanLease, CleanupGoes, startCleanup
<1>1. LeaseTypeOK /\ FlagsOK /\ PipeOK /\ HostOK /\ CallsOK
  BY DEF IInv, Types
<1>2. LeaseTypeOK' /\ LeaseInv'
  BY <1>1, StartCleanupKeeps DEF IInv, StopInv, CallsOK, LeaseTypeOK, LeaseInv
<1>3. FlagsOK' /\ PipeOK' /\ HostOK' /\ CallsOK'
  BY <1>1 DEF FlagsOK, PipeOK, HostOK, CallsOK
<1>4. StopInv'
  BY <1>1, <1>2 DEF IInv, LeaseTypeOK, PipeOK, HostOK, CallsOK, PipeInv, StopInv, LeaseInv
<1>5. PipeInv'
  BY <1>1, <1>2 DEF IInv, LeaseTypeOK, PipeOK, HostOK, CallsOK, PipeInv, StopInv, UseInv, LeaseInv
<1>6. UseInv'
  BY <1>1, <1>2 DEF IInv, LeaseTypeOK, PipeOK, HostOK, CallsOK, PipeInv, StopInv, UseInv
<1>7. NoDetachedSession'
  BY <1>1, <1>2 DEF IInv, LeaseTypeOK, PipeOK, HostOK, CallsOK, PipeInv, StopInv, LeaseInv, NoDetachedSession
<1> QED BY <1>2, <1>3, <1>4, <1>5, <1>6, <1>7 DEF IInv, Types

LEMMA AwaitDrainedKeeps ==
  ASSUME IInv, AwaitDrained
  PROVE  IInv'
<1> USE DEF AwaitDrained, CleanupGoes, CleanupFails, Drained
<1>1. LeaseTypeOK /\ FlagsOK /\ PipeOK /\ HostOK /\ CallsOK
  BY DEF IInv, Types
<1>2. LeaseTypeOK' /\ LeaseInv'
  BY <1>1 DEF IInv, LeaseTypeOK, LeaseInv
<1>3. /\ stop'.lease = stop.lease /\ UNCHANGED <<leaseVars, pipeVars, stateVars>>
      /\ stop'.at = "join" \/ (stop'.at = "close" /\ stop'.err)
      /\ Held' = Held /\ stop.at \in {"drain", "join"}
  BY <1>1 DEF LeaseTypeOK, HostOK, CallsOK
<1>4. FlagsOK'
  BY <1>1 DEF FlagsOK, PipeOK, HostOK, CallsOK
<1>5. PipeOK' /\ HostOK'
  BY <1>1 DEF FlagsOK, PipeOK, HostOK, CallsOK
<1>6. CallsOK'
  BY <1>1 DEF FlagsOK, PipeOK, HostOK, CallsOK
<1>7. StopInv'
  BY <1>3 DEF IInv, StopInv
<1>8. PipeInv'
  BY <1>1, <1>2, <1>3 DEF IInv, LeaseTypeOK, PipeOK, HostOK, CallsOK, PipeInv, StopInv, UseInv, LeaseInv
<1>9. UseInv'
  BY <1>3 DEF IInv, UseInv
<1>10. NoDetachedSession'
  BY <1>3 DEF IInv, StopInv, LeaseInv, NoDetachedSession
<1> QED BY <1>2, <1>4, <1>5, <1>6, <1>7, <1>8, <1>9, <1>10 DEF IInv, Types

LEMMA AwaitJoinedKeeps ==
  ASSUME IInv, AwaitJoined
  PROVE  IInv'
<1> USE DEF AwaitJoined, CleanupGoes, CleanupFails, Joined
<1>1. LeaseTypeOK /\ FlagsOK /\ PipeOK /\ HostOK /\ CallsOK
  BY DEF IInv, Types
<1>2. LeaseTypeOK' /\ LeaseInv'
  BY <1>1 DEF IInv, LeaseTypeOK, LeaseInv
<1>3. /\ stop'.lease = stop.lease /\ UNCHANGED <<leaseVars, pipeVars, stateVars>>
      /\ stop'.at = "close" /\ (stop'.err \/ cleanup[stop.lease] = "done")
      /\ Held' = Held /\ stop.at \in {"drain", "join"}
  BY <1>1 DEF LeaseTypeOK, HostOK, CallsOK
<1>4. FlagsOK'
  BY <1>1 DEF FlagsOK, PipeOK, HostOK, CallsOK
<1>5. PipeOK' /\ HostOK'
  BY <1>1 DEF FlagsOK, PipeOK, HostOK, CallsOK
<1>6. CallsOK'
  BY <1>1 DEF FlagsOK, PipeOK, HostOK, CallsOK
<1>7. StopInv'
  BY <1>3 DEF IInv, StopInv
<1>8. PipeInv'
  BY <1>1, <1>2, <1>3 DEF IInv, LeaseTypeOK, PipeOK, HostOK, CallsOK, PipeInv, StopInv, UseInv, LeaseInv
<1>9. UseInv'
  BY <1>3 DEF IInv, UseInv
<1>10. NoDetachedSession'
  BY <1>3 DEF IInv, StopInv, LeaseInv, NoDetachedSession
<1> QED BY <1>2, <1>4, <1>5, <1>6, <1>7, <1>8, <1>9, <1>10 DEF IInv, Types

LEMMA CloseServiceKeeps ==
  ASSUME IInv, CloseService
  PROVE  IInv'
<1> USE DEF CloseService, CleanupGoes
<1>1. LeaseTypeOK /\ FlagsOK /\ PipeOK /\ HostOK /\ CallsOK
  BY DEF IInv, Types
<1>2. LeaseTypeOK' /\ LeaseInv'
  BY <1>1 DEF IInv, LeaseTypeOK, LeaseInv
<1>3. FlagsOK' /\ PipeOK' /\ HostOK' /\ CallsOK'
  BY <1>1 DEF FlagsOK, PipeOK, HostOK, CallsOK
<1>4. StopInv' /\ PipeInv' /\ UseInv' /\ NoDetachedSession'
  BY <1>1, <1>2 DEF IInv, LeaseTypeOK, PipeOK, HostOK, CallsOK, LeaseInv, PipeInv, StopInv, UseInv, NoDetachedSession
<1> QED BY <1>2, <1>3, <1>4 DEF IInv, Types

-----------------------------------------------------------------------------
(* The steps of a lease on its own *)

LEMMA TaskStepKeeps ==
  ASSUME IInv, NEW c \in Candidates, MarkReady(c) \/ ConnectReturns(c) \/ SessionDone(c), Elsewhere
  PROVE  IInv'
<1> USE DEF MarkReady, ConnectReturns, SessionDone, Elsewhere
<1>1. LeaseTypeOK /\ FlagsOK /\ PipeOK /\ HostOK /\ CallsOK
  BY DEF IInv, Types
<1>2. LeaseTypeOK' /\ LeaseInv'
  BY <1>1, TaskKeeps DEF IInv
<1>3. /\ Held' = Held /\ Held \subseteq Candidates /\ UNCHANGED <<pipeVars, stateVars, stop>>
      /\ \A d \in Candidates : cleanup[d] = "none" => cleanup'[d] = "none"
  BY <1>1 DEF LeaseTypeOK, HostOK, CallsOK
<1>4. FlagsOK' /\ PipeOK' /\ HostOK' /\ CallsOK'
  BY <1>1 DEF FlagsOK, PipeOK, HostOK, CallsOK
<1>5. StopInv'
  BY <1>1, <1>2, <1>3 DEF IInv, LeaseTypeOK, PipeOK, HostOK, CallsOK, PipeInv, StopInv, LeaseInv
<1>6. PipeInv'
  BY <1>1, <1>2, <1>3 DEF IInv, LeaseTypeOK, PipeOK, HostOK, CallsOK, PipeInv, StopInv, UseInv, LeaseInv
<1>7. UseInv'
  BY <1>3 DEF IInv, UseInv
<1>8. NoDetachedSession'
  BY <1>1, <1>2, <1>3 DEF IInv, LeaseTypeOK, PipeOK, HostOK, CallsOK, PipeInv, StopInv, LeaseInv, NoDetachedSession
<1> QED BY <1>2, <1>4, <1>5, <1>6, <1>7, <1>8 DEF IInv, Types

LEMMA CleanupStepKeeps ==
  ASSUME IInv, NEW c \in Candidates, Drain(c) \/ cancelSession(c) \/ FinishCleanup(c), Elsewhere
  PROVE  IInv'
<1> USE DEF Drain, cancelSession, FinishCleanup, Elsewhere
<1>1. LeaseTypeOK /\ FlagsOK /\ PipeOK /\ HostOK /\ CallsOK
  BY DEF IInv, Types
<1>2. LeaseTypeOK' /\ LeaseInv'
  BY <1>1, CleanupKeeps DEF IInv
<1>3. /\ Held' = Held /\ Held \subseteq Candidates /\ UNCHANGED <<pipeVars, stateVars, stop>>
      /\ \A d \in Candidates : cleanup[d] = "none" => cleanup'[d] = "none"
  BY <1>1 DEF LeaseTypeOK, HostOK, CallsOK
<1>4. FlagsOK' /\ PipeOK' /\ HostOK' /\ CallsOK'
  BY <1>1 DEF FlagsOK, PipeOK, HostOK, CallsOK
<1>5. StopInv'
  BY <1>1, <1>2, <1>3 DEF IInv, LeaseTypeOK, PipeOK, HostOK, CallsOK, PipeInv, StopInv, LeaseInv
<1>6. PipeInv'
  BY <1>1, <1>2, <1>3 DEF IInv, LeaseTypeOK, PipeOK, HostOK, CallsOK, PipeInv, StopInv, UseInv, LeaseInv
<1>7. UseInv'
  BY <1>3 DEF IInv, UseInv
<1>8. NoDetachedSession'
  BY <1>1, <1>2, <1>3 DEF IInv, LeaseTypeOK, PipeOK, HostOK, CallsOK, PipeInv, StopInv, LeaseInv, NoDetachedSession
<1> QED BY <1>2, <1>4, <1>5, <1>6, <1>7, <1>8 DEF IInv, Types

-----------------------------------------------------------------------------
(* Every step, and the theorems *)

LEMMA StutterKeeps ==
  ASSUME IInv, UNCHANGED vars
  PROVE  IInv'
BY DEF IInv, Types, LeaseTypeOK, FlagsOK, PipeOK, HostOK, CallsOK, LeaseInv, StopInv, PipeInv, UseInv,
       NoDetachedSession, vars

LEMMA NextKeeps == IInv /\ [Next]_vars => IInv'
<1> SUFFICES ASSUME IInv, [Next]_vars PROVE IInv'
  OBVIOUS
<1>1. CASE Pipeline
  BY <1>1, BeginKeeps, ResolveKeeps, LookupKeeps, TryCandidateKeeps, startSWuSessionKeeps, ConnectKeeps,
     WaitDrainedKeeps, WaitJoinedKeeps, installSWULeaseKeeps, TunnelReadyKeeps, StartIMSKeeps,
     installServiceKeeps, IMSReadyKeeps, watchIMSHealthKeeps DEF Pipeline
<1>2. CASE CancelRun
  BY <1>2, CancelRunKeeps
<1>3. CASE StopCleanup
  BY <1>3, AwaitPipelineKeeps, AwaitUsersKeeps, CleanLeaseKeeps, AwaitDrainedKeeps, AwaitJoinedKeeps,
     CloseServiceKeeps DEF StopCleanup
<1>4. ASSUME NEW p \in Callers, Call(p) PROVE IInv'
  <2>1. CASE SendSMS(p) \/ acquireUSSDService(p) \/ Obs(p)
    BY <2>1, BorrowKeeps DEF SendSMS, acquireUSSDService, Obs
  <2> QED BY <1>4, <2>1, releaseServiceUseKeeps, TriggerMOBIKEKeeps, MOBIKEReturnsKeeps, StopKeeps,
             StopReturnsKeeps DEF Call
<1>5. ASSUME NEW c \in Candidates, Lease(c) PROVE IInv'
  BY <1>5, TaskStepKeeps, CleanupStepKeeps DEF Lease
<1>6. CASE UNCHANGED vars
  BY <1>6, StutterKeeps
<1> QED BY <1>1, <1>2, <1>3, <1>4, <1>5, <1>6 DEF Next

\* The inductive invariant holds in every behaviour.
THEOREM Invariant == Spec => []IInv
BY InitIInv, NextKeeps, PTL DEF Spec

\* The variables of an Instance and of its leases keep their types.
THEOREM TypeCorrect == Spec => []TypeOK
<1>1. IInv => TypeOK
  BY TypeParts DEF IInv
<1> QED BY <1>1, Invariant, PTL

\* There is one SWu session at a time, and whoever starts, adopts or stops it owns it;
\* one that has no owner ran into the deadline of its join.
THEOREM SessionsOwned == Spec => []NoDetachedSession
<1>1. IInv => NoDetachedSession
  BY DEF IInv
<1> QED BY <1>1, Invariant, PTL

\* Neither the service nor the session is closed under a borrower, a MOBIKE operation or
\* the pipeline, and what is announced as ready is open.
THEOREM UsedIsOpen == Spec => []InUseIsOpen
<1>1. IInv => InUseIsOpen
  <2> SUFFICES ASSUME IInv PROVE InUseIsOpen
    OBVIOUS
  <2> USE DEF IInv, Types
  <2>1. Held \subseteq Candidates
    BY DEF HostOK, CallsOK
  <2>2. \A c \in Candidates : cleanup[c] = "none" => c \notin cancelled
    BY DEF LeaseInv
  <2>3. users # {} => service = "installed" /\ Held # {} /\ Held \cap cancelled = {}
    BY <2>1, <2>2 DEF UseInv
  <2>4. pipe \in {"install", "imsReady"} => service # "closed"
    BY DEF PipeInv
  <2>5. \A c \in Candidates : mobike[c] # {} => c \notin cancelled
    BY DEF LeaseInv
  <2>6. ~stopped /\ readiness \cap {"ims", "sms"} # {} =>
          service = "installed" /\ adopted # 0 /\ adopted \notin cancelled
    BY <2>1, <2>2 DEF UseInv, StopInv
  <2> QED BY <2>3, <2>4, <2>5, <2>6 DEF InUseIsOpen
<1> QED BY <1>1, Invariant, PTL

==============================================================================
