------------------------- MODULE ApduArbiterProofs -------------------------
(***************************************************************************)
(* Proofs about ApduArbiter for any finite set of callers, any requests    *)
(* and any limits: the arbiter implements the bus, a barrier holds, a      *)
(* suspect transport fences the rest, no wake-up is lost and an exclusive  *)
(* transport is not overtaken.                                             *)
(***************************************************************************)
EXTENDS ApduArbiter, FiniteSetTheorems, TLAPS

\* Only an owner, or a recovery in its place, has an active lease.
OwnersHold == \A c \in Callers : pc[c] \notin {"holding", "gone"} => phase[c] = "none"

\* The queue has exactly one ticket of each waiting caller.
QueueIsWaiting ==
    /\ \A i \in DOMAIN queue : pc[queue[i]] = "waiting"
    /\ \A c \in Callers : pc[c] = "waiting" => \E i \in DOMAIN queue : queue[i] = c
    /\ \A i, j \in DOMAIN queue : queue[i] = queue[j] => i = j

Granted == {c \in Callers : phase[c] # "none"}

IInv == TypeOK /\ OwnersHold /\ QueueIsWaiting /\ Bus!Compatible(Granted)

-----------------------------------------------------------------------------
(* The queue *)

\* Removing the only ticket of c keeps the others, each once and in order.
LEMMA WithoutTicket ==
  ASSUME NEW q \in Seq(Callers), NEW c \in Callers, NEW k \in DOMAIN q, q[k] = c,
         \A i, j \in DOMAIN q : q[i] = q[j] => i = j
  PROVE  /\ Without(q, c) \in Seq(Callers)
         /\ \A i \in DOMAIN Without(q, c) : \E j \in DOMAIN q : j # k /\ Without(q, c)[i] = q[j]
         /\ \A j \in DOMAIN q : j # k => \E i \in DOMAIN Without(q, c) : Without(q, c)[i] = q[j]
         /\ \A i, j \in DOMAIN Without(q, c) : Without(q, c)[i] = Without(q, c)[j] => i = j
<1> DEFINE w == [i \in 1..(Len(q) - 1) |-> IF i < k THEN q[i] ELSE q[i + 1]]
<1>0. DOMAIN q = 1..Len(q) /\ Len(q) \in Nat /\ \A i \in 1..Len(q) : q[i] \in Callers
  OBVIOUS
<1>1. Without(q, c) = w
  <2>1. (CHOOSE i \in DOMAIN q : q[i] = c) = k
    OBVIOUS
  <2> QED
    BY <2>1 DEF Without
<1>2. w \in Seq(Callers) /\ DOMAIN w = 1..(Len(q) - 1)
  <2>1. Len(q) - 1 \in Nat /\ w \in [1..(Len(q) - 1) -> Callers]
    BY <1>0
  <2> QED
    BY <2>1
<1>3. \A i \in DOMAIN w : \E j \in DOMAIN q : j # k /\ w[i] = q[j]
  <2> SUFFICES ASSUME NEW i \in 1..(Len(q) - 1) PROVE \E j \in 1..Len(q) : j # k /\ w[i] = q[j]
    BY <1>0, <1>2
  <2>1. CASE i < k
    <3>1. i \in 1..Len(q) /\ i # k /\ w[i] = q[i]
      BY <1>0, <2>1
    <3> QED
      BY <3>1
  <2>2. CASE ~(i < k)
    <3>1. i + 1 \in 1..Len(q) /\ i + 1 # k /\ w[i] = q[i + 1]
      BY <1>0, <2>2
    <3> QED
      BY <3>1
  <2> QED
    BY <2>1, <2>2
<1>4. \A j \in DOMAIN q : j # k => \E i \in DOMAIN w : w[i] = q[j]
  <2> SUFFICES ASSUME NEW j \in 1..Len(q), j # k PROVE \E i \in 1..(Len(q) - 1) : w[i] = q[j]
    BY <1>0, <1>2
  <2>1. CASE j < k
    <3>1. j \in 1..(Len(q) - 1) /\ w[j] = q[j]
      BY <1>0, <2>1
    <3> QED
      BY <3>1
  <2>2. CASE j > k
    <3>1. j - 1 \in 1..(Len(q) - 1) /\ w[j - 1] = q[j]
      BY <1>0, <2>2
    <3> QED
      BY <3>1
  <2> QED
    BY <1>0, <2>1, <2>2
<1>5. \A i, j \in DOMAIN w : w[i] = w[j] => i = j
  BY <1>0, <1>2
<1> HIDE DEF w
<1> QED
  BY <1>1, <1>2, <1>3, <1>4, <1>5

LEMMA AppendTicket ==
  ASSUME TypeOK, QueueIsWaiting, NEW c \in Callers, pc[c] # "waiting"
  PROVE  /\ Append(queue, c) \in Seq(Callers)
         /\ DOMAIN Append(queue, c) = 1..(Len(queue) + 1) /\ DOMAIN queue = 1..Len(queue)
         /\ Append(queue, c)[Len(queue) + 1] = c
         /\ \A i \in DOMAIN queue : Append(queue, c)[i] = queue[i] /\ queue[i] # c
         /\ \A i, j \in DOMAIN Append(queue, c) : Append(queue, c)[i] = Append(queue, c)[j] => i = j
<1>1. /\ Append(queue, c) \in Seq(Callers) /\ Len(queue) \in Nat
      /\ DOMAIN Append(queue, c) = 1..(Len(queue) + 1) /\ DOMAIN queue = 1..Len(queue)
      /\ Append(queue, c)[Len(queue) + 1] = c
      /\ \A i \in DOMAIN queue : Append(queue, c)[i] = queue[i]
  BY DEF TypeOK
<1>2. \A i \in DOMAIN queue : queue[i] # c
  BY DEF QueueIsWaiting
<1> HIDE DEF QueueIsWaiting
<1>3. ASSUME NEW i \in DOMAIN Append(queue, c), NEW j \in DOMAIN Append(queue, c),
             Append(queue, c)[i] = Append(queue, c)[j]
      PROVE  i = j
  <2>1. \A k \in DOMAIN Append(queue, c) : k = Len(queue) + 1 \/ k \in DOMAIN queue
    BY <1>1
  <2> QED
    BY <1>1, <1>2, <1>3, <2>1 DEF QueueIsWaiting
<1> QED
  BY <1>1, <1>2, <1>3

-----------------------------------------------------------------------------
(* What a grant requires *)

\* A selected transport is an eligible ticket.
LEMMA SelectedIsEligible ==
  ASSUME NEW q, NEW c, c \in selectedTransport(q)
  PROVE  \E i \in Eligible(q) : q[i] = c
BY DEF selectedTransport, Oldest

\* No operation starts beside a suspect transport, and a barrier only on an idle
\* modem.
LEMMA GrantIsFree ==
  ASSUME NEW c \in Callers, NEW q, canAcquire(c, q)
  PROVE  /\ Active("transport") \cap Suspect = {}
         /\ Is(c, "barrier") => NoLease
         /\ ~Is(c, "barrier") => ~isBlockedByActiveBarrier(c)
         /\ Is(c, "transport") => canAcquireTransportNow(c)
<1>1. CASE Is(c, "barrier")
  BY <1>1 DEF canAcquire, canAcquireBarrier, NoLease, Is
<1>2. CASE Is(c, "transport")
  <2>1. c \in selectedTransport(q) /\ ~isBlockedByActiveBarrier(c)
    BY <1>2 DEF canAcquire, canAcquireLease, Is
  <2>2. canAcquireTransportNow(c)
    BY <2>1, SelectedIsEligible DEF Eligible
  <2> QED
    BY <1>2, <2>1, <2>2 DEF canAcquireTransportNow, Is
<1>3. CASE ~Is(c, "barrier") /\ ~Is(c, "transport")
  BY <1>3 DEF canAcquire, canAcquireLease, NoLease
<1> QED
  BY <1>1, <1>2, <1>3

LEMMA RequestKinds ==
  ASSUME ConstantsAssumption, TypeOK, NEW c \in Callers
  PROVE  request[c].type \in Types /\ request[c].scope \in Scopes
BY DEF ConstantsAssumption, TypeOK

\* The sets of the arbiter are those of the bus.
LEMMA SameSets ==
  ASSUME ConstantsAssumption, TypeOK
  PROVE  /\ \A t : Bus!OfType(Granted, t) = Active(t)
         /\ Bus!QMI(Granted) = QMIActive
         /\ NoLease <=> Bus!Leases(Granted) = {}
         /\ Bus!Leases(Granted) = Active("session") \cup Active("oneshot") \cup Active("transport")
<1>1. \A t : Bus!OfType(Granted, t) = Active(t)
  BY DEF Bus!OfType, Granted, Active, Is
<1>2. Bus!QMI(Granted) = QMIActive
  BY <1>1 DEF Bus!QMI, QMIActive
<1>3. Bus!Leases(Granted) = Active("session") \cup Active("oneshot") \cup Active("transport")
  BY RequestKinds DEF Bus!Leases, Granted, Active, Is, Types
<1> QED
  BY <1>1, <1>2, <1>3 DEF NoLease

LEMMA SameCardinality == \A S : Bus!Cardinality(S) = Cardinality(S)
BY DEF Bus!Cardinality, Cardinality

LEMMA FiniteActive ==
  ASSUME ConstantsAssumption, NEW S \in SUBSET Callers
  PROVE  IsFiniteSet(S) /\ Cardinality(S) \in Nat
BY FS_Subset, FS_CardinalityType DEF ConstantsAssumption

\* What may be granted is compatible with what is.
LEMMA GrantIsCompatible ==
  ASSUME ConstantsAssumption, TypeOK, Bus!Compatible(Granted), NEW c \in Callers, NEW q,
         canAcquire(c, q), phase[c] = "none"
  PROVE  Bus!Compatible(Granted \cup {c})
<1> DEFINE G == Granted \cup {c}
<1> USE DEF Is
<1>0. /\ c \notin Granted /\ request[c].type \in Types /\ request[c].scope \in Scopes
      /\ Granted \subseteq Callers
  BY RequestKinds DEF Granted
<1>1. ASSUME NEW a \in Bus!Leases(G), NEW b \in Bus!Leases(G), a # b
      PROVE  \/ request[a].type = "session" /\ request[b].type = "session"
             \/ {a, b} \subseteq Bus!QMI(G) /\ request[a].channel # request[b].channel
  <2>1. CASE a # c /\ b # c
    <3>1. a \in Bus!Leases(Granted) /\ b \in Bus!Leases(Granted)
      BY <2>1 DEF Bus!Leases
    <3>2. \/ request[a].type = "session" /\ request[b].type = "session"
          \/ {a, b} \subseteq Bus!QMI(Granted) /\ request[a].channel # request[b].channel
      BY <1>1, <3>1 DEF Bus!Compatible
    <3>3. Bus!QMI(Granted) \subseteq Bus!QMI(G)
      BY DEF Bus!QMI, Bus!OfType
    <3> QED
      BY <3>2, <3>3
  <2>2. ASSUME NEW d \in Granted, request[d].type # "barrier", request[c].type # "barrier"
        PROVE  \/ request[c].type = "session" /\ request[d].type = "session"
               \/ {c, d} \subseteq Bus!QMI(G) /\ request[c].channel # request[d].channel
    <3>1. d \in Active("session") \cup Active("oneshot") \cup Active("transport")
      BY <2>2, SameSets DEF Bus!Leases
    <3>2. CASE request[c].type = "session"
      BY <3>1, <3>2 DEF canAcquire, canAcquireLease, Active
    <3>3. CASE request[c].type = "oneshot"
      BY <3>1, <3>3 DEF canAcquire, canAcquireLease, NoLease
    <3>4. CASE request[c].type = "transport"
      <4>1. d \in Active("transport") /\ canAcquireTransportNow(c)
        BY <3>1, <3>4, GrantIsFree DEF canAcquire, canAcquireLease
      <4>2. request[c].scope = "qmi" /\ d \in QMIActive /\ request[d].channel # request[c].channel
        BY <1>0, <4>1 DEF canAcquireTransportNow, Scopes
      <4> QED
        BY <3>4, <4>2, SameSets DEF Bus!QMI, Bus!OfType
    <3> QED
      BY <1>0, <2>2, <3>2, <3>3, <3>4 DEF Types
  <2>3. a \in G /\ b \in G /\ request[a].type # "barrier" /\ request[b].type # "barrier"
    BY DEF Bus!Leases
  <2> QED
    BY <1>1, <2>1, <2>2, <2>3
<1>2. Cardinality(Bus!OfType(G, "session")) <= MaxSessions
  <2>1. CASE request[c].type = "session"
    <3>1. Bus!OfType(G, "session") = Active("session") \cup {c} /\ c \notin Active("session")
      BY <1>0, <2>1, SameSets DEF Bus!OfType, Active
    <3>2. Cardinality(Active("session")) < MaxSessions
      BY <2>1 DEF canAcquire, canAcquireLease
    <3>3. Active("session") \in SUBSET Callers
      BY DEF Active
    <3>4. IsFiniteSet(Active("session")) /\ Cardinality(Active("session")) \in Nat
      BY <3>3, FiniteActive
    <3>5. Cardinality(Active("session") \cup {c}) = Cardinality(Active("session")) + 1
      BY <3>1, <3>4, FS_AddElement
    <3> QED
      BY <3>1, <3>2, <3>4, <3>5 DEF ConstantsAssumption
  <2>2. CASE request[c].type # "session"
    <3>1. Bus!OfType(G, "session") = Bus!OfType(Granted, "session")
      BY <2>2 DEF Bus!OfType
    <3> QED
      BY <3>1, SameCardinality DEF Bus!Compatible
  <2> QED
    BY <2>1, <2>2
<1>3. Cardinality(Bus!QMI(G)) <= MaxQMITransports
  <2>1. CASE request[c].type = "transport" /\ request[c].scope = "qmi"
    <3>1. Bus!QMI(G) = QMIActive \cup {c} /\ c \notin QMIActive
      BY <1>0, <2>1, SameSets DEF Bus!QMI, Bus!OfType, QMIActive, Active
    <3>2. Cardinality(QMIActive) < MaxQMITransports
      BY <2>1, GrantIsFree DEF canAcquireTransportNow
    <3>3. QMIActive \in SUBSET Callers
      BY DEF QMIActive, Active
    <3>4. IsFiniteSet(QMIActive) /\ Cardinality(QMIActive) \in Nat
      BY <3>3, FiniteActive
    <3>5. Cardinality(Bus!QMI(G)) = Cardinality(QMIActive) + 1
      BY <3>1, <3>4, FS_AddElement
    <3>6. MaxQMITransports \in Nat
      BY DEF ConstantsAssumption
    <3> HIDE DEF G
    <3> QED
      BY <3>2, <3>4, <3>5, <3>6
  <2>2. CASE ~(request[c].type = "transport" /\ request[c].scope = "qmi")
    <3>1. Bus!QMI(G) = Bus!QMI(Granted)
      BY <2>2 DEF Bus!QMI, Bus!OfType
    <3> QED
      BY <3>1, SameCardinality DEF Bus!Compatible
  <2> QED
    BY <2>1, <2>2
<1>4. ASSUME NEW b \in Bus!OfType(G, "barrier"), NEW l \in Bus!Leases(G)
      PROVE  request[l].class \notin request[b].blocked
  <2>1. b \in G /\ l \in G /\ request[b].type = "barrier" /\ request[l].type # "barrier"
    BY DEF Bus!OfType, Bus!Leases
  <2>2. CASE b = c
    <3>1. Bus!Leases(Granted) = {}
      BY <2>1, <2>2, GrantIsFree, SameSets
    <3> QED
      BY <2>1, <2>2, <3>1 DEF Bus!Leases
  <2>3. CASE l = c
    <3>1. ~isBlockedByActiveBarrier(c) /\ b \in Active("barrier")
      BY <2>1, <2>3, GrantIsFree DEF Active, Granted
    <3> QED
      BY <2>3, <3>1 DEF isBlockedByActiveBarrier
  <2>4. CASE b # c /\ l # c
    BY <2>1, <2>4 DEF Bus!Compatible, Bus!OfType, Bus!Leases
  <2> QED
    BY <2>2, <2>3, <2>4
<1> QED
  BY <1>1, <1>2, <1>3, <1>4, SameCardinality DEF Bus!Compatible

\* What is left of compatible operations is compatible.
LEMMA FewerAreCompatible ==
  ASSUME ConstantsAssumption, NEW S \in SUBSET Callers, NEW T \in SUBSET S, Bus!Compatible(S)
  PROVE  Bus!Compatible(T)
<1>1. /\ Bus!Leases(T) \subseteq Bus!Leases(S) /\ \A t : Bus!OfType(T, t) \subseteq Bus!OfType(S, t)
      /\ Bus!QMI(T) = Bus!QMI(S) \cap T /\ Bus!Leases(T) \subseteq T
      /\ Bus!QMI(S) \in SUBSET Callers /\ \A t : Bus!OfType(S, t) \in SUBSET Callers
  BY DEF Bus!Leases, Bus!OfType, Bus!QMI
<1>2. Cardinality(Bus!OfType(T, "session")) <= MaxSessions
  <2>1. Cardinality(Bus!OfType(T, "session")) <= Cardinality(Bus!OfType(S, "session"))
    BY <1>1, FiniteActive, FS_Subset
  <2> QED
    BY <1>1, <2>1, FiniteActive, SameCardinality DEF Bus!Compatible, ConstantsAssumption
<1>3. Cardinality(Bus!QMI(T)) <= MaxQMITransports
  <2>1. Cardinality(Bus!QMI(T)) <= Cardinality(Bus!QMI(S))
    BY <1>1, FiniteActive, FS_Subset
  <2> QED
    BY <1>1, <2>1, FiniteActive, SameCardinality DEF Bus!Compatible, ConstantsAssumption
<1>4. \A b \in Bus!OfType(T, "barrier"), l \in Bus!Leases(T) : request[l].class \notin request[b].blocked
  BY <1>1 DEF Bus!Compatible
<1>5. ASSUME NEW a \in Bus!Leases(T), NEW b \in Bus!Leases(T), a # b
      PROVE  \/ request[a].type = "session" /\ request[b].type = "session"
             \/ {a, b} \subseteq Bus!QMI(T) /\ request[a].channel # request[b].channel
  BY <1>1, <1>5 DEF Bus!Compatible
<1> QED
  BY <1>2, <1>3, <1>4, <1>5, SameCardinality DEF Bus!Compatible

-----------------------------------------------------------------------------
(* What a step does to the active operations *)

Grants(c) ==
    /\ phase[c] = "none" /\ phase' = [phase EXCEPT ![c] = "held"]
    /\ \E q \in {queue, Append(queue, c)} : canAcquire(c, q)

Keeps == (\A c \in Callers : phase'[c] = "none" <=> phase[c] = "none") /\ Suspect' = Suspect

Suspects(c) ==
    /\ phase[c] # "none"
    /\ \E p \in {"recovering", "suspect"} : phase' = [phase EXCEPT ![c] = p]

Ends(c) == phase' = [phase EXCEPT ![c] = "none"]

Changes(c) == Grants(c) \/ Keeps \/ Suspects(c) \/ Ends(c)

LEMMA CallerChanges ==
  ASSUME TypeOK, OwnersHold, NEW c \in Callers, CallerStep(c)
  PROVE  request' = request /\ Changes(c)
<1> USE DEF TypeOK, Phases, Changes
<1>1. CASE LookAgain(c)
  BY <1>1 DEF LookAgain, Acquire, Grants, Keeps, OwnersHold, Suspect
<1>2. CASE LookIdle(c)
  BY <1>2 DEF LookIdle, Keeps, Suspect
<1>3. CASE Release(c)
  BY <1>3 DEF Release, Keeps, Suspect, Ends
<1> QED
  BY <1>1, <1>2, <1>3 DEF CallerStep

LEMMA WatchdogChanges ==
  ASSUME TypeOK, NEW c \in Callers, WatchdogStep(c)
  PROVE  request' = request /\ Changes(c)
<1> USE DEF TypeOK, Phases, Changes
<1>1. CASE releaseExpired(c)
  BY <1>1 DEF releaseExpired, Keeps, Suspect, Suspects
<1>2. CASE releaseRecovered(c)
  BY <1>2 DEF releaseRecovered, Ends
<1>3. CASE RecoveryFails(c)
  BY <1>3 DEF RecoveryFails, Keeps, Suspect
<1> QED
  BY <1>1, <1>2, <1>3 DEF WatchdogStep

LEMMA EnvironmentChanges ==
  ASSUME TypeOK, OwnersHold, NEW c \in Callers, Environment(c)
  PROVE  request' = request /\ Changes(c)
<1> USE DEF TypeOK, Phases, Changes
<1>1. CASE Request(c)
  BY <1>1 DEF Request, Acquire, Grants, Keeps, OwnersHold, Suspect
<1>2. CASE WaitIdle(c) \/ Timeout(c) \/ WatchTimeout(c) \/ Age(c)
  BY <1>2 DEF WaitIdle, Timeout, WatchTimeout, Age, Keeps, Suspect
<1>3. CASE Touch(c) \/ TimerFires(c)
  BY <1>3 DEF Touch, TimerFires, Keeps, Suspect
<1>4. CASE markBarrierSuspect(c)
  BY <1>4 DEF markBarrierSuspect, Suspects
<1> QED
  BY <1>1, <1>2, <1>3, <1>4 DEF Environment

LEMMA StepChanges ==
  ASSUME TypeOK, OwnersHold, [Next]_vars
  PROVE  request' = request /\ (Keeps \/ \E c \in Callers : Changes(c))
<1>1. CASE UNCHANGED vars
  BY <1>1 DEF vars, Keeps, Suspect
<1>2. CASE Quiet
  BY <1>1, <1>2 DEF Quiet
<1> QED
  BY <1>1, <1>2, CallerChanges, WatchdogChanges, EnvironmentChanges DEF Next

LEMMA CompatibleNext ==
  ASSUME request' = request, NEW S, Granted' = S, Bus!Compatible(S)
  PROVE  Bus!Compatible(Granted)'
<1>1. Bus!Leases(Granted)' = Bus!Leases(S) /\ Bus!QMI(Granted)' = Bus!QMI(S)
  BY DEF Bus!Leases, Bus!QMI, Bus!OfType
<1>2. \A t : Bus!OfType(Granted, t)' = Bus!OfType(S, t)
  BY DEF Bus!OfType
<1> QED
  BY <1>1, <1>2, SameCardinality DEF Bus!Compatible

\* What a change is to the bus: a grant of what is free, a suspicion, an end or
\* nothing.
LEMMA ChangeOnBus ==
  ASSUME ConstantsAssumption, TypeOK, Bus!Compatible(Granted), NEW c \in Callers, Changes(c),
         request' = request
  PROVE  [Bus!Next]_(Bus!busVars) /\ Bus!Compatible(Granted)'
<1>1. CASE Keeps
  <2>1. Granted' = Granted /\ Suspect' = Suspect
    BY <1>1 DEF Keeps, Granted
  <2>2. Bus!Compatible(Granted)'
    BY <2>1, CompatibleNext
  <2> QED
    BY <2>1, <2>2 DEF Bus!busVars, Granted
<1>2. CASE Grants(c)
  <2>1. Granted' = Granted \cup {c} /\ c \notin Granted /\ Suspect' = Suspect
    BY <1>2 DEF Grants, Granted, Suspect, TypeOK
  <2>2. PICK q : canAcquire(c, q)
    BY <1>2 DEF Grants
  <2>3. Bus!Compatible(Granted \cup {c})
    BY <1>2, <2>2, GrantIsCompatible DEF Grants
  <2>4. Bus!OfType(Granted, "transport") \cap Suspect = {}
    BY <2>2, GrantIsFree, SameSets
  <2>5. request[c].type = "barrier" => Bus!Leases(Granted) = {}
    BY <2>2, GrantIsFree, SameSets DEF Is
  <2>6. Bus!Grant(c)
    BY <2>1, <2>3, <2>4, <2>5 DEF Bus!Grant, Granted
  <2>7. Bus!Compatible(Granted)'
    BY <2>1, <2>3, CompatibleNext
  <2> QED
    BY <2>6, <2>7 DEF Bus!Next
<1>3. CASE Suspects(c)
  <2>1. Granted' = Granted /\ c \in Granted /\ Suspect' = Suspect \cup {c}
    BY <1>3 DEF Suspects, Granted, Suspect, TypeOK
  <2>2. Bus!Suspect(c)
    BY <2>1 DEF Bus!Suspect, Granted
  <2>3. Bus!Compatible(Granted)'
    BY <2>1, CompatibleNext
  <2> QED
    BY <2>2, <2>3 DEF Bus!Next
<1>4. CASE Ends(c)
  <2>1. Granted' = Granted \ {c} /\ Suspect' = Suspect \ {c}
    BY <1>4 DEF Ends, Granted, Suspect, TypeOK
  <2>2. Bus!End(c)
    BY <2>1 DEF Bus!End, Granted
  <2>3. Bus!Compatible(Granted \ {c})
    <3>1. Granted \in SUBSET Callers /\ Granted \ {c} \in SUBSET Granted
      BY DEF Granted
    <3> QED
      BY <3>1, FewerAreCompatible
  <2>4. Bus!Compatible(Granted)'
    BY <2>1, <2>3, CompatibleNext
  <2> QED
    BY <2>2, <2>4 DEF Bus!Next
<1> QED
  BY <1>1, <1>2, <1>3, <1>4 DEF Changes

-----------------------------------------------------------------------------
(* Types, owners and the queue *)

LEMMA SignalType ==
  ASSUME NEW S, Signal(S)
  PROVE  awake' \subseteq {c \in Callers : pc'[c] \in {"waiting", "watching"}}
BY DEF Signal, Waiters

\* An acquisition takes the caller's only ticket out of q.
LEMMA AcquireKeeps ==
  ASSUME TypeOK, OwnersHold, NEW c \in Callers, NEW q \in Seq(Callers), NEW k \in DOMAIN q,
         q[k] = c, \A i, j \in DOMAIN q : q[i] = q[j] => i = j,
         \A i \in DOMAIN q : i # k => pc[q[i]] = "waiting",
         \A d \in Callers : pc[d] = "waiting" => \E i \in DOMAIN q : q[i] = d,
         Acquire(c, q), UNCHANGED <<request, recovers>>
  PROVE  TypeOK' /\ OwnersHold' /\ QueueIsWaiting'
<1> USE DEF TypeOK, Acquire, Goto
<1>1. TypeOK'
  <2>1. queue' \in Seq(Callers)
    BY WithoutTicket
  <2>2. awake' \subseteq {d \in Callers : pc'[d] \in {"waiting", "watching"}}
    BY SignalType
  <2> QED
    BY <2>1, <2>2 DEF Phases, Places
<1>2. OwnersHold'
  BY DEF OwnersHold
<1>3. QueueIsWaiting'
  <2>1. \A i \in DOMAIN queue' : \E j \in DOMAIN q : j # k /\ queue'[i] = q[j]
    BY WithoutTicket
  <2>2. \A j \in DOMAIN q : j # k => \E i \in DOMAIN queue' : queue'[i] = q[j]
    BY WithoutTicket, SMTT(30)
  <2>3. \A i, j \in DOMAIN queue' : queue'[i] = queue'[j] => i = j
    BY WithoutTicket
  <2>4. \A d \in Callers : d # c => pc'[d] = pc[d]
    OBVIOUS
  <2>5. pc'[c] = "holding"
    OBVIOUS
  <2>6. \A j \in DOMAIN q : q[j] \in Callers /\ (j # k => q[j] # c)
    OBVIOUS
  <2>7. ASSUME NEW i \in DOMAIN queue' PROVE pc'[queue'[i]] = "waiting"
    BY <2>1, <2>4, <2>6
  <2>8. ASSUME NEW d \in Callers, pc'[d] = "waiting" PROVE \E i \in DOMAIN queue' : queue'[i] = d
    BY <2>2, <2>4, <2>5, <2>8
  <2> QED
    BY <2>3, <2>7, <2>8 DEF QueueIsWaiting
<1> QED
  BY <1>1, <1>2, <1>3

LEMMA RequestKeeps ==
  ASSUME TypeOK, OwnersHold, QueueIsWaiting, NEW c \in Callers, Request(c)
  PROVE  TypeOK' /\ OwnersHold' /\ QueueIsWaiting'
<1> DEFINE q == Append(queue, c)
<1>0. pc[c] = "idle" /\ UNCHANGED <<request, recovers>>
  BY DEF Request
<1>1. /\ q \in Seq(Callers) /\ DOMAIN q = 1..(Len(queue) + 1) /\ DOMAIN queue = 1..Len(queue)
      /\ q[Len(queue) + 1] = c
      /\ \A i \in DOMAIN queue : q[i] = queue[i] /\ queue[i] # c
      /\ \A i, j \in DOMAIN q : q[i] = q[j] => i = j
  BY <1>0, AppendTicket
<1>2. /\ Len(queue) \in Nat /\ Len(queue) + 1 \in DOMAIN q
      /\ \A i \in DOMAIN q : i # Len(queue) + 1 => i \in DOMAIN queue
      /\ \A i \in DOMAIN queue : i \in DOMAIN q
  BY <1>1 DEF TypeOK
<1>3. CASE Acquire(c, q)
  <2>1. \A i \in DOMAIN q : i # Len(queue) + 1 => pc[q[i]] = "waiting"
    BY <1>1, <1>2 DEF QueueIsWaiting
  <2>2. \A d \in Callers : pc[d] = "waiting" => \E i \in DOMAIN q : q[i] = d
    BY <1>1, <1>2 DEF QueueIsWaiting
  <2> HIDE DEF q
  <2> QED
    BY <1>0, <1>1, <1>2, <1>3, <2>1, <2>2, AcquireKeeps
<1>4. CASE queue' = q /\ Goto(c, "waiting") /\ Signal({c}) /\ UNCHANGED <<phase, aged>>
  <2>1. pc' = [pc EXCEPT ![c] = "waiting"]
    BY <1>4 DEF Goto
  <2>2. TypeOK'
    BY <1>0, <1>1, <1>4, <2>1, SignalType DEF TypeOK, Places
  <2>3. OwnersHold'
    BY <1>0, <1>4, <2>1 DEF OwnersHold, TypeOK
  <2>4. ASSUME NEW i \in DOMAIN queue' PROVE pc'[queue'[i]] = "waiting"
    <3>1. CASE i = Len(queue) + 1
      BY <1>1, <1>4, <2>1, <3>1 DEF TypeOK
    <3>2. CASE i # Len(queue) + 1
      BY <1>1, <1>2, <1>4, <2>1, <3>2 DEF TypeOK, QueueIsWaiting
    <3> QED
      BY <3>1, <3>2
  <2>5. ASSUME NEW d \in Callers, pc'[d] = "waiting" PROVE \E i \in DOMAIN queue' : queue'[i] = d
    <3>1. CASE d = c
      BY <1>1, <1>2, <1>4, <3>1
    <3>2. CASE d # c
      <4>1. PICK i \in DOMAIN queue : queue[i] = d
        BY <2>1, <2>5, <3>2 DEF TypeOK, QueueIsWaiting
      <4> QED
        BY <1>1, <1>2, <1>4, <4>1
    <3> QED
      BY <3>1, <3>2
  <2> QED
    BY <1>1, <1>4, <2>2, <2>3, <2>4, <2>5 DEF QueueIsWaiting
<1> QED
  BY <1>3, <1>4 DEF Request

LEMMA TimeoutKeeps ==
  ASSUME TypeOK, OwnersHold, QueueIsWaiting, NEW c \in Callers, Timeout(c)
  PROVE  TypeOK' /\ OwnersHold' /\ QueueIsWaiting'
<1>1. PICK k \in DOMAIN queue : queue[k] = c
  BY DEF Timeout, QueueIsWaiting
<1>2. /\ pc' = [pc EXCEPT ![c] = "done"] /\ queue' = Without(queue, c) /\ aged' \subseteq Callers
      /\ UNCHANGED <<request, phase, recovers>> /\ Signal({}) /\ pc[c] = "waiting"
  BY DEF Timeout, Goto, TypeOK
<1>3. /\ Without(queue, c) \in Seq(Callers)
      /\ \A i \in DOMAIN queue' : \E j \in DOMAIN queue : j # k /\ queue'[i] = queue[j]
      /\ \A j \in DOMAIN queue : j # k => \E i \in DOMAIN queue' : queue'[i] = queue[j]
      /\ \A i, j \in DOMAIN queue' : queue'[i] = queue'[j] => i = j
  BY <1>1, <1>2, WithoutTicket DEF TypeOK, QueueIsWaiting
<1>4. TypeOK'
  BY <1>2, <1>3, SignalType DEF TypeOK, Places
<1>5. OwnersHold'
  BY <1>2 DEF OwnersHold, TypeOK
<1>6. \A j \in DOMAIN queue : queue[j] \in Callers /\ (j # k => queue[j] # c) /\ pc[queue[j]] = "waiting"
  BY <1>1 DEF TypeOK, QueueIsWaiting
<1>7. ASSUME NEW i \in DOMAIN queue' PROVE pc'[queue'[i]] = "waiting"
  BY <1>2, <1>3, <1>6 DEF TypeOK
<1>8. ASSUME NEW d \in Callers, pc'[d] = "waiting" PROVE \E i \in DOMAIN queue' : queue'[i] = d
  <2>1. d # c /\ pc[d] = "waiting"
    BY <1>2, <1>8 DEF TypeOK
  <2>2. PICK j \in DOMAIN queue : queue[j] = d
    BY <2>1 DEF QueueIsWaiting
  <2> QED
    BY <1>1, <1>3, <2>1, <2>2
<1> QED
  BY <1>3, <1>4, <1>5, <1>7, <1>8 DEF QueueIsWaiting

LEMMA SameQueue ==
  ASSUME TypeOK, QueueIsWaiting, queue' = queue,
         \A c \in Callers : pc'[c] = "waiting" <=> pc[c] = "waiting"
  PROVE  QueueIsWaiting'
<1>1. \A i \in DOMAIN queue : queue[i] \in Callers
  BY DEF TypeOK
<1> QED
  BY <1>1 DEF QueueIsWaiting

LEMMA LookAgainKeeps ==
  ASSUME TypeOK, OwnersHold, QueueIsWaiting, NEW c \in Callers, LookAgain(c)
  PROVE  TypeOK' /\ OwnersHold' /\ QueueIsWaiting'
<1>1. CASE Acquire(c, queue)
  <2>1. PICK k \in DOMAIN queue : queue[k] = c
    BY DEF LookAgain, QueueIsWaiting
  <2>2. UNCHANGED <<request, recovers>>
    BY DEF LookAgain
  <2> QED
    BY <1>1, <2>1, <2>2, AcquireKeeps DEF TypeOK, QueueIsWaiting
<1>2. CASE awake' = awake \ {c} /\ UNCHANGED <<queue, phase, aged, pc>>
  <2>1. UNCHANGED <<request, recovers>>
    BY DEF LookAgain
  <2>2. TypeOK' /\ OwnersHold'
    BY <1>2, <2>1 DEF TypeOK, OwnersHold
  <2> QED
    BY <1>2, <2>2, SameQueue
<1> QED
  BY <1>1, <1>2 DEF LookAgain

\* The other steps leave the queue and its waiters alone.
LEMMA OthersKeep ==
  ASSUME TypeOK, OwnersHold, QueueIsWaiting, NEW c \in Callers,
         \/ LookIdle(c) \/ Release(c) \/ WatchdogStep(c) \/ WaitIdle(c) \/ WatchTimeout(c)
         \/ Age(c) \/ Touch(c) \/ TimerFires(c) \/ markBarrierSuspect(c)
  PROVE  TypeOK' /\ OwnersHold' /\ QueueIsWaiting'
<1> USE DEF TypeOK, Places, Phases, Goto
<1>1. CASE LookIdle(c) \/ WaitIdle(c) \/ WatchTimeout(c)
  <2>1. /\ queue' = queue /\ request' = request /\ phase' = phase /\ aged' = aged
        /\ recovers' = recovers
        /\ awake' \subseteq awake /\ (pc[c] = "watching" => c \notin awake')
        /\ pc[c] \in {"idle", "watching"}
        /\ \E place \in {"done", "watching"} : pc' = [pc EXCEPT ![c] = place]
    BY <1>1 DEF LookIdle, WaitIdle, WatchTimeout
  <2>2. \A d \in awake : d \in Callers /\ pc[d] \in {"waiting", "watching"}
    OBVIOUS
  <2>3. \A d \in awake' : d # c /\ pc'[d] \in {"waiting", "watching"} /\ d \in Callers
    BY <2>1, <2>2
  <2>4. TypeOK'
    BY <2>1, <2>3
  <2>5. OwnersHold'
    BY <2>1 DEF OwnersHold
  <2>6. \A d \in Callers : pc'[d] = "waiting" <=> pc[d] = "waiting"
    BY <2>1
  <2> QED
    BY <2>1, <2>4, <2>5, <2>6, SameQueue
<1>2. CASE Release(c)
  <2>1. /\ queue' = queue /\ request' = request /\ aged' = aged /\ recovers' = recovers
        /\ pc[c] = "holding"
        /\ \/ phase' = phase /\ pc' = [pc EXCEPT ![c] = "gone"] /\ Signal({})
           \/ phase' = [phase EXCEPT ![c] = "none"] /\ pc' = [pc EXCEPT ![c] = "done"] /\ Signal({})
           \/ phase' = phase /\ phase[c] = "none" /\ pc' = [pc EXCEPT ![c] = "done"] /\ awake' = awake
    BY <1>2 DEF Release
  <2>2. awake' \subseteq {d \in Callers : pc'[d] \in {"waiting", "watching"}}
    BY <2>1, SignalType
  <2>3. TypeOK'
    BY <2>1, <2>2
  <2>4. OwnersHold'
    BY <2>1 DEF OwnersHold
  <2>5. \A d \in Callers : pc'[d] = "waiting" <=> pc[d] = "waiting"
    BY <2>1
  <2> QED
    BY <2>1, <2>3, <2>4, <2>5, SameQueue
<1>3. CASE releaseRecovered(c)
  <2>1. /\ queue' = queue /\ request' = request /\ aged' = aged /\ recovers' = recovers
        /\ phase' = [phase EXCEPT ![c] = "none"] /\ awake' = Waiters
        /\ pc' = [pc EXCEPT ![c] = IF @ = "gone" THEN "done" ELSE @]
    BY <1>3 DEF releaseRecovered
  <2>2. \A d \in Callers : pc'[d] = pc[d] \/ (pc[d] = "gone" /\ pc'[d] = "done")
    BY <2>1
  <2>3. awake' \subseteq {d \in Callers : pc'[d] \in {"waiting", "watching"}}
    BY <2>1, <2>2 DEF Waiters
  <2>4. TypeOK'
    BY <2>1, <2>2, <2>3
  <2>5. OwnersHold'
    BY <2>1 DEF OwnersHold
  <2> QED
    BY <2>1, <2>2, <2>4, <2>5, SameQueue
<1>4. CASE \/ releaseExpired(c) \/ RecoveryFails(c) \/ Touch(c) \/ TimerFires(c)
           \/ markBarrierSuspect(c)
  <2>1. /\ queue' = queue /\ request' = request /\ aged' = aged /\ recovers' = recovers /\ pc' = pc
        /\ awake' \in {awake, Waiters} /\ phase[c] # "none"
        /\ \E p \in Phases : phase' = [phase EXCEPT ![c] = p]
    BY <1>4 DEF releaseExpired, RecoveryFails, Touch, TimerFires, markBarrierSuspect
  <2>2. TypeOK'
    BY <2>1 DEF Waiters
  <2>3. OwnersHold'
    BY <2>1 DEF OwnersHold
  <2> QED
    BY <2>1, <2>2, <2>3, SameQueue
<1>5. CASE Age(c)
  <2>1. /\ queue' = queue /\ pc' = pc
        /\ UNCHANGED <<request, phase, awake, recovers>> /\ aged' = aged \cup {c}
    BY <1>5 DEF Age
  <2>2. TypeOK' /\ OwnersHold'
    BY <2>1 DEF OwnersHold
  <2> QED
    BY <2>1, <2>2, SameQueue
<1> QED
  BY <1>1, <1>2, <1>3, <1>4, <1>5 DEF WatchdogStep

-----------------------------------------------------------------------------
(* The invariant *)

LEMMA Initially == ASSUME ConstantsAssumption, Init PROVE IInv
<1>1. TypeOK /\ OwnersHold /\ QueueIsWaiting
  BY DEF ConstantsAssumption, Init, TypeOK, OwnersHold, QueueIsWaiting, Phases, Places
<1>2. Granted = {}
  BY DEF Init, Granted
<1>3. Bus!Compatible({})
  <2>1. Bus!Leases({}) = {} /\ Bus!QMI({}) = {} /\ \A t : Bus!OfType({}, t) = {}
    BY DEF Bus!Leases, Bus!QMI, Bus!OfType
  <2>2. Cardinality({}) = 0 /\ 0 <= MaxSessions /\ 0 <= MaxQMITransports
    BY FS_EmptySet DEF ConstantsAssumption
  <2> QED
    BY <2>1, <2>2, SameCardinality DEF Bus!Compatible
<1> QED
  BY <1>1, <1>2, <1>3 DEF IInv

LEMMA StepKeeps == ASSUME ConstantsAssumption, IInv, [Next]_vars PROVE IInv'
<1> USE DEF IInv
<1>1. TypeOK' /\ OwnersHold' /\ QueueIsWaiting'
  <2>1. CASE UNCHANGED vars
    BY <2>1 DEF vars, TypeOK, OwnersHold, QueueIsWaiting
  <2>2. CASE Quiet
    BY <2>1, <2>2 DEF Quiet
  <2>3. ASSUME NEW c \in Callers, CallerStep(c) PROVE TypeOK' /\ OwnersHold' /\ QueueIsWaiting'
    BY <2>3, LookAgainKeeps, OthersKeep DEF CallerStep
  <2>4. ASSUME NEW c \in Callers, WatchdogStep(c) PROVE TypeOK' /\ OwnersHold' /\ QueueIsWaiting'
    BY <2>4, OthersKeep
  <2>5. ASSUME NEW c \in Callers, Environment(c) PROVE TypeOK' /\ OwnersHold' /\ QueueIsWaiting'
    BY <2>5, RequestKeeps, TimeoutKeeps, OthersKeep DEF Environment
  <2> QED
    BY <2>1, <2>2, <2>3, <2>4, <2>5 DEF Next
<1>2. Bus!Compatible(Granted)'
  <2>1. request' = request /\ (Keeps \/ \E c \in Callers : Changes(c))
    BY StepChanges
  <2>2. CASE Keeps
    <3>1. Granted' = Granted
      BY <2>2 DEF Keeps, Granted
    <3> QED
      BY <2>1, <3>1, CompatibleNext
  <2> QED
    BY <2>1, <2>2, ChangeOnBus
<1> QED
  BY <1>1, <1>2

LEMMA Invariant == Spec => []IInv
<1>1. Init => IInv
  BY Initially, ConstantsAssumption
<1>2. IInv /\ [Next]_vars => IInv'
  BY StepKeeps, ConstantsAssumption
<1> QED
  BY <1>1, <1>2, PTL DEF Spec

-----------------------------------------------------------------------------
(* Theorems *)

\* The variables keep their types; only waiters are signalled.
THEOREM TypeCorrect == Spec => []TypeOK
<1>1. IInv => TypeOK
  BY DEF IInv
<1> QED
  BY <1>1, Invariant, PTL

\* No lease of a class that an active barrier blocks is active beside it.
THEOREM BarriersHold == Spec => []BarrierHolds
<1>1. ASSUME IInv PROVE BarrierHolds
  <2> SUFFICES ASSUME NEW b \in Active("barrier"), NEW c \in Callers,
                      phase[c] # "none" /\ ~Is(c, "barrier")
               PROVE  request[c].class \notin request[b].blocked
    BY DEF BarrierHolds
  <2>1. b \in Bus!OfType(Granted, "barrier") /\ c \in Bus!Leases(Granted)
    BY DEF Active, Is, Granted, Bus!OfType, Bus!Leases
  <2> QED
    BY <1>1, <2>1 DEF IInv, Bus!Compatible
<1> QED
  BY <1>1, Invariant, PTL

\* The arbiter implements the bus, whatever its queue, watchdogs and recoveries do.
THEOREM Implementation == Spec => Implements
<1>1. Init => Bus!Init
  BY DEF Init, Bus!Init, Suspect
<1>2. ASSUME IInv, [Next]_vars PROVE [Bus!Next]_(Bus!busVars)
  <2>1. request' = request /\ (Keeps \/ \E c \in Callers : Changes(c))
    BY <1>2, StepChanges DEF IInv
  <2>2. CASE Keeps
    BY <2>1, <2>2 DEF Keeps, Bus!busVars
  <2>3. CASE \E c \in Callers : Changes(c)
    BY <1>2, <2>1, <2>3, ChangeOnBus, ConstantsAssumption DEF IInv
  <2> QED
    BY <2>1, <2>2, <2>3
<1> QED
  BY <1>1, <1>2, Invariant, PTL DEF Spec, Implements, Bus!Spec

\* As long as a transport is suspect, nothing is granted.
THEOREM SuspectFences == Spec => SuspectIsFenced
<1>1. ASSUME IInv, [Next]_vars
      PROVE  [Active("transport") \cap Suspect # {} =>
                 \A c \in Callers : phase[c] = "none" => phase'[c] = "none"]_vars
  <2> SUFFICES ASSUME Active("transport") \cap Suspect # {}, NEW c \in Callers, phase[c] = "none"
               PROVE  phase'[c] = "none"
    OBVIOUS
  <2>1. Keeps \/ \E d \in Callers : Changes(d)
    BY <1>1, StepChanges DEF IInv
  <2>2. CASE Keeps
    BY <2>2 DEF Keeps
  <2>3. ASSUME NEW d \in Callers, Changes(d) PROVE phase'[c] = "none"
    <3>1. ~Grants(d)
      BY GrantIsFree DEF Grants
    <3>2. CASE Suspects(d)
      BY <1>1, <3>2 DEF Suspects, IInv, TypeOK
    <3>3. CASE Ends(d)
      BY <1>1, <3>3 DEF Ends, IInv, TypeOK
    <3> QED
      BY <2>2, <2>3, <3>1, <3>2, <3>3 DEF Changes
  <2> QED
    BY <2>1, <2>2, <2>3
<1> QED
  BY <1>1, Invariant, PTL DEF Spec, SuspectIsFenced

-----------------------------------------------------------------------------
(* Wake-ups *)

\* Everyone who waits has been signalled.
AllAwake == Waiters \subseteq awake

\* Whether a ticket may be served depends on the queue, on what is active and
\* suspect, and on what has aged.
LEMMA SameTurn ==
  ASSUME Keeps, UNCHANGED <<request, aged>>, NEW q, queue' = q, NEW c \in Callers
  PROVE  canAcquire(c, queue)' <=> canAcquire(c, q)
<1>1. /\ \A t : Active(t)' = Active(t)
      /\ QMIActive' = QMIActive /\ Suspect' = Suspect
  BY DEF Keeps, Active, QMIActive, Is
<1>2. /\ \A d : isBlockedByActiveBarrier(d)' <=> isBlockedByActiveBarrier(d)
      /\ \A d : canAcquireTransportNow(d)' <=> canAcquireTransportNow(d)
      /\ \A d : transportWaitGatesQueue(d)' <=> transportWaitGatesQueue(d)
      /\ \A d, t : Is(d, t)' <=> Is(d, t)
      /\ NoLease' <=> NoLease
  BY <1>1 DEF isBlockedByActiveBarrier, canAcquireTransportNow, transportWaitGatesQueue, Is, NoLease
<1>3. \A d : StopsScan(d)' <=> StopsScan(d)
  BY <1>2 DEF StopsScan
<1>4. Eligible(queue)' = Eligible(q)
  BY <1>2, <1>3 DEF Eligible
<1>5. selectedTransport(queue)' = selectedTransport(q)
  BY <1>4 DEF selectedTransport, Oldest
<1>6. hasPendingBarrierAhead(c, queue)' <=> hasPendingBarrierAhead(c, q)
  BY <1>2 DEF hasPendingBarrierAhead
<1>7. canAcquireLease(c, queue)' <=> canAcquireLease(c, q)
  BY <1>1, <1>2, <1>5, <1>6 DEF canAcquireLease
<1>8. canAcquireBarrier(c, queue)' <=> canAcquireBarrier(c, q)
  BY <1>2 DEF canAcquireBarrier
<1> QED
  BY <1>2, <1>7, <1>8 DEF canAcquire

LEMMA AllAwakeSuffices == ASSUME TypeOK, QueueIsWaiting, AllAwake PROVE NoLostWakeup
<1>1. \A i \in DOMAIN queue : queue[i] \in Callers
  BY DEF TypeOK
<1> QED
  BY <1>1 DEF NoLostWakeup, AllAwake, Waiters, QueueIsWaiting

\* The same turns, watchers and idleness, and nobody put back to sleep whose turn
\* it is.
LEMMA QuietStep ==
  ASSUME TypeOK, QueueIsWaiting, NoLostWakeup, Keeps, UNCHANGED <<request, queue, aged>>,
         NEW c \in Callers, awake \ {c} \subseteq awake',
         \A d \in Callers : d # c => pc'[d] = pc[d],
         c \notin awake' => c \notin awake \/ ~canAcquire(c, queue),
         pc'[c] = "watching" => c \in awake' \/ ~isIdle
  PROVE  NoLostWakeup'
<1>1. isIdle' <=> isIdle
  BY DEF Keeps, isIdle
<1>2. \A i \in DOMAIN queue : queue[i] \in Callers
  BY DEF TypeOK
<1>3. ASSUME aged = {}, NEW i \in DOMAIN queue, canAcquire(queue[i], queue)' PROVE queue[i] \in awake'
  <2>1. canAcquire(queue[i], queue)
    BY <1>2, <1>3, SameTurn
  <2> QED
    BY <1>2, <1>3, <2>1 DEF NoLostWakeup
<1>4. ASSUME aged = {}, NEW d \in Callers, pc'[d] = "watching", isIdle PROVE d \in awake'
  BY <1>4 DEF NoLostWakeup
<1> QED
  BY <1>1, <1>3, <1>4 DEF NoLostWakeup

LEMMA WakeupStep ==
  ASSUME ConstantsAssumption, IInv, IInv', NoLostWakeup, [Next]_vars
  PROVE  NoLostWakeup'
<1> USE DEF IInv
<1>0. ASSUME AllAwake' PROVE NoLostWakeup'
  <2>1. \A i \in DOMAIN queue' : queue'[i] \in Callers /\ pc'[queue'[i]] = "waiting"
    BY DEF TypeOK, QueueIsWaiting
  <2> QED
    BY <1>0, <2>1 DEF NoLostWakeup, AllAwake, Waiters
<1>1. ASSUME NEW S, S \subseteq {}, Signal(S) PROVE AllAwake'
  BY <1>1 DEF Signal, AllAwake
<1>2. ASSUME UNCHANGED vars PROVE NoLostWakeup'
  <2>1. Keeps /\ UNCHANGED <<request, queue, aged, pc, awake, phase>>
    BY <1>2 DEF vars, Keeps, Suspect
  <2>2. isIdle' <=> isIdle
    BY <2>1 DEF isIdle
  <2>3. \A i \in DOMAIN queue : canAcquire(queue[i], queue)' <=> canAcquire(queue[i], queue)
    BY <2>1, SameTurn DEF TypeOK
  <2> QED
    BY <2>1, <2>2, <2>3 DEF NoLostWakeup
<1>3. ASSUME NEW c \in Callers, Acquire(c, queue) \/ Acquire(c, Append(queue, c)) PROVE NoLostWakeup'
  BY <1>0, <1>1, <1>3 DEF Acquire
<1>4. ASSUME NEW c \in Callers, LookAgain(c) PROVE NoLostWakeup'
  <2>1. CASE Acquire(c, queue)
    BY <1>3, <2>1
  <2>2. CASE ~canAcquire(c, queue) /\ awake' = awake \ {c} /\ UNCHANGED <<queue, phase, aged, pc>>
    <3>1. Keeps /\ request' = request /\ pc[c] = "waiting"
      BY <1>4, <2>2 DEF LookAgain, Keeps, Suspect
    <3> QED
      BY <2>2, <3>1, QuietStep
  <2> QED
    BY <1>4, <2>1, <2>2 DEF LookAgain
<1>5. ASSUME NEW c \in Callers, LookIdle(c) \/ WaitIdle(c) \/ WatchTimeout(c) PROVE NoLostWakeup'
  <2>1. /\ Keeps /\ UNCHANGED <<request, queue, aged>> /\ pc[c] \in {"idle", "watching"}
        /\ awake \ {c} \subseteq awake' /\ \A d \in Callers : d # c => pc'[d] = pc[d]
        /\ pc'[c] = "watching" => ~isIdle
    BY <1>5 DEF LookIdle, WaitIdle, WatchTimeout, Keeps, Suspect, Goto, TypeOK
  <2>2. \A i \in DOMAIN queue : queue[i] # c /\ queue[i] \in Callers
    BY <2>1 DEF QueueIsWaiting, TypeOK
  <2>3. \A i \in DOMAIN queue : canAcquire(queue[i], queue)' => canAcquire(queue[i], queue)
    BY <2>1, <2>2, SameTurn
  <2>4. isIdle' <=> isIdle
    BY <2>1 DEF Keeps, isIdle
  <2> QED
    BY <2>1, <2>2, <2>3, <2>4 DEF NoLostWakeup
<1>6. ASSUME NEW c \in Callers, Release(c) PROVE NoLostWakeup'
  <2>1. CASE Signal({})
    BY <1>0, <1>1, <2>1
  <2>2. CASE phase[c] = "none" /\ Goto(c, "done") /\ UNCHANGED <<phase, awake>>
    <3>1. Keeps /\ UNCHANGED <<request, queue, aged>> /\ pc' = [pc EXCEPT ![c] = "done"]
      BY <1>6, <2>2 DEF Release, Keeps, Suspect, Goto
    <3>2. pc[c] = "holding"
      BY <1>6 DEF Release
    <3>3. c \notin awake
      BY <3>2 DEF TypeOK
    <3> QED
      BY <2>2, <3>1, <3>3, QuietStep DEF TypeOK
  <2> QED
    BY <1>6, <2>1, <2>2 DEF Release
<1>7. ASSUME NEW c \in Callers, WatchdogStep(c) \/ markBarrierSuspect(c) \/ Touch(c) \/ TimerFires(c)
      PROVE  NoLostWakeup'
  <2>1. CASE awake' = Waiters
    <3>1. Waiters' \subseteq Waiters
      BY <1>7 DEF WatchdogStep, markBarrierSuspect, Touch, TimerFires, releaseExpired,
         releaseRecovered, RecoveryFails, Waiters, TypeOK
    <3> QED
      BY <1>0, <2>1, <3>1 DEF AllAwake
  <2>2. CASE awake' # Waiters
    <3>1. Keeps /\ UNCHANGED <<request, queue, aged, pc, awake>>
      BY <1>7, <2>2 DEF WatchdogStep, markBarrierSuspect, Touch, TimerFires, releaseExpired,
         releaseRecovered, RecoveryFails, Keeps, Suspect, TypeOK
    <3>2. isIdle' <=> isIdle
      BY <3>1 DEF Keeps, isIdle
    <3>3. \A i \in DOMAIN queue : canAcquire(queue[i], queue)' <=> canAcquire(queue[i], queue)
      BY <3>1, SameTurn DEF TypeOK
    <3> QED
      BY <3>1, <3>2, <3>3 DEF NoLostWakeup
  <2> QED
    BY <2>1, <2>2
<1>8. ASSUME NEW c \in Callers, Request(c) PROVE NoLostWakeup'
  <2> DEFINE q == Append(queue, c)
  <2>1. CASE Acquire(c, q)
    BY <1>3, <2>1
  <2>2. CASE ~canAcquire(c, q) /\ queue' = q /\ Goto(c, "waiting") /\ Signal({c})
             /\ UNCHANGED <<phase, aged>>
    <3>1. request' = request /\ pc' = [pc EXCEPT ![c] = "waiting"]
      BY <1>8, <2>2 DEF Request, Goto
    <3>2. ~canAcquire(c, queue)'
      <4>1. Keeps /\ UNCHANGED <<request, aged>>
        BY <2>2, <3>1 DEF Keeps, Suspect
      <4>2. canAcquire(c, queue)' <=> canAcquire(c, q)
        BY <2>2, <4>1, SameTurn
      <4> QED
        BY <2>2, <4>2
    <3>3. \A d \in Waiters' : d # c => d \in awake'
      BY <2>2 DEF Signal
    <3>4. \A i \in DOMAIN queue' : queue'[i] \in Callers /\ pc'[queue'[i]] = "waiting"
      BY DEF TypeOK, QueueIsWaiting
    <3>5. pc'[c] # "watching"
      BY <3>1 DEF TypeOK
    <3> QED
      BY <3>2, <3>3, <3>4, <3>5 DEF NoLostWakeup, Waiters
  <2> QED
    BY <1>8, <2>1, <2>2 DEF Request
<1>9. ASSUME NEW c \in Callers, Timeout(c) PROVE NoLostWakeup'
  BY <1>0, <1>1, <1>9 DEF Timeout
<1>10. ASSUME NEW c \in Callers, Age(c) PROVE NoLostWakeup'
  BY <1>10 DEF Age, NoLostWakeup
<1> QED
  BY <1>2, <1>4, <1>5, <1>6, <1>7, <1>8, <1>9, <1>10
  DEF Next, CallerStep, Environment, Quiet

\* No wake-up is lost: while no ticket has aged, whoever may proceed will look.
THEOREM WakeupsAreKept == Spec => []NoLostWakeup
<1>1. Init => NoLostWakeup
  BY DEF Init, NoLostWakeup
<1>2. IInv /\ IInv' /\ NoLostWakeup /\ [Next]_vars => NoLostWakeup'
  BY WakeupStep, ConstantsAssumption
<1> QED
  BY <1>1, <1>2, Invariant, PTL DEF Spec

-----------------------------------------------------------------------------
(* The order of the queue *)

\* While a transport is active, an unblocked exclusive ticket gates what is behind.
LEMMA ExclusiveGates ==
  ASSUME NEW q, NEW i \in DOMAIN q, Is(q[i], "transport"), request[q[i]].scope = "exclusive",
         ~isBlockedByActiveBarrier(q[i]), Active("transport") # {}
  PROVE  \A k \in Eligible(q) : k < i
<1>1. ~canAcquireTransportNow(q[i]) /\ transportWaitGatesQueue(q[i])
  BY DEF canAcquireTransportNow, transportWaitGatesQueue
<1>2. StopsScan(q[i])
  BY <1>1 DEF StopsScan
<1> QED
  BY <1>2 DEF Eligible

\* An exclusive transport that waits for the modem is not overtaken.
THEOREM ExclusiveKeepsPlace == Spec => ExclusiveNotOvertaken
<1>1. ASSUME IInv, [Next]_vars
      PROVE  [\A i, j \in DOMAIN queue :
                 /\ i < j /\ Is(queue[i], "transport") /\ request[queue[i]].scope = "exclusive"
                 /\ ~isBlockedByActiveBarrier(queue[i]) /\ Active("transport") # {}
                 => phase'[queue[j]] = "none"]_vars
  <2> SUFFICES ASSUME NEW i \in DOMAIN queue, NEW j \in DOMAIN queue, i < j,
                      Is(queue[i], "transport"), request[queue[i]].scope = "exclusive",
                      ~isBlockedByActiveBarrier(queue[i]), Active("transport") # {}
               PROVE  phase'[queue[j]] = "none"
    OBVIOUS
  <2>0. PICK c \in Callers : c = queue[j]
    BY <1>1 DEF IInv, TypeOK
  <2>1. c \in Callers /\ pc[c] = "waiting" /\ phase[c] = "none" /\ DOMAIN queue = 1..Len(queue)
    BY <1>1, <2>0 DEF IInv, TypeOK, QueueIsWaiting, OwnersHold
  <2>2. ~canAcquire(c, queue)
    <3> SUFFICES ASSUME canAcquire(c, queue) PROVE FALSE
      OBVIOUS
    <3>1. Is(c, "transport")
      BY DEF canAcquire, canAcquireBarrier, canAcquireLease, NoLease
    <3>2. c \in selectedTransport(queue)
      BY <3>1 DEF canAcquire, canAcquireLease, Is
    <3>3. PICK k \in Eligible(queue) : queue[k] = c
      BY <3>2, SelectedIsEligible
    <3>4. k \in DOMAIN queue /\ k < i
      BY <3>3, ExclusiveGates DEF Eligible
    <3>5. k = j
      BY <1>1, <2>0, <3>3, <3>4 DEF IInv, QueueIsWaiting
    <3> QED
      BY <2>1, <3>4, <3>5
  <2>3. ASSUME NEW d \in Callers, d # c,
               CallerStep(d) \/ WatchdogStep(d) \/ Environment(d)
        PROVE  phase'[c] = phase[c]
    BY <1>1, <2>1, <2>3
    DEF CallerStep, WatchdogStep, Environment, LookAgain, LookIdle, Release, releaseExpired,
        releaseRecovered, RecoveryFails, Request, WaitIdle, Timeout, WatchTimeout, Age, Touch,
        TimerFires, markBarrierSuspect, Acquire, IInv, TypeOK
  <2>4. ASSUME CallerStep(c) \/ WatchdogStep(c) \/ Environment(c) PROVE phase'[c] = phase[c]
    BY <2>1, <2>2, <2>4
    DEF CallerStep, WatchdogStep, Environment, LookAgain, LookIdle, Release, releaseExpired,
        releaseRecovered, RecoveryFails, Request, WaitIdle, Timeout, WatchTimeout, Age, Touch,
        TimerFires, markBarrierSuspect
  <2>5. ASSUME UNCHANGED vars PROVE phase'[c] = phase[c]
    BY <2>5 DEF vars
  <2>6. phase'[c] = phase[c]
    BY <1>1, <2>1, <2>3, <2>4, <2>5 DEF Next, Quiet
  <2> QED
    BY <2>0, <2>1, <2>6
<1> QED
  BY <1>1, Invariant, PTL DEF Spec, ExclusiveNotOvertaken
=============================================================================
