----------------------- MODULE ProtectedChannelProofs -----------------------
(***************************************************************************)
(* Theorems of ProtectedChannel for every number of goroutines, of         *)
(* generations and of client ports.                                        *)
(***************************************************************************)
EXTENDS ProtectedChannel, TLAPS

-----------------------------------------------------------------------------
(* What the updates the actions are built from do to the types *)

LEMMA FlowsType ==
  /\ {UDP, Stack, Listening} \subseteq Flows
  /\ {UDP} \cup Clients \subseteq Flows
  /\ \A t \in Threads : Client(t) \in Flows /\ Server(t) \in Flows
BY DEF Flows, Clients

\* One field of a thread's local variables.
LEMMA LocField ==
  ASSUME NEW r \in Loc, NEW g \in Gens \cup {0}, NEW f \in Flows,
         NEW flows \in SUBSET Flows
  PROVE  /\ r.gen \in Gens \cup {0} /\ r.todo \in SUBSET Gens /\ r.flow \in Flows
         /\ r.taken \in SUBSET Flows /\ r.grant \in Gens \cup {0}
         /\ r.server \in Gens \cup {0}
         /\ [r EXCEPT !.gen = g] \in Loc
         /\ [r EXCEPT !.flow = f] \in Loc
         /\ [r EXCEPT !.taken = flows] \in Loc
         /\ [r EXCEPT !.server = g] \in Loc
         /\ [r EXCEPT !.gen = g, !.flow = f] \in Loc
BY DEF Loc

LEMMA LocClose ==
  ASSUME NEW r \in Loc, NEW g \in Gens, NEW rest \in SUBSET Gens,
         NEW grant \in Gens \cup {0}, NEW b \in BOOLEAN
  PROVE  /\ [r EXCEPT !.gen = g, !.todo = rest, !.grant = grant, !.stop = b] \in Loc
         /\ [r EXCEPT !.stop = b, !.grant = 0, !.taken = {}] \in Loc
         /\ [r EXCEPT !.gen = g, !.todo = @ \ {g}] \in Loc
BY DEF Loc

\* One thread's step label and local variables.
LEMMA UpdateType ==
  ASSUME TypeOK, NEW t \in Threads, NEW r \in Loc,
         NEW label \in OpLabels \cup CloseLabels \cup {"idle"}
  PROVE  /\ loc[t] \in Loc
         /\ [loc EXCEPT ![t] = r] \in [Threads -> Loc]
         /\ [pc EXCEPT ![t] = label] \in [Threads -> OpLabels \cup CloseLabels \cup {"idle"}]
BY DEF TypeOK

LEMMA StartCloseType ==
  ASSUME TypeOK, NEW t \in Threads, NEW g \in Gens, NEW rest \in SUBSET Gens,
         NEW grant \in Gens \cup {0}, NEW b \in BOOLEAN,
         StartClose(t, g, rest, grant, b)
  PROVE  /\ loc' \in [Threads -> Loc]
         /\ \A u \in Threads : pc'[u] # "idle" => loc'[u].gen \in Gens
         /\ pc' \in [Threads -> OpLabels \cup CloseLabels \cup {"idle"}]
<1>1. loc[t] \in Loc
  BY DEF TypeOK
<1>2. [loc[t] EXCEPT !.gen = g, !.todo = rest, !.grant = grant, !.stop = b] \in Loc
  BY <1>1, LocClose, Zenon
<1>3. "close" \in CloseLabels
  BY DEF CloseLabels
<1> QED
  BY <1>1, <1>2, <1>3, UpdateType DEF StartClose, Goto, TypeOK, Loc

-----------------------------------------------------------------------------
(* The types are invariant *)

LEMMA TypeInit == Init => TypeOK
<1> SUFFICES ASSUME Init PROVE TypeOK
  OBVIOUS
<1>1. NewLoc \in Loc
  BY FlowsType DEF NewLoc, Loc
<1>2. /\ generation \in 0..MaxGeneration
      /\ activePorts \in [Ports -> Gens \cup {0}]
      /\ activeGenerations \in [Gens -> Ports \cup {NoPort}]
  BY ConstantsAssumption DEF Init
<1>3. /\ pc \in [Threads -> OpLabels \cup CloseLabels \cup {"idle"}]
      /\ loc \in [Threads -> Loc]
      /\ \A t \in Threads : pc[t] = "idle"
  BY <1>1 DEF Init
<1>4. /\ held \in [Gens -> SUBSET Flows] /\ open \in [Gens -> SUBSET Flows]
      /\ operations \in [Gens -> SUBSET Threads]
      /\ pending \subseteq Gens /\ handles \subseteq Gens /\ installed \subseteq Gens
      /\ dialing \subseteq Gens
  BY DEF Init
<1> QED
  BY <1>2, <1>3, <1>4 DEF Init, TypeOK

LEMMA TypeReserve == ASSUME TypeOK, Reserve PROVE TypeOK'
<1> USE DEF TypeOK, Reserve
<1>1. PICK p \in Ports : Reserve!3!(p)
  OBVIOUS
<1>2. generation' \in 0..MaxGeneration /\ generation + 1 \in Gens
  BY ConstantsAssumption DEF Gens
<1>3. portOffset' \in Ports
  BY <1>1, ConstantsAssumption DEF Ports
<1>4. /\ activePorts' \in [Ports -> Gens \cup {0}]
      /\ activeGenerations' \in [Gens -> Ports \cup {NoPort}]
  BY <1>1, <1>2
<1> QED
  BY <1>2, <1>3, <1>4 DEF chanVars, opVars

LEMMA TypeOpen ==
  ASSUME TypeOK, NEW g \in Gens, Install(g) \/ OpenUDP(g) \/ OpenTCP(g)
  PROVE  TypeOK'
<1> USE DEF TypeOK, ownerVars, leaseVars, opVars
<1>1. CASE Install(g)
  BY <1>1 DEF Install
<1>2. ASSUME NEW flows \in SUBSET Flows, OpenFlows(g, flows) PROVE TypeOK'
  BY <1>2 DEF OpenFlows
<1> QED
  BY <1>1, <1>2, FlowsType DEF OpenUDP, OpenTCP

LEMMA TypeBegin ==
  ASSUME TypeOK, NEW t \in Threads, NEW g \in Gens,
         LeaseIO(t, g) \/ HandleIO(t, g) \/ DialTCPClient(t, g) \/ AcceptServerFlow(t, g)
  PROVE  TypeOK'
<1> USE DEF ownerVars, leaseVars, chanVars
<1>1. PICK label \in {"fetch", "dial", "listen"} : beginOperation(t, g, label)
  BY DEF LeaseIO, HandleIO, DialTCPClient, AcceptServerFlow, acquirePending, acquireCurrent
<1>2. [loc[t] EXCEPT !.gen = g] \in Loc /\ [loc[t] EXCEPT !.gen = g].gen = g
  <2>1. loc[t] \in Loc
    BY DEF TypeOK
  <2> QED
    BY <2>1 DEF Loc
<1>3. loc' \in [Threads -> Loc] /\ pc' \in [Threads -> OpLabels \cup CloseLabels \cup {"idle"}]
  BY <1>1, <1>2, UpdateType DEF beginOperation, Goto, OpLabels, TypeOK
<1>4. \A u \in Threads : pc'[u] # "idle" => loc'[u].gen \in Gens
  BY <1>1, <1>2 DEF beginOperation, Goto, TypeOK
<1>5. operations' \in [Gens -> SUBSET Threads]
  BY <1>1 DEF beginOperation, TypeOK
<1> QED
  BY <1>1, <1>3, <1>4, <1>5 DEF beginOperation, TypeOK

LEMMA TypeOperation ==
  ASSUME TypeOK, NEW t \in Threads,
         \/ clientConn(t) \/ ServerIO(t) \/ IOReturns(t) \/ endOperation(t)
         \/ DialChecked(t) \/ DialReturns(t) \/ Publish(t)
         \/ Listener(t) \/ AcceptReturns(t) \/ RegisterServer(t) \/ CloseServer(t)
  PROVE  TypeOK'
<1> USE DEF ownerVars, leaseVars, chanVars, opVars
<1>1. /\ loc[t] \in Loc /\ loc \in [Threads -> Loc]
      /\ pc[t] # "idle" => loc[t].gen \in Gens
  BY DEF TypeOK
<1>2. ASSUME NEW label \in OpLabels \cup {"idle"}, Goto(t, label), NEW r \in Loc,
             loc' = [loc EXCEPT ![t] = r], r.gen \in Gens
      PROVE  /\ pc' \in [Threads -> OpLabels \cup CloseLabels \cup {"idle"}]
             /\ loc' \in [Threads -> Loc]
             /\ \A u \in Threads : pc'[u] # "idle" => loc'[u].gen \in Gens
  BY <1>2, UpdateType DEF Goto, TypeOK
<1>3. ASSUME NEW label \in {"io", "end", "dialing", "publish", "accepting", "accepted", "idle"},
             Goto(t, label), UNCHANGED loc, pc[t] # "idle"
      PROVE  /\ pc' \in [Threads -> OpLabels \cup CloseLabels \cup {"idle"}]
             /\ loc' \in [Threads -> Loc]
             /\ \A u \in Threads : pc'[u] # "idle" => loc'[u].gen \in Gens
  <2>1. label \in OpLabels \cup {"idle"} /\ loc' = [loc EXCEPT ![t] = loc[t]]
    BY <1>1, <1>3 DEF OpLabels
  <2> QED
    BY <1>1, <1>2, <1>3, <2>1
<1>4. {"io", "end", "dialing", "publish", "accepting", "accepted"} \subseteq OpLabels
  BY DEF OpLabels
<1>5. CASE clientConn(t)
  <2>1. pc[t] # "idle"
    BY <1>5 DEF clientConn
  <2>2. CASE Goto(t, "end") /\ UNCHANGED loc
    BY <1>3, <1>5, <2>1, <2>2 DEF clientConn, TypeOK
  <2>3. ASSUME NEW f \in Flows, Goto(t, "io"), loc' = [loc EXCEPT ![t].flow = f]
        PROVE  TypeOK'
    <3>1. [loc[t] EXCEPT !.flow = f] \in Loc /\ [loc[t] EXCEPT !.flow = f].gen \in Gens
      BY <1>1, <2>1, LocField DEF Loc
    <3>2. loc' = [loc EXCEPT ![t] = [loc[t] EXCEPT !.flow = f]]
      BY <2>3
    <3> QED
      BY <1>2, <1>4, <1>5, <2>3, <3>1, <3>2 DEF clientConn, TypeOK
  <2> QED
    BY <1>5, <2>2, <2>3, FlowsType DEF clientConn
<1>6. CASE ServerIO(t)
  <2> DEFINE g == loc[t].server
             r == [loc[t] EXCEPT !.gen = g, !.flow = Server(t)]
  <2>1. g \in Gens
    BY <1>1, <1>6, LocField, FlowsType DEF ServerIO
  <2>2. r \in Loc /\ r.gen \in Gens
    BY <1>1, <2>1, LocField, FlowsType DEF Loc
  <2>3. loc' = [loc EXCEPT ![t] = r]
    BY <1>6 DEF ServerIO
  <2> QED
    BY <1>2, <1>4, <1>6, <2>1, <2>2, <2>3 DEF ServerIO, TypeOK
<1>7. CASE IOReturns(t)
  BY <1>3, <1>7 DEF IOReturns, TypeOK
<1>8. CASE endOperation(t)
  <2>1. operations' \in [Gens -> SUBSET Threads]
    BY <1>8 DEF endOperation, TypeOK
  <2> QED
    BY <1>3, <1>8, <2>1 DEF endOperation, TypeOK
<1>9. CASE DialChecked(t)
  <2>1. dialing' \subseteq Gens
    BY <1>1, <1>9 DEF DialChecked, TypeOK
  <2> QED
    BY <1>3, <1>9, <2>1 DEF DialChecked, TypeOK
<1>10. CASE DialReturns(t)
  <2>1. dialing' \subseteq Gens /\ open' \in [Gens -> SUBSET Flows]
    BY <1>10, FlowsType DEF DialReturns, TypeOK
  <2> QED
    BY <1>3, <1>10, <2>1 DEF DialReturns, TypeOK
<1>11. CASE Publish(t)
  <2>1. held' \in [Gens -> SUBSET Flows] /\ open' \in [Gens -> SUBSET Flows]
    BY <1>11, FlowsType DEF Publish, TypeOK
  <2> QED
    BY <1>3, <1>11, <2>1 DEF Publish, TypeOK
<1>12. CASE Listener(t)
  BY <1>3, <1>12 DEF Listener, TypeOK
<1>13. CASE AcceptReturns(t)
  <2>1. open' \in [Gens -> SUBSET Flows]
    BY <1>13, FlowsType DEF AcceptReturns, TypeOK
  <2> QED
    BY <1>3, <1>13, <2>1 DEF AcceptReturns, TypeOK
<1>14. CASE RegisterServer(t)
  <2>1. held' \in [Gens -> SUBSET Flows] /\ open' \in [Gens -> SUBSET Flows]
    BY <1>14, FlowsType DEF RegisterServer, TypeOK
  <2>2. pc[t] # "idle" /\ Goto(t, "end")
    BY <1>14 DEF RegisterServer
  <2>3. CASE UNCHANGED loc
    BY <1>3, <1>14, <2>1, <2>2, <2>3 DEF RegisterServer, TypeOK
  <2>4. CASE loc' = [loc EXCEPT ![t].server = loc[t].gen]
    <3> DEFINE r == [loc[t] EXCEPT !.server = loc[t].gen]
    <3>1. r \in Loc /\ r.gen \in Gens
      BY <1>1, <2>2, LocField, FlowsType DEF Loc
    <3>2. loc' = [loc EXCEPT ![t] = r]
      BY <2>4
    <3> QED
      BY <1>2, <1>4, <1>14, <2>1, <2>2, <3>1, <3>2 DEF RegisterServer, TypeOK
  <2> QED
    BY <1>14, <2>3, <2>4 DEF RegisterServer
<1>15. CASE CloseServer(t)
  <2>1. [loc[t] EXCEPT !.server = 0] \in Loc
    BY <1>1, LocField, FlowsType
  <2>2. loc' = [loc EXCEPT ![t] = [loc[t] EXCEPT !.server = 0]]
    BY <1>15 DEF CloseServer
  <2>3. loc' \in [Threads -> Loc] /\ UNCHANGED pc /\ pc[t] = "idle"
    BY <1>1, <1>15, <2>1, <2>2 DEF CloseServer
  <2>4. \A u \in Threads : pc'[u] # "idle" => loc'[u].gen \in Gens
    BY <2>2, <2>3 DEF TypeOK
  <2>5. held' \in [Gens -> SUBSET Flows] /\ open' \in [Gens -> SUBSET Flows]
    BY <1>15 DEF CloseServer, TypeOK
  <2> QED
    BY <1>15, <2>3, <2>4, <2>5 DEF CloseServer, TypeOK
<1> QED
  BY <1>5, <1>6, <1>7, <1>8, <1>9, <1>10, <1>11, <1>12, <1>13, <1>14, <1>15

LEMMA TypeClosing ==
  ASSUME TypeOK, NEW t \in Threads, NEW g \in Gens,
         Adopt(t, g) \/ AdoptStale(t, g) \/ CloseLease(t, g) \/ retire(t, g)
  PROVE  TypeOK'
<1> USE DEF ownerVars, leaseVars, chanVars, opVars
<1>1. CASE Adopt(t, g)
  <2>1. /\ current' \in Gens \cup {0} /\ pending' \subseteq Gens /\ handles' \subseteq Gens
        /\ lease' \in [Gens -> {"none", "pending", "adopted", "closed"}]
        /\ replaced' \in [Gens -> Gens \cup {0}]
    BY <1>1 DEF Adopt, TypeOK
  <2>2. CASE current = 0
    BY <1>1, <2>1, <2>2 DEF Adopt, TypeOK
  <2>3. CASE current # 0
    <3>1. current \in Gens /\ StartClose(t, current, {}, g, FALSE)
      BY <1>1, <2>3 DEF Adopt, TypeOK
    <3> QED
      BY <1>1, <2>1, <3>1, StartCloseType DEF Adopt, TypeOK
  <2> QED
    BY <2>2, <2>3
<1>2. CASE AdoptStale(t, g) \/ CloseLease(t, g) \/ retire(t, g)
  <2>1. StartClose(t, g, {}, 0, FALSE) /\ UNCHANGED <<ownerVars, chanVars, opVars, handles, replaced>>
    BY <1>2 DEF AdoptStale, CloseLease, retire
  <2>2. /\ current' \in Gens \cup {0} /\ pending' \subseteq Gens
        /\ lease' \in [Gens -> {"none", "pending", "adopted", "closed"}]
    BY <1>2 DEF AdoptStale, CloseLease, retire, TypeOK
  <2> QED
    BY <2>1, <2>2, StartCloseType DEF TypeOK
<1> QED
  BY <1>1, <1>2

LEMMA TypeCloseOwner == ASSUME TypeOK, NEW t \in Threads, CloseOwner(t) PROVE TypeOK'
<1> USE DEF chanVars, opVars
<1>1. lease' \in [Gens -> {"none", "pending", "adopted", "closed"}]
  BY DEF CloseOwner, TypeOK
<1>2. CASE UNCHANGED <<pc, loc>>
  BY <1>1, <1>2 DEF CloseOwner, TypeOK
<1>3. ASSUME NEW h \in Gens, NEW rest \in SUBSET Gens, StartClose(t, h, rest, 0, TRUE)
      PROVE  TypeOK'
  BY <1>1, <1>3, StartCloseType DEF CloseOwner, TypeOK
<1>4. CASE \E h \in Gens, rest \in SUBSET Gens : StartClose(t, h, rest, 0, TRUE)
  BY <1>3, <1>4
<1> QED
  BY <1>2, <1>4 DEF CloseOwner, TypeOK

LEMMA TypeClose == ASSUME TypeOK, NEW t \in Threads, CloseStep(t) PROVE TypeOK'
<1> USE DEF ownerVars, leaseVars, chanVars, opVars
<1>1. loc[t] \in Loc /\ loc \in [Threads -> Loc]
  BY DEF TypeOK
<1>2. ASSUME NEW label \in CloseLabels, Goto(t, label), pc[t] # "idle",
             NEW r \in Loc, loc' = [loc EXCEPT ![t] = r], r.gen \in Gens
      PROVE  /\ pc' \in [Threads -> OpLabels \cup CloseLabels \cup {"idle"}]
             /\ loc' \in [Threads -> Loc]
             /\ \A u \in Threads : pc'[u] # "idle" => loc'[u].gen \in Gens
  BY <1>2, UpdateType DEF Goto, TypeOK
<1>3. /\ {"close", "collect", "shut", "join", "release"} \subseteq CloseLabels
      /\ UNCHANGED loc => loc' = [loc EXCEPT ![t] = loc[t]]
  BY <1>1 DEF CloseLabels
<1>4. pc[t] # "idle" => loc[t].gen \in Gens
  BY DEF TypeOK
<1>5. CASE BeginClose(t)
  <2>1. phase' \in [Gens -> {"open", "closing", "closed"}]
    BY <1>5 DEF BeginClose, TypeOK
  <2> QED
    BY <1>1, <1>2, <1>3, <1>4, <1>5, <2>1 DEF BeginClose, TypeOK
<1>6. CASE Collect(t)
  <2> DEFINE r == [loc[t] EXCEPT !.taken = held[loc[t].gen]]
  <2>1. held[loc[t].gen] \in SUBSET Flows
    BY <1>4, <1>6 DEF Collect, TypeOK
  <2>2. r \in Loc /\ r.gen \in Gens
    BY <1>1, <1>4, <1>6, <2>1, LocField DEF Collect, Loc
  <2>3. loc' = [loc EXCEPT ![t] = r]
    BY <1>6 DEF Collect
  <2>4. held' \in [Gens -> SUBSET Flows]
    BY <1>6 DEF Collect, TypeOK
  <2> HIDE DEF r
  <2> QED
    BY <1>2, <1>3, <1>6, <2>2, <2>3, <2>4 DEF Collect, TypeOK
<1>7. CASE Shut(t)
  <2>1. open' \in [Gens -> SUBSET Flows]
    BY <1>7 DEF Shut, TypeOK
  <2> QED
    BY <1>1, <1>2, <1>3, <1>4, <1>7, <2>1 DEF Shut, TypeOK
<1>8. CASE Join(t)
  BY <1>1, <1>2, <1>3, <1>4, <1>8 DEF Join, TypeOK
<1>9. CASE releaseGeneration(t)
  <2>1. /\ activePorts' \in [Ports -> Gens \cup {0}]
        /\ activeGenerations' \in [Gens -> Ports \cup {NoPort}]
        /\ phase' \in [Gens -> {"open", "closing", "closed"}]
    BY <1>9 DEF releaseGeneration, TypeOK
  <2>2. CASE loc[t].todo = {}
    <3>1. [loc[t] EXCEPT !.stop = FALSE, !.grant = 0, !.taken = {}] \in Loc
      <4>1. \A b \in BOOLEAN : [loc[t] EXCEPT !.stop = b, !.grant = 0, !.taken = {}] \in Loc
        BY <1>1 DEF Loc
      <4> QED
        BY <4>1, Zenon
    <3>2. /\ loc' = [loc EXCEPT ![t] = [loc[t] EXCEPT !.stop = FALSE, !.grant = 0, !.taken = {}]]
          /\ Goto(t, "idle") /\ handles' \subseteq handles \cup ({loc[t].grant} \ {0})
      BY <1>9, <2>2 DEF releaseGeneration, NextClose
    <3>3. loc' \in [Threads -> Loc] /\ pc' \in [Threads -> OpLabels \cup CloseLabels \cup {"idle"}]
      BY <3>1, <3>2, UpdateType DEF Goto
    <3>4. \A u \in Threads : pc'[u] # "idle" => loc'[u].gen \in Gens
      BY <3>2 DEF Goto, TypeOK
    <3>5. handles' \subseteq Gens
      BY <1>1, <3>2, LocField, FlowsType DEF TypeOK
    <3> QED
      BY <1>9, <2>1, <3>3, <3>4, <3>5 DEF releaseGeneration, TypeOK
  <2>3. CASE loc[t].todo # {}
    <3>1. PICK g \in loc[t].todo : loc' = [loc EXCEPT ![t].gen = g, ![t].todo = @ \ {g}]
      BY <1>9, <2>3 DEF releaseGeneration, NextClose
    <3> DEFINE r == [loc[t] EXCEPT !.gen = g, !.todo = @ \ {g}]
    <3>2. g \in Gens
      BY <1>1 DEF Loc
    <3>3. r \in Loc /\ r.gen \in Gens
      BY <1>1, <3>2 DEF Loc
    <3>4. loc' = [loc EXCEPT ![t] = r] /\ Goto(t, "close") /\ UNCHANGED handles /\ pc[t] # "idle"
      BY <1>9, <2>3, <3>1 DEF releaseGeneration, NextClose
    <3> HIDE DEF r
    <3> QED
      BY <1>2, <1>3, <1>9, <2>1, <3>3, <3>4 DEF releaseGeneration, TypeOK
  <2> QED
    BY <2>2, <2>3
<1> QED
  BY <1>5, <1>6, <1>7, <1>8, <1>9 DEF CloseStep

LEMMA TypeStep == TypeOK /\ [Next]_vars => TypeOK'
<1> SUFFICES ASSUME TypeOK, [Next]_vars PROVE TypeOK'
  OBVIOUS
<1>1. CASE UNCHANGED vars
  BY <1>1 DEF vars, TypeOK
<1>2. CASE Reserve
  BY <1>2, TypeReserve
<1>3. CASE \E g \in Gens : Install(g) \/ OpenUDP(g) \/ OpenTCP(g)
  BY <1>3, TypeOpen
<1>4. CASE \E t \in Threads, g \in Gens : CallStep(t, g)
  BY <1>4, TypeBegin, TypeClosing DEF CallStep
<1>5. CASE \E t \in Threads : \/ ServerIO(t) \/ CloseServer(t) \/ IOReturns(t)
                              \/ AcceptReturns(t) \/ OperationStep(t)
  BY <1>5, TypeOperation DEF OperationStep
<1>6. CASE \E t \in Threads : CloseOwner(t) \/ CloseStep(t)
  BY <1>6, TypeCloseOwner, TypeClose
<1> QED
  BY <1>1, <1>2, <1>3, <1>4, <1>5, <1>6 DEF Next

\* Every state of the owner is well typed, and a goroutine inside a call works
\* on a reserved generation.
THEOREM TypeCorrect == Spec => []TypeOK
BY TypeInit, TypeStep, PTL DEF Spec

-----------------------------------------------------------------------------
(* The inductive invariant *)

\* Who is responsible for a generation: the owner's fields and the leases say
\* the same, and what is current or pending has not begun to close.
OwnerInv ==
    /\ stopped => current = 0 /\ pending = {}
    /\ \A g \in Gens :
         /\ lease[g] = "none" <=> generation < g
         /\ lease[g] = "none" => phase[g] = "open"
         /\ lease[g] = "pending" <=> g \in pending
         /\ lease[g] = "pending" => phase[g] = "open"
         /\ current = g => lease[g] = "adopted" /\ phase[g] = "open"

\* A closer works on its generation alone, and the next ones wait untouched.
CloserInv ==
    /\ \A t \in Threads : pc[t] \in CloseLabels =>
         /\ loc[t].gen \notin loc[t].todo
         /\ phase[loc[t].gen] = IF pc[t] = "close" THEN "open" ELSE "closing"
    /\ \A t \in Threads : \A g \in Closing(t) :
         /\ lease[g] \in {"adopted", "closed"}
         /\ current # g
         /\ g # loc[t].gen => phase[g] = "open"
    /\ \A t, u \in Threads : t # u => Closing(t) \cap Closing(u) = {}

\* The borrowers of a generation are the threads inside an operation on it,
\* and only a reserved generation is borrowed or has flows.
OperationInv ==
    /\ \A g \in Gens, t \in Threads :
         t \in operations[g] <=> pc[t] \in OpLabels /\ loc[t].gen = g
    /\ \A g \in Gens : open[g] # {} \/ operations[g] # {} => lease[g] # "none"

\* A reserved generation owns its port until it is closed.
PortInv ==
    \A g \in Gens : lease[g] # "none" /\ phase[g] # "closed" =>
        activeGenerations[g] \in Ports /\ activePorts[activeGenerations[g]] = g

\* The thread t answers for the flow f of g, which no field of g refers to.
Answers(t, g, f) ==
    /\ loc[t].gen = g
    /\ \/ pc[t] = "publish" /\ f = Client(t)
       \/ pc[t] = "accepted" /\ f = Server(t)
       \/ pc[t] = "shut" /\ f \in loc[t].taken

\* Every open flow is held by its channel or in the hands of one thread; a
\* channel being closed holds none, and after the join none is left.
FlowInv ==
    /\ \A g \in Gens : \A f \in open[g] :
         f \in held[g] \/ \E t \in Threads : Answers(t, g, f)
    /\ \A t \in Threads : pc[t] \in {"shut", "join", "release"} => held[loc[t].gen] = {}
    /\ \A t \in Threads : pc[t] = "release" =>
         open[loc[t].gen] = {} /\ operations[loc[t].gen] = {}

\* A thread that will return a handle is closing the generation it displaced.
GrantInv ==
    /\ \A g \in handles : lease[g] = "adopted"
    /\ \A t \in Threads : pc[t] \in CloseLabels /\ loc[t].grant # 0 =>
         /\ loc[t].todo = {}
         /\ lease[loc[t].grant] = "adopted"
         /\ replaced[loc[t].grant] \in {0, loc[t].gen}

IInv ==
    /\ TypeOK /\ OwnerInv /\ CloserInv /\ NoLostGeneration
    /\ OperationInv /\ PortInv /\ FlowInv /\ ClosedLeavesNothing
    /\ GrantInv /\ ReplacementJoins

LEMMA InvInit == Init => IInv
<1> SUFFICES ASSUME Init PROVE IInv
  OBVIOUS
<1> USE TypeInit DEF Init
<1>1. \A t \in Threads : pc[t] \notin CloseLabels \cup OpLabels \cup {"shut", "join", "release"}
  BY DEF CloseLabels, OpLabels
<1>2. OwnerInv
  BY ConstantsAssumption DEF OwnerInv, Gens
<1>3. CloserInv
  BY <1>1 DEF CloserInv, Closing
<1>4. NoLostGeneration /\ PortInv /\ ClosedLeavesNothing
  BY DEF NoLostGeneration, PortInv, ClosedLeavesNothing
<1>5. OperationInv
  BY <1>1 DEF OperationInv
<1>6. FlowInv
  BY <1>1 DEF FlowInv
<1>7. GrantInv /\ ReplacementJoins
  BY <1>1 DEF GrantInv, ReplacementJoins
<1> QED
  BY <1>2, <1>3, <1>4, <1>5, <1>6, <1>7 DEF IInv

-----------------------------------------------------------------------------
(* Steps that leave the owner, the leases and the closers where they are *)

\* What a step may do to a thread for the closers not to notice.
Quiet ==
    /\ UNCHANGED <<ownerVars, leaseVars, phase>>
    /\ \A u \in Threads :
         \/ pc'[u] = pc[u] /\ loc'[u] = loc[u]
         \/ pc[u] \notin CloseLabels /\ pc'[u] \notin CloseLabels
         \/ /\ pc[u] \in CloseLabels \ {"close"} /\ pc'[u] \in CloseLabels \ {"close"}
            /\ loc'[u].gen = loc[u].gen /\ loc'[u].todo = loc[u].todo
            /\ loc'[u].grant = loc[u].grant

LEMMA QuietStep ==
  ASSUME IInv, Quiet
  PROVE  /\ OwnerInv' /\ CloserInv' /\ NoLostGeneration' /\ PortInv'
         /\ GrantInv' /\ ReplacementJoins'
<1> USE DEF IInv, Quiet, ownerVars, leaseVars
<1>1. \A u \in Threads : Closing(u)' = Closing(u)
  BY DEF Closing
<1>2. OwnerInv' /\ PortInv' /\ ReplacementJoins'
  BY DEF OwnerInv, PortInv, ReplacementJoins
<1>3. NoLostGeneration'
  BY <1>1 DEF NoLostGeneration
<1>4. GrantInv'
  BY DEF GrantInv
<1>5. \A t \in Threads : pc'[t] \in CloseLabels =>
        /\ pc[t] \in CloseLabels
        /\ loc'[t].gen = loc[t].gen /\ loc'[t].todo = loc[t].todo
        /\ pc'[t] = "close" <=> pc[t] = "close"
  OBVIOUS
<1>6. \A t \in Threads : \A g \in Closing(t) : loc'[t].gen = loc[t].gen
  BY <1>1, <1>5 DEF Closing
<1>7. CloserInv'
  BY <1>1, <1>5, <1>6 DEF CloserInv
<1> QED
  BY <1>2, <1>3, <1>4, <1>7

\* What a step may do to a thread for the operations and flows not to notice.
Still ==
    /\ UNCHANGED <<operations, open, held>>
    /\ \A g \in Gens : lease[g] # "none" => lease'[g] # "none"
    /\ \A u \in Threads :
         \/ pc'[u] = pc[u] /\ loc'[u] = loc[u]
         \/ {pc[u], pc'[u]} \subseteq {"idle", "close", "collect", "release"} /\ pc'[u] # "release"

LEMMA StillStep == ASSUME IInv, Still PROVE OperationInv' /\ FlowInv'
<1> USE DEF IInv, Still
<1>1. \A u \in Threads : pc[u] \in OpLabels \/ pc'[u] \in OpLabels
        => pc'[u] = pc[u] /\ loc'[u] = loc[u]
  BY DEF OpLabels
<1>2. OperationInv'
  BY <1>1 DEF OperationInv
<1>3. \A u \in Threads : pc[u] \in {"publish", "accepted", "shut"} \/
                         pc'[u] \in {"publish", "accepted", "shut", "join", "release"}
        => pc'[u] = pc[u] /\ loc'[u] = loc[u]
  OBVIOUS
<1>4. \A t \in Threads, g \in Gens : \A f \in open[g] : Answers(t, g, f) => Answers(t, g, f)'
  BY <1>3 DEF Answers
<1>5. FlowInv'
  BY <1>3, <1>4 DEF FlowInv
<1> QED
  BY <1>2, <1>5

-----------------------------------------------------------------------------
(* Operations and flows *)

LEMMA FlowsDiffer ==
  /\ \A t, u \in Threads : Client(t) # Server(u)
  /\ \A t, u \in Threads : Client(t) = Client(u) => t = u
  /\ \A t, u \in Threads : Server(t) = Server(u) => t = u
BY DEF Client, Server

\* A generation on which a thread is operating is neither closed nor released.
LEMMA Busy ==
  ASSUME IInv, NEW t \in Threads, pc[t] \in OpLabels
  PROVE  /\ loc[t].gen \in Gens /\ t \in operations[loc[t].gen]
         /\ phase[loc[t].gen] # "closed" /\ lease[loc[t].gen] # "none"
         /\ \A u \in Threads : pc[u] = "release" => loc[u].gen # loc[t].gen
<1>1. loc[t].gen \in Gens
  BY DEF IInv, TypeOK, OpLabels
<1>2. t \in operations[loc[t].gen]
  BY <1>1 DEF IInv, OperationInv
<1> QED
  BY <1>1, <1>2 DEF IInv, OperationInv, ClosedLeavesNothing, FlowInv

\* A generation that is pending, or that refuses no operation, has no closer
\* past its first step.
LEMMA NotShut ==
  ASSUME IInv, NEW g \in Gens, lease[g] = "pending" \/ phase[g] = "open"
  PROVE  /\ phase[g] = "open"
         /\ \A u \in Threads : pc[u] \in {"collect", "shut", "join", "release"} => loc[u].gen # g
<1>1. phase[g] = "open"
  BY DEF IInv, OwnerInv
<1> QED
  BY <1>1 DEF IInv, CloserInv, CloseLabels

LEMMA FlowOpen ==
  ASSUME IInv, NEW g \in Gens, Install(g) \/ OpenUDP(g) \/ OpenTCP(g)
  PROVE  Quiet /\ OperationInv' /\ FlowInv' /\ ClosedLeavesNothing'
<1>1. Quiet /\ UNCHANGED <<operations, pc, loc>>
  BY DEF Install, OpenUDP, OpenTCP, OpenFlows, Quiet, opVars
<1>2. lease[g] = "pending"
  BY DEF Install, OpenUDP, OpenTCP, OpenFlows
<1>3. \E flows \in SUBSET Flows : /\ held' = [held EXCEPT ![g] = @ \cup flows]
                                  /\ open' = [open EXCEPT ![g] = @ \cup flows]
  <2>1. CASE Install(g)
    <3>1. held' = [held EXCEPT ![g] = @ \cup {}] /\ open' = [open EXCEPT ![g] = @ \cup {}]
      BY <2>1 DEF Install, IInv, TypeOK
    <3> QED
      BY <3>1
  <2>2. CASE OpenUDP(g) \/ OpenTCP(g)
    BY <2>2, FlowsType DEF OpenUDP, OpenTCP, OpenFlows
  <2> QED
    BY <2>1, <2>2
<1>4. PICK flows \in SUBSET Flows : /\ held' = [held EXCEPT ![g] = @ \cup flows]
                                    /\ open' = [open EXCEPT ![g] = @ \cup flows]
  BY <1>3
<1>5. /\ \A h \in Gens : h # g => held'[h] = held[h] /\ open'[h] = open[h]
      /\ held'[g] = held[g] \cup flows /\ open'[g] = open[g] \cup flows
  BY <1>4 DEF IInv, TypeOK
<1>6. OperationInv'
  BY <1>1, <1>2, <1>5 DEF IInv, OperationInv, Quiet, leaseVars
<1>7. FlowInv'
  <2>1. \A h \in Gens : \A f \in open'[h] :
          f \in held'[h] \/ \E t \in Threads : Answers(t, h, f)'
    BY <1>1, <1>5 DEF IInv, FlowInv, Answers
  <2>2. \A t \in Threads : pc[t] \in {"shut", "join", "release"} =>
          loc[t].gen \in Gens /\ loc[t].gen # g
    BY <1>2, NotShut DEF IInv, TypeOK
  <2> QED
    BY <1>1, <1>5, <2>1, <2>2 DEF IInv, FlowInv
<1>8. ClosedLeavesNothing'
  BY <1>1, <1>2, <1>5, NotShut DEF IInv, ClosedLeavesNothing, Quiet
<1> QED
  BY <1>1, <1>6, <1>7, <1>8

LEMMA FlowBegin ==
  ASSUME IInv, NEW t \in Threads, NEW g \in Gens,
         NEW label \in {"fetch", "dial", "listen", "io"},
         pc[t] = "idle", phase[g] = "open", lease[g] # "none",
         operations' = [operations EXCEPT ![g] = @ \cup {t}],
         loc'[t].gen = g, \A u \in Threads : u # t => loc'[u] = loc[u],
         Goto(t, label),
         UNCHANGED <<ownerVars, leaseVars, chanVars, phase>>
  PROVE  Quiet /\ OperationInv' /\ FlowInv' /\ ClosedLeavesNothing'
<1> USE DEF Goto, ownerVars, leaseVars, chanVars
<1>1. /\ \A u \in Threads : u # t => pc'[u] = pc[u] /\ loc'[u] = loc[u]
      /\ pc'[t] = label /\ loc'[t].gen = g
  BY DEF IInv, TypeOK, Loc
<1>2. Quiet
  BY <1>1 DEF Quiet, CloseLabels
<1>3. /\ \A h \in Gens : h # g => operations'[h] = operations[h]
      /\ operations'[g] = operations[g] \cup {t}
  BY DEF IInv, TypeOK
<1>4. OperationInv'
  BY <1>1, <1>3 DEF IInv, OperationInv, OpLabels
<1>5. FlowInv'
  <2>1. \A u \in Threads, h \in Gens : \A f \in open[h] : Answers(u, h, f) => Answers(u, h, f)'
    BY <1>1 DEF Answers
  <2>2. \A u \in Threads : pc'[u] \in {"shut", "join", "release"} =>
          u # t /\ loc[u].gen \in Gens /\ loc[u].gen # g
    BY <1>1, NotShut DEF IInv, TypeOK
  <2>3. \A h \in Gens : \A f \in open'[h] : f \in held'[h] \/ \E u \in Threads : Answers(u, h, f)'
    BY <2>1 DEF IInv, FlowInv
  <2>4. \A u \in Threads : pc'[u] \in {"shut", "join", "release"} =>
           pc'[u] = pc[u] /\ loc'[u] = loc[u] /\ operations'[loc[u].gen] = operations[loc[u].gen]
    BY <1>1, <1>3, <2>2
  <2> QED
    BY <2>3, <2>4 DEF IInv, FlowInv
<1>6. ClosedLeavesNothing'
  BY <1>3 DEF IInv, ClosedLeavesNothing
<1> QED
  BY <1>2, <1>4, <1>5, <1>6

LEMMA FlowCall ==
  ASSUME IInv, NEW t \in Threads, NEW g \in Gens,
         LeaseIO(t, g) \/ HandleIO(t, g) \/ DialTCPClient(t, g) \/ AcceptServerFlow(t, g)
  PROVE  Quiet /\ OperationInv' /\ FlowInv' /\ ClosedLeavesNothing'
<1>1. lease[g] # "none"
  BY DEF LeaseIO, HandleIO, DialTCPClient, AcceptServerFlow, acquirePending, acquireCurrent,
         IInv, OwnerInv
<1>2. PICK label \in {"fetch", "dial", "listen"} : beginOperation(t, g, label)
  BY DEF LeaseIO, HandleIO, DialTCPClient, AcceptServerFlow, acquirePending, acquireCurrent
<1>3. loc'[t].gen = g /\ \A u \in Threads : u # t => loc'[u] = loc[u]
  BY <1>2 DEF beginOperation, IInv, TypeOK, Loc
<1> QED
  BY <1>1, <1>2, <1>3, FlowBegin DEF beginOperation, ownerVars, leaseVars, chanVars

LEMMA FlowServerIO ==
  ASSUME IInv, NEW t \in Threads, ServerIO(t)
  PROVE  Quiet /\ OperationInv' /\ FlowInv' /\ ClosedLeavesNothing'
<1> DEFINE g == loc[t].server
<1>1. g \in Gens
  BY DEF IInv, TypeOK, Loc, ServerIO
<1>2. lease[g] # "none" /\ phase[g] = "open" /\ pc[t] = "idle" /\ Goto(t, "io")
  BY <1>1 DEF IInv, OwnerInv, ServerIO
<1>3. loc'[t].gen = g /\ \A u \in Threads : u # t => loc'[u] = loc[u]
  BY DEF ServerIO, IInv, TypeOK, Loc
<1> QED
  BY <1>1, <1>2, <1>3, FlowBegin DEF ServerIO, ownerVars, leaseVars, chanVars

\* A step of an operation that touches no flow.
LEMMA FlowInside ==
  ASSUME IInv, NEW t \in Threads,
         clientConn(t) \/ IOReturns(t) \/ DialChecked(t) \/ Listener(t)
  PROVE  Quiet /\ OperationInv' /\ FlowInv' /\ ClosedLeavesNothing'
<1>1. /\ UNCHANGED <<ownerVars, leaseVars, held, open, opVars>>
      /\ pc[t] \in {"fetch", "io", "dial", "listen"}
  BY DEF clientConn, IOReturns, DialChecked, Listener, chanVars
<1>2. PICK label \in {"io", "end", "dialing", "accepting"} : Goto(t, label)
  BY DEF clientConn, IOReturns, DialChecked, Listener
<1>3. \/ UNCHANGED loc
      \/ \E f \in Flows : loc' = [loc EXCEPT ![t].flow = f]
  BY FlowsType DEF clientConn, IOReturns, DialChecked, Listener
<1>4. /\ loc'[t].gen = loc[t].gen
      /\ \A u \in Threads : u # t => pc'[u] = pc[u] /\ loc'[u] = loc[u]
      /\ pc'[t] = label
  BY <1>2, <1>3 DEF IInv, TypeOK, Loc, Goto
<1>5. Quiet
  BY <1>1, <1>4 DEF Quiet, CloseLabels, opVars
<1>6. OperationInv'
  BY <1>1, <1>4 DEF IInv, OperationInv, OpLabels, leaseVars, opVars
<1>7. FlowInv'
  <2>1. \A u \in Threads, h \in Gens : \A f \in open[h] : Answers(u, h, f) => Answers(u, h, f)'
    BY <1>1, <1>4 DEF Answers
  <2> QED
    BY <1>1, <1>4, <2>1 DEF IInv, FlowInv, opVars
<1>8. ClosedLeavesNothing'
  BY <1>1 DEF IInv, ClosedLeavesNothing, opVars
<1> QED
  BY <1>5, <1>6, <1>7, <1>8

LEMMA FlowEnd ==
  ASSUME IInv, NEW t \in Threads, endOperation(t)
  PROVE  Quiet /\ OperationInv' /\ FlowInv' /\ ClosedLeavesNothing'
<1> USE DEF endOperation, ownerVars, leaseVars, chanVars
<1>1. loc[t].gen \in Gens
  BY Busy DEF OpLabels
<1>2. /\ \A u \in Threads : u # t => pc'[u] = pc[u]
      /\ pc'[t] = "idle" /\ UNCHANGED loc
  BY DEF IInv, TypeOK, Goto
<1>3. /\ \A h \in Gens : h # loc[t].gen => operations'[h] = operations[h]
      /\ operations'[loc[t].gen] = operations[loc[t].gen] \ {t}
  BY <1>1 DEF IInv, TypeOK
<1>4. Quiet
  BY <1>2 DEF Quiet, CloseLabels
<1>5. OperationInv'
  BY <1>1, <1>2, <1>3 DEF IInv, OperationInv, OpLabels
<1>6. FlowInv'
  <2>1. \A u \in Threads, h \in Gens : \A f \in open[h] : Answers(u, h, f) => Answers(u, h, f)'
    BY <1>2 DEF Answers
  <2>2. \A u \in Threads : pc'[u] \in {"shut", "join", "release"} =>
          u # t /\ loc[u].gen \in Gens
    BY <1>2 DEF IInv, TypeOK
  <2> QED
    BY <1>2, <1>3, <2>1, <2>2 DEF IInv, FlowInv
<1>7. ClosedLeavesNothing'
  BY <1>3 DEF IInv, ClosedLeavesNothing
<1> QED
  BY <1>4, <1>5, <1>6, <1>7

\* A step of an operation that adds, hands over or gives up one flow.
LEMMA FlowMoves ==
  ASSUME IInv, TypeOK', NEW t \in Threads,
         DialReturns(t) \/ Publish(t) \/ AcceptReturns(t) \/ RegisterServer(t)
  PROVE  Quiet /\ OperationInv' /\ FlowInv' /\ ClosedLeavesNothing'
<1>1. UNCHANGED <<ownerVars, leaseVars, opVars>> /\ pc[t] \in OpLabels
  BY DEF DialReturns, Publish, AcceptReturns, RegisterServer, OpLabels
<1>0. PICK g \in Gens : g = loc[t].gen
  BY <1>1, Busy
<1>2. /\ t \in operations[g] /\ phase[g] # "closed" /\ lease[g] # "none"
      /\ \A u \in Threads : pc[u] = "release" => loc[u].gen # g
  BY <1>0, <1>1, Busy
<1>3. PICK label \in {"end", "publish", "accepted"} : Goto(t, label)
  BY DEF DialReturns, Publish, AcceptReturns, RegisterServer
<1>4. UNCHANGED loc \/ loc' = [loc EXCEPT ![t].server = g]
  BY <1>0 DEF DialReturns, Publish, AcceptReturns, RegisterServer
<1>5. /\ loc'[t].gen = g
      /\ \A u \in Threads : u # t => pc'[u] = pc[u] /\ loc'[u] = loc[u]
      /\ pc'[t] = label
  BY <1>0, <1>3, <1>4 DEF IInv, TypeOK, Loc, Goto
<1>6. \A h \in Gens : h # g => held'[h] = held[h] /\ open'[h] = open[h]
  BY <1>0 DEF DialReturns, Publish, AcceptReturns, RegisterServer, IInv, TypeOK
<1>7. Quiet
  BY <1>1, <1>5 DEF Quiet, CloseLabels, OpLabels, opVars
<1>8. OperationInv'
  BY <1>0, <1>1, <1>2, <1>5, <1>6 DEF IInv, OperationInv, OpLabels, leaseVars, opVars
<1>9. ClosedLeavesNothing'
  BY <1>1, <1>2, <1>6 DEF IInv, ClosedLeavesNothing, opVars
<1>10. \A u \in Threads, h \in Gens : \A f \in open[h] : u # t /\ Answers(u, h, f) => Answers(u, h, f)'
  BY <1>5 DEF Answers
<1>11. \A f \in open'[g] : f \in held'[g] \/ \E u \in Threads : Answers(u, g, f)'
  <2>0. \A f \in open[g] : \/ f \in held[g] \/ Answers(t, g, f)
                           \/ \E u \in Threads : Answers(u, g, f)'
    BY <1>2, <1>10 DEF IInv, FlowInv
  <2>1. CASE DialReturns(t)
    <3>1. \A f \in open[g] : ~Answers(t, g, f)
      BY <2>1 DEF DialReturns, Answers
    <3>2. held' = held /\ (open'[g] = open[g] \/ (pc'[t] = "publish" /\ open'[g] = open[g] \cup {Client(t)}))
      BY <1>0, <1>2, <2>1 DEF DialReturns, IInv, TypeOK, Goto
    <3>3. pc'[t] = "publish" => Answers(t, g, Client(t))'
      BY <1>5 DEF Answers
    <3> QED
      BY <2>0, <3>1, <3>2, <3>3
  <2>2. CASE Publish(t)
    <3>1. \A f \in open[g] : Answers(t, g, f) => f = Client(t)
      BY <2>2 DEF Publish, Answers
    <3>2. \/ held'[g] = held[g] \cup {Client(t)} /\ open' = open
          \/ held' = held /\ open'[g] = open[g] \ {Client(t)}
      BY <1>0, <1>2, <2>2 DEF Publish, IInv, TypeOK
    <3> QED
      BY <2>0, <3>1, <3>2
  <2>3. CASE AcceptReturns(t)
    <3>1. \A f \in open[g] : ~Answers(t, g, f)
      BY <2>3 DEF AcceptReturns, Answers
    <3>2. held' = held /\ (open'[g] = open[g] \/ (pc'[t] = "accepted" /\ open'[g] = open[g] \cup {Server(t)}))
      BY <1>0, <1>2, <2>3 DEF AcceptReturns, IInv, TypeOK, Goto
    <3>3. pc'[t] = "accepted" => Answers(t, g, Server(t))'
      BY <1>5 DEF Answers
    <3> QED
      BY <2>0, <3>1, <3>2, <3>3
  <2>4. CASE RegisterServer(t)
    <3>1. \A f \in open[g] : Answers(t, g, f) => f = Server(t)
      BY <2>4 DEF RegisterServer, Answers
    <3>2. \/ held'[g] = held[g] \cup {Server(t)} /\ open' = open
          \/ held' = held /\ open'[g] = open[g] \ {Server(t)}
      BY <1>0, <1>2, <2>4 DEF RegisterServer, IInv, TypeOK
    <3> QED
      BY <2>0, <3>1, <3>2
  <2> QED
    BY <2>1, <2>2, <2>3, <2>4
<1>12. \A h \in Gens : \A f \in open'[h] : f \in held'[h] \/ \E u \in Threads : Answers(u, h, f)'
  <2>1. \A h \in Gens : h # g => \A f : ~Answers(t, h, f)
    BY <1>0 DEF Answers
  <2> QED
    BY <1>0, <1>6, <1>10, <1>11, <2>1 DEF IInv, FlowInv
<1>13. \A u \in Threads : pc'[u] \in {"shut", "join", "release"} =>
         u # t /\ loc'[u] = loc[u] /\ loc[u].gen \in Gens /\ held'[loc[u].gen] = {}
  <2>1. \A u \in Threads : pc'[u] \in {"shut", "join", "release"} =>
          /\ u # t /\ pc'[u] = pc[u] /\ loc'[u] = loc[u]
          /\ loc[u].gen \in Gens /\ held[loc[u].gen] = {}
    BY <1>5 DEF IInv, TypeOK, FlowInv
  <2>2. CASE held' = held
    BY <2>1, <2>2
  <2>3. CASE held' # held
    <3>1. lease[g] = "pending" \/ phase[g] = "open"
      BY <1>0, <2>3 DEF DialReturns, Publish, AcceptReturns, RegisterServer
    <3> QED
      BY <1>0, <1>2, <1>6, <2>1, <3>1, NotShut
  <2> QED
    BY <2>2, <2>3
<1>14. \A u \in Threads : pc'[u] = "release" =>
         open'[loc'[u].gen] = {} /\ operations'[loc'[u].gen] = {}
  <2>1. \A u \in Threads : pc'[u] = "release" =>
          /\ u # t /\ pc'[u] = pc[u] /\ loc'[u] = loc[u] /\ loc[u].gen \in Gens
    BY <1>5, <1>13
  <2>2. \A u \in Threads : pc'[u] = "release" =>
          loc[u].gen # g /\ open[loc[u].gen] = {} /\ operations[loc[u].gen] = {}
    BY <1>0, <1>2, <2>1 DEF IInv, FlowInv
  <2>3. UNCHANGED operations
    BY <1>1 DEF opVars
  <2> QED
    BY <1>6, <2>1, <2>2, <2>3
<1>15. FlowInv'
  BY <1>12, <1>13, <1>14 DEF FlowInv
<1> QED
  BY <1>7, <1>8, <1>9, <1>15

LEMMA FlowCloseServer ==
  ASSUME IInv, NEW t \in Threads, CloseServer(t)
  PROVE  Quiet /\ OperationInv' /\ FlowInv' /\ ClosedLeavesNothing'
<1>1. UNCHANGED <<ownerVars, leaseVars, opVars, pc>> /\ pc[t] = "idle"
  BY DEF CloseServer
<1>2. PICK g \in Gens : g = loc[t].server
  BY DEF CloseServer, IInv, TypeOK, Loc
<1>3. /\ loc'[t].gen = loc[t].gen
      /\ \A u \in Threads : u # t => loc'[u] = loc[u]
  BY DEF CloseServer, IInv, TypeOK, Loc
<1>4. /\ \A h \in Gens : h # g => held'[h] = held[h] /\ open'[h] = open[h]
      /\ held'[g] = held[g] \ {Server(t)} /\ open'[g] = open[g] \ {Server(t)}
  BY <1>2 DEF CloseServer, IInv, TypeOK
<1>5. Quiet
  BY <1>1, <1>3 DEF Quiet, CloseLabels, opVars
<1>6. OperationInv'
  BY <1>1, <1>3, <1>4 DEF IInv, OperationInv, leaseVars, opVars
<1>7. FlowInv'
  <2>1. \A u \in Threads, h \in Gens : \A f \in open[h] : Answers(u, h, f) => Answers(u, h, f)'
    BY <1>1, <1>3 DEF Answers
  <2>2. \A h \in Gens : \A f \in open'[h] : f \in held'[h] \/ \E u \in Threads : Answers(u, h, f)'
    BY <1>4, <2>1 DEF IInv, FlowInv
  <2>3. \A u \in Threads : pc[u] # "idle" => loc'[u].gen = loc[u].gen /\ loc[u].gen \in Gens
    BY <1>1, <1>3 DEF IInv, TypeOK
  <2>4. UNCHANGED operations
    BY <1>1 DEF opVars
  <2>5. \A u \in Threads : pc'[u] \in {"shut", "join", "release"} => held'[loc'[u].gen] = {}
    BY <1>1, <1>4, <2>3 DEF IInv, FlowInv
  <2>6. \A u \in Threads : pc'[u] = "release" => open'[loc'[u].gen] = {} /\ operations'[loc'[u].gen] = {}
    BY <1>1, <1>4, <2>3, <2>4 DEF IInv, FlowInv
  <2> QED
    BY <2>2, <2>5, <2>6 DEF FlowInv
<1>8. ClosedLeavesNothing'
  BY <1>1, <1>4 DEF IInv, ClosedLeavesNothing, opVars
<1> QED
  BY <1>5, <1>6, <1>7, <1>8

\* Two closers never work on the same generation.
LEMMA OneCloser ==
  ASSUME IInv, NEW t \in Threads, NEW u \in Threads, t # u,
         pc[t] \in CloseLabels, pc[u] \in CloseLabels
  PROVE  loc[t].gen # loc[u].gen
BY DEF IInv, CloserInv, Closing

LEMMA FlowCollect ==
  ASSUME IInv, NEW t \in Threads, Collect(t)
  PROVE  Quiet /\ OperationInv' /\ FlowInv' /\ ClosedLeavesNothing'
<1>1. UNCHANGED <<ownerVars, leaseVars, opVars, open>> /\ pc[t] = "collect"
  BY DEF Collect
<1>2. PICK g \in Gens : g = loc[t].gen
  BY <1>1 DEF IInv, TypeOK
<1>3. /\ loc'[t].gen = g /\ loc'[t].todo = loc[t].todo /\ loc'[t].grant = loc[t].grant
      /\ loc'[t].taken = held[g] /\ pc'[t] = "shut"
      /\ \A u \in Threads : u # t => pc'[u] = pc[u] /\ loc'[u] = loc[u]
  BY <1>2 DEF Collect, Goto, IInv, TypeOK, Loc
<1>4. held'[g] = {} /\ \A h \in Gens : h # g => held'[h] = held[h]
  BY <1>2 DEF Collect, IInv, TypeOK
<1>5. Quiet
  BY <1>1, <1>2, <1>3 DEF Quiet, CloseLabels, opVars
<1>6. OperationInv'
  BY <1>1, <1>2, <1>3 DEF IInv, OperationInv, OpLabels, leaseVars, opVars
<1>7. FlowInv'
  <2>1. \A u \in Threads, h \in Gens : \A f \in open[h] : Answers(u, h, f) => Answers(u, h, f)'
    BY <1>1, <1>3 DEF Answers
  <2>2. \A f \in open[g] : f \in held[g] => Answers(t, g, f)'
    BY <1>3 DEF Answers
  <2>3. \A h \in Gens : \A f \in open'[h] : f \in held'[h] \/ \E u \in Threads : Answers(u, h, f)'
    BY <1>1, <1>4, <2>1, <2>2 DEF IInv, FlowInv
  <2>4. \A u \in Threads : pc[u] # "idle" => loc[u].gen \in Gens
    BY DEF IInv, TypeOK
  <2>5. \A u \in Threads : pc'[u] \in {"shut", "join", "release"} => held'[loc'[u].gen] = {}
    BY <1>3, <1>4, <2>4 DEF IInv, FlowInv
  <2>6. \A u \in Threads : pc'[u] = "release" => open'[loc'[u].gen] = {} /\ operations'[loc'[u].gen] = {}
    BY <1>1, <1>3 DEF IInv, FlowInv, opVars
  <2> QED
    BY <2>3, <2>5, <2>6 DEF FlowInv
<1>8. ClosedLeavesNothing'
  BY <1>1, <1>4 DEF IInv, ClosedLeavesNothing, opVars
<1> QED
  BY <1>5, <1>6, <1>7, <1>8

LEMMA FlowShut ==
  ASSUME IInv, NEW t \in Threads, Shut(t)
  PROVE  Quiet /\ OperationInv' /\ FlowInv' /\ ClosedLeavesNothing'
<1>1. UNCHANGED <<ownerVars, leaseVars, opVars, held, loc>> /\ pc[t] = "shut"
  BY DEF Shut
<1>2. PICK g \in Gens : g = loc[t].gen
  BY <1>1 DEF IInv, TypeOK
<1>3. pc'[t] = "join" /\ \A u \in Threads : u # t => pc'[u] = pc[u]
  BY DEF Shut, Goto, IInv, TypeOK
<1>4. open'[g] = open[g] \ loc[t].taken /\ \A h \in Gens : h # g => open'[h] = open[h]
  BY <1>2 DEF Shut, IInv, TypeOK
<1>5. Quiet
  BY <1>1, <1>3 DEF Quiet, CloseLabels, opVars
<1>6. OperationInv'
  BY <1>1, <1>3, <1>4 DEF IInv, OperationInv, OpLabels, leaseVars, opVars
<1>7. FlowInv'
  <2>1. \A u \in Threads, h \in Gens : \A f \in open'[h] : Answers(u, h, f) => Answers(u, h, f)'
    BY <1>1, <1>2, <1>3, <1>4 DEF Answers
  <2>2. \A h \in Gens : \A f \in open'[h] : f \in held'[h] \/ \E u \in Threads : Answers(u, h, f)'
    BY <1>1, <1>4, <2>1 DEF IInv, FlowInv
  <2>3. \A u \in Threads : pc'[u] \in {"shut", "join", "release"} => held'[loc'[u].gen] = {}
    BY <1>1, <1>3 DEF IInv, FlowInv
  <2>4. \A u \in Threads : pc'[u] = "release" => open'[loc'[u].gen] = {} /\ operations'[loc'[u].gen] = {}
    <3>1. \A u \in Threads : pc'[u] = "release" => loc[u].gen \in Gens /\ loc[u].gen # g
      BY <1>1, <1>2, <1>3, OneCloser DEF IInv, TypeOK, CloseLabels
    <3>2. \A u \in Threads : pc'[u] = "release" => pc[u] = "release"
      BY <1>3
    <3> QED
      BY <1>1, <1>4, <3>1, <3>2 DEF IInv, FlowInv, opVars
  <2> QED
    BY <2>2, <2>3, <2>4 DEF FlowInv
<1>8. ClosedLeavesNothing'
  BY <1>1, <1>4 DEF IInv, ClosedLeavesNothing, opVars
<1> QED
  BY <1>5, <1>6, <1>7, <1>8

\* The join: nobody is left to answer for a flow of the generation.
LEMMA FlowJoin ==
  ASSUME IInv, NEW t \in Threads, Join(t)
  PROVE  Quiet /\ OperationInv' /\ FlowInv' /\ ClosedLeavesNothing'
<1>1. UNCHANGED <<ownerVars, leaseVars, opVars, held, open, loc>> /\ pc[t] = "join"
  BY DEF Join, chanVars
<1>2. PICK g \in Gens : g = loc[t].gen
  BY <1>1 DEF IInv, TypeOK
<1>3. pc'[t] = "release" /\ \A u \in Threads : u # t => pc'[u] = pc[u]
  BY DEF Join, Goto, IInv, TypeOK
<1>4. operations[g] = {} /\ held[g] = {}
  BY <1>1, <1>2 DEF Join, IInv, FlowInv
<1>5. open[g] = {}
  <2>1. ASSUME NEW u \in Threads, NEW f \in open[g], Answers(u, g, f) PROVE FALSE
    <3>1. pc[u] \in {"publish", "accepted"} => u \in operations[g]
      BY <2>1 DEF Answers, IInv, OperationInv, OpLabels
    <3>2. CASE pc[u] = "shut"
      BY <1>1, <1>2, <2>1, <3>2, OneCloser DEF Answers, CloseLabels
    <3> QED
      BY <1>4, <2>1, <3>1, <3>2 DEF Answers
  <2> QED
    BY <1>4, <2>1 DEF IInv, FlowInv
<1>6. Quiet
  BY <1>1, <1>3 DEF Quiet, CloseLabels, opVars
<1>7. OperationInv'
  BY <1>1, <1>3 DEF IInv, OperationInv, OpLabels, leaseVars, opVars
<1>8. FlowInv'
  <2>1. \A u \in Threads, h \in Gens : \A f \in open[h] : Answers(u, h, f) => Answers(u, h, f)'
    BY <1>1, <1>3 DEF Answers
  <2> QED
    BY <1>1, <1>2, <1>3, <1>4, <1>5, <2>1 DEF IInv, FlowInv, opVars
<1>9. ClosedLeavesNothing'
  BY <1>1 DEF IInv, ClosedLeavesNothing, opVars
<1> QED
  BY <1>6, <1>7, <1>8, <1>9

-----------------------------------------------------------------------------
(* Generations that change hands *)

\* The thread t, idle, takes the generations of S to close them.
Hands(t, S) ==
    /\ pc[t] = "idle"
    /\ \A u \in Threads : u # t => pc'[u] = pc[u] /\ loc'[u] = loc[u]
    /\ \/ S = {} /\ pc'[t] = "idle"
       \/ /\ pc'[t] = "close"
          /\ loc'[t].gen \in S /\ loc'[t].todo = S \ {loc'[t].gen}

LEMMA HandOver ==
  ASSUME IInv, TypeOK', NEW t \in Threads, NEW S \in SUBSET Gens, Hands(t, S),
         UNCHANGED <<generation, activePorts, activeGenerations, operations, open, held, phase>>,
         stopped' => current' = 0 /\ pending' = {},
         \A g \in S : /\ current = g \/ g \in pending
                      /\ lease'[g] \in {"adopted", "closed"} /\ current' # g,
         \A g \in Gens \ S : current = g \/ g \in pending => current' = g \/ g \in pending',
         \A g \in Gens : \/ lease'[g] = lease[g]
                         \/ lease[g] = "pending" /\ lease'[g] \in {"adopted", "closed"},
         \A g \in Gens : lease'[g] = "pending" <=> g \in pending',
         \/ current' \in {0, current}
         \/ current' \in Gens /\ lease[current'] = "pending" /\ lease'[current'] = "adopted"
  PROVE  /\ OwnerInv' /\ CloserInv' /\ NoLostGeneration' /\ PortInv'
         /\ OperationInv' /\ FlowInv' /\ ClosedLeavesNothing'
<1>1. /\ Closing(t) = {} /\ Closing(t)' = S
      /\ \A u \in Threads : u # t => Closing(u)' = Closing(u)
  BY DEF Hands, Closing, CloseLabels
<1>2. \A g \in S : lease[g] \in {"pending", "adopted"} /\ phase[g] = "open"
  BY DEF IInv, OwnerInv
<1>3. OwnerInv'
  <2>1. \A g \in Gens : /\ lease'[g] = "none" <=> generation < g
                        /\ lease'[g] = "none" => phase[g] = "open"
                        /\ lease'[g] = "pending" => phase[g] = "open"
    BY DEF IInv, OwnerInv
  <2>2. \A g \in Gens : current' = g => lease'[g] = "adopted" /\ phase[g] = "open"
    <3>1. \A g \in Gens : g # 0
      BY DEF Gens
    <3>2. \A g \in Gens : current = g => lease'[g] = "adopted" /\ phase[g] = "open"
      BY DEF IInv, OwnerInv
    <3>3. \A g \in Gens : lease[g] = "pending" => phase[g] = "open"
      BY DEF IInv, OwnerInv
    <3> QED
      BY <3>1, <3>2, <3>3
  <2> QED
    BY <2>1, <2>2 DEF OwnerInv
<1>4. Still
  BY DEF Still, Hands
<1>5. OperationInv' /\ FlowInv'
  BY <1>4, StillStep
<1>6. NoLostGeneration'
  BY <1>1 DEF IInv, NoLostGeneration
<1>7. PortInv' /\ ClosedLeavesNothing'
  BY DEF IInv, PortInv, ClosedLeavesNothing
<1>8. \A u \in Threads : \A g \in Closing(u) : /\ g \in Gens /\ g \notin S /\ current' # g
                                               /\ lease'[g] = lease[g]
  <2>1. \A u \in Threads : \A g \in Closing(u) : g \in Gens
    BY DEF Closing, IInv, TypeOK, Loc, CloseLabels
  <2>2. \A u \in Threads : \A g \in Closing(u) :
          lease[g] \in {"adopted", "closed"} /\ current # g /\ g \notin pending
    <3>1. \A u \in Threads : \A g \in Closing(u) :
            lease[g] \in {"adopted", "closed"} /\ current # g
      BY DEF IInv, CloserInv
    <3>2. \A g \in Gens : g \in pending => lease[g] = "pending"
      BY DEF IInv, OwnerInv
    <3> QED
      BY <2>1, <3>1, <3>2
  <2>3. \A g \in Gens : lease[g] \in {"adopted", "closed"} /\ current # g => current' # g
    BY DEF Gens
  <2> QED
    BY <2>1, <2>2, <2>3
<1>9. \A u \in Threads : pc'[u] \in CloseLabels =>
        /\ loc'[u].gen \notin loc'[u].todo
        /\ phase'[loc'[u].gen] = IF pc'[u] = "close" THEN "open" ELSE "closing"
  <2>1. ASSUME pc'[t] \in CloseLabels
        PROVE  /\ loc'[t].gen \notin loc'[t].todo /\ pc'[t] = "close"
               /\ phase'[loc'[t].gen] = "open"
    BY <1>2, <2>1 DEF Hands, CloseLabels
  <2>2. \A u \in Threads : u # t => pc'[u] = pc[u] /\ loc'[u] = loc[u]
    BY DEF Hands
  <2> QED
    BY <2>1, <2>2 DEF IInv, CloserInv
<1>10. \A u \in Threads : \A g \in Closing(u)' :
         /\ lease'[g] \in {"adopted", "closed"}
         /\ current' # g
         /\ g # loc'[u].gen => phase'[g] = "open"
  <2>1. \A g \in Closing(t)' : /\ lease'[g] \in {"adopted", "closed"}
                               /\ current' # g /\ phase'[g] = "open"
    BY <1>1, <1>2
  <2>2. \A u \in Threads : u # t => \A g \in Closing(u)' :
          /\ lease'[g] \in {"adopted", "closed"}
          /\ current' # g
          /\ g # loc'[u].gen => phase'[g] = "open"
    BY <1>1, <1>8 DEF IInv, CloserInv, Hands
  <2> QED
    BY <2>1, <2>2
<1>11. \A u, v \in Threads : u # v => Closing(u)' \cap Closing(v)' = {}
  BY <1>1, <1>8 DEF IInv, CloserInv
<1>12. CloserInv'
  BY <1>9, <1>10, <1>11 DEF CloserInv
<1> QED
  BY <1>3, <1>5, <1>6, <1>7, <1>12

LEMMA StartCloseHands ==
  ASSUME IInv, NEW t \in Threads, NEW g \in Gens, NEW S \in SUBSET Gens, g \in S,
         NEW grant \in Gens \cup {0}, NEW b \in BOOLEAN,
         pc[t] = "idle", StartClose(t, g, S \ {g}, grant, b)
  PROVE  Hands(t, S) /\ loc'[t].grant = grant /\ loc'[t].gen = g /\ loc'[t].todo = S \ {g}
<1>1. /\ loc'[t].gen = g /\ loc'[t].todo = S \ {g} /\ loc'[t].grant = grant
      /\ \A u \in Threads : u # t => loc'[u] = loc[u]
  BY DEF StartClose, IInv, TypeOK, Loc
<1>2. pc'[t] = "close" /\ \A u \in Threads : u # t => pc'[u] = pc[u]
  BY DEF StartClose, Goto, IInv, TypeOK
<1> QED
  BY <1>1, <1>2 DEF Hands

LEMMA StartCloseOne ==
  ASSUME IInv, NEW t \in Threads, NEW g \in Gens, NEW grant \in Gens \cup {0},
         pc[t] = "idle", StartClose(t, g, {}, grant, FALSE)
  PROVE  Hands(t, {g}) /\ loc'[t].grant = grant /\ loc'[t].gen = g /\ loc'[t].todo = {}
<1>1. /\ loc'[t].gen = g /\ loc'[t].todo = {} /\ loc'[t].grant = grant
      /\ \A u \in Threads : u # t => loc'[u] = loc[u]
  BY DEF StartClose, IInv, TypeOK, Loc
<1>2. pc'[t] = "close" /\ \A u \in Threads : u # t => pc'[u] = pc[u]
  BY DEF StartClose, Goto, IInv, TypeOK
<1> QED
  BY <1>1, <1>2 DEF Hands

LEMMA StepReserve == ASSUME IInv, TypeOK', Reserve PROVE IInv'
<1>1. PICK p \in Ports :
        /\ activePorts[p] = 0
        /\ activePorts' = [activePorts EXCEPT ![p] = generation + 1]
        /\ activeGenerations' = [activeGenerations EXCEPT ![generation + 1] = p]
  BY DEF Reserve, reserveClientPort
<1>2. PICK g \in Gens : g = generation + 1
  BY ConstantsAssumption DEF Reserve, IInv, TypeOK, Gens
<1>3. /\ lease[g] = "none" /\ phase[g] = "open" /\ ~stopped
      /\ lease'[g] = "pending" /\ \A h \in Gens : h # g => lease'[h] = lease[h]
      /\ pending' = pending \cup {g}
      /\ UNCHANGED <<stopped, current, handles, replaced, held, open, phase, operations, pc, loc>>
  BY <1>2, ConstantsAssumption DEF Reserve, IInv, TypeOK, OwnerInv, Gens, chanVars, opVars
<1>4. generation' = g /\ \A h \in Gens : generation < h <=> g <= h
  BY <1>2, ConstantsAssumption DEF Reserve, IInv, TypeOK, Gens
<1>5. OwnerInv'
  <2>1. \A h \in Gens : g <= h /\ h # g <=> generation' < h
    BY <1>4 DEF Gens
  <2> QED
    BY <1>3, <1>4, <2>1 DEF IInv, OwnerInv
<1>6. \A t \in Threads : Closing(t)' = Closing(t)
  BY <1>3 DEF Closing
<1>7. CloserInv'
  <2>1. \A t \in Threads : \A h \in Closing(t) : h \in Gens /\ h # g
    BY <1>3 DEF Closing, IInv, CloserInv, TypeOK, Loc, CloseLabels
  <2> QED
    BY <1>3, <1>6, <2>1 DEF IInv, CloserInv
<1>8. NoLostGeneration'
  BY <1>3, <1>6 DEF IInv, NoLostGeneration
<1>9. Still
  BY <1>3 DEF Still
<1>10. PortInv'
  <2>1. /\ activeGenerations'[g] = p /\ activePorts'[p] = g
        /\ \A h \in Gens : h # g => activeGenerations'[h] = activeGenerations[h]
        /\ \A q \in Ports : q # p => activePorts'[q] = activePorts[q]
    BY <1>1, <1>2 DEF IInv, TypeOK
  <2>2. \A h \in Gens : h # 0
    BY DEF Gens
  <2> QED
    BY <1>1, <1>3, <2>1, <2>2 DEF IInv, PortInv
<1>11. ClosedLeavesNothing' /\ ReplacementJoins'
  BY <1>3 DEF IInv, ClosedLeavesNothing, ReplacementJoins
<1>12. GrantInv'
  BY <1>3 DEF IInv, GrantInv, TypeOK, Loc
<1> QED
  BY <1>5, <1>7, <1>8, <1>9, <1>10, <1>11, <1>12, StillStep DEF IInv

\* A closed generation stays closed, and only an adopted lease has a handle.
LEMMA GrantKept ==
  ASSUME IInv, NEW t \in Threads, pc[t] = "idle",
         \A u \in Threads : u # t => pc'[u] = pc[u] /\ loc'[u] = loc[u],
         UNCHANGED <<handles, replaced, phase>>,
         \A g \in Gens : lease[g] = "adopted" => lease'[g] = "adopted",
         pc'[t] = "idle" \/ (pc'[t] = "close" /\ loc'[t].grant = 0)
  PROVE  GrantInv' /\ ReplacementJoins'
<1>1. ReplacementJoins'
  BY DEF IInv, ReplacementJoins
<1>2. \A g \in handles' : lease'[g] = "adopted"
  BY DEF IInv, GrantInv, TypeOK
<1>3. \A u \in Threads : pc'[u] \in CloseLabels /\ loc'[u].grant # 0 =>
        /\ u # t /\ pc[u] \in CloseLabels /\ loc[u].grant # 0 /\ loc[u].grant \in Gens
  BY DEF CloseLabels, IInv, TypeOK, Loc
<1> QED
  BY <1>1, <1>2, <1>3 DEF IInv, GrantInv

LEMMA StepRefuse ==
  ASSUME IInv, TypeOK', NEW t \in Threads, NEW g \in Gens,
         AdoptStale(t, g) \/ CloseLease(t, g) \/ retire(t, g)
  PROVE  IInv'
<1>1. /\ pc[t] = "idle" /\ StartClose(t, g, {}, 0, FALSE)
      /\ UNCHANGED <<ownerVars, chanVars, opVars, handles, replaced>>
  BY DEF AdoptStale, CloseLease, retire, Adoptable
<1>2. Hands(t, {g}) /\ loc'[t].grant = 0
  BY <1>1, StartCloseOne
<1>3. \/ /\ lease[g] = "pending" /\ lease' = [lease EXCEPT ![g] = "closed"]
         /\ pending' = pending \ {g} /\ current' = current
      \/ current = g /\ current' = 0 /\ UNCHANGED <<pending, lease>>
  BY DEF AdoptStale, CloseLease, retire, Adoptable
<1>4. /\ current = g \/ g \in pending
      /\ lease'[g] \in {"adopted", "closed"} /\ current' # g
  BY <1>3 DEF IInv, TypeOK, OwnerInv, Gens
<1>5. \A h \in Gens : h # g => lease'[h] = lease[h] /\ (h \in pending <=> h \in pending')
                               /\ (current = h => current' = h)
  BY <1>3 DEF IInv, TypeOK
<1>6. /\ lease'[g] = lease[g] \/ (lease[g] = "pending" /\ lease'[g] = "closed")
      /\ g \notin pending' /\ current' \in {0, current}
  BY <1>3 DEF IInv, TypeOK, OwnerInv
<1>7. stopped' => current' = 0 /\ pending' = {}
  BY <1>1, <1>3 DEF IInv, OwnerInv, ownerVars
<1>8. \A h \in Gens : lease'[h] = "pending" <=> h \in pending'
  BY <1>4, <1>5, <1>6 DEF IInv, OwnerInv
<1>9. /\ OwnerInv' /\ CloserInv' /\ NoLostGeneration' /\ PortInv'
      /\ OperationInv' /\ FlowInv' /\ ClosedLeavesNothing'
  BY <1>1, <1>2, <1>4, <1>5, <1>6, <1>7, <1>8, HandOver DEF ownerVars, chanVars, opVars
<1>10. GrantInv' /\ ReplacementJoins'
  BY <1>1, <1>2, <1>5, <1>6, GrantKept DEF Hands, opVars
<1> QED
  BY <1>9, <1>10 DEF IInv

LEMMA StepAdopt ==
  ASSUME IInv, TypeOK', NEW t \in Threads, NEW g \in Gens, Adopt(t, g)
  PROVE  IInv'
<1>1. /\ pc[t] = "idle" /\ ~stopped /\ lease[g] = "pending"
      /\ current' = g /\ pending' = pending \ {g}
      /\ lease' = [lease EXCEPT ![g] = "adopted"]
      /\ replaced' = [replaced EXCEPT ![g] = current]
      /\ UNCHANGED <<ownerVars, chanVars, opVars>>
  BY DEF Adopt, Adoptable
<1> DEFINE S == IF current = 0 THEN {} ELSE {current}
<1>2. current # 0 => /\ StartClose(t, current, {}, g, FALSE) /\ UNCHANGED handles
                     /\ current \in Gens /\ current # g /\ lease[current] = "adopted"
  <2>1. current # 0 => current \in Gens /\ lease[current] = "adopted"
    BY DEF IInv, TypeOK, OwnerInv
  <2> QED
    BY <1>1, <2>1 DEF Adopt
<1>3. current = 0 => handles' = handles \cup {g} /\ UNCHANGED <<pc, loc>>
  BY DEF Adopt
<1>4. PICK T \in SUBSET Gens : /\ Hands(t, T) /\ T = S
                               /\ current # 0 => /\ loc'[t].grant = g /\ loc'[t].gen = current
                                                 /\ loc'[t].todo = {} /\ pc'[t] = "close"
  <2>1. CASE current = 0
    <3>1. Hands(t, {}) /\ S = {}
      BY <1>1, <1>3, <2>1 DEF Hands
    <3> QED
      BY <2>1, <3>1
  <2>2. CASE current # 0
    <3>1. Hands(t, {current}) /\ loc'[t].grant = g /\ loc'[t].gen = current /\ loc'[t].todo = {}
      BY <1>1, <1>2, <2>2, StartCloseOne
    <3>2. pc'[t] = "close"
      BY <3>1 DEF Hands
    <3> QED
      BY <1>2, <2>2, <3>1, <3>2
  <2> QED
    BY <2>1, <2>2
<1>5. /\ lease'[g] = "adopted" /\ g \in pending
      /\ \A h \in Gens : h # g => lease'[h] = lease[h] /\ (h \in pending <=> h \in pending')
  BY <1>1 DEF IInv, TypeOK, OwnerInv
<1>6. \A h \in T : /\ current = h \/ h \in pending
                   /\ lease'[h] \in {"adopted", "closed"} /\ current' # h
  BY <1>1, <1>2, <1>4, <1>5
<1>7. \A h \in Gens \ T : current = h \/ h \in pending => current' = h \/ h \in pending'
  <2>1. \A h \in Gens : h # 0
    BY DEF Gens
  <2> QED
    BY <1>1, <1>4, <1>5, <2>1
<1>8. \A h \in Gens : \/ lease'[h] = lease[h]
                      \/ lease[h] = "pending" /\ lease'[h] \in {"adopted", "closed"}
  BY <1>1, <1>5
<1>9. \A h \in Gens : lease'[h] = "pending" <=> h \in pending'
  BY <1>1, <1>5 DEF IInv, OwnerInv
<1>10. ~stopped'
  BY <1>1 DEF ownerVars
<1> HIDE DEF S
<1>11. /\ OwnerInv' /\ CloserInv' /\ NoLostGeneration' /\ PortInv'
       /\ OperationInv' /\ FlowInv' /\ ClosedLeavesNothing'
  BY <1>1, <1>4, <1>5, <1>6, <1>7, <1>8, <1>9, <1>10, HandOver DEF ownerVars, chanVars, opVars
<1>12. g \notin handles /\ \A u \in Threads : pc[u] \in CloseLabels => loc[u].grant # g
  BY <1>1, ConstantsAssumption DEF IInv, GrantInv, Gens
<1>13. /\ replaced'[g] = current
       /\ \A h \in Gens : h # g => replaced'[h] = replaced[h]
  BY <1>1 DEF IInv, TypeOK
<1>14. ReplacementJoins'
  <2>1. \A h \in handles : h \in Gens /\ h # g
    BY <1>12 DEF IInv, TypeOK
  <2>2. handles' = handles \/ (current = 0 /\ handles' = handles \cup {g})
    BY <1>2, <1>3
  <2>3. phase' = phase
    BY <1>1 DEF opVars
  <2> QED
    BY <1>13, <2>1, <2>2, <2>3 DEF IInv, ReplacementJoins
<1>15. GrantInv'
  <2>1. \A h \in handles' : lease'[h] = "adopted"
    <3>1. \A h \in handles : h \in Gens /\ lease[h] = "adopted"
      BY DEF IInv, GrantInv, TypeOK
    <3>2. handles' \subseteq handles \cup {g}
      BY <1>2, <1>3
    <3> QED
      BY <1>5, <3>1, <3>2
  <2>2. \A u \in Threads : u # t /\ pc'[u] \in CloseLabels /\ loc'[u].grant # 0 =>
          /\ loc'[u].todo = {} /\ lease'[loc'[u].grant] = "adopted"
          /\ replaced'[loc'[u].grant] \in {0, loc'[u].gen}
    <3>1. \A u \in Threads : u # t => pc'[u] = pc[u] /\ loc'[u] = loc[u]
      BY <1>4 DEF Hands
    <3>2. \A u \in Threads : loc[u].grant \in Gens \cup {0}
      BY DEF IInv, TypeOK, Loc
    <3> QED
      BY <1>5, <1>12, <1>13, <3>1, <3>2 DEF IInv, GrantInv
  <2>3. pc'[t] \in CloseLabels /\ loc'[t].grant # 0 =>
          /\ loc'[t].todo = {} /\ lease'[loc'[t].grant] = "adopted"
          /\ replaced'[loc'[t].grant] \in {0, loc'[t].gen}
    BY <1>1, <1>3, <1>4, <1>5, <1>13 DEF CloseLabels
  <2> QED
    BY <2>1, <2>2, <2>3 DEF GrantInv
<1> QED
  BY <1>11, <1>14, <1>15 DEF IInv

LEMMA StepCloseOwner ==
  ASSUME IInv, TypeOK', NEW t \in Threads, CloseOwner(t)
  PROVE  IInv'
<1>1. /\ pc[t] = "idle" /\ stopped' /\ current' = 0 /\ pending' = {}
      /\ UNCHANGED <<generation, portOffset, activePorts, activeGenerations, handles, replaced,
                     chanVars, opVars>>
      /\ \A g \in Gens : lease'[g] = IF lease[g] = "pending" THEN "closed" ELSE lease[g]
  BY DEF CloseOwner, IInv, TypeOK, OwnerInv
<1>2. PICK S \in SUBSET Gens : S = pending \cup (IF current = 0 THEN {} ELSE {current})
  BY DEF IInv, TypeOK
<1>3. \A g \in Gens : g \in S <=> current = g \/ g \in pending
  BY <1>2 DEF IInv, TypeOK, Gens
<1>4. {g \in pending : lease[g] = "pending"} = pending
  BY DEF IInv, TypeOK, OwnerInv
<1>5. current \notin pending
  BY DEF IInv, TypeOK, OwnerInv, Gens
<1>6. \/ S = {} /\ UNCHANGED <<pc, loc>>
      \/ \E g \in S : StartClose(t, g, S \ {g}, 0, TRUE)
  <2> DEFINE first == IF current = 0 THEN pending ELSE {current}
  <2>1. \/ \E g \in first : StartClose(t, g, pending \ {g}, 0, TRUE)
        \/ first = {} /\ UNCHANGED <<pc, loc>>
    BY <1>4 DEF CloseOwner
  <2>2. first \subseteq S /\ (first = {} => S = {})
    BY <1>2
  <2>3. \A g \in first : pending \ {g} = S \ {g}
    BY <1>2, <1>5
  <2> HIDE DEF first
  <2>4. CASE \E g \in first : StartClose(t, g, pending \ {g}, 0, TRUE)
    <3>1. PICK g \in first : StartClose(t, g, pending \ {g}, 0, TRUE)
      BY <2>4
    <3>2. StartClose(t, g, S \ {g}, 0, TRUE)
      BY <2>3, <3>1 DEF StartClose
    <3> QED
      BY <2>2, <3>2
  <2> QED
    BY <2>1, <2>2, <2>4
<1>7. Hands(t, S) /\ (pc'[t] = "idle" \/ (pc'[t] = "close" /\ loc'[t].grant = 0))
  <2>1. CASE S = {} /\ UNCHANGED <<pc, loc>>
    BY <1>1, <2>1 DEF Hands
  <2>2. ASSUME NEW g \in S, StartClose(t, g, S \ {g}, 0, TRUE)
        PROVE  Hands(t, S) /\ pc'[t] = "close" /\ loc'[t].grant = 0
    <3>1. /\ loc'[t].gen = g /\ loc'[t].todo = S \ {g} /\ loc'[t].grant = 0
          /\ \A u \in Threads : u # t => loc'[u] = loc[u]
      BY <2>2 DEF StartClose, IInv, TypeOK, Loc
    <3>2. pc'[t] = "close" /\ \A u \in Threads : u # t => pc'[u] = pc[u]
      BY <2>2 DEF StartClose, Goto, IInv, TypeOK
    <3> QED
      BY <1>1, <3>1, <3>2 DEF Hands
  <2> QED
    BY <1>6, <2>1, <2>2
<1>8. \A g \in S : /\ current = g \/ g \in pending
                   /\ lease'[g] \in {"adopted", "closed"} /\ current' # g
  <2>1. \A g \in S : /\ current = g \/ g \in pending
                     /\ lease[g] \in {"adopted", "pending"}
    BY <1>3 DEF IInv, OwnerInv
  <2> QED
    BY <1>1, <2>1 DEF Gens
<1>9. \A g \in Gens \ S : ~(current = g \/ g \in pending)
  BY <1>3
<1>10. \A g \in Gens : lease'[g] = "pending" <=> g \in pending'
  BY <1>1
<1>11. \A g \in Gens : \/ lease'[g] = lease[g]
                       \/ lease[g] = "pending" /\ lease'[g] \in {"adopted", "closed"}
  BY <1>1
<1>12. /\ OwnerInv' /\ CloserInv' /\ NoLostGeneration' /\ PortInv'
       /\ OperationInv' /\ FlowInv' /\ ClosedLeavesNothing'
  BY <1>1, <1>7, <1>8, <1>9, <1>10, <1>11, HandOver DEF chanVars, opVars
<1>13. GrantInv' /\ ReplacementJoins'
  BY <1>1, <1>7, GrantKept DEF Hands, opVars
<1> QED
  BY <1>12, <1>13 DEF IInv

\* A generation being closed is neither current, pending nor unreserved.
LEMMA Closed ==
  ASSUME IInv, NEW t \in Threads, pc[t] \in CloseLabels
  PROVE  /\ loc[t].gen \in Gens /\ lease[loc[t].gen] \in {"adopted", "closed"}
         /\ current # loc[t].gen /\ loc[t].gen \notin pending
         /\ \A g \in loc[t].todo : g \in Gens /\ g # loc[t].gen /\ phase[g] = "open"
         /\ \A u \in Threads : u # t => loc[t].gen \notin Closing(u)
<1>1. loc[t].gen \in Gens /\ loc[t].gen \in Closing(t) /\ loc[t].todo \subseteq Closing(t)
  BY DEF IInv, TypeOK, Closing, CloseLabels
<1>2. lease[loc[t].gen] \in {"adopted", "closed"} /\ current # loc[t].gen
  BY <1>1 DEF IInv, CloserInv
<1>3. loc[t].gen \notin pending
  BY <1>1, <1>2 DEF IInv, OwnerInv
<1>4. \A g \in loc[t].todo : g \in Gens /\ g # loc[t].gen /\ phase[g] = "open"
  <2>1. \A g \in loc[t].todo : g \in Gens
    BY DEF IInv, TypeOK, Loc
  <2> QED
    BY <1>1, <2>1 DEF IInv, CloserInv
<1>5. \A u \in Threads : u # t => loc[t].gen \notin Closing(u)
  BY <1>1 DEF IInv, CloserInv
<1> QED
  BY <1>1, <1>2, <1>3, <1>4, <1>5

LEMMA StepBeginClose ==
  ASSUME IInv, TypeOK', NEW t \in Threads, BeginClose(t)
  PROVE  IInv'
<1>1. /\ pc[t] = "close" /\ pc[t] \in CloseLabels
      /\ UNCHANGED <<ownerVars, leaseVars, chanVars, operations, loc>>
  BY DEF BeginClose, CloseLabels
<1>2. PICK g \in Gens : g = loc[t].gen
  BY <1>1, Closed
<1>3. /\ phase[g] = "open" /\ phase'[g] = "closing"
      /\ \A h \in Gens : h # g => phase'[h] = phase[h]
  BY <1>2 DEF BeginClose, IInv, TypeOK
<1>4. pc'[t] = "collect" /\ \A u \in Threads : u # t => pc'[u] = pc[u]
  BY DEF BeginClose, Goto, IInv, TypeOK
<1>5. \A u \in Threads : Closing(u)' = Closing(u)
  BY <1>1, <1>4 DEF Closing, CloseLabels
<1>6. /\ lease[g] \in {"adopted", "closed"} /\ current # g /\ g \notin pending
      /\ \A h \in loc[t].todo : h \in Gens /\ h # g /\ phase[h] = "open"
      /\ \A u \in Threads : u # t => g \notin Closing(u)
  BY <1>1, <1>2, Closed
<1>7. OwnerInv'
  BY <1>1, <1>3, <1>6 DEF IInv, OwnerInv, ownerVars, leaseVars
<1>8. CloserInv'
  <2>1. \A u \in Threads : u # t /\ pc[u] \in CloseLabels => loc[u].gen \in Gens /\ loc[u].gen # g
    BY <1>6 DEF Closing, IInv, TypeOK, CloseLabels
  <2>2. \A u \in Threads : pc'[u] \in CloseLabels =>
          /\ loc'[u].gen \notin loc'[u].todo
          /\ phase'[loc'[u].gen] = IF pc'[u] = "close" THEN "open" ELSE "closing"
    BY <1>1, <1>2, <1>3, <1>4, <1>6, <2>1 DEF IInv, CloserInv
  <2>3. \A u \in Threads : \A h \in Closing(u) : h \in Gens /\ (h = g => u = t)
    BY <1>6 DEF Closing, IInv, TypeOK, Loc, CloseLabels
  <2>4. \A u \in Threads : \A h \in Closing(u) :
          /\ lease[h] \in {"adopted", "closed"} /\ current # h
          /\ h # loc[u].gen => phase'[h] = "open"
    BY <1>2, <1>3, <2>3 DEF IInv, CloserInv
  <2> QED
    BY <1>1, <1>5, <2>2, <2>4 DEF IInv, CloserInv, leaseVars
<1>9. NoLostGeneration'
  BY <1>1, <1>3, <1>5 DEF IInv, NoLostGeneration, leaseVars
<1>10. Still
  BY <1>1, <1>4 DEF Still, leaseVars, chanVars
<1>11. PortInv' /\ ClosedLeavesNothing'
  BY <1>1, <1>3 DEF IInv, PortInv, ClosedLeavesNothing, ownerVars, leaseVars, chanVars
<1>12. ReplacementJoins'
  <2>1. \A h \in Gens : phase[h] = "closed" => phase'[h] = "closed"
    BY <1>3
  <2> QED
    BY <1>1, <2>1 DEF IInv, ReplacementJoins, TypeOK, leaseVars, Gens
<1>13. GrantInv'
  BY <1>1, <1>4 DEF IInv, GrantInv, leaseVars, CloseLabels
<1> QED
  BY <1>7, <1>8, <1>9, <1>10, <1>11, <1>12, <1>13, StillStep DEF IInv

\* The end of a close: the port is free again, and the thread closes the next
\* generation or returns, with a handle if it came from Adopt.
LEMMA StepRelease ==
  ASSUME IInv, TypeOK', NEW t \in Threads, releaseGeneration(t)
  PROVE  IInv'
<1>1. /\ pc[t] = "release" /\ pc[t] \in CloseLabels
      /\ UNCHANGED <<stopped, generation, current, pending, lease, replaced, held, open, operations>>
  BY DEF releaseGeneration, CloseLabels, chanVars
<1>2. PICK g \in Gens : g = loc[t].gen
  BY <1>1, Closed
<1>3. phase'[g] = "closed" /\ \A h \in Gens : h # g => phase'[h] = phase[h]
  BY <1>2 DEF releaseGeneration, IInv, TypeOK
<1>4. \A u \in Threads : u # t => pc'[u] = pc[u] /\ loc'[u] = loc[u]
  <2>1. \E label \in {"idle", "close"} : Goto(t, label)
    BY DEF releaseGeneration, NextClose
  <2>2. CASE loc[t].todo = {}
    BY <2>1, <2>2 DEF releaseGeneration, NextClose, Goto, IInv, TypeOK
  <2>3. CASE loc[t].todo # {}
    <3>1. PICK h \in loc[t].todo : loc' = [loc EXCEPT ![t].gen = h, ![t].todo = @ \ {h}]
      BY <2>3 DEF releaseGeneration, NextClose
    <3> QED
      BY <2>1, <3>1 DEF Goto, IInv, TypeOK
  <2> QED
    BY <2>2, <2>3
<1>5. /\ lease[g] \in {"adopted", "closed"} /\ current # g /\ g \notin pending
      /\ \A h \in loc[t].todo : h \in Gens /\ h # g /\ phase[h] = "open"
      /\ \A u \in Threads : u # t => g \notin Closing(u)
  BY <1>1, <1>2, Closed
<1>6. \/ /\ loc[t].todo = {} /\ pc'[t] = "idle"
         /\ handles' = IF loc[t].grant = 0 THEN handles ELSE handles \cup {loc[t].grant}
      \/ /\ loc[t].todo # {} /\ pc'[t] = "close" /\ handles' = handles
         /\ loc'[t].gen \in loc[t].todo /\ loc'[t].todo = loc[t].todo \ {loc'[t].gen}
         /\ loc'[t].grant = loc[t].grant
  <2>1. CASE loc[t].todo = {}
    BY <2>1 DEF releaseGeneration, NextClose, Goto, IInv, TypeOK
  <2>2. CASE loc[t].todo # {}
    <3>1. PICK h \in loc[t].todo : loc' = [loc EXCEPT ![t].gen = h, ![t].todo = @ \ {h}]
      BY <2>2 DEF releaseGeneration, NextClose
    <3>2. loc'[t].gen = h /\ loc'[t].todo = loc[t].todo \ {h} /\ loc'[t].grant = loc[t].grant
      BY <3>1 DEF IInv, TypeOK, Loc
    <3>3. pc'[t] = "close" /\ handles' = handles
      BY <2>2 DEF releaseGeneration, NextClose, Goto, IInv, TypeOK
    <3> QED
      BY <2>2, <3>2, <3>3
  <2> QED
    BY <2>1, <2>2
<1>7. /\ Closing(t) = {g} \cup loc[t].todo /\ Closing(t)' = loc[t].todo
      /\ \A u \in Threads : u # t => Closing(u)' = Closing(u)
  <2>1. Closing(t) = {g} \cup loc[t].todo
    BY <1>1, <1>2 DEF Closing
  <2>2. Closing(t)' = loc[t].todo
    BY <1>6 DEF Closing, CloseLabels
  <2>3. \A u \in Threads : u # t => Closing(u)' = Closing(u)
    BY <1>4 DEF Closing
  <2> QED
    BY <2>1, <2>2, <2>3
<1>8. OwnerInv'
  BY <1>1, <1>3, <1>5 DEF IInv, OwnerInv
<1>9. CloserInv'
  <2>1. pc'[t] \in CloseLabels =>
          /\ pc'[t] = "close" /\ loc'[t].gen \notin loc'[t].todo
          /\ phase'[loc'[t].gen] = "open"
    BY <1>3, <1>5, <1>6 DEF CloseLabels
  <2>2. \A u \in Threads : u # t /\ pc[u] \in CloseLabels => loc[u].gen \in Gens /\ loc[u].gen # g
    BY <1>5 DEF Closing, IInv, TypeOK, CloseLabels
  <2>3. \A u \in Threads : pc'[u] \in CloseLabels =>
          /\ loc'[u].gen \notin loc'[u].todo
          /\ phase'[loc'[u].gen] = IF pc'[u] = "close" THEN "open" ELSE "closing"
    BY <1>3, <1>4, <2>1, <2>2 DEF IInv, CloserInv
  <2>4. \A u \in Threads : \A h \in Closing(u)' : h \in Gens /\ h # g /\ h \in Closing(u)
    <3>1. \A u \in Threads : \A h \in Closing(u) : h \in Gens
      BY DEF Closing, IInv, TypeOK, Loc, CloseLabels
    <3> QED
      BY <1>5, <1>7, <3>1
  <2>5. \A u \in Threads : \A h \in Closing(u)' :
          /\ lease[h] \in {"adopted", "closed"} /\ current # h
          /\ h # loc'[u].gen => phase'[h] = "open"
    <3>1. \A u \in Threads : u # t => \A h \in Closing(u)' : h # loc'[u].gen => phase'[h] = "open"
      BY <1>3, <1>4, <2>4 DEF IInv, CloserInv
    <3>2. \A h \in Closing(t)' : phase'[h] = "open"
      BY <1>3, <1>5, <1>7
    <3> QED
      BY <2>4, <3>1, <3>2 DEF IInv, CloserInv
  <2>6. \A u, v \in Threads : u # v => Closing(u)' \cap Closing(v)' = {}
    BY <2>4 DEF IInv, CloserInv
  <2> QED
    BY <1>1, <2>3, <2>5, <2>6 DEF CloserInv
<1>10. NoLostGeneration'
  BY <1>1, <1>3, <1>7 DEF IInv, NoLostGeneration
<1>11. Still
  BY <1>1, <1>4, <1>6 DEF Still
<1>12. PortInv'
  <2>1. \A h \in Gens : h # g => activeGenerations'[h] = activeGenerations[h]
    BY <1>2 DEF releaseGeneration, IInv, TypeOK
  <2>2. \A p \in Ports : activePorts[p] # g => activePorts'[p] = activePorts[p]
    BY <1>2 DEF releaseGeneration, IInv, TypeOK
  <2> QED
    BY <1>1, <1>3, <2>1, <2>2 DEF IInv, PortInv
<1>13. ClosedLeavesNothing'
  <2>1. held[g] = {} /\ open[g] = {} /\ operations[g] = {}
    BY <1>1, <1>2 DEF IInv, FlowInv
  <2> QED
    BY <1>1, <1>3, <2>1 DEF IInv, ClosedLeavesNothing
<1>14. loc[t].grant \in Gens \cup {0}
  BY DEF IInv, TypeOK, Loc
<1>15. loc[t].grant # 0 => /\ loc[t].todo = {} /\ lease[loc[t].grant] = "adopted"
                           /\ replaced[loc[t].grant] \in {0, g}
  BY <1>1, <1>2 DEF IInv, GrantInv
<1>16. GrantInv'
  <2>1. \A h \in handles' : lease[h] = "adopted"
    BY <1>6, <1>15 DEF IInv, GrantInv
  <2>2. pc'[t] \in CloseLabels => loc'[t].grant = 0
    BY <1>6, <1>15 DEF CloseLabels
  <2> QED
    BY <1>1, <1>4, <2>1, <2>2 DEF IInv, GrantInv
<1>17. ReplacementJoins'
  <2>1. \A h \in Gens : phase[h] = "closed" => phase'[h] = "closed"
    BY <1>3
  <2>2. \A h \in handles : replaced[h] # 0 => replaced[h] \in Gens /\ phase[replaced[h]] = "closed"
    BY DEF IInv, ReplacementJoins, TypeOK
  <2> QED
    BY <1>1, <1>3, <1>6, <1>15, <2>1, <2>2 DEF ReplacementJoins
<1> QED
  BY <1>8, <1>9, <1>10, <1>11, <1>12, <1>13, <1>16, <1>17, StillStep DEF IInv

-----------------------------------------------------------------------------
(* The invariant is inductive *)

LEMMA InvStep == IInv /\ [Next]_vars => IInv'
<1> SUFFICES ASSUME IInv, [Next]_vars PROVE IInv'
  OBVIOUS
<1>1. TypeOK'
  BY TypeStep DEF IInv
<1>2. ASSUME Quiet, OperationInv', FlowInv', ClosedLeavesNothing' PROVE IInv'
  BY <1>1, <1>2, QuietStep DEF IInv
<1>3. CASE UNCHANGED vars
  <2>1. Quiet /\ Still
    BY <1>3 DEF vars, Quiet, Still, ownerVars, leaseVars
  <2>2. ClosedLeavesNothing'
    BY <1>3 DEF vars, IInv, ClosedLeavesNothing
  <2> QED
    BY <1>2, <2>1, <2>2, StillStep
<1>4. CASE Reserve
  BY <1>1, <1>4, StepReserve
<1>5. CASE \E g \in Gens : Install(g) \/ OpenUDP(g) \/ OpenTCP(g)
  BY <1>2, <1>5, FlowOpen
<1>6. CASE \E t \in Threads, g \in Gens : CallStep(t, g)
  BY <1>1, <1>2, <1>6, FlowCall, StepAdopt, StepRefuse DEF CallStep
<1>7. CASE \E t \in Threads : \/ ServerIO(t) \/ CloseServer(t)
                              \/ IOReturns(t) \/ AcceptReturns(t) \/ OperationStep(t)
  BY <1>1, <1>2, <1>7, FlowServerIO, FlowCloseServer, FlowInside, FlowEnd, FlowMoves
     DEF OperationStep
<1>8. CASE \E t \in Threads : CloseOwner(t) \/ CloseStep(t)
  BY <1>1, <1>2, <1>8, StepCloseOwner, StepBeginClose, StepRelease,
     FlowCollect, FlowShut, FlowJoin DEF CloseStep
<1> QED
  BY <1>3, <1>4, <1>5, <1>6, <1>7, <1>8 DEF Next

LEMMA Invariant == Spec => []IInv
BY InvInit, InvStep, PTL DEF Spec

-----------------------------------------------------------------------------
(* The theorems *)

\* Between two goroutines no generation has two closers, and none is closed
\* twice, however adoptions, retirements, lease closes and the stop race.
THEOREM ClosedOnce == Spec => []ClosedByOne
<1>1. IInv => ClosedByOne
  <2> SUFFICES ASSUME IInv PROVE ClosedByOne
    OBVIOUS
  <2>1. ASSUME NEW t \in Threads, NEW g \in Closing(t) PROVE phase[g] # "closed"
    <3>1. pc[t] \in CloseLabels
      BY <2>1 DEF Closing
    <3>2. CASE g = loc[t].gen
      BY <3>1, <3>2 DEF IInv, CloserInv
    <3>3. CASE g # loc[t].gen
      BY <2>1, <3>3 DEF IInv, CloserInv
    <3> QED
      BY <3>2, <3>3
  <2> QED
    BY <2>1 DEF IInv, CloserInv, ClosedByOne
<1> QED
  BY <1>1, Invariant, PTL

\* A reserved generation is current, pending or in the hands of one closer
\* until it is closed: no path of the code forgets one.
THEOREM NoneLost == Spec => []NoLostGeneration
<1>1. IInv => NoLostGeneration
  BY DEF IInv
<1> QED
  BY <1>1, Invariant, PTL

\* Once Owner.Close has taken the mutex, nothing is ever admitted again.
THEOREM StopFinal == Spec => []StopIsFinal
<1>1. IInv => StopIsFinal
  BY DEF IInv, OwnerInv, StopIsFinal
<1> QED
  BY <1>1, Invariant, PTL

\* The handle of a replacement is returned after the channel it displaced has
\* joined its operations and released its port.
THEOREM ReplacementJoined == Spec => []ReplacementJoins
<1>1. IInv => ReplacementJoins
  BY DEF IInv
<1> QED
  BY <1>1, Invariant, PTL

\* A client port is never reused while a flow or an operation of its previous
\* generation is left.
THEOREM PortsOwned == Spec => []LiveGenerationOwnsPort
<1>1. IInv => LiveGenerationOwnsPort
  BY DEF IInv, OperationInv, ClosedLeavesNothing, PortInv, LiveGenerationOwnsPort
<1> QED
  BY <1>1, Invariant, PTL

\* A dial or an accept that finishes late leaks no flow into a closed channel.
THEOREM NothingLeft == Spec => []ClosedLeavesNothing
<1>1. IInv => ClosedLeavesNothing
  BY DEF IInv
<1> QED
  BY <1>1, Invariant, PTL

=============================================================================
