-------------------------- MODULE ProtectedChannel --------------------------
(***************************************************************************)
(* ipsec3gpp.ProtectedChannelOwner: the SA generations of one IMS service. *)
(* A generation is reserved as a lease, opened over UDP or TCP, adopted as *)
(* the current channel, replaced, retired or stopped.  Operations borrow a *)
(* generation; close refuses new ones, shuts the flows and joins the rest. *)
(*                                                                         *)
(* A thread is a goroutine inside one call of the owner, a lease or a      *)
(* handle; it is reused for the next call.  One action is one critical     *)
(* section of the owner's, the lease's or the channel's mutex, or one call *)
(* into a flow.                                                            *)
(***************************************************************************)
EXTENDS Naturals

CONSTANTS
    Threads,         \* goroutines that call the owner, a lease or a handle
    None,            \* no goroutine
    MaxGeneration,   \* bound: generations reserved in one behaviour
    ClientSpan,      \* protectedChannelClientSpan, 256 in the code
    Carriers         \* the kinds of carrier the lease of each generation may open

ASSUME ConstantsAssumption ==
    /\ None \notin Threads
    /\ MaxGeneration \in Nat
    /\ ClientSpan \in Nat \ {0}
    /\ Carriers \in [1..MaxGeneration -> SUBSET {"udp", "tcp"}]

Gens == 1..MaxGeneration
Ports == 0..(ClientSpan - 1)
NoPort == ClientSpan

VARIABLES
    stopped,            \* owner.stopped
    generation,         \* owner.generation
    portOffset,         \* owner.portOffset
    activePorts,        \* owner.activePorts: the generation of a port, or 0
    activeGenerations,  \* owner.activeGenerations: the port of a generation
    current,            \* owner.current: its generation, or 0
    pending,            \* owner.pending
    lease,              \* state of the lease of each generation
    handles,            \* generations whose handle Adopt has returned
    installed,          \* channel.transport is set
    held,               \* the flows the fields of each channel refer to
    open,               \* the flows of each generation not yet closed
    dialing,            \* channel.tcpDialing
    phase,              \* channel.close: not begun, begun, finished
    operations,         \* channel.operations, as the set of its borrowers
    replaced,           \* history: the generation each adoption displaced, or 0
    pc,                 \* next step of each thread
    loc                 \* local variables of each thread

ownerVars == <<stopped, generation, portOffset, activePorts, activeGenerations>>
leaseVars == <<current, pending, lease, handles, replaced>>
chanVars  == <<installed, held, open, dialing>>
opVars    == <<phase, operations>>
vars == <<stopped, generation, portOffset, activePorts, activeGenerations,
          current, pending, lease, handles, replaced, installed, held, open,
          dialing, phase, operations, pc, loc>>

-----------------------------------------------------------------------------
(* Types and values *)

\* A flow is the UDP carrier, the TCP stack, its listener, or a connection
\* named by the thread that dialed or accepted it.
UDP == [of |-> "udp", by |-> None]
Stack == [of |-> "stack", by |-> None]
Listening == [of |-> "listener", by |-> None]
Client(t) == [of |-> "client", by |-> t]
Server(t) == [of |-> "server", by |-> t]
Clients == {Client(t) : t \in Threads}
Flows == {UDP, Stack, Listening} \cup Clients \cup {Server(t) : t \in Threads}

OpLabels == {"fetch", "io", "dial", "dialing", "publish", "listen",
             "accepting", "accepted", "end"}
CloseLabels == {"close", "collect", "shut", "join", "release"}

\* gen: the generation the thread works on; todo: generations it closes after
\* that; flow, taken: flows it read from the channel; grant: the generation
\* whose handle it returns at the end, or 0; server: the generation of the
\* server connection it holds, or 0; stop: it runs Owner.Close.
NewLoc == [gen |-> 0, todo |-> {}, flow |-> UDP, taken |-> {}, grant |-> 0,
           server |-> 0, stop |-> FALSE]
Loc == [gen : Gens \cup {0}, todo : SUBSET Gens, flow : Flows,
        taken : SUBSET Flows, grant : Gens \cup {0}, server : Gens \cup {0},
        stop : BOOLEAN]

\* The types of the state: one definition for the runs and for the proofs.
TypeOK ==
    /\ stopped \in BOOLEAN
    /\ generation \in 0..MaxGeneration
    /\ portOffset \in Ports
    /\ activePorts \in [Ports -> Gens \cup {0}]
    /\ activeGenerations \in [Gens -> Ports \cup {NoPort}]
    /\ current \in Gens \cup {0}
    /\ pending \subseteq Gens
    /\ lease \in [Gens -> {"none", "pending", "adopted", "closed"}]
    /\ handles \subseteq Gens
    /\ replaced \in [Gens -> Gens \cup {0}]
    /\ installed \subseteq Gens
    /\ held \in [Gens -> SUBSET Flows]
    /\ open \in [Gens -> SUBSET Flows]
    /\ dialing \subseteq Gens
    /\ phase \in [Gens -> {"open", "closing", "closed"}]
    /\ operations \in [Gens -> SUBSET Threads]
    /\ pc \in [Threads -> OpLabels \cup CloseLabels \cup {"idle"}]
    /\ loc \in [Threads -> Loc]
    /\ \A t \in Threads : pc[t] # "idle" => loc[t].gen \in Gens

Init ==
    /\ stopped = FALSE
    /\ generation = 0
    /\ portOffset \in Ports
    /\ activePorts = [p \in Ports |-> 0]
    /\ activeGenerations = [g \in Gens |-> NoPort]
    /\ current = 0
    /\ pending = {}
    /\ lease = [g \in Gens |-> "none"]
    /\ handles = {}
    /\ replaced = [g \in Gens |-> 0]
    /\ installed = {}
    /\ held = [g \in Gens |-> {}]
    /\ open = [g \in Gens |-> {}]
    /\ dialing = {}
    /\ phase = [g \in Gens |-> "open"]
    /\ operations = [g \in Gens |-> {}]
    /\ pc = [t \in Threads |-> "idle"]
    /\ loc = [t \in Threads |-> NewLoc]

-----------------------------------------------------------------------------
(* Helpers *)

Goto(t, label) == pc' = [pc EXCEPT ![t] = label]

\* The flow a channel reads and writes: UDP before the dialed connection.
ready(g) ==
    /\ g \in installed
    /\ UDP \in held[g] \/ ({Stack, Listening} \subseteq held[g] /\ held[g] \cap Clients # {})

\* The first free port at or after portOffset, in the order of the span.
Distance(p) == (p + ClientSpan - portOffset) % ClientSpan
reserveClientPort(p) ==
    /\ activePorts[p] = 0
    /\ \A q \in Ports : activePorts[q] = 0 => Distance(p) <= Distance(q)

beginOperation(t, g, label) ==
    /\ pc[t] = "idle"
    /\ phase[g] = "open"
    /\ operations' = [operations EXCEPT ![g] = @ \cup {t}]
    /\ loc' = [loc EXCEPT ![t].gen = g]
    /\ Goto(t, label)
    /\ UNCHANGED <<ownerVars, leaseVars, chanVars, phase>>

acquirePending(t, g, label) == lease[g] = "pending" /\ beginOperation(t, g, label)

acquireCurrent(t, g, label) ==
    /\ g \in handles
    /\ ~stopped /\ current = g
    /\ beginOperation(t, g, label)

-----------------------------------------------------------------------------
(* A lease: reserved, installed, opened *)

\* Mutation: the rotating port offset is not wrapped to the span.
ReserveUnwrapped ==
    /\ ~stopped
    /\ generation < MaxGeneration
    /\ \E p \in Ports :
         /\ reserveClientPort(p)
         /\ portOffset' = p + 1
         /\ activePorts' = [activePorts EXCEPT ![p] = generation + 1]
         /\ activeGenerations' = [activeGenerations EXCEPT ![generation + 1] = p]
    /\ generation' = generation + 1
    /\ lease' = [lease EXCEPT ![generation + 1] = "pending"]
    /\ pending' = pending \cup {generation + 1}
    /\ UNCHANGED <<stopped, current, handles, replaced, chanVars, opVars, pc, loc>>

Reserve ==
    /\ ~stopped
    /\ generation < MaxGeneration
    /\ \E p \in Ports :
         /\ reserveClientPort(p)
         /\ portOffset' = (p + 1) % ClientSpan
         /\ activePorts' = [activePorts EXCEPT ![p] = generation + 1]
         /\ activeGenerations' = [activeGenerations EXCEPT ![generation + 1] = p]
    /\ generation' = generation + 1
    /\ lease' = [lease EXCEPT ![generation + 1] = "pending"]
    /\ pending' = pending \cup {generation + 1}
    /\ UNCHANGED <<stopped, current, handles, replaced, chanVars, opVars, pc, loc>>

Install(g) ==
    /\ lease[g] = "pending" /\ g \notin installed
    /\ installed' = installed \cup {g}
    /\ UNCHANGED <<ownerVars, leaseVars, held, open, dialing, opVars, pc, loc>>

\* The flows enter the channel as one: the lease's mutex is held throughout.
OpenFlows(g, flows) ==
    /\ lease[g] = "pending" /\ g \in installed
    /\ held[g] \cap {UDP, Stack} = {}
    /\ held' = [held EXCEPT ![g] = @ \cup flows]
    /\ open' = [open EXCEPT ![g] = @ \cup flows]
    /\ UNCHANGED <<ownerVars, leaseVars, installed, dialing, opVars, pc, loc>>

OpenUDP(g) == "udp" \in Carriers[g] /\ OpenFlows(g, {UDP})
OpenTCP(g) == "tcp" \in Carriers[g] /\ OpenFlows(g, {Stack, Listening})

-----------------------------------------------------------------------------
(* Operations on a lease or a handle *)

\* Read, Write and the other operations that borrow the channel's flow.
LeaseIO(t, g) == acquirePending(t, g, "fetch")
HandleIO(t, g) == acquireCurrent(t, g, "fetch")

clientConn(t) ==
    /\ pc[t] = "fetch"
    /\ LET g == loc[t].gen
       IN \/ \E f \in held[g] \cap ({UDP} \cup Clients) :
               /\ f # UDP => UDP \notin held[g]
               /\ loc' = [loc EXCEPT ![t].flow = f]
               /\ Goto(t, "io")
          \/ /\ held[g] \cap ({UDP} \cup Clients) = {}
             /\ Goto(t, "end")
             /\ UNCHANGED loc
    /\ UNCHANGED <<ownerVars, leaseVars, chanVars, opVars>>

\* protectedChannelServerConn.withOperation: the connection it accepted.
ServerIO(t) ==
    /\ loc[t].server # 0
    /\ LET g == loc[t].server
       IN /\ ~stopped /\ current = g
          /\ pc[t] = "idle" /\ phase[g] = "open"
          /\ operations' = [operations EXCEPT ![g] = @ \cup {t}]
          /\ loc' = [loc EXCEPT ![t].gen = g, ![t].flow = Server(t)]
          /\ Goto(t, "io")
    /\ UNCHANGED <<ownerVars, leaseVars, chanVars, phase>>

\* A read or write returns; on a closed flow it must.
IOReturns(t) ==
    /\ pc[t] = "io"
    /\ Goto(t, "end")
    /\ UNCHANGED <<ownerVars, leaseVars, chanVars, opVars, loc>>

endOperation(t) ==
    /\ pc[t] = "end"
    /\ operations' = [operations EXCEPT ![loc[t].gen] = @ \ {t}]
    /\ Goto(t, "idle")
    /\ UNCHANGED <<ownerVars, leaseVars, chanVars, phase, loc>>

-----------------------------------------------------------------------------
(* The protected TCP flows *)

DialTCPClient(t, g) == acquirePending(t, g, "dial")

DialChecked(t) ==
    /\ pc[t] = "dial"
    /\ LET g == loc[t].gen
       IN IF /\ {Stack, Listening} \subseteq held[g]
             /\ held[g] \cap Clients = {} /\ g \notin dialing
          THEN dialing' = dialing \cup {g} /\ Goto(t, "dialing")
          ELSE Goto(t, "end") /\ UNCHANGED dialing
    /\ UNCHANGED <<ownerVars, leaseVars, installed, held, open, opVars, loc>>

\* DialClientFlow connects only over a live stack; it may always fail.
DialReturns(t) ==
    /\ pc[t] = "dialing"
    /\ LET g == loc[t].gen
       IN /\ dialing' = dialing \ {g}
          /\ \/ Goto(t, "end") /\ UNCHANGED open
             \/ /\ Stack \in open[g]
                /\ open' = [open EXCEPT ![g] = @ \cup {Client(t)}]
                /\ Goto(t, "publish")
    /\ UNCHANGED <<ownerVars, leaseVars, installed, held, opVars, loc>>

\* Mutation: the connection is kept although the lease has been closed.
PublishAlways(t) ==
    /\ pc[t] = "publish"
    /\ held' = [held EXCEPT ![loc[t].gen] = @ \cup {Client(t)}]
    /\ Goto(t, "end")
    /\ UNCHANGED <<ownerVars, leaseVars, installed, open, dialing, opVars, loc>>

Publish(t) ==
    /\ pc[t] = "publish"
    /\ LET g == loc[t].gen
       IN IF lease[g] = "pending" /\ Stack \in held[g] /\ held[g] \cap Clients = {}
          THEN /\ held' = [held EXCEPT ![g] = @ \cup {Client(t)}]
               /\ UNCHANGED open
          ELSE /\ open' = [open EXCEPT ![g] = @ \ {Client(t)}]
               /\ UNCHANGED held
    /\ Goto(t, "end")
    /\ UNCHANGED <<ownerVars, leaseVars, installed, dialing, opVars, loc>>

\* Bound: a thread holds one accepted connection at a time.
AcceptServerFlow(t, g) == loc[t].server = 0 /\ acquireCurrent(t, g, "listen")

Listener(t) ==
    /\ pc[t] = "listen"
    /\ Goto(t, IF Listening \in held[loc[t].gen] THEN "accepting" ELSE "end")
    /\ UNCHANGED <<ownerVars, leaseVars, chanVars, opVars, loc>>

AcceptReturns(t) ==
    /\ pc[t] = "accepting"
    /\ LET g == loc[t].gen
       IN \/ Goto(t, "end") /\ UNCHANGED open
          \/ /\ Listening \in open[g]
             /\ open' = [open EXCEPT ![g] = @ \cup {Server(t)}]
             /\ Goto(t, "accepted")
    /\ UNCHANGED <<ownerVars, leaseVars, installed, held, dialing, opVars, loc>>

RegisterServer(t) ==
    /\ pc[t] = "accepted"
    /\ LET g == loc[t].gen
       IN IF phase[g] = "open"
          THEN /\ held' = [held EXCEPT ![g] = @ \cup {Server(t)}]
               /\ loc' = [loc EXCEPT ![t].server = g]
               /\ UNCHANGED open
          ELSE /\ open' = [open EXCEPT ![g] = @ \ {Server(t)}]
               /\ UNCHANGED <<held, loc>>
    /\ Goto(t, "end")
    /\ UNCHANGED <<ownerVars, leaseVars, installed, dialing, opVars>>

\* protectedChannelServerConn.Close.
CloseServer(t) ==
    /\ pc[t] = "idle" /\ loc[t].server # 0
    /\ LET g == loc[t].server
       IN /\ held' = [held EXCEPT ![g] = @ \ {Server(t)}]
          /\ open' = [open EXCEPT ![g] = @ \ {Server(t)}]
    /\ loc' = [loc EXCEPT ![t].server = 0]
    /\ UNCHANGED <<ownerVars, leaseVars, installed, dialing, opVars, pc>>

-----------------------------------------------------------------------------
(* Adoption, retirement and stop *)

\* The thread closes the generations of todo, g first, then returns the handle
\* of grant.
StartClose(t, g, rest, grant, stop) ==
    /\ loc' = [loc EXCEPT ![t].gen = g, ![t].todo = rest, ![t].grant = grant,
                          ![t].stop = stop]
    /\ Goto(t, "close")

Adoptable(t, g) ==
    /\ pc[t] = "idle"
    /\ ~stopped
    /\ lease[g] = "pending"
    /\ ready(g)

\* Mutation: the handle is returned before the displaced channel is closed.
AdoptEarly(t, g) ==
    /\ Adoptable(t, g) /\ current < g
    /\ current' = g
    /\ pending' = pending \ {g}
    /\ lease' = [lease EXCEPT ![g] = "adopted"]
    /\ replaced' = [replaced EXCEPT ![g] = current]
    /\ handles' = handles \cup {g}
    /\ IF current = 0 THEN UNCHANGED <<pc, loc>> ELSE StartClose(t, current, {}, 0, FALSE)
    /\ UNCHANGED <<ownerVars, chanVars, opVars>>

Adopt(t, g) ==
    /\ Adoptable(t, g) /\ current < g
    /\ current' = g
    /\ pending' = pending \ {g}
    /\ lease' = [lease EXCEPT ![g] = "adopted"]
    /\ replaced' = [replaced EXCEPT ![g] = current]
    /\ IF current = 0
       THEN handles' = handles \cup {g} /\ UNCHANGED <<pc, loc>>
       ELSE StartClose(t, current, {}, g, FALSE) /\ UNCHANGED handles
    /\ UNCHANGED <<ownerVars, chanVars, opVars>>

\* Mutation: a stale lease is refused but not closed.
AdoptStaleDropped(t, g) ==
    /\ Adoptable(t, g) /\ current >= g
    /\ pending' = pending \ {g}
    /\ lease' = [lease EXCEPT ![g] = "closed"]
    /\ UNCHANGED <<ownerVars, current, handles, replaced, chanVars, opVars, pc, loc>>

AdoptStale(t, g) ==
    /\ Adoptable(t, g) /\ current >= g
    /\ pending' = pending \ {g}
    /\ lease' = [lease EXCEPT ![g] = "closed"]
    /\ StartClose(t, g, {}, 0, FALSE)
    /\ UNCHANGED <<ownerVars, current, handles, replaced, chanVars, opVars>>

CloseLease(t, g) ==
    /\ pc[t] = "idle"
    /\ lease[g] = "pending"
    /\ lease' = [lease EXCEPT ![g] = "closed"]
    /\ pending' = pending \ {g}
    /\ StartClose(t, g, {}, 0, FALSE)
    /\ UNCHANGED <<ownerVars, current, handles, replaced, chanVars, opVars>>

\* Mutation: the owner keeps the channel it retires.
retireKeepsCurrent(t, g) ==
    /\ pc[t] = "idle"
    /\ g \in handles /\ current = g
    /\ StartClose(t, g, {}, 0, FALSE)
    /\ UNCHANGED <<ownerVars, leaseVars, chanVars, opVars>>

retire(t, g) ==
    /\ pc[t] = "idle"
    /\ g \in handles /\ current = g
    /\ current' = 0
    /\ StartClose(t, g, {}, 0, FALSE)
    /\ UNCHANGED <<ownerVars, pending, lease, handles, replaced, chanVars, opVars>>

\* Mutation: only the current channel is closed; the leases stay.
CloseOwnerCurrentOnly(t) ==
    /\ pc[t] = "idle"
    /\ ~stopped
    /\ stopped' = TRUE
    /\ current' = 0
    /\ IF current = 0 THEN UNCHANGED <<pc, loc>> ELSE StartClose(t, current, {}, 0, TRUE)
    /\ UNCHANGED <<generation, portOffset, activePorts, activeGenerations, pending,
                   lease, handles, replaced, chanVars, opVars>>

CloseOwner(t) ==
    /\ pc[t] = "idle"
    /\ ~stopped
    /\ stopped' = TRUE
    /\ current' = 0
    /\ pending' = {}
    /\ lease' = [g \in Gens |-> IF g \in pending /\ lease[g] = "pending"
                                THEN "closed" ELSE lease[g]]
    /\ LET leases == {g \in pending : lease[g] = "pending"}
           first == IF current = 0 THEN leases ELSE {current}
       IN \/ \E g \in first : StartClose(t, g, leases \ {g}, 0, TRUE)
          \/ first = {} /\ UNCHANGED <<pc, loc>>
    /\ UNCHANGED <<generation, portOffset, activePorts, activeGenerations, handles,
                   replaced, chanVars, opVars>>

-----------------------------------------------------------------------------
(* protectedChannel.close *)

\* closeOnce and closing.  A second closer would wait for the first, but none
\* ever comes: ClosedByOne.
BeginClose(t) ==
    /\ pc[t] = "close"
    /\ LET g == loc[t].gen
       IN /\ phase[g] = "open"
          /\ phase' = [phase EXCEPT ![g] = "closing"]
    /\ Goto(t, "collect")
    /\ UNCHANGED <<ownerVars, leaseVars, chanVars, operations, loc>>

Collect(t) ==
    /\ pc[t] = "collect"
    /\ loc' = [loc EXCEPT ![t].taken = held[loc[t].gen]]
    /\ held' = [held EXCEPT ![loc[t].gen] = {}]
    /\ Goto(t, "shut")
    /\ UNCHANGED <<ownerVars, leaseVars, installed, open, dialing, opVars>>

\* Mutation: the listener the channel gave up is not closed.
ShutKeepsListener(t) ==
    /\ pc[t] = "shut"
    /\ open' = [open EXCEPT ![loc[t].gen] = @ \ (loc[t].taken \ {Listening})]
    /\ Goto(t, "join")
    /\ UNCHANGED <<ownerVars, leaseVars, installed, held, dialing, opVars, loc>>

Shut(t) ==
    /\ pc[t] = "shut"
    /\ open' = [open EXCEPT ![loc[t].gen] = @ \ loc[t].taken]
    /\ Goto(t, "join")
    /\ UNCHANGED <<ownerVars, leaseVars, installed, held, dialing, opVars, loc>>

\* Mutation: the port is released without waiting for the operations.
JoinNothing(t) ==
    /\ pc[t] = "join"
    /\ Goto(t, "release")
    /\ UNCHANGED <<ownerVars, leaseVars, chanVars, opVars, loc>>

Join(t) ==
    /\ pc[t] = "join"
    /\ operations[loc[t].gen] = {}
    /\ Goto(t, "release")
    /\ UNCHANGED <<ownerVars, leaseVars, chanVars, opVars, loc>>

\* What the thread does after a close: the next generation, or it returns.
NextClose(t) ==
    IF loc[t].todo = {}
    THEN /\ Goto(t, "idle")
         /\ handles' = IF loc[t].grant = 0 THEN handles ELSE handles \cup {loc[t].grant}
         /\ loc' = [loc EXCEPT ![t].stop = FALSE, ![t].grant = 0, ![t].taken = {}]
    ELSE /\ Goto(t, "close")
         /\ \E g \in loc[t].todo :
              loc' = [loc EXCEPT ![t].gen = g, ![t].todo = @ \ {g}]
         /\ UNCHANGED handles

releaseGeneration(t) ==
    /\ pc[t] = "release"
    /\ LET g == loc[t].gen
           p == activeGenerations[g]
       IN /\ activeGenerations' = [activeGenerations EXCEPT ![g] = NoPort]
          /\ activePorts' = IF p \in Ports /\ activePorts[p] = g
                            THEN [activePorts EXCEPT ![p] = 0] ELSE activePorts
          /\ phase' = [phase EXCEPT ![g] = "closed"]
    /\ NextClose(t)
    /\ UNCHANGED <<stopped, generation, portOffset, current, pending, lease, replaced,
                   chanVars, operations>>

-----------------------------------------------------------------------------
OperationStep(t) ==
    \/ clientConn(t) \/ endOperation(t)
    \/ DialChecked(t) \/ DialReturns(t) \/ Publish(t)
    \/ Listener(t) \/ RegisterServer(t)

CloseStep(t) ==
    \/ BeginClose(t) \/ Collect(t) \/ Shut(t) \/ Join(t) \/ releaseGeneration(t)

\* A flow call returns because its flow has been closed.
Aborted(t) ==
    \/ pc[t] = "io" /\ loc[t].flow \notin open[loc[t].gen] /\ IOReturns(t)
    \/ pc[t] = "accepting" /\ Listening \notin open[loc[t].gen] /\ AcceptReturns(t)

CallStep(t, g) ==
    \/ LeaseIO(t, g) \/ HandleIO(t, g)
    \/ DialTCPClient(t, g) \/ AcceptServerFlow(t, g)
    \/ Adopt(t, g) \/ AdoptStale(t, g) \/ CloseLease(t, g) \/ retire(t, g)

Next ==
    \/ Reserve
    \/ \E g \in Gens : Install(g) \/ OpenUDP(g) \/ OpenTCP(g)
    \/ \E t \in Threads, g \in Gens : CallStep(t, g)
    \/ \E t \in Threads :
         \/ ServerIO(t) \/ CloseServer(t) \/ CloseOwner(t)
         \/ IOReturns(t) \/ AcceptReturns(t)
         \/ OperationStep(t) \/ CloseStep(t)

Spec == Init /\ [][Next]_vars

\* Goroutines are scheduled, a dial ends with its context, and a call on a
\* closed flow returns.  Nothing obliges a peer to answer on an open one.
Fairness == \A t \in Threads :
    WF_vars(OperationStep(t)) /\ WF_vars(CloseStep(t)) /\ WF_vars(Aborted(t))

FairSpec == Spec /\ Fairness
-----------------------------------------------------------------------------
(* Properties *)

Closing(t) == IF pc[t] \in CloseLabels THEN {loc[t].gen} \cup loc[t].todo ELSE {}

\* A client port is released only when nothing of its generation is left: a
\* generation with an open flow or an operation in flight still owns its port,
\* so no two live generations ever share one.
LiveGenerationOwnsPort ==
    \A g \in Gens : open[g] # {} \/ operations[g] # {} =>
        activeGenerations[g] \in Ports /\ activePorts[activeGenerations[g]] = g

\* A closed generation leaves nothing behind: no flow is open, none is held,
\* no operation is in flight, although dials and accepts finish at any time.
ClosedLeavesNothing ==
    \A g \in Gens : phase[g] = "closed" =>
        open[g] = {} /\ held[g] = {} /\ operations[g] = {}

\* Exactly-once close: no generation is ever handed to two closers, and none
\* is handed to a closer after it was closed.
ClosedByOne ==
    /\ \A t, u \in Threads : t # u => Closing(t) \cap Closing(u) = {}
    /\ \A t \in Threads : \A g \in Closing(t) : phase[g] # "closed"

\* No generation is lost: until it is closed, each reserved generation is the
\* current one, a pending lease, or in the hands of its closer.
NoLostGeneration ==
    \A g \in Gens : lease[g] # "none" /\ phase[g] # "closed" =>
        current = g \/ g \in pending \/ \E t \in Threads : g \in Closing(t)

\* After Stop the owner admits nothing: no channel is current, no lease is
\* pending, whatever reservation or adoption raced the stop.
StopIsFinal ==
    stopped => current = 0 /\ pending = {} /\ \A g \in Gens : lease[g] # "pending"

\* Adopt returns a handle only when the channel it displaced is closed and
\* its operations have been joined.
ReplacementJoins ==
    \A g \in handles : replaced[g] # 0 => phase[replaced[g]] = "closed"

\* Every close, replacement and Stop returns: closing the flows ends every
\* operation it waits for.
CloseReturns == \A t \in Threads : pc[t] \in CloseLabels ~> pc[t] = "idle"

\* After Stop every generation ever reserved is closed in the end.
StopClosesAll ==
    stopped ~> \A g \in Gens : lease[g] # "none" => phase[g] = "closed"
=============================================================================
