----------------------------- MODULE SmsDelivery -----------------------------
(***************************************************************************)
(* Sending an SMS over IMS and tracking its delivery: Client.SendSMS and   *)
(* the reports it gets back (vowifi-go/runtimehost/voiceclient/sms.go,     *)
(* sms_status_report.go) on the delivery store                             *)
(* (internal/db/sms_delivery.go) and the message history (db.go), with the *)
(* message references of internal/device/vowifi_state_api.go.              *)
(*                                                                         *)
(* All messages are of one device and one IMSI.  One action is one         *)
(* statement or transaction of the store, or one event of the network,     *)
(* which loses, repeats, delays and reorders its reports.                  *)
(***************************************************************************)
EXTENDS Naturals, FiniteSets

CONSTANTS
    Messages,    \* calls of SendSMS
    Parts,       \* parts of each message
    Peer,        \* recipient of each message
    References,  \* size of the reference space, 256 in the code
    StoreFaults  \* a statement of the store may fail

ASSUME ConstantsAssumption ==
    /\ Parts \in [Messages -> Nat \ {0}]
    /\ DOMAIN Peer = Messages
    /\ References \in Nat \ {0}
    /\ StoreFaults \in BOOLEAN

Pids == UNION {{m} \X (1..Parts[m]) : m \in Messages}

RPStates == {"acked", "failed"}
FinalStates == {"delivered", "delivery_failed", "delivery_unconfirmed"}
StatusStates == FinalStates \cup {"delivery_pending"}
PartStates == {"pending"} \cup RPStates \cup StatusStates
States == {"pending", "partial_ack", "acked", "delivery_pending", "delivery_unconfirmed",
           "delivered", "failed"}

VARIABLES
    counter,   \* rpmrCounter, reset with the process
    ref,       \* message reference of each part
    pc, part,  \* where each SendSMS is, and its current part
    then,      \* what follows its recompute
    was,       \* the state its recompute read, then the one it writes
    tally,     \* the parts its recompute has counted so far
    delivery,  \* row of sms_delivery: its state, "none" without a row
    age,       \* age of that row: at most 120 s, at most 7 days, or more
    row,       \* rows of sms_delivery_part
    history,   \* status of the row of the message history, 0 without one
    submitted, \* history: parts that reached the network
    said,      \* history: what the network reported of each part
    refused    \* history: parts whose submission failed, or was given up

local == <<ref, pc, part, then, was, tally>>
store == <<delivery, row, history>>
net == <<submitted, said>>
vars == <<counter, local, store, age, net, refused>>

NoRow == [state |-> "none", mr |-> 0, called |-> FALSE]
Rows == [state : PartStates, mr : 0..(References - 1), called : BOOLEAN] \cup {NoRow}
Counts == {"acked", "delivered", "pending"}
Nothing == [c \in Counts |-> {}]
Places == {"idle", "prepare", "submit", "wait", "confirm", "refuse", "read", "acked", "failed",
           "delivered", "pending", "unconfirmed", "write", "mark", "record", "done"}

TypeOK ==
    /\ counter \in 0..(References - 1)
    /\ ref \in [Pids -> 0..(References - 1)]
    /\ pc \in [Messages -> Places] /\ part \in [Messages -> Nat]
    /\ then \in [Messages -> {"mark", "record"}] /\ was \in [Messages -> States]
    /\ tally \in [Messages -> [Counts -> SUBSET Pids]]
    /\ delivery \in [Messages -> States \cup {"none"}]
    /\ age \in [Messages -> {"now", "week", "old"}]
    /\ row \in [Pids -> Rows]
    /\ history \in [Messages -> {0, 2, 3, 4, 5}]
    /\ submitted \subseteq Pids /\ refused \subseteq Pids
    /\ said \in [Pids -> SUBSET PartStates]

Init ==
    /\ counter = 0
    /\ ref = [p \in Pids |-> 0]
    /\ pc = [m \in Messages |-> "idle"] /\ part = [m \in Messages |-> 1]
    /\ then = [m \in Messages |-> "record"] /\ was = [m \in Messages |-> "pending"]
    /\ tally = [m \in Messages |-> Nothing]
    /\ delivery = [m \in Messages |-> "none"] /\ age = [m \in Messages |-> "now"]
    /\ row = [p \in Pids |-> NoRow]
    /\ history = [m \in Messages |-> 0]
    /\ submitted = {} /\ refused = {}
    /\ said = [p \in Pids |-> {}]

Goto(m, place) == pc' = [pc EXCEPT ![m] = place]
Current(m) == <<m, part[m]>>
PartsOf(m) == {p \in Pids : p[1] = m}

-----------------------------------------------------------------------------
(* The store *)

\* Mutation: only a delivered part is protected from a late write.
KeptUnlessFinal(old, new) == IF old = "delivered" THEN old ELSE new

\* The CASE of UpsertSMSDeliveryPart: what a report has written stays.
Kept(old, new) ==
    IF \/ old \in StatusStates
       \/ old = "acked" /\ new # "acked"
       \/ new = "pending" /\ old \in {"acked", "failed"}
    THEN old ELSE new

Upsert(m, called, state) ==
    LET p == Current(m) IN
    row' = [row EXCEPT ![p] =
        [state |-> IF @ = NoRow THEN state ELSE Kept(@.state, state),
         mr |-> ref[p], called |-> called]]

\* Mutation: the rows there are count, not the declared parts.
DecidedOverRows(m, acked, delivered, pending, unconfirmed) ==
    LET Declared == {p \in PartsOf(m) : row[p] # NoRow} IN
    IF delivered = Declared THEN "delivered"
    ELSE IF unconfirmed # {} /\ pending = {} /\ delivered \cup unconfirmed = Declared THEN "delivery_unconfirmed"
    ELSE IF delivered \cup pending \cup unconfirmed # {} THEN "delivery_pending"
    ELSE IF acked = Declared THEN "acked"
    ELSE IF acked # {} THEN "partial_ack"
    ELSE "pending"

\* recomputeSMSDelivery, when no part has failed, from the parts it has counted: the
\* declared number of parts counts, not the rows there are.
Decided(m, acked, delivered, pending, unconfirmed) ==
    IF delivered = PartsOf(m) THEN "delivered"
    ELSE IF unconfirmed # {} /\ pending = {} /\ delivered \cup unconfirmed = PartsOf(m) THEN "delivery_unconfirmed"
    ELSE IF delivered \cup pending \cup unconfirmed # {} THEN "delivery_pending"
    ELSE IF acked = PartsOf(m) THEN "acked"
    ELSE IF acked # {} THEN "partial_ack"
    ELSE "pending"

PartsIn(m, rows, states) == {p \in PartsOf(m) : rows[p].state \in states}

Taken == {"acked"} \cup StatusStates
Failures == {"failed", "delivery_failed"}

\* All of it over the same rows, inside a transaction.
Counted(m, rows) ==
    IF PartsIn(m, rows, Failures) # {} THEN "failed"
    ELSE Decided(m, PartsIn(m, rows, Taken), PartsIn(m, rows, {"delivered"}),
                 PartsIn(m, rows, {"delivery_pending"}), PartsIn(m, rows, {"delivery_unconfirmed"}))

\* A failure stays but for full delivery, and delivery stays.
Recomputed(before, counted) ==
    IF before = "delivered" \/ (before = "failed" /\ counted # "delivered") THEN before ELSE counted

voWiFiSMSHistoryStatus(state) ==
    CASE state = "delivered" -> 5
      [] state \in {"acked", "delivery_pending", "delivery_unconfirmed"} -> 2
      [] state = "failed" -> 3
      [] state \in {"pending", "partial_ack"} -> 4

-----------------------------------------------------------------------------
(* SendSMS *)

\* Mutation: the reference is not taken modulo its width.
NotWrapped(i) == counter + i
nextRPMR(i) == (counter + i) % References

\* SendVoWiFiSMSWithOptions takes a reference for each part; CreateSMSDelivery.
Send(m) ==
    /\ pc[m] = "idle"
    /\ counter' = nextRPMR(Parts[m])
    /\ ref' = [p \in Pids |-> IF p[1] = m THEN nextRPMR(p[2]) ELSE ref[p]]
    /\ \/ delivery' = [delivery EXCEPT ![m] = "pending"] /\ Goto(m, "prepare")
       \/ StoreFaults /\ Goto(m, "done") /\ UNCHANGED delivery
    /\ UNCHANGED <<part, then, was, tally, age, row, history, net, refused>>

\* The request cannot be built: the part and then the message are marked.
NotBuilt(m) ==
    /\ pc[m] = "prepare"
    /\ Goto(m, "refuse")
    /\ then' = [then EXCEPT ![m] = "mark"]
    /\ refused' = refused \cup {Current(m)}
    /\ UNCHANGED <<counter, ref, part, was, tally, store, age, net>>

Prepare(m) ==
    /\ pc[m] = "prepare"
    /\ \/ Upsert(m, FALSE, "pending") /\ Goto(m, "submit") /\ UNCHANGED refused
       \/ /\ StoreFaults /\ Goto(m, "mark") /\ UNCHANGED row
          /\ refused' = refused \cup {Current(m)}
    /\ UNCHANGED <<counter, ref, part, then, was, tally, delivery, history, age, net>>

\* doTransaction: the request reaches the network, or not.
Submit(m) ==
    /\ pc[m] = "submit"
    /\ submitted' = submitted \cup {Current(m)} \/ UNCHANGED submitted
    /\ Goto(m, "wait")
    /\ UNCHANGED <<counter, ref, part, then, was, tally, store, age, said, refused>>

\* It is accepted, or ends with another answer, an error or none.
Answered(m) ==
    /\ pc[m] = "wait"
    /\ \/ Current(m) \in submitted /\ Goto(m, "confirm") /\ UNCHANGED refused
       \/ Goto(m, "refuse") /\ refused' = refused \cup {Current(m)}
    /\ UNCHANGED <<counter, ref, part, then, was, tally, store, age, net>>

Confirm(m) ==
    /\ pc[m] = "confirm"
    /\ \/ /\ Upsert(m, TRUE, "pending")
          /\ IF part[m] = Parts[m] THEN Goto(m, "record") /\ UNCHANGED part
             ELSE Goto(m, "prepare") /\ part' = [part EXCEPT ![m] = @ + 1]
       \/ StoreFaults /\ Goto(m, "record") /\ UNCHANGED <<row, part>>
    /\ UNCHANGED <<counter, ref, then, was, tally, delivery, history, age, net, refused>>

\* markSMSDeliveryPartSubmissionFailed: the upsert, and RecomputeSMSDelivery, each
\* of whose statements is a transaction of its own.  (The number of rows, which it
\* counts first, changes only here.)
Refuse(m) ==
    /\ pc[m] = "refuse"
    /\ \/ Upsert(m, then[m] = "record", "failed") /\ Goto(m, "read")
       \/ StoreFaults /\ Goto(m, then[m]) /\ UNCHANGED row
    /\ UNCHANGED <<counter, ref, part, then, was, tally, delivery, history, age, net, refused>>

sending == <<counter, ref, part, then, age, net, refused>>

\* A statement of the recompute fails, and with it the recompute.
GiveUp(m) ==
    /\ StoreFaults
    /\ Goto(m, then[m])
    /\ was' = [was EXCEPT ![m] = "pending"] /\ tally' = [tally EXCEPT ![m] = Nothing]

ReadDelivery(m) ==
    /\ pc[m] = "read"
    /\ \/ was' = [was EXCEPT ![m] = delivery[m]] /\ Goto(m, "acked") /\ UNCHANGED tally
       \/ GiveUp(m)
    /\ UNCHANGED <<sending, store>>

\* One count, over the rows there are when it runs.
Count(m, count, states, next) ==
    /\ pc[m] = count
    /\ \/ /\ tally' = [tally EXCEPT ![m] = [@ EXCEPT ![count] = PartsIn(m, row, states)]]
          /\ Goto(m, next) /\ UNCHANGED was
       \/ GiveUp(m)
    /\ UNCHANGED <<sending, store>>

CountAcked(m) == Count(m, "acked", Taken, "failed")
CountDelivered(m) == Count(m, "delivered", {"delivered"}, "pending")
CountPending(m) == Count(m, "pending", {"delivery_pending"}, "unconfirmed")

Decide(m, counted) ==
    /\ was' = [was EXCEPT ![m] = Recomputed(@, counted)]
    /\ tally' = [tally EXCEPT ![m] = Nothing]
    /\ Goto(m, "write")

FindFailed(m) ==
    /\ pc[m] = "failed"
    /\ \/ PartsIn(m, row, Failures) # {} /\ Decide(m, "failed")
       \/ PartsIn(m, row, Failures) = {} /\ Goto(m, "delivered") /\ UNCHANGED <<was, tally>>
       \/ GiveUp(m)
    /\ UNCHANGED <<sending, store>>

\* The last count, and the state that follows from all of them.
CountUnconfirmed(m) ==
    LET t == tally[m] IN
    /\ pc[m] = "unconfirmed"
    /\ \/ Decide(m, Decided(m, t["acked"], t["delivered"], t["pending"], PartsIn(m, row, {"delivery_unconfirmed"})))
       \/ GiveUp(m)
    /\ UNCHANGED <<sending, store>>

WriteDelivery(m) ==
    /\ pc[m] = "write"
    /\ delivery' = [delivery EXCEPT ![m] = was[m]] \/ (StoreFaults /\ UNCHANGED delivery)
    /\ Goto(m, then[m])
    /\ was' = [was EXCEPT ![m] = "pending"]
    /\ UNCHANGED <<sending, tally, row, history>>

\* markSMSDeliveryFailed.
MarkFailed(m) ==
    /\ pc[m] = "mark"
    /\ delivery' = [delivery EXCEPT ![m] = "failed"] \/ (StoreFaults /\ UNCHANGED delivery)
    /\ Goto(m, "record")
    /\ UNCHANGED <<counter, ref, part, then, was, tally, row, history, age, net, refused>>

\* RecordSent and RecordSendFailure: the status is that of the delivery row.  The
\* call returns, and its variables are gone.
Record(m) ==
    /\ pc[m] = "record"
    /\ \/ history' = [history EXCEPT ![m] = voWiFiSMSHistoryStatus(delivery[m])]
       \/ StoreFaults /\ UNCHANGED history
    /\ Goto(m, "done")
    /\ part' = [part EXCEPT ![m] = 1] /\ then' = [then EXCEPT ![m] = "record"]
    /\ UNCHANGED <<counter, ref, was, tally, delivery, row, age, net, refused>>

-----------------------------------------------------------------------------
(* Reports.  An RP report comes within 120 s of the message, a status report    *)
(* within seven days, any number of times, in any order.                        *)

Says(p, state) == said' = [said EXCEPT ![p] = @ \cup {state}]

\* recomputeSMSDelivery and syncVoWiFiSMSHistoryStatusFromDelivery at the end of
\* the transaction.
Settle(m) ==
    LET state == Recomputed(delivery[m], Counted(m, row')) IN
    /\ delivery' = [delivery EXCEPT ![m] = state]
    /\ history' = [history EXCEPT ![m] = IF @ = 0 THEN 0 ELSE voWiFiSMSHistoryStatus(state)]

Report(candidates, from, state) ==
    \/ /\ \E p \in candidates :
            /\ candidates = {p}
            /\ row' = [row EXCEPT ![p].state = IF @ \in from THEN state ELSE @]
            /\ Settle(p[1])
    \/ /\ Cardinality(candidates) # 1 \/ StoreFaults
       /\ UNCHANGED store

RPCandidates(p, inReplyTo) ==
    IF inReplyTo /\ row[p].called THEN {p}
    ELSE {q \in Pids : row[q] # NoRow /\ row[q].mr = ref[p] /\ age[q[1]] = "now"}

\* MarkSMSDeliveryPartReport: by the Call-ID the report replies to, or by the
\* reference when it is unique; only a pending part is changed.
MarkSMSDeliveryPartReport(p, state, inReplyTo) ==
    /\ p \in submitted /\ age[p[1]] = "now"
    /\ Says(p, state)
    /\ Report(RPCandidates(p, inReplyTo), {"pending"}, state)
    /\ UNCHANGED <<counter, local, age, submitted, refused>>

\* Mutation: parts in a final state are no candidates.
StatusCandidatesNotFinal(p) ==
    {q \in Pids : row[q] # NoRow /\ row[q].mr = ref[p] /\ Peer[q[1]] = Peer[p[1]]
                  /\ row[q].state \notin FinalStates}

StatusCandidates(p) ==
    {q \in Pids : row[q] # NoRow /\ row[q].mr = ref[p] /\ Peer[q[1]] = Peer[p[1]]
                  /\ age[q[1]] \in {"now", "week"}}

\* MarkSMSDeliveryPartStatusReport: by reference and recipient.
MarkSMSDeliveryPartStatusReport(p, state) ==
    /\ p \in submitted /\ age[p[1]] \in {"now", "week"}
    /\ Says(p, state)
    /\ Report(StatusCandidates(p), PartStates \ FinalStates, state)
    /\ UNCHANGED <<counter, local, age, submitted, refused>>

-----------------------------------------------------------------------------
GrowOlder(m) ==
    /\ delivery[m] # "none" /\ age[m] # "old"
    /\ age' = [age EXCEPT ![m] = IF @ = "now" THEN "week" ELSE "old"]
    /\ UNCHANGED <<counter, local, store, net, refused>>

\* The process ends and starts again: its references begin anew.
Restart ==
    /\ counter' = 0
    /\ pc' = [m \in Messages |-> IF pc[m] = "idle" THEN "idle" ELSE "done"]
    /\ part' = [m \in Messages |-> 1]
    /\ then' = [m \in Messages |-> "record"] /\ was' = [m \in Messages |-> "pending"]
    /\ tally' = [m \in Messages |-> Nothing]
    /\ UNCHANGED <<ref, store, age, net, refused>>

SendStep(m) ==
    \/ Send(m) \/ NotBuilt(m) \/ Prepare(m) \/ Submit(m) \/ Answered(m) \/ Confirm(m)
    \/ Refuse(m) \/ ReadDelivery(m) \/ CountAcked(m) \/ FindFailed(m) \/ CountDelivered(m)
    \/ CountPending(m) \/ CountUnconfirmed(m) \/ WriteDelivery(m) \/ MarkFailed(m) \/ Record(m)

ReportStep(p) ==
    \/ \E state \in RPStates, inReplyTo \in BOOLEAN : MarkSMSDeliveryPartReport(p, state, inReplyTo)
    \/ \E state \in StatusStates : MarkSMSDeliveryPartStatusReport(p, state)

Next ==
    \/ \E m \in Messages : SendStep(m) \/ GrowOlder(m)
    \/ \E p \in Pids : ReportStep(p)
    \/ Restart

Spec == Init /\ [][Next]_vars

-----------------------------------------------------------------------------
(* Properties *)

\* No report is credited to another part: what a row says of its part the
\* network said of that part, whatever references were used again.
PartTellsTruth ==
    \A p \in Pids :
        /\ row[p].state \in StatusStates \cup {"acked"} => row[p].state \in said[p]
        /\ row[p].state = "failed" => "failed" \in said[p] \/ p \in refused

\* What the row of a message says of it was said of its parts, although a recompute
\* counts them one statement at a time and reports come in between: delivered or
\* unconfirmed only when the recipient's side answered for every declared part,
\* acknowledged only when the network took them all, if by a status report alone,
\* and failed only for a reason.  Its history says the same.
Heard(p, states) == said[p] \cap states # {}
MessageTellsTruth ==
    \A m \in Messages :
        /\ delivery[m] = "delivered" => \A p \in PartsOf(m) : Heard(p, {"delivered"})
        /\ delivery[m] = "delivery_unconfirmed" =>
              \A p \in PartsOf(m) : Heard(p, {"delivered", "delivery_unconfirmed"})
        /\ delivery[m] = "delivery_pending" => \E p \in PartsOf(m) : Heard(p, StatusStates)
        /\ delivery[m] = "acked" => \A p \in PartsOf(m) : Heard(p, Taken)
        /\ delivery[m] = "partial_ack" => \E p \in PartsOf(m) : Heard(p, Taken)
        /\ delivery[m] = "failed" => \E p \in PartsOf(m) : p \in refused \/ Heard(p, Failures)
        /\ history[m] # 0 => history[m] = voWiFiSMSHistoryStatus(delivery[m])

\* A late, repeated or contradictory report, or a late answer to the submission,
\* takes nothing back: a final state of a part stays, and an acknowledged part is
\* never pending or failed again.
NothingTakenBack ==
    [][\A p \in Pids :
         /\ row[p].state \in FinalStates => row'[p].state = row[p].state
         /\ row[p].state = "acked" => row'[p].state \notin {"pending", "failed"}]_vars

-----------------------------------------------------------------------------
(* What a comment says, and the code does not do *)

\* "Local submission failure is not evidence against a later terminal receipt for
\* every declared part" (internal/db/sms_delivery.go): a message all of whose parts
\* are delivered is delivered, once its SendSMS has returned.
ReceiptsWin ==
    \A m \in Messages :
        pc[m] = "done" /\ (\A p \in PartsOf(m) : row[p].state = "delivered") => delivery[m] = "delivered"
=============================================================================
