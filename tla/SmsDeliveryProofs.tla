-------------------------- MODULE SmsDeliveryProofs --------------------------
(***************************************************************************)
(* Proofs about SmsDelivery for any messages, parts, recipients and size   *)
(* of the reference space: a report is credited to the part it is about,   *)
(* the state of a message and its history say what the network said, and   *)
(* nothing a report has settled is taken back.                             *)
(***************************************************************************)
EXTENDS SmsDelivery, TLAPS

\* The current part is one of the message's, and a row carries the reference
\* under which its part was sent.
PartsInRange == \A m \in Messages : part[m] \in 1..Parts[m]
RowsAreSent == \A p \in Pids : row[p] # NoRow => row[p].mr = ref[p] /\ pc[p[1]] # "idle"

\* A part reaches the network only after its row is there, so a report finds it.
SubmittedHasRow ==
    /\ \A p \in submitted : row[p] # NoRow
    /\ \A m \in Messages : pc[m] \in {"submit", "wait", "confirm"} => row[Current(m)] # NoRow

\* A part or a message is marked failed only after a refusal.
RefusalsAreTrue ==
    \A m \in Messages :
        /\ pc[m] = "refuse" => Current(m) \in refused
        /\ pc[m] = "mark" \/ then[m] = "mark" => \E p \in PartsOf(m) : p \in refused

\* A message has its row while it is being sent, and its history afterwards.
RowsInOrder ==
    \A m \in Messages :
        /\ pc[m] \notin {"idle", "done"} => delivery[m] # "none"
        /\ history[m] # 0 => pc[m] = "done"

\* A state of m is true of what was told of its parts and of those given up.
Told(told, p, states) == told[p] \cap states # {}
Truthful(m, state, told, givenUp) ==
    /\ state = "delivered" => \A p \in PartsOf(m) : Told(told, p, {"delivered"})
    /\ state = "delivery_unconfirmed" =>
          \A p \in PartsOf(m) : Told(told, p, {"delivered", "delivery_unconfirmed"})
    /\ state = "delivery_pending" => \E p \in PartsOf(m) : Told(told, p, StatusStates)
    /\ state = "acked" => \A p \in PartsOf(m) : Told(told, p, Taken)
    /\ state = "partial_ack" => \E p \in PartsOf(m) : Told(told, p, Taken)
    /\ state = "failed" => \E p \in PartsOf(m) : p \in givenUp \/ Told(told, p, Failures)

\* The state a recompute has read or will write is as true as the row, and what it
\* has counted so far was said of the parts it has counted.
StatesOf == [acked |-> Taken, delivered |-> {"delivered"}, pending |-> {"delivery_pending"}]
TruthfulTally(m, t, told) ==
    \A c \in Counts : \A p \in t[c] : p \in PartsOf(m) /\ Told(told, p, StatesOf[c])
RecomputeIsTrue ==
    \A m \in Messages : Truthful(m, was[m], said, refused) /\ TruthfulTally(m, tally[m], said)

PartInv == /\ TypeOK /\ PartsInRange /\ RowsAreSent /\ SubmittedHasRow /\ RefusalsAreTrue
           /\ RowsInOrder /\ PartTellsTruth
IInv == PartInv /\ MessageTellsTruth /\ RecomputeIsTrue

-----------------------------------------------------------------------------
(* Lemmas on the identifiers and the rows *)

LEMMA PidFacts ==
  ASSUME ConstantsAssumption, NEW p \in Pids
  PROVE  p[1] \in Messages /\ p[2] \in 1..Parts[p[1]] /\ p[2] \in Nat /\ p = <<p[1], p[2]>>
BY DEF Pids, ConstantsAssumption

LEMMA CurrentIsPid ==
  ASSUME ConstantsAssumption, PartsInRange, NEW m \in Messages
  PROVE  Current(m) \in Pids /\ Current(m)[1] = m /\ Current(m) \in PartsOf(m)
BY DEF Pids, PartsInRange, Current, PartsOf

LEMMA ReferenceInRange ==
  ASSUME ConstantsAssumption, counter \in 0..(References - 1), NEW i \in Nat
  PROVE  nextRPMR(i) \in 0..(References - 1)
BY DEF nextRPMR, ConstantsAssumption

LEMMA RowFacts ==
  /\ NoRow \in Rows /\ NoRow.state = "none" /\ ~NoRow.called
  /\ \A r \in Rows : r # NoRow =>
        /\ r.state \in PartStates /\ r.mr \in 0..(References - 1) /\ r.called \in BOOLEAN
        /\ \A s \in PartStates : [r EXCEPT !.state = s] \in Rows /\ [r EXCEPT !.state = s] # NoRow
BY DEF Rows, NoRow, PartStates, RPStates, StatusStates, FinalStates

\* What the upsert of a part does to the rows.
LEMMA UpsertRow ==
  ASSUME ConstantsAssumption, TypeOK, PartsInRange, NEW m \in Messages, NEW called \in BOOLEAN,
         NEW state \in {"pending", "failed"}, Upsert(m, called, state)
  PROVE  /\ row' \in [Pids -> Rows]
         /\ \A p \in Pids : p # Current(m) => row'[p] = row[p]
         /\ row'[Current(m)] # NoRow
         /\ row'[Current(m)].mr = ref[Current(m)]
         /\ \/ row'[Current(m)].state = row[Current(m)].state
            \/ /\ row'[Current(m)].state = state
               /\ row[Current(m)].state \notin StatusStates \cup {"acked"}
<1> DEFINE p == Current(m)
<1> DEFINE new == IF row[p] = NoRow THEN state ELSE Kept(row[p].state, state)
<1>1. p \in Pids /\ row[p] \in Rows /\ ref[p] \in 0..(References - 1)
  BY CurrentIsPid DEF TypeOK
<1>2. row' = [row EXCEPT ![p] = [state |-> new, mr |-> ref[p], called |-> called]]
  BY <1>1 DEF Upsert, TypeOK
<1>3. /\ new \in PartStates
      /\ new = row[p].state \/ (new = state /\ row[p].state \notin StatusStates \cup {"acked"})
  <2>1. CASE row[p] = NoRow
    BY <2>1, RowFacts DEF PartStates, RPStates, StatusStates, FinalStates
  <2>2. CASE row[p] # NoRow
    <3>1. row[p].state \in PartStates
      BY <2>2, <1>1, RowFacts
    <3> QED
      BY <3>1, <2>2 DEF Kept, PartStates, RPStates, StatusStates, FinalStates
  <2> QED
    BY <2>1, <2>2
<1> HIDE DEF new
<1>4. [state |-> new, mr |-> ref[p], called |-> called] \in Rows
  BY <1>1, <1>3 DEF Rows
<1>5. row'[p] = [state |-> new, mr |-> ref[p], called |-> called]
  BY <1>1, <1>2 DEF TypeOK
<1>6. row'[p] # NoRow
  BY <1>5, <1>3 DEF NoRow, PartStates, RPStates, StatusStates, FinalStates
<1>7. row' \in [Pids -> Rows] /\ \A q \in Pids : q # p => row'[q] = row[q]
  BY <1>1, <1>2, <1>4 DEF TypeOK
<1> QED
  BY <1>3, <1>5, <1>6, <1>7

\* The new row says of its part what its state and the network say.
LEMMA UpsertTellsTruth ==
  ASSUME ConstantsAssumption, TypeOK, PartsInRange, PartTellsTruth, NEW m \in Messages,
         NEW called \in BOOLEAN, NEW state \in {"pending", "failed"}, Upsert(m, called, state),
         state = "failed" => Current(m) \in refused', said' = said, refused \subseteq refused'
  PROVE  PartTellsTruth'
<1> SUFFICES ASSUME NEW p \in Pids
             PROVE  /\ row'[p].state \in StatusStates \cup {"acked"} => row'[p].state \in said[p]
                    /\ row'[p].state = "failed" => "failed" \in said[p] \/ p \in refused'
  BY DEF PartTellsTruth
<1>1. CASE p # Current(m)
  BY <1>1, UpsertRow DEF PartTellsTruth
<1>2. CASE p = Current(m)
  BY <1>2, UpsertRow DEF PartTellsTruth, StatusStates, FinalStates
<1> QED
  BY <1>1, <1>2

-----------------------------------------------------------------------------
(* Lemmas on the states *)

LEMMA StatusIsCode ==
  ASSUME NEW state \in States PROVE voWiFiSMSHistoryStatus(state) \in {2, 3, 4, 5}
BY DEF States, voWiFiSMSHistoryStatus

LEMMA DecidedIsState ==
  ASSUME NEW m, NEW A, NEW D, NEW P, NEW U PROVE Decided(m, A, D, P, U) \in States
BY DEF Decided, States

LEMMA CountedIsState == ASSUME NEW m, NEW rows PROVE Counted(m, rows) \in States
BY DecidedIsState DEF Counted, States

\* The truth of a state of a message is that of its row.
LEMMA MessageIsTrue ==
  MessageTellsTruth <=>
      \A m \in Messages : /\ Truthful(m, delivery[m], said, refused)
                          /\ history[m] # 0 => history[m] = voWiFiSMSHistoryStatus(delivery[m])
BY DEF MessageTellsTruth, Truthful, Heard, Told

LEMMA MessageIsTrueNext ==
  MessageTellsTruth' <=>
      \A m \in Messages : /\ Truthful(m, delivery'[m], said', refused')
                          /\ history'[m] # 0 => history'[m] = voWiFiSMSHistoryStatus(delivery'[m])
BY DEF MessageTellsTruth, Truthful, Heard, Told, PartsOf

LEMMA RecomputeIsTrueNext ==
  RecomputeIsTrue' <=>
      \A m \in Messages : Truthful(m, was'[m], said', refused') /\ TruthfulTally(m, tally'[m], said')
BY DEF RecomputeIsTrue, Truthful, TruthfulTally, Told, PartsOf

\* What is decided from parts of which enough was told is true of the message.
LEMMA DecidedIsTrue ==
  ASSUME NEW m \in Messages, NEW told, NEW givenUp,
         NEW A, \A p \in A : p \in PartsOf(m) /\ Told(told, p, Taken),
         NEW D, \A p \in D : p \in PartsOf(m) /\ Told(told, p, {"delivered"}),
         NEW P, \A p \in P : p \in PartsOf(m) /\ Told(told, p, {"delivery_pending"}),
         NEW U, \A p \in U : p \in PartsOf(m) /\ Told(told, p, {"delivery_unconfirmed"})
  PROVE  Truthful(m, Decided(m, A, D, P, U), told, givenUp)
<1> DEFINE state == Decided(m, A, D, P, U)
<1>1. /\ state = "delivered" => D = PartsOf(m)
      /\ state = "delivery_unconfirmed" => D \cup U = PartsOf(m)
      /\ state = "delivery_pending" => D \cup P \cup U # {}
      /\ state = "acked" => A = PartsOf(m)
      /\ state = "partial_ack" => A # {}
      /\ state # "failed"
  BY DEF Decided
<1> HIDE DEF state
<1>2. state = "delivered" => \A p \in PartsOf(m) : Told(told, p, {"delivered"})
  BY <1>1
<1>3. state = "delivery_unconfirmed" =>
         \A p \in PartsOf(m) : Told(told, p, {"delivered", "delivery_unconfirmed"})
  BY <1>1 DEF Told
<1>4. state = "delivery_pending" => \E p \in PartsOf(m) : Told(told, p, StatusStates)
  <2> SUFFICES ASSUME D \cup P \cup U # {}
               PROVE  \E p \in PartsOf(m) : Told(told, p, StatusStates)
    BY <1>1
  <2>1. PICK p : p \in D \cup P \cup U
    OBVIOUS
  <2>2. p \in PartsOf(m) /\ Told(told, p, StatusStates)
    BY <2>1 DEF Told, StatusStates, FinalStates
  <2> QED
    BY <2>2
<1>5. state = "acked" => \A p \in PartsOf(m) : Told(told, p, Taken)
  BY <1>1
<1>6. state = "partial_ack" => \E p \in PartsOf(m) : Told(told, p, Taken)
  BY <1>1
<1> QED
  BY <1>1, <1>2, <1>3, <1>4, <1>5, <1>6 DEF Truthful, state

\* What the rows of some parts say, if they tell the truth, was told.
LEMMA PartsInTold ==
  ASSUME NEW m \in Messages, NEW rows, NEW told, NEW states \in SUBSET Taken,
         \A p \in Pids : rows[p].state \in StatusStates \cup {"acked"} => rows[p].state \in told[p],
         NEW p \in PartsIn(m, rows, states)
  PROVE  p \in PartsOf(m) /\ Told(told, p, states)
BY DEF PartsIn, PartsOf, Told, Taken

\* What a count over rows that tell the truth says of the message is true.
LEMMA CountedIsTrue ==
  ASSUME NEW m \in Messages, NEW rows, NEW told, NEW givenUp,
         \A p \in Pids :
            /\ rows[p].state \in StatusStates \cup {"acked"} => rows[p].state \in told[p]
            /\ rows[p].state = "failed" => "failed" \in told[p] \/ p \in givenUp
  PROVE  Truthful(m, Counted(m, rows), told, givenUp)
<1>1. CASE PartsIn(m, rows, Failures) # {}
  <2>1. PICK p \in PartsOf(m) : rows[p].state \in Failures
    BY <1>1 DEF PartsIn
  <2>2. p \in givenUp \/ Told(told, p, Failures)
    BY <2>1 DEF StatusStates, FinalStates, PartsOf, Told, Failures
  <2>3. Counted(m, rows) = "failed"
    BY <1>1 DEF Counted
  <2> QED
    BY <2>2, <2>3 DEF Truthful
<1>2. CASE PartsIn(m, rows, Failures) = {}
  <2> DEFINE A == PartsIn(m, rows, Taken)
  <2> DEFINE D == PartsIn(m, rows, {"delivered"})
  <2> DEFINE P == PartsIn(m, rows, {"delivery_pending"})
  <2> DEFINE U == PartsIn(m, rows, {"delivery_unconfirmed"})
  <2>1. Counted(m, rows) = Decided(m, A, D, P, U)
    BY <1>2 DEF Counted
  <2>2. Taken \in SUBSET Taken /\ {"delivered"} \in SUBSET Taken /\ {"delivery_pending"} \in SUBSET Taken
        /\ {"delivery_unconfirmed"} \in SUBSET Taken
    BY DEF Taken, StatusStates, FinalStates
  <2>3. /\ \A p \in A : p \in PartsOf(m) /\ Told(told, p, Taken)
        /\ \A p \in D : p \in PartsOf(m) /\ Told(told, p, {"delivered"})
        /\ \A p \in P : p \in PartsOf(m) /\ Told(told, p, {"delivery_pending"})
        /\ \A p \in U : p \in PartsOf(m) /\ Told(told, p, {"delivery_unconfirmed"})
    BY <2>2, PartsInTold
  <2> HIDE DEF A, D, P, U
  <2> QED
    BY <2>1, <2>3, DecidedIsTrue
<1> QED
  BY <1>1, <1>2

LEMMA RecomputedIsTrue ==
  ASSUME NEW m, NEW before, NEW counted, NEW told, NEW givenUp,
         Truthful(m, before, told, givenUp), Truthful(m, counted, told, givenUp)
  PROVE  Truthful(m, Recomputed(before, counted), told, givenUp)
<1>1. Recomputed(before, counted) \in {before, counted}
  BY DEF Recomputed
<1> QED
  BY <1>1

LEMMA RecomputedIsState ==
  ASSUME NEW before, NEW counted \in States PROVE Recomputed(before, counted) \in States
BY DEF Recomputed, States

\* The network takes nothing back of what it said, nor a sender of a refusal.
LEMMA TruthLasts ==
  ASSUME NEW m \in Messages, NEW state, Truthful(m, state, said, refused), refused \subseteq refused',
         \A p \in Pids : said[p] \subseteq said'[p]
  PROVE  Truthful(m, state, said', refused')
<1>1. ASSUME NEW p \in PartsOf(m), NEW states, Told(said, p, states) PROVE Told(said', p, states)
  BY <1>1 DEF Told, PartsOf
<1> QED
  BY <1>1 DEF Truthful

LEMMA TallyLasts ==
  ASSUME NEW m \in Messages, NEW t, TruthfulTally(m, t, said), \A p \in Pids : said[p] \subseteq said'[p]
  PROVE  TruthfulTally(m, t, said')
BY DEF TruthfulTally, Told, PartsOf

LEMMA NothingIsTrue == ASSUME NEW m, NEW told PROVE TruthfulTally(m, Nothing, told)
BY DEF TruthfulTally, Nothing

\* A recompute counts rows that tell the truth.
LEMMA CountIsTrue ==
  ASSUME PartTellsTruth, NEW m \in Messages, NEW t, TruthfulTally(m, t, said), NEW count \in Counts,
         DOMAIN t = Counts
  PROVE  TruthfulTally(m, [t EXCEPT ![count] = PartsIn(m, row, StatesOf[count])], said)
<1>1. StatesOf[count] \in SUBSET Taken
  BY DEF StatesOf, Counts, Taken, StatusStates, FinalStates
<1>2. \A p \in PartsIn(m, row, StatesOf[count]) : p \in PartsOf(m) /\ Told(said, p, StatesOf[count])
  BY <1>1, PartsInTold DEF PartTellsTruth
<1> QED
  BY <1>2 DEF TruthfulTally

\* A step that leaves rows and reports alone.
LEMMA SameRowsTellTruth ==
  ASSUME PartTellsTruth, row' = row, said' = said, refused \subseteq refused'
  PROVE  PartTellsTruth'
BY DEF PartTellsTruth

-----------------------------------------------------------------------------
(* Reports *)

\* A report on p changes the row of p or nothing.
OfPart(p, from, state) ==
    \/ /\ row' = [row EXCEPT ![p].state = IF @ \in from THEN state ELSE @]
       /\ row[p] # NoRow
       /\ Settle(p[1])
    \/ UNCHANGED store

LEMMA RPReportHitsItsPart ==
  ASSUME RowsAreSent, SubmittedHasRow, NEW p \in Pids, NEW state, NEW inReplyTo,
         MarkSMSDeliveryPartReport(p, state, inReplyTo)
  PROVE  OfPart(p, {"pending"}, state)
<1>1. p \in RPCandidates(p, inReplyTo) /\ row[p] # NoRow
  BY DEF MarkSMSDeliveryPartReport, RPCandidates, RowsAreSent, SubmittedHasRow
<1>2. Report(RPCandidates(p, inReplyTo), {"pending"}, state)
  BY DEF MarkSMSDeliveryPartReport
<1> QED
  BY <1>1, <1>2 DEF Report, OfPart

LEMMA StatusReportHitsItsPart ==
  ASSUME RowsAreSent, SubmittedHasRow, NEW p \in Pids, NEW state,
         MarkSMSDeliveryPartStatusReport(p, state)
  PROVE  OfPart(p, PartStates \ FinalStates, state)
<1>1. p \in StatusCandidates(p) /\ row[p] # NoRow
  BY DEF MarkSMSDeliveryPartStatusReport, StatusCandidates, RowsAreSent, SubmittedHasRow
<1>2. Report(StatusCandidates(p), PartStates \ FinalStates, state)
  BY DEF MarkSMSDeliveryPartStatusReport
<1> QED
  BY <1>1, <1>2 DEF Report, OfPart

\* A report on one part keeps the invariant.
LEMMA ReportKeeps ==
  ASSUME ConstantsAssumption, IInv, NEW p \in Pids, NEW from, NEW state \in PartStates,
         state # "pending", OfPart(p, from, state), Says(p, state),
         UNCHANGED <<counter, local, age, submitted, refused>>
  PROVE  IInv'
<1> USE DEF IInv, PartInv
<1> DEFINE m == p[1]
<1> DEFINE s == IF row[p].state \in from THEN state ELSE row[p].state
<1>1. /\ p[1] \in Messages /\ p \in PartsOf(m)
      /\ said' \in [Pids -> SUBSET PartStates] /\ state \in said'[p]
      /\ \A q \in Pids : said[q] \subseteq said'[q]
  BY PidFacts DEF Says, TypeOK, PartsOf
<1>2. CASE UNCHANGED store
  <2>1. /\ TypeOK' /\ PartsInRange' /\ RowsAreSent' /\ SubmittedHasRow' /\ RefusalsAreTrue'
        /\ RowsInOrder'
    BY <1>1, <1>2 DEF TypeOK, PartsInRange, RowsAreSent, SubmittedHasRow, RefusalsAreTrue,
       RowsInOrder, local, store, Current, PartsOf
  <2>2. PartTellsTruth'
    BY <1>1, <1>2 DEF PartTellsTruth, store
  <2>3. MessageTellsTruth'
    <3>1. \A n \in Messages : Truthful(n, delivery[n], said', refused')
      BY <1>1, TruthLasts, MessageIsTrue
    <3> QED
      BY <1>2, <3>1, MessageIsTrue, MessageIsTrueNext DEF store
  <2>4. RecomputeIsTrue'
    BY <1>1, TruthLasts, TallyLasts, RecomputeIsTrueNext DEF RecomputeIsTrue, local
  <2> QED
    BY <2>1, <2>2, <2>3, <2>4
<1>3. CASE /\ row' = [row EXCEPT ![p].state = IF @ \in from THEN state ELSE @]
           /\ row[p] # NoRow
           /\ Settle(p[1])
  <2>1. /\ row[p] \in Rows /\ row[p].state \in PartStates /\ s \in PartStates
        /\ [row[p] EXCEPT !.state = s] \in Rows /\ [row[p] EXCEPT !.state = s] # NoRow
        /\ [row[p] EXCEPT !.state = s].mr = row[p].mr
    <3>1. row[p] \in [state : PartStates, mr : 0..(References - 1), called : BOOLEAN]
      BY <1>3 DEF TypeOK, Rows
    <3>2. s \in PartStates
      BY <3>1
    <3> QED
      BY <3>1, <3>2 DEF Rows, NoRow, PartStates, RPStates, StatusStates, FinalStates
  <2>2. /\ row' = [row EXCEPT ![p] = [row[p] EXCEPT !.state = s]]
        /\ row' \in [Pids -> Rows] /\ row'[p].state = s /\ row'[p] # NoRow
        /\ row'[p].mr = row[p].mr /\ \A q \in Pids : q # p => row'[q] = row[q]
    BY <1>3, <2>1 DEF TypeOK
  <2>3. PartTellsTruth'
    <3> SUFFICES ASSUME NEW q \in Pids
                 PROVE  /\ row'[q].state \in StatusStates \cup {"acked"} => row'[q].state \in said'[q]
                        /\ row'[q].state = "failed" => "failed" \in said'[q] \/ q \in refused
      BY DEF PartTellsTruth
    <3> QED
      BY <1>1, <2>2 DEF PartTellsTruth
  <2> DEFINE new == Recomputed(delivery[m], Counted(m, row'))
  <2>4. new \in States
    BY CountedIsState, RecomputedIsState
  <2>5. /\ delivery' = [delivery EXCEPT ![m] = new]
        /\ history' = [history EXCEPT ![m] = IF @ = 0 THEN 0 ELSE voWiFiSMSHistoryStatus(new)]
    BY <1>3 DEF Settle
  <2>6. Truthful(m, new, said', refused')
    <3>1. Truthful(m, Counted(m, row'), said', refused')
      BY <1>1, <2>3, CountedIsTrue DEF PartTellsTruth
    <3>2. Truthful(m, delivery[m], said', refused')
      BY <1>1, TruthLasts, MessageIsTrue
    <3> QED
      BY <3>1, <3>2, RecomputedIsTrue
  <2> HIDE DEF new
  <2>7. TypeOK'
    BY <1>1, <2>2, <2>4, <2>5, StatusIsCode DEF TypeOK, local
  <2>8. PartsInRange' /\ RowsAreSent'
    <3>1. PartsInRange'
      BY DEF PartsInRange, local
    <3>2. \A q \in Pids : row'[q] # NoRow => row[q] # NoRow /\ row'[q].mr = row[q].mr
      BY <1>3, <2>2
    <3>3. RowsAreSent'
      BY <3>2 DEF RowsAreSent, local
    <3> QED
      BY <3>1, <3>3
  <2>9. SubmittedHasRow'
    <3>1. \A q \in Pids : row[q] # NoRow => row'[q] # NoRow
      BY <2>2
    <3> QED
      BY <3>1, CurrentIsPid DEF TypeOK, SubmittedHasRow, Current, local
  <2>10. RefusalsAreTrue' /\ RowsInOrder'
    <3>1. RefusalsAreTrue'
      BY DEF RefusalsAreTrue, Current, PartsOf, local
    <3>2. ASSUME NEW n \in Messages
          PROVE  /\ pc'[n] \notin {"idle", "done"} => delivery'[n] # "none"
                 /\ history'[n] # 0 => pc'[n] = "done"
      <4>1. pc'[n] = pc[n] /\ (history[n] = 0 => history'[n] = 0)
        BY <1>1, <2>5 DEF TypeOK, local
      <4>2. delivery[n] # "none" => delivery'[n] # "none"
        BY <2>4, <2>5 DEF TypeOK, States
      <4> QED
        BY <4>1, <4>2 DEF RowsInOrder
    <3> QED
      BY <3>1, <3>2 DEF RowsInOrder
  <2>11. MessageTellsTruth'
    <3>1. ASSUME NEW n \in Messages
          PROVE  /\ Truthful(n, delivery'[n], said', refused')
                 /\ history'[n] # 0 => history'[n] = voWiFiSMSHistoryStatus(delivery'[n])
      <4>1. CASE n = m
        <5>1. delivery'[n] = new /\ history'[n] \in {0, voWiFiSMSHistoryStatus(new)}
          BY <1>1, <2>5, <4>1 DEF TypeOK
        <5> QED
          BY <5>1, <2>6, <4>1
      <4>2. CASE n # m
        <5>1. delivery'[n] = delivery[n] /\ history'[n] = history[n]
          BY <1>1, <2>5, <4>2 DEF TypeOK
        <5> QED
          BY <5>1, <1>1, TruthLasts, MessageIsTrue
      <4> QED
        BY <4>1, <4>2
    <3> QED
      BY <3>1, MessageIsTrueNext
  <2>12. RecomputeIsTrue'
    BY <1>1, TruthLasts, TallyLasts, RecomputeIsTrueNext DEF RecomputeIsTrue, local
  <2> QED
    BY <2>3, <2>7, <2>8, <2>9, <2>10, <2>11, <2>12
<1> QED
  BY <1>2, <1>3 DEF OfPart

-----------------------------------------------------------------------------
(* The steps of SendSMS *)

Recomputing == {"read", "acked", "failed", "delivered", "pending", "unconfirmed", "write"}

\* The statements of a recompute up to its write: they read the store, and change
\* what the recompute knows.
Recompute(m) ==
    \/ ReadDelivery(m) \/ CountAcked(m) \/ FindFailed(m) \/ CountDelivered(m)
    \/ CountPending(m) \/ CountUnconfirmed(m)

LEMMA RecomputeFrame ==
  ASSUME TypeOK, NEW m \in Messages, Recompute(m)
  PROVE  /\ sending' = sending /\ store' = store /\ pc[m] \in Recomputing
         /\ \E place \in Recomputing \cup {"mark", "record"} : pc' = [pc EXCEPT ![m] = place]
         /\ \A n \in Messages : n # m => was'[n] = was[n] /\ tally'[n] = tally[n]
<1> USE DEF TypeOK, Goto, GiveUp, Recomputing
<1>1. CASE ReadDelivery(m)
  BY <1>1 DEF ReadDelivery
<1>2. CASE CountAcked(m) \/ CountDelivered(m) \/ CountPending(m)
  BY <1>2 DEF CountAcked, CountDelivered, CountPending, Count
<1>3. CASE FindFailed(m)
  BY <1>3 DEF FindFailed, Decide
<1>4. CASE CountUnconfirmed(m)
  BY <1>4 DEF CountUnconfirmed, Decide
<1> QED
  BY <1>1, <1>2, <1>3, <1>4 DEF Recompute

\* What no step of a SendSMS touches, and what it only adds to.
LEMMA SendStepFrame ==
  ASSUME TypeOK, NEW m \in Messages, SendStep(m)
  PROVE  /\ said' = said /\ age' = age /\ refused \subseteq refused' /\ submitted \subseteq submitted'
         /\ pc[m] \notin {"done"} /\ pc'[m] # "idle"
         /\ \A n \in Messages : n # m => /\ pc'[n] = pc[n] /\ part'[n] = part[n]
                                         /\ then'[n] = then[n] /\ was'[n] = was[n]
                                         /\ tally'[n] = tally[n]
                                         /\ delivery'[n] = delivery[n] /\ history'[n] = history[n]
<1> USE DEF TypeOK, Goto
<1>1. CASE Send(m)
  BY <1>1 DEF Send, net
<1>2. CASE NotBuilt(m)
  BY <1>2 DEF NotBuilt, store, net
<1>3. CASE Prepare(m)
  BY <1>3 DEF Prepare, net
<1>4. CASE Submit(m)
  BY <1>4 DEF Submit, store
<1>5. CASE Answered(m)
  BY <1>5 DEF Answered, store, net
<1>6. CASE Confirm(m)
  BY <1>6 DEF Confirm, net
<1>7. CASE Refuse(m)
  BY <1>7 DEF Refuse, net
<1>8. CASE Recompute(m)
  <2>1. sending' = sending /\ store' = store /\ pc[m] \in Recomputing
    BY <1>8, RecomputeFrame
  <2>2. PICK place \in Places \ {"idle"} : pc' = [pc EXCEPT ![m] = place]
    BY <1>8, RecomputeFrame DEF Places, Recomputing
  <2>3. \A n \in Messages : n # m => was'[n] = was[n] /\ tally'[n] = tally[n]
    BY <1>8, RecomputeFrame
  <2> QED
    BY <2>1, <2>2, <2>3 DEF sending, store, net, Recomputing
<1>9. CASE WriteDelivery(m)
  BY <1>9 DEF WriteDelivery, sending, net
<1>10. CASE MarkFailed(m)
  BY <1>10 DEF MarkFailed, net
<1>11. CASE Record(m)
  BY <1>11 DEF Record, net
<1> QED
  BY <1>1, <1>2, <1>3, <1>4, <1>5, <1>6, <1>7, <1>8, <1>9, <1>10, <1>11 DEF SendStep, Recompute

\* Only the first step of a SendSMS changes references, and only three write rows,
\* the row of the current part.
LEMMA SendStepRows ==
  ASSUME ConstantsAssumption, TypeOK, PartsInRange, RowsAreSent, RefusalsAreTrue,
         NEW m \in Messages, SendStep(m)
  PROVE  /\ \A p \in Pids : row[p] # NoRow => ref'[p] = ref[p]
         /\ \/ row' = row
            \/ \E called \in BOOLEAN, state \in {"pending", "failed"} :
                  /\ Upsert(m, called, state) /\ pc[m] \in {"prepare", "confirm", "refuse"}
                  /\ state = "failed" => Current(m) \in refused'
                  /\ ref' = ref
<1>1. CASE Send(m)
  BY <1>1 DEF Send, RowsAreSent, TypeOK
<1>2. CASE Prepare(m)
  BY <1>2 DEF Prepare, Goto
<1>3. CASE Confirm(m)
  BY <1>3 DEF Confirm
<1>4. CASE Refuse(m)
  BY <1>4 DEF Refuse, RefusalsAreTrue, TypeOK
<1>5. CASE NotBuilt(m) \/ Submit(m) \/ Answered(m)
  BY <1>5 DEF NotBuilt, Submit, Answered, store
<1>6. CASE WriteDelivery(m) \/ MarkFailed(m) \/ Record(m)
  BY <1>6 DEF WriteDelivery, sending, MarkFailed, Record
<1>7. CASE Recompute(m)
  BY <1>7, RecomputeFrame DEF sending, store
<1> QED
  BY <1>1, <1>2, <1>3, <1>4, <1>5, <1>6, <1>7 DEF SendStep, Recompute

LEMMA RecomputeType ==
  ASSUME ConstantsAssumption, TypeOK, RowsInOrder, NEW m \in Messages, Recompute(m)
  PROVE  was' \in [Messages -> States] /\ tally' \in [Messages -> [Counts -> SUBSET Pids]]
<1> USE DEF TypeOK
<1>1. "pending" \in States /\ "failed" \in States /\ Nothing \in [Counts -> SUBSET Pids]
  BY DEF States, Nothing
<1>2. CASE GiveUp(m)
  BY <1>1, <1>2 DEF GiveUp
<1>3. CASE ReadDelivery(m) /\ ~GiveUp(m)
  <2>1. delivery[m] \in States
    BY <1>3 DEF ReadDelivery, RowsInOrder
  <2> QED
    BY <1>3, <2>1 DEF ReadDelivery
<1>4. ASSUME NEW count \in Counts, NEW states, NEW next, Count(m, count, states, next), ~GiveUp(m)
      PROVE  was' \in [Messages -> States] /\ tally' \in [Messages -> [Counts -> SUBSET Pids]]
  <2>1. PartsIn(m, row, states) \in SUBSET Pids
    BY DEF PartsIn, PartsOf
  <2> HIDE DEF Counts
  <2>2. [tally[m] EXCEPT ![count] = PartsIn(m, row, states)] \in [Counts -> SUBSET Pids]
    BY <2>1
  <2>3. was' = was /\ tally' = [tally EXCEPT ![m] = [tally[m] EXCEPT ![count] = PartsIn(m, row, states)]]
    BY <1>4 DEF Count
  <2> HIDE DEF PartsIn
  <2> QED
    BY <2>2, <2>3
<1>5. CASE (CountAcked(m) \/ CountDelivered(m) \/ CountPending(m)) /\ ~GiveUp(m)
  BY <1>4, <1>5 DEF CountAcked, CountDelivered, CountPending, Counts
<1>6. ASSUME NEW counted \in States, Decide(m, counted)
      PROVE  was' \in [Messages -> States] /\ tally' \in [Messages -> [Counts -> SUBSET Pids]]
  <2>1. Recomputed(was[m], counted) \in States
    BY RecomputedIsState
  <2> QED
    BY <1>1, <1>6, <2>1 DEF Decide
<1>7. CASE FindFailed(m) /\ ~GiveUp(m)
  BY <1>1, <1>6, <1>7 DEF FindFailed
<1>8. CASE CountUnconfirmed(m) /\ ~GiveUp(m)
  BY <1>6, <1>8, DecidedIsState DEF CountUnconfirmed
<1> QED
  BY <1>2, <1>3, <1>5, <1>7, <1>8 DEF Recompute

LEMMA SendStepType ==
  ASSUME ConstantsAssumption, TypeOK, PartsInRange, RowsInOrder, NEW m \in Messages, SendStep(m)
  PROVE  TypeOK'
<1> USE DEF TypeOK, Places, Goto
<1>1. CASE Send(m)
  <2>1. counter' \in 0..(References - 1)
    BY <1>1, ReferenceInRange DEF Send, ConstantsAssumption
  <2>2. ref' \in [Pids -> 0..(References - 1)]
    BY <1>1, ReferenceInRange, PidFacts DEF Send
  <2>3. delivery' \in [Messages -> States \cup {"none"}]
    BY <1>1 DEF Send, States
  <2>4. pc' \in [Messages -> Places]
    <3>1. \E place \in Places : pc' = [pc EXCEPT ![m] = place]
      BY <1>1, Zenon DEF Send
    <3> QED
      BY <3>1
  <2> QED
    BY <1>1, <2>1, <2>2, <2>3, <2>4 DEF Send, net
<1>2. CASE NotBuilt(m)
  BY <1>2, CurrentIsPid DEF NotBuilt, store, net
<1>3. CASE Prepare(m)
  <2>1. row' \in [Pids -> Rows]
    BY <1>3, UpsertRow DEF Prepare
  <2>2. refused' \subseteq Pids
    <3>1. refused' \subseteq refused \cup {Current(m)}
      BY <1>3 DEF Prepare
    <3> QED
      BY <3>1, CurrentIsPid
  <2>3. pc' \in [Messages -> Places]
    <3>1. PICK place \in {"submit", "mark"} : pc' = [pc EXCEPT ![m] = place]
      BY <1>3 DEF Prepare
    <3> QED
      BY <3>1
  <2>4. UNCHANGED <<counter, ref, part, then, was, tally, delivery, history, age, said, submitted>>
    BY <1>3 DEF Prepare, net
  <2> QED
    BY <2>1, <2>2, <2>3, <2>4
<1>4. CASE Submit(m)
  BY <1>4, CurrentIsPid DEF Submit, store
<1>5. CASE Answered(m)
  <2>1. PICK place \in {"confirm", "refuse"} : pc' = [pc EXCEPT ![m] = place]
    BY <1>5 DEF Answered
  <2>2. refused' \subseteq refused \cup {Current(m)}
    BY <1>5 DEF Answered
  <2>3. UNCHANGED <<counter, ref, part, then, was, tally, store, age, said, submitted>>
    BY <1>5 DEF Answered, net
  <2>4. pc' \in [Messages -> Places] /\ refused' \subseteq Pids
    BY <2>1, <2>2, CurrentIsPid
  <2> QED
    BY <2>3, <2>4 DEF store
<1>6. CASE Confirm(m)
  <2>1. row' \in [Pids -> Rows]
    BY <1>6, UpsertRow DEF Confirm
  <2>2. part' \in [Messages -> Nat]
    <3>1. part' = part \/ part' = [part EXCEPT ![m] = part[m] + 1]
      BY <1>6 DEF Confirm
    <3>2. part[m] + 1 \in Nat
      OBVIOUS
    <3> QED
      BY <3>1, <3>2
  <2>3. pc' \in [Messages -> Places]
    <3>1. \E place \in Places : pc' = [pc EXCEPT ![m] = place]
      BY <1>6, Zenon DEF Confirm
    <3> QED
      BY <3>1
  <2> QED
    BY <1>6, <2>1, <2>2, <2>3 DEF Confirm, net
<1>7. CASE Refuse(m)
  <2>1. row' \in [Pids -> Rows]
    BY <1>7, UpsertRow DEF Refuse
  <2>2. pc' \in [Messages -> Places]
    <3>1. \E place \in Places : pc' = [pc EXCEPT ![m] = place]
      BY <1>7, Zenon DEF Refuse
    <3> QED
      BY <3>1
  <2> QED
    BY <1>7, <2>1, <2>2 DEF Refuse, net
<1>8. CASE Recompute(m)
  <2>1. was' \in [Messages -> States] /\ tally' \in [Messages -> [Counts -> SUBSET Pids]]
    BY <1>8, RecomputeType
  <2>2. sending' = sending /\ store' = store
    BY <1>8, RecomputeFrame
  <2>3. PICK place \in Places : pc' = [pc EXCEPT ![m] = place]
    BY <1>8, RecomputeFrame DEF Recomputing
  <2> HIDE DEF Places
  <2> QED
    BY <2>1, <2>2, <2>3 DEF sending, store, net
<1>9. CASE WriteDelivery(m)
  <2>1. then[m] \in Places /\ "pending" \in States
    BY DEF States
  <2> QED
    BY <1>9, <2>1 DEF WriteDelivery, sending, net
<1>10. CASE MarkFailed(m)
  BY <1>10 DEF MarkFailed, States, net
<1>11. CASE Record(m)
  <2>1. delivery[m] \in States
    BY <1>11 DEF Record, RowsInOrder
  <2>2. history' \in [Messages -> {0, 2, 3, 4, 5}]
    BY <1>11, <2>1, StatusIsCode DEF Record
  <2> QED
    BY <1>11, <2>2 DEF Record, net
<1> QED
  BY <1>1, <1>2, <1>3, <1>4, <1>5, <1>6, <1>7, <1>8, <1>9, <1>10, <1>11 DEF SendStep, Recompute

LEMMA SendStepParts ==
  ASSUME ConstantsAssumption, TypeOK, PartsInRange, RowsAreSent, SubmittedHasRow, RefusalsAreTrue,
         NEW m \in Messages, SendStep(m)
  PROVE  PartsInRange' /\ RowsAreSent' /\ SubmittedHasRow'
<1>1. PartsInRange'
  <2>1. CASE Confirm(m)
    <3>1. part' = part \/ (part[m] # Parts[m] /\ part' = [part EXCEPT ![m] = part[m] + 1])
      BY <2>1 DEF Confirm
    <3>2. part[m] # Parts[m] => part[m] + 1 \in 1..Parts[m]
      BY DEF PartsInRange, ConstantsAssumption
    <3> QED
      BY <3>1, <3>2 DEF PartsInRange, TypeOK
  <2>2. CASE Recompute(m)
    BY <2>2, RecomputeFrame DEF PartsInRange, sending
  <2>3. CASE Record(m)
    BY <2>3 DEF Record, PartsInRange, TypeOK, ConstantsAssumption
  <2>4. CASE ~Confirm(m) /\ ~Recompute(m) /\ ~Record(m)
    BY <2>4 DEF SendStep, Recompute, PartsInRange, Send, NotBuilt, Prepare, Submit, Answered,
       Refuse, WriteDelivery, sending, MarkFailed
  <2> QED
    BY <2>1, <2>2, <2>3, <2>4
<1>2. ASSUME NEW p \in Pids, row'[p] # NoRow
      PROVE  row'[p].mr = ref'[p] /\ pc'[p[1]] # "idle"
  <2>1. CASE row'[p] = row[p]
    <3>1. row[p].mr = ref[p] /\ pc[p[1]] # "idle" /\ ref'[p] = ref[p] /\ p[1] \in Messages
      BY <1>2, <2>1, SendStepRows, PidFacts DEF RowsAreSent
    <3> QED
      BY <2>1, <3>1, SendStepFrame
  <2>2. CASE row'[p] # row[p]
    <3>1. PICK called \in BOOLEAN, state \in {"pending", "failed"} : Upsert(m, called, state)
      BY <2>2, SendStepRows
    <3>2. p = Current(m) /\ row'[p].mr = ref[p]
      BY <2>2, <3>1, UpsertRow
    <3>3. ref' = ref
      BY <2>2, SendStepRows
    <3> QED
      BY <3>2, <3>3, SendStepFrame, CurrentIsPid
  <2> QED
    BY <2>1, <2>2
<1>3. ASSUME NEW p \in Pids, row[p] # NoRow PROVE row'[p] # NoRow
  BY <1>3, SendStepRows, UpsertRow
<1>4. \A p \in submitted' : row'[p] # NoRow
  <2>1. submitted' \subseteq submitted \cup {Current(m)}
        /\ (Current(m) \in submitted' => Current(m) \in submitted \/ pc[m] = "submit")
    BY RecomputeFrame DEF SendStep, Recompute, Send, NotBuilt, Prepare, Submit, Answered, Confirm,
       Refuse, net, sending, WriteDelivery, MarkFailed, Record
  <2> QED
    BY <2>1, <1>3, CurrentIsPid DEF SubmittedHasRow, TypeOK
<1>5. ASSUME NEW n \in Messages, pc'[n] \in {"submit", "wait", "confirm"}
      PROVE  row'[Current(n)'] # NoRow
  <2>1. CASE n # m
    <3>1. pc'[n] = pc[n] /\ Current(n)' = Current(n)
      BY <2>1, SendStepFrame DEF Current
    <3> QED
      BY <1>3, <1>5, <3>1, CurrentIsPid DEF SubmittedHasRow
  <2>2. CASE n = m
    <3>1. CASE Prepare(m)
      <4>0. pc'[m] # "mark"
        BY <1>5, <2>2
      <4>1. Upsert(m, FALSE, "pending") /\ part' = part
        BY <3>1, <4>0 DEF Prepare, Goto, TypeOK
      <4> QED
        BY <2>2, <4>1, UpsertRow DEF Current
    <3>2. CASE Submit(m) \/ Answered(m)
      <4>1. part' = part /\ pc[m] \in {"submit", "wait"}
        BY <3>2 DEF Submit, Answered
      <4> QED
        BY <1>3, <2>2, <4>1, CurrentIsPid DEF SubmittedHasRow, Current
    <3>3. CASE Send(m) \/ NotBuilt(m) \/ Confirm(m)
      BY <1>5, <2>2, <3>3 DEF Send, NotBuilt, Confirm, Goto, TypeOK
    <3>4. CASE Refuse(m) \/ WriteDelivery(m)
      BY <1>5, <2>2, <3>4 DEF Refuse, WriteDelivery, Goto, TypeOK
    <3>5. CASE MarkFailed(m) \/ Record(m)
      BY <1>5, <2>2, <3>5 DEF MarkFailed, Record, Goto, TypeOK
    <3>6. CASE Recompute(m)
      <4>1. PICK place \in Recomputing \cup {"mark", "record"} : pc' = [pc EXCEPT ![m] = place]
        BY <3>6, RecomputeFrame
      <4>2. pc'[m] = place
        BY <4>1 DEF TypeOK
      <4> QED
        BY <1>5, <2>2, <4>1, <4>2 DEF Recomputing
    <3> QED
      BY <3>1, <3>2, <3>3, <3>4, <3>5, <3>6 DEF SendStep, Recompute
  <2> QED
    BY <2>1, <2>2
<1> QED
  BY <1>1, <1>2, <1>4, <1>5 DEF RowsAreSent, SubmittedHasRow

LEMMA SendStepOrder ==
  ASSUME ConstantsAssumption, TypeOK, PartsInRange, RefusalsAreTrue, RowsInOrder,
         NEW m \in Messages, SendStep(m)
  PROVE  RefusalsAreTrue' /\ RowsInOrder'
<1> USE DEF TypeOK, Goto
<1>1. ASSUME NEW n \in Messages
      PROVE  /\ pc'[n] = "refuse" => Current(n)' \in refused'
             /\ pc'[n] = "mark" \/ then'[n] = "mark" => \E p \in PartsOf(n) : p \in refused'
             /\ pc'[n] \notin {"idle", "done"} => delivery'[n] # "none"
             /\ history'[n] # 0 => pc'[n] = "done"
  <2>1. CASE n # m
    <3>1. /\ Current(n)' = Current(n) /\ pc'[n] = pc[n] /\ then'[n] = then[n]
          /\ delivery'[n] = delivery[n] /\ history'[n] = history[n] /\ refused \subseteq refused'
      BY <2>1, SendStepFrame DEF Current
    <3> QED
      BY <3>1 DEF RefusalsAreTrue, RowsInOrder
  <2>2. CASE n = m
    <3>0. Current(m) \in PartsOf(m) /\ (part' = part => Current(m)' = Current(m))
      BY CurrentIsPid DEF Current
    <3>1. CASE Send(m)
      BY <2>2, <3>1 DEF Send, RefusalsAreTrue, RowsInOrder
    <3>2. CASE NotBuilt(m)
      BY <2>2, <3>0, <3>2 DEF NotBuilt, RowsInOrder, store
    <3>3. CASE Prepare(m)
      BY <2>2, <3>0, <3>3 DEF Prepare, RefusalsAreTrue, RowsInOrder
    <3>4. CASE Submit(m)
      BY <2>2, <3>4 DEF Submit, RefusalsAreTrue, RowsInOrder, store
    <3>5. CASE Answered(m)
      BY <2>2, <3>0, <3>5 DEF Answered, RefusalsAreTrue, RowsInOrder, store
    <3>6. CASE Confirm(m)
      BY <2>2, <3>6 DEF Confirm, RefusalsAreTrue, RowsInOrder
    <3>7. CASE Refuse(m)
      BY <2>2, <3>7 DEF Refuse, RefusalsAreTrue, RowsInOrder
    <3>8. CASE Recompute(m)
      <4>1. /\ then'[m] = then[m] /\ delivery' = delivery /\ history' = history /\ refused' = refused
            /\ pc[m] \notin {"idle", "done", "refuse", "mark"} /\ pc'[m] \notin {"idle", "done", "refuse"}
        <5>1. sending' = sending /\ store' = store /\ pc[m] \in Recomputing
          BY <3>8, RecomputeFrame
        <5>2. PICK place \in Recomputing \cup {"mark", "record"} : pc' = [pc EXCEPT ![m] = place]
          BY <3>8, RecomputeFrame
        <5>3. pc'[m] = place
          BY <5>2
        <5> QED
          BY <5>1, <5>2, <5>3 DEF sending, store, Recomputing
      <4>2. pc'[m] = "mark" => then[m] = "mark"
        BY <3>8 DEF Recompute, ReadDelivery, CountAcked, FindFailed, CountDelivered, CountPending,
           CountUnconfirmed, Count, Decide, GiveUp
      <4>3. then'[m] = "mark" => \E p \in PartsOf(m) : p \in refused'
        BY <4>1 DEF RefusalsAreTrue
      <4>4. then[m] = "mark" => \E p \in PartsOf(m) : p \in refused'
        BY <4>1 DEF RefusalsAreTrue
      <4>5. delivery'[m] # "none" /\ history'[m] = 0
        BY <4>1 DEF RowsInOrder
      <4> QED
        BY <2>2, <4>1, <4>2, <4>3, <4>4, <4>5
    <3>10. CASE WriteDelivery(m)
      <4>1. was[m] # "none"
        BY DEF States
      <4> QED
        BY <2>2, <3>10, <4>1 DEF WriteDelivery, sending, RefusalsAreTrue, RowsInOrder
    <3>11. CASE MarkFailed(m)
      BY <2>2, <3>11 DEF MarkFailed, RefusalsAreTrue, RowsInOrder
    <3>12. CASE Record(m)
      BY <2>2, <3>12 DEF Record, RefusalsAreTrue, RowsInOrder
    <3> QED
      BY <3>1, <3>2, <3>3, <3>4, <3>5, <3>6, <3>7, <3>8, <3>10, <3>11, <3>12 DEF SendStep, Recompute
  <2> QED
    BY <2>1, <2>2
<1>2. \A n \in Messages : PartsOf(n)' = PartsOf(n)
  BY DEF PartsOf
<1> QED
  BY <1>1, <1>2 DEF RefusalsAreTrue, RowsInOrder

\* What a recompute has read or counted stays true while reports come in.
LEMMA RecomputeTruth ==
  ASSUME ConstantsAssumption, IInv, NEW m \in Messages, Recompute(m), said' = said, refused \subseteq refused'
  PROVE  Truthful(m, was'[m], said', refused') /\ TruthfulTally(m, tally'[m], said')
<1> USE DEF IInv, PartInv
<1>0. /\ Truthful(m, was[m], said', refused') /\ TruthfulTally(m, tally[m], said')
      /\ Truthful(m, delivery[m], said', refused')
      /\ Truthful(m, "pending", said', refused') /\ TruthfulTally(m, Nothing, said')
  <2>1. Truthful(m, "pending", said', refused')
    BY DEF Truthful
  <2> QED
    BY <2>1, TruthLasts, NothingIsTrue, MessageIsTrue DEF RecomputeIsTrue
<1>1. /\ was \in [Messages -> States] /\ tally \in [Messages -> [Counts -> SUBSET Pids]]
      /\ tally[m] \in [Counts -> SUBSET Pids]
  BY DEF TypeOK
<1>2. CASE GiveUp(m)
  BY <1>0, <1>1, <1>2 DEF GiveUp
<1>3. CASE ReadDelivery(m) /\ ~GiveUp(m)
  BY <1>0, <1>1, <1>3 DEF ReadDelivery
<1>4. ASSUME NEW count \in Counts, NEW next, Count(m, count, StatesOf[count], next), ~GiveUp(m)
      PROVE  Truthful(m, was'[m], said', refused') /\ TruthfulTally(m, tally'[m], said')
  <2>1. TruthfulTally(m, [tally[m] EXCEPT ![count] = PartsIn(m, row, StatesOf[count])], said')
    BY <1>0, <1>1, CountIsTrue
  <2>2. tally'[m] = [tally[m] EXCEPT ![count] = PartsIn(m, row, StatesOf[count])] /\ was' = was
    BY <1>1, <1>4 DEF Count
  <2> QED
    BY <1>0, <2>1, <2>2
<1>5. CASE (CountAcked(m) \/ CountDelivered(m) \/ CountPending(m)) /\ ~GiveUp(m)
  <2>1. /\ "acked" \in Counts /\ StatesOf["acked"] = Taken
        /\ "delivered" \in Counts /\ StatesOf["delivered"] = {"delivered"}
        /\ "pending" \in Counts /\ StatesOf["pending"] = {"delivery_pending"}
    BY DEF Counts, StatesOf
  <2> QED
    BY <1>4, <1>5, <2>1 DEF CountAcked, CountDelivered, CountPending
<1>6. ASSUME NEW counted, Truthful(m, counted, said', refused'), Decide(m, counted)
      PROVE  Truthful(m, was'[m], said', refused') /\ TruthfulTally(m, tally'[m], said')
  <2>1. was'[m] = Recomputed(was[m], counted) /\ tally'[m] = Nothing
    BY <1>1, <1>6 DEF Decide
  <2> QED
    BY <1>0, <1>6, <2>1, RecomputedIsTrue
<1>7. CASE FindFailed(m) /\ ~GiveUp(m)
  <2>1. CASE PartsIn(m, row, Failures) # {} /\ Decide(m, "failed")
    <3>1. PICK p \in PartsOf(m) : row[p].state \in Failures
      BY <2>1 DEF PartsIn
    <3>2. p \in refused' \/ Told(said', p, Failures)
      BY <3>1 DEF PartTellsTruth, StatusStates, FinalStates, PartsOf, Told, Failures
    <3>3. Truthful(m, "failed", said', refused')
      BY <3>2 DEF Truthful
    <3> QED
      BY <1>6, <2>1, <3>3
  <2>2. CASE UNCHANGED <<was, tally>>
    BY <1>0, <2>2
  <2> QED
    BY <1>7, <2>1, <2>2 DEF FindFailed
<1>8. CASE CountUnconfirmed(m) /\ ~GiveUp(m)
  <2> DEFINE A == tally[m]["acked"]
  <2> DEFINE D == tally[m]["delivered"]
  <2> DEFINE P == tally[m]["pending"]
  <2> DEFINE U == PartsIn(m, row, {"delivery_unconfirmed"})
  <2>1. /\ \A p \in A : p \in PartsOf(m) /\ Told(said', p, Taken)
        /\ \A p \in D : p \in PartsOf(m) /\ Told(said', p, {"delivered"})
        /\ \A p \in P : p \in PartsOf(m) /\ Told(said', p, {"delivery_pending"})
    BY <1>0 DEF TruthfulTally, StatesOf, Counts
  <2>2. {"delivery_unconfirmed"} \in SUBSET Taken
    BY DEF Taken, StatusStates, FinalStates
  <2>3. \A p \in U : p \in PartsOf(m) /\ Told(said', p, {"delivery_unconfirmed"})
    BY <2>2, PartsInTold DEF PartTellsTruth
  <2>4. Decide(m, Decided(m, A, D, P, U))
    BY <1>8 DEF CountUnconfirmed
  <2> HIDE DEF A, D, P, U
  <2>5. Truthful(m, Decided(m, A, D, P, U), said', refused')
    BY <2>1, <2>3, DecidedIsTrue
  <2> QED
    BY <1>6, <2>4, <2>5
<1> QED
  BY <1>2, <1>3, <1>5, <1>7, <1>8 DEF Recompute

LEMMA SendStepTruth ==
  ASSUME ConstantsAssumption, IInv, NEW m \in Messages, SendStep(m)
  PROVE  PartTellsTruth' /\ MessageTellsTruth' /\ RecomputeIsTrue'
<1> USE DEF IInv, PartInv
<1>1. said' = said /\ refused \subseteq refused'
  BY SendStepFrame
<1>2. PartTellsTruth'
  <2>1. CASE row' = row
    BY <1>1, <2>1, SameRowsTellTruth
  <2>2. CASE row' # row
    <3>1. PICK called \in BOOLEAN, state \in {"pending", "failed"} :
             Upsert(m, called, state) /\ (state = "failed" => Current(m) \in refused')
      BY <2>2, SendStepRows
    <3> QED
      BY <1>1, <3>1, UpsertTellsTruth
  <2> QED
    BY <2>1, <2>2
<1>3. /\ Truthful(m, delivery'[m], said', refused') /\ Truthful(m, was'[m], said', refused')
      /\ TruthfulTally(m, tally'[m], said')
      /\ history'[m] # 0 => history'[m] = voWiFiSMSHistoryStatus(delivery'[m])
  <2>0. /\ Truthful(m, delivery[m], said', refused') /\ Truthful(m, was[m], said', refused')
        /\ TruthfulTally(m, tally[m], said')
        /\ history[m] # 0 => history[m] = voWiFiSMSHistoryStatus(delivery[m])
    BY <1>1, TruthLasts, MessageIsTrue DEF RecomputeIsTrue
  <2>1. Truthful(m, "pending", said', refused')
    BY DEF Truthful
  <2> USE DEF TypeOK, RowsInOrder
  <2>2. CASE Send(m)
    BY <2>0, <2>1, <2>2 DEF Send
  <2>3. CASE NotBuilt(m) \/ Submit(m) \/ Answered(m)
    BY <2>0, <2>3 DEF NotBuilt, Submit, Answered, store
  <2>4. CASE Prepare(m) \/ Confirm(m) \/ Refuse(m)
    BY <2>0, <2>4 DEF Prepare, Confirm, Refuse
  <2>5. CASE Recompute(m)
    <3>1. delivery' = delivery /\ history' = history
      BY <2>5, RecomputeFrame DEF store
    <3>2. Truthful(m, was'[m], said', refused') /\ TruthfulTally(m, tally'[m], said')
      BY <1>1, <2>5, RecomputeTruth
    <3> QED
      BY <2>0, <3>1, <3>2
  <2>7. CASE WriteDelivery(m)
    <3>1. /\ delivery'[m] \in {delivery[m], was[m]} /\ was'[m] = "pending" /\ history'[m] = 0
          /\ tally' = tally
      BY <2>7 DEF WriteDelivery
    <3> QED
      BY <2>0, <2>1, <3>1
  <2>8. CASE MarkFailed(m)
    <3>1. delivery'[m] \in {delivery[m], "failed"} /\ was' = was /\ tally' = tally /\ history'[m] = 0
      BY <2>8 DEF MarkFailed
    <3>2. Truthful(m, "failed", said', refused')
      BY <1>1, <2>8 DEF MarkFailed, RefusalsAreTrue, Truthful
    <3> QED
      BY <2>0, <3>1, <3>2
  <2>9. CASE Record(m)
    BY <2>0, <2>9 DEF Record
  <2> QED
    BY <2>2, <2>3, <2>4, <2>5, <2>7, <2>8, <2>9 DEF SendStep, Recompute
<1>4. ASSUME NEW n \in Messages, n # m
      PROVE  /\ Truthful(n, delivery'[n], said', refused') /\ Truthful(n, was'[n], said', refused')
             /\ TruthfulTally(n, tally'[n], said')
             /\ history'[n] # 0 => history'[n] = voWiFiSMSHistoryStatus(delivery'[n])
  <2>1. delivery'[n] = delivery[n] /\ was'[n] = was[n] /\ tally'[n] = tally[n] /\ history'[n] = history[n]
    BY <1>4, SendStepFrame
  <2> QED
    BY <1>1, <2>1, TruthLasts, MessageIsTrue DEF RecomputeIsTrue
<1>5. MessageTellsTruth' /\ RecomputeIsTrue'
  BY <1>3, <1>4, MessageIsTrueNext, RecomputeIsTrueNext
<1> QED
  BY <1>2, <1>5

-----------------------------------------------------------------------------
(* The invariant *)

LEMMA Initially == ASSUME ConstantsAssumption, Init PROVE IInv
<1>1. TypeOK
  BY RowFacts DEF ConstantsAssumption, Init, TypeOK, Places, States, Rows, Nothing
<1>2. PartsInRange /\ RowsAreSent /\ SubmittedHasRow
  BY DEF ConstantsAssumption, Init, PartsInRange, RowsAreSent, SubmittedHasRow
<1>3. RefusalsAreTrue /\ RowsInOrder
  BY DEF Init, RefusalsAreTrue, RowsInOrder
<1>4. PartTellsTruth
  BY DEF Init, PartTellsTruth, NoRow, StatusStates, FinalStates
<1>5. MessageTellsTruth /\ RecomputeIsTrue
  BY NothingIsTrue DEF Init, MessageTellsTruth, RecomputeIsTrue, Truthful
<1> QED
  BY <1>1, <1>2, <1>3, <1>4, <1>5 DEF IInv, PartInv

LEMMA AgeingKeeps ==
  ASSUME IInv, NEW m \in Messages, GrowOlder(m) PROVE IInv'
<1> USE DEF GrowOlder, IInv, PartInv, local, store, net
<1>1. TypeOK'
  BY DEF TypeOK
<1>2. PartsInRange' /\ RowsAreSent' /\ SubmittedHasRow' /\ RefusalsAreTrue' /\ RowsInOrder'
  BY DEF PartsInRange, RowsAreSent, SubmittedHasRow, RefusalsAreTrue, RowsInOrder, Current, PartsOf
<1>3. PartTellsTruth' /\ MessageTellsTruth' /\ RecomputeIsTrue'
  BY MessageIsTrue, MessageIsTrueNext, RecomputeIsTrueNext DEF PartTellsTruth, RecomputeIsTrue
<1> QED
  BY <1>1, <1>2, <1>3

LEMMA RestartKeeps == ASSUME ConstantsAssumption, IInv, Restart PROVE IInv'
<1> USE DEF Restart, IInv, PartInv, store, net
<1>1. TypeOK'
  BY DEF TypeOK, ConstantsAssumption, Places, States, Nothing
<1>2. PartsInRange'
  BY DEF PartsInRange, ConstantsAssumption
<1>3. RowsAreSent' /\ SubmittedHasRow'
  BY PidFacts DEF RowsAreSent, SubmittedHasRow
<1>4. RefusalsAreTrue' /\ RowsInOrder'
  BY DEF RefusalsAreTrue, RowsInOrder
<1>5. PartTellsTruth' /\ MessageTellsTruth'
  BY MessageIsTrue, MessageIsTrueNext DEF PartTellsTruth
<1>6. RecomputeIsTrue'
  <2>1. \A m \in Messages : Truthful(m, "pending", said, refused) /\ TruthfulTally(m, Nothing, said)
    BY NothingIsTrue DEF Truthful
  <2> QED
    BY <2>1, RecomputeIsTrueNext
<1> QED
  BY <1>1, <1>2, <1>3, <1>4, <1>5, <1>6

LEMMA StepKeeps == ASSUME ConstantsAssumption, IInv, [Next]_vars PROVE IInv'
<1>1. ASSUME NEW m \in Messages, SendStep(m) PROVE IInv'
  BY <1>1, SendStepType, SendStepParts, SendStepOrder, SendStepTruth DEF IInv, PartInv
<1>2. ASSUME NEW m \in Messages, GrowOlder(m) PROVE IInv'
  BY <1>2, AgeingKeeps
<1>3. ASSUME NEW p \in Pids, NEW state \in RPStates, NEW inReplyTo \in BOOLEAN,
             MarkSMSDeliveryPartReport(p, state, inReplyTo)
      PROVE  IInv'
  <2>1. OfPart(p, {"pending"}, state)
    BY <1>3, RPReportHitsItsPart DEF IInv, PartInv
  <2>2. Says(p, state) /\ UNCHANGED <<counter, local, age, submitted, refused>>
    BY <1>3 DEF MarkSMSDeliveryPartReport
  <2>3. state \in PartStates /\ state # "pending"
    BY DEF PartStates, RPStates
  <2> QED
    BY <2>1, <2>2, <2>3, ReportKeeps
<1>4. ASSUME NEW p \in Pids, NEW state \in StatusStates, MarkSMSDeliveryPartStatusReport(p, state)
      PROVE  IInv'
  <2>1. OfPart(p, PartStates \ FinalStates, state)
    BY <1>4, StatusReportHitsItsPart DEF IInv, PartInv
  <2>2. Says(p, state) /\ UNCHANGED <<counter, local, age, submitted, refused>>
    BY <1>4 DEF MarkSMSDeliveryPartStatusReport
  <2>3. state \in PartStates /\ state # "pending"
    BY DEF PartStates, StatusStates, FinalStates
  <2> QED
    BY <2>1, <2>2, <2>3, ReportKeeps
<1>5. CASE Restart
  BY <1>5, RestartKeeps
<1>6. CASE UNCHANGED vars
  <2> USE <1>6 DEF vars, local, store, net, IInv, PartInv
  <2>1. TypeOK' /\ PartsInRange' /\ RowsAreSent' /\ SubmittedHasRow'
    BY DEF TypeOK, PartsInRange, RowsAreSent, SubmittedHasRow, Current
  <2>2. RefusalsAreTrue' /\ RowsInOrder' /\ PartTellsTruth'
    BY DEF RefusalsAreTrue, RowsInOrder, PartTellsTruth, Current, PartsOf
  <2>3. MessageTellsTruth' /\ RecomputeIsTrue'
    BY MessageIsTrue, MessageIsTrueNext, RecomputeIsTrueNext DEF RecomputeIsTrue
  <2> QED
    BY <2>1, <2>2, <2>3
<1> QED
  BY <1>1, <1>2, <1>3, <1>4, <1>5, <1>6 DEF Next, ReportStep

LEMMA Invariant == Spec => []IInv
<1>1. Init => IInv
  BY Initially, ConstantsAssumption
<1>2. IInv /\ [Next]_vars => IInv'
  BY StepKeeps, ConstantsAssumption
<1> QED
  BY <1>1, <1>2, PTL DEF Spec

-----------------------------------------------------------------------------
(* Theorems *)

\* The variables keep their types.
THEOREM TypeCorrect == Spec => []TypeOK
<1>1. IInv => TypeOK
  BY DEF IInv, PartInv
<1> QED
  BY <1>1, Invariant, PTL

\* No report is credited to another part.
THEOREM PartTruth == Spec => []PartTellsTruth
<1>1. IInv => PartTellsTruth
  BY DEF IInv, PartInv
<1> QED
  BY <1>1, Invariant, PTL

\* A message and its history say what the network said of its parts.
THEOREM MessageTruth == Spec => []MessageTellsTruth
<1>1. IInv => MessageTellsTruth
  BY DEF IInv
<1> QED
  BY <1>1, Invariant, PTL

\* A final state of a part stays, and an acknowledged part is never pending or
\* failed again.
THEOREM NothingIsTakenBack == Spec => NothingTakenBack
<1>1. ASSUME IInv, [Next]_vars
      PROVE  [\A p \in Pids :
                /\ row[p].state \in FinalStates => row'[p].state = row[p].state
                /\ row[p].state = "acked" => row'[p].state \notin {"pending", "failed"}]_vars
  <2> USE <1>1, ConstantsAssumption DEF IInv, PartInv
  <2> SUFFICES ASSUME NEW p \in Pids
               PROVE  /\ row[p].state \in FinalStates => row'[p].state = row[p].state
                      /\ row[p].state = "acked" => row'[p].state \notin {"pending", "failed"}
    OBVIOUS
  <2>1. ASSUME NEW q \in Pids, NEW from \in {{"pending"}, PartStates \ FinalStates},
               NEW state \in RPStates \cup StatusStates, OfPart(q, from, state),
               from = {"pending"} \/ state \in StatusStates
        PROVE  /\ row[p].state \in FinalStates => row'[p].state = row[p].state
               /\ row[p].state = "acked" => row'[p].state \notin {"pending", "failed"}
    <3>1. row'[p].state \in {row[p].state, state} /\ (row[p].state \notin from => row'[p].state = row[p].state)
      <4>1. CASE UNCHANGED store
        BY <4>1 DEF store
      <4>2. CASE row' = [row EXCEPT ![q].state = IF @ \in from THEN state ELSE @] /\ row[q] # NoRow
        <5>1. row[q] \in [state : PartStates, mr : 0..(References - 1), called : BOOLEAN]
          BY <4>2 DEF TypeOK, Rows
        <5> QED
          BY <4>2, <5>1 DEF TypeOK
      <4> QED
        BY <2>1, <4>1, <4>2 DEF OfPart
    <3> QED
      BY <2>1, <3>1 DEF FinalStates, StatusStates
  <2>2. ASSUME NEW m \in Messages, SendStep(m)
        PROVE  /\ row[p].state \in FinalStates => row'[p].state = row[p].state
               /\ row[p].state = "acked" => row'[p].state \notin {"pending", "failed"}
    BY <2>2, SendStepRows, UpsertRow DEF StatusStates
  <2>3. CASE Restart \/ \E m \in Messages : GrowOlder(m)
    BY <2>3 DEF Restart, GrowOlder, store
  <2>4. CASE \E q \in Pids : ReportStep(q)
    BY <2>4, <2>1, RPReportHitsItsPart, StatusReportHitsItsPart DEF ReportStep
  <2>5. CASE UNCHANGED vars
    BY <2>5 DEF vars, store
  <2> QED
    BY <2>2, <2>3, <2>4, <2>5 DEF Next
<1> QED
  BY <1>1, Invariant, PTL DEF Spec, NothingTakenBack
=============================================================================
