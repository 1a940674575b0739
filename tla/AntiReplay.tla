----------------------------- MODULE AntiReplay -----------------------------
(***************************************************************************)
(* What an anti-replay check promises, without a window: of the numbers    *)
(* the peer really sent, each is accepted exactly once, unless it is zero, *)
(* or Size or more behind one that was accepted before it.                 *)
(***************************************************************************)
EXTENDS Integers

CONSTANTS MaxSeq, Size

VARIABLES sent, accepted, verdict

Init == sent = {} /\ accepted = {} /\ verdict = "none"

Send(n) ==
    /\ sent' = sent \cup {n}
    /\ UNCHANGED <<accepted, verdict>>

Overtaken(n) == n = 0 \/ \E m \in accepted : m - n >= Size

Accept(n) ==
    /\ ~Overtaken(n) /\ n \notin accepted
    /\ accepted' = accepted \cup {n}
    /\ verdict' = "accepted"

Refuse(n) ==
    /\ \/ Overtaken(n) /\ verdict' = "tooOld"
       \/ ~Overtaken(n) /\ n \in accepted /\ verdict' = "duplicate"
    /\ UNCHANGED accepted

Next ==
    \/ \E n \in 0..MaxSeq : Send(n)
    \/ \E n \in sent : (Accept(n) \/ Refuse(n)) /\ UNCHANGED sent

Spec == Init /\ [][Next]_<<sent, accepted, verdict>>
=============================================================================
