---------------------------- MODULE ReplayWindow ----------------------------
(***************************************************************************)
(* ipsec3gpp.ReplayWindow and the inbound half of ipsec3gpp.Transport that *)
(* feeds it: ESP packets of one inbound SA arrive lost, reordered,         *)
(* repeated or forged, and several goroutines take them through the        *)
(* integrity check and then, under the window's lock, through Accept.      *)
(*                                                                         *)
(* The bitmap is the set of the positions of its bits: position d stands   *)
(* for the number highest - d.                                             *)
(***************************************************************************)
EXTENDS Integers

CONSTANTS
    Threads,  \* goroutines that call TransformInbound
    MaxSeq,   \* the largest sequence number, 2^32 - 1 in the code
    Size,     \* ReplayWindow.size, 64 in the code
    Word      \* the width of the bitmap, 64 in the code

ASSUME ConstantsAssumption ==
    /\ MaxSeq \in Nat
    /\ Word \in Nat
    /\ Size \in 1..Word

Seqs == 0..MaxSeq
Packet == [seq : Seqs, authentic : BOOLEAN]
NoPacket == [seq |-> 0, authentic |-> FALSE]

VARIABLES
    sent,         \* the numbers the peer has sent under this SA
    pc,           \* where each goroutine is in TransformInbound
    packet,       \* the packet it has read
    initialized,  \* the fields of the window
    highest,
    bitmap,
    accepted,     \* history: the numbers Accept has returned true for
    verdict       \* the outcome of the last Accept, as its statistics count it

window == <<initialized, highest, bitmap>>
vars == <<sent, pc, packet, initialized, highest, bitmap, accepted, verdict>>

TypeOK ==
    /\ sent \subseteq Seqs
    /\ pc \in [Threads -> {"idle", "decapsulate", "accept"}]
    /\ packet \in [Threads -> Packet]
    /\ initialized \in BOOLEAN
    /\ highest \in Seqs
    /\ bitmap \subseteq 0..(Word - 1)
    /\ accepted \subseteq 1..MaxSeq
    /\ verdict \in {"none", "accepted", "duplicate", "tooOld"}

Init ==
    /\ sent = {}
    /\ pc = [t \in Threads |-> "idle"]
    /\ packet = [t \in Threads |-> NoPacket]
    /\ initialized = FALSE
    /\ highest = 0
    /\ bitmap = {}
    /\ accepted = {}
    /\ verdict = "none"

-----------------------------------------------------------------------------
(* The peer and the network *)

PeerSends(n) ==
    /\ sent' = sent \cup {n}
    /\ UNCHANGED <<pc, packet, window, accepted, verdict>>

\* Whatever was sent may arrive any number of times and in any order; a packet
\* with a wrong integrity value may carry any number.
Receive(t, n, authentic) ==
    /\ pc[t] = "idle"
    /\ authentic => n \in sent
    /\ packet' = [packet EXCEPT ![t] = [seq |-> n, authentic |-> authentic]]
    /\ pc' = [pc EXCEPT ![t] = "decapsulate"]
    /\ UNCHANGED <<sent, window, accepted, verdict>>

-----------------------------------------------------------------------------
(* Transport.TransformInbound *)

Decapsulate(t) ==
    /\ pc[t] = "decapsulate"
    /\ IF packet[t].authentic
       THEN pc' = [pc EXCEPT ![t] = "accept"] /\ UNCHANGED packet
       ELSE /\ pc' = [pc EXCEPT ![t] = "idle"]
            /\ packet' = [packet EXCEPT ![t] = NoPacket]
    /\ UNCHANGED <<sent, window, accepted, verdict>>

-----------------------------------------------------------------------------
(* ReplayWindow.Accept *)

Reserved(n) == n = 0

\* Mutation: the bit just outside of the window is looked up.
TooOldByOne(n) == highest - n > Size

TooOld(n) == highest - n >= Size

\* bitmap <<= shift loses the bits that leave the word.
Advanced(shift) ==
    IF shift >= Size THEN {0}
    ELSE {0} \cup ({d + shift : d \in bitmap} \cap (0..(Word - 1)))

\* 1 << delta, zero when delta is not a position of the word.
Mask(delta) == {delta} \cap (0..(Word - 1))

Take(n) ==
    /\ ~Reserved(n)
    /\ \/ ~initialized /\ highest' = n /\ bitmap' = {0}
       \/ initialized /\ n > highest /\ highest' = n /\ bitmap' = Advanced(n - highest)
       \/ /\ initialized /\ n <= highest /\ ~TooOld(n)
          /\ Mask(highest - n) \cap bitmap = {}
          /\ bitmap' = bitmap \cup Mask(highest - n)
          /\ UNCHANGED highest
    /\ initialized' = TRUE
    /\ accepted' = accepted \cup {n}
    /\ verdict' = "accepted"

Drop(n) ==
    /\ \/ /\ Reserved(n) \/ (initialized /\ n <= highest /\ TooOld(n))
          /\ verdict' = "tooOld"
       \/ /\ ~Reserved(n) /\ initialized /\ n <= highest /\ ~TooOld(n)
          /\ Mask(highest - n) \cap bitmap # {}
          /\ verdict' = "duplicate"
    /\ UNCHANGED <<window, accepted>>

Accept(t) ==
    /\ pc[t] = "accept"
    /\ Take(packet[t].seq) \/ Drop(packet[t].seq)
    /\ pc' = [pc EXCEPT ![t] = "idle"]
    /\ packet' = [packet EXCEPT ![t] = NoPacket]
    /\ UNCHANGED sent

-----------------------------------------------------------------------------
Next ==
    \/ \E n \in Seqs : PeerSends(n)
    \/ \E t \in Threads :
         \/ \E n \in Seqs, authentic \in BOOLEAN : Receive(t, n, authentic)
         \/ Decapsulate(t) \/ Accept(t)

Spec == Init /\ [][Next]_vars

-----------------------------------------------------------------------------
(* Properties *)

\* Inside the window the bitmap is exact: a bit is set if and only if its
\* number was accepted, after any sequence of shifts, and highest is the
\* largest number accepted.
WindowExact ==
    /\ initialized <=> accepted # {}
    /\ initialized => highest \in accepted
    /\ \A n \in accepted : n <= highest
    /\ \A d \in 0..(Size - 1) : d \in bitmap <=> highest - d \in accepted

\* Only numbers the peer sent under this SA are committed: a packet that fails
\* the integrity check never moves the window.
OnlyAuthenticated == accepted \subseteq sent

\* The window does what an unbounded memory of the accepted numbers would do:
\* no number twice, and none refused but zero, a duplicate or one overtaken.
Abstract == INSTANCE AntiReplay WITH sent <- sent, accepted <- accepted, verdict <- verdict
Implements == Abstract!Spec
=============================================================================
