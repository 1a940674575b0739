------------------------- MODULE ReplayWindowProofs -------------------------
(***************************************************************************)
(* Proofs about ReplayWindow for every number of goroutines, every largest *)
(* sequence number and every window that fits its word: the window stays   *)
(* exact, only verified numbers move it, and the specification implements  *)
(* AntiReplay, which remembers every number.                               *)
(***************************************************************************)
EXTENDS ReplayWindow, TLAPS

\* Only a verified packet, which the peer sent, reaches the window.
Verified ==
    \A t \in Threads : pc[t] # "idle" =>
        /\ packet[t].authentic => packet[t].seq \in sent
        /\ pc[t] = "accept" => packet[t].authentic

IInv == TypeOK /\ Verified /\ OnlyAuthenticated /\ WindowExact

-----------------------------------------------------------------------------
(* Lemmas on the window *)

\* Shifting an exact window by less than its size, and marking the new
\* highest number, gives an exact window.
LEMMA AdvancedExact ==
  ASSUME ConstantsAssumption, NEW n \in 1..MaxSeq,
         highest \in Seqs, bitmap \subseteq 0..(Word - 1), accepted \subseteq 1..MaxSeq,
         n > highest, \A m \in accepted : m <= highest,
         \A d \in 0..(Size - 1) : d \in bitmap <=> highest - d \in accepted
  PROVE  /\ Advanced(n - highest) \subseteq 0..(Word - 1)
         /\ \A d \in 0..(Size - 1) :
              d \in Advanced(n - highest) <=> n - d \in accepted \cup {n}
<1> DEFINE shift == n - highest
<1>0. shift \in Nat /\ shift > 0 /\ 0 \in 0..(Word - 1) /\ Size - 1 \in 0..(Word - 1) /\ Size \in Nat /\ Word \in Nat
  BY DEF ConstantsAssumption, Seqs
<1>1. CASE shift >= Size
  <2>1. Advanced(shift) = {0}
    BY <1>1 DEF Advanced
  <2>2. ASSUME NEW d \in 0..(Size - 1), d # 0
        PROVE  n - d \notin accepted \cup {n}
    BY <1>0, <1>1, <2>2 DEF Seqs
  <2> QED
    BY <1>0, <2>1, <2>2
<1>2. CASE ~(shift >= Size)
  <2>1. Advanced(shift) = {0} \cup ({d + shift : d \in bitmap} \cap (0..(Word - 1)))
    BY <1>2 DEF Advanced
  <2>2. ASSUME NEW d \in 0..(Size - 1)
        PROVE  d \in Advanced(shift) <=> n - d \in accepted \cup {n}
    <3>1. CASE d = 0
      BY <3>1, <2>1
    <3>2. CASE d > 0 /\ d < shift
      <4>1. n - d \notin accepted \cup {n}
        BY <3>2, <1>0 DEF Seqs
      <4>2. \A e \in bitmap : e + shift # d
        BY <3>2, <1>0
      <4> QED
        BY <4>1, <4>2, <3>2, <2>1
    <3>3. CASE d > 0 /\ d >= shift
      <4>1. d - shift \in 0..(Size - 1) /\ d \in 0..(Word - 1) /\ highest - (d - shift) = n - d /\ n - d # n
        BY <3>3, <1>0 DEF Seqs
      <4>2. d - shift \in bitmap <=> n - d \in accepted
        BY <4>1
      <4>3. (\E e \in bitmap : e + shift = d) <=> d - shift \in bitmap
        BY <1>0, <3>3
      <4> QED
        BY <4>1, <4>2, <4>3, <3>3, <2>1
    <3> QED
      BY <1>0, <3>1, <3>2, <3>3
  <2> QED
    BY <1>0, <2>1, <2>2
<1> QED
  BY <1>1, <1>2

-----------------------------------------------------------------------------
(* The inductive invariant *)

LEMMA TakeExact ==
  ASSUME ConstantsAssumption, TypeOK, WindowExact, NEW n \in Seqs, Take(n)
  PROVE  /\ highest' \in Seqs /\ bitmap' \subseteq 0..(Word - 1)
         /\ accepted' \subseteq 1..MaxSeq
         /\ WindowExact'
<1>0. n \in 1..MaxSeq /\ Size \in Nat /\ Word \in Nat /\ Size > 0 /\ 0 \in 0..(Word - 1)
  BY DEF Take, Reserved, ConstantsAssumption, Seqs
<1>1. accepted' = accepted \cup {n} /\ initialized' = TRUE
  BY DEF Take
<1>2. CASE ~initialized /\ highest' = n /\ bitmap' = {0}
  <2>1. accepted = {}
    BY <1>2 DEF WindowExact
  <2> QED
    BY <1>0, <1>1, <1>2, <2>1 DEF WindowExact, Seqs
<1>3. CASE initialized /\ n > highest /\ highest' = n /\ bitmap' = Advanced(n - highest)
  <2>1. /\ Advanced(n - highest) \subseteq 0..(Word - 1)
        /\ \A d \in 0..(Size - 1) : d \in Advanced(n - highest) <=> n - d \in accepted \cup {n}
    BY <1>0, <1>3, AdvancedExact DEF TypeOK, WindowExact
  <2>2. \A m \in accepted : m <= n
    BY <1>0, <1>3 DEF TypeOK, WindowExact, Seqs
  <2> QED
    BY <1>0, <1>1, <1>3, <2>1, <2>2 DEF WindowExact, TypeOK, Seqs
<1>4. CASE /\ initialized /\ n <= highest /\ ~TooOld(n)
           /\ Mask(highest - n) \cap bitmap = {}
           /\ bitmap' = bitmap \cup Mask(highest - n) /\ UNCHANGED highest
  <2>1. highest - n \in 0..(Size - 1) /\ highest - n \in 0..(Word - 1)
    BY <1>0, <1>4 DEF TypeOK, TooOld, Seqs, ConstantsAssumption
  <2>2. bitmap' = bitmap \cup {highest - n}
    BY <1>4, <2>1 DEF Mask
  <2>3. \A d \in 0..(Size - 1) : highest - d = n <=> d = highest - n
    BY <1>0 DEF TypeOK, Seqs
  <2> QED
    BY <1>0, <1>1, <1>4, <2>1, <2>2, <2>3 DEF WindowExact, TypeOK
<1> QED
  BY <1>2, <1>3, <1>4 DEF Take, TypeOK

LEMMA InvInit == ConstantsAssumption /\ Init => IInv
<1> SUFFICES ASSUME ConstantsAssumption, Init
             PROVE  IInv
  OBVIOUS
<1>1. 0 \in Seqs /\ NoPacket \in Packet
  BY DEF ConstantsAssumption, Seqs, Packet, NoPacket
<1>2. TypeOK
  BY <1>1 DEF Init, TypeOK
<1>3. Verified /\ OnlyAuthenticated
  BY DEF Init, Verified, OnlyAuthenticated
<1>4. WindowExact
  BY DEF Init, WindowExact
<1> QED
  BY <1>2, <1>3, <1>4 DEF IInv

LEMMA InvStep == ConstantsAssumption /\ IInv /\ [Next]_vars => IInv'
<1> SUFFICES ASSUME ConstantsAssumption, IInv, [Next]_vars
             PROVE  IInv'
  OBVIOUS
<1> USE DEF IInv
<1>0. NoPacket \in Packet
  BY DEF NoPacket, Packet, Seqs, ConstantsAssumption
<1>1. CASE UNCHANGED vars
  BY <1>1 DEF vars, window, TypeOK, Verified, OnlyAuthenticated, WindowExact
<1>2. ASSUME NEW n \in Seqs, PeerSends(n)
      PROVE  IInv'
  BY <1>2 DEF PeerSends, window, TypeOK, Verified, OnlyAuthenticated, WindowExact
<1>3. ASSUME NEW t \in Threads, NEW n \in Seqs, NEW a \in BOOLEAN, Receive(t, n, a)
      PROVE  IInv'
  <2>1. [seq |-> n, authentic |-> a] \in Packet
    BY DEF Packet
  <2> QED
    BY <1>3, <2>1 DEF Receive, window, TypeOK, Verified, OnlyAuthenticated, WindowExact
<1>4. ASSUME NEW t \in Threads, Decapsulate(t)
      PROVE  IInv'
  BY <1>4, <1>0 DEF Decapsulate, window, TypeOK, Verified, OnlyAuthenticated, WindowExact
<1>5. ASSUME NEW t \in Threads, Accept(t)
      PROVE  IInv'
  <2> DEFINE n == packet[t].seq
  <2>1. n \in Seqs /\ n \in sent
    BY <1>5 DEF Accept, TypeOK, Packet, Verified
  <2>2. pc' \in [Threads -> {"idle", "decapsulate", "accept"}] /\ packet' \in [Threads -> Packet] /\ Verified'
    BY <1>5, <1>0 DEF Accept, TypeOK, Verified
  <2>3. CASE Take(n)
    <3>1. /\ highest' \in Seqs /\ bitmap' \subseteq 0..(Word - 1)
          /\ accepted' \subseteq 1..MaxSeq /\ WindowExact'
      BY <2>1, <2>3, TakeExact
    <3>2. initialized' = TRUE /\ verdict' = "accepted" /\ accepted' = accepted \cup {n}
      BY <2>3 DEF Take
    <3> QED
      BY <1>5, <2>1, <2>2, <3>1, <3>2 DEF Accept, TypeOK, OnlyAuthenticated
  <2>4. CASE Drop(n)
    BY <1>5, <2>2, <2>4 DEF Accept, Drop, window, TypeOK, OnlyAuthenticated, WindowExact
  <2> QED
    BY <1>5, <2>3, <2>4 DEF Accept
<1> QED
  BY <1>1, <1>2, <1>3, <1>4, <1>5 DEF Next

THEOREM Invariant == Spec => []IInv
  BY ConstantsAssumption, InvInit, InvStep, PTL DEF Spec

\* Type correctness for every size of the window, the word and the numbers.
THEOREM TypeCorrect == Spec => []TypeOK
  BY Invariant, PTL DEF IInv

\* The bitmap is exact inside the window.
THEOREM Exact == Spec => []WindowExact
  BY Invariant, PTL DEF IInv

\* A packet that fails the integrity check never moves the window.
THEOREM Authenticated == Spec => []OnlyAuthenticated
  BY Invariant, PTL DEF IInv

-----------------------------------------------------------------------------
(* The refinement *)

LEMMA TakeAccepts ==
  ASSUME ConstantsAssumption, IInv, NEW n \in Seqs, Take(n)
  PROVE  Abstract!Accept(n)
<1>0. n \in Nat /\ n # 0 /\ Size \in Nat /\ Size > 0 /\ highest \in Nat /\ \A m \in accepted : m \in Nat
  BY DEF Take, Reserved, IInv, TypeOK, Seqs, ConstantsAssumption
<1>1. \A m \in accepted : m <= highest
  BY DEF IInv, WindowExact
<1>2. n \notin accepted /\ \A m \in accepted : ~(m - n >= Size)
  <2>1. CASE ~initialized
    BY <2>1 DEF IInv, WindowExact
  <2>2. CASE n > highest
    BY <1>0, <1>1, <2>2
  <2>3. CASE /\ initialized /\ n <= highest /\ ~TooOld(n)
             /\ Mask(highest - n) \cap bitmap = {}
    <3>1. highest - n \in 0..(Size - 1) /\ highest - n \in 0..(Word - 1) /\ highest - (highest - n) = n
      BY <1>0, <2>3 DEF TooOld, ConstantsAssumption
    <3>2. highest - n \notin bitmap
      BY <2>3, <3>1 DEF Mask
    <3>3. n \notin accepted
      BY <3>1, <3>2 DEF IInv, WindowExact
    <3> QED
      BY <1>0, <1>1, <2>3, <3>3 DEF TooOld
  <2> QED
    BY <2>1, <2>2, <2>3 DEF Take
<1> QED
  BY <1>0, <1>2 DEF Take, Abstract!Accept, Abstract!Overtaken

LEMMA DropRefuses ==
  ASSUME ConstantsAssumption, IInv, NEW n \in Seqs, Drop(n)
  PROVE  Abstract!Refuse(n)
<1>0. n \in Nat /\ Size \in Nat /\ Size > 0 /\ highest \in Nat /\ \A m \in accepted : m \in Nat
  BY DEF IInv, TypeOK, Seqs, ConstantsAssumption
<1>1. CASE (Reserved(n) \/ (initialized /\ n <= highest /\ TooOld(n))) /\ verdict' = "tooOld"
  <2>1. n = 0 \/ (highest \in accepted /\ highest - n >= Size)
    BY <1>1 DEF Reserved, TooOld, IInv, WindowExact
  <2> QED
    BY <1>1, <2>1 DEF Drop, Abstract!Refuse, Abstract!Overtaken
<1>2. CASE /\ ~Reserved(n) /\ initialized /\ n <= highest /\ ~TooOld(n)
           /\ Mask(highest - n) \cap bitmap # {} /\ verdict' = "duplicate"
  <2>1. highest - n \in 0..(Size - 1) /\ highest - (highest - n) = n
    BY <1>0, <1>2 DEF TooOld
  <2>2. highest - n \in bitmap
    BY <1>2 DEF Mask
  <2>3. n \in accepted
    BY <2>1, <2>2 DEF IInv, WindowExact
  <2>4. \A m \in accepted : ~(m - n >= Size)
    BY <1>0, <1>2 DEF TooOld, IInv, WindowExact
  <2> QED
    BY <1>2, <2>3, <2>4 DEF Drop, Reserved, Abstract!Refuse, Abstract!Overtaken
<1> QED
  BY <1>1, <1>2 DEF Drop

\* The window implements the check that remembers every number: each step of
\* it is a step of AntiReplay or leaves its variables alone.
THEOREM Implementation == Spec => Implements
<1>1. Init => Abstract!Init
  BY DEF Init, Abstract!Init
<1>2. ConstantsAssumption /\ IInv /\ [Next]_vars => [Abstract!Next]_<<sent, accepted, verdict>>
  <2> SUFFICES ASSUME ConstantsAssumption, IInv, [Next]_vars
               PROVE  [Abstract!Next]_<<sent, accepted, verdict>>
    OBVIOUS
  <2>1. CASE UNCHANGED vars
    BY <2>1 DEF vars
  <2>2. ASSUME NEW n \in Seqs, PeerSends(n)
        PROVE  Abstract!Next
    BY <2>2 DEF PeerSends, Seqs, Abstract!Next, Abstract!Send
  <2>3. ASSUME NEW t \in Threads, NEW n \in Seqs, NEW a \in BOOLEAN, Receive(t, n, a)
        PROVE  UNCHANGED <<sent, accepted, verdict>>
    BY <2>3 DEF Receive
  <2>4. ASSUME NEW t \in Threads, Decapsulate(t)
        PROVE  UNCHANGED <<sent, accepted, verdict>>
    BY <2>4 DEF Decapsulate
  <2>5. ASSUME NEW t \in Threads, Accept(t)
        PROVE  Abstract!Next
    <3>1. packet[t].seq \in Seqs /\ packet[t].seq \in sent
      BY <2>5 DEF Accept, IInv, TypeOK, Packet, Verified
    <3>2. Abstract!Accept(packet[t].seq) \/ Abstract!Refuse(packet[t].seq)
      BY <2>5, <3>1, TakeAccepts, DropRefuses DEF Accept
    <3>3. UNCHANGED sent
      BY <2>5 DEF Accept
    <3> QED
      BY <3>1, <3>2, <3>3 DEF Abstract!Next
  <2> QED
    BY <2>1, <2>2, <2>3, <2>4, <2>5 DEF Next
<1> QED
  BY <1>1, <1>2, Invariant, ConstantsAssumption, PTL DEF Spec, Implements, Abstract!Spec
=============================================================================
