--------------------------- MODULE MCApduArbiter ---------------------------
(* ApduArbiter with a few callers and the requests production code makes. *)
EXTENDS ApduArbiter, TLC

Transport(class, scope, channel) ==
    [type |-> "transport", class |-> class, scope |-> scope, channel |-> channel,
     blocked |-> {}]
Legacy(type, class) ==
    [type |-> type, class |-> class, scope |-> "exclusive", channel |-> 0, blocked |-> {}]

\* The barrier of a profile switch blocks AKA and SMSC.
Barrier == [type |-> "barrier", class |-> "SwitchBarrier", scope |-> "exclusive",
            channel |-> 0, blocked |-> {"USIMAKA", "SMSC"}]

AKA == Transport("USIMAKA", "exclusive", 0)
Write == Transport("EUICCWrite", "exclusive", 0)
QMI(channel) == Transport("EUICCWrite", "qmi", channel)

Session == Legacy("session", "EUICCWrite")
OneShot == Legacy("oneshot", "USIMAKA")

Leases == {Barrier, AKA, Write, QMI(1), QMI(2), QMI(3), Session, OneShot}

\* An AKA against downloads.
Downloads == {AKA, Write}

\* What the callers ask for: a profile switch against AKA and downloads, two
\* switches at once, QMI channels against the window and an exclusive transport
\* (one channel asked for twice), and the legacy leases.
Mixes == {<<Barrier, AKA, Write, Write>>, <<Barrier, Barrier, AKA, QMI(1)>>,
          <<QMI(1), QMI(1), QMI(2), Write>>, <<QMI(1), QMI(2), QMI(3), AKA>>,
          <<AKA, AKA, Write, Write>>, <<Session, Session, OneShot, AKA>>}

CONSTANTS c1, c2, c3, c4
Order == <<c1, c2, c3, c4>>

\* Callers are interchangeable, so it is enough to start from one assignment of
\* each mix.
MCInit == Init /\ \E m \in Mixes : \A i \in DOMAIN m : request[Order[i]] = m[i]
MCSpec == MCInit /\ [][Next]_vars /\ Fairness
=============================================================================
