------------------------------ MODULE ApduBus ------------------------------
(***************************************************************************)
(* What the APDU arbiter promises the modem, without its queue, its        *)
(* watchdogs and its wake-ups: which leases may be granted together, that  *)
(* a suspect transport fences the rest, and that a barrier starts on an    *)
(* idle modem and keeps its classes out.                                   *)
(***************************************************************************)
EXTENDS Naturals, FiniteSets

CONSTANTS
    Callers, MaxSessions, MaxQMITransports

VARIABLES
    request,   \* what each caller asks for
    granted,   \* callers whose lease or barrier is active
    suspect    \* the granted ones the watchdog has given up on

busVars == <<request, granted, suspect>>

OfType(S, type) == {c \in S : request[c].type = type}
Leases(S) == {c \in S : request[c].type # "barrier"}
QMI(S) == {c \in OfType(S, "transport") : request[c].scope = "qmi"}

\* No two operations of S exclude each other, and the windows are kept.
Compatible(S) ==
    /\ \A c, d \in Leases(S) : c # d =>
           \/ request[c].type = "session" /\ request[d].type = "session"
           \/ {c, d} \subseteq QMI(S) /\ request[c].channel # request[d].channel
    /\ Cardinality(OfType(S, "session")) <= MaxSessions
    /\ Cardinality(QMI(S)) <= MaxQMITransports
    /\ \A b \in OfType(S, "barrier"), c \in Leases(S) : request[c].class \notin request[b].blocked

Init == granted = {} /\ suspect = {}

Grant(c) ==
    /\ c \notin granted
    /\ OfType(granted, "transport") \cap suspect = {}
    /\ request[c].type = "barrier" => Leases(granted) = {}
    /\ Compatible(granted \cup {c})
    /\ granted' = granted \cup {c}
    /\ UNCHANGED suspect

Suspect(c) ==
    /\ c \in granted
    /\ suspect' = suspect \cup {c}
    /\ UNCHANGED granted

End(c) ==
    /\ granted' = granted \ {c}
    /\ suspect' = suspect \ {c}

Next == \E c \in Callers : (Grant(c) \/ Suspect(c) \/ End(c)) /\ UNCHANGED request

Spec == Init /\ [][Next]_busVars
=============================================================================
