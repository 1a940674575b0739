---------------------------- MODULE MCSmsDelivery ----------------------------
(* SmsDelivery with one message of two parts, or with two of one part, which a *)
(* restart between them gives the same reference; all to one peer.             *)
EXTENDS SmsDelivery, Sequences

CONSTANTS long, short, other, peer

TwoParts == [m \in Messages |-> IF m = long THEN 2 ELSE 1]
OnePeer == [m \in Messages |-> peer]

\* The messages of a behaviour, the second sent when SendSMS has returned from the
\* first, and a bound on the different reports of the network, each of which may be
\* repeated.
Mixes == {[sent |-> <<long>>, reports |-> 3], [sent |-> <<short, other>>, reports |-> 2]}

\* A message sent later is no older.  A message alone does not get old: no other one
\* takes its reference, and old means only that no report comes any more.
NoOlder(a, m, n) == (a[n] = "now" => a[m] = "now") /\ (a[m] = "old" => a[n] = "old")

\* Of two messages, the process restarts before it sends the second or after it has.

VARIABLE mix
MCInit == Init /\ mix \in Mixes
MCNext ==
    /\ Next /\ UNCHANGED mix
    /\ \A m \in Messages : pc'[m] # "idle" =>
          \E i \in DOMAIN mix.sent : m = mix.sent[i] /\ (i > 1 => pc[mix.sent[i - 1]] = "done")
    /\ Len(mix.sent) = 1 => \A m \in Messages : age'[m] # "old"
    /\ Len(mix.sent) = 2 /\ pc[mix.sent[2]] \notin {"idle", "done"} => ~Restart
    /\ \A i, j \in DOMAIN mix.sent : i < j => NoOlder(age', mix.sent[j], mix.sent[i])
    /\ Cardinality(UNION {{p} \X said'[p] : p \in Pids}) <= mix.reports
MCSpec == MCInit /\ [][MCNext]_<<vars, mix>>
=============================================================================
