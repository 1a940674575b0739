---------------------------- MODULE MCRuntimeMix ----------------------------
(* RuntimeAttempt with several mixes of calls in one run.  The callers of a   *)
(* behaviour agree on the mix: three calls that all replace a runtime, three  *)
(* that start and stop one, or two of any other kind with APDU-busy starts,   *)
(* their schedules and the policy that refuses one.  A third call comes while *)
(* there is a runtime.                                                        *)
EXTENDS MCRuntimeAttempt, FiniteSets

Mixes ==
    { [kinds |-> {"restart", "recover"}, calls |-> 3, busy |-> FALSE],
      [kinds |-> {"enable", "disable", "switchBegin"}, calls |-> 3, busy |-> FALSE],
      [kinds |-> {"enable", "desired", "disable", "forget", "teardown", "switchEnd"},
       calls |-> 2, busy |-> TRUE] }

VARIABLE mix
MixInit == Init /\ mix \in Mixes

Called == {c \in Calls : loc[c].op # "none"}
Belongs(c) == loc'[c].op \in mix.kinds \cup {"none"} /\ (loc'[c].res \in {"busy", "policy"} => mix.busy)
MixNext ==
    /\ Next /\ UNCHANGED mix
    /\ \A c \in Calls : Belongs(c)
    /\ Cardinality(Called') <= mix.calls
    /\ Cardinality(Called) = 2 /\ Called' # Called => instance # None /\ ~starting

MixSpec == MixInit /\ [][MixNext]_<<vars, mix>>
=============================================================================
