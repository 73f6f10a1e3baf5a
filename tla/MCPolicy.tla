---- MODULE MCPolicy ----
(* Instances of PolicyEnforcement for TLC. *)
EXTENDS PolicyEnforcement

CONSTANTS a1

\* An account an administrator has set up and the bridge has enabled.
SetUp == {[disabled |-> FALSE, prefs |-> FALSE, rest |-> a1]}

\* No account, or one an administrator has set up in any way.
AnyBefore == {None} \cup [disabled : BOOLEAN, prefs : BOOLEAN, rest : {a1}]
====
