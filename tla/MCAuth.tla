---- MODULE MCAuth ----
(* Instances of AuthMiddleware for TLC: values for its constants. *)
EXTENDS AuthMiddleware, TLC

CONSTANTS s1, s2, r1, r2, n1, n2, n3, i1, i2, i3, i4, i5

\* Two subjects, each with a browser of its own; s1 changes names.
TwoSubs == s1 :> {n1, n2} @@ s2 :> {n3}
OwnBrowser == r1 :> s1 @@ r2 :> s2

\* One subject, one or two browser connections.
OneSub == s1 :> {n1, n2}
OneName == s1 :> {n1}
OneBrowser == r1 :> s1
BothOfOne == r1 :> s1 @@ r2 :> s1

\* Two subjects that the identity provider gives one name.
SharedName == s1 :> {n1} @@ s2 :> {n1}

\* An Emby server with no accounts, or with one that carries n1.
NoAccounts == [i \in Ids |-> None]
N1Taken == [NoAccounts EXCEPT ![i1] = n1]

\* One fresh value stands for all.
DrawOne(S) == IF S = {} THEN {} ELSE {CHOOSE x \in S : TRUE}
====
