---- MODULE MCClaims ----
(* Instances of ClaimResolution for TLC. *)
EXTENDS ClaimResolution

CONSTANTS v1, v2

Prefix == <<0, 1>>

\* Tokens whose claims disagree with each other and with headers, in which
\* one claim is missing or is not a string; and unreadable ones.
SomeTokens ==
    {Garbled, [sub |-> v1, preferred_username |-> v2, picture |-> NotAString]} \cup
    {[sub |-> s, preferred_username |-> n, picture |-> None] :
        s \in {None, NotAString, v1}, n \in {None, NotAString, v2}}

\* Each header in or out, in every combination, and at most two tokens.
SomeRequests ==
    {q \in [fwdSub : {v1, None}, reqSub : {v2, None}, fwdName : {v1, v2, None},
            reqName : {v2, None}, bearer : SomeTokens \cup {None},
            fwdToken : SomeTokens \cup {None}, reqToken : {Garbled, None}] :
        None \in {q.bearer, q.fwdToken, q.reqToken}}

\* The peer every request comes from in the cases that are about claims.
OneAddress == <<[kind |-> "address", ip |-> [i \in 1..V6Bits |-> 0], ones |-> 0]>>

\* One entry, or one among some others.
SomeLists ==
    {list \in EntryLists :
        Len(list) = 2 => list[1] \in {NoEntry, BadEntry, OneAddress[1]}}

Named == [fwdSub |-> v1, reqSub |-> None, fwdName |-> v2, reqName |-> None,
          bearer |-> None, fwdToken |-> None, reqToken |-> None]

\* Lists with one request, and requests with one list.
SomeCases ==
    [list : SomeLists, req : {Named}, rows : {{}}]
    \cup [list : {OneAddress}, req : SomeRequests, rows : {{v2}}]
====
