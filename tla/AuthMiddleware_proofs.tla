---- MODULE AuthMiddleware_proofs ----
(***************************************************************************)
(* Theorems about AuthMiddleware, for every value of its constants: types; *)
(* accounts of different subjects stay separate; and the stored password   *)
(* stays Emby's.                                                           *)
(***************************************************************************)
EXTENDS AuthMiddleware, TLAPS

\* A request's variables are set by the time the call that uses them is made.
Provided(pc, l) ==
    /\ pc \in Steps => l.name # None
    /\ pc \in {"checkName", "rename"} => l.was # None
    /\ pc \in {"getUser", "checkName", "rename", "getPw", "resetPw", "setPw",
               "policy", "insert", "auth", "retry", "store"} => l.id # None
    /\ pc \in {"create", "getPw", "resetPw", "setPw", "policy", "insert"} => l.pw # None
    /\ pc \in {"store", "serve"} => l.sess # None

LocalsSet(q) == Provided(q.pc, q)

RequestOK(q) == q \in Request /\ LocalsSet(q)

\* TypeOK is not inductive: the account read by GetUser has a type only
\* because the request has its id by then.
TypeInv == TypeOK /\ \A r \in Reqs : LocalsSet(req[r])

----------------------------------------------------------------------------
(* Lemmas on the operators the actions are built from.                      *)

\* A fresh value is one of the values there are.
LEMMA DrawIsFresh ==
    ASSUME NEW S, S \in SUBSET Ids \/ S \in SUBSET Passwords \/ S \in SUBSET Tokens
    PROVE  Draw(S) \subseteq S
BY DrawAssumption

LEMMA FoundIsAccount ==
    ASSUME NEW n
    PROVE  \/ FindUserByName(n) = None
           \/ FindUserByName(n) \in Ids /\ FindUserByName(n) \in Named(n)
<1>1. Named(n) # {} => (CHOOSE i \in Named(n) : TRUE) \in Named(n)
  OBVIOUS
<1> QED
  BY <1>1 DEF FindUserByName, Named

\* Replacing one request by a well-formed one.
LEMMA RequestStep ==
    ASSUME req \in [Reqs -> Request], \A r \in Reqs : LocalsSet(req[r]),
           NEW r \in Reqs, NEW l, RequestOK(l),
           req' = [req EXCEPT ![r] = l]
    PROVE  req' \in [Reqs -> Request] /\ \A q \in Reqs : LocalsSet(req'[q])
BY DEF RequestOK

\* A request without variables is well-formed at every place it can start
\* from or end at.
LEMMA BlanksOK ==
    ASSUME NEW pc \in {"idle"} \cup Responses
    PROVE  RequestOK(Blanks(pc))
BY DEF RequestOK, Blanks, Request, LocalsSet, Provided, Responses, Steps

LEMMA ReplyOK ==
    ASSUME req \in [Reqs -> Request], \A r \in Reqs : LocalsSet(req[r]),
           NEW r \in Reqs, NEW code \in Responses, Reply(r, code)
    PROVE  req' \in [Reqs -> Request] /\ \A q \in Reqs : LocalsSet(req'[q])
<1>1. RequestOK(Blanks(code))
  BY BlanksOK
<1> QED
  BY <1>1, RequestStep DEF Reply

LEMMA GotoOK ==
    ASSUME req \in [Reqs -> Request], \A r \in Reqs : LocalsSet(req[r]),
           NEW r \in Reqs, NEW l \in Request, NEW pc \in Steps,
           Provided(pc, l), Goto(r, l, pc)
    PROVE  req' \in [Reqs -> Request] /\ \A q \in Reqs : LocalsSet(req'[q])
<1>1. [l EXCEPT !.pc = pc] \in Request
  BY DEF Request
<1>2. LocalsSet([l EXCEPT !.pc = pc])
  BY <1>1 DEF Request, LocalsSet, Provided
<1> QED
  BY <1>1, <1>2, RequestStep DEF Goto, RequestOK

\* What Emby does keeps its accounts and sessions well-formed.
LEMMA EmbyCreateOK ==
    ASSUME EmbyTypeOK, NEW i \in Ids, NEW n \in Names, EmbyCreate(i, n)
    PROVE  EmbyTypeOK'
BY TemplateAssumption DEF EmbyTypeOK, EmbyCreate, Account

LEMMA EmbyUpdateOK ==
    ASSUME EmbyTypeOK, NEW i \in Ids, users[i] # None,
           \/ \E n \in Names : EmbyRename(i, n)
           \/ \E p \in Passwords \cup {Blank, Foreign} : EmbySetPassword(i, p)
           \/ EmbyEnable(i)
           \/ EmbyDisable(i)
    PROVE  EmbyTypeOK'
<1>1. users[i] \in Account
  BY DEF EmbyTypeOK
<1>2. SUFFICES ASSUME NEW u \in Account, users' = [users EXCEPT ![i] = u], valid' \subseteq valid
               PROVE  EmbyTypeOK'
  <2>1. \A n \in Names : [users[i] EXCEPT !.name = n] \in Account
    BY <1>1 DEF Account
  <2>2. \A p \in Passwords \cup {Blank, Foreign} : [users[i] EXCEPT !.pw = p] \in Account
    BY <1>1 DEF Account
  <2>3. \A b \in BOOLEAN : [users[i] EXCEPT !.disabled = b] \in Account
    BY <1>1 DEF Account
  <2> QED
    BY <1>2, <2>1, <2>2, <2>3 DEF EmbyRename, EmbySetPassword, EmbyEnable, EmbyDisable
<1> QED
  BY <1>2 DEF EmbyTypeOK

LEMMA EmbySessionsOK ==
    ASSUME EmbyTypeOK,
           \/ \E s \in Session : \E held : EmbyIssue(s, held)
           \/ \E i \in Ids : EmbyDelete(i) \/ EmbyRevoke(i)
    PROVE  EmbyTypeOK'
BY DEF EmbyTypeOK, EmbyIssue, EmbyDelete, EmbyRevoke

\* Adoption goes on with an account and a password.
LEMMA AdoptOK ==
    ASSUME req \in [Reqs -> Request], \A r \in Reqs : LocalsSet(req[r]),
           NEW r \in Reqs, req[r].name # None,
           NEW i \in Ids \cup {None}, NEW p \in Draw(FreshPasswords), Adopt(r, i, p)
    PROVE  req' \in [Reqs -> Request] /\ \A q \in Reqs : LocalsSet(req'[q])
<1> DEFINE l == [req[r] EXCEPT !.id = i, !.pw = p]
<1>1. p \in Passwords /\ p # None
  BY DrawIsFresh, SentinelsAssumption DEF FreshPasswords, EmbyValues
<1>2. l \in Request /\ l.id = i /\ l.pw = p /\ l.name # None
  BY <1>1 DEF Request
<1> HIDE DEF l
<1>3. \/ i # None /\ Goto(r, l, "getPw")
      \/ i = None /\ Goto(r, l, "create")
  BY DEF Adopt, l
<1> QED
  BY <1>1, <1>2, <1>3, GotoOK DEF Steps, Provided

----------------------------------------------------------------------------
(* Type correctness.                                                        *)

LEMMA TypeInit == Init => TypeInv
<1> SUFFICES ASSUME Init PROVE TypeInv
  OBVIOUS
<1>1. EmbyTypeOK
  BY InitialNamesAssumption DEF Init, EmbyInit, EmbyTypeOK, Account
<1>2. DBTypeOK /\ cache \in [Subs -> CachedSession \cup {None}] /\ spent \in 0..MaxDisturbances
  BY DisturbancesAssumption DEF Init, DBInit, DBTypeOK
<1>3. RequestOK(Blanks("idle"))
  BY BlanksOK
<1>4. req \in [Reqs -> Request] /\ \A r \in Reqs : LocalsSet(req[r])
  BY <1>3 DEF Init, RequestOK
<1> QED
  BY <1>1, <1>2, <1>4 DEF TypeInv, TypeOK

\* The part of the invariant an action of one request has to re-establish.
LEMMA Counted ==
    ASSUME TypeInv, Calm \/ \E kind \in Kinds : Disturb(kind)
    PROVE  spent' \in 0..MaxDisturbances
BY DisturbancesAssumption DEF TypeInv, TypeOK, Calm, Disturb

LEMMA HandleKeepsType ==
    ASSUME TypeInv, NEW r \in Reqs, Handle(r)
    PROVE  TypeInv'
<1> DEFINE q == req[r]
<1> DEFINE ReqsOK == req \in [Reqs -> Request] /\ \A p \in Reqs : LocalsSet(req[p])
<1>1. /\ EmbyTypeOK /\ DBTypeOK /\ ReqsOK
      /\ cache \in [Subs -> CachedSession \cup {None}]
      /\ q \in Request /\ LocalsSet(q)
      /\ Sub(r) \in Subs
      /\ spent \in 0..MaxDisturbances
  BY SubOfAssumption DEF TypeInv, TypeOK, Sub
<1>0. q.pc \in Steps /\ q.name # None
  <2>1. q.pc \in Steps
    BY DEF Handle, LoadSession, EvictExpired, FindUserBySub, GetUser, CheckName, Rename,
           Lookup, Create, GetForPassword, ResetPassword, SetPassword, UpdatePolicy, Insert,
           Authenticate, DropSession, Recheck, DeleteRow, StoreSession, Forward, Invalidate,
           At, Steps
  <2> QED
    BY <1>1, <2>1 DEF LocalsSet, Provided
<1>2. SUFFICES /\ EmbyTypeOK' /\ DBTypeOK' /\ ReqsOK'
               /\ cache' \in [Subs -> CachedSession \cup {None}]
               /\ spent' \in 0..MaxDisturbances
  BY DEF TypeInv, TypeOK
<1>3. CASE LoadSession(r)
  <2>1. EmbyTypeOK' /\ DBTypeOK' /\ cache' = cache /\ spent' = spent
    BY <1>1, <1>3 DEF LoadSession, embyVars, EmbyTypeOK, DBTypeOK
  <2>2. CASE Go(r, "find") \/ Go(r, "evict")
    <3>1. ReqsOK'
      BY <1>0, <1>1, <2>2, GotoOK DEF Go, Steps, Provided
    <3> QED
      BY <1>1, <2>1, <3>1
  <2>3. CASE cache[Sub(r)] # None /\ Goto(r, [q EXCEPT !.sess = cache[Sub(r)].sess], "serve")
    <3>1. cache[Sub(r)].sess \in Session
      BY <1>1, <2>3 DEF CachedSession
    <3>2. /\ [q EXCEPT !.sess = cache[Sub(r)].sess] \in Request
          /\ [q EXCEPT !.sess = cache[Sub(r)].sess].sess # None
          /\ [q EXCEPT !.sess = cache[Sub(r)].sess].name # None
      BY <1>0, <1>1, <3>1, NoneIsNoRecord DEF Request
    <3>3. ReqsOK'
      BY <1>1, <2>3, <3>2, GotoOK DEF Steps, Provided
    <3> QED
      BY <1>1, <2>1, <3>3
  <2> QED
    BY <1>3, <2>2, <2>3 DEF LoadSession
<1>4. CASE EvictExpired(r) \/ DropSession(r)
  <2>1. ReqsOK'
    BY <1>0, <1>1, <1>4, GotoOK DEF EvictExpired, DropSession, Go, Steps, Provided
  <2> QED
    BY <1>1, <1>4, <2>1 DEF EvictExpired, DropSession, Evict, embyVars, EmbyTypeOK, DBTypeOK
<1>5. CASE FindUserBySub(r)
  <2>1. EmbyTypeOK' /\ DBTypeOK' /\ cache' = cache /\ spent' \in 0..MaxDisturbances
    BY <1>1, <1>5, Counted DEF FindUserBySub, DBFails, Kinds, embyVars, EmbyTypeOK, DBTypeOK
  <2>2. CASE Reply(r, "500")
    BY <1>1, <2>1, <2>2, ReplyOK DEF Responses
  <2>3. CASE Go(r, "lookup")
    BY <1>0, <1>1, <2>1, <2>3, GotoOK DEF Go, Steps, Provided
  <2>4. CASE /\ db[Sub(r)] # None
             /\ Goto(r, [q EXCEPT !.rec = db[Sub(r)], !.id = db[Sub(r)].id, !.pw = db[Sub(r)].pw],
                     "getUser")
    <3> DEFINE l == [q EXCEPT !.rec = db[Sub(r)], !.id = db[Sub(r)].id, !.pw = db[Sub(r)].pw]
    <3>1. db[Sub(r)] \in Row
      BY <1>1, <2>4 DEF DBTypeOK
    <3>2. l \in Request /\ l.id # None /\ l.name # None
      BY <1>0, <1>1, <3>1, SentinelsAssumption DEF Request, Row, EmbyValues
    <3>3. ReqsOK'
      BY <1>1, <2>4, <3>2, GotoOK DEF Steps, Provided
    <3> QED
      BY <1>1, <2>1, <3>3
  <2> QED
    BY <1>5, <2>2, <2>3, <2>4 DEF FindUserBySub, DBFails
<1>6. CASE GetUser(r)
  <2>1. EmbyTypeOK' /\ DBTypeOK' /\ cache' = cache /\ spent' \in 0..MaxDisturbances
    BY <1>1, <1>6, Counted DEF GetUser, EmbyRead, Kinds, embyVars, EmbyTypeOK, DBTypeOK
  <2>2. CASE Go(r, "auth")
    <3>1. q.id # None
      BY <1>1, <1>6 DEF GetUser, At, LocalsSet, Provided
    <3> QED
      BY <1>0, <1>1, <2>1, <2>2, <3>1, GotoOK DEF Go, Steps, Provided
  <2>3. CASE users[q.id] # None /\ Goto(r, [q EXCEPT !.was = users[q.id].name], "checkName")
    <3>1. q.id \in Ids
      BY <1>1, <1>6 DEF GetUser, At, Request, LocalsSet, Provided
    <3>2. [q EXCEPT !.was = users[q.id].name] \in Request
      BY <1>1, <2>3, <3>1 DEF Request, EmbyTypeOK, Account
    <3>3. /\ [q EXCEPT !.was = users[q.id].name].id # None
          /\ [q EXCEPT !.was = users[q.id].name].name # None
          /\ [q EXCEPT !.was = users[q.id].name].was # None
      BY <1>0, <1>1, <2>3, <3>1, SentinelsAssumption DEF Request, EmbyTypeOK, Account, EmbyValues
    <3>4. ReqsOK'
      BY <1>1, <2>3, <3>2, <3>3, GotoOK DEF Steps, Provided
    <3> QED
      BY <1>1, <2>1, <3>4
  <2> QED
    BY <1>6, <2>2, <2>3 DEF GetUser, EmbyRead
<1>7. CASE CheckName(r)
  <2>1. EmbyTypeOK' /\ DBTypeOK' /\ cache' = cache /\ spent' \in 0..MaxDisturbances
    BY <1>1, <1>7, Counted DEF CheckName, EmbyRead, Kinds, embyVars, EmbyTypeOK, DBTypeOK
  <2>2. /\ q.id # None /\ q.was # None
        /\ [q EXCEPT !.name = q.was, !.was = None] \in Request
        /\ [q EXCEPT !.name = q.was, !.was = None].name # None
        /\ [q EXCEPT !.name = q.was, !.was = None].id # None
    BY <1>1, <1>7 DEF CheckName, At, Request, LocalsSet, Provided
  <2>3. ReqsOK'
    BY <1>0, <1>1, <1>7, <2>2, GotoOK DEF CheckName, EmbyRead, Go, Steps, Provided
  <2> QED
    BY <1>1, <2>1, <2>3
<1>8. CASE Rename(r)
  <2>1. q.id \in Ids /\ q.was # None /\ q.name \in Names
    BY <1>0, <1>1, <1>8 DEF Rename, At, Request, LocalsSet, Provided
  <2>2. /\ [q EXCEPT !.was = None] \in Request
        /\ [q EXCEPT !.was = None].name # None
        /\ [q EXCEPT !.was = None].id # None
        /\ [q EXCEPT !.name = q.was, !.was = None] \in Request
        /\ [q EXCEPT !.name = q.was, !.was = None].name # None
        /\ [q EXCEPT !.name = q.was, !.was = None].id # None
    BY <1>0, <1>1, <2>1, SentinelsAssumption DEF Request, EmbyValues
  <2>3. ReqsOK'
    BY <1>1, <1>8, <2>2, GotoOK DEF Rename, UpdateUserName, EmbyWrite, Steps, Provided
  <2>4. EmbyTypeOK'
    BY <1>1, <1>8, <2>1, EmbyUpdateOK DEF Rename, UpdateUserName, EmbyWrite, Exists, embyVars, EmbyTypeOK
  <2>5. spent' \in 0..MaxDisturbances
    BY <1>8, Counted DEF Rename, UpdateUserName, EmbyWrite, Kinds
  <2> QED
    BY <1>1, <1>8, <2>3, <2>4, <2>5 DEF Rename, DBTypeOK
<1>9. CASE Lookup(r)
  <2>1. EmbyTypeOK' /\ DBTypeOK' /\ cache' = cache /\ spent' \in 0..MaxDisturbances
    BY <1>1, <1>9, Counted DEF Lookup, EmbyRead, Kinds, embyVars, EmbyTypeOK, DBTypeOK
  <2>2. CASE Reply(r, "503")
    BY <1>1, <2>1, <2>2, ReplyOK DEF Responses
  <2>3. CASE \E p \in Draw(FreshPasswords) : Adopt(r, FindUserByName(q.name), p)
    <3>1. ReqsOK'
      BY <1>0, <1>1, <2>3, FoundIsAccount, AdoptOK
    <3> QED
      BY <1>1, <2>1, <3>1
  <2> QED
    BY <1>9, <2>2, <2>3 DEF Lookup, EmbyRead
<1>10. CASE Create(r)
  <2> PICK i \in Draw(FreshIds) :
        EmbyWrite(Named(q.name) = {}, EmbyCreate(i, q.name),
                  Goto(r, [q EXCEPT !.id = i, !.made = TRUE], "getPw"), Reply(r, "500"))
    BY <1>10 DEF Create, CreateUser
  <2>1. i \in Ids /\ q.name \in Names /\ q.pw # None
    BY <1>0, <1>1, <1>10, DrawIsFresh DEF FreshIds, Create, At, Request, LocalsSet, Provided
  <2>2. /\ [q EXCEPT !.id = i, !.made = TRUE] \in Request
        /\ [q EXCEPT !.id = i, !.made = TRUE].id # None
        /\ [q EXCEPT !.id = i, !.made = TRUE].pw # None
        /\ [q EXCEPT !.id = i, !.made = TRUE].name # None
    BY <1>0, <1>1, <2>1, SentinelsAssumption DEF Request, EmbyValues
  <2>3. ReqsOK'
    BY <1>1, <2>2, GotoOK, ReplyOK DEF EmbyWrite, Steps, Responses, Provided
  <2>4. EmbyTypeOK'
    BY <1>1, <2>1, EmbyCreateOK DEF EmbyWrite, embyVars, EmbyTypeOK
  <2>5. spent' \in 0..MaxDisturbances
    BY Counted DEF EmbyWrite, Kinds
  <2> QED
    BY <1>1, <1>10, <2>3, <2>4, <2>5 DEF Create, DBTypeOK
<1>11. CASE GetForPassword(r)
  <2>1. EmbyTypeOK' /\ DBTypeOK' /\ cache' = cache /\ spent' \in 0..MaxDisturbances
    BY <1>1, <1>11, Counted DEF GetForPassword, EmbyRead, Kinds, embyVars, EmbyTypeOK, DBTypeOK
  <2>2. q.id # None /\ q.pw # None
    BY <1>1, <1>11 DEF GetForPassword, At, LocalsSet, Provided
  <2>3. CASE Reply(r, "500")
    BY <1>1, <2>1, <2>3, ReplyOK DEF Responses
  <2>4. CASE Go(r, "resetPw") \/ Go(r, "setPw")
    BY <1>0, <1>1, <2>1, <2>2, <2>4, GotoOK DEF Go, Steps, Provided
  <2> QED
    BY <1>11, <2>3, <2>4 DEF GetForPassword, EmbyRead
<1>12. CASE ResetPassword(r) \/ SetPassword(r) \/ UpdatePolicy(r)
  <2>1. q.id \in Ids /\ q.pw \in Passwords /\ q.id # None /\ q.pw # None
    BY <1>1, <1>12 DEF ResetPassword, SetPassword, UpdatePolicy, At, Request, LocalsSet, Provided
  <2>2. /\ \/ Reply(r, "500")
           \/ Go(r, "setPw") \/ Go(r, "policy") \/ Go(r, "insert")
        /\ UNCHANGED <<db, cache>>
    BY <1>12 DEF ResetPassword, SetPassword, UpdatePolicy, UpdatePasswordReset,
           UpdatePasswordSet, UpdatePolicyRaw, EmbyWrite
  <2>3. ReqsOK'
    BY <1>0, <1>1, <2>1, <2>2, GotoOK, ReplyOK DEF Go, Steps, Responses, Provided
  <2>4. EmbyTypeOK'
    BY <1>1, <1>12, <2>1, EmbyUpdateOK
       DEF ResetPassword, SetPassword, UpdatePolicy, UpdatePasswordReset,
           UpdatePasswordSet, UpdatePolicyRaw, EmbyWrite, Exists, embyVars, EmbyTypeOK
  <2>5. spent' \in 0..MaxDisturbances
    BY <1>12, Counted DEF ResetPassword, SetPassword, UpdatePolicy, UpdatePasswordReset,
           UpdatePasswordSet, UpdatePolicyRaw, EmbyWrite, Kinds
  <2> QED
    BY <1>1, <2>2, <2>3, <2>4, <2>5 DEF DBTypeOK
<1>13. CASE Insert(r)
  <2>1. q.id \in Ids /\ q.pw \in Passwords /\ q.id # None
    BY <1>1, <1>13 DEF Insert, At, Request, LocalsSet, Provided
  <2>2. /\ Reply(r, "500") \/ Go(r, "auth") \/ Go(r, "retry")
        /\ db' = db \/ db' = [db EXCEPT ![Sub(r)] = [id |-> q.id, pw |-> q.pw]]
        /\ UNCHANGED <<users, valid, cache>>
    BY <1>13 DEF Insert, DBFails, InsertUser, embyVars
  <2>3. ReqsOK'
    BY <1>0, <1>1, <2>1, <2>2, GotoOK, ReplyOK DEF Go, Steps, Responses, Provided
  <2>4. EmbyTypeOK' /\ DBTypeOK'
    BY <1>1, <2>1, <2>2 DEF EmbyTypeOK, DBTypeOK, Row
  <2>5. spent' \in 0..MaxDisturbances
    BY <1>13, Counted DEF Insert, DBFails, Kinds
  <2> QED
    BY <1>1, <2>2, <2>3, <2>4, <2>5
<1>14. CASE Authenticate(r)
  <2>1. spent' \in 0..MaxDisturbances
    BY <1>14, Counted DEF Authenticate, Kinds
  <2>2. CASE UNCHANGED embyVars /\ (Go(r, "dropSession") \/ Reply(r, "401"))
    <3>1. ReqsOK'
      BY <1>0, <1>1, <2>2, GotoOK, ReplyOK DEF Go, Steps, Responses, Provided
    <3> QED
      BY <1>1, <1>14, <2>1, <2>2, <3>1 DEF Authenticate, embyVars, EmbyTypeOK, DBTypeOK
  <2>3. ASSUME NEW i \in Accepting(q.name, q.pw), NEW t \in Draw(FreshTokens),
               EmbyIssue([id |-> i, tok |-> t], HeldSessions),
               Goto(r, [q EXCEPT !.sess = [id |-> i, tok |-> t]], "store")
        PROVE  EmbyTypeOK' /\ ReqsOK'
    <3>1. [id |-> i, tok |-> t] \in Session
      BY DrawIsFresh DEF Accepting, Named, FreshTokens, Session
    <3>2. /\ [q EXCEPT !.sess = [id |-> i, tok |-> t]] \in Request
          /\ [q EXCEPT !.sess = [id |-> i, tok |-> t]].name # None
          /\ [q EXCEPT !.sess = [id |-> i, tok |-> t]].id # None
          /\ [q EXCEPT !.sess = [id |-> i, tok |-> t]].sess # None
      BY <1>0, <1>1, <1>14, <3>1, NoneIsNoRecord
         DEF Authenticate, At, Request, LocalsSet, Provided
    <3>3. ReqsOK'
      BY <1>1, <2>3, <3>2, GotoOK DEF Steps, Provided
    <3> QED
      BY <1>1, <2>3, <3>1, <3>3, EmbySessionsOK
  <2> QED
    BY <1>1, <1>14, <2>1, <2>2, <2>3 DEF Authenticate, DBTypeOK
<1>15. CASE Recheck(r)
  <2>1. EmbyTypeOK' /\ DBTypeOK' /\ cache' = cache /\ spent' \in 0..MaxDisturbances
    BY <1>1, <1>15, Counted DEF Recheck, EmbyRead, Kinds, embyVars, EmbyTypeOK, DBTypeOK
  <2>2. /\ [q EXCEPT !.id = FindUserByName(q.name)] \in Request
        /\ [q EXCEPT !.id = FindUserByName(q.name)].name # None
    BY <1>0, <1>1, FoundIsAccount DEF Request
  <2>3. ReqsOK'
    BY <1>1, <1>15, <2>2, GotoOK, ReplyOK DEF Recheck, EmbyRead, Steps, Responses, Provided
  <2> QED
    BY <1>1, <2>1, <2>3
<1>16. CASE DeleteRow(r)
  <2>1. EmbyTypeOK' /\ cache' = cache /\ spent' \in 0..MaxDisturbances
    BY <1>1, <1>16, Counted DEF DeleteRow, DBFails, Kinds, embyVars, EmbyTypeOK
  <2>2. DBTypeOK'
    BY <1>1, <1>16 DEF DeleteRow, DBFails, DeleteUser, DBTypeOK
  <2>3. CASE Reply(r, "500")
    BY <1>1, <2>1, <2>2, <2>3, ReplyOK DEF Responses
  <2>4. CASE \E p \in Draw(FreshPasswords) : Adopt(r, q.id, p)
    <3>1. q.id \in Ids \cup {None}
      BY <1>1 DEF Request
    <3>2. ReqsOK'
      BY <1>0, <1>1, <2>4, <3>1, AdoptOK
    <3> QED
      BY <1>1, <2>1, <2>2, <3>2
  <2> QED
    BY <1>16, <2>3, <2>4 DEF DeleteRow, DBFails
<1>17. CASE StoreSession(r)
  <2>1. q.sess \in Session /\ q.sess # None
    BY <1>1, <1>17 DEF StoreSession, At, Request, LocalsSet, Provided
  <2>2. ReqsOK'
    BY <1>0, <1>1, <1>17, <2>1, GotoOK DEF StoreSession, Go, Steps, Provided
  <2>3. cache' \in [Subs -> CachedSession \cup {None}]
    BY <1>1, <1>17, <2>1 DEF StoreSession, CachedSession
  <2> QED
    BY <1>1, <1>17, <2>2, <2>3 DEF StoreSession, embyVars, EmbyTypeOK, DBTypeOK
<1>18. CASE Forward(r)
  <2>1. EmbyTypeOK' /\ DBTypeOK' /\ cache' = cache /\ spent' \in 0..MaxDisturbances
    BY <1>1, <1>18, Counted DEF Forward, EmbyRead, Kinds, embyVars, EmbyTypeOK, DBTypeOK
  <2>2. ReqsOK'
    BY <1>0, <1>1, <1>18, GotoOK, ReplyOK DEF Forward, EmbyRead, Go, Steps, Responses, Provided
  <2> QED
    BY <1>1, <2>1, <2>2
<1>19. CASE Invalidate(r)
  <2>1. ReqsOK'
    BY <1>1, <1>19, ReplyOK DEF Invalidate, Responses
  <2> QED
    BY <1>1, <1>19, <2>1 DEF Invalidate, Evict, embyVars, EmbyTypeOK, DBTypeOK
<1> QED
  BY <1>3, <1>4, <1>5, <1>6, <1>7, <1>8, <1>9, <1>10, <1>11, <1>12, <1>13, <1>14, <1>15,
     <1>16, <1>17, <1>18, <1>19 DEF Handle

LEMMA TypeStep == TypeInv /\ [Next]_vars => TypeInv'
<1> SUFFICES ASSUME TypeInv, [Next]_vars PROVE TypeInv'
  OBVIOUS
<1>1. CASE UNCHANGED vars
  BY <1>1 DEF vars, TypeInv, TypeOK, EmbyTypeOK, DBTypeOK
<1>2. ASSUME NEW r \in Reqs, Handle(r) PROVE TypeInv'
  BY <1>2, HandleKeepsType
<1>3. ASSUME NEW r \in Reqs, Arrive(r) PROVE TypeInv'
  <2> PICK n \in PrefNames[Sub(r)] :
        req' = [req EXCEPT ![r] = [Blanks("load") EXCEPT !.name = n]]
    BY <1>3 DEF Arrive
  <2>1. n \in Names /\ n # None
    BY PrefNamesAssumption, SubOfAssumption, SentinelsAssumption DEF Sub, EmbyValues
  <2>2. RequestOK([Blanks("load") EXCEPT !.name = n])
    BY <2>1 DEF RequestOK, Blanks, Request, LocalsSet, Provided, Steps
  <2>3. req' \in [Reqs -> Request] /\ \A p \in Reqs : LocalsSet(req'[p])
    BY <2>2, RequestStep DEF TypeInv, TypeOK
  <2> QED
    BY <1>3, <2>3 DEF Arrive, TypeInv, TypeOK, embyVars, EmbyTypeOK, DBTypeOK
<1>4. ASSUME NEW s \in Subs, Expire(s) PROVE TypeInv'
  BY <1>4 DEF Expire, TypeInv, TypeOK, embyVars, EmbyTypeOK, DBTypeOK, CachedSession
<1>5. ASSUME NEW i \in Ids, Administer(i) \/ Reenable(i) PROVE TypeInv'
  <2>1. EmbyTypeOK'
    BY <1>5, EmbyUpdateOK, EmbySessionsOK DEF TypeInv, TypeOK, Administer, Reenable, Exists
  <2>2. spent' \in 0..MaxDisturbances
    BY <1>5, Counted DEF Administer, Reenable, Kinds, Calm
  <2> QED
    BY <1>5, <2>1, <2>2 DEF Administer, Reenable, TypeInv, TypeOK, DBTypeOK
<1>6. CASE Crash
  <2>1. RequestOK(Blanks("idle"))
    BY BlanksOK
  <2>2. spent' \in 0..MaxDisturbances
    BY <1>6, Counted DEF Crash, Kinds
  <2> QED
    BY <1>6, <2>1, <2>2 DEF Crash, TypeInv, TypeOK, embyVars, EmbyTypeOK, DBTypeOK, RequestOK
<1> QED
  BY <1>1, <1>2, <1>3, <1>4, <1>5, <1>6 DEF Next

\* Every variable keeps its type: in particular no request uses an account,
\* a password or a session it does not have yet.
THEOREM TypeCorrect == Spec => []TypeOK
<1>1. TypeInv => TypeOK
  BY DEF TypeInv
<1> QED
  BY <1>1, TypeInit, TypeStep, PTL DEF Spec

----------------------------------------------------------------------------
(* What links subjects, rows and Emby accounts: accounts stay separate.     *)

\* A request works with names its subject may have.
NamesOwn ==
    \A r \in Reqs : /\ req[r].name \in PrefNames[Sub(r)] \cup {None}
                    /\ req[r].was \in PrefNames[Sub(r)] \cup {None}

\* The accounts a subject has hold of carry its names while they exist.  This
\* is why adoption by name cannot reach another subject's account.
ClaimsNamed ==
    \A s \in Subs : \A i \in Claims(s) : users[i] # None => users[i].name \in PrefNames[s]

SeparateInv == NamesOwn /\ ClaimsNamed /\ AccountsSeparate

\* The account i may become one of subject s: it exists under a name of s, or
\* it does not exist and no subject has hold of its id.
Obtainable(i, s) ==
    \/ users[i] # None /\ users[i].name \in PrefNames[s]
    \/ users[i] = None /\ \A t \in Subs : i \notin Claims(t)

----------------------------------------------------------------------------
(* A step in the name of subject s that gives it the accounts of new.       *)

LEMMA SeparateStep ==
    ASSUME SeparateInv, DisjointNames, NEW s \in Subs, NEW new \in SUBSET Ids,
           \A i \in new : Obtainable(i, s),
           \A t \in Subs : t # s => Claims(t)' \subseteq Claims(t),
           Claims(s)' \subseteq Claims(s) \cup new,
           \A i \in Ids : users'[i] # None =>
              \/ users[i] # None /\ users'[i].name = users[i].name
              \/ i \in Claims(s) \cup new /\ users'[i].name \in PrefNames[s]
    PROVE  ClaimsNamed' /\ AccountsSeparate'
<1>1. \A t \in Subs : t # s => Claims(t) \cap (Claims(s) \cup new) = {}
  <2> SUFFICES ASSUME NEW t \in Subs, t # s, NEW i \in Claims(t), i \in Claims(s) \cup new
               PROVE  FALSE
    OBVIOUS
  <2>1. i \in new /\ i \in Ids
    BY DEF SeparateInv, AccountsSeparate
  <2>2. users[i] # None /\ users[i].name \in PrefNames[s]
    BY <2>1 DEF Obtainable
  <2>3. users[i].name \in PrefNames[t]
    BY <2>2 DEF SeparateInv, ClaimsNamed
  <2> QED
    BY <2>2, <2>3 DEF DisjointNames
<1>2. AccountsSeparate'
  <2> SUFFICES ASSUME NEW t \in Subs, NEW u \in Subs, t # u
               PROVE  Claims(t)' \cap Claims(u)' = {}
    BY DEF AccountsSeparate
  <2>1. CASE t = s
    BY <1>1, <2>1
  <2>2. CASE u = s
    BY <1>1, <2>2
  <2>3. CASE t # s /\ u # s
    BY <2>3 DEF SeparateInv, AccountsSeparate
  <2> QED
    BY <2>1, <2>2, <2>3
<1>3. ClaimsNamed'
  <2> SUFFICES ASSUME NEW t \in Subs, NEW i \in Claims(t)', users'[i] # None
               PROVE  users'[i].name \in PrefNames[t]
    BY DEF ClaimsNamed
  <2>1. i \in Ids
    BY DEF Claims
  <2>2. CASE t # s
    <3>1. i \in Claims(t) /\ i \notin Claims(s) \cup new
      BY <1>1, <2>2
    <3>2. users[i] # None /\ users'[i].name = users[i].name
      BY <2>1, <3>1
    <3> QED
      BY <3>1, <3>2 DEF SeparateInv, ClaimsNamed
  <2>3. CASE t = s
    <3>1. CASE users[i] # None /\ users'[i].name = users[i].name
      <4>1. CASE i \in Claims(s)
        BY <2>3, <3>1, <4>1 DEF SeparateInv, ClaimsNamed
      <4>2. CASE i \in new /\ i \notin Claims(s)
        <5>1. users[i].name \in PrefNames[s]
          BY <3>1, <4>2 DEF Obtainable
        <5> QED
          BY <2>3, <3>1, <5>1
      <4> QED
        BY <2>3, <4>1, <4>2
    <3>2. CASE users'[i].name \in PrefNames[s]
      BY <2>3, <3>2
    <3> QED
      BY <2>1, <3>1, <3>2
  <2> QED
    BY <2>2, <2>3
<1> QED
  BY <1>2, <1>3

----------------------------------------------------------------------------
(* What a step of request r may do for SeparateInv to survive.              *)

\* Its variables become l: names of its subject, and accounts the subject has
\* hold of already or may obtain.
Moves(r, l, new) ==
    /\ req' = [req EXCEPT ![r] = l]
    /\ l.name \in PrefNames[Sub(r)] \cup {None}
    /\ l.was \in PrefNames[Sub(r)] \cup {None}
    /\ Claimed(l) \subseteq Claims(Sub(r)) \cup new
    /\ \A i \in new : i \in Ids /\ Obtainable(i, Sub(r))

\* Rows and cached sessions are dropped, or name accounts of the subject.
RowsOf(s) ==
    \A t \in Subs : db'[t] \in {db[t], None} \/ (t = s /\ db'[t].id \in Claims(s))
SessionsOf(s) ==
    \A t \in Subs : cache'[t] \in {cache[t], None}
                       \/ (t = s /\ cache'[t].sess.id \in Claims(s))

\* Emby's accounts keep their names, or are the subject's and get one of its.
AccountsOf(s, new) ==
    \A i \in Ids : users'[i] # None =>
       \/ users[i] # None /\ users'[i].name = users[i].name
       \/ i \in Claims(s) \cup new /\ users'[i].name \in PrefNames[s]

LEMMA MoveKeepsSeparate ==
    ASSUME TypeInv, SeparateInv, DisjointNames, NEW r \in Reqs, NEW l, NEW new,
           Moves(r, l, new), RowsOf(Sub(r)), SessionsOf(Sub(r)), AccountsOf(Sub(r), new)
    PROVE  SeparateInv'
<1>1. Sub(r) \in Subs /\ new \in SUBSET Ids /\ req \in [Reqs -> Request]
  BY SubOfAssumption DEF Sub, Moves, TypeInv, TypeOK
<1>2. NamesOwn'
  BY <1>1 DEF SeparateInv, NamesOwn, Moves, Sub
<1>3. ASSUME NEW t \in Subs, NEW i \in Claims(t)'
      PROVE  i \in Claims(t) \/ (t = Sub(r) /\ i \in new)
  <2>0. i \in Ids
    BY <1>3 DEF Claims
  <2>1. CASE db'[t] # None /\ db'[t].id = i
    BY <2>0, <2>1 DEF RowsOf, Claims, HasRow
  <2>2. CASE cache'[t] # None /\ cache'[t].sess.id = i
    BY <2>0, <2>2 DEF SessionsOf, Claims
  <2>3. ASSUME NEW p \in Reqs, Sub(p) = t, i \in Claimed(req'[p])
        PROVE  i \in Claims(t) \/ (t = Sub(r) /\ i \in new)
    <3>1. CASE p = r
      BY <1>1, <2>3, <3>1 DEF Moves
    <3>2. CASE p # r
      BY <1>1, <2>0, <2>3, <3>2 DEF Moves, Claims
    <3> QED
      BY <3>1, <3>2
  <2>4. \/ db'[t] # None /\ db'[t].id = i
        \/ cache'[t] # None /\ cache'[t].sess.id = i
        \/ \E p \in Reqs : Sub(p) = t /\ i \in Claimed(req'[p])
    BY <1>3 DEF Claims, HasRow, Claimed, Sub
  <2> QED
    BY <2>1, <2>2, <2>3, <2>4
<1>4. /\ \A t \in Subs : t # Sub(r) => Claims(t)' \subseteq Claims(t)
      /\ Claims(Sub(r))' \subseteq Claims(Sub(r)) \cup new
  <2> HIDE DEF Claims
  <2>1. \A t \in Subs : Sub(r)' = Sub(r)
    BY DEF Sub
  <2> QED
    BY <1>1, <1>3, <2>1
<1>5. ClaimsNamed' /\ AccountsSeparate'
  BY <1>1, <1>4, SeparateStep DEF Moves, AccountsOf
<1> QED
  BY <1>2, <1>5 DEF SeparateInv

\* Going on or answering, as a move.
LEMMA GotoMoves ==
    ASSUME NEW r \in Reqs, NEW l \in Request, NEW pc, NEW new \in SUBSET Ids, Goto(r, l, pc),
           l.name \in PrefNames[Sub(r)] \cup {None},
           l.was \in PrefNames[Sub(r)] \cup {None},
           Claimed(l) \subseteq Claims(Sub(r)) \cup new,
           \A i \in new : Obtainable(i, Sub(r))
    PROVE  Moves(r, [l EXCEPT !.pc = pc], new)
<1>1. Claimed([l EXCEPT !.pc = pc]) = Claimed(l)
  BY DEF Claimed, Request
<1>2. [l EXCEPT !.pc = pc].name = l.name /\ [l EXCEPT !.pc = pc].was = l.was
  BY DEF Request
<1> QED
  BY <1>1, <1>2 DEF Goto, Moves

LEMMA GoMoves ==
    ASSUME TypeInv, NamesOwn, NEW r \in Reqs, NEW pc, Go(r, pc)
    PROVE  Moves(r, [req[r] EXCEPT !.pc = pc], {})
<1>1. Claimed(req[r]) \subseteq Claims(Sub(r))
  BY DEF Claims, Claimed
<1> QED
  BY <1>1, GotoMoves DEF Go, NamesOwn, TypeInv, TypeOK

LEMMA ReplyMoves ==
    ASSUME NEW r \in Reqs, NEW code, Reply(r, code)
    PROVE  Moves(r, Blanks(code), {})
<1>1. Claimed(Blanks(code)) = {}
  BY SentinelsAssumption DEF Claimed, Blanks, EmbyValues
<1> QED
  BY <1>1 DEF Reply, Moves, Blanks

----------------------------------------------------------------------------
(* SeparateInv is inductive.                                                *)

LEMMA SeparateInit == Init => SeparateInv
<1> SUFFICES ASSUME Init PROVE SeparateInv
  OBVIOUS
<1>1. Claimed(Blanks("idle")) = {}
  BY SentinelsAssumption DEF Claimed, Blanks, EmbyValues
<1>2. \A s \in Subs : Claims(s) = {}
  BY <1>1 DEF Init, DBInit, Claims, HasRow
<1> QED
  BY <1>2 DEF Init, SeparateInv, NamesOwn, ClaimsNamed, AccountsSeparate, Blanks

\* Steps that change neither Emby's accounts nor what a subject has hold of,
\* except by dropping it.
LEMMA PlainStep ==
    ASSUME TypeInv, SeparateInv, DisjointNames, NEW r \in Reqs,
           \/ \E pc : Go(r, pc)
           \/ \E code : Reply(r, code),
           UNCHANGED db \/ DeleteUser(Sub(r)),
           UNCHANGED cache \/ Evict(Sub(r)),
           \A i \in Ids : users'[i] # None => users[i] # None /\ users'[i].name = users[i].name
    PROVE  SeparateInv'
<1>1. \E l : Moves(r, l, {})
  BY GoMoves, ReplyMoves DEF SeparateInv
<1>2. RowsOf(Sub(r)) /\ SessionsOf(Sub(r)) /\ AccountsOf(Sub(r), {})
  BY DEF RowsOf, SessionsOf, AccountsOf, DeleteUser, Evict, TypeInv, TypeOK, DBTypeOK
<1> QED
  BY <1>1, <1>2, MoveKeepsSeparate

\* Looking an account up by one of the subject's names and adopting it, or
\* going on to create one.
LEMMA FoundObtainable ==
    ASSUME NEW s \in Subs, NEW n \in PrefNames[s], FindUserByName(n) # None
    PROVE  FindUserByName(n) \in Ids /\ Obtainable(FindUserByName(n), s)
BY FoundIsAccount DEF Obtainable, Named

\* Emby's new ids are nobody's.
LEMMA FreshIsUnclaimed ==
    ASSUME NEW i \in FreshIds
    PROVE  users[i] = None /\ \A t \in Subs : i \notin Claims(t)
BY DEF FreshIds, Claims, Claimed

LEMMA HandleKeepsSeparate ==
    ASSUME TypeInv, TypeInv', SeparateInv, DisjointNames, NEW r \in Reqs, Handle(r)
    PROVE  SeparateInv'
<1> DEFINE q == req[r]
<1> DEFINE s == Sub(r)
<1>1. /\ s \in Subs /\ q \in Request /\ LocalsSet(q)
      /\ users \in [Ids -> Account \cup {None}]
      /\ db \in [Subs -> Row \cup {None}]
      /\ cache \in [Subs -> CachedSession \cup {None}]
      /\ q.name \in PrefNames[s] \cup {None}
      /\ q.was \in PrefNames[s] \cup {None}
      /\ Claimed(q) \subseteq Claims(s)
      /\ q.id \in Ids => q.id \in Claims(s)
      /\ None \notin PrefNames[s]
  BY SubOfAssumption, PrefNamesAssumption, SentinelsAssumption
     DEF TypeInv, TypeOK, EmbyTypeOK, DBTypeOK, Sub, SeparateInv, NamesOwn, Claims, Claimed, EmbyValues
<1>2. CASE LoadSession(r)
  <2>1. CASE Go(r, "find") \/ Go(r, "evict")
    BY <1>2, <2>1, PlainStep DEF LoadSession, embyVars
  <2>2. CASE cache[s] # None /\ Goto(r, [q EXCEPT !.sess = cache[s].sess], "serve")
    <3> DEFINE l == [q EXCEPT !.sess = cache[s].sess]
    <3>1. cache[s].sess \in Session /\ cache[s].sess.id \in Claims(s)
      BY <1>1, <2>2 DEF CachedSession, Session, Claims
    <3>2. l \in Request /\ l.name = q.name /\ l.was = q.was
      BY <1>1, <3>1 DEF Request
    <3>3. Claimed(l) \subseteq Claims(s)
      BY <1>1, <3>1 DEF Claimed, Request
    <3>4. Moves(r, [l EXCEPT !.pc = "serve"], {})
      BY <1>1, <2>2, <3>2, <3>3, GotoMoves
    <3>5. RowsOf(s) /\ SessionsOf(s) /\ AccountsOf(s, {})
      BY <1>2 DEF LoadSession, embyVars, RowsOf, SessionsOf, AccountsOf
    <3> QED
      BY <3>4, <3>5, MoveKeepsSeparate
  <2> QED
    BY <1>2, <2>1, <2>2 DEF LoadSession
<1>3. CASE EvictExpired(r) \/ DropSession(r) \/ Invalidate(r)
  BY <1>3, PlainStep DEF EvictExpired, DropSession, Invalidate, embyVars
<1>4. CASE FindUserBySub(r)
  <2>1. CASE Go(r, "lookup") \/ Reply(r, "500")
    BY <1>4, <2>1, PlainStep DEF FindUserBySub, DBFails, embyVars
  <2>2. CASE /\ db[s] # None
             /\ Goto(r, [q EXCEPT !.rec = db[s], !.id = db[s].id, !.pw = db[s].pw], "getUser")
    <3> DEFINE l == [q EXCEPT !.rec = db[s], !.id = db[s].id, !.pw = db[s].pw]
    <3>1. db[s] \in Row /\ db[s].id \in Claims(s)
      BY <1>1, <2>2 DEF Row, Claims, HasRow
    <3>2. l \in Request /\ l.name = q.name /\ l.was = q.was
      BY <1>1, <3>1 DEF Request, Row
    <3>3. Claimed(l) \subseteq Claims(s)
      BY <1>1, <3>1 DEF Claimed, Request
    <3>4. Moves(r, [l EXCEPT !.pc = "getUser"], {})
      BY <1>1, <2>2, <3>2, <3>3, GotoMoves
    <3>5. RowsOf(s) /\ SessionsOf(s) /\ AccountsOf(s, {})
      BY <1>4 DEF FindUserBySub, DBFails, embyVars, RowsOf, SessionsOf, AccountsOf
    <3> QED
      BY <3>4, <3>5, MoveKeepsSeparate
  <2> QED
    BY <1>4, <2>1, <2>2 DEF FindUserBySub, DBFails
<1>5. CASE GetUser(r)
  <2>1. CASE Go(r, "auth")
    BY <1>5, <2>1, PlainStep DEF GetUser, EmbyRead, embyVars
  <2>2. CASE users[q.id] # None /\ Goto(r, [q EXCEPT !.was = users[q.id].name], "checkName")
    <3> DEFINE l == [q EXCEPT !.was = users[q.id].name]
    <3>1. q.id \in Ids
      BY <1>1, <1>5 DEF GetUser, At, Request, LocalsSet, Provided
    <3>2. users[q.id].name \in PrefNames[s] /\ users[q.id].name \in Names
      BY <1>1, <2>2, <3>1 DEF SeparateInv, ClaimsNamed, Account
    <3>3. l \in Request /\ l.name = q.name /\ l.was \in PrefNames[s] /\ Claimed(l) = Claimed(q)
      BY <1>1, <3>2 DEF Request, Claimed
    <3>4. Moves(r, [l EXCEPT !.pc = "checkName"], {})
      BY <1>1, <2>2, <3>3, GotoMoves
    <3>5. RowsOf(s) /\ SessionsOf(s) /\ AccountsOf(s, {})
      BY <1>5 DEF GetUser, EmbyRead, embyVars, RowsOf, SessionsOf, AccountsOf
    <3> QED
      BY <3>4, <3>5, MoveKeepsSeparate
  <2> QED
    BY <1>5, <2>1, <2>2 DEF GetUser, EmbyRead
<1>6. CASE CheckName(r)
  <2>1. CASE Go(r, "rename")
    BY <1>6, <2>1, PlainStep DEF CheckName, EmbyRead, embyVars
  <2>2. CASE Goto(r, [q EXCEPT !.name = q.was, !.was = None], "auth")
    <3> DEFINE l == [q EXCEPT !.name = q.was, !.was = None]
    <3>1. l \in Request /\ l.name = q.was /\ l.was = None /\ Claimed(l) = Claimed(q)
      BY <1>1 DEF Request, Claimed
    <3>2. Moves(r, [l EXCEPT !.pc = "auth"], {})
      BY <1>1, <2>2, <3>1, GotoMoves
    <3>3. RowsOf(s) /\ SessionsOf(s) /\ AccountsOf(s, {})
      BY <1>6 DEF CheckName, EmbyRead, embyVars, RowsOf, SessionsOf, AccountsOf
    <3> QED
      BY <3>2, <3>3, MoveKeepsSeparate
  <2> QED
    BY <1>6, <2>1, <2>2 DEF CheckName, EmbyRead
<1>7. CASE Rename(r)
  <2>1. q.id \in Ids /\ q.name \in PrefNames[s]
    BY <1>1, <1>7 DEF Rename, At, Request, LocalsSet, Provided, Steps
  <2>2. PICK l \in {[q EXCEPT !.was = None], [q EXCEPT !.name = q.was, !.was = None]} :
          Goto(r, l, "auth")
    BY <1>7 DEF Rename, UpdateUserName, EmbyWrite
  <2>3. /\ l \in Request /\ l.name \in PrefNames[s] \cup {None} /\ l.was = None
        /\ Claimed(l) = Claimed(q)
    <3>1. CASE l = [q EXCEPT !.was = None]
      BY <1>1, <3>1 DEF Request, Claimed
    <3>2. CASE l = [q EXCEPT !.name = q.was, !.was = None]
      BY <1>1, <3>2 DEF Request, Claimed
    <3> QED
      BY <2>2, <3>1, <3>2
  <2>4. Moves(r, [l EXCEPT !.pc = "auth"], {})
    BY <1>1, <2>2, <2>3, GotoMoves
  <2>5. RowsOf(s) /\ SessionsOf(s)
    BY <1>7 DEF Rename, RowsOf, SessionsOf
  <2>6. AccountsOf(s, {})
    BY <1>1, <1>7, <2>1 DEF Rename, UpdateUserName, EmbyWrite, EmbyRename, Exists, embyVars, AccountsOf, Account
  <2> QED
    BY <2>4, <2>5, <2>6, MoveKeepsSeparate
<1>8. ASSUME NEW i \in Ids \cup {None}, NEW p \in Draw(FreshPasswords), Adopt(r, i, p),
             i # None => i \in Claims(s) \/ Obtainable(i, s),
             UNCHANGED db \/ DeleteUser(s), UNCHANGED <<users, cache>>
      PROVE  SeparateInv'
  <2> DEFINE l == [q EXCEPT !.id = i, !.pw = p]
  <2> DEFINE new == {j \in Ids : j = i /\ Obtainable(j, s)}
  <2>1. p \in Passwords
    BY DrawIsFresh DEF FreshPasswords
  <2>2. l \in Request /\ l.name = q.name /\ l.was = q.was /\ Claimed(l) \subseteq Claimed(q) \cup {i}
    BY <1>1, <2>1 DEF Request, Claimed
  <2>3. Claimed(l) \subseteq Claims(s) \cup new
    <3> SUFFICES ASSUME NEW j \in Claimed(l) PROVE j \in Claims(s) \cup new
      OBVIOUS
    <3>1. j \in Ids /\ j # None
      BY SentinelsAssumption DEF Claimed, EmbyValues
    <3> QED
      BY <1>1, <1>8, <2>2, <3>1
  <2>4. \E pc : Moves(r, [l EXCEPT !.pc = pc], new)
    <3> HIDE DEF l
    <3>1. PICK pc : Goto(r, l, pc)
      BY <1>8 DEF Adopt, l
    <3> QED
      BY <1>1, <2>2, <2>3, <3>1, GotoMoves
  <2>5. RowsOf(s) /\ SessionsOf(s) /\ AccountsOf(s, new)
    BY <1>1, <1>8 DEF RowsOf, SessionsOf, AccountsOf, DeleteUser
  <2> QED
    BY <2>4, <2>5, MoveKeepsSeparate
<1>9. CASE Lookup(r)
  <2>1. CASE Reply(r, "503")
    BY <1>9, <2>1, PlainStep DEF Lookup, EmbyRead, embyVars
  <2>2. CASE \E p \in Draw(FreshPasswords) : Adopt(r, FindUserByName(q.name), p)
    <3>1. q.name \in PrefNames[s]
      BY <1>1, <1>9 DEF Lookup, At, LocalsSet, Provided, Steps
    <3> QED
      BY <1>1, <1>8, <1>9, <2>2, <3>1, FoundIsAccount, FoundObtainable DEF Lookup, EmbyRead, embyVars
  <2> QED
    BY <1>9, <2>1, <2>2 DEF Lookup, EmbyRead
<1>10. CASE DeleteRow(r)
  <2>1. CASE Reply(r, "500")
    BY <1>10, <2>1, PlainStep DEF DeleteRow, DBFails, embyVars
  <2>2. CASE DeleteUser(s) /\ \E p \in Draw(FreshPasswords) : Adopt(r, q.id, p)
    <3>1. q.id \in Ids \cup {None}
      BY <1>1 DEF Request
    <3> QED
      BY <1>1, <1>8, <1>10, <2>2, <3>1 DEF DeleteRow, embyVars
  <2> QED
    BY <1>10, <2>1, <2>2 DEF DeleteRow, DBFails
<1>11. CASE Recheck(r)
  <2>1. CASE Reply(r, "503")
    BY <1>11, <2>1, PlainStep DEF Recheck, EmbyRead, embyVars
  <2>2. CASE Goto(r, [q EXCEPT !.id = FindUserByName(q.name)], "deleteRow")
    <3> DEFINE l == [q EXCEPT !.id = FindUserByName(q.name)]
    <3> DEFINE new == {FindUserByName(q.name)} \cap Ids
    <3>1. q.name \in PrefNames[s]
      BY <1>1, <1>11 DEF Recheck, At, LocalsSet, Provided, Steps
    <3>2. \A i \in new : Obtainable(i, s)
      BY <1>1, <3>1, FoundObtainable, SentinelsAssumption DEF EmbyValues
    <3>3. l \in Request /\ l.name = q.name /\ l.was = q.was /\ Claimed(l) \subseteq Claimed(q) \cup new
      BY <1>1, FoundIsAccount DEF Request, Claimed
    <3>4. Moves(r, [l EXCEPT !.pc = "deleteRow"], new)
      BY <1>1, <2>2, <3>2, <3>3, GotoMoves
    <3>5. RowsOf(s) /\ SessionsOf(s) /\ AccountsOf(s, new)
      BY <1>11 DEF Recheck, EmbyRead, embyVars, RowsOf, SessionsOf, AccountsOf
    <3> QED
      BY <3>4, <3>5, MoveKeepsSeparate
  <2> QED
    BY <1>11, <2>1, <2>2 DEF Recheck, EmbyRead
<1>12. CASE Create(r)
  <2> PICK i \in Draw(FreshIds) :
        EmbyWrite(Named(q.name) = {}, EmbyCreate(i, q.name),
                  Goto(r, [q EXCEPT !.id = i, !.made = TRUE], "getPw"), Reply(r, "500"))
    BY <1>12 DEF Create, CreateUser
  <2> DEFINE l == [q EXCEPT !.id = i, !.made = TRUE]
  <2>1. i \in FreshIds /\ i \in Ids
    BY DrawIsFresh DEF FreshIds
  <2>2. Obtainable(i, s)
    BY <2>1, FreshIsUnclaimed DEF Obtainable
  <2>3. q.name \in PrefNames[s]
    BY <1>1, <1>12 DEF Create, At, LocalsSet, Provided, Steps
  <2>4. l \in Request /\ l.name = q.name /\ l.was = q.was /\ Claimed(l) \subseteq Claimed(q) \cup {i}
    BY <1>1, <2>1 DEF Request, Claimed
  <2>5. \E m : Moves(r, m, {i})
    <3>1. CASE Goto(r, l, "getPw")
      BY <1>1, <2>1, <2>2, <2>4, <3>1, GotoMoves
    <3>2. CASE Reply(r, "500")
      <4>1. Moves(r, Blanks("500"), {})
        BY <3>2, ReplyMoves
      <4> QED
        BY <2>1, <2>2, <4>1 DEF Moves
    <3> QED
      BY <3>1, <3>2 DEF EmbyWrite
  <2>6. RowsOf(s) /\ SessionsOf(s)
    BY <1>12 DEF Create, RowsOf, SessionsOf
  <2>7. AccountsOf(s, {i})
    BY <1>1, <2>1, <2>3 DEF EmbyWrite, EmbyCreate, embyVars, AccountsOf
  <2> QED
    BY <2>5, <2>6, <2>7, MoveKeepsSeparate
<1>13. CASE GetForPassword(r) \/ Forward(r)
  <2>1. (\E pc : Go(r, pc)) \/ (\E code : Reply(r, code))
    BY <1>13 DEF GetForPassword, Forward, EmbyRead
  <2> QED
    BY <1>13, <2>1, PlainStep DEF GetForPassword, Forward, EmbyRead, embyVars
<1>14. CASE ResetPassword(r) \/ SetPassword(r) \/ UpdatePolicy(r)
  <2>1. /\ (\E pc : Go(r, pc)) \/ (\E code : Reply(r, code))
        /\ UNCHANGED <<db, cache>>
    BY <1>14 DEF ResetPassword, SetPassword, UpdatePolicy, UpdatePasswordReset,
           UpdatePasswordSet, UpdatePolicyRaw, EmbyWrite
  <2>2. q.id \in Ids
    BY <1>1, <1>14 DEF ResetPassword, SetPassword, UpdatePolicy, At, Request, LocalsSet, Provided
  <2>3. \A i \in Ids : users'[i] # None => users[i] # None /\ users'[i].name = users[i].name
    BY <1>1, <1>14, <2>2
       DEF ResetPassword, SetPassword, UpdatePolicy, UpdatePasswordReset,
           UpdatePasswordSet, UpdatePolicyRaw, EmbyWrite, EmbySetPassword, EmbyEnable,
           Exists, embyVars, Account
  <2> QED
    BY <2>1, <2>3, PlainStep
<1>15. CASE Insert(r)
  <2>1. \E l : Moves(r, l, {})
    BY <1>15, GoMoves, ReplyMoves DEF Insert, DBFails, SeparateInv
  <2>2. q.id \in Claims(s)
    BY <1>1, <1>15 DEF Insert, At, Request, LocalsSet, Provided
  <2>3. RowsOf(s)
    BY <1>1, <1>15, <2>2 DEF Insert, DBFails, InsertUser, RowsOf
  <2>4. SessionsOf(s) /\ AccountsOf(s, {})
    BY <1>15 DEF Insert, embyVars, SessionsOf, AccountsOf
  <2> QED
    BY <2>1, <2>3, <2>4, MoveKeepsSeparate
<1>16. CASE Authenticate(r)
  <2>1. CASE UNCHANGED embyVars /\ (Go(r, "dropSession") \/ Reply(r, "401"))
    BY <1>16, <2>1, PlainStep DEF Authenticate, embyVars
  <2>2. ASSUME NEW i \in Accepting(q.name, q.pw), NEW t \in Draw(FreshTokens),
               EmbyIssue([id |-> i, tok |-> t], HeldSessions),
               Goto(r, [q EXCEPT !.sess = [id |-> i, tok |-> t]], "store")
        PROVE  SeparateInv'
    <3> DEFINE l == [q EXCEPT !.sess = [id |-> i, tok |-> t]]
    <3>1. i \in Ids /\ [id |-> i, tok |-> t] \in Session
      BY DrawIsFresh DEF Accepting, Named, FreshTokens, Session
    <3>2. q.name \in PrefNames[s]
      BY <1>1, <1>16 DEF Authenticate, At, LocalsSet, Provided, Steps
    <3>3. Obtainable(i, s)
      BY <3>2 DEF Accepting, Named, Obtainable
    <3>4. l \in Request /\ l.name = q.name /\ l.was = q.was /\ Claimed(l) \subseteq Claimed(q) \cup {i}
      BY <1>1, <3>1 DEF Request, Claimed
    <3>5. Moves(r, [l EXCEPT !.pc = "store"], {i})
      BY <1>1, <2>2, <3>1, <3>3, <3>4, GotoMoves
    <3>6. RowsOf(s) /\ SessionsOf(s) /\ AccountsOf(s, {i})
      BY <1>16, <2>2 DEF Authenticate, EmbyIssue, RowsOf, SessionsOf, AccountsOf
    <3> QED
      BY <3>5, <3>6, MoveKeepsSeparate
  <2> QED
    BY <1>16, <2>1, <2>2 DEF Authenticate
<1>17. CASE StoreSession(r)
  <2>1. Moves(r, [q EXCEPT !.pc = "serve"], {})
    BY <1>17, GoMoves DEF StoreSession, SeparateInv
  <2>2. q.sess \in Session /\ q.sess.id \in Claims(s)
    BY <1>1, <1>17 DEF StoreSession, At, Request, LocalsSet, Provided, Claimed, Session
  <2>3. SessionsOf(s)
    BY <1>1, <1>17, <2>2 DEF StoreSession, SessionsOf
  <2>4. RowsOf(s) /\ AccountsOf(s, {})
    BY <1>17 DEF StoreSession, embyVars, RowsOf, AccountsOf
  <2> QED
    BY <2>1, <2>3, <2>4, MoveKeepsSeparate
<1> QED
  BY <1>2, <1>3, <1>4, <1>5, <1>6, <1>7, <1>9, <1>10, <1>11, <1>12, <1>13, <1>14, <1>15,
     <1>16, <1>17 DEF Handle

LEMMA SeparateNext == TypeInv /\ TypeInv' /\ SeparateInv /\ DisjointNames /\ [Next]_vars => SeparateInv'
<1> SUFFICES ASSUME TypeInv, TypeInv', SeparateInv, DisjointNames, [Next]_vars
             PROVE  SeparateInv'
  OBVIOUS
<1>1. CASE UNCHANGED vars
  <2>1. \A s \in Subs : Claims(s)' = Claims(s)
    BY <1>1 DEF vars, Claims, HasRow, Claimed, Sub
  <2> QED
    BY <1>1, <2>1 DEF vars, SeparateInv, NamesOwn, ClaimsNamed, AccountsSeparate, Sub
<1>2. ASSUME NEW r \in Reqs, Handle(r) PROVE SeparateInv'
  BY <1>2, HandleKeepsSeparate
<1>3. ASSUME NEW r \in Reqs, Arrive(r) PROVE SeparateInv'
  <2> PICK n \in PrefNames[Sub(r)] :
        req' = [req EXCEPT ![r] = [Blanks("load") EXCEPT !.name = n]]
    BY <1>3 DEF Arrive
  <2> DEFINE l == [Blanks("load") EXCEPT !.name = n]
  <2>1. Claimed(l) = {} /\ l.name = n /\ l.was = None
    BY SentinelsAssumption DEF Claimed, Blanks, EmbyValues
  <2>2. Moves(r, l, {})
    BY <2>1 DEF Moves
  <2>3. RowsOf(Sub(r)) /\ SessionsOf(Sub(r)) /\ AccountsOf(Sub(r), {})
    BY <1>3 DEF Arrive, embyVars, RowsOf, SessionsOf, AccountsOf
  <2> QED
    BY <2>2, <2>3, MoveKeepsSeparate
<1>4. ASSUME NEW s \in Subs, Expire(s) PROVE SeparateInv'
  <2>1. \A t \in Subs : Claims(t)' \subseteq Claims(t)
    BY <1>4 DEF Expire, TypeInv, TypeOK, CachedSession, Claims, HasRow, Claimed, Sub
  <2> QED
    BY <1>4, <2>1 DEF Expire, embyVars, SeparateInv, NamesOwn, ClaimsNamed, AccountsSeparate, Sub
<1>5. ASSUME NEW i \in Ids, Administer(i) \/ Reenable(i) PROVE SeparateInv'
  <2>1. \A t \in Subs : Claims(t)' = Claims(t)
    BY <1>5 DEF Administer, Reenable, Claims, HasRow, Claimed, Sub
  <2>2. \A j \in Ids : users'[j] # None => users[j] # None /\ users'[j].name = users[j].name
    BY <1>5 DEF Administer, Reenable, Exists, EmbyDelete, EmbyDisable, EmbySetPassword,
                EmbyRevoke, EmbyEnable, TypeInv, TypeOK, EmbyTypeOK, Account
  <2>3. \A t \in Subs : Claims(t) \subseteq Ids
    BY DEF Claims
  <2> QED
    BY <1>5, <2>1, <2>2, <2>3
       DEF Administer, Reenable, SeparateInv, NamesOwn, ClaimsNamed, AccountsSeparate, Sub
<1>6. CASE Crash
  <2>1. Claimed(Blanks("idle")) = {}
    BY SentinelsAssumption DEF Claimed, Blanks, EmbyValues
  <2>2. \A t \in Subs : Claims(t)' \subseteq Claims(t)
    BY <1>6, <2>1 DEF Crash, Claims, HasRow, Sub, Claimed
  <2> QED
    BY <1>6, <2>2 DEF Crash, embyVars, SeparateInv, NamesOwn, ClaimsNamed, AccountsSeparate, Sub, Blanks
<1> QED
  BY <1>1, <1>2, <1>3, <1>4, <1>5, <1>6 DEF Next

\* When the identity provider gives no two subjects one name, no account ever
\* serves two of them: for any number of overlapping requests, failures,
\* crashes and restarts.
THEOREM Separation == DisjointNames /\ Spec => []AccountsSeparate
<1> SUFFICES ASSUME DisjointNames PROVE Spec => []AccountsSeparate
  OBVIOUS
<1>1. SeparateInv => AccountsSeparate
  BY DEF SeparateInv
<1>2. TypeInv /\ TypeInv' /\ SeparateInv /\ [Next]_vars => SeparateInv'
  BY SeparateNext
<1>3. Spec => []TypeInv
  BY TypeInit, TypeStep, PTL DEF Spec
<1> QED
  BY <1>1, <1>2, <1>3, SeparateInit, PTL DEF Spec

----------------------------------------------------------------------------
(* The stored password is Emby's.                                           *)

RowOK(s) ==
    HasRow(s) => LET u == users[db[s].id]
                 IN  u # None => u.pw \in {db[s].pw, Foreign}

\* From the lookup to the insertion a request's subject has no row, and what
\* is about to be inserted has been set in Emby.
Provisioning ==
    {"lookup", "create", "getPw", "resetPw", "setPw", "policy", "insert"}
ReadyToInsert(r) ==
    /\ req[r].pc \in Provisioning => ~HasRow(Sub(r))
    /\ req[r].pc \in {"policy", "insert"} =>
          LET u == users[req[r].id] IN u # None => u.pw \in {req[r].pw, Foreign}

\* RowMatchesEmby is not inductive: it holds after an insertion because of
\* what ReadyToInsert says before it.
RowInv ==
    /\ \A s \in Subs : RowOK(s)
    /\ \A r \in Reqs : ReadyToInsert(r)

\* Account i, if it exists after a step, has the password it had, or one an
\* administrator gave it.
PasswordKept(i) ==
    users'[i] # None => users[i] # None /\ users'[i].pw \in {users[i].pw, Foreign}

\* A step of request r touches its subject's row and accounts only.
LEMMA RowStep ==
    ASSUME TypeInv, SeparateInv, Sequential, RowInv, NEW r \in Reqs,
           \A p \in Reqs : p # r => req'[p] = req[p],
           \A t \in Subs : t # Sub(r) => db'[t] = db[t],
           \A i \in Ids : i \in Claims(Sub(r)) \/ i \in FreshIds \/ PasswordKept(i),
           RowOK(Sub(r))', ReadyToInsert(r)'
    PROVE  RowInv'
<1>1. Sub(r) \in Subs /\ \A p \in Reqs : Sub(p) \in Subs /\ Sub(p)' = Sub(p)
  BY SubOfAssumption DEF Sub
<1>2. \A t \in Subs : t # Sub(r) => \A i \in Claims(t) : i \in Ids /\ PasswordKept(i)
  <2> SUFFICES ASSUME NEW t \in Subs, t # Sub(r), NEW i \in Claims(t)
               PROVE  i \in Ids /\ PasswordKept(i)
    OBVIOUS
  <2>1. i \in Ids
    BY DEF Claims
  <2>2. i \notin Claims(Sub(r))
    BY <1>1 DEF SeparateInv, AccountsSeparate
  <2>3. i \notin FreshIds
    BY FreshIsUnclaimed
  <2> QED
    BY <2>1, <2>2, <2>3
<1>3. ASSUME NEW t \in Subs, t # Sub(r) PROVE RowOK(t)'
  <2> SUFFICES ASSUME db[t] # None PROVE RowOK(t)'
    BY <1>3 DEF RowOK, HasRow
  <2>1. db[t].id \in Claims(t)
    BY DEF TypeInv, TypeOK, DBTypeOK, Row, Claims, HasRow
  <2>2. RowOK(t)
    BY DEF RowInv
  <2> QED
    BY <1>2, <1>3, <2>1, <2>2 DEF RowOK, HasRow, PasswordKept
<1>4. ASSUME NEW p \in Reqs, p # r PROVE ReadyToInsert(p)'
  <2>1. Sub(p) # Sub(r)
    BY <1>4 DEF Sequential, Sub
  <2>2. req'[p] = req[p] /\ db'[Sub(p)] = db[Sub(p)]
    BY <1>1, <1>4, <2>1
  <2>3. ReadyToInsert(p)
    BY DEF RowInv
  <2>4. req[p].pc \in {"policy", "insert"} => req[p].id \in Claims(Sub(p))
    BY <1>1 DEF TypeInv, TypeOK, Request, LocalsSet, Provided, Claims, Claimed
  <2> QED
    BY <1>1, <1>2, <2>1, <2>2, <2>3, <2>4 DEF ReadyToInsert, HasRow, PasswordKept
<1> QED
  BY <1>1, <1>3, <1>4 DEF RowInv

\* A step of r that leaves the table alone, sets no password and does not
\* enter provisioning.
LEMMA RowPlainStep ==
    ASSUME TypeInv, SeparateInv, Sequential, RowInv, NEW r \in Reqs, NEW l,
           req' = [req EXCEPT ![r] = l], UNCHANGED db,
           \A i \in Ids : PasswordKept(i),
           l.pc \in Provisioning => ~HasRow(Sub(r)),
           l.pc \in {"policy", "insert"} =>
              /\ l.id \in Ids
              /\ users[l.id] # None => users[l.id].pw \in {l.pw, Foreign}
    PROVE  RowInv'
<1>1. Sub(r) \in Subs /\ Sub(r)' = Sub(r) /\ req \in [Reqs -> Request]
  BY SubOfAssumption DEF Sub, TypeInv, TypeOK
<1>2. RowOK(Sub(r))'
  <2>1. db[Sub(r)] # None => db[Sub(r)].id \in Ids
    BY <1>1 DEF TypeInv, TypeOK, DBTypeOK, Row
  <2> QED
    BY <1>1, <2>1 DEF RowInv, RowOK, HasRow, PasswordKept
<1>3. ReadyToInsert(r)'
  BY <1>1 DEF ReadyToInsert, HasRow, PasswordKept
<1> QED
  BY <1>1, <1>2, <1>3, RowStep

\* The three fields that matter of a request that goes on or answers.
LEMMA GotoFields ==
    ASSUME NEW r, NEW l \in Request, NEW pc, Goto(r, l, pc)
    PROVE  \E m : /\ req' = [req EXCEPT ![r] = m]
                  /\ m.pc = pc /\ m.id = l.id /\ m.pw = l.pw
<1> DEFINE m == [l EXCEPT !.pc = pc]
<1>1. m.pc = pc /\ m.id = l.id /\ m.pw = l.pw
  BY DEF Request
<1> QED
  BY <1>1 DEF Goto

LEMMA ReplyFields ==
    ASSUME NEW r, NEW code \in Responses, Reply(r, code)
    PROVE  \E m : req' = [req EXCEPT ![r] = m] /\ m.pc \notin Provisioning
<1>1. Blanks(code).pc \notin Provisioning
  BY DEF Blanks, Responses, Provisioning
<1> QED
  BY <1>1 DEF Reply

LEMMA HandleKeepsRows ==
    ASSUME TypeInv, SeparateInv, Sequential, RowInv, NEW r \in Reqs, Handle(r)
    PROVE  RowInv'
<1> DEFINE q == req[r]
<1> DEFINE s == Sub(r)
<1>1. /\ s \in Subs /\ q \in Request /\ LocalsSet(q) /\ req \in [Reqs -> Request]
      /\ users \in [Ids -> Account \cup {None}]
      /\ db \in [Subs -> Row \cup {None}]
      /\ cache \in [Subs -> CachedSession \cup {None}]
      /\ ReadyToInsert(r) /\ RowOK(s)
      /\ s' = s
      /\ q.id \in Ids => q.id \in Claims(s)
  BY SubOfAssumption
     DEF TypeInv, TypeOK, EmbyTypeOK, DBTypeOK, Sub, RowInv, Claims, Claimed
<1>2. ASSUME UNCHANGED <<users, db>>, NEW l \in Request, NEW pc, Goto(r, l, pc),
             pc \in Provisioning => ~HasRow(s),
             pc \notin {"policy", "insert"}
      PROVE  RowInv'
  <2> PICK m : req' = [req EXCEPT ![r] = m] /\ m.pc = pc
    BY <1>2, GotoFields
  <2> QED
    BY <1>2, RowPlainStep DEF PasswordKept
<1>3. ASSUME UNCHANGED db, NEW code \in Responses, Reply(r, code), \A i \in Ids : PasswordKept(i)
      PROVE  RowInv'
  BY <1>3, ReplyFields, RowPlainStep DEF Provisioning
<1>4. CASE LoadSession(r)
  <2>1. CASE Go(r, "find") \/ Go(r, "evict")
    BY <1>1, <1>2, <1>4, <2>1 DEF LoadSession, Go, embyVars, Provisioning
  <2>2. CASE cache[s] # None /\ Goto(r, [q EXCEPT !.sess = cache[s].sess], "serve")
    <3>1. [q EXCEPT !.sess = cache[s].sess] \in Request
      BY <1>1, <2>2 DEF Request, CachedSession
    <3> QED
      BY <1>2, <1>4, <2>2, <3>1 DEF LoadSession, embyVars, Provisioning
  <2> QED
    BY <1>4, <2>1, <2>2 DEF LoadSession
<1>5. CASE EvictExpired(r) \/ DropSession(r) \/ StoreSession(r)
  BY <1>1, <1>2, <1>5 DEF EvictExpired, DropSession, StoreSession, Go, embyVars, Provisioning
<1>6. CASE Invalidate(r)
  BY <1>3, <1>6 DEF Invalidate, Responses, embyVars, PasswordKept
<1>7. CASE FindUserBySub(r)
  <2>1. UNCHANGED <<users, db>>
    BY <1>7 DEF FindUserBySub, DBFails, embyVars
  <2>2. CASE Reply(r, "500")
    BY <1>3, <2>1, <2>2 DEF Responses, PasswordKept
  <2>3. CASE db[s] = None /\ Go(r, "lookup")
    BY <1>1, <1>2, <2>1, <2>3 DEF Go, HasRow
  <2>4. CASE /\ db[s] # None
             /\ Goto(r, [q EXCEPT !.rec = db[s], !.id = db[s].id, !.pw = db[s].pw], "getUser")
    <3>1. [q EXCEPT !.rec = db[s], !.id = db[s].id, !.pw = db[s].pw] \in Request
      BY <1>1, <2>4 DEF Request, Row
    <3> QED
      BY <1>2, <2>1, <2>4, <3>1 DEF Provisioning
  <2> QED
    BY <1>7, <2>2, <2>3, <2>4 DEF FindUserBySub, DBFails
<1>8. CASE GetUser(r)
  <2>1. UNCHANGED <<users, db>>
    BY <1>8 DEF GetUser, EmbyRead, embyVars
  <2>2. CASE Go(r, "auth")
    BY <1>1, <1>2, <2>1, <2>2 DEF Go, Provisioning
  <2>3. CASE users[q.id] # None /\ Goto(r, [q EXCEPT !.was = users[q.id].name], "checkName")
    <3>1. q.id \in Ids
      BY <1>1, <1>8 DEF GetUser, At, Request, LocalsSet, Provided
    <3>2. [q EXCEPT !.was = users[q.id].name] \in Request
      BY <1>1, <2>3, <3>1 DEF Request, Account
    <3> QED
      BY <1>2, <2>1, <2>3, <3>2 DEF Provisioning
  <2> QED
    BY <1>8, <2>2, <2>3 DEF GetUser, EmbyRead
<1>9. CASE CheckName(r)
  <2>1. UNCHANGED <<users, db>>
    BY <1>9 DEF CheckName, EmbyRead, embyVars
  <2>2. [q EXCEPT !.name = q.was, !.was = None] \in Request
    BY <1>1 DEF Request
  <2> QED
    BY <1>1, <1>2, <1>9, <2>1, <2>2 DEF CheckName, EmbyRead, Go, Provisioning
<1>10. CASE Rename(r)
  <2>1. UNCHANGED db
    BY <1>10 DEF Rename
  <2>2. \A i \in Ids : PasswordKept(i)
    BY <1>1, <1>10
       DEF Rename, UpdateUserName, EmbyWrite, EmbyRename, Exists, embyVars, PasswordKept, Account
  <2>3. ASSUME NEW l \in Request, Goto(r, l, "auth") PROVE RowInv'
    <3> PICK m : req' = [req EXCEPT ![r] = m] /\ m.pc = "auth"
      BY <2>3, GotoFields
    <3> QED
      BY <2>1, <2>2, RowPlainStep DEF Provisioning
  <2>4. [q EXCEPT !.was = None] \in Request /\ [q EXCEPT !.name = q.was, !.was = None] \in Request
    BY <1>1 DEF Request
  <2> QED
    BY <1>10, <2>3, <2>4 DEF Rename, UpdateUserName, EmbyWrite
<1>11. CASE Lookup(r)
  <2>1. UNCHANGED <<users, db>> /\ ~HasRow(s)
    BY <1>1, <1>11 DEF Lookup, EmbyRead, embyVars, At, ReadyToInsert, Provisioning
  <2>2. CASE Reply(r, "503")
    BY <1>3, <2>1, <2>2 DEF Responses, PasswordKept
  <2>3. ASSUME NEW p \in Draw(FreshPasswords), Adopt(r, FindUserByName(q.name), p)
        PROVE  RowInv'
    <3>1. p \in Passwords /\ FindUserByName(q.name) \in Ids \cup {None}
      BY DrawIsFresh, FoundIsAccount DEF FreshPasswords
    <3>2. [q EXCEPT !.id = FindUserByName(q.name), !.pw = p] \in Request
      BY <1>1, <3>1 DEF Request
    <3> QED
      BY <1>2, <2>1, <2>3, <3>2 DEF Adopt
  <2> QED
    BY <1>11, <2>2, <2>3 DEF Lookup, EmbyRead
<1>12. CASE GetForPassword(r)
  <2>1. UNCHANGED <<users, db>> /\ ~HasRow(s)
    BY <1>1, <1>12 DEF GetForPassword, EmbyRead, embyVars, At, ReadyToInsert, Provisioning
  <2>2. CASE Go(r, "resetPw") \/ Go(r, "setPw")
    BY <1>1, <1>2, <2>1, <2>2 DEF Go
  <2>3. CASE Reply(r, "500")
    BY <1>3, <2>1, <2>3 DEF Responses, PasswordKept
  <2> QED
    BY <1>12, <2>2, <2>3 DEF GetForPassword, EmbyRead
<1>13. CASE UpdatePolicy(r)
  <2>1. /\ q.id \in Ids /\ q.pw \in Passwords /\ ~HasRow(s)
        /\ users[q.id] # None => users[q.id].pw \in {q.pw, Foreign}
    BY <1>1, <1>13
       DEF UpdatePolicy, At, Request, LocalsSet, Provided, ReadyToInsert, Provisioning
  <2>2. UNCHANGED db /\ \A i \in Ids : PasswordKept(i)
    BY <1>1, <1>13 DEF UpdatePolicy, UpdatePolicyRaw, EmbyWrite, EmbyEnable, Exists, embyVars, PasswordKept, Account
  <2>3. CASE Go(r, "insert")
    <3> PICK m : req' = [req EXCEPT ![r] = m] /\ m.pc = "insert" /\ m.id = q.id /\ m.pw = q.pw
      BY <1>1, <2>3, GotoFields DEF Go
    <3> QED
      BY <2>1, <2>2, RowPlainStep
  <2>4. CASE Reply(r, "500")
    BY <1>3, <2>2, <2>4 DEF Responses
  <2> QED
    BY <1>13, <2>3, <2>4 DEF UpdatePolicy, UpdatePolicyRaw, EmbyWrite
<1>14. CASE Authenticate(r)
  <2>1. UNCHANGED <<users, db>>
    BY <1>14 DEF Authenticate, EmbyIssue, embyVars
  <2>2. CASE Go(r, "dropSession")
    BY <1>1, <1>2, <2>1, <2>2 DEF Go, Provisioning
  <2>3. CASE Reply(r, "401")
    BY <1>3, <2>1, <2>3 DEF Responses, PasswordKept
  <2>4. ASSUME NEW i \in Accepting(q.name, q.pw), NEW t \in Draw(FreshTokens),
               Goto(r, [q EXCEPT !.sess = [id |-> i, tok |-> t]], "store")
        PROVE  RowInv'
    <3>1. [id |-> i, tok |-> t] \in Session
      BY DrawIsFresh DEF Accepting, Named, FreshTokens, Session
    <3>2. [q EXCEPT !.sess = [id |-> i, tok |-> t]] \in Request
      BY <1>1, <3>1 DEF Request
    <3> QED
      BY <1>2, <2>1, <2>4, <3>2 DEF Provisioning
  <2> QED
    BY <1>14, <2>2, <2>3, <2>4 DEF Authenticate
<1>15. CASE Recheck(r)
  <2>1. UNCHANGED <<users, db>>
    BY <1>15 DEF Recheck, EmbyRead, embyVars
  <2>2. CASE Reply(r, "503")
    BY <1>3, <2>1, <2>2 DEF Responses, PasswordKept
  <2>3. CASE Goto(r, [q EXCEPT !.id = FindUserByName(q.name)], "deleteRow")
    <3>1. [q EXCEPT !.id = FindUserByName(q.name)] \in Request
      BY <1>1, FoundIsAccount DEF Request
    <3> QED
      BY <1>2, <2>1, <2>3, <3>1 DEF Provisioning
  <2> QED
    BY <1>15, <2>2, <2>3 DEF Recheck, EmbyRead
<1>16. CASE Forward(r)
  <2>1. UNCHANGED <<users, db>>
    BY <1>16 DEF Forward, EmbyRead, embyVars
  <2>2. CASE Go(r, "invalidate")
    BY <1>1, <1>2, <2>1, <2>2 DEF Go, Provisioning
  <2>3. CASE Reply(r, "200") \/ Reply(r, "502")
    BY <1>3, <2>1, <2>3 DEF Responses, PasswordKept
  <2> QED
    BY <1>16, <2>2, <2>3 DEF Forward, EmbyRead
<1>17. CASE Create(r)
  <2> PICK i \in Draw(FreshIds) :
        EmbyWrite(Named(q.name) = {}, EmbyCreate(i, q.name),
                  Goto(r, [q EXCEPT !.id = i, !.made = TRUE], "getPw"), Reply(r, "500"))
    BY <1>17 DEF Create, CreateUser
  <2>1. i \in FreshIds /\ i \in Ids
    BY DrawIsFresh DEF FreshIds
  <2>2. UNCHANGED db /\ ~HasRow(s)
    BY <1>1, <1>17 DEF Create, At, ReadyToInsert, Provisioning
  <2>3. \A j \in Ids : j \in FreshIds \/ PasswordKept(j)
    BY <1>1, <2>1 DEF EmbyWrite, EmbyCreate, embyVars, PasswordKept
  <2>4. [q EXCEPT !.id = i, !.made = TRUE] \in Request
    BY <1>1, <2>1 DEF Request
  <2>5. PICK m : req' = [req EXCEPT ![r] = m] /\ m.pc \notin {"policy", "insert"}
    <3>1. CASE Goto(r, [q EXCEPT !.id = i, !.made = TRUE], "getPw")
      <4> DEFINE l == [q EXCEPT !.id = i, !.made = TRUE]
      <4> HIDE DEF l
      <4>1. l \in Request /\ Goto(r, l, "getPw")
        BY <2>4, <3>1 DEF l
      <4>2. PICK m : req' = [req EXCEPT ![r] = m] /\ m.pc = "getPw"
        BY <4>1, GotoFields
      <4> QED
        BY <4>2
    <3>2. CASE Reply(r, "500")
      BY <3>2, ReplyFields DEF Responses, Provisioning
    <3> QED
      BY <3>1, <3>2 DEF EmbyWrite
  <2>6. RowOK(s)' /\ ReadyToInsert(r)'
    BY <1>1, <2>2, <2>5 DEF RowOK, ReadyToInsert, HasRow
  <2> QED
    BY <1>1, <2>2, <2>3, <2>5, <2>6, RowStep
<1>18. CASE ResetPassword(r) \/ SetPassword(r)
  <2>1. q.id \in Ids /\ q.pw \in Passwords /\ q.id \in Claims(s) /\ ~HasRow(s)
    BY <1>1, <1>18
       DEF ResetPassword, SetPassword, At, Request, LocalsSet, Provided, ReadyToInsert, Provisioning
  <2>2. UNCHANGED db
    BY <1>18 DEF ResetPassword, SetPassword
  <2>3. \A j \in Ids : j \in Claims(s) \/ PasswordKept(j)
    BY <1>1, <1>18, <2>1
       DEF ResetPassword, SetPassword, UpdatePasswordReset, UpdatePasswordSet, EmbyWrite, EmbySetPassword, embyVars, PasswordKept
  <2>4. PICK m : /\ req' = [req EXCEPT ![r] = m]
                 /\ m.pc \in {"policy", "insert"} =>
                      /\ m.id = q.id /\ m.pw = q.pw
                      /\ users[q.id] # None
                      /\ users' = [users EXCEPT ![q.id].pw = q.pw]
    <3>1. CASE Reply(r, "500")
      BY <3>1, ReplyFields DEF Responses, Provisioning
    <3>2. CASE Go(r, "setPw")
      BY <1>1, <3>2, GotoFields DEF Go
    <3>3. CASE /\ Go(r, "policy") \/ Go(r, "insert")
               /\ EmbySetPassword(q.id, q.pw) /\ Exists(q.id)
      BY <1>1, <3>3, GotoFields DEF Go, EmbySetPassword, Exists
    <3> QED
      BY <1>18, <3>1, <3>2, <3>3 DEF ResetPassword, SetPassword, UpdatePasswordReset, UpdatePasswordSet, EmbyWrite
  <2>5. RowOK(s)'
    BY <1>1, <2>1, <2>2 DEF RowOK, HasRow
  <2>6. ReadyToInsert(r)'
    <3>1. req'[r] = m /\ ~HasRow(s)'
      BY <1>1, <2>1, <2>2, <2>4 DEF HasRow
    <3>2. m.pc \in {"policy", "insert"} => users'[m.id].pw = m.pw
      BY <1>1, <2>1, <2>4 DEF Account
    <3> QED
      BY <1>1, <3>1, <3>2 DEF ReadyToInsert
  <2> QED
    BY <1>1, <2>2, <2>3, <2>4, <2>5, <2>6, RowStep
<1>19. CASE Insert(r)
  <2>1. /\ q.id \in Ids /\ q.pw \in Passwords
        /\ users[q.id] # None => users[q.id].pw \in {q.pw, Foreign}
    BY <1>1, <1>19 DEF Insert, At, Request, LocalsSet, Provided, ReadyToInsert
  <2>2. users' = users /\ \A i \in Ids : PasswordKept(i)
    BY <1>19 DEF Insert, embyVars, PasswordKept
  <2>3. CASE UNCHANGED db /\ Reply(r, "500")
    BY <1>3, <2>2, <2>3 DEF Responses
  <2>4. CASE InsertUser(s, q.id, q.pw) /\ (Go(r, "auth") \/ Go(r, "retry"))
    <3> PICK m : req' = [req EXCEPT ![r] = m] /\ m.pc \notin Provisioning
      BY <1>1, <2>4, GotoFields DEF Go, Provisioning
    <3>1. RowOK(s)'
      BY <1>1, <2>1, <2>2, <2>4 DEF InsertUser, RowOK, HasRow
    <3>2. ReadyToInsert(r)'
      BY <1>1 DEF ReadyToInsert, Provisioning
    <3>3. \A t \in Subs : t # s => db'[t] = db[t]
      BY <1>1, <2>4 DEF InsertUser
    <3> QED
      BY <1>1, <2>2, <3>1, <3>2, <3>3, RowStep
  <2> QED
    BY <1>19, <2>3, <2>4 DEF Insert, DBFails
<1>20. CASE DeleteRow(r)
  <2>1. users' = users /\ \A i \in Ids : PasswordKept(i)
    BY <1>20 DEF DeleteRow, embyVars, PasswordKept
  <2>2. CASE UNCHANGED db /\ Reply(r, "500")
    BY <1>3, <2>1, <2>2 DEF Responses
  <2>3. ASSUME DeleteUser(s), NEW p \in Draw(FreshPasswords), Adopt(r, q.id, p)
        PROVE  RowInv'
    <3>1. p \in Passwords
      BY DrawIsFresh DEF FreshPasswords
    <3>2. [q EXCEPT !.id = q.id, !.pw = p] \in Request
      BY <1>1, <3>1 DEF Request
    <3> PICK m : req' = [req EXCEPT ![r] = m] /\ m.pc \notin {"policy", "insert"}
      BY <2>3, <3>2, GotoFields DEF Adopt
    <3>3. db' = [db EXCEPT ![s] = None]
      BY <2>3 DEF DeleteUser
    <3>4. RowOK(s)' /\ ReadyToInsert(r)'
      BY <1>1, <3>3 DEF RowOK, ReadyToInsert, HasRow
    <3> QED
      BY <1>1, <2>1, <3>3, <3>4, RowStep
  <2> QED
    BY <1>20, <2>2, <2>3 DEF DeleteRow, DBFails
<1> QED
  BY <1>4, <1>5, <1>6, <1>7, <1>8, <1>9, <1>10, <1>11, <1>12, <1>13, <1>14, <1>15, <1>16,
     <1>17, <1>18, <1>19, <1>20 DEF Handle

LEMMA RowNext ==
    TypeInv /\ SeparateInv /\ Sequential /\ RowInv /\ [Next]_vars => RowInv'
<1> SUFFICES ASSUME TypeInv, SeparateInv, Sequential, RowInv, [Next]_vars
             PROVE  RowInv'
  OBVIOUS
<1>1. CASE UNCHANGED vars
  BY <1>1 DEF vars, RowInv, RowOK, ReadyToInsert, HasRow, Sub
<1>2. ASSUME NEW r \in Reqs, Handle(r) PROVE RowInv'
  BY <1>2, HandleKeepsRows
<1>3. ASSUME NEW r \in Reqs, Arrive(r) PROVE RowInv'
  <2> PICK n : req' = [req EXCEPT ![r] = [Blanks("load") EXCEPT !.name = n]]
    BY <1>3 DEF Arrive
  <2>1. [Blanks("load") EXCEPT !.name = n].pc = "load"
    BY DEF Blanks
  <2>2. UNCHANGED <<users, db>>
    BY <1>3 DEF Arrive, embyVars
  <2> QED
    BY <2>1, <2>2, RowPlainStep DEF PasswordKept, Provisioning
<1>4. ASSUME NEW s \in Subs, Expire(s) PROVE RowInv'
  BY <1>4 DEF Expire, embyVars, RowInv, RowOK, ReadyToInsert, HasRow, Sub
<1>5. ASSUME NEW i \in Ids, Administer(i) \/ Reenable(i) PROVE RowInv'
  <2>1. UNCHANGED <<db, req>>
    BY <1>5 DEF Administer, Reenable
  <2>2. \A j \in Ids : PasswordKept(j)
    BY <1>5 DEF Administer, Reenable, Exists, EmbyDelete, EmbyDisable, EmbySetPassword,
                EmbyRevoke, EmbyEnable, PasswordKept, TypeInv, TypeOK, EmbyTypeOK, Account
  <2>3. ASSUME NEW s \in Subs PROVE RowOK(s)'
    BY <2>1, <2>2 DEF RowInv, RowOK, HasRow, PasswordKept, TypeInv, TypeOK, DBTypeOK, Row
  <2>4. ASSUME NEW r \in Reqs PROVE ReadyToInsert(r)'
    <3>1. req[r].pc \in {"policy", "insert"} => req[r].id \in Ids
      BY DEF TypeInv, TypeOK, Request, LocalsSet, Provided
    <3> QED
      BY <2>1, <2>2, <3>1 DEF RowInv, ReadyToInsert, HasRow, Sub, PasswordKept
  <2> QED
    BY <2>3, <2>4 DEF RowInv
<1>6. CASE Crash
  <2>1. Blanks("idle").pc \notin Provisioning
    BY DEF Blanks, Provisioning
  <2> QED
    BY <1>6, <2>1 DEF Crash, embyVars, RowInv, RowOK, ReadyToInsert, HasRow, Sub, Provisioning
<1> QED
  BY <1>1, <1>2, <1>3, <1>4, <1>5, <1>6 DEF Next

\* When requests of one subject do not overlap and no two subjects share a
\* name, no failure, crash or lost answer, at whatever call it strikes, leaves
\* a row whose password Emby does not have, unless an administrator changed it.
THEOREM StoredPasswordIsEmbys ==
    Sequential /\ DisjointNames /\ Spec => []RowMatchesEmby
<1> SUFFICES ASSUME Sequential, DisjointNames PROVE Spec => []RowMatchesEmby
  OBVIOUS
<1>1. RowInv => RowMatchesEmby
  BY DEF RowInv, RowOK, RowMatchesEmby
<1>2. Init => RowInv
  BY DEF Init, DBInit, RowInv, RowOK, ReadyToInsert, HasRow, Blanks, Provisioning
<1>3. Spec => []TypeInv
  BY TypeInit, TypeStep, PTL DEF Spec
<1>4. TypeInv /\ TypeInv' /\ SeparateInv /\ [Next]_vars => SeparateInv'
  BY SeparateNext
<1>5. TypeInv /\ SeparateInv /\ RowInv /\ [Next]_vars => RowInv'
  BY RowNext
<1> QED
  BY <1>1, <1>2, <1>3, <1>4, <1>5, SeparateInit, PTL DEF Spec

----------------------------------------------------------------------------
(* What documents say, and what it takes to make it true.                   *)

\* "If the preferred username is already taken by another Emby user during
\* account creation, provisioning fails": no account is linked to two subjects,
\* if the identity provider keeps their names apart (linked_once.cfg: only then).
THEOREM NamesApartLinkOnce == DisjointNames /\ Spec => []LinkedOnce
<1>1. TypeOK /\ AccountsSeparate => LinkedOnce
  <2> SUFFICES ASSUME TypeOK, AccountsSeparate, NEW s \in Subs, NEW t \in Subs, s # t,
                      HasRow(s), HasRow(t), db[s].id = db[t].id
               PROVE  FALSE
    BY DEF LinkedOnce
  <2>1. db[s].id \in Ids
    BY DEF TypeOK, DBTypeOK, HasRow, Row
  <2>2. db[s].id \in Claims(s) /\ db[s].id \in Claims(t)
    BY <2>1 DEF Claims
  <2> QED
    BY <2>2 DEF AccountsSeparate
<1> QED
  BY <1>1, TypeCorrect, Separation, PTL

\* "Use these credentials to sign in on Emby TV and mobile apps": with requests
\* of one subject one at a time (race_credentials.cfg: only then) the password
\* shown is Emby's, or an administrator's.
THEOREM OneAtATimeCredentialsUsable ==
    Sequential /\ DisjointNames /\ Spec => []CredentialsUsable
<1>1. RowMatchesEmby => CredentialsUsable
  BY DEF RowMatchesEmby, CredentialsUsable
<1> QED
  BY <1>1, StoredPasswordIsEmbys, PTL
====
