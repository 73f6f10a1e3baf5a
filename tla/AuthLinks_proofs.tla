---- MODULE AuthLinks_proofs ----
(***************************************************************************)
(* AuthMiddleware implements CredentialLedger; a session is one of the     *)
(* account that was linked, and of the account in the row; and a subject   *)
(* stays with its account.                                                 *)
(***************************************************************************)
EXTENDS AuthMiddleware_proofs

\* The password of account i as the ledger has it.
PwOf(i) == IF users[i] = None THEN None ELSE users[i].pw

\* A step that leaves the table and every password alone.
LEMMA LedgerStutters ==
    ASSUME UNCHANGED db, \A i \in Ids : PwOf(i)' = PwOf(i)
    PROVE  UNCHANGED Ledger!ledgerVars
BY DEF Ledger!ledgerVars, PwOf

\* A step that changes one password: that of an account no row names.
LEMMA LedgerPassword ==
    ASSUME NEW i \in Ids, NEW p \in Passwords \cup {Blank},
           \A s \in Subs : db[s] = None \/ db[s].id # i,
           UNCHANGED db, PwOf(i)' = p, \A j \in Ids : j # i => PwOf(j)' = PwOf(j)
    PROVE  Ledger!LedgerNext
<1>1. Ledger!ChangePassword(i, p)
  BY DEF Ledger!ChangePassword, Ledger!Unlinked, PwOf
<1> QED
  BY <1>1 DEF Ledger!LedgerNext

\* An administrator's.
LEMMA LedgerIntervention ==
    ASSUME NEW i \in Ids, NEW p \in {None, Foreign}, PwOf(i) # None,
           UNCHANGED db, PwOf(i)' = p, \A j \in Ids : j # i => PwOf(j)' = PwOf(j)
    PROVE  Ledger!LedgerNext
<1>1. Ledger!Intervene(i, p)
  BY DEF Ledger!Intervene, PwOf
<1> QED
  BY <1>1 DEF Ledger!LedgerNext

\* The account a request works on while its subject has no row is in no row.
LEMMA ClaimedIsUnlinked ==
    ASSUME SeparateInv, NEW s \in Subs, ~HasRow(s), NEW i \in Claims(s), NEW t \in Subs
    PROVE  db[t] = None \/ db[t].id # i
<1>1. i \in Ids
  BY DEF Claims
<1>2. t # s /\ HasRow(t) /\ db[t].id = i => i \in Claims(t)
  BY <1>1 DEF Claims
<1> QED
  BY <1>2 DEF SeparateInv, AccountsSeparate, HasRow

LEMMA FreshIsUnlinked ==
    ASSUME NEW i \in FreshIds, NEW t \in Subs
    PROVE  db[t] = None \/ db[t].id # i
BY DEF FreshIds, HasRow

\* Creating, resetting and setting a password, with the request that does.
LEMMA PasswordStep ==
    ASSUME TypeInv, SeparateInv, RowInv, NEW r \in Reqs,
           Create(r) \/ ResetPassword(r) \/ SetPassword(r)
    PROVE  Ledger!LedgerNext \/ UNCHANGED Ledger!ledgerVars
<1> DEFINE q == req[r]
<1>1. /\ Sub(r) \in Subs /\ q \in Request /\ LocalsSet(q)
      /\ users \in [Ids -> Account \cup {None}]
      /\ UNCHANGED db
      /\ None \notin Account
  BY SubOfAssumption, NoneIsNoRecord
     DEF TypeInv, TypeOK, EmbyTypeOK, Sub, Create, ResetPassword, SetPassword
<1>2. ~HasRow(Sub(r))
  BY DEF RowInv, ReadyToInsert, Provisioning, Create, ResetPassword, SetPassword, At
<1>3. CASE users' = users
  BY <1>1, <1>3, LedgerStutters DEF PwOf
<1>4. CASE Create(r)
  <2> PICK i \in Draw(FreshIds) :
        EmbyWrite(Named(q.name) = {}, EmbyCreate(i, q.name),
                  Goto(r, [q EXCEPT !.id = i, !.made = TRUE], "getPw"), Reply(r, "500"))
    BY <1>4 DEF Create, CreateUser
  <2>1. i \in FreshIds /\ i \in Ids
    BY DrawIsFresh DEF FreshIds
  <2>2. CASE EmbyCreate(i, q.name)
    <3>1. q.name \in Names
      BY <1>1, <1>4 DEF Create, At, Request, LocalsSet, Provided, Steps
    <3>2. users'[i] \in Account /\ users'[i].pw = Blank
      BY <1>1, <2>1, <2>2, <3>1, TemplateAssumption DEF EmbyCreate, Account
    <3>3. PwOf(i)' = Blank /\ \A j \in Ids : j # i => PwOf(j)' = PwOf(j)
      BY <1>1, <2>1, <2>2, <3>2 DEF EmbyCreate, PwOf
    <3> QED
      BY <1>1, <2>1, <3>3, FreshIsUnlinked, LedgerPassword
  <2> QED
    BY <1>3, <2>2 DEF EmbyWrite, embyVars
<1>5. CASE ResetPassword(r) \/ SetPassword(r)
  <2>1. q.id \in Ids /\ q.pw \in Passwords /\ q.id \in Claims(Sub(r))
    BY <1>1, <1>5
       DEF ResetPassword, SetPassword, At, Request, LocalsSet, Provided, Claims, Claimed
  <2>2. ASSUME NEW p \in Passwords \cup {Blank}, NEW i \in Ids, i = q.id,
               Exists(i), EmbySetPassword(i, p)
        PROVE  Ledger!LedgerNext
    <3>1. users[i] \in Account
      BY <1>1, <2>2 DEF Exists
    <3>2. users'[i] \in Account /\ users'[i].pw = p
      BY <1>1, <2>2, <3>1 DEF EmbySetPassword, Account
    <3>3. PwOf(i)' = p /\ \A j \in Ids : j # i => PwOf(j)' = PwOf(j)
      BY <1>1, <2>2, <3>2 DEF EmbySetPassword, PwOf
    <3>4. \A t \in Subs : db[t] = None \/ db[t].id # i
      BY <1>1, <1>2, <2>1, <2>2, ClaimedIsUnlinked
    <3> QED
      BY <1>1, <3>3, <3>4, LedgerPassword
  <2> QED
    BY <1>3, <1>5, <2>1, <2>2
       DEF ResetPassword, SetPassword, UpdatePasswordReset, UpdatePasswordSet, EmbyWrite, embyVars
<1> QED
  BY <1>4, <1>5

\* Writing and deleting the row.
LEMMA RowChange ==
    ASSUME TypeInv, SeparateInv, RowInv, NEW r \in Reqs, Insert(r) \/ DeleteRow(r)
    PROVE  Ledger!LedgerNext \/ UNCHANGED Ledger!ledgerVars
<1> DEFINE q == req[r]
<1> DEFINE s == Sub(r)
<1>1. /\ s \in Subs /\ q \in Request /\ LocalsSet(q)
      /\ users \in [Ids -> Account \cup {None}]
      /\ users' = users
      /\ \A i \in Ids : PwOf(i)' = PwOf(i)
  BY SubOfAssumption DEF TypeInv, TypeOK, EmbyTypeOK, Sub, Insert, DeleteRow, embyVars, PwOf
<1>2. CASE UNCHANGED db
  BY <1>1, <1>2, LedgerStutters
<1>3. CASE Insert(r) /\ InsertUser(s, q.id, q.pw)
  <2>1. q.id \in Ids /\ q.pw \in Passwords /\ q.id \in Claims(s) /\ ~HasRow(s)
    BY <1>1, <1>3
       DEF Insert, InsertUser, At, Request, LocalsSet, Provided, Claims, Claimed
  <2>2. PwOf(q.id) \in {q.pw, None, Foreign}
    BY <1>3 DEF Insert, At, RowInv, ReadyToInsert, PwOf
  <2>3. \A t \in Subs : db[t] = None \/ db[t].id # q.id
    BY <1>1, <2>1, ClaimedIsUnlinked
  <2>4. Ledger!LinkTo(s, q.id, q.pw)
    BY <1>1, <1>3, <2>1, <2>2, <2>3
       DEF Ledger!LinkTo, Ledger!Unlinked, InsertUser, HasRow, PwOf
  <2> QED
    BY <1>1, <2>1, <2>4 DEF Ledger!LedgerNext
<1>4. CASE DeleteUser(s)
  <2>1. Ledger!Unlink(s)
    BY <1>1, <1>4 DEF Ledger!Unlink, DeleteUser, PwOf
  <2> QED
    BY <1>1, <2>1 DEF Ledger!LedgerNext
<1> QED
  BY <1>2, <1>3, <1>4 DEF Insert, DeleteRow, DBFails

\* All other steps of a request change names, policies and sessions only.
LEMMA OtherStep ==
    ASSUME TypeInv, NEW r \in Reqs,
           \/ Arrive(r) \/ LoadSession(r) \/ EvictExpired(r) \/ FindUserBySub(r)
           \/ GetUser(r) \/ CheckName(r) \/ Rename(r) \/ Lookup(r) \/ GetForPassword(r)
           \/ UpdatePolicy(r) \/ Authenticate(r) \/ DropSession(r) \/ Recheck(r)
           \/ StoreSession(r) \/ Forward(r) \/ Invalidate(r)
    PROVE  UNCHANGED Ledger!ledgerVars
<1>1. users \in [Ids -> Account \cup {None}] /\ None \notin Account
  BY NoneIsNoRecord DEF TypeInv, TypeOK, EmbyTypeOK
<1>2. UNCHANGED db
  BY DEF Arrive, LoadSession, EvictExpired, FindUserBySub, DBFails, GetUser, CheckName, Rename,
         Lookup, GetForPassword, UpdatePolicy, Authenticate, DropSession, Recheck, StoreSession,
         Forward, Invalidate
<1>3. \/ UNCHANGED users
      \/ \E i \in Ids, n \in Names : Exists(i) /\ EmbyRename(i, n)
      \/ \E i \in Ids : Exists(i) /\ EmbyEnable(i)
  <2>1. CASE Rename(r)
    <3>1. req[r].id \in Ids /\ req[r].name \in Names
      BY <2>1 DEF Rename, At, TypeInv, TypeOK, Request, LocalsSet, Provided, Steps
    <3> QED
      BY <2>1, <3>1 DEF Rename, UpdateUserName, EmbyWrite, embyVars
  <2>2. CASE UpdatePolicy(r)
    <3>1. req[r].id \in Ids
      BY <2>2 DEF UpdatePolicy, At, TypeInv, TypeOK, Request, LocalsSet, Provided
    <3> QED
      BY <2>2, <3>1 DEF UpdatePolicy, UpdatePolicyRaw, EmbyWrite, embyVars
  <2>3. CASE Authenticate(r)
    BY <2>3 DEF Authenticate, EmbyIssue, embyVars
  <2> QED
    BY <2>1, <2>2, <2>3
       DEF Arrive, LoadSession, EvictExpired, FindUserBySub, GetUser, CheckName, Lookup,
           GetForPassword, DropSession, Recheck, StoreSession, Forward, Invalidate, EmbyRead,
           embyVars
<1>4. \A i \in Ids : PwOf(i)' = PwOf(i)
  <2>1. ASSUME NEW i \in Ids, Exists(i),
               (\E n \in Names : EmbyRename(i, n)) \/ EmbyEnable(i), NEW j \in Ids
        PROVE  PwOf(j)' = PwOf(j)
    <3>1. users[i] \in Account /\ users[i] # None
      BY <1>1, <2>1 DEF Exists
    <3>2. /\ \A n \in Names : /\ [users[i] EXCEPT !.name = n] \in Account
                             /\ [users[i] EXCEPT !.name = n].pw = users[i].pw
          /\ [users[i] EXCEPT !.disabled = FALSE] \in Account
          /\ [users[i] EXCEPT !.disabled = FALSE].pw = users[i].pw
      BY <3>1 DEF Account
    <3>3. users'[i] \in Account /\ users'[i].pw = users[i].pw
      BY <1>1, <2>1, <3>2 DEF EmbyRename, EmbyEnable
    <3>4. j # i => users'[j] = users[j]
      BY <1>1, <2>1 DEF EmbyRename, EmbyEnable
    <3> QED
      BY <1>1, <3>1, <3>3, <3>4 DEF PwOf
  <2> QED
    BY <1>3, <2>1 DEF PwOf
<1> QED
  BY <1>2, <1>4, LedgerStutters

\* What administrators do, and Reenable.
LEMMA OutsideStep ==
    ASSUME TypeInv, NEW i \in Ids, Administer(i) \/ Reenable(i)
    PROVE  Ledger!LedgerNext \/ UNCHANGED Ledger!ledgerVars
<1>1. /\ users \in [Ids -> Account \cup {None}] /\ None \notin Account
      /\ UNCHANGED db /\ users[i] \in Account /\ users[i] # None
  BY NoneIsNoRecord DEF TypeInv, TypeOK, EmbyTypeOK, Administer, Reenable, Exists
<1>2. PwOf(i) # None
  BY <1>1, SentinelsAssumption DEF PwOf, Account, EmbyValues
<1>3. CASE EmbyDelete(i)
  <2>1. PwOf(i)' = None /\ \A j \in Ids : j # i => PwOf(j)' = PwOf(j)
    BY <1>1, <1>3 DEF EmbyDelete, PwOf
  <2> QED
    BY <1>1, <1>2, <2>1, LedgerIntervention
<1>4. CASE EmbySetPassword(i, Foreign)
  <2>1. users'[i] \in Account /\ users'[i].pw = Foreign
    BY <1>1, <1>4 DEF EmbySetPassword, Account
  <2>2. PwOf(i)' = Foreign /\ \A j \in Ids : j # i => PwOf(j)' = PwOf(j)
    BY <1>1, <1>4, <2>1 DEF EmbySetPassword, PwOf
  <2> QED
    BY <1>1, <1>2, <2>2, LedgerIntervention
<1>5. CASE EmbyDisable(i) \/ EmbyEnable(i)
  <2>0. \A b \in BOOLEAN : /\ [users[i] EXCEPT !.disabled = b] \in Account
                            /\ [users[i] EXCEPT !.disabled = b].pw = users[i].pw
    BY <1>1 DEF Account
  <2>1. users'[i] \in Account /\ users'[i].pw = users[i].pw
    BY <1>1, <1>5, <2>0 DEF EmbyDisable, EmbyEnable
  <2>2. \A j \in Ids : PwOf(j)' = PwOf(j)
    BY <1>1, <1>5, <2>1 DEF EmbyDisable, EmbyEnable, PwOf
  <2> QED
    BY <1>1, <2>2, LedgerStutters
<1>6. CASE EmbyRevoke(i)
  BY <1>1, <1>6, LedgerStutters DEF EmbyRevoke, PwOf
<1> QED
  BY <1>3, <1>4, <1>5, <1>6 DEF Administer, Reenable

LEMMA LedgerStep ==
    ASSUME TypeInv, SeparateInv, RowInv, [Next]_vars
    PROVE  [Ledger!LedgerNext]_(Ledger!ledgerVars)
<1>1. CASE UNCHANGED vars
  BY <1>1, LedgerStutters DEF vars, embyVars, PwOf
<1>2. ASSUME NEW r \in Reqs, Arrive(r) \/ Handle(r)
      PROVE  [Ledger!LedgerNext]_(Ledger!ledgerVars)
  BY <1>2, PasswordStep, RowChange, OtherStep DEF Handle
<1>3. ASSUME NEW s \in Subs, Expire(s)
      PROVE  UNCHANGED Ledger!ledgerVars
  BY <1>3, LedgerStutters DEF Expire, embyVars, PwOf
<1>4. CASE Crash
  BY <1>4, LedgerStutters DEF Crash, embyVars, PwOf
<1> QED
  BY <1>1, <1>2, <1>3, <1>4, OutsideStep DEF Next

LEMMA LedgerInitially == Init => Ledger!LedgerInit
<1> SUFFICES ASSUME Init PROVE Ledger!LedgerInit
  OBVIOUS
<1>1. \A i \in Ids : PwOf(i) \in {None, Foreign}
  BY DEF Init, EmbyInit, PwOf
<1> QED
  BY <1>1 DEF Init, DBInit, Ledger!LedgerInit, PwOf

\* When requests of one subject do not overlap and no two subjects share a
\* name, every step of the login flow, whatever call fails and wherever the
\* process is killed, is a step of the ledger or none: no password changes
\* under a row, and a row is written only with the password of an account that
\* no other row names.
THEOREM FlowImplementsLedger == Sequential /\ DisjointNames /\ Spec => ImplementsLedger
<1> SUFFICES ASSUME Sequential, DisjointNames PROVE Spec => ImplementsLedger
  OBVIOUS
<1>1. TypeInv /\ SeparateInv /\ RowInv /\ [Next]_vars => [Ledger!LedgerNext]_(Ledger!ledgerVars)
  BY LedgerStep
<1>2. Init => RowInv
  BY DEF Init, DBInit, RowInv, RowOK, ReadyToInsert, HasRow, Blanks, Provisioning
<1>3. TypeInv /\ TypeInv' /\ SeparateInv /\ [Next]_vars => SeparateInv'
  BY SeparateNext
<1>4. TypeInv /\ SeparateInv /\ RowInv /\ [Next]_vars => RowInv'
  BY RowNext
<1> QED
  BY <1>1, <1>2, <1>3, <1>4, TypeInit, TypeStep, SeparateInit, LedgerInitially, PTL
     DEF Spec, ImplementsLedger, Ledger!LedgerSpec

----------------------------------------------------------------------------
(* Signing in by name yields a session of the account linked by id, because *)
(* a generated password has at most one account.                            *)

\* Password p goes with account i for a request.  (While the account of a
\* recovery has been looked up and has no password yet, the old one is the
\* record's.)
GoesWith(q, i, p) ==
    \/ q.pc # "deleteRow" /\ q.id = i /\ q.pw = p
    \/ q.rec # None /\ q.rec.id = i /\ q.rec.pw = p

\* It does somewhere.
Belongs(i, p) ==
    \/ users[i] # None /\ users[i].pw = p
    \/ \E s \in Subs : db[s] # None /\ db[s].id = i /\ db[s].pw = p
    \/ \E r \in Reqs : GoesWith(req[r], i, p)

\* A request has generated password p for an account still to be created.
Awaits(r, p) == req[r].pc = "create" /\ req[r].pw = p

OwnerInv ==
    /\ \A p \in Passwords, i, j \in Ids : Belongs(i, p) /\ Belongs(j, p) => i = j
    /\ \A p \in Passwords, r \in Reqs : Awaits(r, p) =>
          /\ \A i \in Ids : ~Belongs(i, p)
          /\ \A q \in Reqs : Awaits(q, p) => q = r
    /\ SessionOfLinkedAccount

\* Rows and accounts after a step have passwords that belonged to them before.
RowsBelong ==
    \A t \in Subs : db'[t] # None => db'[t] = db[t] \/ Belongs(db'[t].id, db'[t].pw)
AccountsBelong ==
    \A i \in Ids : users'[i] # None /\ users'[i].pw \in Passwords =>
        Belongs(i, users'[i].pw)

\* Nobody has password p, and no request but r is about to give it away.
Unowned(r, p) ==
    /\ \A i \in Ids : ~Belongs(i, p)
    /\ \A q \in Reqs : Awaits(q, p) => q = r

\* A step of request r, whose variables become l, that brings password p to an
\* account, if any, when nobody has it.
LEMMA OwnerStep ==
    ASSUME TypeInv, OwnerInv, NEW r \in Reqs, NEW l, NEW p \in Passwords \cup {None},
           req' = [req EXCEPT ![r] = l], RowsBelong, AccountsBelong,
           p # None => Unowned(r, p),
           \A i \in Ids, k \in Passwords :
              GoesWith(l, i, k) => Belongs(i, k) \/ (k = p /\ l.id = i),
           l.pc = "create" => p # None /\ l.pw = p /\ \A i \in Ids : ~GoesWith(l, i, p),
           l.pc = "store" => l.sess.id = l.id
    PROVE  OwnerInv'
<1>1. req \in [Reqs -> Request] /\ None \notin Passwords
  BY SentinelsAssumption DEF TypeInv, TypeOK, EmbyValues
<1>2. ASSUME NEW i \in Ids, NEW k \in Passwords, Belongs(i, k)'
      PROVE  Belongs(i, k) \/ (k = p /\ l.id = i /\ GoesWith(l, i, k))
  <2>1. CASE users'[i] # None /\ users'[i].pw = k
    BY <2>1 DEF AccountsBelong
  <2>2. ASSUME NEW s \in Subs, db'[s] # None, db'[s].id = i, db'[s].pw = k
        PROVE  Belongs(i, k)
    <3>1. CASE db'[s] = db[s]
      BY <2>2, <3>1 DEF Belongs
    <3>2. CASE Belongs(db'[s].id, db'[s].pw)
      BY <2>2, <3>2
    <3> QED
      BY <2>2, <3>1, <3>2 DEF RowsBelong
  <2>3. ASSUME NEW q \in Reqs, GoesWith(req'[q], i, k)
        PROVE  Belongs(i, k) \/ (k = p /\ l.id = i /\ GoesWith(l, i, k))
    <3>1. CASE q = r
      BY <1>1, <2>3, <3>1
    <3>2. CASE q # r
      BY <1>1, <2>3, <3>2 DEF Belongs
    <3> QED
      BY <3>1, <3>2
  <2>4. \/ users'[i] # None /\ users'[i].pw = k
        \/ \E s \in Subs : db'[s] # None /\ db'[s].id = i /\ db'[s].pw = k
        \/ \E q \in Reqs : GoesWith(req'[q], i, k)
    BY <1>2 DEF Belongs, GoesWith
  <2> QED
    BY <2>1, <2>2, <2>3, <2>4
<1>3. ASSUME NEW k \in Passwords, NEW i \in Ids, NEW j \in Ids, Belongs(i, k)', Belongs(j, k)'
      PROVE  i = j
  <2>1. /\ Belongs(i, k) \/ (k = p /\ l.id = i)
        /\ Belongs(j, k) \/ (k = p /\ l.id = j)
    BY <1>2, <1>3
  <2> QED
    BY <1>1, <2>1 DEF OwnerInv, Unowned
<1>4. ASSUME NEW k \in Passwords, NEW q \in Reqs, Awaits(q, k)'
      PROVE  /\ \A i \in Ids : ~Belongs(i, k)'
             /\ \A o \in Reqs : Awaits(o, k)' => o = q
  <2>1. \A o \in Reqs : o # r => (Awaits(o, k)' => Awaits(o, k))
    BY <1>1 DEF Awaits
  <2>2. Awaits(r, k)' => l.pc = "create" /\ l.pw = k /\ k = p
    BY <1>1 DEF Awaits
  <2>3. CASE q = r
    <3>1. \A i \in Ids : ~Belongs(i, k)'
      BY <1>1, <1>2, <1>4, <2>2, <2>3 DEF Unowned
    <3> QED
      BY <1>1, <1>4, <2>1, <2>2, <2>3, <3>1 DEF Unowned
  <2>4. CASE q # r
    <3>1. Awaits(q, k) /\ \A i \in Ids : ~Belongs(i, k)
      BY <1>4, <2>1, <2>4 DEF OwnerInv
    <3>2. k # p
      BY <1>1, <2>4, <3>1 DEF Unowned
    <3>3. \A i \in Ids : ~Belongs(i, k)'
      BY <1>2, <3>1, <3>2
    <3> QED
      BY <2>1, <2>2, <3>1, <3>2, <3>3 DEF OwnerInv
  <2> QED
    BY <2>3, <2>4
<1>5. SessionOfLinkedAccount'
  BY <1>1 DEF OwnerInv, SessionOfLinkedAccount, At
<1> QED
  BY <1>3, <1>4, <1>5 DEF OwnerInv

\* A step after which no more passwords belong to accounts, and no more
\* accounts are about to be created, than before.
LEMMA OwnerShrinks ==
    ASSUME OwnerInv,
           \A i \in Ids, k \in Passwords : Belongs(i, k)' => Belongs(i, k),
           \A r \in Reqs, k \in Passwords : Awaits(r, k)' => Awaits(r, k),
           SessionOfLinkedAccount'
    PROVE  OwnerInv'
BY DEF OwnerInv

LEMMA KeptBelongs ==
    ASSUME \A i \in Ids : PasswordKept(i)
    PROVE  AccountsBelong
BY SentinelsAssumption DEF PasswordKept, AccountsBelong, Belongs

\* The variables of a request after Goto.
LEMMA GotoIs ==
    ASSUME NEW r \in Reqs, NEW l \in Request, NEW pc, Goto(r, l, pc)
    PROVE  \E m : /\ req' = [req EXCEPT ![r] = m]
                  /\ m.pc = pc /\ m.id = l.id /\ m.pw = l.pw
                  /\ m.rec = l.rec /\ m.sess = l.sess
<1> DEFINE m == [l EXCEPT !.pc = pc]
<1>1. m.pc = pc /\ m.id = l.id /\ m.pw = l.pw /\ m.rec = l.rec /\ m.sess = l.sess
  BY DEF Request
<1>2. req' = [req EXCEPT ![r] = m]
  BY DEF Goto
<1> QED
  BY <1>1, <1>2, Zenon

\* Going on with the account, the password and the record there were.
LEMMA OwnerGoesOn ==
    ASSUME TypeInv, OwnerInv, NEW r \in Reqs, req[r].pc # "deleteRow",
           NEW l \in Request, NEW pc, Goto(r, l, pc), pc # "create",
           l.id = req[r].id, l.pw = req[r].pw, l.rec = req[r].rec,
           pc = "store" => l.sess.id = l.id,
           RowsBelong, AccountsBelong
    PROVE  OwnerInv'
<1> PICK m : /\ req' = [req EXCEPT ![r] = m]
             /\ m.pc = pc /\ m.id = l.id /\ m.pw = l.pw /\ m.rec = l.rec /\ m.sess = l.sess
  BY GotoIs
<1>1. \A i \in Ids, k \in Passwords : GoesWith(m, i, k) => GoesWith(req[r], i, k)
  BY DEF GoesWith
<1>2. \A i \in Ids, k \in Passwords : GoesWith(m, i, k) => Belongs(i, k)
  BY <1>1 DEF Belongs
<1> QED
  BY <1>2, OwnerStep

LEMMA OwnerReplies ==
    ASSUME TypeInv, OwnerInv, NEW r \in Reqs, NEW code \in Responses, Reply(r, code),
           RowsBelong, AccountsBelong
    PROVE  OwnerInv'
<1>1. \A i \in Ids, k \in Passwords : ~GoesWith(Blanks(code), i, k)
  BY SentinelsAssumption DEF GoesWith, Blanks, EmbyValues
<1>2. Blanks(code).pc \notin {"create", "store"}
  BY DEF Blanks, Responses
<1> QED
  BY <1>1, <1>2, OwnerStep DEF Reply

\* A generated password is new.
LEMMA FreshIsUnowned ==
    ASSUME TypeInv, NEW p \in Draw(FreshPasswords), NEW r \in Reqs
    PROVE  p \in Passwords /\ p # None /\ Unowned(r, p)
<1>1. p \in FreshPasswords /\ p \in Passwords
  BY DrawIsFresh DEF FreshPasswords
<1>2. \A i \in Ids : ~Belongs(i, p)
  BY <1>1 DEF FreshPasswords, Belongs, GoesWith, HasRow
<1>3. \A q \in Reqs : ~Awaits(q, p)
  BY <1>1 DEF FreshPasswords, Awaits
<1> QED
  BY <1>1, <1>2, <1>3, SentinelsAssumption DEF Unowned, EmbyValues

LEMMA OwnerAdopts ==
    ASSUME TypeInv, OwnerInv, NEW r \in Reqs, NEW i \in Ids \cup {None},
           NEW p \in Draw(FreshPasswords), Adopt(r, i, p), RowsBelong, AccountsBelong
    PROVE  OwnerInv'
<1> DEFINE q == req[r]
<1> DEFINE l == [q EXCEPT !.id = i, !.pw = p]
<1>1. /\ q \in Request
      /\ p \in Passwords /\ p # None /\ Unowned(r, p)
      /\ None \notin Ids
  BY FreshIsUnowned, SentinelsAssumption DEF TypeInv, TypeOK, EmbyValues
<1>2. l \in Request /\ l.id = i /\ l.pw = p /\ l.rec = q.rec
  BY <1>1 DEF Request
<1>3. Goto(r, l, IF i = None THEN "create" ELSE "getPw")
  BY DEF Adopt
<1> HIDE DEF l
<1> PICK m : /\ req' = [req EXCEPT ![r] = m]
             /\ m.pc = (IF i = None THEN "create" ELSE "getPw")
             /\ m.id = i /\ m.pw = p /\ m.rec = q.rec
  BY <1>2, <1>3, GotoIs
<1>4. ASSUME NEW j \in Ids, NEW k \in Passwords, GoesWith(m, j, k)
      PROVE  Belongs(j, k) \/ (k = p /\ m.id = j)
  BY <1>4 DEF GoesWith, Belongs
<1>5. m.pc # "store" /\ (m.pc = "create" => i = None)
  OBVIOUS
<1>6. m.pc = "create" => \A j \in Ids : ~GoesWith(m, j, p)
  BY <1>1, <1>4, <1>5 DEF Unowned
<1>7. p \in Passwords \cup {None}
  BY <1>1
<1> QED
  BY <1>1, <1>4, <1>5, <1>6, <1>7, OwnerStep

LEMMA HandleKeepsOwner ==
    ASSUME TypeInv, OwnerInv, NEW r \in Reqs, Handle(r)
    PROVE  OwnerInv'
<1> DEFINE q == req[r]
<1> DEFINE s == Sub(r)
<1>1. /\ s \in Subs /\ q \in Request /\ LocalsSet(q)
      /\ users \in [Ids -> Account \cup {None}]
      /\ db \in [Subs -> Row \cup {None}]
      /\ cache \in [Subs -> CachedSession \cup {None}]
      /\ None \notin Ids \cup Passwords
      /\ Blank \notin Passwords /\ Foreign \notin Passwords
  BY SubOfAssumption, SentinelsAssumption
     DEF TypeInv, TypeOK, EmbyTypeOK, DBTypeOK, Sub, EmbyValues
<1>2. UNCHANGED users => AccountsBelong
  BY DEF AccountsBelong, Belongs
<1>3. UNCHANGED db \/ DeleteUser(s) => RowsBelong
  BY <1>1 DEF RowsBelong, DeleteUser
<1>4. ASSUME NEW pc, Go(r, pc), pc \notin {"create", "store"}, q.pc # "deleteRow",
             RowsBelong, AccountsBelong
      PROVE  OwnerInv'
  BY <1>1, <1>4, OwnerGoesOn DEF Go
<1>5. CASE LoadSession(r)
  <2>1. RowsBelong /\ AccountsBelong /\ q.pc # "deleteRow"
    BY <1>2, <1>3, <1>5 DEF LoadSession, embyVars, At
  <2>2. CASE Go(r, "find") \/ Go(r, "evict")
    BY <1>4, <2>1, <2>2
  <2>3. CASE cache[s] # None /\ Goto(r, [q EXCEPT !.sess = cache[s].sess], "serve")
    <3> DEFINE l == [q EXCEPT !.sess = cache[s].sess]
    <3>1. l \in Request /\ l.id = q.id /\ l.pw = q.pw /\ l.rec = q.rec
      BY <1>1, <2>3 DEF Request, CachedSession
    <3> QED
      BY <2>1, <2>3, <3>1, OwnerGoesOn
  <2> QED
    BY <1>5, <2>2, <2>3 DEF LoadSession
<1>6. CASE EvictExpired(r) \/ DropSession(r) \/ StoreSession(r)
  <2>1. RowsBelong /\ AccountsBelong /\ q.pc # "deleteRow"
    BY <1>2, <1>3, <1>6 DEF EvictExpired, DropSession, StoreSession, embyVars, At
  <2> QED
    BY <1>4, <1>6, <2>1 DEF EvictExpired, DropSession, StoreSession
<1>7. CASE Invalidate(r)
  BY <1>2, <1>3, <1>7, OwnerReplies DEF Invalidate, Responses, embyVars
<1>8. CASE FindUserBySub(r)
  <2>1. RowsBelong /\ AccountsBelong /\ q.pc # "deleteRow"
    BY <1>2, <1>3, <1>8 DEF FindUserBySub, DBFails, embyVars, At
  <2>2. CASE Go(r, "lookup")
    BY <1>4, <2>1, <2>2
  <2>3. CASE Reply(r, "500")
    BY <2>1, <2>3, OwnerReplies DEF Responses
  <2>4. CASE /\ db[s] # None
             /\ Goto(r, [q EXCEPT !.rec = db[s], !.id = db[s].id, !.pw = db[s].pw], "getUser")
    <3> DEFINE l == [q EXCEPT !.rec = db[s], !.id = db[s].id, !.pw = db[s].pw]
    <3>1. l \in Request /\ l.id = db[s].id /\ l.pw = db[s].pw /\ l.rec = db[s]
      BY <1>1, <2>4 DEF Request, Row
    <3>2. Goto(r, l, "getUser")
      BY <2>4
    <3> HIDE DEF l
    <3> PICK m : /\ req' = [req EXCEPT ![r] = m] /\ m.pc = "getUser"
                 /\ m.id = db[s].id /\ m.pw = db[s].pw /\ m.rec = db[s]
      BY <3>1, <3>2, GotoIs
    <3>3. \A i \in Ids, k \in Passwords : GoesWith(m, i, k) => Belongs(i, k)
      BY <1>1, <2>4 DEF GoesWith, Belongs
    <3> QED
      BY <2>1, <3>3, OwnerStep
  <2> QED
    BY <1>8, <2>2, <2>3, <2>4 DEF FindUserBySub, DBFails
<1>9. CASE GetUser(r)
  <2>1. RowsBelong /\ AccountsBelong /\ q.pc # "deleteRow"
    BY <1>2, <1>3, <1>9 DEF GetUser, EmbyRead, embyVars, At
  <2>2. CASE Go(r, "auth")
    BY <1>4, <2>1, <2>2
  <2>3. CASE users[q.id] # None /\ Goto(r, [q EXCEPT !.was = users[q.id].name], "checkName")
    <3> DEFINE l == [q EXCEPT !.was = users[q.id].name]
    <3>1. q.id \in Ids
      BY <1>1, <1>9 DEF GetUser, At, Request, LocalsSet, Provided
    <3>2. l \in Request /\ l.id = q.id /\ l.pw = q.pw /\ l.rec = q.rec
      BY <1>1, <2>3, <3>1 DEF Request, Account
    <3> QED
      BY <2>1, <2>3, <3>2, OwnerGoesOn
  <2> QED
    BY <1>9, <2>2, <2>3 DEF GetUser, EmbyRead
<1>10. CASE CheckName(r)
  <2>1. RowsBelong /\ AccountsBelong /\ q.pc # "deleteRow"
    BY <1>2, <1>3, <1>10 DEF CheckName, EmbyRead, embyVars, At
  <2>2. CASE Go(r, "rename")
    BY <1>4, <2>1, <2>2
  <2>3. CASE Goto(r, [q EXCEPT !.name = q.was, !.was = None], "auth")
    <3> DEFINE l == [q EXCEPT !.name = q.was, !.was = None]
    <3>1. l \in Request /\ l.id = q.id /\ l.pw = q.pw /\ l.rec = q.rec
      BY <1>1 DEF Request
    <3> QED
      BY <2>1, <2>3, <3>1, OwnerGoesOn
  <2> QED
    BY <1>10, <2>2, <2>3 DEF CheckName, EmbyRead
<1>11. CASE Rename(r)
  <2>1. q.pc # "deleteRow" /\ RowsBelong
    BY <1>3, <1>11 DEF Rename, At
  <2>2. AccountsBelong
    <3>1. \A i \in Ids : PasswordKept(i)
      BY <1>1, <1>11
         DEF Rename, UpdateUserName, EmbyWrite, EmbyRename, Exists, embyVars, PasswordKept, Account
    <3> QED
      BY <3>1, KeptBelongs
  <2>3. ASSUME NEW l \in Request, Goto(r, l, "auth"),
               l.id = q.id, l.pw = q.pw, l.rec = q.rec
        PROVE  OwnerInv'
    BY <2>1, <2>2, <2>3, OwnerGoesOn
  <2>4. /\ [q EXCEPT !.was = None] \in Request
        /\ [q EXCEPT !.name = q.was, !.was = None] \in Request
    BY <1>1 DEF Request
  <2> QED
    BY <1>1, <1>11, <2>3, <2>4 DEF Rename, UpdateUserName, EmbyWrite, Request
<1>12. CASE Lookup(r)
  <2>1. RowsBelong /\ AccountsBelong
    BY <1>2, <1>3, <1>12 DEF Lookup, EmbyRead, embyVars
  <2>2. FindUserByName(q.name) \in Ids \cup {None}
    BY FoundIsAccount
  <2> QED
    BY <1>12, <2>1, <2>2, OwnerAdopts, OwnerReplies DEF Lookup, EmbyRead, Responses
<1>13. CASE DeleteRow(r)
  <2>1. RowsBelong /\ AccountsBelong
    BY <1>2, <1>3, <1>13 DEF DeleteRow, DBFails, embyVars
  <2>2. q.id \in Ids \cup {None}
    BY <1>1 DEF Request
  <2> QED
    BY <1>13, <2>1, <2>2, OwnerAdopts, OwnerReplies DEF DeleteRow, DBFails, Responses
<1>14. CASE Create(r)
  <2> PICK i \in Draw(FreshIds) :
        EmbyWrite(Named(q.name) = {}, EmbyCreate(i, q.name),
                  Goto(r, [q EXCEPT !.id = i, !.made = TRUE], "getPw"), Reply(r, "500"))
    BY <1>14 DEF Create, CreateUser
  <2>1. i \in Ids
    BY DrawIsFresh DEF FreshIds
  <2>2. RowsBelong
    BY <1>3, <1>14 DEF Create
  <2>3. AccountsBelong
    BY <1>1, <1>2, <2>1 DEF EmbyWrite, EmbyCreate, embyVars, AccountsBelong, Belongs
  <2>4. CASE Reply(r, "500")
    BY <2>2, <2>3, <2>4, OwnerReplies DEF Responses
  <2>5. CASE Goto(r, [q EXCEPT !.id = i, !.made = TRUE], "getPw")
    <3> DEFINE l == [q EXCEPT !.id = i, !.made = TRUE]
    <3>1. l \in Request /\ l.id = i /\ l.pw = q.pw /\ l.rec = q.rec /\ Goto(r, l, "getPw")
      BY <1>1, <2>1, <2>5 DEF Request
    <3> HIDE DEF l
    <3> PICK m : /\ req' = [req EXCEPT ![r] = m]
                 /\ m.pc = "getPw" /\ m.id = i /\ m.pw = q.pw /\ m.rec = q.rec
      BY <3>1, GotoIs
    <3>2. q.pw \in Passwords /\ q.pw # None /\ Awaits(r, q.pw)
      BY <1>1, <1>14 DEF Create, At, Request, LocalsSet, Provided, Awaits
    <3>3. Unowned(r, q.pw)
      BY <3>2 DEF OwnerInv, Unowned
    <3>4. \A j \in Ids, k \in Passwords :
             GoesWith(m, j, k) => Belongs(j, k) \/ (k = q.pw /\ m.id = j)
      BY DEF GoesWith, Belongs
    <3> QED
      BY <2>2, <2>3, <3>2, <3>3, <3>4, OwnerStep
  <2> QED
    BY <2>4, <2>5 DEF EmbyWrite
<1>15. CASE GetForPassword(r)
  <2>1. RowsBelong /\ AccountsBelong /\ q.pc # "deleteRow"
    BY <1>2, <1>3, <1>15 DEF GetForPassword, EmbyRead, embyVars, At
  <2> QED
    BY <1>4, <1>15, <2>1, OwnerReplies DEF GetForPassword, EmbyRead, Responses
<1>16. CASE ResetPassword(r) \/ SetPassword(r) \/ UpdatePolicy(r)
  <2>1. RowsBelong /\ q.pc # "deleteRow"
    BY <1>3, <1>16 DEF ResetPassword, SetPassword, UpdatePolicy, At
  <2>2. Belongs(q.id, q.pw) /\ q.id \in Ids
    BY <1>1, <1>16, <2>1
       DEF ResetPassword, SetPassword, UpdatePolicy, At, Request, LocalsSet, Provided,
           Belongs, GoesWith
  <2>3. AccountsBelong
    <3> SUFFICES ASSUME NEW i \in Ids, users'[i] # None, users'[i].pw \in Passwords
                 PROVE  Belongs(i, users'[i].pw)
      BY DEF AccountsBelong
    <3>1. \/ users[i] # None /\ users'[i].pw = users[i].pw
          \/ users'[i].pw = Blank
          \/ i = q.id /\ users'[i].pw = q.pw
      BY <1>1, <1>16, <2>2
         DEF ResetPassword, SetPassword, UpdatePolicy, UpdatePasswordReset, UpdatePasswordSet,
             UpdatePolicyRaw, EmbyWrite, EmbySetPassword, EmbyEnable, Exists, embyVars, Account
    <3> QED
      BY <1>1, <2>2, <3>1 DEF Belongs
  <2>4. Reply(r, "500") \/ Go(r, "setPw") \/ Go(r, "policy") \/ Go(r, "insert")
    BY <1>16 DEF ResetPassword, SetPassword, UpdatePolicy, UpdatePasswordReset,
           UpdatePasswordSet, UpdatePolicyRaw, EmbyWrite
  <2> QED
    BY <1>4, <2>1, <2>3, <2>4, OwnerReplies DEF Responses
<1>17. CASE Insert(r)
  <2>1. Belongs(q.id, q.pw) /\ q.id \in Ids /\ q.pw \in Passwords /\ q.pc # "deleteRow"
    BY <1>1, <1>17
       DEF Insert, At, Request, LocalsSet, Provided, Belongs, GoesWith
  <2>2. RowsBelong /\ AccountsBelong
    BY <1>1, <1>2, <1>17, <2>1 DEF Insert, DBFails, InsertUser, RowsBelong, embyVars
  <2> QED
    BY <1>4, <1>17, <2>1, <2>2, OwnerReplies DEF Insert, DBFails, Responses
<1>18. CASE Authenticate(r)
  <2>1. RowsBelong /\ AccountsBelong /\ q.pc # "deleteRow"
    BY <1>2, <1>3, <1>18 DEF Authenticate, EmbyIssue, embyVars, At
  <2>2. CASE Go(r, "dropSession") \/ Reply(r, "401")
    BY <1>4, <2>1, <2>2, OwnerReplies DEF Responses
  <2>3. ASSUME NEW i \in Accepting(q.name, q.pw), NEW t \in Draw(FreshTokens),
               Goto(r, [q EXCEPT !.sess = [id |-> i, tok |-> t]], "store")
        PROVE  OwnerInv'
    <3> DEFINE l == [q EXCEPT !.sess = [id |-> i, tok |-> t]]
    <3>1. i \in Ids /\ users[i] # None /\ users[i].pw = q.pw
      BY DEF Accepting, Named
    <3>2. [id |-> i, tok |-> t] \in Session
      BY <3>1, DrawIsFresh DEF FreshTokens, Session
    <3>3. /\ l \in Request /\ l.id = q.id /\ l.pw = q.pw /\ l.rec = q.rec
          /\ l.sess.id = i
      BY <1>1, <3>2 DEF Request
    <3>4. q.id \in Ids
      BY <1>1, <1>18 DEF Authenticate, At, Request, LocalsSet, Provided
    <3>5. q.pw \in Passwords
      BY <1>1, <3>1, SentinelsAssumption DEF Request, Account
    <3>6. i = q.id
      BY <2>1, <3>1, <3>4, <3>5 DEF OwnerInv, Belongs, GoesWith
    <3> QED
      BY <2>1, <2>3, <3>3, <3>6, OwnerGoesOn
  <2> QED
    BY <1>18, <2>2, <2>3 DEF Authenticate
<1>19. CASE Recheck(r)
  <2>1. RowsBelong /\ AccountsBelong /\ q.pc # "deleteRow"
    BY <1>2, <1>3, <1>19 DEF Recheck, EmbyRead, embyVars, At
  <2>2. CASE Reply(r, "503")
    BY <2>1, <2>2, OwnerReplies DEF Responses
  <2>3. CASE Goto(r, [q EXCEPT !.id = FindUserByName(q.name)], "deleteRow")
    <3> DEFINE l == [q EXCEPT !.id = FindUserByName(q.name)]
    <3>1. l \in Request /\ l.rec = q.rec /\ Goto(r, l, "deleteRow")
      BY <1>1, <2>3, FoundIsAccount DEF Request
    <3> HIDE DEF l
    <3> PICK m : /\ req' = [req EXCEPT ![r] = m] /\ m.pc = "deleteRow" /\ m.rec = q.rec
      BY <3>1, GotoIs
    <3>2. \A i \in Ids, k \in Passwords : GoesWith(m, i, k) => Belongs(i, k)
      BY DEF GoesWith, Belongs
    <3> QED
      BY <2>1, <3>2, OwnerStep
  <2> QED
    BY <1>19, <2>2, <2>3 DEF Recheck, EmbyRead
<1>20. CASE Forward(r)
  <2>1. RowsBelong /\ AccountsBelong /\ q.pc # "deleteRow"
    BY <1>2, <1>3, <1>20 DEF Forward, EmbyRead, embyVars, At
  <2> QED
    BY <1>4, <1>20, <2>1, OwnerReplies DEF Forward, EmbyRead, Responses
<1> QED
  BY <1>5, <1>6, <1>7, <1>8, <1>9, <1>10, <1>11, <1>12, <1>13, <1>14, <1>15, <1>16, <1>17,
     <1>18, <1>19, <1>20 DEF Handle

LEMMA OwnerInitially == Init => OwnerInv
<1> SUFFICES ASSUME Init PROVE OwnerInv
  OBVIOUS
<1>1. /\ None \notin Ids \cup Passwords /\ Foreign \notin Passwords
      /\ \A r \in Reqs : req[r] = Blanks("idle")
      /\ \A i \in Ids : users[i] # None => users[i].pw = Foreign
      /\ \A s \in Subs : db[s] = None
  BY SentinelsAssumption DEF Init, EmbyInit, DBInit, EmbyValues
<1>2. \A i \in Ids, k \in Passwords : ~Belongs(i, k)
  BY <1>1 DEF Belongs, GoesWith, Blanks
<1>3. \A r \in Reqs, k \in Passwords : ~Awaits(r, k)
  BY <1>1 DEF Awaits, Blanks
<1>4. SessionOfLinkedAccount
  BY <1>1 DEF SessionOfLinkedAccount, At, Blanks
<1> QED
  BY <1>2, <1>3, <1>4 DEF OwnerInv

LEMMA OwnerNext == TypeInv /\ OwnerInv /\ [Next]_vars => OwnerInv'
<1> SUFFICES ASSUME TypeInv, OwnerInv, [Next]_vars PROVE OwnerInv'
  OBVIOUS
<1>1. ASSUME UNCHANGED <<db, req>>, AccountsBelong PROVE OwnerInv'
  <2>1. ASSUME NEW i \in Ids, NEW k \in Passwords, Belongs(i, k)'
        PROVE  Belongs(i, k)
    BY <1>1, <2>1 DEF Belongs, GoesWith, AccountsBelong
  <2>2. ASSUME NEW r \in Reqs, NEW k \in Passwords, Awaits(r, k)'
        PROVE  Awaits(r, k)
    BY <1>1, <2>2 DEF Awaits
  <2>3. SessionOfLinkedAccount'
    BY <1>1 DEF OwnerInv, SessionOfLinkedAccount, At
  <2> QED
    BY <2>1, <2>2, <2>3, OwnerShrinks
<1>2. CASE UNCHANGED vars
  BY <1>1, <1>2 DEF vars, AccountsBelong, Belongs
<1>3. ASSUME NEW r \in Reqs, Handle(r) PROVE OwnerInv'
  BY <1>3, HandleKeepsOwner
<1>4. ASSUME NEW r \in Reqs, Arrive(r) PROVE OwnerInv'
  <2> PICK n : req' = [req EXCEPT ![r] = [Blanks("load") EXCEPT !.name = n]]
    BY <1>4 DEF Arrive
  <2> DEFINE l == [Blanks("load") EXCEPT !.name = n]
  <2>1. l.pc = "load" /\ l.id = None /\ l.rec = None
    BY DEF Blanks
  <2>2. \A i \in Ids, k \in Passwords : ~GoesWith(l, i, k)
    BY <2>1, SentinelsAssumption DEF GoesWith, EmbyValues
  <2>3. RowsBelong /\ AccountsBelong
    BY <1>4 DEF Arrive, embyVars, RowsBelong, AccountsBelong, Belongs
  <2> QED
    BY <2>1, <2>2, <2>3, OwnerStep
<1>5. ASSUME NEW s \in Subs, Expire(s) PROVE OwnerInv'
  BY <1>1, <1>5 DEF Expire, embyVars, AccountsBelong, Belongs
<1>6. ASSUME NEW i \in Ids, Administer(i) \/ Reenable(i) PROVE OwnerInv'
  <2>1. \A j \in Ids : PasswordKept(j)
    BY <1>6 DEF Administer, Reenable, Exists, EmbyDelete, EmbyDisable, EmbySetPassword,
                EmbyRevoke, EmbyEnable, PasswordKept, TypeInv, TypeOK, EmbyTypeOK, Account
  <2> QED
    BY <1>1, <1>6, <2>1, KeptBelongs DEF Administer, Reenable
<1>7. CASE Crash
  <2>1. /\ UNCHANGED <<users, db>>
        /\ \A r \in Reqs : req'[r] = Blanks("idle")
    BY <1>7 DEF Crash, embyVars
  <2>2. /\ \A i \in Ids, k \in Passwords : ~GoesWith(Blanks("idle"), i, k)
        /\ Blanks("idle").pc \notin {"create", "store"}
    BY SentinelsAssumption DEF GoesWith, Blanks, EmbyValues
  <2>3. ASSUME NEW i \in Ids, NEW k \in Passwords, Belongs(i, k)'
        PROVE  Belongs(i, k)
    BY <2>1, <2>2, <2>3 DEF Belongs, GoesWith
  <2>4. \A r \in Reqs, k \in Passwords : ~Awaits(r, k)'
    BY <2>1, <2>2 DEF Awaits
  <2>5. SessionOfLinkedAccount'
    BY <2>1, <2>2 DEF SessionOfLinkedAccount, At
  <2> QED
    BY <2>3, <2>4, <2>5, OwnerShrinks
<1> QED
  BY <1>2, <1>3, <1>4, <1>5, <1>6, <1>7 DEF Next

\* However requests overlap and names move, the session that signing in by name
\* yields is one of the account the request linked by id: a generated password
\* goes with one account only, in Emby, in the table and in every request.
THEOREM SignInIsLinked == Spec => []SessionOfLinkedAccount
<1>1. OwnerInv => SessionOfLinkedAccount
  BY DEF OwnerInv
<1>2. Spec => []TypeInv
  BY TypeInit, TypeStep, PTL DEF Spec
<1> QED
  BY <1>1, <1>2, OwnerInitially, OwnerNext, PTL DEF Spec

----------------------------------------------------------------------------
(* A cached session and the row, and which row is deleted.                  *)

\* The steps before which the subject's session has been looked for in vain.
Uncached == Steps \ {"load", "evict", "serve", "invalidate"}

\* What a request of subject s with variables q can count on.
Linked(q, s) ==
    /\ q.pc \in Uncached => cache[s] = None
    /\ q.pc \in {"getUser", "checkName", "rename", "auth", "retry", "store"} =>
          HasRow(s) /\ db[s].id = q.id
    /\ q.pc \in {"getUser", "checkName", "rename", "auth"} /\ q.rec # None => db[s] = q.rec
    /\ q.pc \in {"dropSession", "recheck", "deleteRow"} => HasRow(s) /\ db[s] = q.rec

CacheOK(s) == cache[s] # None => HasRow(s) /\ db[s].id = cache[s].sess.id

\* CachedSessionHasRow is not inductive: what is stored and what is deleted was
\* read several calls before.
LinkInv ==
    /\ \A s \in Subs : CacheOK(s)
    /\ \A r \in Reqs : Linked(req[r], Sub(r))

\* A step of request r touches its subject's row and session only.
LEMMA LinkStep ==
    ASSUME TypeInv, Sequential, LinkInv, NEW r \in Reqs, NEW l,
           req' = [req EXCEPT ![r] = l],
           \A t \in Subs : t # Sub(r) => db'[t] = db[t] /\ cache'[t] = cache[t],
           CacheOK(Sub(r))', Linked(req[r], Sub(r))'
    PROVE  LinkInv'
<1>1. \A q \in Reqs : Sub(q) \in Subs /\ Sub(q)' = Sub(q)
  BY SubOfAssumption DEF Sub
<1>2. ASSUME NEW t \in Subs, t # Sub(r) PROVE CacheOK(t)'
  BY <1>2 DEF LinkInv, CacheOK, HasRow
<1>3. ASSUME NEW q \in Reqs, q # r PROVE Linked(req[q], Sub(q))'
  <2>1. Sub(q) # Sub(r) /\ req'[q] = req[q]
    BY <1>3 DEF Sequential, Sub, TypeInv, TypeOK
  <2> QED
    BY <1>1, <2>1 DEF LinkInv, Linked, HasRow
<1> QED
  BY <1>1, <1>2, <1>3 DEF LinkInv

\* One that leaves both alone.
LEMMA LinkPlainStep ==
    ASSUME TypeInv, Sequential, LinkInv, NEW r \in Reqs, NEW l,
           req' = [req EXCEPT ![r] = l], UNCHANGED <<db, cache>>, Linked(l, Sub(r))
    PROVE  LinkInv'
<1>1. Sub(r)' = Sub(r) /\ Sub(r) \in Subs /\ req'[r] = l
  BY SubOfAssumption DEF Sub, TypeInv, TypeOK
<1>2. CacheOK(Sub(r))' /\ Linked(req[r], Sub(r))'
  BY <1>1 DEF LinkInv, CacheOK, Linked, HasRow
<1> QED
  BY <1>2, LinkStep

LEMMA LinkReplies ==
    ASSUME TypeInv, Sequential, LinkInv, NEW r \in Reqs, NEW code \in Responses,
           Reply(r, code), UNCHANGED <<db, cache>>
    PROVE  LinkInv'
<1>1. Blanks(code).pc \notin Steps
  BY DEF Blanks, Responses, Steps
<1>2. Linked(Blanks(code), Sub(r))
  BY <1>1 DEF Linked, Uncached, Steps
<1> QED
  BY <1>2, LinkPlainStep DEF Reply

LEMMA HandleKeepsLink ==
    ASSUME TypeInv, Sequential, LinkInv, SessionOfLinkedAccount, NEW r \in Reqs, Handle(r)
    PROVE  LinkInv'
<1> DEFINE q == req[r]
<1> DEFINE s == Sub(r)
<1>1. /\ s \in Subs /\ s' = s /\ q \in Request /\ LocalsSet(q) /\ req \in [Reqs -> Request]
      /\ users \in [Ids -> Account \cup {None}]
      /\ db \in [Subs -> Row \cup {None}]
      /\ cache \in [Subs -> CachedSession \cup {None}]
      /\ CacheOK(s) /\ Linked(q, s)
  BY SubOfAssumption DEF TypeInv, TypeOK, EmbyTypeOK, DBTypeOK, Sub, LinkInv
\* Where a request without its session may go with its account and record.
<1>2. ASSUME UNCHANGED <<db, cache>>, NEW l \in Request, NEW pc \in Steps, Goto(r, l, pc),
             pc \in Uncached => cache[s] = None,
             pc \in {"getUser", "checkName", "rename", "auth", "retry", "store"} =>
                HasRow(s) /\ db[s].id = l.id,
             pc \in {"getUser", "checkName", "rename", "auth"} /\ l.rec # None => db[s] = l.rec,
             pc \in {"dropSession", "recheck", "deleteRow"} => HasRow(s) /\ db[s] = l.rec
      PROVE  LinkInv'
  <2> PICK m : /\ req' = [req EXCEPT ![r] = m]
               /\ m.pc = pc /\ m.id = l.id /\ m.pw = l.pw /\ m.rec = l.rec /\ m.sess = l.sess
    BY <1>2, GotoIs
  <2>1. Linked(m, s)
    BY <1>2 DEF Linked
  <2> QED
    BY <1>2, <2>1, LinkPlainStep
<1>3. CASE LoadSession(r)
  <2>1. UNCHANGED <<db, cache>>
    BY <1>3 DEF LoadSession
  <2>2. CASE (cache[s] = None /\ Go(r, "find")) \/ Go(r, "evict")
    BY <1>1, <1>2, <2>1, <2>2 DEF Go, Steps, Uncached
  <2>3. CASE cache[s] # None /\ Goto(r, [q EXCEPT !.sess = cache[s].sess], "serve")
    <3>1. [q EXCEPT !.sess = cache[s].sess] \in Request
      BY <1>1, <2>3 DEF Request, CachedSession
    <3> QED
      BY <1>2, <2>1, <2>3, <3>1 DEF Steps, Uncached
  <2> QED
    BY <1>3, <2>2, <2>3 DEF LoadSession
<1>4. CASE EvictExpired(r) \/ DropSession(r) \/ Invalidate(r)
  <2> PICK m : /\ req' = [req EXCEPT ![r] = m]
               /\ \/ At(r, "evict") /\ m.pc = "find"
                  \/ At(r, "dropSession") /\ m.pc = "recheck" /\ m.rec = q.rec
                  \/ m.pc = "401"
    <3>1. CASE EvictExpired(r)
      BY <1>1, <3>1, GotoIs DEF EvictExpired, Go
    <3>2. CASE DropSession(r)
      BY <1>1, <3>2, GotoIs DEF DropSession, Go
    <3>3. CASE Invalidate(r)
      <4>1. Blanks("401").pc = "401"
        BY DEF Blanks
      <4> QED
        BY <3>3, <4>1 DEF Invalidate, Reply
    <3> QED
      BY <1>4, <3>1, <3>2, <3>3
  <2>1. db' = db /\ cache' = [cache EXCEPT ![s] = None]
    BY <1>4 DEF EvictExpired, DropSession, Invalidate, Evict
  <2>2. CacheOK(s)' /\ Linked(req[r], s)'
    BY <1>1, <2>1 DEF CacheOK, Linked, HasRow, At, Steps, Uncached
  <2> QED
    BY <1>1, <2>1, <2>2, LinkStep
<1>5. CASE FindUserBySub(r)
  <2>1. UNCHANGED <<db, cache>> /\ cache[s] = None
    BY <1>1, <1>5 DEF FindUserBySub, DBFails, At, Linked, Uncached, Steps
  <2>2. CASE Reply(r, "500")
    BY <2>1, <2>2, LinkReplies DEF Responses
  <2>3. CASE Go(r, "lookup")
    BY <1>1, <1>2, <2>1, <2>3 DEF Go, Steps
  <2>4. CASE /\ db[s] # None
             /\ Goto(r, [q EXCEPT !.rec = db[s], !.id = db[s].id, !.pw = db[s].pw], "getUser")
    <3> DEFINE l == [q EXCEPT !.rec = db[s], !.id = db[s].id, !.pw = db[s].pw]
    <3>1. l \in Request /\ l.rec = db[s] /\ l.id = db[s].id
      BY <1>1, <2>4 DEF Request, Row
    <3> QED
      BY <1>2, <2>1, <2>4, <3>1 DEF Steps, HasRow
  <2> QED
    BY <1>5, <2>2, <2>3, <2>4 DEF FindUserBySub, DBFails
<1>6. CASE GetUser(r)
  <2>1. /\ UNCHANGED <<db, cache>> /\ cache[s] = None
        /\ HasRow(s) /\ db[s].id = q.id /\ (q.rec # None => db[s] = q.rec)
    BY <1>1, <1>6 DEF GetUser, At, Linked, Uncached, Steps
  <2>2. CASE Go(r, "auth")
    BY <1>1, <1>2, <2>1, <2>2 DEF Go, Steps
  <2>3. CASE users[q.id] # None /\ Goto(r, [q EXCEPT !.was = users[q.id].name], "checkName")
    <3> DEFINE l == [q EXCEPT !.was = users[q.id].name]
    <3>1. q.id \in Ids
      BY <1>1, <1>6 DEF GetUser, At, Request, LocalsSet, Provided
    <3>2. l \in Request /\ l.id = q.id /\ l.rec = q.rec
      BY <1>1, <2>3, <3>1 DEF Request, Account
    <3> QED
      BY <1>2, <2>1, <2>3, <3>2 DEF Steps
  <2> QED
    BY <1>6, <2>2, <2>3 DEF GetUser, EmbyRead
<1>7. CASE CheckName(r) \/ Rename(r)
  <2>1. /\ UNCHANGED <<db, cache>> /\ cache[s] = None
        /\ HasRow(s) /\ db[s].id = q.id /\ (q.rec # None => db[s] = q.rec)
    BY <1>1, <1>7 DEF CheckName, Rename, At, Linked, Uncached, Steps
  <2>2. ASSUME NEW l \in Request, l.id = q.id, l.rec = q.rec,
               Goto(r, l, "auth") \/ Goto(r, l, "rename")
        PROVE  LinkInv'
    BY <1>2, <2>1, <2>2 DEF Steps
  <2>3. /\ [q EXCEPT !.was = None] \in Request
        /\ [q EXCEPT !.name = q.was, !.was = None] \in Request
    BY <1>1 DEF Request
  <2> QED
    BY <1>1, <1>7, <2>2, <2>3
       DEF CheckName, Rename, EmbyRead, UpdateUserName, EmbyWrite, Go, Request
<1>8. CASE Lookup(r)
  <2>1. UNCHANGED <<db, cache>> /\ cache[s] = None
    BY <1>1, <1>8 DEF Lookup, At, Linked, Uncached, Steps
  <2>2. CASE Reply(r, "503")
    BY <2>1, <2>2, LinkReplies DEF Responses
  <2>3. ASSUME NEW p \in Draw(FreshPasswords), Adopt(r, FindUserByName(q.name), p)
        PROVE  LinkInv'
    <3>1. p \in Passwords /\ FindUserByName(q.name) \in Ids \cup {None}
      BY DrawIsFresh, FoundIsAccount DEF FreshPasswords
    <3>2. [q EXCEPT !.id = FindUserByName(q.name), !.pw = p] \in Request
      BY <1>1, <3>1 DEF Request
    <3> QED
      BY <1>2, <2>1, <2>3, <3>2 DEF Adopt, Steps
  <2> QED
    BY <1>8, <2>2, <2>3 DEF Lookup, EmbyRead
<1>9. CASE Create(r)
  <2> PICK i \in Draw(FreshIds) :
        EmbyWrite(Named(q.name) = {}, EmbyCreate(i, q.name),
                  Goto(r, [q EXCEPT !.id = i, !.made = TRUE], "getPw"), Reply(r, "500"))
    BY <1>9 DEF Create, CreateUser
  <2>1. i \in Ids
    BY DrawIsFresh DEF FreshIds
  <2>2. UNCHANGED <<db, cache>> /\ cache[s] = None
    BY <1>1, <1>9 DEF Create, At, Linked, Uncached, Steps
  <2>3. [q EXCEPT !.id = i, !.made = TRUE] \in Request
    BY <1>1, <2>1 DEF Request
  <2> QED
    BY <1>2, <2>2, <2>3, LinkReplies DEF EmbyWrite, Responses, Steps
<1>10. CASE GetForPassword(r) \/ ResetPassword(r) \/ SetPassword(r) \/ UpdatePolicy(r)
  <2>1. UNCHANGED <<db, cache>> /\ cache[s] = None
    BY <1>1, <1>10
       DEF GetForPassword, ResetPassword, SetPassword, UpdatePolicy, At, Linked, Uncached, Steps
  <2>2. Reply(r, "500") \/ \E pc \in {"resetPw", "setPw", "policy", "insert"} : Go(r, pc)
    BY <1>10
       DEF GetForPassword, EmbyRead, ResetPassword, SetPassword, UpdatePolicy, UpdatePasswordReset,
           UpdatePasswordSet, UpdatePolicyRaw, EmbyWrite
  <2> QED
    BY <1>1, <1>2, <2>1, <2>2, LinkReplies DEF Go, Responses, Steps
<1>11. CASE Insert(r)
  <2>1. UNCHANGED cache /\ cache[s] = None /\ q.id \in Ids /\ q.pw \in Passwords
    BY <1>1, <1>11 DEF Insert, At, Linked, Uncached, Steps, Request, LocalsSet, Provided
  <2>2. CASE UNCHANGED db /\ Reply(r, "500")
    BY <2>1, <2>2, LinkReplies DEF Responses
  <2>3. CASE InsertUser(s, q.id, q.pw) /\ Go(r, IF q.rec = None THEN "auth" ELSE "retry")
    <3> PICK m : /\ req' = [req EXCEPT ![r] = m]
                 /\ m.pc = (IF q.rec = None THEN "auth" ELSE "retry")
                 /\ m.id = q.id /\ m.rec = q.rec
      BY <1>1, <2>3, GotoIs DEF Go
    <3>1. db' = [db EXCEPT ![s] = [id |-> q.id, pw |-> q.pw]]
      BY <2>3 DEF InsertUser
    <3>2. [id |-> q.id, pw |-> q.pw] # None
      BY <2>1, NoneIsNoRow DEF Row
    <3>3. req'[r] = m /\ db'[s] = [id |-> q.id, pw |-> q.pw]
      BY <1>1, <3>1
    <3>4. CacheOK(s)' /\ Linked(req[r], s)'
      BY <1>1, <2>1, <3>2, <3>3 DEF CacheOK, Linked, HasRow
    <3> QED
      BY <1>1, <2>1, <3>1, <3>4, LinkStep
  <2> QED
    BY <1>11, <2>2, <2>3 DEF Insert, DBFails
<1>12. CASE Authenticate(r)
  <2>1. /\ UNCHANGED <<db, cache>> /\ cache[s] = None
        /\ HasRow(s) /\ db[s].id = q.id
        /\ At(r, "auth") /\ q.rec # None => db[s] = q.rec
    BY <1>1, <1>12 DEF Authenticate, At, Linked, Uncached, Steps
  <2>2. CASE At(r, "auth") /\ q.rec # None /\ Go(r, "dropSession")
    BY <1>1, <1>2, <2>1, <2>2 DEF Go, Steps
  <2>3. CASE Reply(r, "401")
    BY <2>1, <2>3, LinkReplies DEF Responses
  <2>4. ASSUME NEW i \in Accepting(q.name, q.pw), NEW t \in Draw(FreshTokens),
               Goto(r, [q EXCEPT !.sess = [id |-> i, tok |-> t]], "store")
        PROVE  LinkInv'
    <3>1. [id |-> i, tok |-> t] \in Session
      BY DrawIsFresh DEF Accepting, Named, FreshTokens, Session
    <3>2. /\ [q EXCEPT !.sess = [id |-> i, tok |-> t]] \in Request
          /\ [q EXCEPT !.sess = [id |-> i, tok |-> t]].id = q.id
      BY <1>1, <3>1 DEF Request
    <3> QED
      BY <1>2, <2>1, <2>4, <3>2 DEF Steps
  <2> QED
    BY <1>12, <2>2, <2>3, <2>4 DEF Authenticate
<1>13. CASE Recheck(r)
  <2>1. UNCHANGED <<db, cache>> /\ cache[s] = None /\ HasRow(s) /\ db[s] = q.rec
    BY <1>1, <1>13 DEF Recheck, At, Linked, Uncached, Steps
  <2>2. CASE Reply(r, "503")
    BY <2>1, <2>2, LinkReplies DEF Responses
  <2>3. CASE Goto(r, [q EXCEPT !.id = FindUserByName(q.name)], "deleteRow")
    <3>1. /\ [q EXCEPT !.id = FindUserByName(q.name)] \in Request
          /\ [q EXCEPT !.id = FindUserByName(q.name)].rec = q.rec
      BY <1>1, FoundIsAccount DEF Request
    <3> QED
      BY <1>2, <2>1, <2>3, <3>1 DEF Steps
  <2> QED
    BY <1>13, <2>2, <2>3 DEF Recheck, EmbyRead
<1>14. CASE DeleteRow(r)
  <2>1. UNCHANGED cache /\ cache[s] = None
    BY <1>1, <1>14 DEF DeleteRow, At, Linked, Uncached, Steps
  <2>2. CASE UNCHANGED db /\ Reply(r, "500")
    BY <2>1, <2>2, LinkReplies DEF Responses
  <2>3. ASSUME DeleteUser(s), NEW p \in Draw(FreshPasswords), Adopt(r, q.id, p)
        PROVE  LinkInv'
    <3>1. p \in Passwords
      BY DrawIsFresh DEF FreshPasswords
    <3>2. [q EXCEPT !.id = q.id, !.pw = p] \in Request
      BY <1>1, <3>1 DEF Request
    <3> PICK m : req' = [req EXCEPT ![r] = m] /\ m.pc \in {"create", "getPw"}
      BY <2>3, <3>2, GotoIs DEF Adopt
    <3>3. db' = [db EXCEPT ![s] = None]
      BY <2>3 DEF DeleteUser
    <3>4. CacheOK(s)' /\ Linked(req[r], s)'
      BY <1>1, <2>1 DEF CacheOK, Linked
    <3> QED
      BY <1>1, <2>1, <3>3, <3>4, LinkStep
  <2> QED
    BY <1>14, <2>2, <2>3 DEF DeleteRow, DBFails
<1>15. CASE StoreSession(r)
  <2>1. HasRow(s) /\ db[s].id = q.id /\ q.sess.id = q.id
    BY <1>1, <1>15 DEF StoreSession, At, Linked, SessionOfLinkedAccount
  <2>2. /\ UNCHANGED db
        /\ cache' = [cache EXCEPT ![s] = [sess |-> q.sess, fresh |-> TRUE]]
    BY <1>15 DEF StoreSession
  <2> PICK m : req' = [req EXCEPT ![r] = m] /\ m.pc = "serve"
    BY <1>1, <1>15, GotoIs DEF StoreSession, Go
  <2>3. CacheOK(s)'
    BY <1>1, <2>1, <2>2 DEF CacheOK, HasRow
  <2>4. Linked(req[r], s)'
    BY <1>1 DEF Linked, Uncached
  <2> QED
    BY <1>1, <2>2, <2>3, <2>4, LinkStep
<1>16. CASE Forward(r)
  <2>1. UNCHANGED <<db, cache>>
    BY <1>16 DEF Forward
  <2> QED
    BY <1>1, <1>2, <1>16, <2>1, LinkReplies DEF Forward, EmbyRead, Go, Responses, Steps, Uncached
<1> QED
  BY <1>3, <1>4, <1>5, <1>6, <1>7, <1>8, <1>9, <1>10, <1>11, <1>12, <1>13, <1>14, <1>15,
     <1>16 DEF Handle

LEMMA LinkNext ==
    TypeInv /\ Sequential /\ SessionOfLinkedAccount /\ LinkInv /\ [Next]_vars => LinkInv'
<1> SUFFICES ASSUME TypeInv, Sequential, SessionOfLinkedAccount, LinkInv, [Next]_vars
             PROVE  LinkInv'
  OBVIOUS
<1>1. CASE UNCHANGED <<db, cache, req>>
  BY <1>1 DEF LinkInv, CacheOK, Linked, HasRow, Sub
<1>2. ASSUME NEW r \in Reqs, Handle(r) PROVE LinkInv'
  BY <1>2, HandleKeepsLink
<1>3. ASSUME NEW r \in Reqs, Arrive(r) PROVE LinkInv'
  <2> PICK n : req' = [req EXCEPT ![r] = [Blanks("load") EXCEPT !.name = n]]
    BY <1>3 DEF Arrive
  <2> DEFINE l == [Blanks("load") EXCEPT !.name = n]
  <2>1. l.pc = "load"
    BY DEF Blanks
  <2>2. Linked(l, Sub(r))
    BY <2>1 DEF Linked, Uncached
  <2> QED
    BY <1>3, <2>2, LinkPlainStep DEF Arrive
<1>4. ASSUME NEW s \in Subs, Expire(s) PROVE LinkInv'
  <2>1. /\ UNCHANGED <<db, req>>
        /\ \A t \in Subs : cache[t] = None => cache'[t] = None
        /\ \A t \in Subs : cache[t] # None => cache'[t].sess = cache[t].sess
    BY <1>4 DEF Expire, TypeInv, TypeOK, CachedSession
  <2>2. \A t \in Subs : CacheOK(t)'
    BY <2>1 DEF LinkInv, CacheOK, HasRow
  <2>3. \A r \in Reqs : Linked(req[r], Sub(r))'
    BY <2>1, SubOfAssumption DEF LinkInv, Linked, HasRow, Sub
  <2> QED
    BY <2>2, <2>3 DEF LinkInv
<1>5. CASE Crash
  <2>1. Blanks("idle").pc \notin Steps
    BY DEF Blanks, Steps
  <2> QED
    BY <1>5, <2>1 DEF Crash, LinkInv, CacheOK, Linked, Uncached, Steps
<1> QED
  BY <1>1, <1>2, <1>3, <1>4, <1>5 DEF Next, vars, Administer, Reenable

LEMMA LinkInit == Init => LinkInv
BY DEF Init, DBInit, LinkInv, CacheOK, Linked, Uncached, Steps, Blanks

LEMMA LinkInductive ==
    ASSUME Sequential
    PROVE  Spec => [](TypeInv /\ LinkInv)
<1>1. OwnerInv => SessionOfLinkedAccount
  BY DEF OwnerInv
<1>2. TypeInv /\ SessionOfLinkedAccount /\ LinkInv /\ [Next]_vars => LinkInv'
  BY LinkNext
<1> QED
  BY <1>1, <1>2, TypeInit, TypeStep, OwnerInitially, OwnerNext, LinkInit, PTL DEF Spec

\* When requests of one subject do not overlap, a cached session is one of the
\* account in the subject's row.
THEOREM CachedIsLinked == Sequential /\ Spec => []CachedSessionHasRow
<1> SUFFICES ASSUME Sequential PROVE Spec => []CachedSessionHasRow
  OBVIOUS
<1>1. LinkInv => CachedSessionHasRow
  BY DEF LinkInv, CacheOK, CachedSessionHasRow
<1> QED
  BY <1>1, LinkInductive, PTL

----------------------------------------------------------------------------
(* Names, and which account recovery finds, when Emby answers every call.   *)

UniqueNames ==
    \A i, j \in Ids :
        users[i] # None /\ users[j] # None /\ users[i].name = users[j].name => i = j

\* What a request that is to go on at pc with variables q knows of its subject's
\* record, and of the name that the record's account has among accounts.
FollowsAt(pc, q, accounts) ==
    /\ pc \in {"load", "evict", "find", "lookup"} => q.rec = None
    /\ pc \in {"getUser", "checkName", "rename"} => q.rec # None
    /\ pc \in {"getUser", "checkName", "rename", "auth", "dropSession", "recheck"} /\ q.rec # None =>
          q.id = q.rec.id /\ q.pw = q.rec.pw
    /\ pc = "create" => q.id = None
    /\ q.rec # None => q.id = q.rec.id \/ accounts[q.rec.id] = None
    /\ pc \in {"checkName", "rename"} /\ accounts[q.rec.id] # None =>
          accounts[q.rec.id].name = q.was
    /\ /\ pc \in {"auth", "dropSession", "recheck"}
       /\ q.rec # None /\ accounts[q.rec.id] # None
       => accounts[q.rec.id].name = q.name

Follows(q, accounts) == FollowsAt(q.pc, q, accounts)

\* KeepsAccount is not inductive: recovery finds the account of the record by
\* the name the request has for it.
NameInv == UniqueNames /\ \A r \in Reqs : Follows(req[r], users)

\* Account i, if it exists after a step, has the name it had.
NameKept(i) == users'[i] # None => users[i] # None /\ users'[i].name = users[i].name

\* Account j, new or the one renamed, gets a name no other has.
NameGiven(r, j) ==
    /\ j \in FreshIds \/ (At(r, "rename") /\ j = req[r].id)
    /\ \A i \in Ids \ {j} : NameKept(i)
    /\ \A i \in Ids \ {j} : users[i] # None => users'[j] # None /\ users[i].name # users'[j].name

LEMMA NamesStep ==
    ASSUME TypeInv, NEW r \in Reqs, Handle(r)
    PROVE  (\A i \in Ids : NameKept(i)) \/ (\E j \in Ids : NameGiven(r, j))
<1> DEFINE q == req[r]
<1>1. q \in Request /\ LocalsSet(q) /\ users \in [Ids -> Account \cup {None}]
  BY DEF TypeInv, TypeOK, EmbyTypeOK
<1>2. CASE Create(r)
  <2> PICK j \in Draw(FreshIds) :
        EmbyWrite(Named(q.name) = {}, EmbyCreate(j, q.name),
                  Goto(r, [q EXCEPT !.id = j, !.made = TRUE], "getPw"), Reply(r, "500"))
    BY <1>2 DEF Create, CreateUser
  <2>1. j \in Ids /\ j \in FreshIds
    BY DrawIsFresh DEF FreshIds
  <2>2. CASE UNCHANGED embyVars
    BY <2>2 DEF embyVars, NameKept
  <2>3. CASE Named(q.name) = {} /\ EmbyCreate(j, q.name)
    <3> DEFINE u == [name |-> q.name, pw |-> Blank, disabled |-> TemplateDisabled]
    <3>1. q.name \in Names
      BY <1>1, <1>2 DEF Create, At, Request, LocalsSet, Provided, Steps
    <3>2. u # None /\ u.name = q.name
      BY <3>1, TemplateAssumption, NoneIsNoRecord DEF Account
    <3> HIDE DEF u
    <3>3. users' = [users EXCEPT ![j] = u]
      BY <2>3 DEF EmbyCreate, u
    <3>4. users'[j] = u /\ \A i \in Ids \ {j} : users'[i] = users[i]
      BY <1>1, <2>1, <3>3
    <3>5. \A i \in Ids : users[i] # None => users[i].name # q.name
      BY <2>3 DEF Named
    <3> QED
      BY <2>1, <3>2, <3>4, <3>5 DEF NameGiven, NameKept
  <2> QED
    BY <2>2, <2>3 DEF EmbyWrite
<1>3. CASE Rename(r)
  <2>1. q.id \in Ids /\ q.name \in Names /\ At(r, "rename")
    BY <1>1, <1>3 DEF Rename, At, Request, LocalsSet, Provided, Steps
  <2>2. CASE UNCHANGED embyVars
    BY <2>2 DEF embyVars, NameKept
  <2>3. CASE Exists(q.id) /\ Named(q.name) \subseteq {q.id} /\ EmbyRename(q.id, q.name)
    <3>1. users' = [users EXCEPT ![q.id] = [users[q.id] EXCEPT !.name = q.name]]
      BY <2>3 DEF EmbyRename
    <3>2. users[q.id] \in Account
      BY <1>1, <2>1, <2>3 DEF Exists
    <3>3. /\ users'[q.id] \in Account /\ users'[q.id].name = q.name
          /\ \A i \in Ids \ {q.id} : users'[i] = users[i]
      BY <1>1, <2>1, <3>1, <3>2 DEF Account
    <3>4. users'[q.id] # None
      BY <3>3, NoneIsNoRecord
    <3>5. \A i \in Ids \ {q.id} : users[i] # None => users[i].name # q.name
      BY <2>3 DEF Named
    <3> QED
      BY <2>1, <3>3, <3>4, <3>5 DEF NameGiven, NameKept
  <2> QED
    BY <1>3, <2>2, <2>3 DEF Rename, UpdateUserName, EmbyWrite
<1>4. CASE ResetPassword(r) \/ SetPassword(r) \/ UpdatePolicy(r)
  <2>1. q.id \in Ids
    BY <1>1, <1>4 DEF ResetPassword, SetPassword, UpdatePolicy, At, Request, LocalsSet, Provided
  <2>2. \/ UNCHANGED embyVars
        \/ Exists(q.id) /\ \E p : EmbySetPassword(q.id, p)
        \/ Exists(q.id) /\ EmbyEnable(q.id)
    BY <1>4 DEF ResetPassword, SetPassword, UpdatePolicy, UpdatePasswordReset, UpdatePasswordSet,
                UpdatePolicyRaw, EmbyWrite
  <2>3. users[q.id] # None => users[q.id] \in Account
    BY <1>1, <2>1
  <2>4. CASE UNCHANGED embyVars
    BY <2>4 DEF embyVars, NameKept
  <2>5. ASSUME Exists(q.id), NEW a, a.name = users[q.id].name,
               users' = [users EXCEPT ![q.id] = a]
        PROVE  \A i \in Ids : NameKept(i)
    <3>1. users'[q.id] = a /\ \A i \in Ids \ {q.id} : users'[i] = users[i]
      BY <1>1, <2>1, <2>5
    <3> QED
      BY <2>5, <3>1 DEF Exists, NameKept
  <2>6. ASSUME Exists(q.id), NEW p, EmbySetPassword(q.id, p)
        PROVE  \A i \in Ids : NameKept(i)
    <3>1. [users[q.id] EXCEPT !.pw = p].name = users[q.id].name
      BY <2>3, <2>6 DEF Account, Exists
    <3> QED
      BY <2>5, <2>6, <3>1 DEF EmbySetPassword
  <2>7. ASSUME Exists(q.id), EmbyEnable(q.id)
        PROVE  \A i \in Ids : NameKept(i)
    <3>1. [users[q.id] EXCEPT !.disabled = FALSE].name = users[q.id].name
      BY <2>3, <2>7 DEF Account, Exists
    <3> QED
      BY <2>5, <2>7, <3>1 DEF EmbyEnable
  <2> QED
    BY <2>2, <2>4, <2>6, <2>7
<1>5. CASE ~(Create(r) \/ Rename(r) \/ ResetPassword(r) \/ SetPassword(r) \/ UpdatePolicy(r))
  <2>1. users' = users
    BY <1>5 DEF Handle, embyVars, LoadSession, EvictExpired, FindUserBySub, GetUser, CheckName,
                Lookup, GetForPassword, Insert, Authenticate, EmbyIssue, DropSession, Recheck,
                DeleteRow, StoreSession, Forward, Invalidate, EmbyRead
  <2> QED
    BY <2>1 DEF NameKept
<1> QED
  BY <1>2, <1>3, <1>4, <1>5

LEMMA KeptUnique ==
    ASSUME UniqueNames, \A i \in Ids : NameKept(i)
    PROVE  UniqueNames'
BY DEF UniqueNames, NameKept

LEMMA UniqueStep ==
    ASSUME TypeInv, UniqueNames, NEW r \in Reqs, Handle(r)
    PROVE  UniqueNames'
<1>1. CASE \A i \in Ids : NameKept(i)
  BY <1>1, KeptUnique
<1>2. ASSUME NEW j \in Ids, NameGiven(r, j) PROVE UniqueNames'
  <2> SUFFICES ASSUME NEW i \in Ids, NEW k \in Ids, users'[i] # None, users'[k] # None,
                      users'[i].name = users'[k].name, i # k
               PROVE  FALSE
    BY DEF UniqueNames
  <2>1. CASE i = j
    BY <1>2, <2>1 DEF NameGiven, NameKept
  <2>2. CASE k = j
    BY <1>2, <2>2 DEF NameGiven, NameKept
  <2>3. CASE i # j /\ k # j
    BY <1>2, <2>3 DEF NameGiven, NameKept, UniqueNames
  <2> QED
    BY <2>1, <2>2, <2>3
<1> QED
  BY <1>1, <1>2, NamesStep

\* What a request knows stays true while its accounts keep their names.
LEMMA FollowsOn ==
    ASSUME NEW q, Follows(q, users), q.rec # None => NameKept(q.rec.id)
    PROVE  Follows(q, users')
BY DEF Follows, FollowsAt, NameKept

\* A step of request r leaves alone the names of the accounts that others have.
LEMMA FollowStep ==
    ASSUME TypeInv, SeparateInv, Sequential, NameInv, NEW r \in Reqs, Handle(r),
           NEW m, req' = [req EXCEPT ![r] = m], Follows(m, users')
    PROVE  NameInv'
<1>1. UniqueNames'
  BY UniqueStep DEF NameInv
<1>2. req'[r] = m /\ \A p \in Reqs : p # r => req'[p] = req[p]
  BY DEF TypeInv, TypeOK
<1>3. ASSUME NEW p \in Reqs, p # r, req[p].rec # None PROVE NameKept(req[p].rec.id)
  <2> DEFINE i == req[p].rec.id
  <2>1. i \in Ids /\ Sub(p) # Sub(r) /\ Sub(p) \in Subs /\ Sub(r) \in Subs
    BY <1>3, SubOfAssumption DEF TypeInv, TypeOK, Request, Row, Sequential, Sub
  <2>2. i \in Claims(Sub(p))
    BY <1>3, <2>1 DEF Claims, Claimed
  <2>3. i \notin FreshIds
    BY <1>3 DEF FreshIds
  <2>4. i # req[r].id
    BY <2>1, <2>2 DEF SeparateInv, AccountsSeparate, Claims, Claimed
  <2> QED
    BY <2>1, <2>3, <2>4, NamesStep DEF NameGiven
<1>4. ASSUME NEW p \in Reqs, p # r PROVE Follows(req[p], users')
  BY <1>3, <1>4, FollowsOn DEF NameInv
<1> QED
  BY <1>1, <1>2, <1>4 DEF NameInv

LEMMA FollowReplies ==
    ASSUME TypeInv, SeparateInv, Sequential, NameInv, NEW r \in Reqs, Handle(r),
           NEW code \in Responses, Reply(r, code)
    PROVE  NameInv'
<1>1. Blanks(code).rec = None /\ Blanks(code).pc \notin Steps
  BY DEF Blanks, Responses, Steps
<1>2. Follows(Blanks(code), users')
  BY <1>1 DEF Follows, FollowsAt, Steps
<1> QED
  BY <1>2, FollowStep DEF Reply

\* The variables of a request after Goto, names included.
LEMMA GotoNames ==
    ASSUME NEW r \in Reqs, NEW l \in Request, NEW pc, Goto(r, l, pc)
    PROVE  \E m : /\ req' = [req EXCEPT ![r] = m]
                  /\ m.pc = pc /\ m.id = l.id /\ m.pw = l.pw
                  /\ m.rec = l.rec /\ m.name = l.name /\ m.was = l.was
<1> DEFINE m == [l EXCEPT !.pc = pc]
<1>1. /\ m.pc = pc /\ m.id = l.id /\ m.pw = l.pw
      /\ m.rec = l.rec /\ m.name = l.name /\ m.was = l.was
  BY DEF Request
<1>2. req' = [req EXCEPT ![r] = m]
  BY DEF Goto
<1> QED
  BY <1>1, <1>2, Zenon

\* Request r may go on at pc with variables l.
LEMMA FollowGoesOn ==
    ASSUME TypeInv, SeparateInv, Sequential, NameInv, NEW r \in Reqs, Handle(r),
           NEW l \in Request, NEW pc, Goto(r, l, pc), FollowsAt(pc, l, users')
    PROVE  NameInv'
<1> PICK m : /\ req' = [req EXCEPT ![r] = m]
             /\ m.pc = pc /\ m.id = l.id /\ m.pw = l.pw
             /\ m.rec = l.rec /\ m.name = l.name /\ m.was = l.was
  BY GotoNames
<1>1. Follows(m, users')
  BY DEF Follows, FollowsAt
<1> QED
  BY <1>1, FollowStep

LEMMA HandleKeepsNames ==
    ASSUME TypeInv, SeparateInv, Sequential, LinkInv, NameInv, CallsAnswered,
           NEW r \in Reqs, Handle(r)
    PROVE  NameInv'
<1> DEFINE q == req[r]
<1> DEFINE s == Sub(r)
<1>1. /\ s \in Subs /\ q \in Request /\ LocalsSet(q)
      /\ users \in [Ids -> Account \cup {None}]
      /\ db \in [Subs -> Row \cup {None}]
      /\ cache \in [Subs -> CachedSession \cup {None}]
      /\ Linked(q, s) /\ FollowsAt(q.pc, q, users) /\ UniqueNames
      /\ None \notin Ids
  BY SubOfAssumption, SentinelsAssumption
     DEF TypeInv, TypeOK, EmbyTypeOK, DBTypeOK, Sub, LinkInv, NameInv, Follows, EmbyValues
<1>2. ~Disturb("refuse") /\ ~Disturb("lose")
  BY DEF CallsAnswered, Disturb
<1>3. q.rec # None /\ ~At(r, "rename") => q.rec.id \in Ids /\ NameKept(q.rec.id)
  <2>1. q.rec # None => q.rec.id \in Ids /\ q.rec.id \notin FreshIds
    BY <1>1 DEF FreshIds, Request, Row
  <2> QED
    BY <2>1, NamesStep DEF NameGiven
\* Going on with the record and the account, where nothing more is known.
<1>4. ASSUME ~At(r, "rename"), NEW l \in Request, l.rec = q.rec, l.id = q.id,
             NEW pc, Goto(r, l, pc),
             pc \in {"load", "evict", "find", "lookup"} => q.rec = None,
             pc \notin {"getUser", "checkName", "rename", "create", "dropSession", "recheck"},
             pc = "auth" => q.rec = None
      PROVE  NameInv'
  <2>1. FollowsAt(pc, l, users')
    BY <1>1, <1>3, <1>4 DEF FollowsAt, NameKept
  <2> QED
    BY <1>4, <2>1, FollowGoesOn
<1>5. CASE LoadSession(r) \/ EvictExpired(r)
  <2>1. At(r, "load") \/ At(r, "evict")
    BY <1>5 DEF LoadSession, EvictExpired
  <2>2. q.rec = None
    BY <1>1, <2>1 DEF FollowsAt, At
  <2>3. CASE \E pc \in {"find", "evict"} : Go(r, pc)
    BY <1>1, <1>4, <2>1, <2>2, <2>3 DEF Go, At
  <2>4. CASE cache[s] # None /\ Goto(r, [q EXCEPT !.sess = cache[s].sess], "serve")
    <3> DEFINE l == [q EXCEPT !.sess = cache[s].sess]
    <3>1. l \in Request /\ l.rec = q.rec /\ l.id = q.id
      BY <1>1, <2>4 DEF Request, CachedSession
    <3>2. Goto(r, l, "serve") /\ ~At(r, "rename")
      BY <2>1, <2>4 DEF At
    <3> HIDE DEF l
    <3> QED
      BY <1>4, <3>1, <3>2
  <2> QED
    BY <1>5, <2>3, <2>4 DEF LoadSession, EvictExpired
<1>6. CASE FindUserBySub(r)
  <2>1. At(r, "find") /\ users' = users
    BY <1>6 DEF FindUserBySub, embyVars
  <2>2. q.rec = None
    BY <1>1, <2>1 DEF FollowsAt, At
  <2>3. CASE Reply(r, "500")
    BY <2>3, FollowReplies DEF Responses
  <2>4. CASE Go(r, "lookup")
    BY <1>1, <1>4, <2>1, <2>2, <2>4 DEF Go, At
  <2>5. CASE /\ db[s] # None
             /\ Goto(r, [q EXCEPT !.rec = db[s], !.id = db[s].id, !.pw = db[s].pw], "getUser")
    <3> DEFINE l == [q EXCEPT !.rec = db[s], !.id = db[s].id, !.pw = db[s].pw]
    <3>1. l \in Request /\ l.rec = db[s] /\ l.id = db[s].id /\ l.pw = db[s].pw
      BY <1>1, <2>5 DEF Request, Row
    <3> HIDE DEF l
    <3>2. FollowsAt("getUser", l, users')
      BY <2>5, <3>1 DEF FollowsAt
    <3> QED
      BY <2>5, <3>1, <3>2, FollowGoesOn DEF l
  <2> QED
    BY <1>6, <2>3, <2>4, <2>5 DEF FindUserBySub, DBFails
<1>7. CASE GetUser(r)
  <2>1. /\ users' = users /\ At(r, "getUser") /\ q.rec # None
        /\ q.id = q.rec.id /\ q.pw = q.rec.pw /\ q.id \in Ids
    BY <1>1, <1>3, <1>7 DEF GetUser, EmbyRead, embyVars, At, FollowsAt
  <2>2. CASE (users[q.id] # None => users[q.id].name = q.name) /\ Go(r, "auth")
    <3>1. FollowsAt("auth", q, users')
      BY <2>1, <2>2 DEF FollowsAt
    <3> QED
      BY <1>1, <2>2, <3>1, FollowGoesOn DEF Go
  <2>3. CASE users[q.id] # None /\ Goto(r, [q EXCEPT !.was = users[q.id].name], "checkName")
    <3> DEFINE l == [q EXCEPT !.was = users[q.id].name]
    <3>1. /\ l \in Request /\ l.was = users[q.id].name
          /\ l.rec = q.rec /\ l.id = q.id /\ l.pw = q.pw
      BY <1>1, <2>1, <2>3 DEF Request, Account
    <3> HIDE DEF l
    <3>2. FollowsAt("checkName", l, users')
      BY <2>1, <3>1 DEF FollowsAt
    <3> QED
      BY <2>3, <3>1, <3>2, FollowGoesOn DEF l
  <2> QED
    BY <1>2, <1>7, <2>2, <2>3 DEF GetUser, EmbyRead
<1>8. CASE CheckName(r) \/ Rename(r)
  <2>1. /\ q.rec # None /\ q.id = q.rec.id /\ q.pw = q.rec.pw /\ q.id \in Ids
        /\ users[q.id] # None => users[q.id].name = q.was
    BY <1>1, <1>8 DEF CheckName, Rename, At, FollowsAt, Request, Row
\* Keeping the name the account has.
  <2>2. CASE users' = users /\ Goto(r, [q EXCEPT !.name = q.was, !.was = None], "auth")
    <3> DEFINE l == [q EXCEPT !.name = q.was, !.was = None]
    <3>1. l \in Request /\ l.name = q.was /\ l.rec = q.rec /\ l.id = q.id /\ l.pw = q.pw
      BY <1>1 DEF Request
    <3> HIDE DEF l
    <3>2. FollowsAt("auth", l, users')
      BY <2>1, <2>2, <3>1 DEF FollowsAt
    <3> QED
      BY <2>2, <3>1, <3>2, FollowGoesOn DEF l
  <2>3. CASE users' = users /\ Go(r, "rename")
    <3>1. FollowsAt("rename", q, users')
      BY <2>1, <2>3 DEF FollowsAt
    <3> QED
      BY <1>1, <2>3, <3>1, FollowGoesOn DEF Go
\* Giving it the new one.
  <2>4. CASE /\ Exists(q.id) /\ EmbyRename(q.id, q.name)
             /\ Goto(r, [q EXCEPT !.was = None], "auth")
    <3> DEFINE l == [q EXCEPT !.was = None]
    <3>1. l \in Request /\ l.name = q.name /\ l.rec = q.rec /\ l.id = q.id /\ l.pw = q.pw
      BY <1>1 DEF Request
    <3>2. users[q.id] \in Account /\ users' = [users EXCEPT ![q.id] = [users[q.id] EXCEPT !.name = q.name]]
      BY <1>1, <2>1, <2>4 DEF Exists, EmbyRename
    <3>3. users'[q.id].name = q.name
      BY <1>1, <2>1, <3>2 DEF Account
    <3> HIDE DEF l
    <3>4. FollowsAt("auth", l, users')
      BY <2>1, <3>1, <3>3 DEF FollowsAt
    <3> QED
      BY <2>4, <3>1, <3>4, FollowGoesOn DEF l
  <2>5. CASE CheckName(r)
    BY <1>2, <2>2, <2>3, <2>5 DEF CheckName, EmbyRead, embyVars
  <2>6. CASE Rename(r)
    BY <1>2, <2>2, <2>4, <2>6 DEF Rename, UpdateUserName, EmbyWrite, embyVars
  <2> QED
    BY <1>8, <2>5, <2>6
<1>9. CASE Lookup(r)
  <2>1. At(r, "lookup") /\ q.rec = None
    BY <1>1, <1>9 DEF Lookup, At, FollowsAt
  <2>2. CASE Reply(r, "503")
    BY <2>2, FollowReplies DEF Responses
  <2>3. ASSUME NEW p \in Draw(FreshPasswords), Adopt(r, FindUserByName(q.name), p)
        PROVE  NameInv'
    <3> DEFINE i == FindUserByName(q.name)
    <3> DEFINE l == [q EXCEPT !.id = i, !.pw = p]
    <3>1. p \in Passwords /\ i \in Ids \cup {None}
      BY DrawIsFresh, FoundIsAccount DEF FreshPasswords
    <3>2. Goto(r, l, IF i = None THEN "create" ELSE "getPw")
      BY <2>3 DEF Adopt
    <3> HIDE DEF i
    <3>3. l \in Request
      BY <1>1, <3>1 DEF Request
    <3>4. l.rec = None /\ l.id = i
      BY <1>1, <2>1 DEF Request
    <3> HIDE DEF l
    <3>5. FollowsAt(IF i = None THEN "create" ELSE "getPw", l, users')
      BY <3>4 DEF FollowsAt
    <3> QED
      BY <3>2, <3>3, <3>5, FollowGoesOn
  <2> QED
    BY <1>9, <2>2, <2>3 DEF Lookup, EmbyRead
<1>10. CASE Create(r)
  <2> PICK i \in Draw(FreshIds) :
        EmbyWrite(Named(q.name) = {}, EmbyCreate(i, q.name),
                  Goto(r, [q EXCEPT !.id = i, !.made = TRUE], "getPw"), Reply(r, "500"))
    BY <1>10 DEF Create, CreateUser
  <2>1. i \in Ids
    BY DrawIsFresh DEF FreshIds
  <2>2. CASE Reply(r, "500")
    BY <2>2, FollowReplies DEF Responses
  <2>3. CASE Goto(r, [q EXCEPT !.id = i, !.made = TRUE], "getPw")
    <3> DEFINE l == [q EXCEPT !.id = i, !.made = TRUE]
    <3>1. l \in Request /\ l.rec = q.rec
      BY <1>1, <2>1 DEF Request
    <3>2. At(r, "create") /\ q.id = None
      BY <1>1, <1>10 DEF Create, At, FollowsAt
    <3>3. q.rec # None => users[q.rec.id] = None /\ NameKept(q.rec.id)
      BY <1>1, <1>3, <3>2 DEF FollowsAt, At
    <3> HIDE DEF l
    <3>4. FollowsAt("getPw", l, users')
      BY <3>1, <3>3 DEF FollowsAt, NameKept
    <3> QED
      BY <2>3, <3>1, <3>4, FollowGoesOn DEF l
  <2> QED
    BY <2>2, <2>3 DEF EmbyWrite
<1>11. CASE GetForPassword(r) \/ ResetPassword(r) \/ SetPassword(r) \/ UpdatePolicy(r)
  <2>1. Reply(r, "500") \/ \E pc \in {"resetPw", "setPw", "policy", "insert"} : Go(r, pc)
    BY <1>11
       DEF GetForPassword, EmbyRead, ResetPassword, SetPassword, UpdatePolicy, UpdatePasswordReset,
           UpdatePasswordSet, UpdatePolicyRaw, EmbyWrite
  <2>2. ~At(r, "rename")
    BY <1>11 DEF GetForPassword, ResetPassword, SetPassword, UpdatePolicy, At
  <2> QED
    BY <1>1, <1>4, <2>1, <2>2, FollowReplies DEF Go, Responses
<1>12. CASE Insert(r)
  <2>1. Reply(r, "500") \/ Go(r, IF q.rec = None THEN "auth" ELSE "retry")
    BY <1>12 DEF Insert, DBFails
  <2>2. ~At(r, "rename")
    BY <1>12 DEF Insert, At
  <2> QED
    BY <1>1, <1>4, <2>1, <2>2, FollowReplies DEF Go, Responses
<1>13. CASE Authenticate(r)
  <2>1. users' = users /\ ~At(r, "rename")
    BY <1>13 DEF Authenticate, EmbyIssue, embyVars, At
  <2>2. CASE At(r, "auth") /\ q.rec # None /\ Go(r, "dropSession")
    <3>1. FollowsAt("dropSession", q, users')
      BY <1>1, <2>1, <2>2 DEF FollowsAt, At
    <3> QED
      BY <1>1, <2>2, <3>1, FollowGoesOn DEF Go
  <2>3. CASE Reply(r, "401")
    BY <2>3, FollowReplies DEF Responses
  <2>4. ASSUME NEW i \in Accepting(q.name, q.pw), NEW t \in Draw(FreshTokens),
               Goto(r, [q EXCEPT !.sess = [id |-> i, tok |-> t]], "store")
        PROVE  NameInv'
    <3>1. [id |-> i, tok |-> t] \in Session
      BY DrawIsFresh DEF Accepting, Named, FreshTokens, Session
    <3> DEFINE l == [q EXCEPT !.sess = [id |-> i, tok |-> t]]
    <3>2. l \in Request /\ l.id = q.id /\ l.rec = q.rec
      BY <1>1, <3>1 DEF Request
    <3>3. Goto(r, l, "store")
      BY <2>4
    <3> HIDE DEF l
    <3> QED
      BY <1>4, <2>1, <3>2, <3>3
  <2> QED
    BY <1>13, <2>2, <2>3, <2>4 DEF Authenticate
<1>14. CASE DropSession(r)
  <2>1. users' = users /\ At(r, "dropSession") /\ Go(r, "recheck")
    BY <1>14 DEF DropSession, embyVars
  <2>2. FollowsAt("recheck", q, users')
    BY <1>1, <2>1 DEF FollowsAt, At
  <2> QED
    BY <1>1, <2>1, <2>2, FollowGoesOn DEF Go
<1>15. CASE Recheck(r)
  <2>1. users' = users /\ At(r, "recheck")
    BY <1>15 DEF Recheck, EmbyRead, embyVars
  <2>2. CASE Reply(r, "503")
    BY <2>2, FollowReplies DEF Responses
  <2>3. CASE Goto(r, [q EXCEPT !.id = FindUserByName(q.name)], "deleteRow")
    <3> DEFINE i == FindUserByName(q.name)
    <3> DEFINE l == [q EXCEPT !.id = i]
    <3>1. l \in Request /\ l.rec = q.rec /\ l.id = i
      BY <1>1, FoundIsAccount DEF Request
\* The record's account still has the request's name, so that it is the one found.
    <3>2. ASSUME q.rec # None, users[q.rec.id] # None PROVE i = q.rec.id
      <4>1. q.rec.id \in Ids /\ users[q.rec.id].name = q.name
        BY <1>1, <1>3, <2>1, <3>2 DEF FollowsAt, At
      <4>2. q.rec.id \in Named(q.name)
        BY <3>2, <4>1 DEF Named
      <4>3. i \in Named(q.name)
        BY <4>2 DEF FindUserByName
      <4> QED
        BY <1>1, <4>2, <4>3 DEF Named, UniqueNames
    <3>3. Goto(r, l, "deleteRow")
      BY <2>3
    <3> HIDE DEF l, i
    <3>4. FollowsAt("deleteRow", l, users')
      BY <2>1, <3>1, <3>2 DEF FollowsAt
    <3> QED
      BY <3>1, <3>3, <3>4, FollowGoesOn
  <2> QED
    BY <1>15, <2>2, <2>3 DEF Recheck, EmbyRead
<1>16. CASE DeleteRow(r)
  <2>1. users' = users /\ ~At(r, "rename")
    BY <1>16 DEF DeleteRow, embyVars, At
  <2>2. CASE Reply(r, "500")
    BY <2>2, FollowReplies DEF Responses
  <2>3. ASSUME NEW p \in Draw(FreshPasswords), Adopt(r, q.id, p)
        PROVE  NameInv'
    <3> DEFINE l == [q EXCEPT !.id = q.id, !.pw = p]
    <3> DEFINE pc == IF q.id = None THEN "create" ELSE "getPw"
    <3>1. p \in Passwords
      BY DrawIsFresh DEF FreshPasswords
    <3>2. l \in Request /\ l.rec = q.rec /\ l.id = q.id
      BY <1>1, <3>1 DEF Request
    <3>3. Goto(r, l, pc)
      BY <2>3 DEF Adopt
    <3>4. pc = "getPw" \/ (pc = "create" /\ q.id = None)
      OBVIOUS
    <3> HIDE DEF l, pc
    <3>5. FollowsAt(pc, l, users')
      BY <1>1, <2>1, <3>2, <3>4 DEF FollowsAt
    <3> QED
      BY <3>2, <3>3, <3>5, FollowGoesOn
  <2> QED
    BY <1>16, <2>2, <2>3 DEF DeleteRow, DBFails
<1>17. CASE StoreSession(r) \/ Forward(r) \/ Invalidate(r)
  <2>1. \/ \E code \in {"200", "401", "502"} : Reply(r, code)
        \/ \E pc \in {"serve", "invalidate"} : Go(r, pc)
    BY <1>17 DEF StoreSession, Forward, Invalidate, EmbyRead
  <2>2. ~At(r, "rename")
    BY <1>17 DEF StoreSession, Forward, Invalidate, At
  <2> QED
    BY <1>1, <1>4, <2>1, <2>2, FollowReplies DEF Go, Responses
<1> QED
  BY <1>5, <1>6, <1>7, <1>8, <1>9, <1>10, <1>11, <1>12, <1>13, <1>14, <1>15, <1>16, <1>17
     DEF Handle

LEMMA NameInit == Init => NameInv
<1> SUFFICES ASSUME Init PROVE NameInv
  OBVIOUS
<1>1. UniqueNames
  <2>1. \A i \in Ids : users[i] # None =>
           InitialNames[i] # None /\ users[i].name = InitialNames[i]
    BY DEF Init, EmbyInit
  <2> QED
    BY <2>1, InitialNamesAssumption DEF UniqueNames
<1>2. \A r \in Reqs : Follows(req[r], users)
  BY DEF Init, Follows, FollowsAt, Blanks
<1> QED
  BY <1>1, <1>2 DEF NameInv

LEMMA NameNext ==
    ASSUME TypeInv, SeparateInv, Sequential, LinkInv, NameInv, CallsAnswered, [Next]_vars
    PROVE  NameInv'
<1>1. ASSUME UNCHANGED req, \A i \in Ids : NameKept(i) PROVE NameInv'
  <2>1. \A r \in Reqs : req[r].rec # None => req[r].rec.id \in Ids
    BY DEF TypeInv, TypeOK, Request, Row
  <2>2. ASSUME NEW r \in Reqs PROVE Follows(req[r], users')
    BY <1>1, <2>1, <2>2, FollowsOn DEF NameInv
  <2> QED
    BY <1>1, <2>2, KeptUnique DEF NameInv
<1>2. CASE UNCHANGED vars
  BY <1>1, <1>2 DEF vars, NameKept
<1>3. ASSUME NEW r \in Reqs, Handle(r) PROVE NameInv'
  BY <1>3, HandleKeepsNames
<1>4. ASSUME NEW r \in Reqs, Arrive(r) PROVE NameInv'
  <2> PICK n : req' = [req EXCEPT ![r] = [Blanks("load") EXCEPT !.name = n]]
    BY <1>4 DEF Arrive
  <2> DEFINE l == [Blanks("load") EXCEPT !.name = n]
  <2>1. l.pc = "load" /\ l.rec = None
    BY DEF Blanks
  <2>2. Follows(l, users')
    BY <2>1 DEF Follows, FollowsAt
  <2> HIDE DEF l
  <2>3. users' = users
    BY <1>4 DEF Arrive, embyVars
  <2>4. \A p \in Reqs : req'[p] = l \/ req'[p] = req[p]
    BY DEF TypeInv, TypeOK, l
  <2>5. \A p \in Reqs : Follows(req'[p], users')
    BY <2>2, <2>3, <2>4 DEF NameInv
  <2> QED
    BY <2>3, <2>5 DEF NameInv, UniqueNames
<1>5. ASSUME NEW s \in Subs, Expire(s) PROVE NameInv'
  BY <1>1, <1>5 DEF Expire, embyVars, NameKept
<1>6. ASSUME NEW i \in Ids, Administer(i) \/ Reenable(i) PROVE NameInv'
  <2>1. \A j \in Ids : NameKept(j)
    BY <1>6 DEF Administer, Reenable, Exists, EmbyDelete, EmbyDisable, EmbySetPassword,
                EmbyRevoke, EmbyEnable, NameKept, TypeInv, TypeOK, EmbyTypeOK, Account
  <2> QED
    BY <1>1, <1>6, <2>1 DEF Administer, Reenable
<1>7. CASE Crash
  <2>1. users' = users /\ \A r \in Reqs : req'[r] = Blanks("idle")
    BY <1>7 DEF Crash, embyVars
  <2>2. Follows(Blanks("idle"), users')
    BY DEF Follows, FollowsAt, Blanks
  <2> QED
    BY <2>1, <2>2 DEF NameInv, UniqueNames
<1> QED
  BY <1>2, <1>3, <1>4, <1>5, <1>6, <1>7 DEF Next

LEMMA NameInductive ==
    ASSUME Sequential, DisjointNames, CallsAnswered
    PROVE  Spec => [](TypeInv /\ LinkInv /\ NameInv)
<1>1. Spec => [](TypeInv /\ LinkInv)
  BY LinkInductive
<1>2. TypeInv /\ TypeInv' /\ SeparateInv /\ [Next]_vars => SeparateInv'
  BY SeparateNext
<1>3. TypeInv /\ SeparateInv /\ LinkInv /\ NameInv /\ [Next]_vars => NameInv'
  BY NameNext
<1> QED
  BY <1>1, <1>2, <1>3, SeparateInit, NameInit, PTL DEF Spec

\* When Emby answers every call, requests of one subject do not overlap and no
\* two subjects share a name, no change of a name, no failure and no recovery
\* leads a linked subject away from its account while that exists.
THEOREM LinkedKeepAccount ==
    Sequential /\ DisjointNames /\ CallsAnswered /\ Spec => []KeepsAccount
<1> SUFFICES ASSUME Sequential, DisjointNames, CallsAnswered PROVE Spec => []KeepsAccount
  OBVIOUS
<1>1. NameInv => KeepsAccount
  BY DEF NameInv, Follows, FollowsAt, KeepsAccount, Exists
<1> QED
  BY <1>1, NameInductive, PTL

\* "username/email changes don't create duplicates" is true under these
\* conditions; no_duplicate.cfg shows it is not when a call may fail.
THEOREM AnsweredMakesNoDuplicate ==
    Sequential /\ DisjointNames /\ CallsAnswered /\ Spec => []NoDuplicateAccount
<1> SUFFICES ASSUME Sequential, DisjointNames, CallsAnswered PROVE Spec => []NoDuplicateAccount
  OBVIOUS
<1>1. ASSUME TypeInv, NameInv, NEW r \in Reqs, At(r, "create"), req[r].rec # None
      PROVE  ~Exists(req[r].rec.id)
  <2>1. Follows(req[r], users) /\ req[r].rec.id \in Ids /\ None \notin Ids
    BY <1>1, SentinelsAssumption DEF NameInv, TypeInv, TypeOK, Request, Row, EmbyValues
  <2> QED
    BY <1>1, <2>1 DEF Follows, FollowsAt, At, Exists
<1>2. TypeInv /\ NameInv => NoDuplicateAccount
  BY <1>1 DEF NoDuplicateAccount
<1> QED
  BY <1>2, NameInductive, PTL

\* And recovery starts only for a row whose password does not open its account.
THEOREM RecoveryIsNeeded ==
    Sequential /\ DisjointNames /\ CallsAnswered /\ Spec => RecoversOnlyClosed
<1> SUFFICES ASSUME Sequential, DisjointNames, CallsAnswered PROVE Spec => RecoversOnlyClosed
  OBVIOUS
<1> DEFINE Needed == \A r \in Reqs : At(r, "auth") /\ At(r, "dropSession")'
                        => HasRow(Sub(r)) /\ ~Opens(db[Sub(r)])
<1>1. ASSUME TypeInv, LinkInv, NameInv, [Next]_vars, NEW r \in Reqs,
             At(r, "auth"), At(r, "dropSession")'
      PROVE  HasRow(Sub(r)) /\ ~Opens(db[Sub(r)])
  <2> DEFINE q == req[r]
  <2>1. /\ q \in Request /\ Linked(q, Sub(r)) /\ Follows(q, users) /\ q.pc = "auth"
        /\ req'[r].pc = "dropSession" /\ req \in [Reqs -> Request]
    BY <1>1 DEF TypeInv, TypeOK, LinkInv, NameInv, At
  <2>2. Authenticate(r)
    <3>1. ASSUME NEW p \in Reqs, Arrive(p) PROVE FALSE
      <4>1. PICK n : req' = [req EXCEPT ![p] = [Blanks("load") EXCEPT !.name = n]]
        BY <3>1 DEF Arrive
      <4>2. [Blanks("load") EXCEPT !.name = n].pc = "load"
        BY DEF Blanks
      <4> QED
        BY <2>1, <4>1, <4>2
    <3>2. ASSUME NEW p \in Reqs, Handle(p) PROVE p = r
      BY <2>1, <3>2
         DEF Handle, LoadSession, EvictExpired, FindUserBySub, DBFails, GetUser, CheckName,
             Rename, UpdateUserName, Lookup, Adopt, Create, CreateUser, GetForPassword,
             ResetPassword, UpdatePasswordReset, SetPassword, UpdatePasswordSet, UpdatePolicy,
             UpdatePolicyRaw, Insert, Authenticate, DropSession, Recheck, DeleteRow,
             StoreSession, Forward, Invalidate, EmbyRead, EmbyWrite, Go, Goto, Reply
    <3>3. Handle(r) => Authenticate(r)
      BY <2>1
         DEF Handle, At, LoadSession, EvictExpired, FindUserBySub, GetUser, CheckName,
             Rename, Lookup, Create, GetForPassword, ResetPassword, SetPassword, UpdatePolicy,
             Insert, DropSession, Recheck, DeleteRow, StoreSession, Forward, Invalidate
    <3>4. ~(UNCHANGED req)
      BY <2>1
    <3>5. ~Crash
      BY <2>1 DEF Crash, Blanks
    <3> QED
      BY <1>1, <3>1, <3>2, <3>3, <3>4, <3>5 DEF Next, vars, Expire, Administer, Reenable
  <2>3. q.rec # None /\ Accepting(q.name, q.pw) = {}
    <3>1. ~Disturb("refuse")
      BY DEF CallsAnswered, Disturb
    <3>2. CASE Reply(r, "401")
      BY <2>1, <3>2 DEF Reply, Blanks
    <3>3. ASSUME NEW l, l = [q EXCEPT !.sess = l.sess], Goto(r, l, "store") PROVE FALSE
      BY <2>1, <3>3 DEF Goto, Request
    <3> QED
      BY <2>2, <3>1, <3>2, <3>3 DEF Authenticate, At
  <2>4. /\ HasRow(Sub(r)) /\ db[Sub(r)] = q.rec /\ q.rec.id \in Ids
        /\ q.pw = q.rec.pw
        /\ users[q.rec.id] # None => users[q.rec.id].name = q.name
    BY <2>1, <2>3 DEF Linked, Follows, FollowsAt, Request, Row
  <2> QED
    BY <2>3, <2>4 DEF Opens, Accepting, Named
<1>2. TypeInv /\ LinkInv /\ NameInv /\ [Next]_vars => [Needed]_vars
  BY <1>1
<1> QED
  BY <1>2, NameInductive, PTL DEF Spec, RecoversOnlyClosed
====
