---- MODULE AuthMiddleware ----
(***************************************************************************)
(* internal/middleware/auth.go, Auth: what one HTTP request does to Emby,  *)
(* to the users table and to the session cache, one step per call, so that *)
(* requests interleave between any two calls.  The request that passes is  *)
(* proxied to Emby (internal/handler/proxy.go), and a 401 from Emby evicts *)
(* the cached session.                                                     *)
(***************************************************************************)
EXTENDS UserDB

CONSTANTS
    Reqs,            \* request slots: browser connections
    SubOf,           \* the subject whose browser uses a slot: [Reqs -> Subs]
    PrefNames,       \* the preferred_username values a subject may arrive with
    Draw(_)          \* the fresh ids, passwords or tokens of a set that are tried

ASSUME SubOfAssumption == SubOf \in [Reqs -> Subs]
ASSUME PrefNamesAssumption == PrefNames \in [Subs -> SUBSET Names]

\* Any choice among fresh values will do, since they are only compared; TLC
\* tries one, the proofs hold for every way to draw.
ASSUME DrawAssumption ==
    \A S \in (SUBSET Ids) \cup (SUBSET Passwords) \cup (SUBSET Tokens) :
        Draw(S) \subseteq S /\ (S # {} => Draw(S) # {})

VARIABLES
    cache,     \* sessionCache: [Subs -> CachedSession or None]
    req        \* the local variables of each request

vars == <<users, valid, db, cache, req, spent>>

Responses == {"200", "401", "500", "502", "503"}

\* Where a request is: the call it is about to make.
Steps == {"load", "evict", "find", "getUser", "checkName", "rename", "lookup",
          "create", "getPw", "resetPw", "setPw", "policy", "insert", "auth",
          "dropSession", "recheck", "deleteRow", "retry", "store", "serve",
          "invalidate"}

\* A cached session; ~fresh once the clock has passed expiresAt.
CachedSession == [sess : Session, fresh : BOOLEAN]

Request ==
    [pc   : {"idle"} \cup Responses \cup Steps,
     name : Names \cup {None},      \* embyUsername
     was  : Names \cup {None},      \* embyUser.Name, read from Emby
     rec  : Row \cup {None},        \* record, read from the database
     id   : Ids \cup {None},        \* embyUserID
     pw   : Passwords \cup {None},  \* userPassword
     made : BOOLEAN,                \* CreateUser, not an adoption
     sess : Session \cup {None}]    \* authResult, or the cached session

TypeOK ==
    /\ EmbyTypeOK
    /\ DBTypeOK
    /\ cache \in [Subs -> CachedSession \cup {None}]
    /\ req \in [Reqs -> Request]
    /\ spent \in 0..MaxDisturbances

Blanks(pc) == [pc |-> pc, name |-> None, was |-> None, rec |-> None, id |-> None,
               pw |-> None, made |-> FALSE, sess |-> None]

Init ==
    /\ EmbyInit
    /\ DBInit
    /\ cache = [s \in Subs |-> None]
    /\ req = [r \in Reqs |-> Blanks("idle")]
    /\ spent = 0

----------------------------------------------------------------------------
(* Helpers.                                                                 *)

At(r, pc) == req[r].pc = pc
Sub(r) == SubOf[r]

\* r's locals become l and it goes on at pc.
Goto(r, l, pc) == req' = [req EXCEPT ![r] = [l EXCEPT !.pc = pc]]
Go(r, pc) == Goto(r, req[r], pc)
Reply(r, code) == req' = [req EXCEPT ![r] = Blanks(code)]

\* A database statement that cannot run: pool, disk or lock error.
DBFails(r) == Disturb("dbFail") /\ UNCHANGED db /\ Reply(r, "500")

InUse == {r \in Reqs : req[r].pc \in Steps}

\* Variant of FreshPasswords: the generator repeats itself.
RepeatedPasswords == Passwords

\* password.Generate: a value no account, row or request holds.
FreshPasswords ==
    Passwords \ ( {users[i].pw : i \in {j \in Ids : users[j] # None}}
            \cup {db[s].pw : s \in {t \in Subs : HasRow(t)}}
            \cup {req[r].pw : r \in Reqs}
            \cup {req[r].rec.pw : r \in {q \in Reqs : req[q].rec # None}} )

HeldSessions ==
    {cache[s].sess : s \in {t \in Subs : cache[t] # None}} \cup {req[r].sess : r \in Reqs}

\* Emby never gives an account the id of an earlier one.
FreshIds ==
    {i \in Ids : users[i] = None}
        \ ( {db[s].id : s \in {t \in Subs : HasRow(t)}}
       \cup {cache[s].sess.id : s \in {t \in Subs : cache[t] # None}}
       \cup {req[r].id : r \in Reqs}
       \cup {req[r].rec.id : r \in {q \in Reqs : req[q].rec # None}}
       \cup {req[r].sess.id : r \in {q \in Reqs : req[q].sess # None}}
       \cup {s.id : s \in valid} )

FreshTokens == Tokens \ {s.tok : s \in HeldSessions \ {None}}

Evict(s) == cache' = [cache EXCEPT ![s] = None]

----------------------------------------------------------------------------
(* Identity and cache (auth.go, the cache check and the record lookup).     *)

\* A browser sends a request; its claims resolve to the slot's subject and
\* to one of the subject's names.
Arrive(r) ==
    /\ r \notin InUse
    /\ \E n \in PrefNames[Sub(r)] :
          req' = [req EXCEPT ![r] = [Blanks("load") EXCEPT !.name = n]]
    /\ UNCHANGED <<embyVars, db, cache, spent>>

\* sessionCache.Load
LoadSession(r) ==
    /\ At(r, "load")
    /\ LET c == cache[Sub(r)] IN
          \/ c = None /\ Go(r, "find")
          \/ c # None /\ c.fresh /\ Goto(r, [req[r] EXCEPT !.sess = c.sess], "serve")
          \/ c # None /\ ~c.fresh /\ Go(r, "evict")
    /\ UNCHANGED <<embyVars, db, cache, spent>>

\* sessionCache.Delete of whatever the cache holds by now.
EvictExpired(r) ==
    /\ At(r, "evict")
    /\ Evict(Sub(r))
    /\ Go(r, "find")
    /\ UNCHANGED <<embyVars, db, spent>>

FindUserBySub(r) ==
    /\ At(r, "find")
    /\ UNCHANGED <<embyVars, cache>>
    /\ \/ DBFails(r)
       \/ /\ Calm /\ UNCHANGED db
          /\ LET row == db[Sub(r)] IN
                \/ row = None /\ Go(r, "lookup")
                \/ /\ row # None
                   /\ Goto(r, [req[r] EXCEPT !.rec = row, !.id = row.id, !.pw = row.pw],
                           "getUser")

----------------------------------------------------------------------------
(* A linked user: follow a changed preferred_username.                      *)

\* Any error, a deleted account included, skips the name synchronisation.
GetUser(r) ==
    /\ At(r, "getUser")
    /\ UNCHANGED <<db, cache>>
    /\ LET q == req[r]
           u == users[q.id]
           answer == \/ (u # None => u.name = q.name) /\ Go(r, "auth")
                     \/ /\ u # None /\ u.name # q.name
                        /\ Goto(r, [q EXCEPT !.was = u.name], "checkName")
       IN  EmbyRead(answer, Go(r, "auth"))

\* Variant of CheckName: the request goes on under the name that is taken.
CheckNameGoesOn(r) ==
    /\ At(r, "checkName")
    /\ UNCHANGED <<db, cache>>
    /\ LET q == req[r]
           taken == FindUserByName(q.name) \notin {None, q.id}
       IN  EmbyRead(Go(r, IF taken THEN "auth" ELSE "rename"), Go(r, "rename"))

\* Another account has the name: keep the present one.  A failed lookup is
\* ignored and the rename is tried.
CheckName(r) ==
    /\ At(r, "checkName")
    /\ UNCHANGED <<db, cache>>
    /\ LET q == req[r]
           taken == FindUserByName(q.name) \notin {None, q.id}
           answer == \/ taken /\ Goto(r, [q EXCEPT !.name = q.was, !.was = None], "auth")
                     \/ ~taken /\ Go(r, "rename")
       IN  EmbyRead(answer, Go(r, "rename"))

\* Variant of Rename: the request goes on under the name the account had.
RenameForgets(r) ==
    /\ At(r, "rename")
    /\ UNCHANGED <<db, cache>>
    /\ LET q == req[r]
           goOn == Goto(r, [q EXCEPT !.name = q.was, !.was = None], "auth")
       IN  UpdateUserName(q.id, q.name, goOn, goOn)

Rename(r) ==
    /\ At(r, "rename")
    /\ UNCHANGED <<db, cache>>
    /\ LET q == req[r]
       IN  UpdateUserName(q.id, q.name,
                          Goto(r, [q EXCEPT !.was = None], "auth"),
                          Goto(r, [q EXCEPT !.name = q.was, !.was = None], "auth"))

----------------------------------------------------------------------------
(* Provisioning, and its repetition during recovery.                        *)

\* Variant of Adopt: an existing account is taken as it is, without setting
\* the password.
AdoptUnchanged(r, i, p) ==
    Goto(r, [req[r] EXCEPT !.id = i, !.pw = p],
         CASE i = None -> "create" [] req[r].rec = None -> "insert" [] OTHER -> "policy")

\* Adopt(r, i, p): go on with account i, or with a new one if i is None, and
\* the generated password p.
Adopt(r, i, p) ==
    Goto(r, [req[r] EXCEPT !.id = i, !.pw = p], IF i = None THEN "create" ELSE "getPw")

\* The subject has no row: FindUserByName, then password.Generate.
Lookup(r) ==
    /\ At(r, "lookup")
    /\ UNCHANGED <<db, cache>>
    /\ EmbyRead(\E p \in Draw(FreshPasswords) : Adopt(r, FindUserByName(req[r].name), p),
                Reply(r, "503"))

Create(r) ==
    /\ At(r, "create")
    /\ UNCHANGED <<db, cache>>
    /\ \E i \in Draw(FreshIds) :
          LET q == req[r]
          IN  CreateUser(i, q.name,
                         Goto(r, [q EXCEPT !.id = i, !.made = TRUE], "getPw"),
                         Reply(r, "500"))

\* UpdatePassword, GetUser: is there a password to reset?
GetForPassword(r) ==
    /\ At(r, "getPw")
    /\ UNCHANGED <<db, cache>>
    /\ LET u == users[req[r].id]
           answer == \/ u = None /\ Reply(r, "500")
                     \/ u # None /\ u.pw # Blank /\ Go(r, "resetPw")
                     \/ u # None /\ u.pw = Blank /\ Go(r, "setPw")
       IN  EmbyRead(answer, Reply(r, "500"))

ResetPassword(r) ==
    /\ At(r, "resetPw")
    /\ UNCHANGED <<db, cache>>
    /\ UpdatePasswordReset(req[r].id, Go(r, "setPw"), Reply(r, "500"))

\* UpdatePassword, NewPw.  A first adoption stores the row at once; a created
\* or a re-adopted account gets its policy first.
SetPassword(r) ==
    /\ At(r, "setPw")
    /\ UNCHANGED <<db, cache>>
    /\ LET q == req[r]
           next == IF q.made \/ q.rec # None THEN "policy" ELSE "insert"
       IN  UpdatePasswordSet(q.id, q.pw, Go(r, next), Reply(r, "500"))

\* Variant of UpdatePolicy: a re-adopted account keeps the policy it has.
UpdatePolicyIfMade(r) ==
    /\ At(r, "policy")
    /\ UNCHANGED <<db, cache>>
    /\ LET q == req[r]
       IN  IF q.made
             THEN UpdatePolicyRaw(q.id, Go(r, "insert"), Reply(r, "500"))
             ELSE Calm /\ UNCHANGED embyVars /\ Go(r, "insert")

\* UpdatePolicyRaw(buildUserPolicy(templatePolicy)): fatal for a created
\* account, only logged for a re-adopted one.
UpdatePolicy(r) ==
    /\ At(r, "policy")
    /\ UNCHANGED <<db, cache>>
    /\ LET q == req[r]
       IN  UpdatePolicyRaw(q.id, Go(r, "insert"),
                           IF q.made THEN Reply(r, "500") ELSE Go(r, "insert"))

\* Variant of Insert: a failed statement is only logged.
InsertIfPossible(r) ==
    /\ At(r, "insert")
    /\ UNCHANGED <<embyVars, cache>>
    /\ \/ Disturb("dbFail") /\ UNCHANGED db
       \/ Calm /\ IF HasRow(Sub(r)) THEN UNCHANGED db
                  ELSE InsertUser(Sub(r), req[r].id, req[r].pw)
    /\ Go(r, IF req[r].rec = None THEN "auth" ELSE "retry")

Insert(r) ==
    /\ At(r, "insert")
    /\ UNCHANGED <<embyVars, cache>>
    /\ LET q == req[r]
       IN  \/ DBFails(r)
           \/ Calm /\ HasRow(Sub(r)) /\ UNCHANGED db /\ Reply(r, "500")
           \/ /\ Calm
              /\ InsertUser(Sub(r), q.id, q.pw)
              /\ Go(r, IF q.rec = None THEN "auth" ELSE "retry")

----------------------------------------------------------------------------
(* Authentication, and recovery when a linked user cannot sign in.          *)

\* Variants of Authenticate: after a failed retry the handler goes on, or a
\* failure is never followed by recovery.
AuthenticateOr(r, failed) ==
    /\ At(r, "auth") \/ At(r, "retry")
    /\ UNCHANGED <<db, cache>>
    /\ LET q == req[r]
           accepting == Accepting(q.name, q.pw)
       IN  \/ /\ Calm
              /\ \E i \in accepting, t \in Draw(FreshTokens) :
                    LET s == [id |-> i, tok |-> t]
                    IN  EmbyIssue(s, HeldSessions) /\ Goto(r, [q EXCEPT !.sess = s], "store")
           \/ Calm /\ accepting = {} /\ UNCHANGED embyVars /\ failed
           \/ Disturb("refuse") /\ UNCHANGED embyVars /\ failed

AuthenticateGoesOn(r) ==
    AuthenticateOr(r, IF At(r, "auth") /\ req[r].rec # None THEN Go(r, "dropSession")
                      ELSE Go(r, "store"))
AuthenticateOnce(r) == AuthenticateOr(r, Reply(r, "401"))

\* AuthenticateByName, the first time ("auth") and after recovery ("retry").
\* A lost answer leaves a session nobody knows of, which is no session.
Authenticate(r) ==
    /\ At(r, "auth") \/ At(r, "retry")
    /\ UNCHANGED <<db, cache>>
    /\ LET q == req[r]
           accepting == Accepting(q.name, q.pw)
           failed == /\ UNCHANGED embyVars
                     /\ IF At(r, "auth") /\ q.rec # None THEN Go(r, "dropSession")
                                                         ELSE Reply(r, "401")
       IN  \/ /\ Calm
              /\ \E i \in accepting, t \in Draw(FreshTokens) :
                    LET s == [id |-> i, tok |-> t]
                    IN  EmbyIssue(s, HeldSessions) /\ Goto(r, [q EXCEPT !.sess = s], "store")
           \/ Calm /\ accepting = {} /\ failed
           \/ Disturb("refuse") /\ failed

DropSession(r) ==
    /\ At(r, "dropSession")
    /\ Evict(Sub(r))
    /\ Go(r, "recheck")
    /\ UNCHANGED <<embyVars, db, spent>>

\* FindUserByName: the account recovery will work on, None if it is gone.
Recheck(r) ==
    /\ At(r, "recheck")
    /\ UNCHANGED <<db, cache>>
    /\ EmbyRead(Goto(r, [req[r] EXCEPT !.id = FindUserByName(req[r].name)], "deleteRow"),
                Reply(r, "503"))

\* "Delete stale DB record", then password.Generate and adopt or create.
DeleteRow(r) ==
    /\ At(r, "deleteRow")
    /\ UNCHANGED <<embyVars, cache>>
    /\ \/ DBFails(r)
       \/ /\ Calm
          /\ DeleteUser(Sub(r))
          /\ \E p \in Draw(FreshPasswords) : Adopt(r, req[r].id, p)

\* sessionCache.Store.  The goroutines started here never touch the request
\* again; Reenable stands for what the policy goroutine does to Emby.
StoreSession(r) ==
    /\ At(r, "store")
    /\ cache' = [cache EXCEPT ![Sub(r)] = [sess |-> req[r].sess, fresh |-> TRUE]]
    /\ Go(r, "serve")
    /\ UNCHANGED <<embyVars, db, spent>>

----------------------------------------------------------------------------
(* The proxied request (proxy.go).                                          *)

Forward(r) ==
    /\ At(r, "serve")
    /\ UNCHANGED <<db, cache>>
    /\ LET answer == \/ req[r].sess \in valid /\ Reply(r, "200")
                     \/ req[r].sess \notin valid /\ Go(r, "invalidate")
       IN  EmbyRead(answer, Reply(r, "502"))

\* ModifyResponse: Emby said 401, InvalidateSession drops what is cached now.
Invalidate(r) ==
    /\ At(r, "invalidate")
    /\ Evict(Sub(r))
    /\ Reply(r, "401")
    /\ UNCHANGED <<embyVars, db, spent>>

----------------------------------------------------------------------------
(* The surroundings.                                                        *)

\* The clock passes expiresAt.
Expire(s) ==
    /\ cache[s] # None
    /\ cache[s].fresh
    /\ cache' = [cache EXCEPT ![s].fresh = FALSE]
    /\ UNCHANGED <<embyVars, db, req, spent>>

\* An administrator deletes, disables or gives a password to an account;
\* Emby or the user ends its sessions.
Administer(i) ==
    /\ Exists(i)
    /\ UNCHANGED <<db, cache, req>>
    /\ \/ Disturb("delete") /\ EmbyDelete(i)
       \/ Disturb("disable") /\ EmbyDisable(i)
       \/ Disturb("setPassword") /\ EmbySetPassword(i, Foreign)
       \/ Disturb("revoke") /\ EmbyRevoke(i)

\* The policy goroutine of an earlier login, or an administrator, enables a
\* disabled account.
Reenable(i) ==
    /\ Exists(i)
    /\ users[i].disabled
    /\ EmbyEnable(i)
    /\ UNCHANGED <<db, cache, req, spent>>

\* The process stops and starts again: only Emby and the database survive.
Crash ==
    /\ Disturb("crash")
    /\ cache' = [s \in Subs |-> None]
    /\ req' = [r \in Reqs |-> Blanks("idle")]
    /\ UNCHANGED <<embyVars, db>>

\* The middleware's own step for request r.
Handle(r) ==
    \/ LoadSession(r) \/ EvictExpired(r) \/ FindUserBySub(r)
    \/ GetUser(r) \/ CheckName(r) \/ Rename(r)
    \/ Lookup(r) \/ Create(r)
    \/ GetForPassword(r) \/ ResetPassword(r) \/ SetPassword(r)
    \/ UpdatePolicy(r) \/ Insert(r)
    \/ Authenticate(r) \/ DropSession(r) \/ Recheck(r) \/ DeleteRow(r)
    \/ StoreSession(r) \/ Forward(r) \/ Invalidate(r)

Next ==
    \/ \E r \in Reqs : Arrive(r) \/ Handle(r)
    \/ \E s \in Subs : Expire(s)
    \/ \E i \in Ids : Administer(i) \/ Reenable(i)
    \/ Crash

Spec == Init /\ [][Next]_vars

\* Every call has a timeout and every handler runs in a goroutine of its own,
\* so a request that can go on does.
FairSpec == Spec /\ \A r \in Reqs : WF_vars(Handle(r))

\* Also, the browser asks again once it has its answer.
RetrySpec == FairSpec /\ \A r \in Reqs : WF_vars(Arrive(r))

----------------------------------------------------------------------------
(* Conditions under which properties below hold.                            *)

\* No two requests of one subject overlap: the code takes no lock per
\* subject, so this is a condition on the browser.
Sequential == \A r, q \in Reqs : SubOf[r] = SubOf[q] => r = q

\* The identity provider gives no two subjects the same preferred_username.
DisjointNames ==
    \A s, t \in Subs : s # t => PrefNames[s] \cap PrefNames[t] = {}

\* Emby answers every call and says what it did.
CallsAnswered == {"refuse", "lose"} \cap Disturbances = {}

----------------------------------------------------------------------------
(* Safety.                                                                  *)

\* The password the account page shows opens the linked Emby account: when a
\* row exists, its account was deleted, was given another password by an
\* administrator, or has the password of the row.  It rests on the order of
\* the calls in auth.go: Emby's password is set before the row is inserted
\* and the row is deleted before the password is reset, so that no failure,
\* crash or lost answer in between leaves a row with a password Emby does not
\* know.  Needs Sequential and DisjointNames.
RowMatchesEmby ==
    \A s \in Subs : HasRow(s) =>
        LET u == users[db[s].id]
        IN  u # None => u.pw \in {db[s].pw, Foreign}

\* The accounts a request's variables name.
Claimed(q) ==
    {i \in Ids : \/ q.id = i
                 \/ q.rec # None /\ q.rec.id = i
                 \/ q.sess # None /\ q.sess.id = i}

\* The accounts a subject has hold of: by its row, its cached session or the
\* variables of a request under way.
Claims(s) ==
    {i \in Ids : \/ HasRow(s) /\ db[s].id = i
                 \/ cache[s] # None /\ cache[s].sess.id = i
                 \/ \E r \in Reqs : Sub(r) = s /\ i \in Claimed(req[r])}

\* No account serves two subjects, whatever fails and however requests
\* interleave: linking, renaming, adoption by name and the session cache
\* never lead one person to another's account.  Needs DisjointNames.
AccountsSeparate ==
    \A s, t \in Subs : s # t => Claims(s) \cap Claims(t) = {}

\* AuthenticateByName signs in by name, while password, policy and row were
\* written by id: the session about to be cached is nevertheless one of the
\* account the request linked, although names move between accounts.
SessionOfLinkedAccount ==
    \A r \in Reqs : At(r, "store") => req[r].sess.id = req[r].id

\* A cached session belongs to the account in the subject's row, so that the
\* page /account and the proxy speak of the same account.  Needs Sequential.
CachedSessionHasRow ==
    \A s \in Subs : cache[s] # None => HasRow(s) /\ db[s].id = cache[s].sess.id

\* Emby lets the row's account in with the row's password.
Opens(row) ==
    LET u == users[row.id] IN u # None /\ u.pw = row.pw /\ ~u.disabled

\* A linked subject stays with its account as long as that exists: neither a
\* changed name nor recovery, which looks the account up by name, leads it to
\* another one or to a second one of its own.  Needs Sequential, DisjointNames
\* and CallsAnswered.
KeepsAccount ==
    \A r \in Reqs : req[r].rec # None =>
        req[r].id = req[r].rec.id \/ ~Exists(req[r].rec.id)

\* Recovery starts only if the row's password does not open the row's account,
\* and never because the request signed in under another name than the
\* account's.  Needs the same.
RecoversOnlyClosed ==
    [][\A r \in Reqs : At(r, "auth") /\ At(r, "dropSession")'
          => HasRow(Sub(r)) /\ ~Opens(db[Sub(r)])]_vars

\* The table and Emby's passwords, as a ledger.
Ledger == INSTANCE CredentialLedger
          WITH link <- db,
               pwOf <- [i \in Ids |-> IF users[i] = None THEN None ELSE users[i].pw]

\* The whole flow, with its calls, failures and crashes, changes links and
\* passwords only as the ledger may: no password changes under a row, and no
\* row is written but with the password of an account that nobody else has.
\* Needs Sequential and DisjointNames.
ImplementsLedger == Ledger!LedgerSpec

----------------------------------------------------------------------------
(* Liveness.                                                                *)

\* Whatever partial failure, crash, deletion, disabled account or race with
\* another request left behind in Emby and in the table, the login flow
\* repairs it: once disturbances end, a browser that keeps asking while no
\* other request of its subject is under way is served again and again.
\* Needs DisjointNames, and FairSpec.
SelfHeals ==
    \A r \in Reqs :
        /\ []<>At(r, "load")
        /\ <>[](\A q \in InUse : Sub(q) = Sub(r) => q = r)
        => []<>At(r, "200")

----------------------------------------------------------------------------
(* What the repository's documents say; see the findings.                   *)

\* "Use these credentials to sign in on Emby TV and mobile apps": while no
\* request of a subject is under way, the password shown is Emby's.
CredentialsUsable ==
    \A s \in Subs :
        HasRow(s) /\ (\A r \in InUse : Sub(r) # s) =>
            LET u == users[db[s].id]
            IN  u # None => u.pw \in {db[s].pw, Foreign}

\* "WHEN a user already exists in the SQLite_Database, THE Bridge SHALL use
\* the existing stored password and SHALL NOT generate a new password": a row
\* whose password opens its account stays.
StoredPasswordKept ==
    [][\A s \in Subs :
          HasRow(s) /\ Opens(db[s])
             => db'[s] = db[s]]_vars

\* "Delete stale DB record": the row that recovery deletes is the one whose
\* password was refused, and nothing else deletes or changes a row.
DeletesOnlyRowRead ==
    [][\A s \in Subs : HasRow(s) /\ db'[s] # db[s] =>
          /\ db'[s] = None
          /\ \E r \in Reqs : /\ Sub(r) = s
                             /\ At(r, "deleteRow")
                             /\ req[r].rec = db[s]]_vars

\* "username/email changes don't create duplicates": a linked subject is given
\* a new account only when the linked one is gone.
NoDuplicateAccount ==
    \A r \in Reqs : At(r, "create") /\ req[r].rec # None => ~Exists(req[r].rec.id)

\* "If the preferred username is already taken by another Emby user during
\* account creation, provisioning fails": no account is linked to two subjects.
LinkedOnce ==
    \A s, t \in Subs : s # t /\ HasRow(s) /\ HasRow(t) => db[s].id # db[t].id

\* "Re-provisions user if Emby auth fails": with nothing failing, a subject
\* whose browser keeps asking is served again and again.
KeepsServing ==
    \A s \in Subs : []<>(\E r \in Reqs : Sub(r) = s /\ At(r, "200"))
====
