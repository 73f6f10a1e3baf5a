---- MODULE ClaimResolution ----
(***************************************************************************)
(* Who is asking?  A request passes the check of TrustedProxies, which     *)
(* every route of main has but /health.  Then internal/middleware/auth.go  *)
(* and internal/handler/account.go each find subject and preferred name in *)
(* its headers or in its ID token, in code of their own: Auth decodes all  *)
(* claims of the token at once, the account page one at a                  *)
(* time.  A header or claim that is missing is the empty string, here      *)
(* None.  A token's payload may not decode at all, or a claim may have     *)
(* another type than a string (NotAString), which fails the decoding of    *)
(* every struct that has the field.                                        *)
(***************************************************************************)
EXTENDS TrustedProxies

CONSTANTS
    Values,      \* subjects and names
    None,        \* ""
    NotAString,
    Garbled,     \* a token without three parts or readable JSON
    Tokens,      \* the tokens a request may carry
    Cases        \* lists of trusted proxies with the headers of a request and the
                 \* subjects that have a row at first

Claims == {"sub", "preferred_username", "picture"}

ASSUME SentinelsAssumption == None \notin Values /\ NotAString \notin Values \cup {None}
ASSUME TokensAssumption ==
    /\ Tokens \subseteq [Claims -> Values \cup {None, NotAString}] \cup {Garbled}
    /\ {None, Garbled} \cap [Claims -> Values \cup {None, NotAString}] = {} /\ None # Garbled

Requests == [fwdSub : Values \cup {None}, reqSub : Values \cup {None},
             fwdName : Values \cup {None}, reqName : Values \cup {None},
             bearer : Tokens \cup {None},
             fwdToken : Tokens \cup {None}, reqToken : Tokens \cup {None}]

ASSUME CasesAssumption ==
    \A c \in Cases : IsEntryList(c.list) /\ c.req \in Requests /\ c.rows \subseteq Values

VARIABLES
    req,     \* the headers a browser sends
    rows,    \* the subjects with a row
    auth,    \* what Auth made of them
    embyName, \* the name it signed in with at Emby, None if it did not
    page     \* the account page's answer, None if not asked since Auth was

vars == <<env, trusted, pc, peer, answer, req, rows, auth, embyName, page>>

Signed(sub, name) == [status |-> "200", sub |-> sub, name |-> name]
Refused(status) == [status |-> status, sub |-> None, name |-> None]
Answer == {Signed(s, n) : s, n \in Values} \cup {Refused(c) : c \in {"401", "404", "500"}}

TypeOK ==
    /\ ProxiesTypeOK
    /\ req \in Requests
    /\ rows \subseteq Values
    /\ auth \in Answer \cup {None}
    /\ embyName \in Values \cup {None}
    /\ page \in Answer \cup {None}

Init ==
    /\ \E c \in Cases : ProxiesInit(c.list) /\ req = c.req /\ rows = c.rows
    /\ auth = None
    /\ embyName = None
    /\ page = None

----------------------------------------------------------------------------

\* The value of one place or, if nothing is there, of another.
Else(a, b) == IF a # None THEN a ELSE b

\* Authorization: Bearer, X-Forwarded-Access-Token, X-Auth-Request-Access-Token.
TokenOf(q) == Else(q.bearer, Else(q.fwdToken, q.reqToken))

\* Decoding a token into a struct with the given fields.
Decode(token, fields) ==
    LET readable == token \notin {None, Garbled} /\ \A c \in fields : token[c] # NotAString
    IN  [c \in fields |-> IF readable THEN token[c] ELSE None]

extractClaimsFromJWT(token) == Decode(token, Claims)

\* Auth's subject and name.  A name that is the subject is none.
AuthSub(q) ==
    Else(q.fwdSub, Else(q.reqSub, extractClaimsFromJWT(TokenOf(q))["sub"]))
AuthName(q) ==
    LET name == Else(q.fwdName, Else(q.reqName,
                     extractClaimsFromJWT(TokenOf(q))["preferred_username"]))
    IN  IF name = AuthSub(q) THEN None ELSE name

\* The account page's.
ExtractSubFromRequest(q) ==
    Else(q.fwdSub, Else(q.reqSub, Decode(TokenOf(q), {"sub"})["sub"]))

\* Variant of ExtractPreferredUsernameFromRequest: the token before the headers.
ExtractNameTokenFirst(q) ==
    Else(Decode(TokenOf(q), {"preferred_username"})["preferred_username"],
         Else(q.fwdName, q.reqName))

ExtractPreferredUsernameFromRequest(q) ==
    Else(q.fwdName, Else(q.reqName,
         Decode(TokenOf(q), {"preferred_username"})["preferred_username"]))

----------------------------------------------------------------------------

\* Variant of Guarded: the handler is called whatever the check says.
Unguarded(p, handler) == TrustedProxy(p) /\ handler /\ UNCHANGED req

\* Behind the check, or not reached.
Guarded(p, handler) ==
    /\ TrustedProxy(p)
    /\ \/ answer' = "next" /\ handler
       \/ answer' = "403" /\ UNCHANGED <<rows, auth, embyName, page>>
    /\ UNCHANGED req

\* Variant of Auth: a request without a name is let through.
AuthNameless ==
    /\ auth' = IF AuthSub(req) = None THEN Refused("401")
               ELSE Signed(AuthSub(req), AuthName(req))
    /\ rows' = IF AuthSub(req) = None THEN rows ELSE rows \cup {AuthSub(req)}
    /\ embyName' = None
    /\ page' = None

\* A subject that is new is signed in at Emby under the preferred name.  One
\* with a row is under any: Emby's name is kept where the preferred one is
\* taken, or renaming fails, and a cached session goes by no name at all.
SignIn(sub, name) ==
    /\ auth' = Signed(sub, name)
    /\ rows' = rows \cup {sub}
    /\ embyName' \in IF sub \in rows THEN Values ELSE {name}

\* A call fails, for recovery perhaps between deleting a row and inserting one,
\* for a new subject perhaps after it.
SignInFails(sub) ==
    /\ auth' = Refused("500")
    /\ rows' \in {rows, rows \cup {sub}, rows \ {sub}}
    /\ embyName' = None

\* Auth turns the request away, or signs the subject in.
Auth ==
    LET denied == None \in {AuthSub(req), AuthName(req)}
    IN  /\ \/ denied /\ auth' = Refused("401") /\ embyName' = None /\ UNCHANGED rows
           \/ ~denied /\ SignIn(AuthSub(req), AuthName(req))
           \/ ~denied /\ SignInFails(AuthSub(req))
        /\ page' = None

\* The account page of the same browser: the row of the subject it finds, under
\* the name it finds.
Account ==
    LET sub == ExtractSubFromRequest(req)
        name == ExtractPreferredUsernameFromRequest(req)
    IN  /\ \/ None \in {sub, name} /\ page' = Refused("401")
           \/ None \notin {sub, name} /\ page' = Refused("500")
           \/ None \notin {sub, name} /\ sub \notin rows /\ page' = Refused("404")
           \/ None \notin {sub, name} /\ sub \in rows /\ page' = Signed(sub, name)
        /\ UNCHANGED <<rows, auth, embyName>>

\* config.Load; nothing is served after a bad list.
Start == Load /\ UNCHANGED <<req, rows, auth, embyName, page>>
Failed == pc = "failed" /\ UNCHANGED vars

Next ==
    \/ Start
    \/ \E p \in Peer : Guarded(p, Auth) \/ Guarded(p, Account)
    \/ Failed

Spec == Init /\ [][Next]_vars

----------------------------------------------------------------------------

SignedIn == auth # None /\ auth.status = "200"

\* Whom Auth signed in is shown, with the same headers, the row of the subject
\* Auth signed in and the preferred name Auth read, not another's and no
\* refusal, wherever in the request they come from and whatever else is in it
\* (unless the database fails).
AccountOfSignedIn == SignedIn => page \in {auth, None, Refused("500")}

\* "Use these credentials to sign in on Emby TV and mobile apps": the name shown
\* is the one Auth signs in with.  Not so where Emby has kept another.
ShownNameSignsIn == SignedIn /\ page = auth => page.name = embyName

\* Claims are headers anybody can send: a row is written, and an answer with a
\* password given, only to a peer that the list names, as it was written.
OnlyListedReachHandlers ==
    [][<<rows, auth, page>>' # <<rows, auth, page>> => ListedPeer']_vars
====
