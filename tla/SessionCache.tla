---- MODULE SessionCache ----
(***************************************************************************)
(* The routes of cmd/bridge/main.go behind Auth, for one subject: how a    *)
(* session gets from the cache to the browser's page (InjectCredentials)   *)
(* and to the proxied calls (Proxy), while time passes and Emby ends       *)
(* sessions.  Of Auth only the session cache is here and the outcome of a  *)
(* sign-in; AuthMiddleware has the rest.                                   *)
(***************************************************************************)
EXTENDS Naturals

CONSTANTS
    Browsers,     \* browser connections of the subject
    Tokens,       \* Emby's access tokens
    None,
    TTL,          \* sessionCacheTTL, in ticks
    Delay,        \* how many ticks may fall into the handling of a request
    MaxEnds,      \* how many sessions Emby ends by itself
    MaxFailures   \* how many calls fail

ASSUME NoneAssumption == None \notin Tokens
ASSUME NumbersAssumption ==
    /\ TTL \in Nat \ {0} /\ Delay \in Nat
    /\ MaxEnds \in Nat /\ MaxFailures \in Nat

Routes == {"page", "call", "logout"}

\* Once the cached session is older than this, its exact age makes no difference.
MaxAge == TTL + 2 * Delay

VARIABLES
    valid,     \* the tokens Emby accepts
    cache,     \* the subject's entry of sessionCache, or None
    req,       \* a connection's request
    age,       \* ticks since Emby issued a token
    ends, failures

vars == <<valid, cache, req, age, ends, failures>>

\* since: ticks since it was stored; expiresAt is TTL after that.
Entry == [tok : Tokens, since : 0..TTL]
ASSUME NoneIsNoEntry == None \notin Entry

Request == [pc : {"idle", "load", "evict", "signIn", "retry", "store", "serve", "invalidate"},
            route : Routes,
            tok : Tokens \cup {None},   \* the session in the request's context
            ticks : 0..Delay]

TypeOK ==
    /\ valid \subseteq Tokens
    /\ cache \in Entry \cup {None}
    /\ req \in [Browsers -> Request]
    /\ \A b \in Browsers : req[b].pc \in {"store", "serve", "invalidate"} => req[b].tok # None
    /\ age \in [Tokens -> 0..MaxAge]
    /\ ends \in 0..MaxEnds
    /\ failures \in 0..MaxFailures

Idle == [pc |-> "idle", route |-> "page", tok |-> None, ticks |-> 0]

Init ==
    /\ valid = {}
    /\ cache = None
    /\ req = [b \in Browsers |-> Idle]
    /\ age = [t \in Tokens |-> 0]
    /\ ends = 0
    /\ failures = 0

----------------------------------------------------------------------------

At(b, pc) == req[b].pc = pc
Go(b, pc) == req' = [req EXCEPT ![b].pc = pc]
End(b) == req' = [req EXCEPT ![b] = Idle]

Fails ==
    /\ failures < MaxFailures
    /\ failures' = failures + 1

\* The tokens the bridge has; a new one is none of these, and which one makes
\* no difference.
KnownTokens ==
    {req[b].tok : b \in Browsers} \cup (IF cache = None THEN {} ELSE {cache.tok})
FreshToken == CHOOSE t \in Tokens : t \notin KnownTokens

Arrive(b, route) ==
    /\ At(b, "idle")
    /\ req' = [req EXCEPT ![b].pc = "load", ![b].route = route]
    /\ UNCHANGED <<valid, cache, age, ends, failures>>

\* Variant of LoadSession: expiresAt is not looked at.
LoadSessionAnyAge(b) ==
    /\ At(b, "load")
    /\ IF cache = None THEN Go(b, "signIn")
       ELSE req' = [req EXCEPT ![b].pc = "serve", ![b].tok = cache.tok]
    /\ UNCHANGED <<valid, cache, age, ends, failures>>

\* Variant of LoadSession: the session is not put into the request's context.
LoadSessionWhole(b) ==
    /\ At(b, "load")
    /\ Go(b, IF cache = None THEN "signIn" ELSE "serve")
    /\ UNCHANGED <<valid, cache, age, ends, failures>>

\* sessionCache.Load, and a look at expiresAt.
LoadSession(b) ==
    /\ At(b, "load")
    /\ \/ cache = None /\ Go(b, "signIn")
       \/ /\ cache # None /\ cache.since < TTL
          /\ req' = [req EXCEPT ![b].pc = "serve", ![b].tok = cache.tok]
       \/ cache # None /\ cache.since = TTL /\ Go(b, "evict")
    /\ UNCHANGED <<valid, cache, age, ends, failures>>

\* sessionCache.Delete of what is there by now.
EvictExpired(b) ==
    /\ At(b, "evict")
    /\ cache' = None
    /\ Go(b, "signIn")
    /\ UNCHANGED <<valid, age, ends, failures>>

\* AuthenticateByName with the subject's row fails: the password or the name is
\* no longer the account's, say.  Before the account is replaced, whatever
\* session is cached by now goes.
DropSession(b) ==
    /\ At(b, "signIn")
    /\ cache' = None
    /\ Go(b, "retry")
    /\ UNCHANGED <<valid, age, ends, failures>>

\* AuthenticateByName, the first or the one after the account was replaced, and
\* all that goes before it; an error answer if it fails.
SignIn(b) ==
    /\ At(b, "signIn") \/ At(b, "retry")
    /\ Tokens \ KnownTokens # {}
    /\ \/ /\ valid' = (valid \cap KnownTokens) \cup {FreshToken}
          /\ age' = [t \in Tokens |-> IF t \in KnownTokens THEN age[t] ELSE 0]
          /\ req' = [req EXCEPT ![b].pc = "store", ![b].tok = FreshToken]
          /\ UNCHANGED failures
       \/ Fails /\ End(b) /\ UNCHANGED <<valid, age>>
    /\ UNCHANGED <<cache, ends>>

\* The entry expires TTL after it is stored.
StoreSession(b) ==
    /\ At(b, "store")
    /\ cache' = [tok |-> req[b].tok, since |-> 0]
    /\ Go(b, "serve")
    /\ UNCHANGED <<valid, age, ends, failures>>

----------------------------------------------------------------------------
(* The handlers behind Auth.                                                *)

\* Emby's page is fetched without the token, and sent to the browser with the
\* token put into it; or it is not reached (502).  Either way nothing is learnt
\* of the token.  GET / is a redirection to this page.
InjectCredentials(b) ==
    /\ At(b, "serve") /\ req[b].route = "page"
    /\ End(b)
    /\ UNCHANGED <<valid, cache, age, ends, failures>>

\* A call with the session's token, which Emby answers or refuses with 401; a
\* logout ends the session; or Emby is not reached (502).
Proxy(b) ==
    /\ At(b, "serve") /\ req[b].route \in {"call", "logout"}
    /\ LET t == req[b].tok
       IN  \/ /\ t \in valid
              /\ valid' = IF req[b].route = "logout" THEN valid \ {t} ELSE valid
              /\ End(b)
              /\ UNCHANGED failures
           \/ t \notin valid /\ Go(b, "invalidate") /\ UNCHANGED <<valid, failures>>
           \/ Fails /\ End(b) /\ UNCHANGED valid
    /\ UNCHANGED <<cache, age, ends>>

\* Variant of InvalidateSession: the session stays in the cache.
KeepSession(b) ==
    /\ At(b, "invalidate")
    /\ End(b)
    /\ UNCHANGED <<valid, cache, age, ends, failures>>

\* ModifyResponse of a 401: whatever session is cached by now goes.
InvalidateSession(b) ==
    /\ At(b, "invalidate")
    /\ cache' = None
    /\ End(b)
    /\ UNCHANGED <<valid, age, ends, failures>>

----------------------------------------------------------------------------

\* Emby ends a session: an administrator's doing, or a deleted user.
EndSession(t) ==
    /\ t \in valid
    /\ ends < MaxEnds
    /\ ends' = ends + 1
    /\ valid' = valid \ {t}
    /\ UNCHANGED <<cache, req, age, failures>>

\* Time passes; every call has a timeout, so a request sees few ticks.
Tick ==
    /\ \A b \in Browsers : At(b, "idle") \/ req[b].ticks < Delay
    /\ req' = [b \in Browsers |-> IF At(b, "idle") THEN req[b]
                                  ELSE [req[b] EXCEPT !.ticks = @ + 1]]
    /\ cache' = IF cache # None /\ cache.since < TTL
                THEN [cache EXCEPT !.since = @ + 1] ELSE cache
    /\ age' = [t \in Tokens |-> IF t \in KnownTokens /\ age[t] < MaxAge
                                THEN age[t] + 1 ELSE age[t]]
    /\ UNCHANGED <<valid, ends, failures>>

Handle(b) ==
    \/ LoadSession(b) \/ EvictExpired(b) \/ DropSession(b) \/ SignIn(b) \/ StoreSession(b)
    \/ InjectCredentials(b) \/ Proxy(b) \/ InvalidateSession(b)

Next ==
    \/ \E b \in Browsers : Handle(b) \/ \E route \in Routes : Arrive(b, route)
    \/ \E t \in Tokens : EndSession(t)
    \/ Tick

Spec == Init /\ [][Next]_vars

\* A request that can go on does.  Nothing is assumed of the clock.
FairSpec == Spec /\ \A b \in Browsers : WF_vars(Handle(b))

----------------------------------------------------------------------------

\* A session is handed on, to a page or a call, less than TTL after its
\* sign-in, give or take the time two requests take: the one that signed in and stored
\* it, the entry's time starting only then, and the one that found it.
HandedOnInTime == \A b \in Browsers : At(b, "serve") => age[req[b].tok] < TTL + 2 * Delay

\* When Emby has ended its last session, a browser that keeps loading the page
\* and calling through the proxy comes to be given only tokens Emby accepts,
\* although other requests may evict, expire and store sessions meanwhile.
\* Needs FairSpec.
PageRecovers ==
    \A b \in Browsers :
        /\ []<>(At(b, "serve") /\ req[b].route = "page")
        /\ []<>(At(b, "serve") /\ req[b].route = "call")
        /\ <>[](\A c \in Browsers : req[c].route # "logout")
        => <>[](At(b, "serve") /\ req[b].route = "page" => req[b].tok \in valid)

\* "This ensures credentials are always fresh on every page load": a page is
\* not given a session that Emby has ended before it was taken from the cache.
FreshOnPageLoad ==
    [][\A b \in Browsers :
         At(b, "load") /\ At(b, "serve")' /\ req[b].route = "page" => req'[b].tok \in valid]_vars

\* "evicted on logout or Emby 401": once a logout has been answered, the
\* session it ended is not cached.
EvictedOnLogout ==
    [][\A b \in Browsers :
         At(b, "serve") /\ req[b].route = "logout" /\ At(b, "idle")' /\ valid' # valid
         => cache' = None \/ cache'.tok \in valid']_vars

\* "15-minute TTL per OIDC sub": a cached session is not handed on when more
\* than a quarter of TTL, which is an hour, has passed since it was stored.
QuarterHourTTL ==
    [][\A b \in Browsers : At(b, "load") /\ At(b, "serve")' => 4 * cache.since <= TTL]_vars
====
