---- MODULE SessionCache_proofs ----
(***************************************************************************)
(* Types and the age of sessions in SessionCache, for every number of      *)
(* connections and failures and all lengths of time.                       *)
(***************************************************************************)
EXTENDS SessionCache, TLAPS

\* The age of a token on its way from Emby through a request and the cache to
\* another request.  A request counts the ticks it has seen, the cache those
\* since it was filled.
AgeInv ==
    /\ \A b \in Browsers :
         /\ At(b, "idle") => req[b].tok = None
         /\ At(b, "store") => age[req[b].tok] <= req[b].ticks
         /\ At(b, "serve") => age[req[b].tok] <= TTL - 1 + Delay + req[b].ticks
    /\ cache # None /\ cache.since < TTL => age[cache.tok] <= cache.since + Delay

IInv == TypeOK /\ AgeInv

----------------------------------------------------------------------------

LEMMA InitInv == Init => IInv
BY NumbersAssumption DEF Init, IInv, AgeInv, TypeOK, Idle, At, Request, Routes, MaxAge

\* Steps of one request that issue no token, change no age and, if they touch
\* the cache, empty it.
LEMMA RequestKeepsInv ==
    ASSUME IInv, NEW b \in Browsers, NEW r \in Request,
           req' = [req EXCEPT ![b] = r], UNCHANGED age,
           cache' \in {cache, None},
           valid' \subseteq valid, ends' = ends, failures' \in 0..MaxFailures,
           r.pc = "idle" => r.tok = None,
           r.pc \in {"store", "serve", "invalidate"} => r.tok # None,
           r.pc # "store",
           r.pc = "serve" => age[r.tok] <= TTL - 1 + Delay + r.ticks
    PROVE  IInv'
<1>1. TypeOK'
  BY DEF IInv, TypeOK
<1>2. ASSUME NEW c \in Browsers
      PROVE  /\ At(c, "idle")' => req'[c].tok = None
             /\ At(c, "store")' => age'[req'[c].tok] <= req'[c].ticks
             /\ At(c, "serve")' => age'[req'[c].tok] <= TTL - 1 + Delay + req'[c].ticks
  <2>1. CASE c = b
    BY <2>1 DEF IInv, TypeOK, At
  <2>2. CASE c # b
    <3>1. req'[c] = req[c]
      BY <2>2 DEF IInv, TypeOK
    <3> QED
      BY <3>1 DEF IInv, AgeInv, At
  <2> QED
    BY <2>1, <2>2
<1>3. cache' # None /\ cache'.since < TTL => age'[cache'.tok] <= cache'.since + Delay
  BY DEF IInv, AgeInv
<1> QED
  BY <1>1, <1>2, <1>3 DEF IInv, AgeInv

LEMMA SignInKeepsInv ==
    ASSUME IInv, NEW b \in Browsers, SignIn(b)
    PROVE  IInv'
<1> USE NumbersAssumption
<1>1. FreshToken \in Tokens /\ FreshToken \notin KnownTokens
  BY DEF SignIn, FreshToken
<1>2. req[b] \in Request /\ req[b].pc \in {"signIn", "retry"}
  BY DEF IInv, TypeOK, SignIn, At
<1>3. ASSUME Fails, End(b), UNCHANGED <<valid, age, cache, ends>>
      PROVE  IInv'
  <2>1. req' = [req EXCEPT ![b] = Idle] /\ failures' \in 0..MaxFailures
    BY <1>3 DEF End, Fails, IInv, TypeOK
  <2>2. Idle \in Request /\ Idle.pc = "idle" /\ Idle.tok = None
    BY DEF Idle, Request, Routes
  <2> QED
    BY <1>3, <2>1, <2>2, RequestKeepsInv
<1>4. ASSUME valid' = (valid \cap KnownTokens) \cup {FreshToken},
             age' = [t \in Tokens |-> IF t \in KnownTokens THEN age[t] ELSE 0],
             req' = [req EXCEPT ![b].pc = "store", ![b].tok = FreshToken],
             UNCHANGED <<failures, cache, ends>>
      PROVE  IInv'
  <2>1. age' \in [Tokens -> 0..MaxAge]
    BY <1>4 DEF IInv, TypeOK, MaxAge
  <2>2. \A c \in Browsers : req'[c] = IF c = b THEN [req[b] EXCEPT !.pc = "store", !.tok = FreshToken]
                                     ELSE req[c]
    BY <1>4 DEF IInv, TypeOK
  <2>3. req'[b] \in Request /\ req'[b].pc = "store" /\ req'[b].tok = FreshToken
    BY <1>1, <1>2, <2>2 DEF Request
  <2>4. TypeOK'
    <3>1. req' \in [Browsers -> Request]
      BY <1>4, <2>2, <2>3 DEF IInv, TypeOK
    <3>2. \A c \in Browsers : req'[c].pc \in {"store", "serve", "invalidate"} => req'[c].tok # None
      BY <1>1, <2>2, <2>3, NoneAssumption DEF IInv, TypeOK
    <3>3. valid' \subseteq Tokens
      BY <1>1, <1>4 DEF IInv, TypeOK
    <3> QED
      BY <1>4, <2>1, <3>1, <3>2, <3>3 DEF IInv, TypeOK
  <2>5. ASSUME NEW t \in KnownTokens \cap Tokens
        PROVE  age'[t] = age[t]
    BY <1>4, <2>5
  <2>6. ASSUME NEW c \in Browsers
        PROVE  /\ At(c, "idle")' => req'[c].tok = None
               /\ At(c, "store")' => age'[req'[c].tok] <= req'[c].ticks
               /\ At(c, "serve")' => age'[req'[c].tok] <= TTL - 1 + Delay + req'[c].ticks
    <3>1. CASE c = b
      <4>1. age'[FreshToken] = 0
        BY <1>1, <1>4
      <4> QED
        BY <2>3, <3>1, <4>1 DEF At, Request
    <3>2. CASE c # b
      <4>1. req'[c] = req[c] /\ req[c] \in Request
        BY <2>2, <3>2 DEF IInv, TypeOK
      <4>2. req[c].tok # None => req[c].tok \in KnownTokens \cap Tokens
        BY <4>1 DEF KnownTokens, Request
      <4>3. req[c].pc \in {"store", "serve"} => age'[req[c].tok] = age[req[c].tok]
        BY <2>5, <4>2 DEF IInv, TypeOK
      <4> QED
        BY <4>1, <4>3 DEF IInv, AgeInv, At
    <3> QED
      BY <3>1, <3>2
  <2>7. cache' # None /\ cache'.since < TTL => age'[cache'.tok] <= cache'.since + Delay
    <3> SUFFICES ASSUME cache # None, cache.since < TTL
                 PROVE  age'[cache.tok] <= cache.since + Delay
      BY <1>4
    <3>1. cache.tok \in KnownTokens \cap Tokens
      BY DEF KnownTokens, IInv, TypeOK, Entry
    <3> QED
      BY <2>5, <3>1 DEF IInv, AgeInv
  <2> QED
    BY <2>4, <2>6, <2>7 DEF IInv, AgeInv
<1> QED
  BY <1>3, <1>4 DEF SignIn

LEMMA StoreKeepsInv ==
    ASSUME IInv, NEW b \in Browsers, StoreSession(b)
    PROVE  IInv'
<1> USE NumbersAssumption
<1>1. /\ req[b] \in Request /\ req[b].pc = "store" /\ req[b].tok \in Tokens
      /\ age[req[b].tok] <= req[b].ticks /\ age[req[b].tok] \in Nat
  BY DEF IInv, TypeOK, AgeInv, StoreSession, At, Request, MaxAge
<1>2. /\ cache' = [tok |-> req[b].tok, since |-> 0]
      /\ req' = [req EXCEPT ![b].pc = "serve"]
      /\ UNCHANGED <<valid, age, ends, failures>>
  BY DEF StoreSession, Go
<1>3. \A c \in Browsers : req'[c] = IF c = b THEN [req[b] EXCEPT !.pc = "serve"] ELSE req[c]
  BY <1>2 DEF IInv, TypeOK
<1>4. req'[b] \in Request /\ req'[b].pc = "serve" /\ req'[b].tok = req[b].tok
                          /\ req'[b].ticks = req[b].ticks
  BY <1>1, <1>3 DEF Request
<1>5. TypeOK'
  <2>1. cache' \in Entry
    BY <1>1, <1>2 DEF Entry
  <2>2. req' \in [Browsers -> Request]
    BY <1>2, <1>3, <1>4 DEF IInv, TypeOK
  <2>3. \A c \in Browsers : req'[c].pc \in {"store", "serve", "invalidate"} => req'[c].tok # None
    BY <1>1, <1>3, <1>4, NoneAssumption DEF IInv, TypeOK
  <2> QED
    BY <1>2, <2>1, <2>2, <2>3 DEF IInv, TypeOK
<1>6. ASSUME NEW c \in Browsers
      PROVE  /\ At(c, "idle")' => req'[c].tok = None
             /\ At(c, "store")' => age'[req'[c].tok] <= req'[c].ticks
             /\ At(c, "serve")' => age'[req'[c].tok] <= TTL - 1 + Delay + req'[c].ticks
  <2>1. CASE c = b
    <3>1. req[b].ticks \in Nat /\ TTL - 1 \in Nat /\ Delay \in Nat
      BY <1>1 DEF Request
    <3> QED
      BY <1>1, <1>2, <1>4, <2>1, <3>1 DEF At
  <2>2. CASE c # b
    BY <1>2, <1>3, <2>2 DEF IInv, AgeInv, At
  <2> QED
    BY <2>1, <2>2
<1>7. age'[cache'.tok] <= cache'.since + Delay
  BY <1>1, <1>2 DEF Request
<1> QED
  BY <1>5, <1>6, <1>7 DEF IInv, AgeInv

LEMMA TickKeepsInv ==
    ASSUME IInv, Tick
    PROVE  IInv'
<1> USE NumbersAssumption
<1>1. \A t \in Tokens : age[t] \in 0..MaxAge /\ age'[t] \in 0..MaxAge /\ age'[t] <= age[t] + 1
  BY DEF IInv, TypeOK, Tick, MaxAge
<1>2. ASSUME NEW b \in Browsers
      PROVE  /\ req[b] \in Request /\ req'[b] \in Request
             /\ req'[b].pc = req[b].pc /\ req'[b].tok = req[b].tok
             /\ req[b].pc # "idle" => req'[b].ticks = req[b].ticks + 1
  <2>1. req[b] \in Request
    BY DEF IInv, TypeOK
  <2>2. CASE At(b, "idle")
    BY <2>1, <2>2 DEF Tick, At
  <2>3. CASE ~At(b, "idle")
    <3>1. req[b].ticks \in 0..Delay /\ req[b].ticks < Delay
      BY <2>1, <2>3 DEF Tick, Request
    <3>2. req'[b] = [req[b] EXCEPT !.ticks = @ + 1]
      BY <2>3 DEF Tick
    <3> QED
      BY <2>1, <3>1, <3>2 DEF Request
  <2> QED
    BY <2>2, <2>3
<1>3. TypeOK'
  <2>1. cache' \in Entry \cup {None}
    BY DEF IInv, TypeOK, Tick, Entry
  <2>2. req' \in [Browsers -> Request]
    BY <1>2 DEF Tick
  <2>3. age' \in [Tokens -> 0..MaxAge]
    BY <1>1 DEF Tick
  <2> QED
    BY <1>2, <2>1, <2>2, <2>3 DEF IInv, TypeOK, Tick
<1>4. ASSUME NEW b \in Browsers
      PROVE  /\ At(b, "idle")' => req'[b].tok = None
             /\ At(b, "store")' => age'[req'[b].tok] <= req'[b].ticks
             /\ At(b, "serve")' => age'[req'[b].tok] <= TTL - 1 + Delay + req'[b].ticks
  <2>1. At(b, "store") \/ At(b, "serve") => req[b].tok \in Tokens
    BY <1>2 DEF IInv, TypeOK, At, Request
  <2>2. req[b].ticks \in Nat
    BY <1>2 DEF Request
  <2>3. CASE At(b, "store")
    BY <1>1, <1>2, <2>1, <2>2, <2>3 DEF IInv, AgeInv, At
  <2>4. CASE At(b, "serve")
    BY <1>1, <1>2, <2>1, <2>2, <2>4 DEF IInv, AgeInv, At
  <2>5. CASE ~At(b, "store") /\ ~At(b, "serve")
    BY <1>2, <2>5 DEF IInv, AgeInv, At
  <2> QED
    BY <2>3, <2>4, <2>5
<1>5. cache' # None /\ cache'.since < TTL => age'[cache'.tok] <= cache'.since + Delay
  <2> SUFFICES ASSUME cache' # None, cache'.since < TTL
               PROVE  age'[cache'.tok] <= cache'.since + Delay
    OBVIOUS
  <2>1. cache \in Entry
    BY DEF Tick, IInv, TypeOK
  <2>2. cache.since < TTL
    BY <2>1 DEF Tick, Entry
  <2>3. cache'.tok = cache.tok /\ cache'.since = cache.since + 1
    BY <2>1, <2>2, NoneIsNoEntry DEF Tick, Entry
  <2>4. age[cache.tok] <= cache.since + Delay /\ cache.tok \in Tokens /\ cache.since \in Nat
    BY <2>1, <2>2, NoneIsNoEntry DEF IInv, AgeInv, Entry
  <2> QED
    BY <1>1, <2>3, <2>4
<1> QED
  BY <1>3, <1>4, <1>5 DEF IInv, AgeInv

\* The other steps of a request.
LEMMA HandleKeepsInv ==
    ASSUME IInv, NEW b \in Browsers, Handle(b)
    PROVE  IInv'
<1> USE NumbersAssumption
<1>1. req[b] \in Request /\ Idle \in Request /\ Idle.pc = "idle" /\ Idle.tok = None
  BY DEF IInv, TypeOK, Idle, Request, Routes
<1>2. failures \in 0..MaxFailures
  BY DEF IInv, TypeOK
<1>3. ASSUME NEW pc \in {"signIn", "retry", "evict", "invalidate"},
             At(b, "load") \/ At(b, "evict") \/ At(b, "signIn") \/ At(b, "serve"),
             pc = "invalidate" => At(b, "serve"),
             Go(b, pc), cache' \in {cache, None}, UNCHANGED <<valid, age, ends, failures>>
      PROVE  IInv'
  <2> DEFINE r == [req[b] EXCEPT !.pc = pc]
  <2>1. r \in Request /\ r.pc = pc /\ r.tok = req[b].tok
    BY <1>1 DEF Request
  <2>2. req' = [req EXCEPT ![b] = r]
    BY <1>3 DEF Go, IInv, TypeOK
  <2>3. r.pc = "invalidate" => r.tok # None
    BY <1>3, <2>1 DEF IInv, TypeOK, At
  <2> HIDE DEF r
  <2> QED
    BY <1>2, <1>3, <2>1, <2>2, <2>3, RequestKeepsInv
<1>4. ASSUME End(b), cache' \in {cache, None}, valid' \subseteq valid,
             failures' \in 0..MaxFailures, UNCHANGED <<age, ends>>
      PROVE  IInv'
  <2>1. req' = [req EXCEPT ![b] = Idle]
    BY <1>4 DEF End
  <2> QED
    BY <1>1, <1>4, <2>1, RequestKeepsInv
<1>5. CASE LoadSession(b)
  <2>1. CASE cache # None /\ cache.since < TTL
    <3> DEFINE r == req'[b]
    <3>0. req' = [req EXCEPT ![b].pc = "serve", ![b].tok = cache.tok]
      BY <1>5, <2>1 DEF LoadSession
    <3>1. cache \in Entry /\ cache.tok \in Tokens /\ cache.since \in Nat
      BY <2>1 DEF IInv, TypeOK, Entry
    <3>2. r \in Request /\ r.pc = "serve" /\ r.tok = cache.tok /\ r.ticks \in Nat
      <4>1. r = [req[b] EXCEPT !.pc = "serve", !.tok = cache.tok]
        BY <3>0 DEF IInv, TypeOK
      <4> HIDE DEF r
      <4>2. req[b] \in Request /\ cache.tok \in Tokens
        BY <1>1, <3>1
      <4>3. r \in Request
        BY <4>1, <4>2 DEF Request
      <4>4. r.pc = "serve" /\ r.tok = cache.tok
        BY <4>1, <4>2 DEF Request
      <4> QED
        BY <4>3, <4>4 DEF Request
    <3>3. req' = [req EXCEPT ![b] = r]
      BY <3>0 DEF IInv, TypeOK
    <3>4. age[cache.tok] <= TTL - 1 + Delay + r.ticks
      <4>1. age[cache.tok] <= cache.since + Delay /\ age[cache.tok] \in Nat
        BY <2>1, <3>1 DEF IInv, AgeInv, TypeOK, MaxAge
      <4> QED
        BY <2>1, <3>1, <3>2, <4>1
    <3>5. UNCHANGED <<valid, cache, age, ends, failures>>
      BY <1>5 DEF LoadSession
    <3>6. r.tok # None
      BY <3>1, <3>2, NoneAssumption
    <3> HIDE DEF r
    <3> QED
      BY <1>2, <3>2, <3>3, <3>4, <3>5, <3>6, RequestKeepsInv
  <2>2. CASE ~(cache # None /\ cache.since < TTL)
    BY <1>3, <1>5, <2>2 DEF LoadSession
  <2> QED
    BY <2>1, <2>2
<1>6. CASE EvictExpired(b)
  BY <1>3, <1>6 DEF EvictExpired
<1>7. CASE InjectCredentials(b)
  BY <1>2, <1>4, <1>7 DEF InjectCredentials
<1>8. CASE Proxy(b)
  <2>1. failures' \in 0..MaxFailures /\ valid' \subseteq valid
    BY <1>2, <1>8 DEF Proxy, Fails
  <2> QED
    BY <1>3, <1>4, <1>8, <2>1 DEF Proxy
<1>9. CASE InvalidateSession(b)
  BY <1>2, <1>4, <1>9 DEF InvalidateSession
<1>10. CASE DropSession(b)
  BY <1>3, <1>10 DEF DropSession
<1> QED
  BY <1>5, <1>6, <1>7, <1>8, <1>9, <1>10, SignInKeepsInv, StoreKeepsInv DEF Handle

LEMMA ArriveKeepsInv ==
    ASSUME IInv, NEW b \in Browsers, NEW route \in Routes, Arrive(b, route)
    PROVE  IInv'
<1> DEFINE r == [req[b] EXCEPT !.pc = "load", !.route = route]
<1>1. r \in Request /\ r.pc = "load"
  BY DEF IInv, TypeOK, Request
<1>2. req' = [req EXCEPT ![b] = r] /\ UNCHANGED <<valid, cache, age, ends, failures>>
  BY DEF Arrive, IInv, TypeOK
<1>3. failures \in 0..MaxFailures
  BY DEF IInv, TypeOK
<1> HIDE DEF r
<1> QED
  BY <1>1, <1>2, <1>3, RequestKeepsInv

LEMMA NextKeepsInv == IInv /\ [Next]_vars => IInv'
<1> SUFFICES ASSUME IInv, [Next]_vars PROVE IInv'
  OBVIOUS
<1>1. ASSUME NEW t \in Tokens, EndSession(t)
      PROVE  IInv'
  BY <1>1, NumbersAssumption DEF EndSession, IInv, AgeInv, TypeOK, At
<1>2. CASE UNCHANGED vars
  BY <1>2 DEF vars, IInv, AgeInv, TypeOK, At
<1> QED
  BY <1>1, <1>2, HandleKeepsInv, ArriveKeepsInv, TickKeepsInv DEF Next

LEMMA Invariance == Spec => []IInv
BY InitInv, NextKeepsInv, PTL DEF Spec

----------------------------------------------------------------------------

\* Every variable keeps its type; in particular a request that stores, serves
\* or gives up a session has one.
THEOREM TypeCorrect == Spec => []TypeOK
<1>1. IInv => TypeOK
  BY DEF IInv
<1> QED
  BY <1>1, Invariance, PTL

\* No session is handed to a page or a call when TTL and the time of two
\* requests have passed since Emby issued it, for any number of connections
\* that store, evict and expire sessions.
THEOREM NeverTooOld == Spec => []HandedOnInTime
<1>1. IInv => HandedOnInTime
  BY NumbersAssumption DEF IInv, TypeOK, AgeInv, HandedOnInTime, At, Request, MaxAge
<1> QED
  BY <1>1, Invariance, PTL
====
