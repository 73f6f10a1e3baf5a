---- MODULE EmbyClient ----
(***************************************************************************)
(* internal/emby/client.go: the bridge's calls to Emby, each an HTTP       *)
(* request with a timeout.  A call is answered, refused (no effect, the    *)
(* caller sees an error) or lost (it takes effect and the caller sees an   *)
(* error all the same: a timeout, or the browser went away and cancelled   *)
(* the request's context).  ok and failed are what the caller does next.   *)
(***************************************************************************)
EXTENDS EmbyServer, Naturals

CONSTANTS
    Disturbances,    \* the kinds of failure and outside action that may happen
    MaxDisturbances  \* how many of them happen in a behaviour

Kinds == {"refuse", "lose", "badReset", "dbFail", "crash",
          "delete", "disable", "setPassword", "revoke"}

ASSUME DisturbancesAssumption == Disturbances \subseteq Kinds /\ MaxDisturbances \in Nat

VARIABLE spent     \* disturbances so far

Calm == UNCHANGED spent
Disturb(kind) ==
    /\ kind \in Disturbances
    /\ spent < MaxDisturbances
    /\ spent' = spent + 1

\* A call that changes Emby: Emby performs it if it can and rejects it otherwise.
EmbyWrite(can, effect, ok, failed) ==
    \/ can /\ Calm /\ effect /\ ok
    \/ ~can /\ Calm /\ UNCHANGED embyVars /\ failed
    \/ Disturb("refuse") /\ UNCHANGED embyVars /\ failed
    \/ can /\ Disturb("lose") /\ effect /\ failed

\* A call that only reads Emby.
EmbyRead(ok, failed) ==
    /\ UNCHANGED embyVars
    /\ \/ Calm /\ ok
       \/ Disturb("refuse") /\ failed

\* Variant of FindUserByName: the name comparison is forgotten, so the first
\* user of the listing is returned.
FindAnyUser(n) == IF \A i \in Ids : users[i] = None THEN None
                  ELSE CHOOSE i \in Ids : users[i] # None

\* The user of Emby's listing with exactly this name, None if there is none.
FindUserByName(n) == IF Named(n) = {} THEN None ELSE CHOOSE i \in Named(n) : TRUE

\* i is the id Emby gives the new account.
CreateUser(i, n, ok, failed) ==
    EmbyWrite(Named(n) = {}, EmbyCreate(i, n), ok, failed)

UpdateUserName(i, n, ok, failed) ==
    EmbyWrite(Exists(i) /\ Named(n) \subseteq {i}, EmbyRename(i, n), ok, failed)

\* The accounts AuthenticateByName lets in with this name and password.
Accepting(n, p) == {i \in Named(n) : users[i].pw = p /\ ~users[i].disabled}

\* UpdatePassword is GetUser, a reset if there is a password, and a set.
\* A 400 for the reset is tolerated.
UpdatePasswordReset(i, ok, failed) ==
    \/ EmbyWrite(Exists(i), EmbySetPassword(i, Blank), ok, failed)
    \/ Disturb("badReset") /\ UNCHANGED embyVars /\ ok

UpdatePasswordSet(i, p, ok, failed) ==
    EmbyWrite(Exists(i), EmbySetPassword(i, p), ok, failed)

\* The policy the bridge posts enables the account.
UpdatePolicyRaw(i, ok, failed) ==
    EmbyWrite(Exists(i), EmbyEnable(i), ok, failed)
====
