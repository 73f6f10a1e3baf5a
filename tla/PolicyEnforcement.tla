---- MODULE PolicyEnforcement ----
(***************************************************************************)
(* internal/middleware/auth.go, the policy of a subject's Emby account:    *)
(* the template's policy is posted to an account that is created or taken  *)
(* up again by recovery, and every sign-in starts a goroutine that reads   *)
(* the policy and posts two fields if one of them is not as it should be.  *)
(* Meanwhile other sign-ins and an administrator change it too.            *)
(*                                                                         *)
(* Passwords are left out: that one overlapping sign-in replaces the       *)
(* password of another counts among the refused ones.  So are deletions,   *)
(* after which every call for the account fails: the subject may start     *)
(* with a row whose account is gone.                                       *)
(***************************************************************************)
EXTENDS Naturals

CONSTANTS
    Logins,           \* browser connections of the subject
    Settings,         \* what an administrator may make of the other fields
    None,
    TemplateDisabled, \* is the template user disabled?
    OmittedKept,      \* may Emby keep the fields a post omits?  A set of BOOLEANs
    InitialPolicies,  \* the policies the account may have at first, None without one
    InitiallyLinked,  \* may the subject have a row at first?  A set of BOOLEANs
    Disturbances,     \* the kinds of failure and outside action that may happen
    MaxDisturbances   \* how many of them happen in a behaviour

Kinds == {"refuse", "fail", "lose", "late", "crash", "configure", "disable"}

\* What the other fields hold: the template's values, what Users/New copies of
\* them (not IsHidden), an administrator's, or false for having been omitted.
Rest == {"template", "copied", "omitted"} \cup Settings

\* IsDisabled, EnableUserPreferenceAccess, and all other fields.
Policy == [disabled : BOOLEAN, prefs : BOOLEAN, rest : Rest]

ASSUME NoneIsNoPolicy == None \notin Policy \cup Settings
ASSUME SettingsAssumption == Settings \cap {"template", "copied", "omitted"} = {}
ASSUME InitialAssumption ==
    /\ InitialPolicies \subseteq Policy \cup {None}
    /\ InitiallyLinked \subseteq BOOLEAN
ASSUME EmbyAssumption == TemplateDisabled \in BOOLEAN /\ OmittedKept \subseteq BOOLEAN
ASSUME DisturbancesAssumption == Disturbances \subseteq Kinds /\ MaxDisturbances \in Nat

VARIABLES
    policy,  \* the account's, in Emby
    linked,  \* has the subject a row?
    login,   \* a connection's sign-in
    task,    \* the goroutine it started, or None
    late,    \* posts whose sender gave up, still on their way to Emby
    wanted,  \* the other fields as an administrator last set them, or None
    spent    \* disturbances so far

vars == <<policy, linked, login, task, late, wanted, spent>>

\* rec: did it find a row?  made: did it create the account?
Login == [pc : {"idle", "lookup", "create", "policy", "insert", "signIn", "retry"},
          rec : BOOLEAN, made : BOOLEAN]
Task == [pc : {"read", "post"}, policy : Policy \cup {None}]

\* A post of the template's policy with the two fields overridden, or of the
\* two fields alone.
Posts == {"template", "fields"}

TypeOK ==
    /\ policy \in Policy \cup {None}
    /\ linked \in BOOLEAN
    /\ login \in [Logins -> Login]
    /\ task \in [Logins -> Task \cup {None}]
    /\ \A r \in Logins : task[r] # None /\ task[r].pc = "post" => task[r].policy # None
    /\ late \subseteq Posts
    /\ wanted \in Settings \cup {None}
    /\ spent \in 0..MaxDisturbances

Idle == [pc |-> "idle", rec |-> FALSE, made |-> FALSE]

Init ==
    /\ policy \in InitialPolicies
    /\ linked \in InitiallyLinked
    /\ login = [r \in Logins |-> Idle]
    /\ task = [r \in Logins |-> None]
    /\ late = {}
    /\ wanted = IF policy # None /\ policy.rest \in Settings THEN policy.rest ELSE None
    /\ spent = 0

----------------------------------------------------------------------------

Calm == UNCHANGED spent
Disturb(kind) ==
    /\ kind \in Disturbances
    /\ spent < MaxDisturbances
    /\ spent' = spent + 1

At(r, pc) == login[r].pc = pc
Go(r, pc) == login' = [login EXCEPT ![r].pc = pc]
End(r) == login' = [login EXCEPT ![r] = Idle]

\* What a post makes of policy p.  buildUserPolicy keeps the template's other
\* fields; the goroutine's post omits them, and Emby may keep them or take them
\* for false.
Posted(post, p) ==
    {[disabled |-> FALSE, prefs |-> FALSE,
      rest |-> CASE post = "template" -> "template"
                 [] post = "fields" /\ kept -> p.rest
                 [] OTHER -> "omitted"] : kept \in OmittedKept}

\* UpdatePolicyRaw: answered or rejected by Emby, failed without reaching it,
\* or given up on after it took effect or before.
UpdatePolicyRaw(post, ok, failed) ==
    \/ policy # None /\ Calm /\ policy' \in Posted(post, policy) /\ UNCHANGED late /\ ok
    \/ policy = None /\ Calm /\ UNCHANGED <<policy, late>> /\ failed
    \/ Disturb("fail") /\ UNCHANGED <<policy, late>> /\ failed
    \/ /\ policy # None
       /\ Disturb("lose")
       /\ policy' \in Posted(post, policy)
       /\ UNCHANGED late
       /\ failed
    \/ Disturb("late") /\ late' = late \cup {post} /\ UNCHANGED policy /\ failed

----------------------------------------------------------------------------
(* The sign-in.                                                             *)

\* Any call of the sign-in but the posts fails with an error answer.
Fail(r) ==
    /\ At(r, "lookup") \/ At(r, "create") \/ At(r, "insert") \/ At(r, "retry")
    /\ Disturb("fail")
    /\ End(r)
    /\ UNCHANGED <<policy, linked, task, late, wanted>>

\* A request that the session cache does not answer: is there a row?
FindUserBySub(r) ==
    /\ At(r, "idle")
    /\ task[r] = None
    /\ login' = [login EXCEPT ![r].pc = IF linked THEN "signIn" ELSE "lookup",
                              ![r].rec = linked]
    /\ UNCHANGED <<policy, linked, task, late, wanted, spent>>

\* FindUserByName, after which recovery deletes the row.  An account there is
\* gets a password; only recovery posts it a policy.
Lookup(r) ==
    /\ At(r, "lookup")
    /\ linked' = (linked /\ ~login[r].rec)
    /\ Go(r, CASE policy = None -> "create"
               [] policy # None /\ login[r].rec -> "policy"
               [] OTHER -> "insert")
    /\ UNCHANGED <<policy, task, late, wanted, spent>>

\* Emby copies most of the template's policy, or has the name by now.
CreateUser(r) ==
    /\ At(r, "create")
    /\ \/ /\ policy = None
          /\ policy' = [disabled |-> TemplateDisabled, prefs |-> TRUE, rest |-> "copied"]
          /\ login' = [login EXCEPT ![r].pc = "policy", ![r].made = TRUE]
       \/ policy # None /\ UNCHANGED policy /\ End(r)
    /\ UNCHANGED <<linked, task, late, wanted, spent>>

\* Variant of UpdatePolicy: an account taken up again gets the two fields only.
UpdatePolicyFields(r) ==
    /\ At(r, "policy")
    /\ UpdatePolicyRaw(IF login[r].made THEN "template" ELSE "fields", Go(r, "insert"),
                       IF login[r].made THEN End(r) ELSE Go(r, "insert"))
    /\ UNCHANGED <<linked, task, wanted>>

\* Variant of UpdatePolicy: the sign-in goes on where it should end.
UpdatePolicyUnmade(r) ==
    /\ At(r, "policy")
    /\ UpdatePolicyRaw("template", Go(r, "insert"), Go(r, "denied"))
    /\ UNCHANGED <<linked, task, wanted>>

\* buildUserPolicy and the post: fatal for a created account, otherwise only
\* logged.
UpdatePolicy(r) ==
    /\ At(r, "policy")
    /\ UpdatePolicyRaw("template", Go(r, "insert"),
                       IF login[r].made THEN End(r) ELSE Go(r, "insert"))
    /\ UNCHANGED <<linked, task, wanted>>

InsertUser(r) ==
    /\ At(r, "insert")
    /\ \/ ~linked /\ linked' = TRUE /\ Go(r, IF login[r].rec THEN "retry" ELSE "signIn")
       \/ linked /\ UNCHANGED linked /\ End(r)
    /\ UNCHANGED <<policy, task, late, wanted, spent>>

\* AuthenticateByName lets an enabled account in, and the goroutine starts.  A
\* refusal is followed by recovery if there was a row, and not twice.
SignIn(r) ==
    /\ At(r, "signIn") \/ At(r, "retry")
    /\ LET enabled == policy # None /\ ~policy.disabled
           refused == /\ UNCHANGED task
                      /\ IF At(r, "signIn") /\ login[r].rec THEN Go(r, "lookup") ELSE End(r)
       IN  \/ /\ enabled
              /\ Calm
              /\ task' = [task EXCEPT ![r] = [pc |-> "read", policy |-> None]]
              /\ End(r)
           \/ ~enabled /\ Calm /\ refused
           \/ enabled /\ Disturb("refuse") /\ refused
    /\ UNCHANGED <<policy, linked, late, wanted>>

----------------------------------------------------------------------------
(* The goroutine.                                                           *)

Done(r) == task' = [task EXCEPT ![r] = None]

\* Variant of GetUserPolicy: only IsDisabled is compared.
GetUserPolicyDisabled(r) ==
    /\ task[r] # None /\ task[r].pc = "read"
    /\ IF policy # None /\ policy.disabled
         THEN task' = [task EXCEPT ![r] = [pc |-> "post", policy |-> policy]]
         ELSE Done(r)
    /\ UNCHANGED <<policy, linked, login, late, wanted, spent>>

\* The policy is read and compared with the two enforced values.
GetUserPolicy(r) ==
    /\ task[r] # None /\ task[r].pc = "read"
    /\ \/ /\ policy # None
          /\ policy.disabled \/ policy.prefs
          /\ Calm
          /\ task' = [task EXCEPT ![r] = [pc |-> "post", policy |-> policy]]
       \/ /\ policy # None => ~policy.disabled /\ ~policy.prefs
          /\ Calm
          /\ Done(r)
       \/ Disturb("fail") /\ Done(r)
    /\ UNCHANGED <<policy, linked, login, late, wanted>>

\* Variant of Enforce: the policy that was read is posted, changed in two fields.
EnforceWhole(r) ==
    /\ task[r] # None /\ task[r].pc = "post"
    /\ policy' = [task[r].policy EXCEPT !.disabled = FALSE, !.prefs = FALSE]
    /\ Done(r)
    /\ UNCHANGED <<linked, login, late, wanted, spent>>

\* The two fields are posted, whatever the policy is by now.
Enforce(r) ==
    /\ task[r] # None /\ task[r].pc = "post"
    /\ UpdatePolicyRaw("fields", Done(r), Done(r))
    /\ UNCHANGED <<linked, login, wanted>>

----------------------------------------------------------------------------
(* The surroundings.                                                        *)

\* A late post reaches Emby.
Arrive(post) ==
    /\ post \in late
    /\ late' = late \ {post}
    /\ policy' \in IF policy = None THEN {None} ELSE Posted(post, policy)
    /\ UNCHANGED <<linked, login, task, wanted, spent>>

\* An administrator saves the account's settings.
Administer(p) ==
    /\ policy # None
    /\ p.rest \in Settings
    /\ Disturb(IF p.disabled THEN "disable" ELSE "configure")
    /\ policy' = p
    /\ wanted' = p.rest
    /\ UNCHANGED <<linked, login, task, late>>

Crash ==
    /\ Disturb("crash")
    /\ login' = [r \in Logins |-> Idle]
    /\ task' = [r \in Logins |-> None]
    /\ UNCHANGED <<policy, linked, late, wanted>>

Handle(r) ==
    \/ Fail(r) \/ Lookup(r) \/ CreateUser(r) \/ UpdatePolicy(r) \/ InsertUser(r)
    \/ SignIn(r)
Run(r) == GetUserPolicy(r) \/ Enforce(r)

Next ==
    \/ \E r \in Logins : FindUserBySub(r) \/ Handle(r) \/ Run(r)
    \/ \E post \in Posts : Arrive(post)
    \/ \E p \in Policy : Administer(p)
    \/ Crash

Spec == Init /\ [][Next]_vars

\* Handlers and goroutines that can go on do, every call having a timeout, and
\* a post on its way arrives.
FairSpec ==
    /\ Spec
    /\ \A r \in Logins : WF_vars(Handle(r)) /\ WF_vars(Run(r))
    /\ \A post \in Posts : WF_vars(Arrive(post))

----------------------------------------------------------------------------

\* "All other policy fields ... are fully controlled by the admin per-user
\* after creation.  The bridge will not overwrite them": what an administrator
\* last saved stays, however sign-ins and their goroutines interleave with it.
\* Holds while no sign-in is refused and Emby keeps omitted fields.
AdminSettingsKept == wanted # None => policy.rest = wanted

\* A goroutine that read the policy before, a post that arrives late and a retry
\* never bring back what an administrator has replaced: if the other fields are
\* an administrator's at all, they are as last saved.  Whether Emby keeps the
\* fields a post omits, or takes them for false, does not matter.
SettingsNotStale == policy # None /\ policy.rest \in Settings => policy.rest = wanted

\* "On user creation: The template user's full policy is applied": who is let
\* in has an account that got it, or that an administrator set up, although
\* creation may stop half-way.  Holds while the template user is disabled.
ServedWithTemplate == \A r \in Logins : task[r] # None => policy.rest # "copied"

\* Whatever failed, and whatever an administrator did, an account whose subject
\* keeps signing in comes to be enabled, without preference access, for good.
\* Needs FairSpec.
PolicySettles ==
    []<>(\E r \in Logins : ~At(r, "idle"))
    => <>[](policy # None /\ ~policy.disabled /\ ~policy.prefs)
====
