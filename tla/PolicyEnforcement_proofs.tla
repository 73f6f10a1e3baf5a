---- MODULE PolicyEnforcement_proofs ----
(***************************************************************************)
(* What PolicyEnforcement promises of the other fields of a policy, for    *)
(* every number of connections, settings and disturbances.                 *)
(***************************************************************************)
EXTENDS PolicyEnforcement, TLAPS

\* An account that still is as Users/New made it lets nobody in, so neither a
\* goroutine nor a post of one is about.
TemplateInv ==
    /\ policy # None /\ policy.rest = "copied" => policy.disabled
    /\ (\E r \in Logins : task[r] # None) \/ "fields" \in late
         => policy # None /\ policy.rest # "copied"

\* The premises of ServedWithTemplate: the template user is disabled, and no
\* account was half-made and enabled before.
DisabledTemplate ==
    /\ TemplateDisabled
    /\ \A p \in InitialPolicies : p # None /\ p.rest = "copied" => p.disabled

\* Only an account there is has been set up.
SettingsInv ==
    /\ wanted # None => policy # None
    /\ policy # None /\ policy.rest \in Settings => policy.rest = wanted

----------------------------------------------------------------------------

\* A post makes a policy of a policy.
LEMMA PostedType ==
    ASSUME NEW p \in Policy, NEW post, NEW q \in Posted(post, p)
    PROVE  /\ q \in Policy
           /\ q.disabled = FALSE
           /\ \/ q.rest \in {"template", "omitted"}
              \/ post = "fields" /\ q.rest = p.rest
<1>1. PICK kept \in OmittedKept :
        q = [disabled |-> FALSE, prefs |-> FALSE,
             rest |-> CASE post = "template" -> "template"
                        [] post = "fields" /\ kept -> p.rest
                        [] OTHER -> "omitted"]
  BY DEF Posted
<1> DEFINE rest == CASE post = "template" -> "template"
                     [] post = "fields" /\ kept -> p.rest
                     [] OTHER -> "omitted"
<1>2. \/ rest \in {"template", "omitted"}
      \/ post = "fields" /\ rest = p.rest
  BY EmbyAssumption
<1>3. p.rest \in Rest
  BY DEF Policy
<1>4. q = [disabled |-> FALSE, prefs |-> FALSE, rest |-> rest]
  BY <1>1
<1> HIDE DEF rest
<1>5. q.rest = rest /\ q.disabled = FALSE
  BY <1>4
<1>6. q \in Policy
  BY <1>2, <1>3, <1>4 DEF Policy, Rest
<1> QED
  BY <1>2, <1>5, <1>6

\* What a post may do: nothing, change the policy there is, or be late.
LEMMA PostEffect ==
    ASSUME TypeOK, NEW post \in Posts, NEW ok, NEW failed,
           UpdatePolicyRaw(post, ok, failed)
    PROVE  /\ \/ UNCHANGED policy
              \/ policy # None /\ policy' \in Posted(post, policy)
           /\ late' \subseteq late \cup {post}
           /\ spent' \in 0..MaxDisturbances
           /\ ok \/ failed
<1> USE DisturbancesAssumption
<1>1. spent \in 0..MaxDisturbances
  BY DEF TypeOK
<1> QED
  BY <1>1 DEF UpdatePolicyRaw, Calm, Disturb

\* What every step does to the fields the invariants speak of.  (A post of the
\* two fields alone comes from a goroutine or from one's late post.)
Effect ==
    /\ task' \in [Logins -> Task \cup {None}]
    /\ \/ UNCHANGED policy
       \/ policy = None /\ policy'
            = [disabled |-> TemplateDisabled, prefs |-> TRUE, rest |-> "copied"]
       \/ /\ policy # None
          /\ \/ policy' \in Posted("template", policy)
             \/ policy' \in Posted("fields", policy)
                /\ ("fields" \in late \/ \E r \in Logins : task[r] # None)
       \/ policy # None /\ policy' \in Policy /\ wanted' = policy'.rest /\ wanted' \in Settings
    /\ \/ UNCHANGED wanted
       \/ policy # None /\ policy' \in Policy /\ wanted' = policy'.rest
    /\ "fields" \in late' => "fields" \in late \/ \E r \in Logins : task[r] # None
    /\ \A r \in Logins : task'[r] # None =>
          \/ task[r] # None
          \/ policy # None /\ ~policy.disabled /\ UNCHANGED policy

LEMMA EffectKeepsTemplate ==
    ASSUME TypeOK, TemplateInv, DisabledTemplate, Effect
    PROVE  TemplateInv'
<1> USE SettingsAssumption
<1>1. policy \in Policy \cup {None} /\ \A p \in Policy : p # None
  BY NoneIsNoPolicy DEF TypeOK
<1>2. ASSUME \E r \in Logins : task'[r] # None
      PROVE  \/ \E r \in Logins : task[r] # None
             \/ policy # None /\ ~policy.disabled /\ UNCHANGED policy
  BY <1>2 DEF Effect
<1>3. CASE UNCHANGED policy
  BY <1>2, <1>3 DEF Effect, TemplateInv
<1>4. CASE policy = None /\ policy'
             = [disabled |-> TemplateDisabled, prefs |-> TRUE, rest |-> "copied"]
  <2>1. ~(\E r \in Logins : task[r] # None) /\ "fields" \notin late
    BY <1>4 DEF TemplateInv
  <2>2. ~(\E r \in Logins : task'[r] # None) /\ "fields" \notin late'
    BY <1>2, <1>4, <2>1 DEF Effect
  <2>3. policy'.disabled
    BY <1>4 DEF DisabledTemplate
  <2> QED
    BY <2>2, <2>3 DEF TemplateInv
<1>5. CASE policy # None /\ policy' \in Posted("template", policy)
  <2>1. policy'.rest # "copied" /\ policy' # None
    BY <1>1, <1>5, PostedType
  <2> QED
    BY <2>1 DEF TemplateInv
<1>6. CASE /\ policy # None /\ policy' \in Posted("fields", policy)
           /\ "fields" \in late \/ \E r \in Logins : task[r] # None
  <2>1. policy.rest # "copied"
    BY <1>6 DEF TemplateInv
  <2>2. /\ policy' \in Policy
        /\ policy'.rest \in {"template", "omitted"} \/ policy'.rest = policy.rest
    BY <1>1, <1>6, PostedType
  <2>3. policy'.rest # "copied" /\ policy' # None
    BY <1>1, <2>1, <2>2
  <2> QED
    BY <2>3 DEF TemplateInv
<1>7. CASE policy' \in Policy /\ wanted' = policy'.rest /\ wanted' \in Settings
  <2>1. policy'.rest # "copied" /\ policy' # None
    BY <1>1, <1>7, SettingsAssumption
  <2> QED
    BY <2>1 DEF TemplateInv
<1> QED
  BY <1>3, <1>4, <1>5, <1>6, <1>7 DEF Effect

LEMMA EffectKeepsSettings ==
    ASSUME TypeOK, SettingsInv, Effect
    PROVE  SettingsInv'
<1>1. policy \in Policy \cup {None} /\ \A p \in Policy : p # None
  BY NoneIsNoPolicy DEF TypeOK
<1> USE SettingsAssumption
<1>2. CASE policy # None /\ policy' \in Policy /\ wanted' = policy'.rest
  BY <1>1, <1>2 DEF SettingsInv
<1>3. CASE UNCHANGED wanted /\ UNCHANGED policy
  BY <1>3 DEF SettingsInv
<1>4. CASE /\ UNCHANGED wanted /\ policy = None
           /\ policy' = [disabled |-> TemplateDisabled, prefs |-> TRUE, rest |-> "copied"]
  <2>1. policy'.rest = "copied" /\ wanted' = None
    BY <1>4 DEF SettingsInv
  <2>2. policy'.rest \notin Settings
    BY <2>1
  <2> QED
    BY <2>1, <2>2 DEF SettingsInv
<1>5. ASSUME UNCHANGED wanted, policy # None, NEW post \in Posts,
             policy' \in Posted(post, policy)
      PROVE  SettingsInv'
  <2>1. policy' # None /\ policy'.rest \in {policy.rest, "template", "omitted"}
    BY <1>1, <1>5, PostedType
  <2> QED
    BY <1>5, <2>1 DEF SettingsInv
<1> QED
  BY <1>1, <1>2, <1>3, <1>4, <1>5 DEF Effect, Posts

----------------------------------------------------------------------------

LEMMA InitType == Init => TypeOK
BY NoneIsNoPolicy, InitialAssumption, DisturbancesAssumption
   DEF Init, TypeOK, Idle, Login, Policy

\* A step of connection r's sign-in.
LEMMA HandleStep ==
    ASSUME TypeOK, NEW r \in Logins, FindUserBySub(r) \/ Handle(r)
    PROVE  TypeOK' /\ Effect
<1> USE DisturbancesAssumption
<1>1. login[r] \in Login /\ Idle \in Login /\ spent \in 0..MaxDisturbances
      /\ task \in [Logins -> Task \cup {None}]
  BY DEF TypeOK, Login, Idle
<1>2. ASSUME NEW pc \in {"lookup", "create", "policy", "insert", "signIn", "retry"}, Go(r, pc)
      PROVE  login' \in [Logins -> Login]
  BY <1>1, <1>2 DEF Go, TypeOK, Login
<1>3. ASSUME End(r)
      PROVE  login' \in [Logins -> Login]
  BY <1>1, <1>3 DEF End, TypeOK
<1>4. ASSUME UNCHANGED <<policy, task, late, wanted>>, login' \in [Logins -> Login],
             linked' \in BOOLEAN, spent' \in 0..MaxDisturbances
      PROVE  TypeOK' /\ Effect
  <2>1. TypeOK'
    BY <1>1, <1>4 DEF TypeOK
  <2>2. Effect
    BY <1>1, <1>4 DEF Effect
  <2> QED
    BY <2>1, <2>2
<1>5. CASE FindUserBySub(r)
  <2>1. login' \in [Logins -> Login]
    <3>1. login' = [login EXCEPT ![r].pc = IF linked THEN "signIn" ELSE "lookup",
                                 ![r].rec = linked]
      BY <1>5 DEF FindUserBySub
    <3>2. linked \in BOOLEAN /\ login \in [Logins -> Login]
      BY DEF TypeOK
    <3>3. \A q \in Logins : q # r => login'[q] = login[q]
      BY <3>1, <3>2
    <3>4. login'[r] = [login[r] EXCEPT !.pc = IF linked THEN "signIn" ELSE "lookup",
                                       !.rec = linked]
      BY <3>1, <3>2
    <3>5. login'[r] \in Login
      BY <1>1, <3>2, <3>4 DEF Login
    <3> QED
      BY <3>1, <3>2, <3>3, <3>5
  <2> QED
    BY <1>1, <1>4, <1>5, <2>1 DEF FindUserBySub, TypeOK
<1>6. CASE Fail(r)
  <2>1. spent' \in 0..MaxDisturbances
    BY <1>1, <1>6 DEF Fail, Disturb
  <2> QED
    BY <1>3, <1>4, <1>6, <2>1 DEF Fail, TypeOK
<1>7. CASE Lookup(r)
  <2>1. login' \in [Logins -> Login] /\ linked' \in BOOLEAN
    BY <1>2, <1>7 DEF Lookup, TypeOK
  <2> QED
    BY <1>1, <1>4, <1>7, <2>1 DEF Lookup
<1>8. CASE CreateUser(r)
  <2>1. CASE policy # None
    BY <1>1, <1>3, <1>4, <1>8, <2>1 DEF CreateUser, TypeOK
  <2>2. CASE policy = None
    <3>1. /\ policy' = [disabled |-> TemplateDisabled, prefs |-> TRUE, rest |-> "copied"]
          /\ login' = [login EXCEPT ![r].pc = "policy", ![r].made = TRUE]
          /\ UNCHANGED <<linked, task, late, wanted, spent>>
      BY <1>8, <2>2 DEF CreateUser
    <3>2. policy' \in Policy
      BY <3>1, EmbyAssumption DEF Policy, Rest
    <3>3. login' \in [Logins -> Login]
      <4> DEFINE l == [[login[r] EXCEPT !.pc = "policy"] EXCEPT !.made = TRUE]
      <4>1. l \in Login
        BY <1>1 DEF Login
      <4>2. login' = [login EXCEPT ![r] = l] /\ login \in [Logins -> Login]
        BY <3>1 DEF TypeOK
      <4> HIDE DEF l
      <4> QED
        BY <4>1, <4>2
    <3> QED
      BY <1>1, <2>2, <3>1, <3>2, <3>3 DEF TypeOK, Effect
  <2> QED
    BY <2>1, <2>2
<1>9. CASE UpdatePolicy(r)
  <2> DEFINE failed == IF login[r].made THEN End(r) ELSE Go(r, "insert")
  <2>1. UpdatePolicyRaw("template", Go(r, "insert"), failed) /\ UNCHANGED <<linked, task, wanted>>
    BY <1>9 DEF UpdatePolicy
  <2>2. /\ \/ UNCHANGED policy
           \/ policy # None /\ policy' \in Posted("template", policy)
        /\ late' \subseteq late \cup {"template"}
        /\ spent' \in 0..MaxDisturbances
        /\ Go(r, "insert") \/ failed
    <3> HIDE DEF failed
    <3> QED
      BY <2>1, PostEffect DEF Posts
  <2>3. login' \in [Logins -> Login]
    BY <1>2, <1>3, <2>2
  <2>4. policy' \in Policy \cup {None}
    <3>1. ASSUME policy # None
          PROVE  \A q \in Posted("template", policy) : q \in Policy
      BY <3>1, PostedType DEF TypeOK
    <3> QED
      BY <2>2, <3>1 DEF TypeOK
  <2> QED
    BY <1>1, <2>1, <2>2, <2>3, <2>4 DEF TypeOK, Effect, Posts
<1>10. CASE InsertUser(r)
  <2>1. login' \in [Logins -> Login]
    BY <1>2, <1>3, <1>10 DEF InsertUser
  <2> QED
    BY <1>1, <1>4, <1>10, <2>1 DEF InsertUser, TypeOK
<1>11. CASE SignIn(r)
  <2>1. UNCHANGED <<policy, linked, late, wanted>>
    BY <1>11 DEF SignIn
  <2>2. login' \in [Logins -> Login] /\ spent' \in 0..MaxDisturbances
    BY <1>1, <1>2, <1>3, <1>11 DEF SignIn, Calm, Disturb
  <2>3. CASE UNCHANGED task
    BY <1>4, <2>1, <2>2, <2>3 DEF TypeOK
  <2>4. CASE /\ policy # None /\ ~policy.disabled
             /\ task' = [task EXCEPT ![r] = [pc |-> "read", policy |-> None]]
    <3>1. [pc |-> "read", policy |-> None] \in Task
      BY DEF Task
    <3>2. task' \in [Logins -> Task \cup {None}]
      BY <1>1, <2>4, <3>1
    <3>3. \A q \in Logins : q # r => task'[q] = task[q]
      BY <1>1, <2>4
    <3>4. task'[r].pc = "read"
      BY <1>1, <2>4
    <3>5. \A q \in Logins : task'[q] # None /\ task'[q].pc = "post" => task'[q].policy # None
      BY <3>3, <3>4 DEF TypeOK
    <3> QED
      BY <2>1, <2>2, <2>4, <3>2, <3>3, <3>5 DEF TypeOK, Effect
  <2> QED
    BY <1>11, <2>3, <2>4 DEF SignIn
<1> QED
  BY <1>5, <1>6, <1>7, <1>8, <1>9, <1>10, <1>11 DEF Handle

\* A step of the goroutine connection r started.
LEMMA RunStep ==
    ASSUME TypeOK, NEW r \in Logins, Run(r)
    PROVE  TypeOK' /\ Effect
<1> USE DisturbancesAssumption
<1>1. task \in [Logins -> Task \cup {None}] /\ task[r] # None /\ spent \in 0..MaxDisturbances
  BY DEF TypeOK, Run, GetUserPolicy, Enforce
<1>2. ASSUME Done(r)
      PROVE  /\ task' \in [Logins -> Task \cup {None}]
             /\ \A q \in Logins : task'[q] # None => task'[q] = task[q]
  BY <1>1, <1>2 DEF Done
<1>3. CASE GetUserPolicy(r)
  <2>1. UNCHANGED <<policy, linked, login, late, wanted>> /\ spent' \in 0..MaxDisturbances
    BY <1>1, <1>3 DEF GetUserPolicy, Calm, Disturb
  <2>2. CASE Done(r)
    BY <1>2, <2>1, <2>2 DEF TypeOK, Effect
  <2>3. CASE policy # None /\ task' = [task EXCEPT ![r] = [pc |-> "post", policy |-> policy]]
    <3>1. [pc |-> "post", policy |-> policy] \in Task
      BY DEF Task, TypeOK
    <3>2. task' \in [Logins -> Task \cup {None}]
      BY <1>1, <2>3, <3>1
    <3>3. \A q \in Logins : q # r => task'[q] = task[q]
      BY <1>1, <2>3
    <3>4. task'[r].policy = policy
      BY <1>1, <2>3
    <3>5. \A q \in Logins : task'[q] # None /\ task'[q].pc = "post" => task'[q].policy # None
      BY <2>3, <3>3, <3>4 DEF TypeOK
    <3> QED
      BY <1>1, <2>1, <3>2, <3>3, <3>5 DEF TypeOK, Effect
  <2> QED
    BY <1>3, <2>2, <2>3 DEF GetUserPolicy
<1>4. CASE Enforce(r)
  <2>1. UpdatePolicyRaw("fields", Done(r), Done(r)) /\ UNCHANGED <<linked, login, wanted>>
    BY <1>4 DEF Enforce
  <2>2. /\ \/ UNCHANGED policy
           \/ policy # None /\ policy' \in Posted("fields", policy)
        /\ late' \subseteq late \cup {"fields"}
        /\ spent' \in 0..MaxDisturbances
        /\ Done(r)
    BY <2>1, PostEffect DEF Posts
  <2>3. policy' \in Policy \cup {None}
    <3>1. ASSUME policy # None
          PROVE  \A q \in Posted("fields", policy) : q \in Policy
      BY <3>1, PostedType DEF TypeOK
    <3> QED
      BY <2>2, <3>1 DEF TypeOK
  <2>4. TypeOK'
    BY <1>2, <2>1, <2>2, <2>3 DEF TypeOK, Posts
  <2>5. Effect
    BY <1>1, <1>2, <2>1, <2>2 DEF Effect
  <2> QED
    BY <2>4, <2>5
<1> QED
  BY <1>3, <1>4 DEF Run

\* Every other step.
LEMMA OtherStep ==
    ASSUME TypeOK,
           \/ \E post \in Posts : Arrive(post)
           \/ \E p \in Policy : Administer(p)
           \/ Crash
           \/ UNCHANGED vars
    PROVE  TypeOK' /\ Effect
<1> USE DisturbancesAssumption
<1>1. task \in [Logins -> Task \cup {None}] /\ spent \in 0..MaxDisturbances
  BY DEF TypeOK
<1>2. ASSUME NEW post \in Posts, Arrive(post)
      PROVE  TypeOK' /\ Effect
  <2>1. policy' \in Policy \cup {None}
    BY <1>2, PostedType DEF Arrive, TypeOK
  <2>2. TypeOK'
    BY <1>2, <2>1 DEF Arrive, TypeOK
  <2>3. Effect
    BY <1>1, <1>2 DEF Arrive, Effect, Posts
  <2> QED
    BY <2>2, <2>3
<1>3. ASSUME NEW p \in Policy, Administer(p)
      PROVE  TypeOK' /\ Effect
  <2>1. /\ policy # None /\ policy' = p /\ wanted' = p.rest /\ p.rest \in Settings
        /\ UNCHANGED <<linked, login, task, late>>
        /\ spent' \in 0..MaxDisturbances
    BY <1>1, <1>3 DEF Administer, Disturb
  <2> QED
    BY <1>1, <2>1 DEF TypeOK, Effect
<1>4. CASE Crash
  <2>1. /\ login' = [q \in Logins |-> Idle] /\ task' = [q \in Logins |-> None]
        /\ UNCHANGED <<policy, linked, late, wanted>>
        /\ spent' \in 0..MaxDisturbances
    BY <1>1, <1>4 DEF Crash, Disturb
  <2>2. Idle \in Login
    BY DEF Idle, Login
  <2> QED
    BY <2>1, <2>2 DEF TypeOK, Effect
<1>5. CASE UNCHANGED vars
  BY <1>1, <1>5 DEF vars, TypeOK, Effect
<1> QED
  BY <1>2, <1>3, <1>4, <1>5

LEMMA NextStep == TypeOK /\ [Next]_vars => TypeOK' /\ Effect
BY HandleStep, RunStep, OtherStep DEF Next

----------------------------------------------------------------------------

\* Every variable keeps its type; in particular a goroutine that posts has read
\* a policy.
THEOREM TypeCorrect == Spec => []TypeOK
BY InitType, NextStep, PTL DEF Spec

\* No goroutine, late post or recovery brings back what an administrator has
\* replaced, whatever Emby makes of the fields a post omits, for any number of
\* connections.
THEOREM NoStaleSettings == Spec => []SettingsNotStale
<1>1. Init => SettingsInv
  BY DEF Init, SettingsInv
<1>2. TypeOK /\ SettingsInv /\ [Next]_vars => SettingsInv'
  BY NextStep, EffectKeepsSettings
<1>3. SettingsInv => SettingsNotStale
  BY DEF SettingsInv, SettingsNotStale
<1> QED
  BY <1>1, <1>2, <1>3, TypeCorrect, PTL DEF Spec

\* While the template user is disabled, who is let in has an account that got
\* the template's policy or that an administrator set up, wherever creations
\* stop and whoever goes on with them.
THEOREM NobodyHalfMade == DisabledTemplate /\ Spec => []ServedWithTemplate
<1> SUFFICES ASSUME DisabledTemplate PROVE Spec => []ServedWithTemplate
  OBVIOUS
<1>1. Init => TemplateInv
  BY DEF Init, TemplateInv, DisabledTemplate
<1>2. TypeOK /\ TemplateInv /\ [Next]_vars => TemplateInv'
  BY NextStep, EffectKeepsTemplate
<1>3. TemplateInv => ServedWithTemplate
  BY DEF TemplateInv, ServedWithTemplate
<1> QED
  BY <1>1, <1>2, <1>3, TypeCorrect, PTL DEF Spec
====
