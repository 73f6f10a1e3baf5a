---- MODULE EmbyServer ----
(***************************************************************************)
(* The Emby media server, as far as the bridge can tell: its accounts and  *)
(* the session tokens it issued.  Emby's own code is not in the            *)
(* repository; every operator here is what internal/emby/client.go and     *)
(* its callers rely on, and is marked external in the map.                 *)
(*                                                                         *)
(* Account names are unique.  A password is a model value; Blank is "no    *)
(* configured password" and Foreign any password the bridge did not make   *)
(* (an administrator's, or one the account had before the bridge).         *)
(***************************************************************************)
EXTENDS FiniteSets

CONSTANTS
    Ids,             \* Emby account ids
    Names,           \* account names
    Passwords,       \* what password.Generate can return
    Tokens,          \* access tokens
    None,            \* "nil": no account, no row, no session, no name
    Blank,           \* no configured password
    Foreign,         \* a password the bridge did not generate
    InitialNames,    \* the accounts before the bridge runs: [Ids -> name or None]
    TemplateDisabled \* is the template user, copied by Users/New, disabled?

EmbyValues == Ids \cup Names \cup Passwords \cup Tokens

ASSUME SentinelsAssumption ==
    /\ None \notin EmbyValues \cup {Blank, Foreign}
    /\ Blank \notin Passwords
    /\ Foreign \notin Passwords \cup {Blank}

ASSUME TemplateAssumption == TemplateDisabled \in BOOLEAN

ASSUME InitialNamesAssumption ==
    /\ InitialNames \in [Ids -> Names \cup {None}]
    /\ \A i, j \in Ids :
          InitialNames[i] = InitialNames[j] => i = j \/ InitialNames[i] = None

VARIABLES
    users, \* Emby's accounts: [Ids -> Account or None]
    valid  \* the sessions Emby accepts

embyVars == <<users, valid>>

Account == [name : Names, pw : Passwords \cup {Blank, Foreign}, disabled : BOOLEAN]
Session == [id : Ids, tok : Tokens]

\* Accounts and sessions are records and None is not one.
ASSUME NoneIsNoRecord == None \notin Account \cup Session

EmbyTypeOK ==
    /\ users \in [Ids -> Account \cup {None}]
    /\ valid \in SUBSET Session

EmbyInit ==
    /\ users = [i \in Ids |->
                  IF InitialNames[i] = None THEN None
                  ELSE [name |-> InitialNames[i], pw |-> Foreign, disabled |-> FALSE]]
    /\ valid = {}

Exists(i) == i # None /\ users[i] # None

\* The accounts that answer to name n: at most one, since Emby keeps names unique.
Named(n) == {i \in Ids : users[i] # None /\ users[i].name = n}

----------------------------------------------------------------------------
(* What Emby does when a call of the bridge reaches it.                     *)

EmbyCreate(i, n) ==
    /\ users' = [users EXCEPT ![i] =
                   [name |-> n, pw |-> Blank, disabled |-> TemplateDisabled]]
    /\ UNCHANGED valid

EmbyRename(i, n) ==
    /\ users' = [users EXCEPT ![i].name = n]
    /\ UNCHANGED valid

EmbySetPassword(i, p) ==
    /\ users' = [users EXCEPT ![i].pw = p]
    /\ UNCHANGED valid

EmbyEnable(i) ==
    /\ users' = [users EXCEPT ![i].disabled = FALSE]
    /\ UNCHANGED valid

\* A new token; tokens nobody holds any more are forgotten, so that the
\* finite set Tokens can be used again.
EmbyIssue(sess, held) ==
    /\ valid' = (valid \cap held) \cup {sess}
    /\ UNCHANGED users

----------------------------------------------------------------------------
(* What an Emby administrator, or a user signed in to Emby, does to it.     *)

EmbyDelete(i) ==
    /\ users' = [users EXCEPT ![i] = None]
    /\ valid' = {s \in valid : s.id # i}

EmbyDisable(i) ==
    /\ users' = [users EXCEPT ![i].disabled = TRUE]
    /\ valid' = {s \in valid : s.id # i}

EmbyRevoke(i) ==
    /\ valid' = {s \in valid : s.id # i}
    /\ UNCHANGED users
====
