---- MODULE CredentialLedger ----
(***************************************************************************)
(* What the login flow promises, without its calls: every subject is       *)
(* linked to at most one Emby account together with that account's         *)
(* password, and a password changes while nobody is linked to its account. *)
(* AuthMiddleware implements it when requests of one subject do not        *)
(* overlap and subjects have names of their own.                           *)
(***************************************************************************)
CONSTANTS Subs, Ids, Passwords, None, Blank, Foreign

VARIABLES
    link,  \* the account of a subject and its password: [Subs -> Link or None]
    pwOf   \* Emby's passwords: [Ids -> password, or None without account]

ledgerVars == <<link, pwOf>>

Link == [id : Ids, pw : Passwords]

LedgerTypeOK ==
    /\ link \in [Subs -> Link \cup {None}]
    /\ pwOf \in [Ids -> Passwords \cup {None, Blank, Foreign}]

LedgerInit ==
    /\ link = [s \in Subs |-> None]
    /\ pwOf \in [Ids -> {None, Foreign}]

Unlinked(i) == \A s \in Subs : link[s] = None \/ link[s].id # i

\* An account is created, or its password reset or set, while nobody is
\* linked to it.
ChangePassword(i, p) ==
    /\ Unlinked(i)
    /\ pwOf' = [pwOf EXCEPT ![i] = p]
    /\ UNCHANGED link

\* A subject is linked to an account nobody else has, with the password the
\* account has, unless an administrator has been there since.
LinkTo(s, i, p) ==
    /\ link[s] = None
    /\ Unlinked(i)
    /\ pwOf[i] \in {p, None, Foreign}
    /\ link' = [link EXCEPT ![s] = [id |-> i, pw |-> p]]
    /\ UNCHANGED pwOf

Unlink(s) ==
    /\ link' = [link EXCEPT ![s] = None]
    /\ UNCHANGED pwOf

\* An administrator deletes an account or gives it a password.
Intervene(i, p) ==
    /\ pwOf[i] # None
    /\ p \in {None, Foreign}
    /\ pwOf' = [pwOf EXCEPT ![i] = p]
    /\ UNCHANGED link

LedgerNext ==
    \/ \E i \in Ids :
          \/ \E p \in Passwords \cup {Blank} : ChangePassword(i, p)
          \/ \E p \in {None, Foreign} : Intervene(i, p)
          \/ \E s \in Subs, p \in Passwords : LinkTo(s, i, p)
    \/ \E s \in Subs : Unlink(s)

LedgerSpec == LedgerInit /\ [][LedgerNext]_ledgerVars

\* The password of a link is the account's, unless an administrator changed
\* it or deleted the account; and no account is linked to two subjects.
Matches ==
    /\ \A s \in Subs : link[s] # None => pwOf[link[s].id] \in {link[s].pw, None, Foreign}
    /\ \A s, t \in Subs :
          link[s] # None /\ link[t] # None /\ link[s].id = link[t].id => s = t
====
