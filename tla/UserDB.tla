---- MODULE UserDB ----
(***************************************************************************)
(* The SQLite table "users" of internal/db/sqlite.go: one row per OIDC     *)
(* subject, holding the id of the linked Emby account and the password the *)
(* bridge generated for it.  The picture columns are left out: nothing the *)
(* login flow decides depends on them.  Each statement commits or fails as *)
(* a whole, so a caller sees one step.                                     *)
(***************************************************************************)
EXTENDS EmbyClient

CONSTANT Subs   \* OIDC subjects

VARIABLE db     \* [Subs -> Row or None]

Row == [id : Ids, pw : Passwords]

ASSUME NoneIsNoRow == None \notin Row

DBTypeOK == db \in [Subs -> Row \cup {None}]

DBInit == db = [s \in Subs |-> None]

HasRow(s) == db[s] # None

\* INSERT INTO users: oidc_sub is the primary key, so an existing row makes
\* it fail and is left as it was.
InsertUser(s, i, p) ==
    /\ ~HasRow(s)
    /\ db' = [db EXCEPT ![s] = [id |-> i, pw |-> p]]

\* Variant of DeleteUser: the statement is dropped.
KeepUser(s) == UNCHANGED db

\* DELETE ... WHERE oidc_sub = :sub: deleting no row is not an error.
DeleteUser(s) == db' = [db EXCEPT ![s] = None]
====
