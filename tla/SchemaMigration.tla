---- MODULE SchemaMigration ----
(***************************************************************************)
(* internal/db/sqlite.go, Open: creating the table "users" or bringing one *)
(* of release 1.2.0 to the present layout, one step per statement.  A      *)
(* statement may fail, which ends the process (main calls log.Fatalf), and *)
(* the process may be killed between any two; it is then started again     *)
(* (restart: unless-stopped).  SQLite is external: a statement outside a   *)
(* transaction commits by itself, a transaction commits as a whole or      *)
(* leaves no trace.                                                        *)
(***************************************************************************)
EXTENDS Naturals

CONSTANTS
    Subs,      \* OIDC subjects
    Values,    \* what a row may hold besides its subject
    None,
    Faults,    \* the kinds of fault that may happen
    MaxFaults  \* how many of them happen in a behaviour

Kinds == {"statement", "tableInfo", "crash"}

ASSUME NoneAssumption == None \notin Values
ASSUME FaultsAssumption == Faults \subseteq Kinds /\ MaxFaults \in Nat

\* A row takes the same values in both layouts: 1.2.0 had the columns name and
\* email besides, which are given up and which every statement of the bridge
\* leaves to their defaults.
Rows == [Subs -> Values \cup {None}]
Table == [layout : {"v1", "v2"}, rows : Rows]

ASSUME NoneIsNoTable == None \notin Table

VARIABLES
    disk,    \* the file, as the next process would find it
    work,    \* the open transaction's view of it, or None
    pc,      \* the next statement; "down" without a process
    faults   \* faults so far

vars == <<disk, work, pc, faults>>

File == [users : Table \cup {None}, users_v2 : Table \cup {None}, version : {0, 2}]

ASSUME NoneIsNoFile == None \notin File

InTransaction == {"copy", "drop", "rename", "commit"}
Opening == {"schema", "version", "columns", "create", "stamp"} \cup InTransaction

TypeOK ==
    /\ disk \in File
    /\ work \in File \cup {None}
    /\ pc \in {"down", "open"} \cup Opening
    /\ work # None <=> pc \in InTransaction
    /\ faults \in 0..MaxFaults

NoRows == [s \in Subs |-> None]
Empty == [layout |-> "v2", rows |-> NoRows]

\* No file yet, or one of release 1.2.0.
Init ==
    /\ \E t \in {None} \cup [layout : {"v1"}, rows : Rows] :
          disk = [users |-> t, users_v2 |-> None, version |-> 0]
    /\ work = None
    /\ pc = "down"
    /\ faults = 0

----------------------------------------------------------------------------

Fault(kind) ==
    /\ kind \in Faults
    /\ faults < MaxFaults
    /\ faults' = faults + 1

\* Variant of Exit: without the rollback.
ExitKeepingWork ==
    /\ pc' = "down"
    /\ UNCHANGED <<disk, work>>

\* Open returns an error and the process ends: an open transaction is rolled
\* back (defer end(&err)), the file stays as it is.
Exit ==
    /\ pc' = "down"
    /\ work' = None
    /\ UNCHANGED disk

FailedExit == Fault("statement") /\ Exit

\* A statement that commits by itself.
Autocommit(file, next) ==
    /\ disk' = file
    /\ pc' = next
    /\ UNCHANGED <<work, faults>>

\* Variant of Stage: without the transaction.
StageAndCommit(file, next) ==
    /\ work' = file
    /\ disk' = file
    /\ pc' = next
    /\ UNCHANGED faults

\* A statement of the transaction.
Stage(file, next) ==
    /\ work' = file
    /\ pc' = next
    /\ UNCHANGED <<disk, faults>>

Start ==
    /\ pc = "down"
    /\ pc' = "schema"
    /\ UNCHANGED <<disk, work, faults>>

\* CREATE TABLE IF NOT EXISTS users
CreateSchema ==
    /\ pc = "schema"
    /\ \/ disk.users = None /\ Autocommit([disk EXCEPT !.users = Empty], "version")
       \/ disk.users # None /\ Autocommit(disk, "version")
       \/ FailedExit

\* PRAGMA user_version
ReadVersion ==
    /\ pc = "version"
    /\ \/ disk.version >= 2 /\ Autocommit(disk, "open")
       \/ disk.version < 2 /\ Autocommit(disk, "columns")
       \/ FailedExit

\* PRAGMA table_info(users): an error is ignored, and taken for no such column.
UsersTableHasColumn ==
    /\ pc = "columns"
    /\ \/ disk.users.layout = "v1" /\ Autocommit(disk, "create")
       \/ disk.users.layout = "v2" /\ Autocommit(disk, "stamp")
       \/ Fault("tableInfo") /\ pc' = "stamp" /\ UNCHANGED <<disk, work>>

\* BEGIN and CREATE TABLE users_v2, an error if there is one already.
CreateV2 ==
    /\ pc = "create"
    /\ \/ disk.users_v2 = None /\ Stage([disk EXCEPT !.users_v2 = Empty], "copy")
       \/ /\ Fault("statement") \/ (disk.users_v2 # None /\ UNCHANGED faults)
          /\ Exit

\* INSERT INTO users_v2 SELECT ... FROM users
CopyRows ==
    /\ pc = "copy"
    /\ \/ Stage([work EXCEPT !.users_v2.rows = work.users.rows], "drop")
       \/ FailedExit

\* DROP TABLE users
DropUsers ==
    /\ pc = "drop"
    /\ \/ Stage([work EXCEPT !.users = None], "rename")
       \/ FailedExit

\* ALTER TABLE users_v2 RENAME TO users
RenameV2 ==
    /\ pc = "rename"
    /\ \/ Stage([work EXCEPT !.users = work.users_v2, !.users_v2 = None], "commit")
       \/ FailedExit

\* COMMIT, in the deferred end.
EndTransaction ==
    /\ pc = "commit"
    /\ \/ /\ disk' = work
          /\ work' = None
          /\ pc' = "stamp"
          /\ UNCHANGED faults
       \/ FailedExit

\* PRAGMA user_version = 2
SetVersion ==
    /\ pc = "stamp"
    /\ \/ Autocommit([disk EXCEPT !.version = 2], "open")
       \/ FailedExit

\* The statements of the bridge while it serves: insert, update, delete.
WriteRow(s, v) ==
    /\ pc = "open"
    /\ disk' = [disk EXCEPT !.users.rows[s] = v]
    /\ UNCHANGED <<work, pc, faults>>

Crash ==
    /\ pc # "down"
    /\ Fault("crash")
    /\ Exit

Open ==
    \/ Start \/ CreateSchema \/ ReadVersion \/ UsersTableHasColumn
    \/ CreateV2 \/ CopyRows \/ DropUsers \/ RenameV2 \/ EndTransaction
    \/ SetVersion

Next ==
    \/ Open
    \/ \E s \in Subs, v \in Values \cup {None} : WriteRow(s, v)
    \/ Crash

Spec == Init /\ [][Next]_vars

\* A process that can go on does, and one that ended is started again.
FairSpec == Spec /\ WF_vars(Open)

----------------------------------------------------------------------------

RowsOf(file) == IF file.users = None THEN NoRows ELSE file.users.rows

\* No crash and no failed statement of Open, at whatever point, loses or
\* changes a row: rows change only by the statements of a bridge that serves.
RowsKept == [][RowsOf(disk') # RowsOf(disk) => pc = "open"]_vars

\* No fault leaves a file that cannot be opened any more, such as one with a
\* left-over users_v2: once faults end, the bridge gets to serve.
GetsOpen == <>[](pc = "open")

\* To everyone but the process at work, Open is an upgrade at once, whatever
\* fails or crashes between its statements.
Store == INSTANCE UserStore
         WITH rows <- RowsOf(disk),
              layout <- IF disk.users = None THEN "none" ELSE disk.users.layout,
              ready <- pc = "open"
ImplementsStore == Store!StoreSpec

\* "migrateSchema upgrades a 1.2.0 database (name/email columns, user_version
\* 0) to v2": a bridge that serves has a table in the v2 layout.  Needs that
\* table_info does not fail.
OpensUpgraded == pc = "open" => disk.users.layout = "v2"
====
