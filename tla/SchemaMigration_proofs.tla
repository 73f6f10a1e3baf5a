---- MODULE SchemaMigration_proofs ----
(***************************************************************************)
(* Theorems about SchemaMigration, for any subjects, values and faults.    *)
(***************************************************************************)
EXTENDS SchemaMigration, TLAPS

\* The table the migration is about to make of the one on disk.
Migrated == [layout |-> "v2", rows |-> disk.users.rows]

\* Where the transaction stands, and that nothing of it is on disk.
WorkInv ==
    /\ disk.users_v2 = None
    /\ pc \notin {"down", "schema"} => disk.users # None
    /\ pc = "copy" => work = [disk EXCEPT !.users_v2 = Empty]
    /\ pc = "drop" => work = [disk EXCEPT !.users_v2 = Migrated]
    /\ pc = "rename" => work = [disk EXCEPT !.users = None, !.users_v2 = Migrated]
    /\ pc = "commit" => work = [disk EXCEPT !.users = Migrated]

MigrationInv == TypeOK /\ WorkInv

\* The layout a version, or having come so far, stands for.
LayoutInv ==
    disk.version = 2 \/ pc \in {"stamp", "open"} =>
        disk.users # None /\ disk.users.layout = "v2"

LEMMA MigrationInit == Init => MigrationInv /\ LayoutInv
<1> SUFFICES ASSUME Init PROVE MigrationInv /\ LayoutInv
  OBVIOUS
<1> PICK t \in {None} \cup [layout : {"v1"}, rows : Rows] :
      disk = [users |-> t, users_v2 |-> None, version |-> 0]
  BY DEF Init
<1>1. t \in Table \cup {None}
  BY DEF Table
<1>2. disk \in File
  BY <1>1 DEF File
<1> QED
  BY <1>2, FaultsAssumption DEF Init, MigrationInv, LayoutInv, TypeOK, WorkInv, Opening, InTransaction

\* A step that leaves the file alone and does not enter the transaction.
LEMMA FileKept ==
    ASSUME MigrationInv, UNCHANGED disk, work' = None,
           pc' \in {"down", "open", "schema", "version", "columns", "create", "stamp"},
           pc' \notin {"down", "schema"} => disk.users # None,
           faults' \in 0..MaxFaults
    PROVE  MigrationInv'
BY DEF MigrationInv, TypeOK, WorkInv, Opening, InTransaction

LEMMA FaultCounts ==
    ASSUME MigrationInv, UNCHANGED faults \/ \E kind \in Kinds : Fault(kind)
    PROVE  faults' \in 0..MaxFaults
BY FaultsAssumption DEF MigrationInv, TypeOK, Fault

LEMMA MigrationNext == MigrationInv /\ [Next]_vars => MigrationInv'
<1> SUFFICES ASSUME MigrationInv, [Next]_vars PROVE MigrationInv'
  OBVIOUS
<1> USE DEF Kinds
<1>0. /\ disk \in File /\ disk.users \in Table \cup {None} /\ disk.users_v2 = None
      /\ disk.version \in {0, 2}
      /\ work \in File \cup {None} /\ (work # None <=> pc \in InTransaction)
      /\ NoRows \in Rows /\ Empty \in Table
      /\ disk.users # None => Migrated \in Table
  BY DEF MigrationInv, TypeOK, WorkInv, File, NoRows, Rows, Empty, Table, Migrated
<1>1. CASE UNCHANGED vars
  BY <1>1 DEF vars, MigrationInv, TypeOK, WorkInv, Migrated
<1>2. ASSUME Exit, UNCHANGED faults \/ \E kind \in Kinds : Fault(kind)
      PROVE  MigrationInv'
  BY <1>2, FileKept, FaultCounts DEF Exit
<1>3. CASE Start
  BY <1>0, <1>3, FileKept, FaultCounts DEF Start, InTransaction
<1>4. CASE CreateSchema
  <2>1. CASE FailedExit
    BY <1>2, <2>1 DEF FailedExit
  <2>2. CASE disk.users # None /\ Autocommit(disk, "version")
    BY <1>0, <1>4, <2>2, FileKept, FaultCounts DEF CreateSchema, Autocommit, InTransaction
  <2>3. CASE Autocommit([disk EXCEPT !.users = Empty], "version")
    <3>1. [disk EXCEPT !.users = Empty] \in File /\ Empty # None
      BY <1>0, NoneIsNoTable DEF File
    <3>2. work = None
      BY <1>0, <1>4 DEF CreateSchema, InTransaction
    <3> QED
      BY <1>0, <2>3, <3>1, <3>2
         DEF Autocommit, MigrationInv, TypeOK, WorkInv, File, Opening, InTransaction
  <2> QED
    BY <1>4, <2>1, <2>2, <2>3 DEF CreateSchema
<1>5. CASE ReadVersion
  BY <1>0, <1>2, <1>5, FileKept, FaultCounts
     DEF ReadVersion, Autocommit, FailedExit, InTransaction, MigrationInv, WorkInv
<1>6. CASE UsersTableHasColumn
  BY <1>0, <1>6, FileKept, FaultCounts
     DEF UsersTableHasColumn, Autocommit, InTransaction, MigrationInv, WorkInv
<1>7. CASE CreateV2
  <2>1. CASE Exit /\ (UNCHANGED faults \/ Fault("statement"))
    BY <1>2, <2>1
  <2>2. CASE Stage([disk EXCEPT !.users_v2 = Empty], "copy")
    <3>1. [disk EXCEPT !.users_v2 = Empty] \in File
      BY <1>0 DEF File
    <3>2. disk.users # None
      BY <1>7 DEF CreateV2, MigrationInv, WorkInv
    <3> QED
      BY <1>0, <2>2, <3>1, <3>2, NoneIsNoFile
         DEF Stage, MigrationInv, TypeOK, WorkInv, Opening, InTransaction
  <2> QED
    BY <1>7, <2>1, <2>2 DEF CreateV2
<1>8. CASE CopyRows
  <2>1. CASE FailedExit
    BY <1>2, <2>1 DEF FailedExit
  <2>2. CASE Stage([work EXCEPT !.users_v2.rows = work.users.rows], "drop")
    <3>1. work = [disk EXCEPT !.users_v2 = Empty] /\ disk.users # None
      BY <1>8 DEF CopyRows, MigrationInv, WorkInv
    <3>0. work.users = disk.users /\ work.users_v2 = Empty
      BY <1>0, <3>1 DEF File
    <3>2. [work EXCEPT !.users_v2.rows = work.users.rows] = [disk EXCEPT !.users_v2 = Migrated]
      <4>1. [Empty EXCEPT !.rows = disk.users.rows] = Migrated
        BY DEF Empty, Migrated
      <4>2. [work EXCEPT !.users_v2.rows = work.users.rows]
              = [work EXCEPT !.users_v2 = [Empty EXCEPT !.rows = disk.users.rows]]
        BY <3>0
      <4> HIDE DEF Migrated
      <4>3. [work EXCEPT !.users_v2 = Migrated] = [disk EXCEPT !.users_v2 = Migrated]
        BY <1>0, <3>1 DEF File
      <4> QED
        BY <4>1, <4>2, <4>3
    <3>3. [disk EXCEPT !.users_v2 = Migrated] \in File
      BY <1>0, <3>1 DEF File
    <3> QED
      BY <1>0, <2>2, <3>1, <3>2, <3>3, NoneIsNoFile
         DEF Stage, MigrationInv, TypeOK, WorkInv, Opening, InTransaction, Migrated
  <2> QED
    BY <1>8, <2>1, <2>2 DEF CopyRows
<1>9. CASE DropUsers
  <2>1. CASE FailedExit
    BY <1>2, <2>1 DEF FailedExit
  <2>2. CASE Stage([work EXCEPT !.users = None], "rename")
    <3>1. work = [disk EXCEPT !.users_v2 = Migrated] /\ disk.users # None
      BY <1>9 DEF DropUsers, MigrationInv, WorkInv
    <3>2. [work EXCEPT !.users = None] = [disk EXCEPT !.users = None, !.users_v2 = Migrated]
      BY <1>0, <3>1 DEF File
    <3>3. [disk EXCEPT !.users = None, !.users_v2 = Migrated] \in File
      BY <1>0, <3>1 DEF File
    <3> QED
      BY <1>0, <2>2, <3>1, <3>2, <3>3, NoneIsNoFile
         DEF Stage, MigrationInv, TypeOK, WorkInv, Opening, InTransaction, Migrated
  <2> QED
    BY <1>9, <2>1, <2>2 DEF DropUsers
<1>10. CASE RenameV2
  <2>1. CASE FailedExit
    BY <1>2, <2>1 DEF FailedExit
  <2>2. CASE Stage([work EXCEPT !.users = work.users_v2, !.users_v2 = None], "commit")
    <3>1. work = [disk EXCEPT !.users = None, !.users_v2 = Migrated] /\ disk.users # None
      BY <1>10 DEF RenameV2, MigrationInv, WorkInv
    <3>2. [work EXCEPT !.users = work.users_v2, !.users_v2 = None] = [disk EXCEPT !.users = Migrated]
      BY <1>0, <3>1 DEF File
    <3>3. [disk EXCEPT !.users = Migrated] \in File
      BY <1>0, <3>1 DEF File
    <3> QED
      BY <1>0, <2>2, <3>1, <3>2, <3>3, NoneIsNoFile
         DEF Stage, MigrationInv, TypeOK, WorkInv, Opening, InTransaction, Migrated
  <2> QED
    BY <1>10, <2>1, <2>2 DEF RenameV2
<1>11. CASE EndTransaction
  <2>1. CASE FailedExit
    BY <1>2, <2>1 DEF FailedExit
  <2>2. CASE disk' = work /\ work' = None /\ pc' = "stamp" /\ UNCHANGED faults
    <3>1. work = [disk EXCEPT !.users = Migrated] /\ disk.users # None
      BY <1>11 DEF EndTransaction, MigrationInv, WorkInv
    <3>2. work \in File /\ work.users_v2 = None /\ work.users # None
      BY <1>0, <3>1, NoneIsNoTable DEF File
    <3> QED
      BY <2>2, <3>2 DEF MigrationInv, TypeOK, WorkInv, Opening, InTransaction
  <2> QED
    BY <1>11, <2>1, <2>2 DEF EndTransaction
<1>12. CASE SetVersion
  <2>1. CASE FailedExit
    BY <1>2, <2>1 DEF FailedExit
  <2>2. CASE Autocommit([disk EXCEPT !.version = 2], "open")
    <3>1. /\ [disk EXCEPT !.version = 2] \in File
          /\ disk.users # None /\ work = None
      BY <1>0, <1>12 DEF File, SetVersion, MigrationInv, WorkInv, InTransaction
    <3> QED
      BY <1>0, <2>2, <3>1
         DEF Autocommit, MigrationInv, TypeOK, WorkInv, File, Opening, InTransaction
  <2> QED
    BY <1>12, <2>1, <2>2 DEF SetVersion
<1>13. ASSUME NEW s \in Subs, NEW v \in Values \cup {None}, WriteRow(s, v)
       PROVE  MigrationInv'
  <2>1. disk.users \in Table /\ work = None
    BY <1>0, <1>13 DEF WriteRow, MigrationInv, WorkInv, InTransaction
  <2>2. [disk.users EXCEPT !.rows[s] = v] \in Table
    BY <2>1 DEF Table, Rows
  <2>3. disk' = [disk EXCEPT !.users = [disk.users EXCEPT !.rows[s] = v]]
    BY <1>0, <2>1, <1>13 DEF WriteRow, File, Table
  <2>4. disk' \in File /\ disk'.users # None /\ disk'.users_v2 = None
    BY <1>0, <2>2, <2>3, NoneIsNoTable DEF File
  <2> QED
    BY <1>13, <2>1, <2>4
       DEF WriteRow, MigrationInv, TypeOK, WorkInv, Opening, InTransaction
<1>14. CASE Crash
  BY <1>2, <1>14 DEF Crash
<1> QED
  BY <1>1, <1>3, <1>4, <1>5, <1>6, <1>7, <1>8, <1>9, <1>10, <1>11, <1>12, <1>13, <1>14
     DEF Next, Open

----------------------------------------------------------------------------
(* What the statements do to the rows and to the layout.                    *)

LEMMA MigrationHolds == Spec => []MigrationInv
<1>1. Init => MigrationInv
  BY MigrationInit
<1> QED
  BY <1>1, MigrationNext, PTL DEF Spec

\* The file is one SQLite could have and a transaction is open exactly from
\* CREATE TABLE users_v2 to COMMIT, whatever fails.
THEOREM TypeCorrect == Spec => []TypeOK
<1>1. MigrationInv => TypeOK
  BY DEF MigrationInv
<1> QED
  BY <1>1, MigrationHolds, PTL

\* An interrupted migration can be repeated: CREATE TABLE users_v2 never finds
\* the table of an earlier attempt, nor the copy a table without rows to copy.
THEOREM MigrationRepeatable ==
    Spec => [](pc = "create" => disk.users_v2 = None /\ disk.users # None)
<1>1. MigrationInv => (pc = "create" => disk.users_v2 = None /\ disk.users # None)
  BY DEF MigrationInv, WorkInv
<1> QED
  BY <1>1, MigrationHolds, PTL

LEMMA RowsStep == MigrationInv /\ [Next]_vars => RowsOf(disk') = RowsOf(disk) \/ pc = "open"
<1> SUFFICES ASSUME MigrationInv, [Next]_vars, pc # "open"
             PROVE  RowsOf(disk') = RowsOf(disk)
  OBVIOUS
<1>1. disk \in File /\ disk.users \in Table \cup {None}
  BY DEF MigrationInv, TypeOK, File
<1>2. CASE UNCHANGED disk
  BY <1>2
<1>3. CASE \E v \in {0, 2} : disk' = [disk EXCEPT !.version = v]
  BY <1>1, <1>3 DEF RowsOf, File
<1>4. CASE CreateSchema /\ disk.users = None /\ disk' = [disk EXCEPT !.users = Empty]
  <2>1. disk'.users = Empty
    BY <1>1, <1>4 DEF File
  <2>2. RowsOf(disk') = NoRows
    BY <2>1, NoneIsNoTable DEF RowsOf, Empty
  <2> QED
    BY <1>4, <2>2 DEF RowsOf
<1>5. CASE EndTransaction /\ disk' = work
  <2>1. work = [disk EXCEPT !.users = Migrated] /\ disk.users # None
    BY <1>5 DEF EndTransaction, MigrationInv, WorkInv
  <2>2. disk'.users = Migrated /\ Migrated \in Table
    BY <1>1, <1>5, <2>1 DEF File, Migrated, Table
  <2> QED
    BY <2>1, <2>2, NoneIsNoTable DEF RowsOf, Migrated
<1>6. \/ UNCHANGED disk
      \/ \E v \in {0, 2} : disk' = [disk EXCEPT !.version = v]
      \/ CreateSchema /\ disk.users = None /\ disk' = [disk EXCEPT !.users = Empty]
      \/ EndTransaction /\ disk' = work
  BY DEF Next, vars, Open, Start, CreateSchema, ReadVersion, UsersTableHasColumn, CreateV2,
         CopyRows, DropUsers, RenameV2, EndTransaction, SetVersion, WriteRow, Crash,
         Autocommit, Stage, FailedExit, Exit
<1> QED
  BY <1>2, <1>3, <1>4, <1>5, <1>6

\* Neither a crash between any two statements of Open nor a failure of any of
\* them loses or changes a row, in any database.
THEOREM OpenKeepsRows == Spec => RowsKept
<1>1. MigrationInv /\ [Next]_vars => [RowsOf(disk') # RowsOf(disk) => pc = "open"]_vars
  BY RowsStep
<1> QED
  BY <1>1, MigrationInit, MigrationNext, PTL DEF Spec, RowsKept

LEMMA LayoutNext ==
    MigrationInv /\ LayoutInv /\ "tableInfo" \notin Faults /\ [Next]_vars => LayoutInv'
<1> SUFFICES ASSUME MigrationInv, LayoutInv, "tableInfo" \notin Faults, [Next]_vars
             PROVE  LayoutInv'
  OBVIOUS
<1>1. disk \in File /\ disk.users \in Table \cup {None} /\ disk.version \in {0, 2}
  BY DEF MigrationInv, TypeOK, File
<1>2. CASE UNCHANGED disk /\ pc' \notin {"stamp", "open"}
  BY <1>2 DEF LayoutInv
<1>3. CASE UNCHANGED vars
  BY <1>3 DEF vars, LayoutInv
<1>4. CASE CreateSchema /\ disk' = [disk EXCEPT !.users = Empty]
  <2>1. disk'.users = Empty
    BY <1>1, <1>4 DEF File
  <2>2. Empty \in Table
    BY DEF Empty, Table, Rows, NoRows
  <2> QED
    BY <2>1, <2>2, NoneIsNoTable DEF LayoutInv, Empty
<1>5. CASE ReadVersion \/ UsersTableHasColumn
  <2>1. disk' = disk /\ pc # "down" /\ pc # "schema"
    BY <1>5 DEF ReadVersion, UsersTableHasColumn, Autocommit, Fault, FailedExit, Exit
  <2>2. pc' = "open" => disk.version >= 2
    BY <1>5 DEF ReadVersion, UsersTableHasColumn, Autocommit, Fault, FailedExit, Exit
  <2>3. pc' = "stamp" => disk.users # None /\ disk.users.layout = "v2"
    BY <1>5 DEF ReadVersion, UsersTableHasColumn, Autocommit, Fault, FailedExit, Exit, MigrationInv, WorkInv
  <2>4. disk.version >= 2 => disk.version = 2
    BY <1>1
  <2> QED
    BY <2>1, <2>2, <2>3, <2>4 DEF LayoutInv
<1>6. CASE EndTransaction /\ disk' = work
  <2>1. work = [disk EXCEPT !.users = Migrated] /\ disk.users # None
    BY <1>6 DEF EndTransaction, MigrationInv, WorkInv
  <2>2. disk'.users = Migrated /\ Migrated \in Table
    BY <1>1, <1>6, <2>1 DEF File, Migrated, Table
  <2> QED
    BY <2>2, NoneIsNoTable DEF LayoutInv, Migrated
<1>7. CASE SetVersion /\ disk' = [disk EXCEPT !.version = 2]
  <2>1. disk'.users = disk.users
    BY <1>1, <1>7 DEF File
  <2> QED
    BY <1>7, <2>1 DEF LayoutInv, SetVersion
<1>8. ASSUME NEW s \in Subs, NEW v \in Values \cup {None}, WriteRow(s, v)
      PROVE  LayoutInv'
  <2>1. disk.users \in Table /\ disk.users.layout = "v2"
    BY <1>1, <1>8 DEF WriteRow, LayoutInv
  <2>2. disk'.users = [disk.users EXCEPT !.rows[s] = v]
    BY <1>1, <1>8 DEF WriteRow, File
  <2>3. disk'.users \in Table /\ disk'.users.layout = "v2"
    BY <2>1, <2>2 DEF Table, Rows
  <2> QED
    BY <2>3, NoneIsNoTable DEF LayoutInv
<1>9. \/ UNCHANGED disk /\ pc' \notin {"stamp", "open"}
      \/ UNCHANGED vars
      \/ CreateSchema /\ disk' = [disk EXCEPT !.users = Empty]
      \/ ReadVersion \/ UsersTableHasColumn
      \/ EndTransaction /\ disk' = work
      \/ SetVersion /\ disk' = [disk EXCEPT !.version = 2]
      \/ \E s \in Subs, v \in Values \cup {None} : WriteRow(s, v)
  BY DEF Next, Open, Start, CreateSchema, CreateV2, CopyRows, DropUsers, RenameV2,
         EndTransaction, SetVersion, Crash, Autocommit, Stage, FailedExit, Exit
<1> QED
  BY <1>2, <1>3, <1>4, <1>5, <1>6, <1>7, <1>8, <1>9

\* Unless the error of table_info is swallowed, no crash or failure leads to a
\* bridge that serves from a table of release 1.2.0.
THEOREM ServesUpgraded == "tableInfo" \notin Faults /\ Spec => []OpensUpgraded
<1> SUFFICES ASSUME "tableInfo" \notin Faults PROVE Spec => []OpensUpgraded
  OBVIOUS
<1>1. MigrationInv /\ LayoutInv /\ [Next]_vars => MigrationInv' /\ LayoutInv'
  BY MigrationNext, LayoutNext
<1>2. LayoutInv => OpensUpgraded
  BY DEF LayoutInv, OpensUpgraded
<1> QED
  BY <1>1, <1>2, MigrationInit, PTL DEF Spec

----------------------------------------------------------------------------
(* The refinement.                                                          *)

LEMMA StoreInitially == Init => Store!StoreInit
<1> SUFFICES ASSUME Init PROVE Store!StoreInit
  OBVIOUS
<1> PICK t \in {None} \cup [layout : {"v1"}, rows : Rows] :
      disk = [users |-> t, users_v2 |-> None, version |-> 0]
  BY DEF Init
<1>1. disk.users = t
  OBVIOUS
<1>2. t = None \/ (t # None /\ t.layout = "v1" /\ t.rows \in Rows)
  BY NoneIsNoTable DEF Table
<1> QED
  BY <1>1, <1>2 DEF Init, Store!StoreInit, Store!NoRows, NoRows, RowsOf, Rows

LEMMA StoreNextStep ==
    ASSUME MigrationInv, MigrationInv', [Next]_vars
    PROVE  [Store!StoreNext]_(Store!storeVars)
<1>1. disk \in File /\ disk.users \in Table \cup {None} /\ disk' \in File
  BY DEF MigrationInv, TypeOK, File
<1>2. CASE UNCHANGED disk /\ pc' = pc
  BY <1>2 DEF Store!storeVars
<1>3. CASE pc # "open" /\ pc' # "open" /\ UNCHANGED disk
  BY <1>3 DEF Store!storeVars
<1>4. CASE pc # "open" /\ pc' # "open" /\ disk'.users # None /\ disk'.users.layout = "v2"
  <2>1. RowsOf(disk') = RowsOf(disk)
    BY <1>4, RowsStep
  <2> QED
    BY <1>4, <2>1 DEF Store!StoreNext, Store!Upgrade
<1>5. CASE pc # "open" /\ pc' = "open"
  <2>1. disk'.users = disk.users
    BY <1>1, <1>5 DEF Next, vars, Open, Start, CreateSchema, ReadVersion, UsersTableHasColumn, CreateV2,
         CopyRows, DropUsers, RenameV2, EndTransaction, SetVersion, WriteRow, Crash,
         Autocommit, Stage, FailedExit, Exit, File
  <2>2. disk.users \in Table /\ disk.users # None
    BY <1>1, <1>5, <2>1 DEF MigrationInv, WorkInv
  <2>3. disk.users.layout # "none"
    BY <2>2 DEF Table
  <2> QED
    BY <1>5, <2>1, <2>2, <2>3 DEF Store!StoreNext, Store!Serve, RowsOf
<1>6. CASE Crash
  BY <1>6 DEF Crash, Exit, Store!StoreNext, Store!Stop
<1>7. ASSUME NEW s \in Subs, NEW v \in Values \cup {None}, WriteRow(s, v)
      PROVE  Store!Change(s, v)
  <2>1. disk.users \in Table /\ disk.users # None
    BY <1>1, <1>7, NoneIsNoTable DEF WriteRow, MigrationInv, WorkInv
  <2>2. disk'.users = [disk.users EXCEPT !.rows[s] = v]
    BY <1>1, <1>7 DEF WriteRow, File
  <2>3. /\ disk'.users.layout = disk.users.layout
        /\ disk'.users.rows = [disk.users.rows EXCEPT ![s] = v]
    BY <2>1, <2>2 DEF Table
  <2>4. disk'.users # None
    BY <1>7 DEF WriteRow, MigrationInv, WorkInv
  <2> QED
    BY <1>7, <2>1, <2>3, <2>4 DEF Store!Change, RowsOf, WriteRow
<1>8. \/ UNCHANGED disk /\ pc' = pc
      \/ pc # "open" /\ pc' # "open" /\ UNCHANGED disk
      \/ pc # "open" /\ pc' # "open" /\ disk'.users # None /\ disk'.users.layout = "v2"
      \/ pc # "open" /\ pc' = "open"
      \/ Crash
      \/ \E s \in Subs, v \in Values \cup {None} : WriteRow(s, v)
  <2>1. CASE CreateSchema /\ disk' = [disk EXCEPT !.users = Empty] /\ pc' = "version"
    <3>1. disk'.users = Empty /\ pc = "schema"
      BY <1>1, <2>1 DEF File, CreateSchema
    <3> QED
      BY <2>1, <3>1, NoneIsNoTable DEF Empty, MigrationInv, WorkInv
  <2>2. CASE EndTransaction /\ disk' = work /\ pc' = "stamp"
    <3>1. work = [disk EXCEPT !.users = Migrated] /\ pc = "commit"
      BY <2>2 DEF EndTransaction, MigrationInv, WorkInv
    <3>2. disk'.users = Migrated
      BY <1>1, <2>2, <3>1 DEF File
    <3> QED
      BY <2>2, <3>1, <3>2 DEF Migrated, MigrationInv, WorkInv
  <2> QED
    BY <2>1, <2>2
       DEF Next, vars, Open, Start, CreateSchema, ReadVersion, UsersTableHasColumn, CreateV2,
         CopyRows, DropUsers, RenameV2, EndTransaction, SetVersion,
         Autocommit, Stage, FailedExit, Exit
<1> QED
  BY <1>2, <1>3, <1>4, <1>5, <1>6, <1>7, <1>8 DEF Store!StoreNext

\* Opening any database is an upgrade at once, whatever fails or crashes on the
\* way: every step of Open is a step of UserStore or none.
THEOREM MigrationImplementsStore == Spec => ImplementsStore
<1>1. MigrationInv /\ MigrationInv' /\ [Next]_vars => [Store!StoreNext]_(Store!storeVars)
  BY StoreNextStep
<1> QED
  BY <1>1, MigrationInit, MigrationNext, StoreInitially, PTL
     DEF Spec, ImplementsStore, Store!StoreSpec
====
