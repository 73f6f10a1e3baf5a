---- MODULE PictureSync_proofs ----
(***************************************************************************)
(* The mark of a subject makes posting its picture and recording it one    *)
(* unit, for any number of subjects, connections and pictures.             *)
(***************************************************************************)
EXTENDS PictureSync, TLAPS

(***************************************************************************)
(* Types.                                                                  *)
(***************************************************************************)

\* From the lookup on, or from provisioning on, a sign-in has an account.
HasId ==
    \A r \in Logins :
        login[r].pc \in {"signIn", "insert", "retry", "decide"} => login[r].id # None

TypeInv == TypeOK /\ HasId

\* A sign-in that goes on or ends leaves only sign-ins overlapped.
LEMMA MetType ==
    ASSUME TypeInv, NEW r \in Logins, NEW l, NEW pc, Goto(r, l, pc) \/ End(r)
    PROVE  met' \subseteq Logins
BY DEF Goto, End, TypeInv, TypeOK

\* A sign-in moves to a step, with an account where it needs one.
LEMMA GotoType ==
    ASSUME TypeInv, NEW r \in Logins, NEW l \in Login,
           NEW pc \in {"idle", "signIn", "provision", "insert", "retry", "decide"},
           Goto(r, l, pc),
           pc \in {"signIn", "insert", "retry", "decide"} => l.id # None
    PROVE  login' \in [Logins -> Login] /\ HasId'
<1> DEFINE m == [l EXCEPT !.pc = pc]
<1>1. m \in Login /\ m.pc = pc /\ m.id = l.id
  BY DEF Login
<1>2. login' = [login EXCEPT ![r] = m] /\ login \in [Logins -> Login]
  BY DEF Goto, TypeInv, TypeOK
<1> HIDE DEF m
<1>3. login' \in [Logins -> Login] /\ \A q \in Logins : login'[q] = IF q = r THEN m ELSE login[q]
  BY <1>1, <1>2
<1> QED
  BY <1>1, <1>3 DEF HasId, TypeInv

LEMMA IdleType ==
    ASSUME TypeInv, NEW r \in Logins, End(r)
    PROVE  login' \in [Logins -> Login] /\ HasId'
<1>1. Idle \in Login /\ Idle.pc = "idle"
  BY DEF Idle, Login
<1>2. login' \in [Logins -> Login] /\ \A q \in Logins : login'[q] = IF q = r THEN Idle ELSE login[q]
  BY <1>1 DEF End, TypeInv, TypeOK
<1> QED
  BY <1>1, <1>2 DEF HasId, TypeInv

LEMMA DisturbType ==
    ASSUME TypeInv, NEW kind, Calm \/ Disturb(kind)
    PROVE  spent' \in 0..MaxDisturbances /\ (spent' = 0 => spent = 0 /\ Calm)
BY DisturbancesAssumption DEF TypeInv, TypeOK, Calm, Disturb

\* What the types say of one connection.
LEMMA TypesOf ==
    ASSUME TypeInv, NEW r \in Logins
    PROVE  /\ Sub(r) \in Subs
           /\ login[r] \in Login
           /\ row[Sub(r)] \in Row \cup {None}
           /\ task[r] \in Task \cup {None}
           /\ login[r].id \in Ids \cup {None}
           /\ login[r].pic \in Pics \cup {NoPic}
           /\ spent \in Nat
BY SubOfAssumption, DisturbancesAssumption DEF TypeInv, TypeOK, Sub, Login

\* The record a sign-in reads.
LEMMA SeenRow ==
    ASSUME TypeInv, NEW r \in Logins, row[Sub(r)] # None
    PROVE  /\ row[Sub(r)].id \in Ids /\ row[Sub(r)].id # None
           /\ [url |-> row[Sub(r)].url, age |-> row[Sub(r)].age] \in Seen
BY TypesOf, SentinelsAssumption DEF Row, Seen

\* Where the lookup takes a sign-in.
LEMMA FindIs ==
    ASSUME TypeInv, NEW r \in Logins, NEW u \in Claims, FindUserBySub(r, u)
    PROVE  /\ login'[r] \in Login
           /\ login' = [login EXCEPT ![r] = login'[r]]
           /\ \/ login'[r].pc = "provision" /\ login'[r].id = None
              \/ /\ row[Sub(r)] # None
                 /\ login'[r].pc = "signIn" /\ login'[r].id = row[Sub(r)].id
<1> DEFINE rec == row[Sub(r)]
           n == [Idle EXCEPT !.pc = "provision", !.pic = u]
           k == [pc |-> "signIn", pic |-> u, id |-> rec.id,
                 rec |-> [url |-> rec.url, age |-> rec.age]]
           l == IF rec = None THEN n ELSE k
<1>1. n \in Login /\ n.pc = "provision" /\ n.id = None
  BY ClaimsAssumption DEF Idle, Login
<1>2. rec # None => k \in Login /\ k.pc = "signIn" /\ k.id = rec.id
  BY SeenRow, ClaimsAssumption DEF Login
<1>3. login' = [login EXCEPT ![r] = l] /\ login \in [Logins -> Login]
  BY DEF FindUserBySub, TypeInv, TypeOK
<1>4. /\ l \in Login
      /\ \/ l.pc = "provision" /\ l.id = None
         \/ rec # None /\ l.pc = "signIn" /\ l.id = rec.id
  <2> HIDE DEF n, k
  <2> QED
    BY <1>1, <1>2
<1>5. login'[r] = l
  <2> HIDE DEF l
  <2> QED
    BY <1>3
<1> HIDE DEF l
<1> QED
  BY <1>3, <1>4, <1>5

LEMMA FindType ==
    ASSUME TypeInv, NEW r \in Logins, NEW u \in Claims, FindUserBySub(r, u)
    PROVE  TypeInv'
<1>1. row[Sub(r)] # None => row[Sub(r)].id # None
  BY SeenRow
<1>2. /\ login' \in [Logins -> Login]
      /\ \A q \in Logins : q # r => login'[q] = login[q]
      /\ login'[r].pc \in {"signIn", "insert", "retry", "decide"} => login'[r].id # None
  BY <1>1, FindIs DEF TypeInv, TypeOK
<1>3. HasId'
  BY <1>2 DEF HasId, TypeInv
<1>4. met' \subseteq Logins
  BY DEF FindUserBySub, TypeInv, TypeOK
<1> QED
  BY <1>2, <1>3, <1>4 DEF FindUserBySub, emby, TypeInv, TypeOK

LEMMA SignInType ==
    ASSUME TypeInv, NEW r \in Logins, SignIn(r)
    PROVE  TypeInv'
<1>1. login' \in [Logins -> Login] /\ HasId'
  BY TypesOf, GotoType DEF SignIn, Exists
<1>2. met' = met
  BY DEF SignIn, Goto
<1> QED
  BY <1>1, <1>2 DEF SignIn, emby, TypeInv, TypeOK

LEMMA RecoverType ==
    ASSUME TypeInv, NEW r \in Logins, Recover(r)
    PROVE  TypeInv'
<1> DEFINE l == [login[r] EXCEPT !.id = None]
<1>1. l \in Login
  BY TypesOf DEF Login
<1>2. login' \in [Logins -> Login] /\ HasId'
  <2>1. Goto(r, l, "provision")
    BY DEF Recover
  <2> HIDE DEF l
  <2> QED
    BY <1>1, <2>1, GotoType
<1>3. spent' \in 0..MaxDisturbances
  BY DisturbType DEF Recover, Refused
<1>4. row' \in [Subs -> Row \cup {None}]
  BY DEF Recover, TypeInv, TypeOK
<1>5. met' = met
  BY DEF Recover, Goto
<1> QED
  BY <1>2, <1>3, <1>4, <1>5 DEF Recover, emby, TypeInv, TypeOK

\* A new account has an id that Emby's accounts, rows, requests and goroutines
\* do not have.
LEMMA NewIdFresh ==
    ASSUME FreshIds # {}
    PROVE  NewId \in Ids /\ ~Exists(NewId)
BY DEF NewId, FreshIds

\* What provisioning does to the accounts.
LEMMA ProvisionIs ==
    ASSUME TypeInv, NEW r \in Logins, Provision(r)
    PROVE  \E i \in Ids :
             /\ \/ /\ ~Exists(i)
                   /\ Owned(Sub(r)) = {} \/ moved[Sub(r)] # 0
                   /\ owner' = [owner EXCEPT ![i] = Sub(r)]
                   /\ image' = [image EXCEPT ![i] = NoPic]
                \/ owner[i] = Sub(r) /\ owner' = owner /\ image' = image
             /\ login' \in [Logins -> Login]
             /\ login'[r].pc = "insert" /\ login'[r].id = i
             /\ \A q \in Logins : q # r => login'[q] = login[q]
             /\ met' = met
<1>1. PICK i \in Ids : /\ Goto(r, [login[r] EXCEPT !.id = i], "insert")
                       /\ \/ /\ ~Exists(i)
                             /\ \/ Owned(Sub(r)) = {}
                                \/ Cardinality(Owned(Sub(r))) \in 1..moved[Sub(r)]
                             /\ owner' = [owner EXCEPT ![i] = Sub(r)]
                             /\ image' = [image EXCEPT ![i] = NoPic]
                          \/ i \in Owned(Sub(r)) /\ owner' = owner /\ image' = image
  <2>1. CASE \E i \in Owned(Sub(r)) :
                UNCHANGED emby /\ Goto(r, [login[r] EXCEPT !.id = i], "insert")
    BY <2>1 DEF Owned, emby
  <2>2. CASE ~\E i \in Owned(Sub(r)) :
                UNCHANGED emby /\ Goto(r, [login[r] EXCEPT !.id = i], "insert")
    BY <2>2, NewIdFresh DEF Provision
  <2> QED
    BY <2>1, <2>2
<1> DEFINE l == [login[r] EXCEPT !.id = i]
           m == [l EXCEPT !.pc = "insert"]
<1>2. m \in Login /\ m.pc = "insert" /\ m.id = i
  BY TypesOf DEF Login
<1>3. login' = [login EXCEPT ![r] = m] /\ met' = met /\ login \in [Logins -> Login]
  BY <1>1 DEF Goto, TypeInv, TypeOK
<1> HIDE DEF m
<1>4. /\ login' \in [Logins -> Login]
      /\ login'[r].pc = "insert" /\ login'[r].id = i
      /\ \A q \in Logins : q # r => login'[q] = login[q]
  BY <1>2, <1>3
<1>5. Cardinality(Owned(Sub(r))) \in 1..moved[Sub(r)] => moved[Sub(r)] # 0
  OBVIOUS
<1> QED
  BY <1>1, <1>3, <1>4, <1>5 DEF Owned

LEMMA ProvisionType ==
    ASSUME TypeInv, NEW r \in Logins, Provision(r)
    PROVE  TypeInv'
<1>1. PICK i \in Ids :
        /\ owner' \in {owner, [owner EXCEPT ![i] = Sub(r)]}
        /\ image' \in {image, [image EXCEPT ![i] = NoPic]}
        /\ login' \in [Logins -> Login]
        /\ login'[r].pc = "insert" /\ login'[r].id = i
        /\ \A q \in Logins : q # r => login'[q] = login[q]
        /\ met' = met
  BY ProvisionIs
<1>2. HasId'
  BY <1>1, SentinelsAssumption DEF HasId, TypeInv
<1>3. owner' \in [Ids -> Subs \cup {None}] /\ image' \in [Ids -> Pics \cup {NoPic}]
  BY <1>1, TypesOf DEF TypeInv, TypeOK
<1> QED
  BY <1>1, <1>2, <1>3 DEF Provision, TypeInv, TypeOK

\* The row a sign-in inserts.
Inserted(r) == [id |-> login[r].id, url |-> NoPic, age |-> "never", sure |-> r \notin met]

LEMMA InsertIs ==
    ASSUME TypeInv, NEW r \in Logins, InsertUser(r)
    PROVE  /\ login[r].id \in Ids
           /\ Inserted(r) \in Row /\ Inserted(r) # None
           /\ \/ /\ row[Sub(r)] = None
                 /\ row' = [row EXCEPT ![Sub(r)] = Inserted(r)]
                 /\ Goto(r, login[r], "retry")
              \/ row' = row /\ End(r)
<1>1. login[r].id \in Ids
  BY TypesOf DEF InsertUser, At, TypeInv, HasId
<1>2. Inserted(r) \in Row
  BY <1>1 DEF Inserted, Row
<1> QED
  BY <1>1, <1>2, NoneIsNoRecord DEF InsertUser, Inserted

LEMMA InsertType ==
    ASSUME TypeInv, NEW r \in Logins, InsertUser(r)
    PROVE  TypeInv'
<1>1. login' \in [Logins -> Login] /\ HasId'
  BY InsertIs, TypesOf, GotoType, IdleType, SentinelsAssumption
<1>2. row' \in [Subs -> Row \cup {None}]
  BY InsertIs DEF TypeInv, TypeOK
<1>3. met' \subseteq Logins
  BY InsertIs, MetType
<1> QED
  BY <1>1, <1>2, <1>3 DEF InsertUser, emby, TypeInv, TypeOK

LEMMA FailType ==
    ASSUME TypeInv, NEW r \in Logins, Fail(r)
    PROVE  TypeInv'
<1>1. login' \in [Logins -> Login] /\ HasId' /\ met' \subseteq Logins
  BY IdleType, MetType DEF Fail
<1>2. spent' \in 0..MaxDisturbances
  BY DisturbType DEF Fail, Refused
<1> QED
  BY <1>1, <1>2 DEF Fail, emby, TypeInv, TypeOK

LEMMA DecideType ==
    ASSUME TypeInv, NEW r \in Logins, Decide(r)
    PROVE  TypeInv'
<1>1. login' \in [Logins -> Login] /\ HasId'
  BY IdleType DEF Decide
<1>5. met' \subseteq Logins
  BY MetType DEF Decide
<1>2. login[r].id \in Ids
  BY TypesOf DEF Decide, At, TypeInv, HasId
<1>3. login[r].pic # NoPic => [pc |-> "post", id |-> login[r].id, pic |-> login[r].pic] \in Task
  BY <1>2, TypesOf DEF Task
<1>4. task' \in [Logins -> Task \cup {None}] /\ mark' \subseteq Subs
  BY <1>3, TypesOf DEF Decide, TypeInv, TypeOK
<1> QED
  BY <1>1, <1>5, <1>4 DEF Decide, emby, TypeInv, TypeOK

\* A goroutine moves to a step.
LEMMA TaskGotoType ==
    ASSUME TypeInv, NEW r \in Logins, task[r] # None, NEW pc \in {"post", "update", "done"},
           TaskGoto(r, pc)
    PROVE  /\ task' \in [Logins -> Task \cup {None}]
           /\ task'[r] \in Task /\ task'[r].pc = pc
           /\ task'[r].id = task[r].id /\ task'[r].pic = task[r].pic
           /\ \A q \in Logins : q # r => task'[q] = task[q]
<1> DEFINE t == [task[r] EXCEPT !.pc = pc]
<1>1. t \in Task /\ t.pc = pc /\ t.id = task[r].id /\ t.pic = task[r].pic
  BY TypesOf DEF Task
<1>2. task' = [task EXCEPT ![r] = t] /\ task \in [Logins -> Task \cup {None}]
  BY DEF TaskGoto, TypeInv, TypeOK
<1> HIDE DEF t
<1> QED
  BY <1>1, <1>2

LEMMA SetProfileImageType ==
    ASSUME TypeInv, NEW r \in Logins, SetProfileImage(r)
    PROVE  TypeInv'
<1>1. task' \in [Logins -> Task \cup {None}]
  BY TaskGotoType DEF SetProfileImage
<1>2. task[r].id \in Ids /\ task[r].pic \in Pics
  BY TypesOf DEF SetProfileImage, Task
<1>3. image' \in [Ids -> Pics \cup {NoPic}] /\ late' \subseteq Ids \X Pics
  BY <1>2 DEF SetProfileImage, TypeInv, TypeOK
<1>4. spent' \in 0..MaxDisturbances
  BY DisturbType DEF SetProfileImage
<1> QED
  BY <1>1, <1>3, <1>4 DEF SetProfileImage, TypeInv, TypeOK, HasId

\* The row a goroutine writes.
LEMMA UpdatedRow ==
    ASSUME TypeInv, NEW r \in Logins, task[r] # None, row[Sub(r)] # None,
           row' = [row EXCEPT ![Sub(r)].url = task[r].pic, ![Sub(r)].age = "recent"]
    PROVE  /\ row' \in [Subs -> Row \cup {None}]
           /\ row'[Sub(r)] \in Row /\ row'[Sub(r)].url = task[r].pic
           /\ row'[Sub(r)].id = row[Sub(r)].id
           /\ \A s \in Subs : s # Sub(r) => row'[s] = row[s]
<1> DEFINE w == [[row[Sub(r)] EXCEPT !.url = task[r].pic] EXCEPT !.age = "recent"]
<1>1. task[r].pic \in Pics
  BY TypesOf DEF Task
<1>2. w \in Row /\ w.url = task[r].pic /\ w.id = row[Sub(r)].id
  BY <1>1, TypesOf DEF Row
<1>3. row \in [Subs -> Row \cup {None}] /\ Sub(r) \in Subs
  BY TypesOf DEF TypeInv, TypeOK
<1>4. row' = [row EXCEPT ![Sub(r)] = w]
  BY <1>3
<1> HIDE DEF w
<1> QED
  BY <1>2, <1>3, <1>4

LEMMA UpdateType ==
    ASSUME TypeInv, NEW r \in Logins, UpdatePictureURL(r)
    PROVE  TypeInv'
<1>1. task' \in [Logins -> Task \cup {None}]
  BY TaskGotoType DEF UpdatePictureURL
<1>2. row' \in [Subs -> Row \cup {None}]
  BY UpdatedRow DEF UpdatePictureURL, TypeInv, TypeOK
<1>3. spent' \in 0..MaxDisturbances
  BY DisturbType DEF UpdatePictureURL
<1> QED
  BY <1>1, <1>2, <1>3 DEF UpdatePictureURL, emby, TypeInv, TypeOK, HasId

LEMMA AgedRow ==
    ASSUME TypeInv, NEW s \in Subs, Age(s)
    PROVE  /\ row' \in [Subs -> Row \cup {None}]
           /\ row[s] # None /\ row'[s] \in Row
           /\ row'[s].id = row[s].id /\ row'[s].url = row[s].url
           /\ \A t \in Subs : t # s => row'[t] = row[t]
<1> DEFINE w == [row[s] EXCEPT !.age = "old"]
<1>1. row \in [Subs -> Row \cup {None}] /\ row[s] # None /\ row[s] \in Row
  BY DEF Age, TypeInv, TypeOK
<1>2. w \in Row /\ w.id = row[s].id /\ w.url = row[s].url
  BY <1>1 DEF Row
<1>3. row' = [row EXCEPT ![s] = w]
  BY <1>1 DEF Age
<1> HIDE DEF w
<1> QED
  BY <1>1, <1>2, <1>3

LEMMA CrashType ==
    ASSUME TypeInv, Crash
    PROVE  TypeInv'
<1>1. Idle \in Login /\ Idle.pc = "idle"
  BY DEF Idle, Login
<1>2. spent' \in 0..MaxDisturbances
  BY DisturbType DEF Crash
<1> QED
  BY <1>1, <1>2 DEF Crash, emby, TypeInv, TypeOK, HasId

LEMMA InitType == Init => TypeInv
BY DisturbancesAssumption DEF Init, TypeInv, TypeOK, HasId, Idle, Login

LEMMA NextKeepsType == TypeInv /\ [Next]_vars => TypeInv'
<1> SUFFICES ASSUME TypeInv, [Next]_vars PROVE TypeInv'
  OBVIOUS
<1>1. ASSUME NEW r \in Logins, Handle(r)
      PROVE  TypeInv'
  BY <1>1, SignInType, RecoverType, ProvisionType, InsertType, FailType, DecideType DEF Handle
<1>2. ASSUME NEW r \in Logins, Run(r)
      PROVE  TypeInv'
  <2>1. CASE Finish(r)
    BY <2>1 DEF Finish, emby, TypeInv, TypeOK, HasId
  <2> QED
    BY <1>2, <2>1, SetProfileImageType, UpdateType DEF Run
<1>3. ASSUME NEW r \in Logins, NEW u \in Claims, FindUserBySub(r, u)
      PROVE  TypeInv'
  BY <1>3, FindType
<1>4. ASSUME NEW i \in Ids, DeleteAccount(i)
      PROVE  TypeInv'
  <2>1. spent' \in 0..MaxDisturbances
    BY <1>4, DisturbType DEF DeleteAccount
  <2> QED
    BY <1>4, <2>1 DEF DeleteAccount, TypeInv, TypeOK, HasId
<1>5. ASSUME NEW i \in Ids, NEW u \in Pics, Arrive(i, u)
      PROVE  TypeInv'
  BY <1>5 DEF Arrive, TypeInv, TypeOK, HasId
<1>6. ASSUME NEW s \in Subs, Age(s)
      PROVE  TypeInv'
  BY <1>6, AgedRow DEF Age, emby, TypeInv, TypeOK, HasId
<1>9. ASSUME NEW s \in Subs, ChangeName(s)
      PROVE  TypeInv'
  <2>1. spent' \in 0..MaxDisturbances
    BY <1>9, DisturbType DEF ChangeName
  <2>2. moved' \in [Subs -> Nat]
    BY <1>9 DEF ChangeName, TypeInv, TypeOK
  <2> QED
    BY <1>9, <2>1, <2>2 DEF ChangeName, emby, TypeInv, TypeOK, HasId
<1>7. CASE Crash
  BY <1>7, CrashType
<1>8. CASE UNCHANGED vars
  BY <1>8 DEF vars, emby, TypeInv, TypeOK, HasId
<1> QED
  BY <1>1, <1>2, <1>3, <1>4, <1>5, <1>6, <1>7, <1>8, <1>9 DEF Next

LEMMA TypesHold == Spec => []TypeInv
BY InitType, NextKeepsType, PTL DEF Spec

\* A sign-in that gets as far as to insert a row or to start a goroutine has an
\* account of Emby's to do so for.
THEOREM TypeCorrect == Spec => []TypeOK
<1>1. TypeInv => TypeOK
  BY DEF TypeInv
<1> QED
  BY <1>1, TypesHold, PTL

----------------------------------------------------------------------------
(***************************************************************************)
(* The mark.                                                               *)
(***************************************************************************)

Working(r) == task[r] # None

\* A subject is marked while one goroutine of it is at work, and no two are.
MarkInv ==
    /\ \A s \in Subs : s \in mark <=> \E r \in Logins : Sub(r) = s /\ Working(r)
    /\ \A r, q \in Logins : Working(r) /\ Working(q) /\ Sub(r) = Sub(q) => r = q

LEMMA MarkKept ==
    ASSUME MarkInv, mark' = mark, \A r \in Logins : Working(r)' <=> Working(r)
    PROVE  MarkInv'
BY DEF MarkInv, Sub

LEMMA GoneOn ==
    ASSUME TypeInv, MarkInv, mark' = mark, NEW r \in Logins, task[r] # None,
           NEW pc \in {"post", "update", "done"}, TaskGoto(r, pc)
    PROVE  MarkInv'
<1>1. \A q \in Logins : Working(q)' <=> Working(q)
  BY TaskGotoType, NoneIsNoRecord DEF Working
<1> QED
  BY <1>1, MarkKept

LEMMA DecideKeepsMark ==
    ASSUME TypeInv, MarkInv, NEW r \in Logins, Decide(r)
    PROVE  MarkInv'
<1>1. CASE UNCHANGED <<mark, task>>
  BY <1>1, MarkKept DEF Working
<1>2. CASE ~UNCHANGED <<mark, task>>
  <2> DEFINE t == [pc |-> "post", id |-> login[r].id, pic |-> login[r].pic]
  <2>1. /\ Sub(r) \notin mark /\ login[r].pic # NoPic
        /\ mark' = mark \cup {Sub(r)}
        /\ task' = [task EXCEPT ![r] = t]
    BY <1>2 DEF Decide
  <2>2. t \in Task
    BY <2>1, TypesOf DEF Decide, At, TypeInv, HasId, Task
  <2>3. t # None
    BY <2>2, NoneIsNoRecord
  <2> HIDE DEF t
  <2>4. \A q \in Logins : Working(q)' <=> q = r \/ Working(q)
    BY <2>1, <2>3 DEF Working, TypeInv, TypeOK
  <2>5. \A q \in Logins : Sub(q) = Sub(r) => ~Working(q)
    BY <2>1, TypesOf DEF MarkInv
  <2> QED
    BY <2>1, <2>4, <2>5, TypesOf DEF MarkInv, Sub
<1> QED
  BY <1>1, <1>2

LEMMA FinishKeepsMark ==
    ASSUME TypeInv, MarkInv, NEW r \in Logins, Finish(r)
    PROVE  MarkInv'
<1>1. \A q \in Logins : Working(q)' <=> q # r /\ Working(q)
  BY DEF Finish, Working, TypeInv, TypeOK
<1>2. Working(r) /\ mark' = mark \ {Sub(r)}
  BY DEF Finish, Working
<1> QED
  BY <1>1, <1>2, TypesOf DEF MarkInv, Sub

LEMMA InitMark == Init => MarkInv
BY DEF Init, MarkInv, Working

LEMMA NextKeepsMark == TypeInv /\ MarkInv /\ [Next]_vars => MarkInv'
<1> SUFFICES ASSUME TypeInv, MarkInv, [Next]_vars PROVE MarkInv'
  OBVIOUS
<1>1. CASE UNCHANGED <<mark, task>>
  BY <1>1, MarkKept DEF Working
<1>2. ASSUME NEW r \in Logins, SetProfileImage(r) \/ UpdatePictureURL(r)
      PROVE  MarkInv'
  BY <1>2, GoneOn DEF SetProfileImage, UpdatePictureURL
<1>3. ASSUME NEW r \in Logins, Decide(r)
      PROVE  MarkInv'
  BY <1>3, DecideKeepsMark
<1>4. ASSUME NEW r \in Logins, Finish(r)
      PROVE  MarkInv'
  BY <1>4, FinishKeepsMark
<1>5. CASE Crash
  BY <1>5 DEF Crash, MarkInv, Working
<1>6. \/ \E r \in Logins : \/ SetProfileImage(r) \/ UpdatePictureURL(r)
                           \/ Decide(r) \/ Finish(r)
      \/ Crash
      \/ UNCHANGED <<mark, task>>
  BY DEF Next, vars, Handle, Run, FindUserBySub, SignIn, Recover, Provision, InsertUser,
         Fail, DeleteAccount, Arrive, Age, ChangeName
<1> QED
  BY <1>1, <1>2, <1>3, <1>4, <1>5, <1>6

\* The mark is never left behind and never shared, whatever fails, is answered
\* late or crashes: at most one goroutine is at work for a subject, and a subject
\* is passed over only while one is.  Else its picture would not be
\* synchronised again until a restart.
THEOREM MarkTellsWork == Spec => []MarkInv
BY TypesHold, InitMark, NextKeepsMark, PTL DEF Spec

----------------------------------------------------------------------------
(***************************************************************************)
(* The image.                                                              *)
(***************************************************************************)

\* While no name changes, a subject has at most one account, which is what its
\* row, its sign-ins and its goroutine have hold of.
SameAccount ==
    /\ \A i, j \in Ids : owner[i] # None /\ owner[i] = owner[j] => i = j
    /\ \A s \in Subs : row[s] # None => owner[row[s].id] = s
    /\ \A r \in Logins : login[r].id # None => owner[login[r].id] = Sub(r)
    /\ \A r \in Logins : Working(r) => owner[task[r].id] = Sub(r)

\* Between post and update Emby shows the goroutine's picture, and otherwise the
\* row's.
ImageTold ==
    /\ \A r \in Logins : Working(r) /\ task[r].pc = "update" =>
          image[task[r].id] = task[r].pic
    /\ \A s \in Subs :
          /\ row[s] # None /\ row[s].url # NoPic
          /\ \A r \in Logins : Sub(r) = s /\ Working(r) => task[r].pc # "update"
          => image[row[s].id] = row[s].url

Quiet == late = {} /\ moved = [s \in Subs |-> 0]

CalmInv == spent = 0 => Quiet /\ SameAccount /\ ImageTold

\* The ids that rows and goroutines have hold of are Emby's.
LEMMA IdsOf ==
    ASSUME TypeInv
    PROVE  /\ \A s \in Subs : row[s] # None => row[s].id \in Ids
           /\ \A r \in Logins : Working(r) => task[r].id \in Ids /\ task[r].pic \in Pics
           /\ \A r \in Logins : login[r].id \in Ids \cup {None}
           /\ \A r \in Logins : Sub(r) \in Subs /\ Sub(r) # None
           /\ \A s \in Subs : s # None
<1>1. \A r \in Logins : Working(r) => task[r] \in Task
  BY TypesOf DEF Working
<1> QED
  BY <1>1, TypesOf, SentinelsAssumption DEF TypeInv, TypeOK, Row, Task

LEMMA GotoIs ==
    ASSUME TypeInv, NEW r \in Logins, NEW l \in Login,
           NEW pc \in {"idle", "signIn", "provision", "insert", "retry", "decide"},
           Goto(r, l, pc)
    PROVE  /\ login'[r].pc = pc /\ login'[r].id = l.id
           /\ \A q \in Logins : q # r => login'[q] = login[q]
<1> DEFINE m == [l EXCEPT !.pc = pc]
<1>1. m.pc = pc /\ m.id = l.id
  BY DEF Login
<1>2. login' = [login EXCEPT ![r] = m] /\ login \in [Logins -> Login]
  BY DEF Goto, TypeInv, TypeOK
<1> HIDE DEF m
<1> QED
  BY <1>1, <1>2

LEMMA EndIs ==
    ASSUME TypeInv, NEW r \in Logins, End(r)
    PROVE  /\ login'[r].id = None
           /\ \A q \in Logins : q # r => login'[q] = login[q]
BY DEF End, TypeInv, TypeOK, Idle

\* A step of a sign-in that changes nothing else.
LEMMA LoginKeepsCalm ==
    ASSUME SameAccount, ImageTold, UNCHANGED <<owner, image, row, task>>, NEW r \in Logins,
           \A q \in Logins : q # r => login'[q] = login[q],
           login'[r].id # None => owner[login'[r].id] = Sub(r)
    PROVE  SameAccount' /\ ImageTold'
<1>1. SameAccount'
  <2>1. \A q \in Logins : login'[q].id # None => owner[login'[q].id] = Sub(q)
    BY DEF SameAccount
  <2> QED
    BY <2>1 DEF SameAccount, Working, Sub
<1>2. ImageTold'
  BY DEF ImageTold, Working, Sub
<1> QED
  BY <1>1, <1>2

LEMMA FindKeepsCalm ==
    ASSUME TypeInv, SameAccount, ImageTold, NEW r \in Logins, NEW u \in Claims,
           FindUserBySub(r, u)
    PROVE  SameAccount' /\ ImageTold'
<1>1. login'[r].id # None => owner[login'[r].id] = Sub(r)
  BY FindIs, TypesOf DEF SameAccount
<1>2. \A q \in Logins : q # r => login'[q] = login[q]
  BY FindIs DEF TypeInv, TypeOK
<1>3. UNCHANGED <<owner, image, row, task>>
  BY DEF FindUserBySub, emby
<1> QED
  BY <1>1, <1>2, <1>3, LoginKeepsCalm

LEMMA SignInKeepsCalm ==
    ASSUME TypeInv, SameAccount, ImageTold, NEW r \in Logins, SignIn(r)
    PROVE  SameAccount' /\ ImageTold'
<1>1. /\ login'[r].id = login[r].id
      /\ \A q \in Logins : q # r => login'[q] = login[q]
  BY TypesOf, GotoIs DEF SignIn
<1>2. UNCHANGED <<owner, image, row, task>>
  BY DEF SignIn, emby
<1>3. login'[r].id # None => owner[login'[r].id] = Sub(r)
  BY <1>1 DEF SameAccount
<1> QED
  BY <1>1, <1>2, <1>3, LoginKeepsCalm

LEMMA FailKeepsCalm ==
    ASSUME TypeInv, SameAccount, ImageTold, NEW r \in Logins, Fail(r)
    PROVE  SameAccount' /\ ImageTold'
<1>1. UNCHANGED <<owner, image, row, task>> /\ End(r)
  BY DEF Fail, emby
<1> QED
  BY <1>1, EndIs, LoginKeepsCalm

\* A row less says nothing of any image.
LEMMA RecoverKeepsCalm ==
    ASSUME TypeInv, SameAccount, ImageTold, NEW r \in Logins, Recover(r)
    PROVE  SameAccount' /\ ImageTold'
<1> DEFINE l == [login[r] EXCEPT !.id = None]
<1>1. l \in Login /\ l.id = None
  BY TypesOf DEF Login
<1>2. Goto(r, l, "provision") /\ UNCHANGED <<owner, image, task>>
  BY DEF Recover, emby
<1> HIDE DEF l
<1>3. /\ login'[r].id = None
      /\ \A q \in Logins : q # r => login'[q] = login[q]
  BY <1>1, <1>2, GotoIs
<1>4. \A s \in Subs : row'[s] # None => row'[s] = row[s]
  BY DEF Recover, TypeInv, TypeOK
<1>5. SameAccount'
  <2>1. \A q \in Logins : login'[q].id # None => login'[q] = login[q]
    BY <1>3
  <2> QED
    BY <1>2, <1>4, <2>1 DEF SameAccount, Working, Sub
<1>6. ImageTold'
  BY <1>2, <1>4 DEF ImageTold, Working, Sub
<1> QED
  BY <1>5, <1>6

\* A new account is nobody's yet, and the subject has none.
LEMMA ProvisionKeepsCalm ==
    ASSUME TypeInv, Quiet, SameAccount, ImageTold, NEW r \in Logins, Provision(r)
    PROVE  SameAccount' /\ ImageTold'
<1>1. PICK i \in Ids :
        /\ \/ /\ ~Exists(i)
              /\ Owned(Sub(r)) = {} \/ moved[Sub(r)] # 0
              /\ owner' = [owner EXCEPT ![i] = Sub(r)]
              /\ image' = [image EXCEPT ![i] = NoPic]
           \/ owner[i] = Sub(r) /\ owner' = owner /\ image' = image
        /\ login'[r].id = i
        /\ \A q \in Logins : q # r => login'[q] = login[q]
  BY ProvisionIs
<1>2. row' = row /\ task' = task
  BY DEF Provision
<1>3. CASE owner[i] = Sub(r) /\ owner' = owner /\ image' = image
  BY <1>1, <1>2, <1>3, LoginKeepsCalm
<1>4. CASE /\ ~Exists(i)
           /\ Owned(Sub(r)) = {} \/ moved[Sub(r)] # 0
           /\ owner' = [owner EXCEPT ![i] = Sub(r)]
           /\ image' = [image EXCEPT ![i] = NoPic]
  <2>1. Sub(r) \in Subs /\ Sub(r) # None /\ moved[Sub(r)] = 0
    BY IdsOf DEF Quiet
  <2>2. owner[i] = None /\ \A j \in Ids : owner[j] # Sub(r)
    BY <1>1, <1>4, <2>1, SentinelsAssumption DEF Exists, Owned
  <2>3. /\ owner'[i] = Sub(r)
        /\ \A j \in Ids : j # i => owner'[j] = owner[j] /\ image'[j] = image[j]
    BY <1>4 DEF TypeInv, TypeOK
  <2>4. /\ \A s \in Subs : row[s] # None => row[s].id # i
        /\ \A q \in Logins : Working(q) => task[q].id # i
        /\ \A q \in Logins : login[q].id # i
    BY <2>2, IdsOf, SentinelsAssumption DEF SameAccount
  <2>5. SameAccount'
    <3>1. \A j, k \in Ids : owner'[j] # None /\ owner'[j] = owner'[k] => j = k
      BY <2>2, <2>3 DEF SameAccount
    <3>2. \A s \in Subs : row[s] # None => owner'[row[s].id] = s
      BY <2>3, <2>4, IdsOf DEF SameAccount
    <3>3. \A q \in Logins : login'[q].id # None => owner'[login'[q].id] = Sub(q)
      BY <1>1, <2>3, <2>4, IdsOf DEF SameAccount
    <3>4. \A q \in Logins : Working(q) => owner'[task[q].id] = Sub(q)
      BY <2>3, <2>4, IdsOf DEF SameAccount
    <3> QED
      BY <1>2, <3>1, <3>2, <3>3, <3>4 DEF SameAccount, Working, Sub
  <2>6. ImageTold'
    <3>1. \A s \in Subs : row[s] # None => image'[row[s].id] = image[row[s].id]
      BY <2>3, <2>4, IdsOf
    <3>2. \A q \in Logins : Working(q) => image'[task[q].id] = image[task[q].id]
      BY <2>3, <2>4, IdsOf
    <3> QED
      BY <1>2, <3>1, <3>2 DEF ImageTold, Working, Sub
  <2> QED
    BY <2>5, <2>6
<1> QED
  BY <1>1, <1>3, <1>4

\* A new row names no picture.
LEMMA InsertKeepsCalm ==
    ASSUME TypeInv, SameAccount, ImageTold, NEW r \in Logins, InsertUser(r)
    PROVE  SameAccount' /\ ImageTold'
<1>1. UNCHANGED <<owner, image, task>>
  BY DEF InsertUser, emby
<1>2. CASE row' = row /\ End(r)
  BY <1>1, <1>2, EndIs, LoginKeepsCalm
<1>3. CASE /\ row[Sub(r)] = None /\ row' = [row EXCEPT ![Sub(r)] = Inserted(r)]
           /\ Goto(r, login[r], "retry")
  <2>1. Inserted(r).id = login[r].id /\ Inserted(r).url = NoPic
    BY DEF Inserted
  <2>2. login[r].id # None
    BY InsertIs, SentinelsAssumption
  <2>3. row'[Sub(r)] = Inserted(r) /\ \A s \in Subs : s # Sub(r) => row'[s] = row[s]
    BY <1>3, TypesOf DEF TypeInv, TypeOK
  <2>4. \A q \in Logins : login'[q].id = login[q].id
    BY <1>3, TypesOf, GotoIs
  <2>5. owner[login[r].id] = Sub(r)
    BY <2>2 DEF SameAccount
  <2>6. SameAccount'
    <3>1. \A s \in Subs : row'[s] # None => owner[row'[s].id] = s
      BY <2>1, <2>3, <2>5 DEF SameAccount
    <3> QED
      BY <1>1, <2>4, <3>1 DEF SameAccount, Working, Sub
  <2>7. ImageTold'
    BY <1>1, <2>1, <2>3 DEF ImageTold, Working, Sub
  <2> QED
    BY <2>6, <2>7
<1> QED
  BY <1>2, <1>3, InsertIs

LEMMA DecideKeepsCalm ==
    ASSUME TypeInv, MarkInv, SameAccount, ImageTold, NEW r \in Logins, Decide(r)
    PROVE  SameAccount' /\ ImageTold'
<1> DEFINE t == [pc |-> "post", id |-> login[r].id, pic |-> login[r].pic]
<1>1. /\ login'[r].id = None /\ UNCHANGED <<owner, image, row>>
      /\ \A q \in Logins : q # r => login'[q] = login[q]
  BY EndIs DEF Decide, emby
<1>2. CASE task' = task
  BY <1>1, <1>2, LoginKeepsCalm
<1>3. CASE task' # task
  <2>1. task' = [task EXCEPT ![r] = t]
    BY <1>3 DEF Decide
  <2>2. task'[r] = t /\ \A q \in Logins : q # r => task'[q] = task[q]
    BY <2>1 DEF TypeInv, TypeOK
  <2>3. login[r].id # None
    BY DEF Decide, At, TypeInv, HasId
  <2>4. t.id = login[r].id /\ t.pc = "post"
    OBVIOUS
  <2> HIDE DEF t
  <2>5. SameAccount'
    <3>1. \A q \in Logins : login'[q].id # None => owner[login'[q].id] = Sub(q)
      BY <1>1 DEF SameAccount
    <3>2. \A q \in Logins : Working(q)' => owner[task'[q].id] = Sub(q)
      BY <2>2, <2>3, <2>4 DEF SameAccount, Working
    <3> QED
      BY <1>1, <3>1, <3>2 DEF SameAccount, Sub
  <2>6. ~Working(r)
    BY <1>3, TypesOf DEF Decide, MarkInv
  <2>7. ImageTold'
    BY <1>1, <2>2, <2>4, <2>6 DEF ImageTold, Working, Sub
  <2> QED
    BY <2>5, <2>7
<1> QED
  BY <1>2, <1>3

\* Posting: until then the row tells the image, and after it the goroutine.
LEMMA PostKeepsCalm ==
    ASSUME TypeInv, MarkInv, SameAccount, ImageTold,
           NEW r \in Logins, SetProfileImage(r), spent' = 0
    PROVE  SameAccount' /\ ImageTold' /\ late' = late
<1>1. task[r] # None /\ Working(r) /\ UNCHANGED <<owner, row, login>>
  BY DEF SetProfileImage, Working
<1>2. task[r].id \in Ids /\ owner[task[r].id] = Sub(r) /\ Exists(task[r].id)
  BY <1>1, IdsOf, SentinelsAssumption DEF SameAccount, Exists
<1>3. /\ image' = [image EXCEPT ![task[r].id] = task[r].pic]
      /\ late' = late /\ TaskGoto(r, "update")
  BY <1>2, TypesOf DEF SetProfileImage, Disturb
<1>4. /\ task'[r].pc = "update" /\ task'[r].id = task[r].id /\ task'[r].pic = task[r].pic
      /\ task'[r] # None
      /\ \A q \in Logins : q # r => task'[q] = task[q]
  BY <1>1, <1>3, TaskGotoType, NoneIsNoRecord
<1>5. /\ image'[task[r].id] = task[r].pic
      /\ \A j \in Ids : j # task[r].id => image'[j] = image[j]
  BY <1>2, <1>3 DEF TypeInv, TypeOK
<1>6. \A q \in Logins : /\ Working(q)' <=> Working(q)
                        /\ task'[q].id = task[q].id
  BY <1>1, <1>4 DEF Working
<1>7. SameAccount'
  BY <1>1, <1>6 DEF SameAccount, Sub
<1>8. ImageTold'
  <2>1. ASSUME NEW s \in Subs, s # Sub(r), row[s] # None
        PROVE  image'[row[s].id] = image[row[s].id]
    BY <1>2, <1>5, <2>1, IdsOf DEF SameAccount
  <2>2. ASSUME NEW q \in Logins, q # r, Working(q)
        PROVE  image'[task[q].id] = image[task[q].id]
    <3>1. Sub(q) # Sub(r)
      BY <1>1, <2>2 DEF MarkInv
    <3> QED
      BY <1>2, <1>5, <2>2, <3>1, IdsOf DEF SameAccount
  <2>3. \A q \in Logins : Working(q)' /\ task'[q].pc = "update" =>
          image'[task'[q].id] = task'[q].pic
    BY <1>4, <1>5, <1>6, <2>2 DEF ImageTold
  <2>4. ASSUME NEW s \in Subs, row[s] # None, row[s].url # NoPic,
               \A q \in Logins : Sub(q) = s /\ Working(q)' => task'[q].pc # "update"
        PROVE  image'[row[s].id] = row[s].url
    <3>1. s # Sub(r)
      BY <1>1, <1>4, <1>6, <2>4
    <3>2. \A q \in Logins : Sub(q) = s => q # r /\ task'[q] = task[q]
      BY <1>4, <3>1
    <3>3. image[row[s].id] = row[s].url
      BY <1>6, <2>4, <3>2 DEF ImageTold
    <3> QED
      BY <2>1, <2>4, <3>1, <3>3
  <2> QED
    BY <1>1, <2>3, <2>4 DEF ImageTold, Sub
<1> QED
  BY <1>3, <1>7, <1>8

\* Recording: if the subject has a row, whichever it is by now, it tells the
\* image again.
LEMMA UpdateKeepsCalm ==
    ASSUME TypeInv, MarkInv, SameAccount, ImageTold, NEW r \in Logins,
           UpdatePictureURL(r), spent' = 0
    PROVE  SameAccount' /\ ImageTold'
<1>1. /\ task[r] # None /\ Working(r) /\ task[r].pc = "update"
      /\ UNCHANGED <<owner, image, login>> /\ TaskGoto(r, "done")
  BY DEF UpdatePictureURL, emby, Working
<1>2. image[task[r].id] = task[r].pic /\ owner[task[r].id] = Sub(r) /\ task[r].id \in Ids
  BY <1>1, IdsOf DEF SameAccount, ImageTold
<1>3. /\ task'[r].pc = "done"
      /\ \A q \in Logins : task'[q].id = task[q].id
      /\ \A q \in Logins : q # r => task'[q] = task[q]
  BY <1>1, TaskGotoType
<1>4. /\ \A s \in Subs : s # Sub(r) => row'[s] = row[s]
      /\ \A s \in Subs : row'[s] # None => row[s] # None /\ row'[s].id = row[s].id
      /\ row'[Sub(r)] # None => row'[Sub(r)].url = task[r].pic
  <2>1. CASE row[Sub(r)] = None /\ row' = row
    BY <2>1
  <2>2. CASE /\ row[Sub(r)] # None
             /\ row' = [row EXCEPT ![Sub(r)].url = task[r].pic, ![Sub(r)].age = "recent"]
    BY <1>1, <2>2, UpdatedRow
  <2>3. spent \in Nat
    BY TypesOf
  <2> QED
    BY <2>1, <2>2, <2>3 DEF UpdatePictureURL, Disturb
<1>5. \A q \in Logins : Working(q)' => Working(q)
  BY <1>1, <1>3 DEF Working
<1>6. SameAccount'
  BY <1>1, <1>3, <1>4, <1>5 DEF SameAccount, Sub
<1>7. ImageTold'
  <2>1. \A q \in Logins : Working(q)' /\ task'[q].pc = "update" =>
          image[task'[q].id] = task'[q].pic
    BY <1>3, <1>5 DEF ImageTold
  <2>2. ASSUME NEW s \in Subs, row'[s] # None, row'[s].url # NoPic,
               \A q \in Logins : Sub(q) = s /\ Working(q)' => task'[q].pc # "update"
        PROVE  image[row'[s].id] = row'[s].url
    <3>1. CASE s = Sub(r)
      <4>1. owner[row'[s].id] = s /\ row'[s].id \in Ids
        BY <1>4, <2>2, IdsOf DEF SameAccount
      <4>2. row'[s].id = task[r].id
        BY <1>2, <3>1, <4>1, IdsOf DEF SameAccount
      <4> QED
        BY <1>2, <1>4, <2>2, <3>1, <4>2
    <3>2. CASE s # Sub(r)
      <4>1. row'[s] = row[s]
        BY <1>4, <3>2
      <4>2. \A q \in Logins : Sub(q) = s => task'[q] = task[q]
        BY <1>3, <3>2
      <4> QED
        BY <2>2, <4>1, <4>2 DEF ImageTold, Working
    <3> QED
      BY <3>1, <3>2
  <2> QED
    BY <1>1, <2>1, <2>2 DEF ImageTold, Sub
<1> QED
  BY <1>6, <1>7

LEMMA FinishKeepsCalm ==
    ASSUME TypeInv, SameAccount, ImageTold, NEW r \in Logins, Finish(r)
    PROVE  SameAccount' /\ ImageTold'
<1>1. /\ UNCHANGED <<owner, image, row, login>> /\ task[r].pc = "done"
      /\ \A q \in Logins : Working(q)' => Working(q) /\ task'[q] = task[q]
      /\ \A q \in Logins : Working(q) => q = r \/ task'[q] = task[q]
  BY DEF Finish, emby, Working, TypeInv, TypeOK
<1>2. SameAccount'
  BY <1>1 DEF SameAccount, Sub
<1>3. ImageTold'
  BY <1>1 DEF ImageTold, Working, Sub
<1> QED
  BY <1>2, <1>3

LEMMA AgeKeepsCalm ==
    ASSUME TypeInv, SameAccount, ImageTold, NEW s \in Subs, Age(s)
    PROVE  SameAccount' /\ ImageTold'
<1>1. UNCHANGED <<owner, image, login, task>>
  BY DEF Age, emby
<1>2. /\ row[s] # None /\ row'[s] # None
      /\ row'[s].id = row[s].id /\ row'[s].url = row[s].url
      /\ \A t \in Subs : t # s => row'[t] = row[t]
  BY AgedRow, NoneIsNoRecord
<1>3. \A t \in Subs : /\ row'[t] # None <=> row[t] # None
                      /\ row[t] # None => row'[t].id = row[t].id /\ row'[t].url = row[t].url
  BY <1>2
<1>4. SameAccount'
  BY <1>1, <1>3 DEF SameAccount, Working, Sub
<1>5. ImageTold'
  BY <1>1, <1>3 DEF ImageTold, Working, Sub
<1> QED
  BY <1>4, <1>5

LEMMA InitCalm == Init => CalmInv
BY DEF Init, CalmInv, Quiet, SameAccount, ImageTold, Idle, Working

LEMMA NextKeepsCalm == TypeInv /\ MarkInv /\ CalmInv /\ [Next]_vars => CalmInv'
<1> SUFFICES ASSUME TypeInv, MarkInv, CalmInv, [Next]_vars, spent' = 0
             PROVE  Quiet' /\ SameAccount' /\ ImageTold'
  BY DEF CalmInv
<1>1. spent = 0
  <2>1. spent \in Nat
    BY DisturbancesAssumption DEF TypeInv, TypeOK
  <2>2. spent' = spent \/ spent' = spent + 1
    BY DEF Next, vars, Handle, Run, FindUserBySub, SignIn, Recover, Provision, InsertUser,
           Fail, Refused, Decide, SetProfileImage, UpdatePictureURL, Finish, DeleteAccount,
           Arrive, Age, ChangeName, Crash, Calm, Disturb
  <2> QED
    BY <2>1, <2>2
<1>2. Quiet /\ SameAccount /\ ImageTold
  BY <1>1 DEF CalmInv
<1>3. ASSUME NEW r \in Logins, Handle(r)
      PROVE  Quiet' /\ SameAccount' /\ ImageTold'
  <2>1. late' = late /\ moved' = moved
    BY <1>3 DEF Handle, SignIn, Recover, Provision, InsertUser, Fail, Decide
  <2>2. SameAccount' /\ ImageTold'
    BY <1>2, <1>3, SignInKeepsCalm, RecoverKeepsCalm, ProvisionKeepsCalm, InsertKeepsCalm,
       FailKeepsCalm, DecideKeepsCalm
    DEF Handle
  <2> QED
    BY <1>2, <2>1, <2>2 DEF Quiet
<1>4. ASSUME NEW r \in Logins, Run(r)
      PROVE  Quiet' /\ SameAccount' /\ ImageTold'
  <2>1. moved' = moved /\ (UpdatePictureURL(r) \/ Finish(r) => late' = late)
    BY <1>4 DEF Run, SetProfileImage, UpdatePictureURL, Finish
  <2>2. late' = late /\ SameAccount' /\ ImageTold'
    BY <1>2, <1>4, <2>1, PostKeepsCalm, UpdateKeepsCalm, FinishKeepsCalm DEF Run
  <2> QED
    BY <1>2, <2>1, <2>2 DEF Quiet
<1>5. ASSUME NEW r \in Logins, NEW u \in Claims, FindUserBySub(r, u)
      PROVE  Quiet' /\ SameAccount' /\ ImageTold'
  <2>1. Quiet'
    BY <1>2, <1>5 DEF FindUserBySub, Quiet
  <2> QED
    BY <1>2, <1>5, <2>1, FindKeepsCalm
<1>6. ASSUME NEW s \in Subs, Age(s)
      PROVE  Quiet' /\ SameAccount' /\ ImageTold'
  <2>1. Quiet'
    BY <1>2, <1>6 DEF Age, Quiet
  <2> QED
    BY <1>2, <1>6, <2>1, AgeKeepsCalm
<1>7. ~\E i \in Ids, u \in Pics : Arrive(i, u)
  BY <1>2 DEF Arrive, Quiet
<1>8. ~Crash /\ ~(\E i \in Ids : DeleteAccount(i)) /\ ~\E s \in Subs : ChangeName(s)
  BY <1>1 DEF Crash, DeleteAccount, ChangeName, Disturb
<1>9. CASE UNCHANGED vars
  BY <1>2, <1>9
  DEF vars, Quiet, SameAccount, ImageTold, Working, Sub
<1> QED
  BY <1>2, <1>3, <1>4, <1>5, <1>6, <1>7, <1>8, <1>9 DEF Next

\* Until something fails or a name changes, the table names the image Emby shows
\* of every subject no goroutine is at work for, however many sign-ins, subjects
\* and pictures there are, and however the sign-ins overlap and recover.
THEOREM RowsTellImages == Spec => []RowTellsImage
<1>1. Init => TypeInv /\ MarkInv /\ CalmInv
  BY InitType, InitMark, InitCalm
<1>2. TypeInv /\ MarkInv /\ CalmInv /\ [Next]_vars => (TypeInv /\ MarkInv /\ CalmInv)'
  BY NextKeepsType, NextKeepsMark, NextKeepsCalm
<1>3. TypeInv /\ MarkInv /\ CalmInv => RowTellsImage
  <2> SUFFICES ASSUME TypeInv, MarkInv, CalmInv, spent = 0,
                      NEW s \in Subs, row[s] # None, row[s].url # NoPic, s \notin mark
               PROVE  Shows(s, row[s].url)
    BY DEF RowTellsImage, TableTellsImage
  <2>1. \A r \in Logins : Sub(r) = s => ~Working(r)
    BY DEF MarkInv
  <2>2. image[row[s].id] = row[s].url /\ owner[row[s].id] = s
    BY <2>1 DEF CalmInv, SameAccount, ImageTold
  <2> QED
    BY <2>2, IdsOf, SentinelsAssumption DEF Shows, Exists
<1> QED
  BY <1>1, <1>2, <1>3, PTL DEF Spec
====
