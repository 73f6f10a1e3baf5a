---- MODULE PictureSync ----
(***************************************************************************)
(* internal/middleware/auth.go, the profile image: a sign-in that finds    *)
(* the picture changed, or last sent more than a day ago, starts a         *)
(* goroutine that fetches it, posts it to Emby and records it in the       *)
(* table; a mark per subject keeps a second one from starting.  Sign-ins   *)
(* overlap, and the account and the row may be replaced by recovery while  *)
(* a goroutine works for the old ones.                                     *)
(*                                                                         *)
(* Of the sign-in only what touches rows and accounts is here, one step    *)
(* per statement; AuthMiddleware has the rest.  Of passwords and names it  *)
(* has what decides whether Emby refuses a sign-in and which account       *)
(* recovery finds: requests of one subject that overlap replace each       *)
(* other's password and rename the account, so any of them may be refused; *)
(* a request on its own is refused only for a row such a request has left, *)
(* or when something fails (RowMatchesEmby and RecoversOnlyClosed).        *)
(***************************************************************************)
EXTENDS Naturals, FiniteSets

CONSTANTS
    Subs, Ids,
    Logins,          \* browser connections that sign in
    SubOf,           \* the subject of a connection: [Logins -> Subs]
    Pics,            \* picture URLs
    None, NoPic,
    Claims,          \* the pictures a sign-in may carry, NoPic for none
    Disturbances,    \* the kinds of failure and outside action that may happen
    MaxDisturbances  \* how many of them happen in a behaviour

Kinds == {"refuse", "lose", "late", "dbFail", "delete", "rename", "crash"}

ASSUME SubOfAssumption == SubOf \in [Logins -> Subs]
ASSUME SentinelsAssumption == None \notin Ids \cup Subs \cup Pics /\ NoPic \notin Pics \cup {None}
ASSUME ClaimsAssumption == Claims \subseteq Pics \cup {NoPic}
ASSUME DisturbancesAssumption == Disturbances \subseteq Kinds /\ MaxDisturbances \in Nat

VARIABLES
    owner,   \* Emby's accounts: the subject whose name it carries, or None
    image,   \* their images, NoPic without one
    row,     \* the table: [Subs -> Row or None]
    mark,    \* pictureSyncInFlight
    login,   \* a connection's sign-in
    met,     \* the sign-ins that another of the same subject has overlapped
    moved,   \* how often a subject's preferred name has changed
    task,    \* the goroutine it started, or None
    late,    \* posts whose sender gave up, still on their way to Emby
    spent    \* disturbances so far

vars == <<owner, image, row, mark, login, met, moved, task, late, spent>>

\* age: how long ago the image was sent, "old" after more than 24 hours.
\* sure: was it inserted by a request that no other overlapped?  Only then is it
\* certain to have the password Emby has.
Row == [id : Ids, url : Pics \cup {NoPic}, age : {"never", "recent", "old"}, sure : BOOLEAN]
Seen == [url : Pics \cup {NoPic}, age : {"never", "recent", "old"}]
Login == [pc : {"idle", "signIn", "provision", "insert", "retry", "decide"},
          pic : Pics \cup {NoPic},    \* headers.PictureURL
          rec : Seen \cup {None},     \* record, whose id is below
          id : Ids \cup {None}]       \* embyUserID
Task == [pc : {"post", "update", "done"}, id : Ids, pic : Pics]

\* Rows and goroutines are records and None is not one.
ASSUME NoneIsNoRecord == None \notin Row \cup Seen \cup Task

TypeOK ==
    /\ owner \in [Ids -> Subs \cup {None}]
    /\ image \in [Ids -> Pics \cup {NoPic}]
    /\ row \in [Subs -> Row \cup {None}]
    /\ mark \subseteq Subs
    /\ login \in [Logins -> Login]
    /\ met \subseteq Logins
    /\ moved \in [Subs -> Nat]
    /\ task \in [Logins -> Task \cup {None}]
    /\ late \subseteq Ids \X Pics
    /\ spent \in 0..MaxDisturbances

Idle == [pc |-> "idle", pic |-> NoPic, rec |-> None, id |-> None]

Init ==
    /\ owner = [i \in Ids |-> None]
    /\ image = [i \in Ids |-> NoPic]
    /\ row = [s \in Subs |-> None]
    /\ mark = {}
    /\ login = [r \in Logins |-> Idle]
    /\ met = {}
    /\ moved = [s \in Subs |-> 0]
    /\ task = [r \in Logins |-> None]
    /\ late = {}
    /\ spent = 0

----------------------------------------------------------------------------

Calm == UNCHANGED spent
Disturb(kind) ==
    /\ kind \in Disturbances
    /\ spent < MaxDisturbances
    /\ spent' = spent + 1

Sub(r) == SubOf[r]
At(r, pc) == login[r].pc = pc
Exists(i) == i # None /\ owner[i] # None
Owned(s) == {i \in Ids : owner[i] = s}

emby == <<owner, image>>

Goto(r, l, pc) == login' = [login EXCEPT ![r] = [l EXCEPT !.pc = pc]] /\ UNCHANGED met
End(r) == login' = [login EXCEPT ![r] = Idle] /\ met' = met \ {r}

\* Emby gives a new account an id that no row, request or goroutine knows.
FreshIds ==
    {i \in Ids : ~Exists(i)}
        \ ( {row[s].id : s \in {t \in Subs : row[t] # None}}
       \cup {login[r].id : r \in Logins}
       \cup {task[r].id : r \in {q \in Logins : task[q] # None}}
       \cup {p[1] : p \in late} )

\* One is as good as another.
NewId == CHOOSE i \in FreshIds : TRUE

----------------------------------------------------------------------------
(* The sign-in.                                                             *)

\* A request that the session cache does not answer: FindUserBySub.
FindUserBySub(r, u) ==
    /\ At(r, "idle")
    /\ task[r] = None
    /\ LET rec == row[Sub(r)]
           others == {q \in Logins \ {r} : Sub(q) = Sub(r) /\ ~At(q, "idle")}
       IN  /\ login' = [login EXCEPT ![r] =
                IF rec = None
                THEN [Idle EXCEPT !.pc = "provision", !.pic = u]
                ELSE [pc |-> "signIn", pic |-> u, id |-> rec.id,
                      rec |-> [url |-> rec.url, age |-> rec.age]]]
           /\ met' = IF others = {} THEN met ELSE met \cup others \cup {r}
    /\ UNCHANGED <<emby, row, mark, moved, task, late, spent>>

\* Emby lets the subject in, by the row or by what was provisioned.  After
\* provisioning, a refusal is the end of the request.
SignIn(r) ==
    /\ At(r, "signIn") \/ At(r, "retry")
    /\ Exists(login[r].id)
    /\ Goto(r, login[r], "decide")
    /\ UNCHANGED <<emby, row, mark, moved, task, late, spent>>

\* May Emby refuse the sign-in although nothing fails?
MayBeRefused(r) ==
    \/ ~Exists(login[r].id)
    \/ r \in met
    \/ At(r, "signIn") /\ row[Sub(r)] # None /\ ~row[Sub(r)].sure

Refused(r) ==
    \/ MayBeRefused(r) /\ Calm
    \/ Disturb("refuse")

\* Emby does not let in a subject that had a row: the row is deleted.
Recover(r) ==
    /\ At(r, "signIn")
    /\ Refused(r)
    /\ row' = [row EXCEPT ![Sub(r)] = None]
    /\ Goto(r, [login[r] EXCEPT !.id = None], "provision")
    /\ UNCHANGED <<emby, mark, moved, task, late>>

\* Variant of Provision: the id of the new account is not remembered.
ProvisionForgets(r) ==
    /\ At(r, "provision")
    /\ FreshIds # {}
    /\ owner' = [owner EXCEPT ![NewId] = Sub(r)]
    /\ Goto(r, login[r], "insert")
    /\ UNCHANGED <<image, row, mark, moved, task, late, spent>>

\* The account that carries the subject's name is adopted or, when there is
\* none, a new one created.  Until its name changes a subject has one account;
\* afterwards it may have one more for every change, and any of them may carry
\* the name of a request, or none.
Provision(r) ==
    /\ At(r, "provision")
    /\ \/ /\ Owned(Sub(r)) = {} \/ Cardinality(Owned(Sub(r))) \in 1..moved[Sub(r)]
          /\ FreshIds # {}
          /\ owner' = [owner EXCEPT ![NewId] = Sub(r)]
          /\ image' = [image EXCEPT ![NewId] = NoPic]
          /\ Goto(r, [login[r] EXCEPT !.id = NewId], "insert")
       \/ \E i \in Owned(Sub(r)) :
             /\ UNCHANGED emby
             /\ Goto(r, [login[r] EXCEPT !.id = i], "insert")
    /\ UNCHANGED <<row, mark, moved, task, late, spent>>

\* InsertUser leaves the picture columns to their defaults.
InsertUser(r) ==
    /\ At(r, "insert")
    /\ \/ /\ row[Sub(r)] = None
          /\ row' = [row EXCEPT ![Sub(r)] =
                       [id |-> login[r].id, url |-> NoPic, age |-> "never", sure |-> r \notin met]]
          /\ Goto(r, login[r], "retry")
       \/ row[Sub(r)] # None /\ UNCHANGED row /\ End(r)
    /\ UNCHANGED <<emby, mark, moved, task, late, spent>>

\* A call of provisioning fails, which it may when another request created the
\* account first; or Emby refuses the sign-in after it.
Fail(r) ==
    /\ \/ At(r, "provision") /\ r \in met /\ Calm
       \/ At(r, "provision") /\ Disturb("refuse")
       \/ At(r, "insert") /\ Disturb("dbFail")
       \/ At(r, "retry") /\ Refused(r)
    /\ End(r)
    /\ UNCHANGED <<emby, row, mark, moved, task, late>>

\* Variant of ShouldSync: without the daily repetition.
ShouldSyncOnce(rec, u) == rec # None => rec.url # u

\* It judges by the record as it was read when the request came.
ShouldSync(rec, u) ==
    rec # None => \/ rec.url # u
                  \/ rec.age = "old"
                  \/ rec.age = "never" /\ rec.url # NoPic

\* The image is left alone without a picture; LoadOrStore takes the mark, or
\* finds it taken and gives up.
Decide(r) ==
    /\ At(r, "decide")
    /\ LET l == login[r]
           start == l.pic # NoPic /\ ShouldSync(l.rec, l.pic) /\ Sub(r) \notin mark
       IN  \/ /\ start
              /\ mark' = mark \cup {Sub(r)}
              /\ task' = [task EXCEPT ![r] = [pc |-> "post", id |-> l.id, pic |-> l.pic]]
           \/ ~start /\ UNCHANGED <<mark, task>>
    /\ End(r)
    /\ UNCHANGED <<emby, row, moved, late, spent>>

----------------------------------------------------------------------------
(* The goroutine.                                                           *)

TaskGoto(r, pc) == task' = [task EXCEPT ![r].pc = pc]

\* SetProfileImage: fetching the picture or posting it may fail; a post may
\* take effect although its answer is lost, or later than anybody waits.
SetProfileImage(r) ==
    /\ task[r] # None /\ task[r].pc = "post"
    /\ LET i == task[r].id
           u == task[r].pic
           posted == image' = [image EXCEPT ![i] = u] /\ UNCHANGED late
       IN  \/ Exists(i) /\ Calm /\ posted /\ TaskGoto(r, "update")
           \/ ~Exists(i) /\ Calm /\ UNCHANGED <<image, late>> /\ TaskGoto(r, "done")
           \/ Disturb("refuse") /\ UNCHANGED <<image, late>> /\ TaskGoto(r, "done")
           \/ Exists(i) /\ Disturb("lose") /\ posted /\ TaskGoto(r, "done")
           \/ /\ Disturb("late")
              /\ late' = late \cup {<<i, u>>}
              /\ UNCHANGED image
              /\ TaskGoto(r, "done")
    /\ UNCHANGED <<owner, row, mark, login, met, moved>>

\* Variant of UpdatePictureURL: the mark is given back before the statement.
UpdateUnmarked(r) ==
    /\ task[r] # None /\ task[r].pc = "update"
    /\ \/ /\ Sub(r) \in mark
          /\ mark' = mark \ {Sub(r)}
          /\ UNCHANGED <<row, task>>
       \/ /\ Sub(r) \notin mark
          /\ IF row[Sub(r)] = None THEN UNCHANGED row
             ELSE row' = [row EXCEPT ![Sub(r)].url = task[r].pic, ![Sub(r)].age = "recent"]
          /\ TaskGoto(r, "done")
          /\ UNCHANGED mark
    /\ UNCHANGED <<emby, login, met, moved, late, spent>>

\* UPDATE ... WHERE oidc_sub = :sub: whatever row the subject has by now.
UpdatePictureURL(r) ==
    /\ task[r] # None /\ task[r].pc = "update"
    /\ \/ /\ Calm
          /\ row[Sub(r)] # None
          /\ row' = [row EXCEPT ![Sub(r)].url = task[r].pic, ![Sub(r)].age = "recent"]
       \/ Calm /\ row[Sub(r)] = None /\ UNCHANGED row
       \/ Disturb("dbFail") /\ UNCHANGED row
    /\ TaskGoto(r, "done")
    /\ UNCHANGED <<emby, mark, login, met, moved, late>>

\* defer pictureSyncInFlight.Delete, however the goroutine ends.
Finish(r) ==
    /\ task[r] # None /\ task[r].pc = "done"
    /\ mark' = mark \ {Sub(r)}
    /\ task' = [task EXCEPT ![r] = None]
    /\ UNCHANGED <<emby, row, login, met, moved, late, spent>>

----------------------------------------------------------------------------
(* The surroundings.                                                        *)

\* A late post reaches Emby, which drops it when the account is gone.
Arrive(i, u) ==
    /\ <<i, u>> \in late
    /\ late' = late \ {<<i, u>>}
    /\ image' = IF Exists(i) THEN [image EXCEPT ![i] = u] ELSE image
    /\ UNCHANGED <<owner, row, mark, login, met, moved, task, spent>>

DeleteAccount(i) ==
    /\ Exists(i)
    /\ Disturb("delete")
    /\ owner' = [owner EXCEPT ![i] = None]
    /\ image' = [image EXCEPT ![i] = NoPic]
    /\ UNCHANGED <<row, mark, login, met, moved, task, late>>

\* The identity provider gives a subject another preferred name.
ChangeName(s) ==
    /\ Disturb("rename")
    /\ moved' = [moved EXCEPT ![s] = @ + 1]
    /\ UNCHANGED <<emby, row, mark, login, met, task, late>>

\* A day passes since the image of a subject was sent.
Age(s) ==
    /\ row[s] # None /\ row[s].age = "recent"
    /\ row' = [row EXCEPT ![s].age = "old"]
    /\ UNCHANGED <<emby, mark, login, met, moved, task, late, spent>>

Crash ==
    /\ Disturb("crash")
    /\ mark' = {}
    /\ login' = [r \in Logins |-> Idle]
    /\ met' = {}
    /\ task' = [r \in Logins |-> None]
    /\ UNCHANGED <<emby, row, moved, late>>

Handle(r) ==
    \/ SignIn(r) \/ Recover(r) \/ Provision(r) \/ InsertUser(r) \/ Fail(r) \/ Decide(r)
Run(r) == SetProfileImage(r) \/ UpdatePictureURL(r) \/ Finish(r)

Next ==
    \/ \E r \in Logins : Handle(r) \/ Run(r) \/ \E u \in Claims : FindUserBySub(r, u)
    \/ \E i \in Ids : DeleteAccount(i) \/ \E u \in Pics : Arrive(i, u)
    \/ \E s \in Subs : Age(s) \/ ChangeName(s)
    \/ Crash

Spec == Init /\ [][Next]_vars

\* Handlers and goroutines that can go on do, every call having a timeout; a
\* post on its way arrives; and time passes.
FairSpec ==
    /\ Spec
    /\ \A r \in Logins : WF_vars(Handle(r)) /\ WF_vars(Run(r))
    /\ \A i \in Ids, u \in Pics : WF_vars(Arrive(i, u))
    /\ \A s \in Subs : WF_vars(Age(s))

----------------------------------------------------------------------------

\* Emby's account of subject s shows u.
Shows(s, u) == row[s] # None /\ Exists(row[s].id) /\ image[row[s].id] = u

\* A picture the table names is the image Emby shows, whenever no goroutine is
\* at work.  After a change of name it need not be: overlapping requests of the
\* old and the new name leave the subject another account.
TableTellsImage ==
    \A s \in Subs :
        row[s] # None /\ row[s].url # NoPic /\ s \notin mark => Shows(s, row[s].url)

\* The mark makes posting and recording one unit: until something fails or a
\* name changes, the table names the image Emby shows whenever no goroutine is
\* at work, however sign-ins overlap, refuse and recover each other, replace
\* each other's rows and whatever pictures they carry.
RowTellsImage == spent = 0 => TableTellsImage

\* Whatever a failed or late post, a crash, a changed name, a recovery while a
\* goroutine was at work for the old account or a skipped change left behind, a
\* subject that keeps signing in with one picture, in the end one request at a
\* time, comes to be shown with it, and stays so.  Needs FairSpec.
ImageSettles ==
    \A s \in Subs, u \in Pics :
        /\ []<>(\E r \in Logins : Sub(r) = s /\ At(r, "decide"))
        /\ <>[](\A r, q \in Logins :
                  Sub(r) = s /\ Sub(q) = s /\ ~At(r, "idle") /\ ~At(q, "idle") => r = q)
        /\ <>[](\A r \in Logins : Sub(r) = s /\ ~At(r, "idle") => login[r].pic = u)
        => <>[]Shows(s, u)

\* "WHEN a user logs in and the X-Forwarded-Picture header contains a valid
\* URL, THE Bridge SHALL set that URL as the user's profile image in Emby".
SignInSetsImage ==
    \A r \in Logins, u \in Pics :
        At(r, "decide") /\ login[r].pic = u ~> Shows(Sub(r), u)
====
