# A verification project for emby-web-oidc-bridge

The bridge stands between an OIDC proxy and an Emby media server. It takes the
subject of a signed-in person from the request, keeps an Emby account with a
generated password for it, signs in to Emby with that password and proxies the
request with the session token it got. This directory holds TLA+ models of
that program, configurations that check them with TLC, and proofs checked with
TLAPS.

- [The system](#the-system): its parts, their state, how they interact, what is hard
- [The modules](#the-modules): what is modelled and how it corresponds to the code
- [The runs](#the-runs): what TLC checks, with which bounds and fairness
- [The proofs](#the-proofs)
- [Where code and documents disagree](#where-code-and-documents-disagree)
- [What is not modelled, and the plan](#what-is-not-modelled-and-the-plan)

## The system

| Part | Code | State | Operations |
|---|---|---|---|
| Auth middleware | `internal/middleware/auth.go` | the locals of each request | per request: claims, cache check, row lookup, name synchronisation, adopt or create, password, policy, row, sign-in, recovery, cache store |
| Session cache | `auth.go:23-53` | subject -> token, user, expiry | load, delete when expired, delete in recovery, store, `InvalidateSession` |
| Emby API client | `internal/emby` | none (a 30 s timeout) | one HTTP call per operation, `UpdatePassword` up to three |
| User database | `internal/db/sqlite.go` | table `users`: subject -> account id, password, picture | find, insert, delete, update picture |
| Schema migration | `sqlite.go:72-144` | `user_version`, table layout | upgrade 1.2.0 to v2 |
| Reverse proxy | `internal/handler/proxy.go` | none | forward with the token; a 401 evicts the session |
| Web page | `internal/handler/autologin.go` | none | fetch Emby's page, insert the cached session |
| Account page | `internal/handler/account.go` | none | show name and stored password |
| Image synchronisation | `auth.go:573-605` | `pictureSyncInFlight` | goroutine: download, upload, update row |
| Policy enforcement | `auth.go:607-652` | none | goroutine: read, compare, post |
| Trusted proxies, configuration | `middleware/proxy.go`, `internal/config` | none after start | match the peer against networks |
| Startup, shutdown, health | `cmd/bridge/main.go`, `handler/health.go` | none | wait for Emby, serve, stop |
| Emby | outside the repository | accounts, tokens | what the client calls |

**How they interact.** Every HTTP request runs in a goroutine of its own. Auth
calls the client and the database one after the other and holds no lock in
between: state it read may have changed by the time it acts on it. Emby and the
table are two stores without a common transaction. The cache is shared by all
requests, the proxy deletes from it when Emby answers 401, and two background
goroutines started by a sign-in talk to Emby (and to the table) after the
request is over. A restart loses the cache and every request under way.

**What is hard.** Two requests of one subject (a browser opens several
connections) provision or recover at once. Any call may fail, or take effect
and fail. The process may stop between the call that changes Emby and the
statement that records it. An administrator deletes, disables or changes an
account at any moment. Account ids identify accounts in the table, names
identify them when signing in, and names move. `PROJECT.json` lists these
hazards, each at its line, with the properties aimed at it.

**What makes each part correct.**

- Auth: the stored password is Emby's; accounts of different subjects stay
  separate; whatever a failure leaves behind is repaired by the next logins; a
  person does not get a second account or lose a good password without need.
- Session cache: a cached session is one of the account in the row, is not
  handed on for longer than its time to live, and one that has ended is not
  served for ever.
- Client: a call that reports success has taken effect (the converse fails).
- Database: one row per subject; a row is deleted only when it is stale.
- Migration: a crash or a failed statement anywhere loses no row and leaves a
  file the next start can open.
- Image goroutine: the row names the image Emby shows, and a subject that keeps
  signing in comes to be shown with its picture.
- Policy goroutine: the enforced fields settle, and no stale setting of an
  administrator comes back.
- Claims: the account page is about the person Auth signed in.
- Trusted proxies: a peer is accepted exactly when an entry of the list names it.
- Startup and shutdown: waiting ends in time; no statement waits for ever for a
  connection, and no connection is lost; the process stops.

## The modules

Each component that changes state by itself has a specification of its own;
where components only matter to each other through what one reads of the other,
the other is in the module as far as it is read.

    EmbyServer      accounts and tokens of Emby (external)
      EmbyClient    the calls of internal/emby/client.go and how they fail
        UserDB      the table "users"
          AuthMiddleware          Auth and Proxy, requests interleaving
            AuthMiddleware_proofs   types, accounts separate, stored password
              AuthLinks_proofs      ledger, sessions, names
    CredentialLedger                what AuthMiddleware implements

    TrustedProxies                  the list, and the check of a peer
      ClaimResolution               who is asking: Auth and the account page
        ClaimResolution_proofs

    SessionCache                    cache, page and proxy routes with a clock
      SessionCache_proofs
    PolicyEnforcement               sign-in, goroutine, administrator
      PolicyEnforcement_proofs
    PictureSync                     sign-in, goroutine, late posts
      PictureSync_proofs
    Lifecycle                       main, the connection pool, shutdown
      Lifecycle_proofs
    SchemaMigration                 db.Open, statement by statement
      SchemaMigration_proofs
    UserStore                       what SchemaMigration implements

A module `EXTENDS` the one it is indented under; `AuthMiddleware` and
`SchemaMigration` instantiate their abstract specifications with a refinement
mapping. `MCAuth`, `MCClaims`, `MCSession`, `MCPolicy`, `MCPicture`,
`MCLifecycle` and `MCMigration` give the constants values for TLC.
A definition whose comment begins with "Variant of" is a mutation of the operation
it names and belongs to no specification.

### AuthMiddleware

| Model | Code |
|---|---|
| `users`, `valid` | Emby's accounts (name, password, disabled) and the tokens it accepts |
| `db` | table `users`: `id` is `emby_user_id`, `pw` is `password` |
| `cache` | `sessionCache`; `fresh` says `time.Now().Before(expiresAt)` |
| `req[r]` | one browser connection's request: `pc` is the call it makes next, the other fields are Auth's locals (`name` is `embyUsername`, `rec` is `record`, `id` is `embyUserID`, `pw` is `userPassword`, `sess` is `authResult` or the cached session, `was` is `embyUser.Name`, `made` says that `CreateUser` ran) |
| `spent` | how many disturbances have happened (bound of the runs) |

One action is one call of the handler to Emby, to the database or to the cache,
together with everything the handler does until the next one; so two requests
interleave exactly where the goroutines can. The actions, in the order of the
code: `Arrive`, `LoadSession`, `EvictExpired`, `FindUserBySub`; for a subject
with a row `GetUser`, `CheckName`, `Rename`; without one `Lookup`, `Create`,
`GetForPassword`, `ResetPassword`, `SetPassword` (the three calls of
`UpdatePassword`), `UpdatePolicy`, `Insert`; then `Authenticate`; in recovery
`DropSession`, `Recheck`, `DeleteRow` and again the steps from `Create` on, which
differ where the code differs (re-adoption posts a policy whose failure is only
logged, a first adoption posts none); `StoreSession`, `Forward`, `Invalidate`.
`rec # None` distinguishes recovery from provisioning, as `record != nil` does.

Each call to Emby goes through `EmbyWrite` or `EmbyRead`: it is answered,
rejected because Emby cannot do it, *refused* (an error and no effect) or *lost*
(an error and the effect). The surroundings are `Expire` (the clock passes
`expiresAt`), `Administer` (an account is deleted, disabled, given a password,
or its sessions end), `Reenable` (the effect of the policy goroutine, or an
administrator's) and `Crash`.

Abstractions, and why they lose nothing the properties look at:

- Claims: a request arrives with its subject and any one of the names the
  subject may have. `ClaimResolution` has how they are found; a request without
  a subject or a name is answered 401 before it touches anything.
- Passwords, tokens and ids are compared and never inspected. `Draw` picks
  *one* fresh value of those nobody holds, since fresh values are
  interchangeable; proofs hold for every `Draw`. That two generated
  passwords differ is the assumption `FreshPasswords` states.
- A token nobody in the bridge holds is forgotten.
- Names are equal or different, as `FindUserByName` compares them; that Emby may
  take two spellings for one name is left out.
- A lost call takes effect before its caller sees the error. Posts that take
  effect even later are in `PolicyEnforcement` and `PictureSync`.
- A failed reset with status 400 has no effect and is ignored (`badReset`).
- A database statement succeeds or fails as a whole; an insert whose
  commit succeeds and whose answer is lost does not occur, SQLite being in the
  process.
- Nothing Auth decides reads the image columns or the policy but `IsDisabled`;
  they are in modules of their own.
- Only the bridge renames accounts, and administrators create no accounts
  while it runs: `InitialNames` are the accounts there are before.

**CredentialLedger** says what a person is promised: a subject is linked to at
most one account and to that account's password, an account to at most one
subject, and a password changes only while nobody is linked to the account. Its
variables are functions of `AuthMiddleware`'s: `link` is the row, `pwOf` Emby's
password. Most steps of a request are stutters; the deletion of the row has to
be seen before any step changes the password.

### SessionCache

The three routes behind Auth (page, call, logout) for one subject, and the
clock. `cache.since` counts from the store, as `expiresAt` does; `age` is the time
since Emby issued the token, which the code does not know. Of Auth only the cache
operations and the outcome of a sign-in are here: it may be refused with a row, upon
which recovery deletes the cached session (`DropSession`) and signs in once more.
`InjectCredentials` hands the session to the page without asking Emby, `Proxy` learns
that it has ended, `InvalidateSession` deletes what is cached *by then*. Ages stop
counting at
`MaxAge`, past which no property tells them apart.

### PolicyEnforcement

A policy is `disabled`, `prefs` (`EnableUserPreferenceAccess`) and `rest`: where the
other fields come from (template, `Users/New`'s copy, an administrator, left
out of a post). `Posted` says what the two posts of the code make of it:
`buildUserPolicy`'s whole policy and the goroutine's two fields. A post may
fail, take effect and fail, or arrive after its sender gave up (`late`). An
administrator saves settings at any moment. Whether Emby keeps the fields that a post
omits or takes them for false is left open, since the code's comment (`auth.go:636`) and
the README do not agree on it: `OmittedKept` is the set of answers, both in the run and
in the proofs.

### PictureSync

A row has the picture columns (`url`, and `age` for `picture_synced_at`: never,
recent, older than 24 hours), Emby an image per account, `mark` is
`pictureSyncInFlight`. The sign-in reads the record at the start and decides by
it at the end; the goroutine posts, updates the row and gives the mark back in
three steps; recovery, adoption, creation, deletion, crashes and late posts
happen in between.

Names and passwords are not here, but which sign-ins they let Emby refuse is. Two
requests of one subject that overlap reset each other's password, so each of them
(`met`) may be refused with nothing failing, any number of times, and recover; so
may a request whose row such a request inserted (not `sure`), or whose account is gone
(`MayBeRefused`). A request on its own with a row inserted by one on its own is refused
only as a disturbance: that is `RowMatchesEmby` and `RecoversOnlyClosed`. Accounts belong to
the subject whose name they carry (`owner`). While the name stays, recovery and adoption
find the subject's account, or create one if there is none. For every change of name
(`ChangeName`) there may be one account more, and overlapping requests of the old and
the new name may find any of them: which one a name leads to is left open.

### SchemaMigration and UserStore

`disk` is the file as the next process would find it, `work` the transaction's
view, `pc` the next statement. Statements outside the transaction commit by
themselves (`Autocommit`), those inside only stage (`Stage`). A statement may
fail (the process ends, the transaction is rolled back), `table_info` may fail
(the code ignores it), the process may be killed anywhere. `UserStore` is the
abstract upgrade: rows never change by it, and a bridge serves only with a table.

### TrustedProxies and ClaimResolution

Addresses are bits, of one of two lengths, and the longer ones that begin with
`MapPrefix` map the shorter ones; `To4`, `Mask` and `Contains` are what
package net does, `ParseEntry` and `IsIPTrusted` the code. The networks parsed are a
set, since the check asks only whether one of them has the peer. The reference `Lists`
is another definition: every address written as an IPv6 one, an entry lists
those that begin with its bits. `ClaimResolution` puts `Auth` and `Account` behind the
check (`Guarded`, the routes of `main`) and has, for each of the two, the order in
which headers and tokens are read and how a token decodes: Auth decodes
one struct with all claims and the page one claim per struct, so a claim that
is not a string fails more in Auth than in the page. `embyName` is the name Auth signs in with:
the preferred one for a new subject, and any for one with a row, since Auth keeps
Emby's name where a rename is refused or fails (`auth.go:285-308`).

### Lifecycle

`main` from `config.Load` to the deferred `Close`: the wait for the template with
its deadline, one tick standing for five seconds (budget 12, call 6, pause 1, drain
3). While it serves, handlers and image goroutines take connections of the pool
and give them back. `Shutdown` waits for handlers and knows nothing of goroutines;
`Close` waits for all connections. A process that ended is started again.

## The runs

| Run | Instance | Properties |
|---|---|---|
| `auth_sequential` | 1 subject with 2 names, 1 connection, 5 ids, 3 disturbances of any kind, fair | `TypeOK`, `RowMatchesEmby`, `CachedSessionHasRow`, `SelfHeals` |
| `auth_two_subjects` | 2 subjects with disjoint names, a connection each, 4 ids, 1 disturbance | `AccountsSeparate`, `ImplementsLedger` |
| `auth_overlap` | 1 subject with 1 name, 2 connections, 4 ids, 1 deletion, password of an administrator or lost answer, fair | `SessionOfLinkedAccount`, `SelfHeals` |
| `auth_answered` | 2 subjects with disjoint names, one of which is taken at the start, a connection each, 4 ids, 1 disturbance other than a failed call to Emby | `KeepsAccount`, `RecoversOnlyClosed` |
| `session` | 2 connections, 4 tokens, TTL 2, delay 1, 2 sessions ended, 1 failed call, fair | `TypeOK`, `HandedOnInTime`, `PageRecovers` |
| `policy` | 2 connections, 2 administrator's settings, any policy or none before, omitted fields kept or not, 3 disturbances, fair | `TypeOK`, `SettingsNotStale`, `ServedWithTemplate`, `PolicySettles` |
| `picture` | 1 subject, 2 connections, 2 pictures, 3 ids, 1 disturbance, fair | `TypeOK`, `RowTellsImage`, `ImageSettles` |
| `migration_faults` | 2 subjects, 2 values, no file or any 1.2.0 file, 3 faults, fair | `TypeOK`, `RowsKept`, `ImplementsStore`, `GetsOpen` |
| `admission` | addresses of 1 and 3 bits, lists of one entry or of one among some others, all peers; all combinations of headers with some pairs of tokens | `TypeOK`, `AcceptedIffListed`, `AccountOfSignedIn`, `OnlyListedReachHandlers` |
| `lifecycle` | 2 handlers, 1 goroutine, 2 connections, the code's deadlines, fair | `TypeOK`, `GivesUpInTime`, `NoConnectionLost`, `StatementsServed`, `Stops` |
| `race_credentials` | 1 subject, 2 connections, no disturbance | `CredentialsUsable` is violated |
| `policy_readopted` | an account set up by an administrator, who disables it | `AdminSettingsKept` is violated |

What they show:

- `RowMatchesEmby`: when requests of a subject do not overlap, a row
  never holds a password Emby does not know, because the password is set
  before the row is inserted and the row is deleted before the password is
  reset. `SetPassword` may fail, the process may stop, an answer may be lost.
- `CachedSessionHasRow`: a cached session is one of the account in the row.
- `AccountsSeparate`: adoption by name never leads one subject to another's
  account as long as the identity provider keeps names apart.
- `ImplementsLedger`: every step of the code is a step of the ledger or none.
- `SessionOfLinkedAccount`: the sign-in by name ends at the account set up by
  id, even while another request finds that account deleted and creates one of the
  same name. (`auth_overlap_names` checks it in a minute for a subject that changes
  names, so that requests rename under each other as well.) The password is
  what ties the two: with a generator that repeats itself it fails.
- `KeepsAccount`: names change, and recovery finds accounts by name; still a linked
  subject stays with its account as long as that exists. `RecoversOnlyClosed`: no name
  makes Emby refuse a sign-in, so recovery, which throws a password away, starts only if
  the password does not open the account. Both need Emby to answer every call
  (`CallsAnswered`); `no_duplicate` and `password_kept` show what happens when it does not.
- `SelfHeals`: a subject that has only one request under way at a time gets
  served, over and over, whatever state earlier failures or races left.
- `HandedOnInTime`: a session that a request hands on was issued less than TTL
  ago, plus the time of two requests: the one that stored it, since the entry's
  time starts then, and the one that found it, which checked once.
- `PageRecovers`: a page may be given a session Emby has ended, since nobody asks; a
  browser that keeps calling as well finds out, and in the end pages get only
  tokens that work.
- `SettingsNotStale`: the goroutine posts two fields, not the policy it read, so
  what an administrator has replaced between read and post never comes back, whether Emby
  keeps the omitted fields or resets them. That they *stay* is another matter
  (`AdminSettingsKept`, see below).
- `ServedWithTemplate`: creation may stop before the policy is posted, and a later
  adoption posts none; the disabled template is what keeps such an account from
  being let in, since Emby refuses it and recovery posts the policy.
- `PolicySettles`: whatever failed, arrived late or was changed, the goroutines of
  later sign-ins bring the two enforced fields where they belong.
- `RowTellsImage`: until something fails or a name changes, the mark makes post and
  update one unit, however many overlapping sign-ins refuse and recover each other.
  `ImageSettles`: after failures and changes of name the 24-hour repetition repairs
  what the record gets wrong; without it a late post could stay for ever. As for
  `SelfHeals`, requests of the subject must in the end not overlap: two that keep
  recovering each other keep replacing the row.
- `RowsKept`, `GetsOpen`, `ImplementsStore`: the migration in front of any fault.
- `AcceptedIffListed`, `OnlyListedReachHandlers`: claims are taken from listed
  peers only. `AccountOfSignedIn`: the page, which reads the claims with code of its own,
  shows the row of the subject Auth signed in, under the preferred name Auth read. It
  is not always the name Auth signs in with (`page_name` below).
- `GivesUpInTime`: the startup wait ends within the deadline, one attempt and
  one pause. `StatementsServed`, `Stops`: `Take` without a deadline is harmless
  since nobody waits while holding a connection. `NoConnectionLost`: each task gives
  back what it took and nothing else, also when it fails, is interrupted or finds the
  pool closed; `Close` would wait for a lost connection for ever.

**Bounds.** In the passing runs of `AuthMiddleware` Emby starts with one account
that carries one of the names, so that adoption, refused renames and creation
all occur. Three disturbances let a failure hit a recovery that a failure started,
and once more the repair of that. Ids, passwords and tokens are
as many as the rows, requests, sessions and accounts of the instance can hold
at once and one more, so that a fresh one always exists and no behaviour is cut
short: a request that could not draw one would stop, and `SelfHeals` would
fail. Two connections show every pairwise race; with more disturbances or names the
instance grows past what is practical for liveness. In
`auth_answered` one disturbance is enough to start a recovery while the other
subject's request moves a name; the failures that start one otherwise are excluded there.
In `session`, four tokens are one per connection, one cached and a fresh one;
TTL 2 and delay 1 let an entry expire while a request holds it. In `policy`,
three disturbances let a post be late, an administrator disable the account and a
call of the repair fail; with two settings a change after a change can be told
apart. In `picture`, a single disturbance meets two overlapping sign-ins with
different pictures, whose refusals of each other are not counted; three ids allow for
an account that is gone, one adopted and one created (a request that provisions always
finds a fresh one).
In `migration_faults`, three faults allow one in each of three
successive starts. In `admission`, the prefix of the addresses that map IPv4 ones is 01,
so that prefixes of entries end before, in, at and past it, and a mask can cut off its
last bit or leave it; the other entry of a list is an empty one, a bad one or a
network of everything, which shows that order and company do not matter; in the cases about
claims one of the two subjects has a row at first and the other has none. In `lifecycle`, three tasks compete
for two connections, and `MaxTime` lies past the latest time at which waiting
can end.

**Fairness.** `FairSpec` of each module: a handler, goroutine or `main` that can
go on does. Every call to Emby has a timeout (`NewClient`, 30 s), handlers and
goroutines run in goroutines of their own, and the Go scheduler starves none.
Nothing is assumed of Emby's answers, of administrators or of browsers: that a
browser keeps asking, keeps one picture, or is the only one from some point on
is a premise of the property. The clock is assumed to go on where a property needs it
(`Age` in `PictureSync`, `Tick` in `Lifecycle`). A post on its way arrives, since the
network either delivers or drops it, and a dropped one is a refused one. In
`SchemaMigration` and `Lifecycle` a process that ended is started again, as
the `restart: unless-stopped` of `examples/*/docker-compose.yml` has it. `Take` is strongly fair in `Lifecycle`, since
`sqlitex.Pool` hands connections out through a channel, first come first served.
`RetrySpec` of `AuthMiddleware` also makes every browser ask again once it is
answered; only the configuration `race_livelock` uses it, whose counterexample
needs no less. Failures are finite because disturbances are counted.

Every run is checked for deadlock.

Each property of a passing run has a mutant in `PROJECT.json`: a change to a
modelled operation, of the kind a slip in the code would be, that makes TLC
report the property violated.

## The proofs

The theorems hold for every value of the constants that satisfies the named
assumptions. Those are types and sentinels (`None` is no value and no record), that
Emby's names are unique at the start (`InitialNamesAssumption`), that `Draw` picks some
of the values it is given (`DrawAssumption`), that tasks are finitely many
(`TasksAssumption`), that IPv4 addresses are shorter than IPv6 ones
(`LengthsAssumption`) and that the prefix of mapped addresses ends in a 1, as
`::ffff` does (`MapPrefixAssumption`).

| Module | Theorem | States |
|---|---|---|
| `AuthMiddleware_proofs` | `TypeCorrect` | `Spec => []TypeOK` |
| | `Separation` | `DisjointNames /\ Spec => []AccountsSeparate` |
| | `StoredPasswordIsEmbys` | `Sequential /\ DisjointNames /\ Spec => []RowMatchesEmby` |
| | `NamesApartLinkOnce` | `DisjointNames /\ Spec => []LinkedOnce` |
| | `OneAtATimeCredentialsUsable` | `Sequential /\ DisjointNames /\ Spec => []CredentialsUsable` |
| `SchemaMigration_proofs` | `TypeCorrect` | `Spec => []TypeOK` |
| | `MigrationRepeatable` | `Spec => [](pc = "create" => disk.users_v2 = None /\ disk.users # None)` |
| | `OpenKeepsRows` | `Spec => RowsKept` |
| | `MigrationImplementsStore` | `Spec => ImplementsStore` |
| | `ServesUpgraded` | `"tableInfo" \notin Faults /\ Spec => []OpensUpgraded` |
| `SessionCache_proofs` | `TypeCorrect` | `Spec => []TypeOK` |
| | `NeverTooOld` | `Spec => []HandedOnInTime` |
| `PolicyEnforcement_proofs` | `TypeCorrect` | `Spec => []TypeOK` |
| | `NoStaleSettings` | `Spec => []SettingsNotStale` |
| | `NobodyHalfMade` | `DisabledTemplate /\ Spec => []ServedWithTemplate` |
| `ClaimResolution_proofs` | `TypeCorrect` | `Spec => []TypeOK` |
| | `AcceptsWhomListed` | `Spec => []AcceptedIffListed` |
| | `OnlyListedServed` | `Spec => OnlyListedReachHandlers` |
| | `SamePersonShown` | `Spec => []AccountOfSignedIn` |
| `PictureSync_proofs` | `TypeCorrect` | `Spec => []TypeOK` |
| | `RowsTellImages` | `Spec => []RowTellsImage` |
| | `MarkTellsWork` | `Spec => []MarkInv` |
| `Lifecycle_proofs` | `TypeCorrect` | `Spec => []TypeOK` |
| | `WaitsNoLonger` | `Spec => []GivesUpInTime` |
| | `ConnectionsAccounted` | `Spec => []NoConnectionLost` |
| | `WaitsForAStatement` | `Spec => [](free < PoolSize => \E t \in Tasks : task[t] = "statement")` |
| `AuthLinks_proofs` | `FlowImplementsLedger` | `Sequential /\ DisjointNames /\ Spec => ImplementsLedger` |
| | `SignInIsLinked` | `Spec => []SessionOfLinkedAccount` |
| | `CachedIsLinked` | `Sequential /\ Spec => []CachedSessionHasRow` |
| | `LinkedKeepAccount` | `Sequential /\ DisjointNames /\ CallsAnswered /\ Spec => []KeepsAccount` |
| | `AnsweredMakesNoDuplicate` | `Sequential /\ DisjointNames /\ CallsAnswered /\ Spec => []NoDuplicateAccount` |
| | `RecoveryIsNeeded` | `Sequential /\ DisjointNames /\ CallsAnswered /\ Spec => RecoversOnlyClosed` |

`DisjointNames` is a condition on the identity provider and `Sequential` one on
the browser; `linked_once` and `race_credentials` show that neither
can be dropped, `no_duplicate` and `password_kept` the same of `CallsAnswered`
(no call to Emby fails without an answer of Emby's; the database may fail, the
process stop and an administrator interfere), `policy_template` the same of
`DisabledTemplate`, `migration_table_info` of the condition of `ServesUpgraded`.

*AuthMiddleware, types.* `TypeOK` is not inductive: the answer of `GetUser` has a type
only if the request has an account id by then. `TypeInv` adds `LocalsSet`, which
says for every step which locals are set. One lemma (`HandleKeepsType`) goes
through the handler's actions, with small lemmas on the ways a request
moves (`GotoOK`, `ReplyOK`, `AdoptOK`) and on Emby's operations.

*Separation.* `SeparateInv` adds two facts. `NamesOwn`: a request works with
names its subject may have. `ClaimsNamed`: the accounts a subject has hold of, by
row, cached session or locals, carry its names while they exist. An account
adopted by name then carries a name of the subject, so with disjoint names it is
claimed by no other subject; a created one has an id nobody claims. `SeparateStep`
says this once for a step that gives one subject more accounts, and
`MoveKeepsSeparate` for the shape all actions of the handler have.

*Stored password.* `RowInv` adds `ReadyToInsert`: from the lookup to the insertion
the subject has no row, and what is about to be inserted is what Emby has.
`Separation`'s invariant is needed as well: the password of an account in a
row of one subject is not changed by a request of another.

*Ledger.* The two invariants above suffice. A password changes in `Create`,
`ResetPassword` and `SetPassword`, whose account is new or claimed by a subject
without a row and so in no row (`ClaimedIsUnlinked`): that is
`ChangePassword`. `Insert` is `LinkTo`, `DeleteRow` is `Unlink`, an administrator's
deletion or new password is `Intervene`; every other step is a stutter.

*Sessions.* `OwnerInv` is about passwords instead of accounts and needs neither
condition: a generated password belongs to at most one account, where "belongs"
means that Emby, a row or the locals of some request pair them (`Belongs`), and
one that a request has generated for an account still to be created belongs to
none (`Awaits`). Recovery is the delicate part: between the second lookup and
the deletion a request has the new account and the old password, which
`GoesWith` does not take for a pair. Signing in by name with a password then
yields the account paired with it. `LinkInv` says what a request can count on
about its subject's row and session (`Linked`): the session is gone from the
lookup of the row to the store, and the row read is still there until recovery
deletes it.

*Names and recovery.* Recovery has a row's id and looks for a name. `NameInv` says that
Emby's names are unique and that the name a request works with is, at every
step at which it counts, that of the account in the record it has read: up to
the lookup of the rename the account has the name `GetUser` gave, from the sign-in on
the one the request uses, whether the rename was made, refused or not needed.
Another subject's request renames none of its accounts (by `Separation`'s
invariant), and one step gives a name to at most one account, one nobody else has
(`NamesStep`). So if the account is still there, the second lookup finds it and no other
(`LinkedKeepAccount`), nothing is created beside it, and a refused sign-in
was refused for the password or a disabled account, since `LinkInv` has the
row still as it was read.

*SchemaMigration.* `MigrationInv` adds to the types what each statement finds:
`WorkInv` relates the transaction's view to the file (from the copy on it holds
the file's rows in one of its two tables, and at the commit in `users`), and a file
between starts never has a `users_v2`. Rows then change neither by a
commit nor by a rollback. `LayoutInv`, which needs that `table_info` does not fail, says
that a version of 2 is written only over a table in the new layout. For the
refinement each statement is a stutter of `UserStore` but the creation of the
table and the commit, which are `Upgrade`, the last statement, which is
`Serve`, and ends, which are `Stop`.

*SessionCache.* `AgeInv` bounds the age of every token the bridge has, by where it
is: in a request that has just signed in by that request's ticks, in the cache by
`since` and one request, in a request that found it by both.

*PolicyEnforcement.* One lemma says of every step what it may do to policy, tasks
and posts (`Effect`); it is the step of both invariants. `SettingsInv` says the
other fields, if they are an administrator's, are as last saved; `TemplateInv` that an
account still as `Users/New` made it is disabled, and that while a goroutine or a
late post of the two fields is about an account, the account is no longer so.

*ClaimResolution.* `DecodeAlone`: a claim that decodes with others decodes
alone to the same. So, whenever Auth accepts, the page finds the same
subject and preferred name (`SamePerson`), and there is a row, whatever name Auth signed in with.

*TrustedProxies.* Both the code's comparison and the reference become one
statement about bits: two addresses written as IPv6 ones agree up to the n-th bit.
Writing an IPv4 address out and taking it back are inverse (`AsV6Bits`, `To4Bits`),
and only one of the two forms maps (`OneFormOfEach`). The delicate case is a network in
IPv6 form that the mask leaves or cuts: with fewer bits than the prefix it no longer maps,
since the prefix ends in a 1, and lists no IPv4 address; with at least as many it
is compared as an IPv4 network with the rest of its bits (`MaskedMaps`). A plain
address is a network that lists itself (`PlainListsItself`). No induction on
lists or addresses is needed: the networks parsed are those of the entries, and
addresses are functions on their bits.

*PictureSync.* `MarkInv`: a subject is marked exactly while one of its
goroutines is at work, and there is at most one. `SameAccount`: what a row, a
sign-in past the insertion and a goroutine of one subject have is the same existing
account. `ImageTold`: between post and update Emby shows the goroutine's picture,
otherwise the row's. The last two hold until something is disturbed (`CalmInv`).
Recovery replaces a subject's row any number of times meanwhile: since the account it finds
is the subject's only one, the goroutine at work for the old row posts to the account of
the new one. The new row names no picture until then, and the
goroutine that has posted one records it, so `ImageTold` excepts nothing but
its own two steps.

*Lifecycle.* `NoConnectionLost` is inductive with the types: the free connections and the
tasks in a statement are as many as the pool has. So, when the pool is empty, some task is in
a statement, which ends: `WaitsForAStatement` is the safety half of
`StatementsServed` and `Stops`. `WaitInv` bounds the time of each step of the wait by the budget and what
the present call or pause has taken.

Every safety property of a passing run is a theorem, of which some need the conditions above. Liveness (`SelfHeals`,
`PageRecovers`, `PolicySettles`, `ImageSettles`, `GetsOpen`, `StatementsServed`, `Stops`)
is out of the prover's reach, as are `ENABLED` and induction over data, and stays
with TLC.

## Where code and documents disagree

Two runs are listed as expected violations: the two that matter most to a user.
The other disagreements met while modelling have configurations of their own, which
`tlc -workers 2 -config <name>.cfg <module>` refutes in seconds; the
counterexamples are short enough to be turned into tests.

| Configuration, module | What is said | What happens |
|---|---|---|
| `race_credentials`, MCAuth (run) | account page: "Use these credentials to sign in on Emby TV and mobile apps" (`account.go:42`) | two overlapping first requests; the second adopts the account the first has just created and resets its password; the row keeps the other password |
| `policy_readopted`, MCPolicy (run) | "The bridge will not overwrite them." (`README.md:70`) | an administrator disables an account; the refused sign-in starts recovery, which posts the template's whole policy over the administrator's settings |
| `race_delete`, MCAuth | "Delete stale DB record." (`auth.go:441`) | the second of two recoveries deletes the row the first has inserted: the deletion is by subject only |
| `race_livelock`, MCAuth | "Re-provisions user if Emby auth fails" (`.kiro/steering/project-context.md:59`) | two connections that keep asking undo each other's recovery for ever, with no other failure |
| `password_kept`, MCAuth | "SHALL use the existing stored password and SHALL NOT generate a new password" (`requirements.md:65`) | one failed sign-in call, a timeout for instance, replaces a right password, and apps that use it are signed out |
| `no_duplicate`, MCAuth | "username/email changes don't create duplicates" (`README.md:39`) | `GetUser` fails while the name changes: the sign-in under the new name fails, and recovery creates a second account |
| `linked_once`, MCAuth | "If the preferred username is already taken by another Emby user during account creation, provisioning fails." (`README.md:147`) | the account is adopted, also when it is linked to another subject; the two then keep replacing each other's password |
| `policy_omitted`, MCPolicy | "The bridge will not overwrite them." (`README.md:70`) | if Emby takes omitted flags for false, as the comment at `auth.go:636` says, the goroutine's post of two fields resets all others |
| `policy_template`, MCPolicy | "On user creation: The template user's full policy is applied" (`README.md:61`) | with a template that is not disabled: creation stops after `CreateUser`, the next login adopts the account and posts no policy |
| `session_page`, MCSession | "This ensures credentials are always fresh on every page load" (`autologin.go:176`) | the page is given the cached session whether or not Emby accepts it |
| `session_logout`, MCSession | "evicted on logout or Emby 401" (`AGENT.md:58`) | a logout that succeeds is no 401: the ended session stays cached |
| `session_ttl`, MCSession | "15-minute TTL per OIDC sub" (`AGENT.md:58`) | it is an hour (`auth.go:37`) |
| `picture_skipped`, MCPicture | "WHEN a user logs in and the X-Forwarded-Picture header contains a valid URL, THE Bridge SHALL set that URL" (`requirements.md:100`) | a changed picture is skipped while the old one is being synchronised, until the next sign-in |
| `picture_renamed`, MCPicture | "SQLite keeps only the Emby link, credentials, and picture sync state." (`README.md:145`) | overlapping sign-ins while the name changes: recovery creates an account under one of the names, and the goroutine at work for the other account records its picture in the new row, whose account has none; until the next day's repetition |
| `page_name`, MCClaims | "Use these credentials to sign in on Emby TV and mobile apps" (`account.go:42`) | the page shows the preferred name also where Emby has kept another, because a rename was refused or failed; name and password do not belong together |
| `migration_table_info`, MCMigration | "migrateSchema upgrades a 1.2.0 database" (`sqlite.go:72`) | an error of `table_info` is taken for a missing column: version 2 is written over a 1.2.0 table, which is never migrated |
| `lifecycle_deadline`, MCLifecycle | "Timeout after 60 seconds" (`main.go:51`) | the deadline is looked at between attempts: up to 95 seconds |
| `proxies_zone`, MCClaims | "the IP SHALL be accepted if and only if it matches at least one entry in the list" (`design.md:447`) | the address of a link-local IPv6 peer has a zone, which `ParseIP` refuses |

`race_credentials`, `race_delete`, `race_livelock` and `picture_renamed` need overlapping requests of
one subject; `password_kept` and `no_duplicate` a single failed call. A lock per subject
around the part of Auth after the cache check, and telling a refused password
from a failed call, would remove the first three and the last two and `policy_readopted`'s worst case.

## What is not modelled, and the plan

- The userinfo request (`auth.go:207-235`) supplies a picture URL or fails; it is
  any picture of a sign-in in `PictureSync`.
- The account page composed with the names of Emby: `ClaimResolution` takes any name for
  the one a linked subject is signed in with. Which of them Emby can have kept is in
  `AuthMiddleware`, which would need the page as one more route.
- The template user's id and policy are read once at start and constants here; a
  template that is deleted or changed later takes effect at the next restart.
- `AutoLogin` and the client's `UpdatePolicy` are called by nothing in the
  program. The other configuration values are copied once. Header and path
  rewriting in the proxy, page templates, logging and the choice of a password's
  characters change no state.
- Several subjects with images at once: `PictureSync` allows for them, the run
  has one, since a mark and a row belong to one subject.

The safety properties of the runs are all proved. What is left to prove is more of
what the liveness properties rest on, as `WaitsForAStatement` and
`MarkTellsWork` are: for `SelfHeals`, that a request that runs alone and is answered
repairs the row whatever the state it found. What is left to model is named above.
