# A verification project for pk-modules

pk-modules is a set of Go libraries for small multi-tenant admin back ends: each
package under `src/pkg` is a module with its own tables (SQLite or Postgres), an
HTTP handler and a service, and the host application composes them. This
directory holds TLA+ specifications of the parts whose correctness depends on
what happens *between* the statements of that code, TLC configurations that
check small instances of them, and TLAPS proofs for instances of any size.

Contents: [the system](#the-system), [modules](#the-modules),
[runs](#what-is-checked), [proofs](#what-is-proved),
[disagreements](#where-code-and-documents-disagree),
[limits](#what-is-not-modelled), [plan](#plan).

## The system

No module keeps state of importance in memory: the state is rows in a database
that every process of the host shares, and every operation is one to three
statements on it without an enclosing transaction (the migration runner is the
exception). So the hard behaviour is always of one kind: another request, another
process, the clock or a failure comes between two statements of an operation.

| component | state | operations | who calls it |
| --- | --- | --- | --- |
| migration runner (`migrate`) | the ledger table and, through it, every module's schema; one mutex per process, one advisory lock per database | `Run`, `Status` | every store's constructor, on every boot |
| API keys (`apikey`) | `api_keys`: hash, prefix, tenant, expiry, `revoked_at`, `last_used_at` | `Issue`, `Verify`, `Revoke`, `List` | its handler; its middleware on each request that bears a key |
| login sessions (`auth`) | `auth_sessions`; the host's login policy counts attempts | `Login`, `ValidateSession`, `Logout`, `InvalidateAllSessions` | its handler; the session middleware |
| user directory (`user`) | `users`: name, email, active flag, password hash | create, update, delete, set password, list | its handler; `auth` reads it at login |
| tenants (`tenant`) | `tenants` | create, update, delete, list | its handler; `user` asks whether a tenant exists |
| content (`content`) | `content_items` with a publication status | create, update, publish, unpublish, delete | its handler |
| notifications (`notification`) | `notifications`, `notification_subscriptions` | send over channels, mark read, list, subscribe | other modules, its handler |
| branding (`branding`) | one row per tenant | resolve, save, skip, serve the logo | its page in the console; the shell, for the chrome and the first-login gate |
| audit trail (`audit`) | an append-only table | record, query | every service, best effort |
| admin shell (`admin`) | registries of resources, pages and sidebar sections behind one mutex | register, merge sections, route, gate, render | every `NewModule`, every page |
| health, portslib, contract tests | none of their own | | |

What makes each of them right, and what could go wrong, is listed line by line
under `hazards` in `PROJECT.json`. In short:

- *migration runner*: whatever dies or diverges, no migration is applied twice or
  half, the ledger says what was applied, an incompatible build stops before it
  touches the schema, and every boot ends.
- *API keys*: `Verify` answers by the state of the key at the time of the call,
  not by a colliding prefix and not by a row that has been overtaken; a revocation
  is final, keeps its first time and is reported truthfully.
- *sessions*: one exists only after a login that was right at some moment, and none
  comes back; the throttle slots of the login policy are given back on every path;
  only the owner logs a session out.
- *user directory and tenants*: a creation is three statements and a compensating one; a
  refused one leaves nothing, ids shared by tenants never carry a request across
  them, and without the admin scope nobody changes a password or the own account.
- *content*: every change reads a row and writes later; authorship and publication
  survive that, and of racing deletions one is reported.
- *notifications and audit trail*: a fan-out that stops in the middle tells the trail
  nothing and mails nothing that is not in the inbox; events arrive in another order
  than their times, and a reader of pages still sees something of each instant.
- *admin console*: modules are built in any order, with errors and again; the rail is the
  same. Setup is asked for until it is done and never after, and never on the page it is
  done on; a save loses nothing it was not given; a browser shows no stale logo but after
  writes of different seconds that arrived in the other order.

## The modules

| module | models | extends, or composes |
| --- | --- | --- |
| `Schema` | abstract: each migration is applied and recorded in one step | |
| `Migrate` | `migrate.go`: concurrent `Run`s in several processes, and `Status` | implements `Schema` |
| `MigrateProofs` | theorems about `Migrate` | `Migrate` |
| `MigrateRunProofs` | more of them: what calls leave and return | `MigrateProofs` |
| `Credentials` | abstract: a registry of bearer credentials | |
| `ApiKey` | `apikey`: service, both stores, middleware | implements `Credentials` |
| `ApiKeyProofs` | theorems about `ApiKey` | `ApiKey` |
| `Auth` | `auth`: service, handler, both stores; the account rows of `user` | implements `Credentials` |
| `AuthProofs` | theorems about `Auth` | `Auth` |
| `Directory` | `user` and `tenant`: handlers, services, stores | |
| `DirectoryProofs` | theorems about `Directory` | `Directory` |
| `Content` | `content`: handler, service, stores | |
| `ContentProofs` | theorems about `Content` | `Content` |
| `Paging` | limit, offset and order of the list endpoints | |
| `AuditLog` | `audit`: emitters, stores, readers | `Paging` |
| `Notification` | `notification`: service, channels, inbox | composes `AuditLog` |
| `NotificationProofs` | theorems about `Notification` and `AuditLog` | `Notification` |
| `Branding` | `branding`: save, skip, setup stamp, logo address | |
| `AdminShell` | `admin/shell.go` and every package's `admin.go` and `NewModule` | |
| `Console` | an application that is built and then serves | composes `AdminShell`, `Branding` |
| `ConsoleProofs` | theorems about `Console`, `AdminShell` and `Branding` | `Console` |
| `MC...` | the constants of the small instances | |

Every module keeps the names of the code where it can. A section *Faults* in each
has variants of single actions with a plausible bug; they are not part of the
specification and are there to confirm that each property can fail.

### Migrate

A caller `r` in `Runs` is a goroutine of process `ProcOf[r]` that calls `Run` up to
`MaxCalls` times, each time with some release, a sequence of migrations that
stands for the build it runs. `pc[r]` follows the code: `mutex` (waiting for
`inProcess`), `conn` and `lock` (`lock`: `db.Conn`, then `pg_advisory_lock`),
`ensure` and `create` (`ensureLedger`), `read` (`appliedFor` and `reconcile`),
`loop` (the loop of `Run` and the re-check in `apply`), `exec`, `insert`, `commit`
(the transaction), `unlock` (the deferred calls), `returned`.

- The database is the ledger (`table`, `ledger`) and, for each migration, the number
  of times its SQL has been committed (`effects`), which the code itself cannot see
  and which the properties are about. An open transaction is `tx[r]`; `Durable` makes
  it visible at once. The primary key of the ledger makes `Insert` wait for another
  transaction with the key and fail when the row is there.
- The advisory lock belongs to a *session*, is counted (it nests within a session)
  and goes when the session dies. The pinned connection is `conn[r]`; every other
  statement takes another session of the pool (`FreeSession`). `Conn.Close` returns
  a session to the pool as it is, also still locked, and the next `TakeConn` may draw it.
- The lookup of `CREATE TABLE IF NOT EXISTS` and the creation are two steps, because
  that is the race the package comment describes; on Postgres the loser of it fails.
- `Env` selects what goes wrong around a run: contexts are cancelled, statements fail
  before or after they took effect, unlocks fail, the lock's session is dropped, a
  process dies, somebody calls `Status`.

SQL texts are told apart by their checksums and nothing else; a text that checks out
is the text. Names are numbers in name order, 0 is a blank one.

### Schema

What a build that boots may rely on, without locks, sessions, transactions or a ledger: a call
takes up what its build ships (`Begin`), applies the next migration that nobody has applied under any
text (`Apply`, one step for SQL and record), and ends when all are there (`Succeed`) or at any time
(`Fail`); callers disappear (`Leave`). Nothing is applied twice or taken back. While calls exclude each other
(`Exclusive`) it promises more: no build changes a schema that has what it does not ship, and success means that
the *texts* it ships are there; otherwise only the names are. "The next" is the next of the build, not of the
schema: a migration that is released late, under a name that sorts before applied ones, is applied
after them (`migrate.go:150`), and both modules allow just that.

`Migrate` implements it as `Contract`, for every `Env`. `times` is `effects`, which a commit changes; a call runs from
`Call` to its return, which `StateOf` reads off `pc` and `err`; everything between is a stutter.

### ApiKey

Ids, plaintexts and tenants are model values; `PrefixOf` gives the indexed prefix of
each plaintext, so that two keys may collide on it. The bcrypt comparison is equality
of plaintexts, and a freshly drawn plaintext is one no other key has. The row is split
into what `Issue` writes once (`key`) and the two columns that change (`revokedAt`,
`usedAt`). `Verify` is `Lookup` (`GetByPrefix`), `Decide` (the loop with its
comparisons) and `Touch` (`UpdateLastUsed` and the answer); `Revoke` is the update and
the second look, `RevokeUpdate` and `RevokeGet`, with `...Fails` for each. `live` is
a history variable: the rows that had to be accepted at the time of the lookup. A call
whose second look failed ends in the place `unread`, any other in `answered`.

### Auth

A request is a record in `req[c]` with the locals of its handler. A login reserves a
slot (`AllowLogin`, the host's policy; at most `Slots` per user), reads the account
(`LookupUser`), records the outcome (`RecordFailure`, `RecordSuccess`) and inserts the
session (`Persist`). A validation or a logout reads the row (`Get`) and then decides
by the clock as it is *then* (`Decide`); the logout goes on to `RevokeUpdate` and
perhaps `RevokeGet`. `InvalidateAll` is one update. Accounts are changed underneath by
`ChangeAccount`, the store updates of the user module. History fields of the record
(`lived`, `entitled`) remember what was true when a row was read.

### Credentials

What both registries promise to those who check a credential: each is issued once and
never lives again after it has ended (`Issue`, `End`), and a check that is answered says
what was true when it began or what is true when it is answered (`Ask`, `Reply`).
`ApiKey` and `Auth` implement it. For `ApiKey` a credential is a plaintext, live while a row
holds it that is neither revoked nor expired; the check runs from the lookup to the
answer. For `Auth` it is a session id; a check is the read of the row and its verdict,
on behalf of a validation or of a logout. An error is no answer.

### Directory

A request is a record in `req[c]`: what the handler has from the principal (`tenant`,
`subject`, `admin`) and the body, and where it is. `Create` goes through `tenant`
(`validateTenant`), `insert`, `password` (`SetPassword`, when there is one) and, when that
fails, `compensate` (the delete in the handler); `Update` through `read` (the row is read for
the active flag a body may omit), `tenant`, `write` and `password`; `Delete` is one statement.
A principal who may not ask is refused in `Start`, as in the handlers, by ids and scopes
alone. `IdOf` gives the primary key, tenant and username with a colon between; both may hold
colons, so it is not one-to-one, and the table is shared by all tenants. Every statement may fail, with
or without having taken effect. Tenants are created by the operator, renamed and deleted
meanwhile, each under a slug of its own that need not be its id; `slug[t]` is the row of `t`. `maker`, `known` and `stray` are history: which request
has inserted a row, whether its tenant has existed since it began, and whether something of it was left
because an insert went unanswered or a clean-up failed.

### Content

Five kinds of requests with the places `read` (`store.Get`), `insert` or `write` (the one
statement) and `emit` (the event, which may be lost). What `Update` has read, the author, it
writes; `published_at`, which it has read too, it does not, because the statement names no such
column, and `PublicationIsKept` rests on that. An id is made of a creation time that a body may give
and of shortened names, so it may come again after a delete: `born[i]` numbers the rows an id has
had, `maker[i]` is who created the last, and `mixed[i]` says that an update which had read an
earlier one has written it; only then may the author be another.

### AuditLog, Notification and Paging

`AuditLog` has emitters that stamp an event and append it later (`Stamp`, `Append`), and
readers that walk the trail with a filter, limit and growing offset (`Begin`, `Turn`).
`Paging` has the page as the stores compute it, with the default and the cap of the limit.
`Notification` uses it for its own emissions. `Create` has an id from its caller, or makes one of
the time and the shortened names of tenant and recipient, so it may be any id and one that is
there already. It delivers to channel 0, which inserts the row (`DeliverInApp`), to the caller's channels 1 to n
(`Deliver`), and emits at last (`Emit`, `EmitDone`). A channel may fail before or after it has
delivered. `Inbox` has the rows of `GetByUser`, in the order of a time that the caller may give
(`InboxOrders`). The event carries the tenant that the service's emitter is bound to, not the recipient's.

What a reader misses is not obvious with offsets. Events that come in late, with an earlier
time, push those that follow to later pages, never to earlier ones, so a reader may see an event twice
and does not miss it. With deletions it could, which the trail does not have and the other lists do. And with
events of one time it can: the query has `ORDER BY emitted_at` and no tie-breaker, so where a page ends among
them the next query may sort them otherwise. `Orders` is therefore the *set* of orders a query may
use, each query chooses afresh, and `WalkIsComplete` has the exception that is left: an event may be missed
whose instant has another one that was seen.

### Branding, AdminShell and Console

`Branding` has the row of each tenant and calls that save (`LoadOrNew`, `Stamp`, `Upsert`) or skip
(`Stamp`, `Upsert`). `Stamp` is the clock that `Upsert` of the store reads before it sends its statement
(`sqlite.go:127`); the statement may wait while others write, so `updated_at` may go back. One reading
stands for both, of `stampSetupComplete` and of the store, microseconds apart. Time has instants and seconds, as
the address of the logo has seconds only.
`newest` and `shown` are history: the latest time the row has had, and the logos there have been since the second
of that time began.

`AdminShell` has the registries as sequences in the order of registration, and what each
package declares, with its labels, orders, columns and fields (`Declared`). `NewModule` opens the
store, registers a resource or page, a section and a health check, one step each, and stops at
the first error; the health module has no store to open, and `auth_management` registers a check only (`Surface`); the application may build the modules in any order, one of them twice, and again after
an error. `SidebarSections` is the sort and merge of the code: a member's `Place` counts the sections that go before
it, and `Groups[n]` merges the first `n` members; `RailIsGrouped`
says of the result what the declarations alone demand.

`Console` builds until every module is up, and then serves. A request is two steps: `Visit` resolves the
profile of the tenant, `Respond` decides at the gate and renders, and others save between the two. A resolver that
fails lets everybody pass without branding, as the code does; the branding page resolves once more for
itself, and answers with an error if that fails (`Rendered`). `FetchLogo` gets what a page
names, a request later, and `cache` is the browser.

## What is checked

The twelve runs, their bounds and what they show. Deadlock checking is on for
`Migrate` (its `Finished` step marks the end of a bounded behaviour) and off for the
others, which stop when every request has been made and no clock may go on.

| run | bounds | shows |
| --- | --- | --- |
| `MCMigrateHostile` | two processes, one call each, diverging builds, every fault | nothing is applied twice (`AppliedOnce`) or half (`LedgerMatchesEffects`); two calls overlap only after one has lost its session (`MutualExclusion`) |
| `MCMigrateLocked` | two processes, two calls each, diverging builds and one from before a late migration; sessions are not lost | nil from `Run` means migrated (`OkMeansMigrated`), in order, once and by no incompatible build (`ImplementsSchema`), a call fails only if its own context is done (`SafeConcurrently`), a leaked lock fails its run (`LeakFailsTheRun`) |
| `MCMigrateReturns` | three callers, two of them in one process, a build of two migrations; contexts are cancelled, statements, unlocks and processes fail; weak fairness | the ledger has no gap (`LedgerIsReleasePrefix`), and every call returns, past the mutex and the advisory lock, or waits for a lock that was left behind in a pool for good (`RunReturns`) |
| `MCApiKeyVerify` | two tenants, two keys with one prefix, two requests, three instants, statements fail | `Verify` accepts and refuses rightly, `Revoke` and the trail tell the truth, the first revocation time stays, `ImplementsCredentials` |
| `MCAuthLogin` | two users, two passwords, two requests that are each reused, one slot, accounts change, statements fail | no slot leaks (`ReservationsAreInFlight`), sessions come from good logins |
| `MCAuthSessions` | the same with three instants and no account changes | a logout is final, only the owner logs out what could be read, `ImplementsCredentials` |
| `MCDirectory` | three requests, two at a time, and changes of two tenants; two usernames of which one pair shares an id; statements fail | `RefusedLeavesNothing`, `TenantsAreApart`, `CredentialOwnersAreSafe`, `UsersOfKnownTenants` |
| `MCContent` | four requests, two at a time; two tenants, two authors, two paths, two ids that any of them may get; statements fail | `AuthorIsCreator`, `PublicationIsKept`, `DeletedOnce` |
| `MCNotification` | three dispatches to two users of two tenants over two channels, two instants; one reader, pages of one or two events | `DispatchIsTruthful`, `WalkIsComplete`, ids and the order of equal times being any |
| `MCConsole` | five modules, of which two share a group, one has a page and two have no admin surface; one tenant, two calls, two logos, two seconds of three instants | `RailIsRight`, `SetupIsFinal`, `NotGivenIsKept`, `LogoIsCurrent` |
| `MCMigrateStatus`, `MCAuthOwnerUnread` | | the first two disagreements below |

*Why these bounds.* Each hazard of the migration runner is between two calls, and the
database, not a third caller, is what they meet in; two sessions per pool is the
least with which `Run` can work, as it pins one and needs another. Two builds of
which one drops a migration of the other and edits a second one exercise every verdict of
`reconcile` and the loop both at and past its end, a third that lacks the first migration makes that one
late. Two calls per caller let a boot follow
a crash. For keys and sessions a property relates one checker, one credential and at
most one other party; two of each, with three instants around a lifetime of one,
include both sides of the expiry instant and the instant itself. Symmetry is
declared for model values that are only compared.

In the directory a hazard needs a request in the middle of its statements and up to two others
that change the row under it (a delete and a creation of the same id), hence three requests of
which two are in flight; in content a row that is read, deleted and created again while an update
waits, hence four. Three dispatches give two events and one that slips in between, the least a
reader of two pages can be wrong about, and two instants events of one time and of two. In
the console two calls are enough for one to be overtaken, between its reading and its clock or between its clock
and its statement; two seconds for an address that changes
and two instants in the first of them for one that does not. Three modules in the console give a group with another between its
members (`Workspace` of the tenants first, and of `branding` last), and `auth` and `health` outside it the two
constructions that differ.

The inductive invariants (`IInv` of each module, and `ProgressInv`, `TextInv`, `RevocationInv`) are in no
configuration, for they are proved; adding one under `INVARIANTS` of a configuration of its module
checks it on the small instance. `Alone`, `Quiet` and `OnlyAppended` below are true of the constants
of the configurations that check what is proved from them.

*Fairness.* `RunReturns` assumes weak fairness of `Proceed(r)` for each caller: a call that
has been started keeps taking the steps it can take. It is not assumed of `Call`, of the
faults, or of errors, except where an error is the only thing that can happen, in a call
whose context is done or whose session is dead; otherwise a call waiting for a
lock that is never freed could count on a failing statement to get out. The Go scheduler runs a
goroutine that can run, `sync.Mutex` and the advisory lock go to a waiter when they are free,
and a statement that the database can execute is executed. Weak fairness alone would let a waiter lose the lock to
one newcomer after another; here the number of calls is bounded and each makes a bounded number of steps before it unlocks. In the
program it is not, and what stands in for the bound is that `sync.Mutex` hands itself to a waiter that
has starved for a millisecond and that Postgres grants a lock in the order of its queue.

*What `RunReturns` does not promise.* When the unlock fails, be it because the context of the run is done by
then, a live process returns a session to its pool that still holds the lock; that "would block every future
run" (`migrate.go:131`), and in the model it does. The property has just this exception, that from some time on a hold
that no call works under stays (`Orphans`). `LeakFailsTheRun` says that in each such case the
call that did it has failed. A *wait* that is given up leaves nothing, as with a driver that gives it up at the server or with the
connection. Sessions are not lost in this run: a loss ends waits and frees the lock.

## What is proved

TLAPS checks every proof from nothing, for any sets of processes, callers, sessions,
releases, tenants, users, requests, modules and any bounds, under the assumptions `ConstantsOK`
(`ConsoleOK`) of the modules: well-typed constants, sentinels outside the sets they stand beside,
finitely many requests where a cardinality is taken, and for the console that the modules
are among the packages of this repository. Every invariant and every
action property that a passing run checks is a theorem, and so is each of the three refinements; the
rest of this section says where each argument lies.

Hardly a property is inductive as it stands. Each module ends with the parts of its inductive
invariant, named for what they say, and their conjunction `IInv`; in each proof module
`Invariant` is `Spec => []IInv`, `TypeCorrect` follows, and so do the properties. A *type* of
requests (`ReqType`, `CallType`) and lemmas on what one step leaves of the other requests
(`OnlyOneActs`, `OneCallMoves`) keep the case for each action small.

*Migrate* (`MigrateProofs`). `AppliedAtMostOnce`, `LedgerIsExact`, `Exclusion`, for every `Env`. The
argument goes in layers: a call past `mutex` holds its
process's mutex (`MutexInv`); so it alone uses its pinned connection, which is of its own
pool (`ConnInv`); so, while that session lives, the lock is that session's (`LockInv`);
this gives exclusion. `AppliedOnce` does *not* rest on exclusion, and could not, for the
lock may be lost: it rests on what a transaction has written at each of its places, on
open transactions never having inserted the same key (`TxInv`), and on the ledger having one
row per key, each committed once (`LedgerInv`). So the proof shows which part of the code carries which promise: the
locks keep runs from failing each other, the primary key and the transaction keep
migrations from being applied twice.

*Migrate, calls* (`MigrateRunProofs`). These theorems are about what a call leaves and returns, and
differ in what they need, which the proofs settle.

| theorem | needs |
| --- | --- |
| `LeaksAreTold` (`LeakFailsTheRun`), `Progress` | nothing: they hold for every `Env`; the first is about every hold that is left behind, be it a session's only one or one on top of others |
| `LedgersArePrefixes` (`LedgerIsReleasePrefix`) | `OnlyAppended`, as the property says; no lock |
| `TextsHold`, `NilMeansMigrated` (`OkMeansMigrated`), `CommitsAreCompatible` | `Alone` |
| `PeersAreHarmless` (`SafeConcurrently`) | `Alone` and `Quiet` |
| `Refinement: Spec => ImplementsSchema` | nothing; what it promises depends on `Alone` |

`Alone` says that what serializes the calls is not defeated: Postgres and no session lost
while it holds the lock, or one process, which without the advisory lock is what `migrate.go:39`
supposes ("one process over one file by definition"). It is needed: with a lost session `OkMeansMigrated` is
false, as said below, and `Progress` is what is left of it, the names without the texts.
Crashes, cancelled contexts, failing statements and failing unlocks are all in its scope.
`Quiet` excludes failing statements and lost sessions, which are reasons of their own to fail, and `Status`, with which the property
is false (`MCMigrateStatus`). `OnlyAppended` says that any two valid releases agree where both have a migration.
The new parts of the invariant: a call passes no migration that the ledger lacks (`ProgressInv`), and
what it has compared with the ledger stays so until it is done, for nobody else commits (`TextInv`).

The refinement takes all of this together. A commit is `Apply` (`CommitApplies`): the row is new because its key was
free (`LedgerInv`, `TxInv`), it is the next because the loop has passed every earlier one (`ProgressInv`), and under `Alone`
the schema holds nothing foreign (`CommitIsCompatible`, which no run checks any more, for it is part of
`Apply`). A return is `Succeed` or `Fail`
(`ReturnEnds`), a call begins once its release is `Valid` and otherwise fails at once (`CallBegins`), crashes are `Leave`, and of every
other step it is shown that it changes neither `effects` nor what `StateOf` says (`WorkIsHidden`).

*ApiKey.* `AcceptsLiveKeys`, `RefusesDeadKeys`; `FirstRevocationCounts`,
`RevokeTellsTheTruth`, `TrailTellsTheTruth`; and `Refinement: Spec => ImplementsCredentials`. What the invariant adds
is what a `Verify` in progress knows: the rows it has to accept hold the plaintext it was
given and are among those it read as not revoked (`LiveInv`, `FoundInv`); every other match
has expired by now, for time does not go back; at `touch`
the matched row is one it has to accept (`TouchInv`); and no two rows hold one plaintext
(`SecretsAreUnique`), so the row that matches is the only one. Revocations have an invariant of their
own (`RevocationInv`): an update that changed no row of the caller's tenant has found it
revoked. The refinement maps clock steps and revocations to
`End` (of the credentials whose lifetime they change, perhaps none), `Issue` to `Issue`,
`Lookup` to `Ask`, a refusal or an acceptance to `Reply`, and other calls to `Leave`.

*Auth.* `SlotsAreReleased`, `LogoutEnds`, `LoginsMakeSessions`, `OwnersLogOut` and its own
`Refinement: Spec => ImplementsCredentials`. Slots are a counter that equals the cardinality of a set of
requests, so each action that moves a login in or out of the set is matched with one that counts.
For the rest: a login about to persist has an id that no other has and was `entitled` when it read
the account (`LoginInv`); what was read of a session is still true of it, but that it was not revoked
(`ReadInv`); a logout past its verdict has compared owners unless the read failed (`OwnerInv`).

*Directory.* `TenantsStayApart`, `OwnersAreSafe`, `TenantsAreKnown`, `RefusalsCleanUp`, for every `IdOf`, one-to-one
or not. Permission is decided once, in `Start`, and acted on statements later; `PermissionInv` carries
it there: a request in flight may do what is left of it, to whichever row the id means by then, because
each statement names the tenant too.

*Content.* `AuthorsAreCreators`, `PublicationStays`, `DeletionsAreToldOnce`. An update that waits to write
holds the author of the life it has read (`ReadInv`). For deletions, the events told and those
still to be told number at most the lives that have ended (`EventInv`).

*Notification and AuditLog.* `DispatchTellsTheTruth` and `WalksAreComplete`, for any number of channels and of
readers, any default and maximal limit and any order of rows of one time. Lemmas about pages come first: in each order that
a query may use every position is taken (`PositionIsTaken`), and as many rows as have a lesser key stand before all
those of one key (`RowsBefore`). From them: an instant of which a reader has to find something
and has seen nothing begins at the walk's offset or later (`WalkInv`), for what is before an instant only grows
when events are added (`BelowRises`), and a page that is empty or short means that nothing comes after it.

*Console.* `LogosAreCurrent`, `SetupStaysDone`, `NotGivenStays`, `RailStaysRight`. The invariants of the
three parts are separate (`ShellInv`, `BrandInv`, `BrowserInv`) and each step moves one part; what connects them is `AddressInv`, no
request, page or browser knows an address of a second later than the row's `newest`; `CacheInv`, under the address of
that second it keeps only logos there have been since; `RequestInv`, a request that came after an answered save
and was resolved found the setup complete; and `ServingInv`,
modules are all up before pages are served, so that the branding page is there to redirect to. `SetupStaysDone` has both
halves: who is sent to the setup, and who is let past it, for which `RowInv` tells that a row comes from some call that was sent.

The rail is a function of the sections in the registry, so `RailStaysRight` needs little of the steps and much of
that function. Of the steps, that each section is the one its module declares, is its only one, and leads to
what the module has registered (`SectionInv`). Of the sort, that places are a permutation
(`MembersAreSorted`): how many go before a section in a total order of a finite set rises along that order and
leaves no gap (`CountsRise`, `CountsAreTaken`). As no two packages declare one order (`OrdersDiffer`), the sort is strict and the order of
registration leaves no trace. Of the merge, that `Groups[n]` groups the first `n` members (`Grouped`): each label once, where it comes first,
with the items of its members in order. That is an induction over `n`, one case for a new label and one for an old one (`NewGroup`,
`OldGroup`). The library's induction takes an operator as a parameter, which no installed prover instantiates; in its place
stands `InductionTo`, about a *set* of numbers, which the least number that is not in it proves. That `Groups` exists as a function is proved
the same way (`ChainsAreThere`).

*Only model-checked.*

- `RunReturns`: liveness under fairness.
- `OnlyTheOwnerLogsOut`, and `SafeConcurrently` when `Status` is called too: runs find them violated.
- `Paging`, `AuditLog`, `Branding` and `AdminShell` have no proof modules of their own, for they are proved
  about where they are composed, in `NotificationProofs` and `ConsoleProofs`.

## Where code and documents disagree

Two have a run that finds them, with the quoted line under `findings`.

- `Status` creates the ledger outside the lock (`migrate.go:168`) and can make a `Run`
  that does hold it fail, which is "safe to call concurrently" (`MCMigrateStatus`).
- The logout handler compares owners only after a validation without error; an error of
  the read itself skips the comparison too (`MCAuthOwnerUnread`). What does hold, that
  a logout which could read the row ends only its own user's session, is checked as
  `OnlyTheOwnerLogsOutWhenRead`.

The others are seen by a small change of a configuration.

- The re-check in `apply` counts rows of a name and does not compare checksums
  (`migrate.go:262`), though "a checksum that no longer matches stops the boot"
  (`migrate.go:24`). After the lock's session was lost, another build's text under the
  same name counts as one's own and `Run` returns nil over a drifted schema: add
  `"session"` to `Env` in `MCMigrateLocked.cfg`, and `OkMeansMigrated` is violated. `MCMigrateHostile` has
  lost sessions and shows what is left: even then no migration is applied under both texts.
- When an update touches no row, the stores look again to tell why, and return nil if
  that look fails: a key of another tenant "was revoked" (`RevokeIsTruthful` in
  `MCApiKeyVerify.cfg`). The stores of `auth` have the same lines for an id that never existed.
- "A leftover passwordless user cannot authenticate" (`user/handler.go:207`): when the hash was
  written, its answer was lost and the clean-up failed (one cancelled context does all of that), the leftover has a
  password (`LeftoverCannotAuthenticate` in `MCDirectory.cfg`).
- Sidebar items of the reference packages name their pages under `/admin` whatever
  `admin.WithBasePath` says, though a link "resolves to a route the shell actually serves"
  (`portslib.go:48`): drop the premise on `Base` from `RailIsRight` and set `Base` to
  `"/console"` in `MCConsole.cfg`. The page of `branding` is told its base path and is right.

Observed while modelling, and promised otherwise by nothing or by a remark only:

- *migrations*: one that is merged late, under a name between two applied ones, is applied
  after them (`MCMigrateLocked` has such a release); with a connection pool of one, `Run` waits for itself.
- *keys and sessions*: `last_used_at` may move backwards when two verifications write in the
  other order than they read the clock; a login past its password check survives a
  concurrent sign-out of all sessions; a session outlives the deactivation or deletion
  of its user.
- *users*: an update that omits the active flag writes back the one it read, and undoes a deactivation
  that came between; users stay when their tenant is deleted; two users whose ids coincide cannot both be
  created.
- *content*: a body may give `created_at` and `published_at`, so an item may be born published; SQLite reports an
  id that is taken as a slug that is.
- *notifications*: a retry after an error delivers again, under a new id; the port for looking
  up users is never asked.
- *branding*: a save that was held up between its clock and its statement sets `updated_at` back, and with it the
  address to one that browsers may have an older logo for (`InTime` in `LogoIsCurrent`); two saves within a second share an address, so a browser may show the first one's
  logo until it forgets it (`max-age` 300); `Skip` after a save drops the logo and sets the stamp anew,
  and so does the later of two first saves.
- *lists*: pages by offset skip rows when others are deleted meanwhile; rows of equal sort keys
  have no order on Postgres.
- *shell*: two modules may register the same page path, and the first is served; a `NewModule` that
  failed after its registrations would leave them behind, which with these packages and this shell it cannot, so
  `RailIsRight` holds also after errors.

## What is not modelled

- Hashing, randomness, JSON, HTML, wording of errors: no property is about them. A drawn id
  or secret is new; a hash matches exactly its own plaintext.
- Both stores of a module are one model. Where SQLite and Postgres differ in behaviour
  (the advisory lock, the race of the catalog) the model has a constant; elsewhere the
  two have the same statements, and the map names lines of either.
- Every run of `Migrate` has the advisory lock (`Postgres = TRUE`). Without it, `Exclusion`,
  `AppliedAtMostOnce` and `LedgerIsExact` are proved all the same, for they do not assume it, and
  `NilMeansMigrated`, `CommitsAreCompatible` and `PeersAreHarmless` for one process, as `Alone` says.
- Subscriptions to notifications: two single statements on a table that nothing reads.
- The palette that `branding/palette.go` derives from a colour: floating-point arithmetic.
- In `Branding` and `Console` the clock does not go back; `time.Now` of the code may, and an
  address could return by that too.
- Audit events of `auth` (best effort, after the fact). Those of `apikey` are in.
- A login policy is the host's; `Auth` has what the code asks of it, slots that are taken by
  `AllowLogin` and given back by the two `Record` calls.
- Status's own failures, and statements that succeed twice: no statement is retried.
- The components marked `not_modelled` in `PROJECT.json`, each with its reason.

## Plan

Done, in this order:

1. `Migrate`, the riskiest code and the one everything else depends on; its
   inductive invariant and the theorems above.
2. `Credentials`, `ApiKey`, `Auth`; proofs of `ApiKey`.
3. `Directory`, `Content`, `AuditLog`, `Notification`: read-modify-write, compensation, fan-out,
   paging.
4. `Branding`, `AdminShell`, `Console`: the application as a whole, built and served.

5. The proofs: every invariant and action property of the runs as theorems; the refinement of
   `Credentials` by both registries, and of `Schema` by `Migrate`.

Left, for whoever goes on:

6. What is still said by a comment only: that a leftover user has no password when no answer is lost. It needs
   history that tells a password the failed creation has set from one an administrator has set on the leftover since.
7. `Auth` over `Directory`: what a session may assume of its account after updates and deletes.
8. Liveness beyond `RunReturns`, if a service ever waits; today none does.
