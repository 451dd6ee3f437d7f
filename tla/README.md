# TLA+ models of keycloak-jit-access

The repository is a small Go service that gives just-in-time administrator
access through Keycloak.  An eligible user asks for elevation, a permanent
administrator approves, the service puts the user into the Keycloak group
`admin-active`, and takes him out again when he releases the grant or when its
time is over.  This directory holds TLA+ models of that service, the TLC
configurations that check them on small instances, and theorems that TLAPS
proves for every instance.

Paths below are relative to the repository (`src/`).

## 1. Inventory of the system

| Component | State it keeps | Operations | Modelled |
|---|---|---|---|
| HTTP handlers, `internal/api/api.go` | none of their own; a handler's local copy of a row | create, approve, release, me; list, get and audit list only read | `JitAccess` |
| Reconciler, `api.go` `Reconcile`, run by `cmd/pim/main.go` at start and by `internal/worker` on each tick | the time it took at its start, the rows of its two queries | expire requests, revoke grants | `JitAccess`; ticker and delays in `Expiry` |
| Request store, `internal/store/store.go` | table `requests` | `Create`, `Get`, `Update`, `PendingExpired`, `ActiveExpired` | `RequestStore`; times as texts in `TimeText` |
| Audit ledger, `internal/store/audit.go` | table `audit_events` | `AppendAudit`, `ListAudit` | `RequestStore` |
| Notifier, `internal/notify`, `internal/store/notify.go` | table `notifications` | `NotifyOnce`: mark, then post to a webhook | `Notifier` |
| Keycloak admin client, `internal/keycloak/client.go` | cached token, cached group ids, one mutex | `InGroup`, `AddToGroup`, `RemoveFromGroup` | `KeycloakClient`; the outcomes of whole operations in `JitAccess` |
| OIDC login, `internal/auth/auth.go` | map of pending login states; signed 8 h cookies | `LoginURL`, `HandleCallback`, `FromRequest`, `Clear`, `Actor` | `OidcLogin` |
| Configuration, `internal/config` | environment read once | `FromEnv` | constants of `JitAccess` |
| Browser UI, `internal/ui/static/app.js` | drafts of approver notes, the rendered list | refresh every ten seconds, create, approve, release | `UiRefresh` |
| Realm setup and lab scripts, `scripts/` | a lab realm | create groups, clients, users | planned last |
| Deployment, `deploy/`, `Dockerfile`, compose | | | no: declarative |

### How they interact

`main` opens the store, runs one `Reconcile`, starts the worker and then the
HTTP server.  From then on every request is a goroutine of its own and the
worker is one more.  They share three things:

* **the database**, through one connection (`SetMaxOpenConns(1)`): a statement
  is atomic, but no two statements are in a transaction.  A handler reads a row
  with `Get`, changes its copy, and `Update` writes every mutable column of
  that copy back, `WHERE id = ?` and nothing else;
* **the membership of `admin-active`**, changed by Keycloak calls that may be
  refused, time out before their effect, or after it;
* **the notifications table**, where the first to insert (request, kind) is the
  one who posts.

No lock in `internal/api` is held across two of these.  The process may end
between any two steps, by a crash or because `main` returns while the worker is
at work (`Reconcile` ignores its context).

### What is hard about it

1. Two goroutines work on one row from copies: two approvals, an approval and
   the reconciler, a release and the reconciler.
2. Table, ledger, group and webhook are changed one after the other; each step
   may fail or be the last one before a crash.
3. A Keycloak call that takes effect may be reported as failed.
4. Several requests of one user share one group membership.
5. A grant must end although Keycloak or the disk are out of order for a
   while and the process restarts: there is no queue of work, the reconciler
   must find the row again.
6. Time limits meet at equality: SQL uses `<=`, `handleApprove` uses `After`.
7. SQL compares times as texts whose trailing zeros are cut off; a session's
   end is cut to whole seconds.
8. A login is two browser requests and two calls to Keycloak, with nothing but
   an in-memory map between them; callbacks may be repeated, overlap, or come
   back to another process.
9. The browser's refreshes are not serialised: answers overtake each other while
   the user types.

### What makes each component correct

* *Store and handlers*: a stored row is always one that a single transition
  produced (`RowsCoherent`), however many stale copies are written over it.
* *Lifecycle*: pending, then approved or expired; approved, then released
  (`LifecycleOneWay`).
* *Group*: a member has an open grant (`NoOrphan`, `ElevationSpec`), released
  means out (`ReleasedMeansOut`), a grant is not cut short by the reconciler
  (`GrantRunsItsTerm`).
* *Ledger*: complete (`LedgerComplete`), without gaps (`NoStepSkipped`), it tells
  of nothing that did not happen (`AuditNeverAhead`), and of the end of a grant
  once (`EndsOnce`).
* *Notifier*: at most one post per request and kind (`AtMostOnce`), and of
  nothing that did not happen (`NoticeNeverAhead`).
* *Keycloak client*: a cached token is good when it is taken
  (`CachedTokenAlive`), goroutines do not fetch over each other
  (`FreshTokenKept`), "done" means done (`OkMeansDone`), a chain of calls is one
  operation to its caller (`GroupOperationSpec`), the mutex is never waited for
  in vain (`Returns`).
* *Worker*: what timed out is resolved, what lapsed ends (`PendingResolved`,
  `GrantEnds`, `AccessEnds`), not before its time (`NotEarly`) and not long after
  it (`EndsInTime`).
* *Login*: one session per login (`OncePerLogin`), a callback is refused only for
  cause (`RefusedForCause`), the map of states is what it should be
  (`StatesAreOpenLogins`), nobody acts on a login longer ago than the code
  allows (`ActsOnFreshLogin`, `SessionRunsItsTerm`).
* *Page*: it shows the table in the end (`CatchesUp`) and keeps what was typed
  (`DraftKept`).

`PROJECT.json`, "hazards", lists each thing that can go wrong with its line.

## 2. Modules

| Module | What it is |
|---|---|
| `RequestStore` | the tables `requests` and `audit_events` and the statements on them, as operators |
| `Notifier` | `NotifyOnce` with its table: `Mark`, `Post`, `Crash` |
| `JitAccess` | the whole service: handlers, reconciler, process, clock, Keycloak; extends `RequestStore`, instantiates `Notifier` |
| `KeycloakClient` | the shared Keycloak client: token and group-id caches, the mutex, the chain of HTTP calls of an operation |
| `GroupOperation` | what the service takes an operation of the client to be: one that is asked, answers once, and changes the group at most once |
| `Elevation` | what the service promises about elevations: which steps may change the group, and that each grant is opened and closed once |
| `JitAccessElevation` | the refinement mapping from `JitAccess` to `Elevation` |
| `OidcLogin` | signing in: login URLs, the map of states, callbacks with their two HTTP calls, cookies, logout, restarts; Keycloak's codes |
| `TimeText` | times as RFC3339Nano texts and their order byte by byte |
| `Expiry` | the worker's loop on a fine clock: ticker, length of a reconcile, startup reconcile, comparison of texts; extends `TimeText` |
| `UiRefresh` | the page of `app.js`: overlapping refreshes, buttons, drafts, both tables |
| `JitAccessProofs` | proofs: types, coherence of rows and copies, and the lemmas on steps that the next two share |
| `JitRecordsProofs` | proofs: ledger and messages against the table, whatever overlaps; instantiates `NotifierProofs` |
| `JitOneWriterProofs` | proofs: lifecycle, terms and membership with one writer per request, up to the refinement of `Elevation` |
| `NotifierProofs`, `KeycloakClientProofs`, `OidcLoginProofs`, `ExpiryProofs`, `UiRefreshProofs` | theorems and proofs of these modules |
| `MCJitAccess`, `MCKeycloakClient`, `MCOidcLogin`, `MCExpiry`, `MCUiRefresh` | instances for TLC |

### State and actions of `JitAccess`

| Variable | In the code |
|---|---|
| `requests`, `audit` | the two tables; the ledger as a set of events (its order and texts are left out) |
| `notified`, `posting`, `posts`, `delivered` | table `notifications`; a note between mark and post; the webhook's view |
| `member` | who is in `admin-active` in Keycloak |
| `now` | the clock, in whole steps |
| `server`, `stops` | `main`: down, in its startup `Reconcile`, serving; ends so far |
| `pc`, `row`, `actor`, `flag` | per goroutine: where it is, its copy `req` (or `pending[i]`, `active[i]`), the session's user, `bg` |
| `at`, `todo` | the reconciler's `now`, and the rows of its query not handled yet |

A step is the code between two effects that another goroutine can see.
`handleApprove`, for instance, is `HandleApprove` (permission, `Get`, status
check), `ApproveDecide` (the clock), `ApproveAdd` (Keycloak), `ApproveStore`
(`Update`), `ApproveAudit`, `ApproveAuditGrant`, `ApproveNotify`, `Post`; its
expiry branch is `ExpireStore`, `ExpireAudit`, `ExpireNotify`, the last two
shared with the reconciler.  A release is `HandleRelease`, `ReleaseRemove`,
`ReleaseStore`, `ReleaseAudit`, `ReleaseNotify`.  A reconcile is `Reconcile`,
`ExpireRow` per row, `ReconcileActive`, `RevokeRow`, `RevokeStore`,
`RevokeAudit`, `RevokeNotify` per row, and `ReconcileReturn`, which also covers
the two early returns of a failing query.  "map" in `PROJECT.json` gives the
lines of each.

Abstractions that the reader should know:

* a rejected request (bad body, missing permission, wrong status, Keycloak
  error before any effect) changes nothing and is not a step;
* the permission check of `handleApprove` and `handleRelease` is one step with
  the `Get` next to it; the role groups are constants, so their order cannot matter;
* `Released` reads the clock in the same step as its write: only the
  time stamp `released_at` depends on it;
* rows of one query are handled in any order; SQL gives them no order either;
* `AddToGroup` and `RemoveFromGroup` are one step each although they look up
  ids first: only the last HTTP call has an effect, and a failing lookup is the
  outcome "refused";
* `newID` (128 random bits) never repeats an id.

### `KeycloakClient` and what `JitAccess` takes from it

`JitAccess` treats a group operation as one step with three outcomes: done,
refused without effect, or reported as failed although it had its effect.
`KeycloakClient` is where this comes from.  It has the chain behind each
operation (`userID`, then `userGroups` for `InGroup`, or `groupID` and the PUT or
DELETE), the `accessToken` that each link of the chain begins with, the mutex
`mu`, and both caches.  `OkMeansDone` is the contract: an operation that returns
without error had its effect, an `InGroup` never has one, an error says nothing.
`GroupOperationSpec` is the rest of what `JitAccess` relies on: the chain
implements `GroupOperation`, with its answers `Done` (`KeycloakOk` in `JitAccess`),
`Refused` and `Lost` (the two cases of `KeycloakError`).  Token requests, lookups
and waits for the mutex are stutters of it; nothing but the PUT or DELETE
changes the group, and nothing of the operation comes after that.

`mu` holds a goroutine only while it fetches a token, because the code's other
critical sections touch nothing but the caches and are one step here.  `asked`
is when a token request was sent, `token.expiry` the client's reckoning of its
end, `token.dies` Keycloak's.  `groupId` is the one entry of `groupIDs`: only
`config.GroupActive` is ever looked up.  `Restart` empties the caches, and
`Recreate` is an administrator who deletes the group and makes it again:
after it every change fails until a restart, because nothing drops the cached
id.

### `OidcLogin`

| Variable | In the code |
|---|---|
| `states` | `Manager.states`; an entry is `pendingAuth` |
| `url` | the login URLs handed out: when, and by which run of the process (`boot`) |
| `codes`, `redeemed` | Keycloak: the codes it issued, for whom, and which it has exchanged for a token |
| `pc`, `state`, `code`, `verifier`, `since` | per callback under way: which HTTP call it waits for, the two parameters of its query, `pending.codeVerifier`, when the call was sent |
| `minted`, `cookie` | the signed cookie values answered so far, and the browser's |
| `came` | logins whose state some callback has presented; no guard reads it, the properties do |

A callback is `HandleCallback` (lookup and deletion under `mu`, the time
check), `Exchange` (token request), `UserInfo` (who it is, and the cookie) and
`Return`.  `state` and `code` are parameters of a URL, and every pair
may come: of one login or of two, or values that nobody handed out (`Null`).  A
callback with another login's code takes its state out of the map all the same,
and Keycloak denies the code, because the verifier is not that code's (PKCE,
`Redeemable`).  Each call may be refused, fail before or after its effect at
Keycloak, and takes up to `HttpTimeout`.  A login's random state and verifier
are one value, its name.  Cookies are unforgeable: `FromRequest` accepts the
values in `minted` and nothing else, until their end.  A browser may lose the
answer, keep a cookie, or drop it (`HandleLogout`); the server remembers none.
`OIDCEnabled` is taken as set (without it the routes answer 404); the secret that
signs cookies is configuration and the same after a restart.
`JitAccess` takes the outcome, the user of a request, as the input `a` of its
handlers.

### `TimeText` and `Expiry`

`JitAccess` has a coarse clock.  What this hides is here: `TimeText` writes a
time as the code does, the seconds, a dot and the digits of the fraction (`Unit` is what each counts)
without trailing zeros, and compares as SQLite does; `Expiry` has the ticker
(its channel holds one tick), the startup reconcile before it, and reconciles
that take up to `MaxWork`.  One row, request or grant, and no failures: their
effects are `JitAccess`'s subject.  `Open` is the write of the row by a handler
that read the clock for its deadline up to `MaxCall` before, with Keycloak's
calls in between (an approval); or the row was there when the process started
(`"left"`).  `ExpiryAssumption` asks that `MaxCall` is no longer than the row's
time (calls of seconds, times of minutes).

### `UiRefresh`

A chain is one run of `refresh()` or of a button's handler that ends in one;
`pc` is the call it awaits.  JavaScript runs without interruption from one await to
the next, so a step is what happens between two of them: `MeArrives` renders the
user and, in the same step, reads the drafts (`loadRequests` starts without an
await); `ListArrives` renders rows, text areas and buttons from the list *and
from what `me` is now*, puts the drafts back, and asks for the ledger's list.
`ServeRead` and `ServePost` are the service: `JitAccess` in one line per call,
with the failures that `handleMe` discards.  A row, once there, may go to
approved or closed and back between the two, for that is what stale copies can
do to it (`Moves`).  `typed` and `hurt` are what the user knows: the last text he left in a box, and the boxes where he typed while a
list was awaited or that were taken away with text in them.

### Parameters that widen or narrow the environment

`KcFaults` says how Keycloak calls may fail, `DbFaults` whether writes and the
reconciler's queries may, `MaxStops` how often the process may end, `Removals`
whom the realm's administrator may take out of the group by hand, `Webhook`
whether notifications are on.  `Isolated = TRUE` restricts the environment: no
two operations on requests *of the same user* overlap.  The code enforces no
such thing; properties that hold only with it are marked below, and the
violation runs show what happens without it.  The theorems need less than that:
`OneWriter`, no two goroutines between reading and writing the same *request*.
`Isolated` gives `OneWriter` (`OneAtATime`), and is what the runs use because it
is a guard, while `OneWriter` is a condition on states.

`MaxTime`, `MaxStops` and `MaxPerUser` are the only bounds; the `.cfg` files set
them, and they appear as guards of `Tick`, `Stop` and `HandleCreate`
(`KeycloakClient` has `MaxTime`, and `GroupId` bounds how often the group is
recreated; `OidcLogin` has `MaxTime` and `MaxStops`; `Expiry` has `MaxTime`, and
`MaxWork` and `MaxCall` are assumptions, not bounds; in `UiRefresh` the number of chains is
bounded, which the browser does not do).

## 3. Runs

The runs of `JitAccess` use one permanent administrator (bob) and one eligible
user (alice; carol too in `elevation`), with `RequestTTL` and `ActiveTTL` of one
step (`RequestTTL` of none in `notices`) and a clock that goes to 2 (1 in
`notices`): a request can be approved before and at its deadline, or found too
late; a grant can be released before, at and after its end, and still lapse
within the bound.

| Run | Question | Instance |
|---|---|---|
| `two_handlers` | Do rows stay coherent, and does the ledger account for the table and skip no step when everything interleaves? | two handlers, worker, one request, no failures, bob in break-glass |
| `notices` | Do handlers and worker post each message at most once, and announce only what happened? | webhook on, one restart |
| `one_at_a_time` | Without overlap: is released out of the group, is no grant ended early, do statuses only move forward, is an end recorded once, are messages true (but for an expiry whose write failed)? | isolated, all faults, webhook, one restart, manual removal |
| `elevation` | Without overlap and lost answers: does every member have an approved row, and does the service implement `Elevation`? | isolated, refused calls, two eligible users, two requests (of one user or of both), two handlers |
| `grants_end` | Does coherence survive failures at every call and an end of the process, and are the copies fit at every place? Does the ledger stay true when writes fail (but for that expiry)? Is every timed-out request and lapsed grant resolved in the end? | `FairSpec`, free interleaving, one handler, all faults, one restart |
| `access_ends` | Does the access behind a lapsed grant end? | `FairSpec`, isolated, Keycloak faults, one restart |
| `keycloak_client` | Are cached tokens good, good tokens kept, reported changes made, does a chain of calls implement the one operation of `GroupOperation`, and does every operation return? | two goroutines, tokens too short to cache and tokens that are cached, slow and failing calls, one recreated group, restarts |
| `oidc_login` | Does a login give one session at most, are callbacks refused only for cause, is the map exact, and how old can a session be when it is used? | two users, two logins, two codes, two overlapping callbacks with any state and any code, failing calls, one restart |
| `expiry` | When is a row ended too early, and how late? Which comparisons of texts are comparisons of times? | seconds of nine units in two digits of base three, interval 3, reconciles up to 4 long, a row that is written up to 4 after its handler read the clock or one left from before a restart |
| `ui_refresh` | Does the page show the tables in the end when the requests come to rest, and are notes lost only in the two ways it has? | `FairSpec`, one request, two chains, a user who types, failing calls |

Violation runs, one documented claim each:

| Run | What TLC finds |
|---|---|
| `stale_expire_orphan` | no failure at all: the reconciler reads a pending request, an approval goes through, the reconciler writes its stale copy as expired. The user is in `admin-active` and nothing will ever take him out |
| `double_approve` | two approvals read the same pending row; the slower one revives a grant that was released in between |

Why the bounds are enough: a goroutine holds one row, and two goroutines
interact through one row or through one user's membership.  Two handlers and
the worker on one request give every pair of operations on a row, and a third
handler repeats one of the first two.  One restart reaches every program point
and every state a restart finds; a second one starts from such a state again.
`elevation` adds the second request and the second user.  In `keycloak_client`
the margin and the HTTP timeout are one step each, as both are 30 s in the code: the
latest issue, the slowest answer and the last moment of the cache meet, and the
clock goes on to the renewal.

In `oidc_login` two logins and two codes give both cases that matter, two codes for
one state and one each; every duration is one unit of half a second, so that login,
calls, code and session end one after the other within the six units of the
clock, and truncation to whole seconds is seen.  In `expiry` two digits of base
three give every kind of fraction (none, one digit, two, inner zero), a
reconcile longer than the interval fills the ticker's channel, and the clock goes
two seconds past the latest deadline; the bounds of `EndsInTime` and `NotEarly`
are tight within a unit there.  In `ui_refresh` a third chain would overtake like
the second does, and rows do not influence each other.  The theorems of
section 5 do without the bounds.

`GrantRunsItsTerm` relates a ledger event to the row.  `AuditNeverAhead` and
`NoticeNeverAhead` are checked with failing writes and without; they make one
exception where writes may fail, for an expiry, because the expiry branch of
`handleApprove` goes on after a failed write: then ledger and webhook do say
"expired" of a row that is still pending (and may still be approved later).

`TextOrder` gives the whole of what can go wrong with texts: two times of the
same second, of which one fraction begins with the other (`10:00:00Z` and
`10:00:00.5Z`).  There the order is reversed, so a row can end early by less than
a second, or be found a tick later.

Deadlock is checked in every run: with the clock at its bound and the process
up, the worker goes on (in `Expiry`, `Horizon` stands for what the bound cuts
off; every state before it must have a step).

## 4. Fairness

`FairSpec` adds:

* weak fairness of `Tick`, of `Start` (an orchestrator restarts the process:
  `restart: unless-stopped`, a Kubernetes Deployment), of the worker
  (`ReconcileStep`: `time.Ticker` fires again, the Go scheduler runs the
  goroutine; HTTP calls have timeouts of 10 s and 30 s) and of each handler
  that is already under way;
* strong fairness of `Reconcile` and `ReconcileActive`: the first because under
  `Isolated` handlers may take turns with the worker; the second because a query
  that fails again and again succeeds once;
* strong fairness, per request, of a *successful* expiry write, group removal
  and release write.  It says that an outage ends: a call that is tried for one
  row at every tick, for ever, is not refused every time.  No fairness is
  assumed of calls that are made once.

`KeycloakClient` assumes weak fairness of the answers to its HTTP calls (each of
them ends at its timeout) and strong fairness of taking the mutex, which Go's
`sync.Mutex` gives: a waiter that fails for 1 ms is served next.

`UiRefresh` assumes weak fairness of the server's answers and their arrival (a
browser ends a request at last), strong fairness of the interval (it fires every
ten seconds; strong, because buttons may hold both chains of the model again and
again, while a browser has no such limit) and strong fairness of a good answer
to each kind of read: an outage ends.  It does not assume that `/me` ever says
"permanent".  `OidcLogin` and `Expiry` state safety only; `Expiry` forces its
ticks by the guard of `Tick`.

Nothing is assumed about users: no request, approval or release need ever come.

## 5. Theorems

`JitAccessProofs` proves, for every set of users, requests and handlers, all
faults, no fairness, and every value of the bounds on time and restarts:

| Theorem | Statement |
|---|---|
| `TypeCorrect` | `Spec => []TypeOK` |
| `TableCoherent` | `Spec => []RowsCoherent` |
| `CopiesAlwaysFit` | `Spec => []CopiesFit` |

`KeycloakClientProofs` proves, for any number of goroutines, any token lifetimes
and any margin that is no shorter than the HTTP timeout:

| Theorem | Statement |
|---|---|
| `CachedTokensAlive` | `Spec => []CachedTokenAlive` |
| `FreshTokensKept` | `Spec => FreshTokenKept` |
| `OkAlwaysDone` | `Spec => []OkMeansDone` |
| `GroupOperationImplemented` | `Spec => GroupOperationSpec` |

`NotifierProofs` proves `PostedAtMostOnce`, `Spec => []AtMostOnce`, of `Notifier`.
`JitRecordsProofs` is about the service whatever overlaps, with any Keycloak
faults and any removal by hand:

| Theorem | Statement | Where |
|---|---|---|
| `ServicePostsOnce` | `Spec => []AtMostOnce` | always |
| `LedgerNeverAhead` | `Spec => []AuditNeverAhead` | always; an expiry is excepted if `DbFaults` |
| `MessagesNeverAhead` | `Spec => []NoticeNeverAhead` | always; the same |
| `LedgerAccounts` | `Spec => []LedgerComplete` | `DbFaults = FALSE`, `MaxStops = 0` |
| `LedgerSkipsNothing` | `Spec => []NoStepSkipped` | the same |

`JitOneWriterProofs` is about the behaviours in which no two goroutines are
between reading and writing the same request, for every number of users,
requests, requests per user and handlers.  Different requests, also of one
user, are worked on at the same time:

| Theorem | Statement | Where |
|---|---|---|
| `RequestsMoveForward` | `Spec /\ []OneWriter => LifecycleOneWay` | all faults and restarts |
| `ReleasedStays` | `Spec /\ []OneWriter => ReleasedIsFinal` | all faults and restarts |
| `GrantsRunTheirTerm` | `Spec /\ []OneWriter => []GrantRunsItsTerm` | all faults and restarts |
| `GrantsEndOnce` | `Spec /\ []OneWriter => []EndsOnce` | all faults and restarts |
| `ReleasedAreOut` | `Spec /\ []OneWriter => []ReleasedMeansOut` | `MaxPerUser = 1`; all faults and restarts |
| `MembersAreApproved` | `Spec /\ []OneWriter => []NoOrphan` | `KcFaults \subseteq {"refused"}`, `DbFaults = FALSE`, `MaxStops = 0` |
| `NobodyLeftStanding` | `Spec /\ []OneWriter => []NoStandingAccess` | the same |
| `ElevationImplemented` | `Spec /\ []OneWriter => ElevationSpec` | the same, and `Removals = {}` |
| `OneAtATime` | `Spec => []OneWriter` | `Isolated` |

With `OneAtATime`, the first eight hold of every behaviour of `Spec` where
`Isolated` is set, which is how the runs check them.  `ReleasedStays` and
`NobodyLeftStanding` state what the two violation runs refute for the code as it is:
the overlap on one request is the only thing that breaks the first, and it or one
of the listed faults what breaks the second.

None of these conditions is there for the prover's sake.  Each one is a
behaviour of the code that breaks the property when it is allowed:

* `DbFaults = FALSE`: an audit whose write fails is gone, for the handlers go on
  (`LedgerComplete`, `NoStepSkipped`); an approval whose write fails after the group call leaves
  a member without an approved row (`NoOrphan` and what follows);
* `MaxStops = 0`: a process that ends between a write and its audit leaves the
  ledger without the event; one that ends between the group call and the write
  of an approval leaves a member without an approved row;
* `KcFaults \subseteq {"refused"}`: an `AddToGroup` reported as failed although it
  had its effect does the same;
* `Removals = {}`: `Elevation` has no step for an administrator of the realm;
* `MaxPerUser = 1`: a released row of a user who has another grant, approved
  later, says nothing about his membership;
* `OneWriter`: two operations on one request at once, which is what
  `stale_expire_orphan` and `double_approve` show; a release and the reconciler
  at once record the end of a grant twice (`EndsOnce`).

`OidcLoginProofs` proves, for any number of users, logins, codes, overlapping
callbacks and restarts, and any durations:

| Theorem | Statement |
|---|---|
| `LoginInvariant` | `Spec => []IInv`, with `TypeOK` in it |
| `LoginOnce` | `Spec => []OncePerLogin` |
| `OpenLogins` | `Spec => []StatesAreOpenLogins` |
| `RefusedCause` | `Spec => RefusedForCause` |
| `FreshLogins` | `Spec => []ActsOnFreshLogin` |
| `SessionTerm` | `Spec => []SessionRunsItsTerm` |

`ExpiryProofs` proves, for any base and number of digits, any interval and any
length of a reconcile:

| Theorem | Statement |
|---|---|
| `NeverEarly` | `Spec => []NotEarly` |
| `AlwaysInTime` | `Spec => []EndsInTime` |
| `TextsOrdered` | `Spec => []TextOrder` |

`UiRefreshProofs` proves, for any number of requests and chains and all failures
of the calls:

| Theorem | Statement |
|---|---|
| `DraftsAreKept` | `Spec => []DraftKept` |

*The argument.*  `RowsCoherent` alone is not inductive: `Update` writes a copy
that a goroutine took some time ago over whatever the row says now, so
coherence of the table rests on coherence of every copy.  `CopiesFit` says
this: a goroutine's copy has the status of its program point, is coherent, and
agrees with the stored row on the columns no statement changes (user and
deadline); the rows of a query fit in the same way and, if pending, are past
their deadline.  The inductive invariant is

    IInv == TypeOK /\ Keyed /\ StoredCoherent /\ CopiesFit

with `Keyed` (a row is stored under its id) and `StoredCoherent` (coherence by
key instead of by row).  A copy is constant between two steps of its owner, and
coherence is preserved by the clock (`CoherentLater`, `FitsLater`); so a step
only has to establish that the row it writes is coherent, which it is because
it wrote one fit copy with one transition's columns (`UpdatedIsCopy`,
`StoreCopy`, `UpdateStep`).  What an action leaves alone is said once per group of
actions (the frame lemmas `HandlerWrites` to `ClockWriters`), so that later proofs
take up only the actions that write what they are about.  An approver's permission is known only at the
`Get`; that `actor` is still a permanent administrator at `ApproveDecide` is
the separate invariant `DeciderPermitted`.  The proof has one lemma per action.

`AtMostOnce` rests on `Owned`: a note is owned by one goroutine at most, between
its mark and its post, and only while it was never posted.  It is proved of
`Notifier`; every step of the service makes one of its moves or none.

*Ledger and messages.*  That nothing is told ahead of the table would follow from
the order of the calls if a row could not go back to pending: `Update` writes a
whole copy.  So the invariant `LInv` says that a goroutine at a place after
pending works on a row that has left pending (`CopiesLeft`, `TodoLeft`), and
`StepForward` that no step takes a row back: a copy that is written has left
pending itself.  The one call that goes on although its row may still be pending
is the expiry branch of `handleApprove` after a failed write, which is why an
expiry is excepted where writes fail.  `LedgerComplete` is kept because who leaves an audit call has
recorded (`AllAccount`) and who writes a row goes to his audit call
(`StepRecords`); that the event names the approver that the row names is
`OwnApproval`.  `NoStepSkipped` is about handlers that overtake each other: a
release may record the end of a grant before the approver has recorded its
beginning.  It is kept because what a goroutine works on rests on what somebody
wrote (`SInv`): of every row the creation is on record or its creator is about to
record it, and likewise the approval of every row that has ended or is being ended.

*One writer per request.*  The one invariant behind it is `RowSync`: a goroutine's
copy is the stored row, or one change ahead of a pending one (`CopySync`, `TodoSync`,
with the two cases by place).  It is inductive because nobody else writes that
request before its owner does (`RowKept`), and a row that is released is not
written any more.  From it, `Changes` lists the ways a step changes the table: a
new row, pending to approved or expired, approved to released;
`RequestsMoveForward` is immediate, and `ReleasedStays` follows from it.
`GrantsEndOnce` adds that whoever is about to record an end has just written it,
alone (`EndersWrote`, `OneEnder`), and that every end on record is of a row that is
released and stays so (`EndsWritten`).
`GrantsRunTheirTerm` adds that the reconciler's clock reading stays behind the
clock and that what it holds is over by it (`TermRead`), and that a released row
does not change (`TermKept`).  `ReleasedAreOut` adds that who was taken out is
still out when the row is written (`Out`), for only an approval puts anybody in, and
with one request per user (`OnePerUser`, from the count that `HandleCreate` makes)
it would be an approval of the same request.  For `MembersAreApproved` several
requests of one user may be in work, so it is not enough to look at one of them:
`Covered` names what accounts for a membership, an approved request that nobody has
taken the user out for (`Live`), or an approval between its group call and its write.
A live request stays live until a goroutine is about to write its end (`LiveStep`),
and whoever comes to that point has just taken the user out (`EndsNow`).
`OneAtATime` is `Apart`: no two goroutines hold requests of the same user, an
invariant under `Isolated` by the guards alone.

*Refinement of `Elevation`.*  The promise sees a request's row together with the
goroutines between a group call and the write after it (`Opening`, `Closing`):
the mapping takes the grant as opened or closed with the group call.  `Seen` says
in one line per state what it sees; under `OneWriter` there is one goroutine at most
in such a window, and the CHOOSE of the mapping picks it (`SeenAsIs`).
`HandlerPromise` and `WorkerPromise` then go through the actions: each is an
`Ask`, `Open`, `Close` or `Lapse`, or leaves all that is seen.

*Refinement of `GroupOperation`.*  A goroutine that has not returned has result
`"none"` and has changed nothing (`OpInv`), so every answer is the first one
(`RefusedStep`, `GroupsFoundIsDone`, `ChangedIsDoneOrLost`), and the links of the
chain before it are not seen (`ChainStutters`).

`CachedTokenAlive` needs to know how far the client's reckoning can be off: a
token was issued after it was asked for and answered within the timeout, so
`expiry <= dies + HttpTimeout` (`TokenInv`, which needs `FetchInv` for the request under
way).  With `HttpTimeout <= Margin` a token that passes the margin test is alive.
Both are 30 s in the code; the proof fails without this assumption, so a shorter
margin or a longer timeout would break the property.  `FetchInv` also says
that only the holder of the mutex fetches and that no good token is there while
he does, which is `FreshTokenKept`.

*Login.*  `OncePerLogin` is about cookies, but the reason lies three steps earlier:
the lookup deletes the state in the same critical section.  The invariant says
so step by step: the map holds the open logins (`StatesAreOpenLogins`), so a
callback gets past the lookup only with a login nobody has presented; hence
two callbacks that wait never work on one login (`Exclusive`), and none works on
a login that has its session (`SessionsOfLogins`).  The times add up along the
same way.  None of this asks which code comes with a state: a callback that is past
the token request has a code of its own login, because the verifier that its
state brought was the one Keycloak asked for (`CallsOfLogins`).

*Expiry.*  A text begins with its second, so an order of texts gives an order of
seconds (`ExpiredSound`, `ExpiredComplete`); that a fraction is a sequence at all
needs a least number of digits (`KeptIsANumber`, by well-foundedness).  For the
delay the invariant says when the tick of the reconcile that ends the row comes
(`RowInv`, `TickerInv`): within an interval of the start of the reconcile that
did not find it due, or already in the channel.

*Texts.*  `OrderOfTexts` is about all times, with any base and number of digits: the
first digit that differs decides (`DigitDecides`, over `Top`, the number that the
first digits make), trailing zeros change nothing (`SameText`), and two fractions
of which neither continues the other differ at a digit both have
(`SomeDigitDiffers`).  What a position counts is the constant `Unit`, with the
powers of the base as its one solution (`DigitsAssumption`).

*Page.*  A draft is read when `/me` arrives and put back when the list does; between
the two the user may type.  The invariant says of every chain what its drafts are
worth: the text that was typed last, or the box is in `hurt`.

The assumptions are `ClientAssumption`, `NullAssumption`, `ConfigAssumption`,
`LoginAssumption`, `DigitsAssumption`, `ExpiryAssumption`, `PageAssumption` and
`GrantAssumption`: `Null` is no value of the model, the worker is no handler, roles are held by users, durations are
natural numbers, a base has two digits at least.

*Model-checked only.*  Liveness (`PendingResolved`, `GrantEnds`, `AccessEnds`,
`Returns`, `CatchesUp`): temporal reasoning under fairness is outside the prover's
reach.  Every invariant, every action property and every refinement
(`ElevationSpec`, `GroupOperationSpec`) of the passing runs is a
theorem.  What remains a reading is the step from `GroupOperation` to
`JitAccess`: `Answer` there and the group call here are the same three outcomes,
but `JitAccess` is not composed with the client state by state.

## 6. Divergences between code and documentation

With a run (see "findings" in `PROJECT.json`): `stale_expire_orphan`,
`double_approve`.

Met while modelling, each of them a behaviour of the model, without a run of
its own:

* the process ends between the group call and the write of an approval
  (`api.go:277-287`): the row stays pending and expires, the membership stays,
  and no reconcile looks at it; against README.md:31 "no orphaned access" and
  SECURITY.md:51 (`NoStandingAccess` fails with `MaxStops = 1` as it does in
  `stale_expire_orphan`);
* the answer to `AddToGroup` is lost: `handleApprove` reports 502 (`api.go:277`),
  the row stays pending and expires, the membership stays;
* `release` and `Reconcile` remove the user from the one group whatever other
  approved request he has (`api.go:330`, `:379`): the other grant stays approved without
  access;
* a crash between an `Update` and its audit leaves a transition out of the
  ledger (`api.go:287-292`), against README.md:32 "Fully audited";
* `release` always passes `breakGlass = false` (`api.go:342`), against
  SECURITY.md:54;
* a self-approval is written like any other (`api.go:291`), against
  docs/journey/PHASES.md:71 and SECURITY.md:53;
* a release and the reconciler that end one grant at once write its end into the
  ledger twice (`api.go:342`, `:390`);
* a failed post is never repeated because the note is marked first
  (`notify.go:57`), against docs/journey/DEFINITION_OF_DONE.md:97;
* the expiry branch of `handleApprove` audits and announces an expiry whose
  write failed (`api.go:269`);
* an abandoned login stays in the map until the process ends (`auth.go:60`);
  `StatesAreOpenLogins` says which entries these are;
* `handleMe` takes a failing group lookup for "no" (`api.go:118`): the page of an
  administrator turns into one without text areas, and what he typed is gone
  (`hurt` in `UiRefresh`); the same text is lost if he types while a list is
  awaited (`app.js:75`).

## 7. Not modelled

* A change of the group that Keycloak makes only after the client has given up on
  the call: in the models an effect comes with the answer at the latest, be it an
  error.
* Two replicas on one database: `values.yaml` has one replica; the overlap of a
  rolling update is planned.
* Wording of messages, justifications and notes; the filters of `handleAudit`,
  `handleGet`.
* The bytes of cookies, signatures and PKCE challenges; the group names in a
  session (`Session.Groups` is written and never read for a decision).
* In the page: countdowns, the deep link, the sign-out link; `ui.go` serves
  embedded files and keeps no state.
* `config.FromEnv` is read once; it accepts a `POLL_INTERVAL` of zero, with which
  `time.NewTicker` panics at start (`ExpiryAssumption` excludes it).
* `setup.sh` and the lab scripts are sequential and run by hand against a lab
  realm; `deploy/`, `Dockerfile` and compose are declarative.

## 8. Plan

Done: `RequestStore`, `Notifier`, `JitAccess`, `Elevation`, `KeycloakClient`,
`GroupOperation`, `OidcLogin`, `TimeText`, `Expiry`, `UiRefresh`; theorems for all
invariants, action properties and refinements that the runs check, those on
membership and lifecycle with one writer per request instead of one operation
per user.

Next: rolling updates, two processes with a reconciler each on one database.
