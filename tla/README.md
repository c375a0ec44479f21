# kauth in TLA+

kauth is a single-process login server in Go on SQLite: it logs users in by
magic link, password or an external provider, issues access tokens and
rotating refresh tokens to services, and has an admin panel. This directory
models the parts of it where requests race with each other, with the admin
panel, with the clock, with the hourly cleanup and with failing statements;
TLC checks the models on small instances, and TLAPS proves every safety
property those runs check for all instances.

Run, in this directory:

    tlc -workers 2 -config MCRefreshTokens.cfg MCRefreshTokens
    tlapm RefreshTokensProofs.tla

`PROJECT.json` lists the runs with their configurations, a faulty variant of a
definition that breaks each checked property, the source lines of every
definition, the findings, the hazards and the theorems.

## 1. The system

### Components, state and operations

| Component | State | Operations | Interacts with |
|---|---|---|---|
| Refresh tokens (`internal/token/refresh.go`, refresh branch of `auth/token_endpoint.go`) | table `refresh_tokens` | Issue, Rotate, classify a rejected token, RevokeFamily, RevokeFamilyOfToken | login completion, logout, admin panel, cleanup, codes |
| Authorization codes (`auth/dispatch.go` level 0, `auth/token_endpoint.go`) | table `authorization_codes` | issue, redeem, reuse | starts and revokes refresh families |
| Magic links (`auth/magic.go`, `admin/auth.go`) | table `magic_tokens` | request under a quota, confirm page, redeem, register | users table, email change, cleanup, mail |
| Link invitations (`auth/link_invite.go`, `admin/users_invite.go`) | table `identity_link_invites` | create, revoke, start, consume in the provider callback | identities, user administration |
| Identity resolution and federated login (`auth/identity.go`, `federated.go`, `google.go`, `microsoft.go`, `github.go`, `oidc_generic.go`) | tables `user_identities`, `users` | resolve (issuer, sub), auto-link by address, register | login completion, discovery |
| User administration (`admin/users*.go`) | table `users` | create, edit, deactivate, change address, unlink | revokes sessions, burns links and invitations |
| Admin login (`admin/auth.go`, `auth/google_admin.go`) | admin cookie, `admin_bound_at` | magic link, Google with binding | users, token epoch |
| Provider registry (`idp/registry.go`) | discovery entry per provider, assignments per service | Discover, fetch, ReloadAssignments | federated login, admin panel |
| Service registry (`service/registry.go`, `admin/services.go`) | list of services in memory | Resolve, Warmup, Invalidate; create and update | every handler reads it |
| Dispatch and logout (`auth/dispatch.go`) | cookies only | choose a redirect level, revoke and clear at logout | codes, refresh tokens |
| Audit (`audit/service.go`) | bounded queue, table `audit_events` | log, drain at shutdown | every handler |
| Cleanup (`jobs/cleanup.go`) | none | hourly deletions | all tables above |
| Keys and token epoch (`token/keyring.go`, `token/epoch.go`) | loaded keys, `email_changed_at` | sign, verify, reject tokens from before an address change | middleware, dispatch |

Every HTTP request is a goroutine. Requests share the database and two
in-memory registries; nothing else. SQLite admits one writer at a time
(`db/db.go`: WAL, `busy_timeout` 5 s), so a statement, or a transaction, is
atomic, and a request may be interrupted between any two of them. A statement
may fail (busy, cancelled context) and what was committed before it stays.

### What is hard

- Two requests with the same token, code or link.
- A revocation (logout, deactivation, address change, reuse) while a rotation
  or a login is between two statements.
- A statement that fails after an earlier one has committed.
- `now` read before the wait for the write lock.
- Cleanup that removes rows which reuse detection or the quota still needs.
- Expired provider metadata while the provider is down and logins keep coming.
- Two administrators saving at once, and the in-memory copies of what they save.

`PROJECT.json` lists these as hazards, each at its line and with the
properties that would catch it.

### What makes each component correct

- Refresh tokens: one usable token per family; a replay kills the family; an
  ended session stays ended; a deactivated user gets nothing.
- Codes: one family per code; a code and its family come into being together;
  reuse kills the family; an unverified caller changes nothing.
- Magic links: single use; the quota holds; no usable link follows an address
  to somebody else; deactivated accounts stay out.
- Discovery: one fetch at a time, paced; nothing too old; an outage is covered
  for seven days; waiters are answered.
- Identities: a lost race, a retry or a denial never logs in as somebody else
  than the account's owner; the transition rule links one account; nobody is
  registered without an identity; one account of an administrator is approved
  and admin sessions go through it; an unlink leaves no session behind (which the
  code does not keep, see the findings).
- Invitations: one link each, only for the invited user while active and at the
  address the mail went to, only in time and none after revocation; the quota
  holds.
- Federated login: every callback ends as its attempt was started, a spent state
  has no cookie left. Dispatch: a code is for the client of the login and goes to
  one of its addresses, whatever the unsigned cookie says, and a token that goes
  elsewhere leaves an audit event.
- Service and provider registries: when nobody is saving, memory equals the
  database, and a form does not drop what it cannot show.
- Audit: nobody blocks, nothing is sent on the closed queue, a clean end loses
  nothing, one write at most outlives the drain, and a signal ends the process.

## 2. The modules

| Module | Models |
|---|---|
| `RefreshTable` | the `refresh_tokens` table and its SQL statements as operators on a table value; the table's invariants |
| `RefreshTokens` | `EXTENDS RefreshTable`: request slots that run refresh, login issue, logout, deactivation, revocation for a user; cleanup; the clock |
| `Sessions` | abstract: a session starts once, alone, and what has ended has ended for good |
| `AuthorizationCodes` | `EXTENDS RefreshTokens`: composed with it over the shared table; `authorization_codes`, issue and redemption |
| `MagicLinks` | `magic_tokens` and the `users` columns it depends on: request, redeem, register, the admin panel's address change, cleanup |
| `DiscoveryCache` | one provider's discovery entry, its flights and callers |
| `Identities` | `users` and `user_identities`: the resolver, session completion, the binding of administrators, the panel's creation, renaming, deactivation and unlinking |
| `LinkInvites` | `EXTENDS Identities`: `identity_link_invites`, the panel's invitations and the linking, over the same users and identities |
| `Dispatch` | the registry's lookups, the login page's cookies and the levels of `/dispatch` |
| `FederatedFlow` | `EXTENDS Dispatch`: states, state cookies, starts and callbacks of the four kinds of provider, the Google admin login and the linking, in one browser with several tabs |
| `ServiceRegistry` | services, assignments and their copies in memory, with the saves of the panel and restarts |
| `AuditService` | the audit queue, its writer, and the end of the process |
| `RefreshTokensProofs`, `AuthorizationCodesProofs` | theorems on refresh tokens, with lemmas on the statements of the shared table, and on codes |
| `MagicLinksProofs`, `DiscoveryCacheProofs`, `AuditServiceProofs`, `ServiceRegistryProofs` | theorems on those modules |
| `LinkInvitesProofs` | theorems on `Identities` and on `LinkInvites`, whose invariant contains that of `Identities` |
| `FederatedFlowProofs` | theorems on `FederatedFlow` and `Dispatch` |
| `MC*` | instances for TLC (symmetry sets and the values a `.cfg` cannot express) |

### State and actions against the code

*Slots.* `req[r]` (`creq[k]` for codes) is a handler in progress: `pc` names
the statement it is about to run, the other fields are its local variables.
One action runs one statement or transaction and everything the handler does
up to the next one. `Rotate` is the transaction of `RefreshService.Rotate`;
`RotateRejected` and `classifyRejected` are the failed UPDATE and the reads
after it; `activeSessionUser`, `Authorize`, `RevokeFamily` follow in the order
of `PasswordHandlers.RefreshToken`. Actions named `...Fails` are the error
paths; `MaxFaults` bounds them in `RefreshTokens`, in `MagicLinks` every
statement may fail at any time.

*Rows.* A row has `st` `"none"`, `"present"` or `"deleted"`; the columns of a
deleted row are kept so that properties can still speak of it, and no action
reads them. Hashes are left out: a token is looked up by itself.
`revoked_reason` and texts are left out: nothing reads them.

*Time.* `clock` is abstract. A handler reads it when the code does, which is
before the wait for the write lock: in `RefreshTokens` and `AuthorizationCodes`
a handler may be delayed for any time, and `Issue` and `InsertAuthorizationCode`
pick any moment between their start and their insert; in `MagicLinks` and
`LinkInvites`, whose quotas depend on it, the wait is at most `Lag`
(`busy_timeout`), and a transaction that reads the clock and runs in one action
picks a time from `ReadBefore`. What was in time when it was read may have
expired by the wait for the lock when it is written (`InLockTime`).

*History.* `hist`, `chist`, `logins`, `revived`, `lastEnd`, `links`, `doubt`,
`unread`, `moved`, `lost`, `late`, `hurried`, `started`, `completed`, `answer`
and the fields `replay`, `locked`, `at`, `owner`, `since`, `covered`,
`transition`, `approved`, `cut`, `withdrawn`, `lapped`, `traced` record what
happened, for properties only. No guard reads them. `hist.ended` records the
families whose session an answer ended, `hist.denied` those that were refused
after a rotation and whose revocation failed: the code gives the same answer
then, and `EndedSessionIsDead` speaks of both.

*Composition.* `AuthorizationCodes` adds its slots to `RefreshTokens` and calls
the same table operators in its transactions. `RedeemAuthorizationCode` is
"consume the code, insert the family's first row" in one step, as in `inTx`.

*Magic links.* A link is bound to an address; who has the address is asked
when the link is redeemed. `ConsumeMagicToken`, `LookupUser`, `RegisterUser`
and `CompleteLogin` are the separate statements of `Redeem` and, for purpose
`admin`, of `HandleVerifyPost`. Whether a service has auto-registration, policy
or the admin role says yes is configuration outside the module: both answers
are allowed. `HandleEmailChange` is one action because it is one transaction.
`HandleCreate` stands for every way another account gets an address.

*Discovery.* What `Discover` and `fetch` do under the entry's mutex is one
action; `close(f.done)` comes after the unlock and is an action of its own.
A document is represented by the time its fetch began. Flights are slots;
a closed flight that nobody waits on is collected.

*Identities.* A login is one action per statement of `resolveOnce` and its
callees: `GetIdentity`, `GetMatchedUser`, `LookupEmail`, `Link`, `ReadBack`,
`Reread`, `denyLink`, `register`, and `Retry` for `errRetryResolve`. `Link` has
the condition of `LinkIdentityIfFirst` because the statement has it, and
`register` and `bindAdminIdentity` are transactions, one action each. Every
step may fail (`LoginFails`), which also stands for a refused policy or role.
`NewKey` gives out row keys as SQLite does for a table without `AUTOINCREMENT`.

*Invitations.* `BeginInvite` reads user and time, `InsertInvite` is the
transaction that burns and inserts, `MailInvite` or `AuditFails` follow. A stay
at the provider is a slot in `"external"`; `finishLink`, `finishAlready` and
`rejectLink` are the outcomes of one transaction. `Deactivate` and `ChangeEmail`
are Identities' actions with the burning their transactions also do. Logins are
reduced to what they write to the two tables (`LoginLinks`), at any time:
Identities has their steps, none of which reads an invitation.

*Federated flow.* A start signs a state and replaces a cookie; the callback is
`BeginCallback`, up to the call of the token endpoint, and `FailCallback`,
`DenyCallback` or `FinishCallback` after its answer. States and nonces are named
by the attempt that made them, so signing is assumed to work and what is checked
is what the code binds to what. The provider is external: it exchanges a code
once, for its client, with the verifier the state derives. A callback URL may
pair any state with any code, which is what a confused or repeated request does.
`ServeDispatch` is one action: the levels in order, with the redirect cookie
cleared once the token has been verified; a missing or invalid token
(`dispatch.go:88-98`) clears nothing. The `oidc_authz` cookie is unsigned, so
`AlteredAuthz` may put any client and any address into it at any time.

*Registries.* `Warmup` is two actions, read and swap, with nothing held between
them; `ReloadAssignments` is lock, read and swap. A row keeps `active` and one
column that a form may leave out. `enabled` is the `active` column of the
providers, which is switched in the database only (`SetProviderActive`) and read
by the next reload. `Restart` may happen at any moment and loads any set of
active providers, because environment and allowlist change outside the process.

*Audit and shutdown.* `Log` is call, check under the read lock, and send or
drop; a waiting writer of the lock keeps new readers out, as `sync.RWMutex`
does. The writer receives an event, looks at `stop` and writes in three steps, so
Close may give up between any two. `main` goes through server shutdown, waiting for mail, closing the queue,
draining and closing the database, each left by completion or by its deadline.
A handler may outlive the shutdown; a failed server goes on with handlers
running; after the first signal `main` gives the signals back (`released`), and a
second one ends the process anywhere. After a failure of the server a signal
does nothing.

## 3. The runs

| Run | Checks | Shows |
|---|---|---|
| `refresh_time` | `SingleLiveToken`, `TypeOK`, `ReplayKillsFamily` | two handlers on one session with and without an absolute end, past every expiry and through cleanup |
| `refresh_live` | `EndedSessionIsDead`, `DeactivatedUserLockedOut`, `ReplayEventuallyKills` | two families, one failing statement anywhere; an ended session stays dead, a refusal whose revocation failed hands out no token to go on with, a presented replay ends with a dead family, unless a statement failed |
| `code_race` | `CodeAndFamilyTogether`, `ReusedCodeKillsFamily`, `CodeRedeemedOnce`, `MismatchTouchesNothing`, `ImplementsSessions` | two redemptions of one code against a refresh, logout or deactivation, one failing statement, expiry and cleanup |
| `magic_login` | `OneLoginPerLink`, `UsableLinkKeepsOwner`, `DeactivatedStaysOut`, `QuotaHolds` | two requests and two links, two users and addresses, registration, a quota of one, over more than a window, with expiry and cleanup |
| `discovery_cache` | `SingleFlight`, `NeverTooOld`, `OutageIsCovered`, `FetchesArePaced`, `WaitersAreAnswered` | two callers, cancelled or not, through expiry, outage and recovery |
| `identities` | `OneTransitionLink`, `ResolvedAsOwner`, `AdminThroughApproved`, `OneApprovedAccount`, `NoOrphanRegistration` | two logins, service or admin, two Google accounts, two users exchanging two addresses, a strict and an open service |
| `link_invites` | `InviteLinksOnce`, `InviteQuotaHolds`, `InviteLinksInvitee` | two invitations, two handlers, one account that logins claim too; a link is made in time only |
| `service_registry` | `CacheFollowsSaves`, `OfferedAsAssigned`, `UnloadedAssignmentsKept` | two overlapping saves of one service and its two providers, a failed renewal, providers switched in the database, restarts |
| `audit_shutdown` | `NoSendOnClosed`, `CleanEndLosesNothing`, `OneLateWrite`, `LogReturns`, `ShutdownEnds` | three handlers, a queue of one, every deadline met or missed |
| `federated_flow` | `EndedAsStarted`, `SpentStateGone`, `ForeignDeliveryTraced`, `CodeForItsLogin` | two attempts through any provider and purpose, two callbacks at once, two services that share an address, altered cookies, one change by an administrator |
| `admin_key_reuse` (violated) | `ApprovedAccountLoggedIn` | the first finding below |
| `unlink_race` (violated) | `UnlinkEndsSessions` | the second finding below |

A type invariant that is not a property of its own is the first conjunct of the
invariant named first in its run.

### Bounds and why they are enough to be interesting

- Three tokens give a chain of two rotations, so a token can be consumed
  while its child and grandchild exist, or two families with one rotation.
- Two request slots are what a race needs; every property is about a pair of
  handlers or about one handler and the environment. More slots are covered by
  the proofs.
- `TTL = 2`, a family end of 3 and `MaxClock = 4` let a token expire before its
  family, the family expire, and cleanup run before, between and after.
- `MaxFaults = 1` puts one failing statement anywhere; two failures in one
  request end it at the first.
- In `code_race` tokens and codes live 1 and the clock runs to 2, so both expire
  and are cleaned up while a redemption is between two statements. Two tokens and
  two families are what a second family from one code, or a rotation, needs.
- In `magic_login` the window and a link's life are 2 and the clock runs to 3: a
  link is compared with the one of an earlier tick, leaves the window, expires
  and is deleted. Two users are enough for a registration at the address of a
  deactivated one. The lag is 0; requests that waited for the write lock are
  covered by the theorem.
- `TTL = 2`, `MaxAge = 3`, `NegTTL = 1`, `Timeout = 1`, `MaxClock = 5` let a
  document be fresh, stale, renewed, failed to renew, dropped and fetched
  again. `Flight` has three slots: a caller that would need a fourth flight
  has to wait until one is collected.
- Two Google accounts, two users and two addresses are what a wrong link needs
  (an account, its owner and somebody else) and what a race for the approval of
  one administrator needs. The two violated runs have one account at Google and
  one at Microsoft. Two policies (nothing automatic, everything automatic) reach every branch of the
  resolver but `EmailUntrusted`, which only refuses.
- An invitation lives 2, the window is 2 and the clock runs to 3: invitations of
  different ticks are compared, a valid one is replaced, one leaves the window,
  expires and is cleaned up.
- Two services of which one has the other's address as well make every level of
  `/dispatch` and every kind of mismatch happen. One code per attempt suffices
  since a code is only compared with its attempt.
- `MaxFaults = 1` of the registry run is one failed renewal of either copy.
- A queue of one with three events is full, drained and full again, and leaves
  an event behind the write that outlives the drain.
- Two runs have a `VIEW`, so that states that differ in what it leaves out are
  one state: in `code_race` the history of `RefreshTokens` and the fields of its
  slots that only that history reads (`outcome`, `replay`, `locked`), in
  `identities` the rows of `sessions`. No guard reads what is left out, no property of those runs
  mentions it, and no value in the view depends on it, so a state and its
  representative have the same steps and the same verdicts; there is no liveness
  in those runs. The properties about what is left out are checked elsewhere, in
  `refresh_time`, `refresh_live` and `unlink_race`.
- Symmetry is used only without liveness; the constants in a symmetry set are
  only compared for equality.

### Fairness

`ReplayEventuallyKills` assumes weak fairness of the steps of each request
slot: a handler that has started is a goroutine, SQLite's lock is released
within its timeout, and the revocation runs under `context.WithoutCancel`, so a
client that goes away does not stop it. No fairness is assumed of clients, of
the administrator, of the clock or of cleanup.

`WaitersAreAnswered` assumes weak fairness of each fetch (it has a timeout of
ten seconds and runs in its own goroutine with a recover) and of a waiter whose
channel is closed. Nobody has to call, and nobody has to cancel.

`LogReturns` and `ShutdownEnds` assume weak fairness of `main`'s steps, each of
which has a deadline in the code, and of the goroutines inside `Log`, which
wait for nothing but a mutex. Nothing is assumed of handlers, of the database,
of mail or of the writer: they may hang for ever.

### Findings

`admin_key_reuse`: `bindAdminIdentity` finds the identity to approve by a key
that was read in an earlier statement. `user_identities` is declared without
`AUTOINCREMENT`, so when the identity is unlinked in between and another account
is linked to the same user, that account may have the key: it is approved for
admin without having logged in there, and the login the code would have refused
as `adminIdentityVanished` goes on. Looking the row up by issuer and subject, or
`AUTOINCREMENT`, would close it.

`unlink_race`: `HandleUnlink` revokes the user's refresh families in the
transaction that deletes the identity, because "uten den lever sesjonene til den
frakoblede kontoen videre i opptil refresh-TTL" (`admin/users_identity.go:18-20`).
A login that resolved the account before the unlink inserts its refresh row after
it (`auth/login_complete.go:60-95`, the insert at line 77), and nothing looks at
the identity again: that session lives on. Checking the identity in the
transaction of the insert would close it.

### Known divergences

Met while modelling, visible in the models, and not turned into runs, since the
properties that hold are stated beside them:

- `refresh_tokens.sql:28`: a family without `refresh_token_max_age` forgets its
  consumed rows after thirty days while it lives on, so a replay of such a token
  is unknown and revokes nothing; src/README.md:20 promises revocation.
  `ReplayKillsFamily` is about families with an absolute end.
- `auth/token_endpoint.go:324`: when the user lookup fails after a committed
  rotation nothing is revoked "so the user is spared a new login", but the
  client's token is consumed and the new one was never sent: the retry is a
  reuse. src/doc/FEATURES.md:213 promises a 500 and a retry.
- `auth/token_endpoint.go:326,339,373` and `token/refresh.go:374-380,447-453`: a
  reuse or a refusal whose revocation fails is answered as if it had worked, the
  error is only logged, and the family's rows stay alive (a failed logout does
  report it). `EndedSessionIsDead` shows what is left of the promise. After a
  refusal the live child was sent to nobody and never will be: nobody has a token
  that a refresh would accept. After a reuse nothing is left: the family goes on
  with whoever has its live token.
- `jobs/cleanup.go:95`: a used code is deleted after its sixty seconds;
  presenting it later is unknown and the family lives on, unlike
  src/doc/FEATURES.md:337. `ReusedCodeKillsFamily` is about codes still known.
- `auth/magic.go:364`: between the statement that consumes a link and the lookup
  of its address, the address can change hands (`admin/users_email.go:33` means
  to exclude it). `UsableLinkKeepsOwner` shows that the burning is right: only a
  link already consumed can follow the address.
- `service/registry.go:23`: of two overlapping saves, the one that read first
  may swap last, and the cache keeps the older list until the next save.
  `CacheFollowsSaves` excepts it (`doubt`), and with it every renewal that was
  lapped, harmless ones too, and every renewal that failed.
- `admin/services.go:302`: a service switched on after providers were assigned
  to it offers them only after the next reload or restart, and a provider switched
  in the database is offered, or not, as before until then (`moved`).
- `audit/service.go:81-90`: when Close gives up, the writer may be past its look at
  `stop`, and its insert runs on a database that is about to be closed, or is.
  `OneLateWrite` shows that nothing follows it.

## 4. The proofs

Every invariant and every action property of the passing runs is a theorem, for
any number of tokens, families, users, services, codes, links, accounts,
invitations, providers, attempts and requests, any lifetimes and any bounds.
The proofs use the named assumptions of the modules only:

- Times and bounds are natural numbers; quotas, the queue's capacity, the
  lifetime of an invitation and `MaxAge` are positive.
- `TTL <= MaxAge` for discovery documents (24 hours, 7 days); the window of the
  magic-link quota is not longer than a link's life; `Window + Lag <= InviteTTL +
  Retention` for invitations, so that cleanup does not delete what the quota
  still counts.
- `Link`, `Invite` and `Subject` are finite, since quotas and keys count them.
- Names do not collide: `None` is no element and no record of the sets it
  stands beside, a handler is not called `"waiting"` or `"done"` as the writer's
  states are, and a slug is not the name of a built-in method. The code does
  not reserve those names, and need not: its generic paths and cookie are
  others than the built-in ones, and a method here stands for path and cookie.
- A service has at least one callback address (the form insists on it).

Each module has one inductive invariant; the properties follow from it.

*Refresh tokens.* `IInv` is `TypeOK`, the table invariant `TableInv`, `ReqInv`
for every slot and `HistInv`. `TableInv` says that a
family's rows agree and are revoked together, that at most one is unused, and
that parents are consumed rows of the same family with one child: none of these
is inductive alone, since rotation keeps "one unused row" only because the row
it consumes was that row. `ReqInv` says that what a handler carries between
statements stays true of the table while others change it; it rests on
`Grows`: no statement un-inserts or un-uses a row or changes its family, owner
or end. `HistInv` carries the promises of past answers. One lemma per SQL
statement shows that it keeps `TableInv` and `Grows`; one step per action then
shows `IInv`. A second layer, `DenialInv`, is for refusals whose revocation
failed: only tokens that were sent are presented (`PresentedIsHeld`), a child not
yet sent is its handler's own and the only row of its family left to rotate
(`CarriedChildren`), so that once it is thrown away no row of the family that can
be rotated is held or about to be sent (`DeniedUnheld`). Safety properties follow, `DeadFamilyStaysDead` is an action
property, and the same facts give the refinement `FamiliesImplementSessions`.

*Codes.* `CodeIInv` keeps `IInv` as it is (a redemption is somebody else who
runs statements on the table) and adds that a used code names a family of its
own, and what a redemption relies on between its statements.

*Magic links.* `MagicIInv` is layered. `UniqueAddress` is the unique index.
`OnceInv`: a consumed link is held by at most one request that has not logged
anybody in, and an unused link has logged nobody in. `TimesInv` dates rows and
requests: created at most `Lag` before the insert, deleted only after expiry.
With it, every row that `QuotaHolds` counts was still in the table and in the
window when the last insert counted: `QuotaInsert` is that argument, with the
library's facts on finite sets.

*Discovery.* `DiscoveryIInv`: the flight in the entry is the one that is
fetching (`FlightInv`), the entry's times are those of the last fetches
(`EntryInv`), a waiting caller waits on a flight that still exists and was young
when it was joined (`CallerInv`). `NeverTooOld` is not inductive without the
last: the answer comes from the flight, the promise is about the call.
`FetchesArePaced`, an action property, follows from `EntryInv` at every start.

*Audit.* `AuditIInv`: who is between check and send holds the read lock and
found the channel open (`LockInv`, which is all `NoSendOnClosed` needs); how far
`main` is says what has stopped (`PhaseInv`); unless the end was hurried, an
event that was accepted is in the queue, with the writer or in a row
(`EventInv`). `CleanEndLosesNothing` is these three at the exit, with the queue
empty. `OneLateWrite` needs `LateInv`: after the late write the writer stands
before its look at `stop`, and `stop` stays closed. Nothing of this needs fairness.

*Identities and invitations.* `IdentityIInv`: a request that knows a user, and
was not cut by an unlink, knows the owner of its account's row (`ReqOwner`). It
is kept because every
statement but the unlink only adds rows or approves them (`Grows`), and the
unlink cuts the requests of its account; the transition rule keeps its
uniqueness because the insert has the condition (`TableInv`). `OneApprovedAccount`
has a layer of its own, `ApprovedInv`: an approved account has a bound owner, a key
belongs to one row, and users are never deleted, so the transaction that binds
finds no approved account of its user and approves one. `InviteIInv` adds,
over the same tables, how an invitation's row, its dates and the accounts it
linked agree (`RowInv`): the transaction that links also uses the row, and
withdrawing uses it too. `InviteQuotaHolds` follows the argument of the magic
links: what was cleaned up is out of every window an insertion may still count.

*Federated flow and dispatch.* `FlowIInv` follows an attempt: the claims of its
state say what it was started for (`ClaimsInv`, one case per `sign...State`), a
cookie holds only states of its own method (`CookieInv`), and a callback that
got past its checks is on the path of its attempt (`HandlerInv`: the cookie
tells the built-in methods apart, the slug in the state the generic ones, which
share a cookie). `EndedAsStarted` then needs only that the code is of the
attempt, by the verifier for GitHub and by the nonce for the others.
`SpentStateGone` needs `CookieInv`: clearing the cookie of the path clears the
only cookie the state can be in. The levels of `/dispatch` give
`ForeignDeliveryTraced` one by one. `CodeForItsLogin` is about any cookie, altered
ones too: `TokenInv` says that a token the browser has names a service it has
completed a login for, and level 0 holds cookie against token and address against
registry.

*Registries.* The properties speak of moments without a save; `RegistryIInv`
says of every moment who will make them true. A copy of the services that is
behind has a renewal ahead that will read the table, or has read it as it is,
unless it is in doubt (`CopyInv`); what a renewal has read is right, or it was
lapped, or such a renewal is ahead (`RenewalInv`). For the assignments the mutex
leaves one reload between read and swap, and if what that reload read is behind,
the request that changed the table still waits for the mutex (`PublishInv`). A
provider or service switched in between makes no such request; `moved` records it
until the next reload (`SwitchStep`).
`UnloadedAssignmentsKept` rests on the picks being among the loaded providers,
which only a restart changes.

Six theorems state definitions that no run repeats, because the proof covers
them for every instance: `FamilyMovesTogether`, `OneChildPerToken`,
`DeadFamilyStaysDead`, `CodeTypeOK`, `CodeOfDeactivatedUser`, `MagicTypeOK`.

### Model-checked only

Liveness (`ReplayEventuallyKills`, `WaitersAreAnswered`, `LogReturns`,
`ShutdownEnds`) and everything with `ENABLED` is out of the prover's reach, and
so is induction over recursive data; the first four stay with TLC, under the
fairness stated above. The two findings are counterexamples, so nothing is proved
of them.

## 5. Not modelled

Signing, hashing and PKCE (cryptography); HTML, localisation, mail transport,
configuration parsing, request logging; checks of one request that read no
state (Origin, Fetch metadata, parameters); the contents of access tokens, and
their comparison with the epoch, which reads one column once; the audit viewer;
the deletion of old audit rows; test providers and migration scripts; columns
of services and users that decide nothing. `PROJECT.json` gives the reason for
each.

## 6. Plan

Every component with state is modelled and every safety property of the runs is
proved. What would add most:

1. Abstract specifications for more components and their refinement, as
   `Sessions` is for refresh tokens and codes: an invitation or a magic link as
   a thing that is offered, then used or withdrawn, once and for good.
2. Theorems on what no step may undo: a used link, code or invitation stays
   used, a finished attempt stays finished, an approved account stays approved
   until it is unlinked.
