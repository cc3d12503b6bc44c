# Verification of tuenti

TLA+ modules for the parts of tuenti whose correctness depends on the order of
steps: sessions, one-time tokens, invitations, access to an organization's data,
trials, rate limiting, the catalog, and the start and stop of the server around
them. TLC checks every module on a small instance; TLAPS proves every safety and
action property that a passing run checks, and the refinements, for all values of the
constants. `PROJECT.json` maps each definition to the lines it was
translated from.

Run a check with `tlc -config <name>.cfg MC<module>.tla`, the proofs with
`tlapm <module>_proofs.tla`.

## The system

tuenti is one HTTP server (Echo) in front of PostgreSQL, Redis and Kafka, and a
job started by an outside scheduler. Any number of servers may run. They share
no memory: what interleaves are the SQL statements, transactions (READ COMMITTED),
Lua scripts and Redis commands of the requests they serve.

| Component | State | Operations | What is hard | What makes it correct |
|---|---|---|---|---|
| Refresh-token store (`identity/persistence/refresh_token_store.go`) | Redis: `refresh_token:*`, `refresh_family:*`, `refresh_token_used:*`, `user_sessions:*` | Save, Rotate, Revoke, RevokeAllForUser | concurrent rotations, replays, two clocks, expiry of each key | one usable token per session, an absolute end, ended sessions stay dead, replays are recognised |
| Sessions and password reset (`signin`, `refresh`, `logout`, `request_password_reset`, `confirm_password_reset`) | `users.password_digest`, `password_reset_tokens`, the store | the use cases of those names | no lock spans the database and Redis; a token is checked outside the transaction that burns it | a reset ends the sessions opened before it; tokens are burned when used or superseded |
| Sign-up and e-mail confirmation | `users.confirmed_at`, `email_confirmation_tokens` | SignUp, ConfirmEmail, ResendConfirmation | double clicks, a click racing a resend, a crash between a commit and its mail | a token confirms once, with its own account; success is never a lie; a link that arrived works in the end |
| Server and events (`cmd/main.go`, `infrastructure`, `internal/http`) | the hooks that are started; events the broker accepted | start, failing start, graceful stop, kill; publish | stopping while requests are served; events lost or late | stores and broker outlive the requests that use them |
| Invitations and memberships | `invitations`, `memberships`, `users` | CreateInvitation, AcceptInvitation, RevokeInvitation | checks apart from the writes they guard; three tables in one acceptance | one invitation in play per address, memberships only by invitation, no escalation |
| Access tokens, permissions, and the routes of customers, items and invitations | JWTs in circulation, `memberships`, the records | issue, RequireAuth, RequireOrganizationPermission, the handlers | partial checks must add up, differently for each kind of record; `created_at` is when a transaction began | records are managed by managers and admins and read by members of their organization only |
| Trials (`cmd/jobs`, `suspend_expired_trials`) | `organizations.subscription_status`, `trial_ends_at` | StartTrial, the sweep | overlapping, failing and killed runs, batches | nobody loses access early; every expired trial is suspended in the end |
| Rate limiting (`http/middleware/ratelimit.go`) | a Redis counter per key | one pipeline per request | INCR and PEXPIRE are not atomic and may be lost | bursts are bounded, lock-outs end |
| Catalog | `items`, `item_taxes` | item CRUD, listing | items and taxes are read by two statements, for one item or a page of them | readers see the taxes of one write; ids are not taken over |

They interact as follows. The use cases of identity call the refresh-token store;
sign-up and acceptance write tables of both identity and organization in one
transaction; issuing an access token reads memberships; every route of items,
customers and invitations passes `RequireAuth`, and those that write
`RequireOrganizationPermission`; the rate limiter stands in front of the
password-reset, resend and invitation routes. Events go to Kafka after the commit;
one that is not accepted is logged and lost, and with it the link it carried,
since the tables hold digests only. The stores, the broker and the HTTP listener
are hooks of one lifecycle, started in the order in which `cmd/main.go` lists them
and stopped in the reverse order; the listener's stop waits for its requests.

## Modules

| Module | Models | Remarks |
|---|---|---|
| `SessionLineage` | what the store promises: lineages opened, rotated, closed | abstract specification |
| `RefreshTokenStore` | the store, key by key | implements `SessionLineage` |
| `RefreshTokenStore_proofs` | theorems about it | |
| `AccountRecovery` | sign-in, refresh, log-out, both halves of a reset | composes with `SessionLineage` by `INSTANCE` |
| `AccountRecovery_proofs` | theorems about it | |
| `AppLifecycle` | the hooks of a process: start, failing start, stop, kill | knows nothing of the work in between |
| `ConfirmationLinks` | what confirmation promises: links offered, redeemed, withdrawn | abstract specification |
| `EmailConfirmation` | sign-up, mails, confirmation, replay, resend, in a server that stops and is killed | composes with `AppLifecycle`, implements `ConfirmationLinks` |
| `EmailConfirmation_proofs` | theorems about it | |
| `Memberships` | what the table of memberships promises: organizations founded, people let in | abstract specification |
| `Invitations` | create, accept, revoke, sign-up as founding | implements `Memberships` |
| `Invitations_proofs` | theorems about it | |
| `Access` | joining, access tokens, middleware, the routes of customers, items and invitations | sees acceptance as one commit; `Invitations` has it in full; implements `Memberships` |
| `Access_proofs` | theorems about it | |
| `TrialSweep` | StartTrial, access policy, the job | |
| `TrialSweep_proofs` | theorems about its safety | |
| `RateLimit` | the limiter's counters | |
| `RateLimit_proofs` | theorems about its safety | |
| `Catalog` | items, taxes, readers of one item and of a page | |
| `Catalog_proofs` | theorems about it | |
| `MC...` | symmetry sets for TLC | one per module with a run |

Conventions shared by the modules:

- One action is one thing that takes effect at once: a Lua script, a MULTI block,
  a SQL statement outside a transaction, or a transaction. What a request has
  read before it is a record in `call` (`saving` and `rotating` in the store,
  `run` in the sweep), with only the fields later steps use. The request as a
  whole is the disjunction of its steps, named after its handler.
- A transaction is one action where its row locks or unique indexes make it so;
  the head comment of each module says why. `AcceptInvitation` is the exception:
  its reads are actions of their own, because what others commit between them matters.
- Random identifiers (tokens, families, UUIDs) are members of a set taken when
  first used.
- The expiry of a one-time token is its `age`: `live`, `borderline`, `expired`.
  At `borderline` the database's clock and the servers' may answer differently, so
  each comparison may go either way. The store models clocks and times in full.
- `EndOfRequest`, `Abandon`, `SweepKilled` and `Lose` stop a request anywhere:
  cancellation, a crash, a failing database or Redis, validation.
- Variables marked "History" are read by no guard.
- An operator marked "Regression" is how a plausible bug would write the
  definition after it; each one is known to break a property, and is used nowhere.

### The store, key by key

`tokens`, `families`, `used` and `sessions` are the four kinds of keys; each value
carries the Redis time at which it expires (`exp`) beside its fields, and `Tick`
drops what has expired. `Rotate` reads the server's clock (`RotateBegin`), which
may be off by `Skew` and arbitrarily late when the script runs; the script's early
returns are `RotateRefused` (unknown, revoked, raced within the grace window),
`RotateReused` (a replay, which deletes the family), `RotateExpired` and `RotateOk`.
`opened`, `issued`, `spent` and `ended` are history, for properties to speak of
tokens that Redis has forgotten.

### Confirmation and the server around it

`registered` and `confirmed` are the rows of `users` and those with a
`confirmed_at`; `token` are the rows of `email_confirmation_tokens`; `mailed` the
events the broker has accepted, which a user may act on at any later time, in any
order and as often as he likes. `Publish` ends with the event accepted or not,
and its request is answered alike. `phase` and `open` are the variables of
`AppLifecycle`, instantiated with the five hooks of `cmd/main.go`: `StartServer`
and `StopServer` take its actions, and add that the hook `http` stops only when
no request is in flight (`Drained`); `KillServer` also loses those requests.
The tables and the broker are shared by all servers and survive them. One server is
modelled: with more, requests of the others go on while this one is down, which
the requests of an instance that is up already show.

An account's links are `open`, `redeemed` or `withdrawn` in `ConfirmationLinks`:
a used token is redeemed if it confirmed and withdrawn otherwise (`Link`). Its
`Redeem` is one step that burns the link and confirms the account, and takes open
links only: that two clicks at once cannot both redeem, nor a click redeem what a
resend has withdrawn, is what the refinement says.

### Whose organization it is

The routes of customers and items take the organization from the token, and their
statements filter by it. Those of invitations take it from the path. The permission
middleware looks at the token's, the handler compares the two
(`AuthorizedOrganization`), and creating and revoking look the role up once more in
the organization of the path; listing does not, and rests on the comparison.
`Access` has the three handlers behind one `Request`,
so that `OnlyManagersManage` and `AnswersStayInside` are about all of them.

`Invitations` and `Access` both write the table of memberships: the one by the requests
of sign-up and acceptance, statement by statement, the other by two commits that date
their rows. What they have in common is `Memberships`: `Found`, by a user of no other
organization, and `Join`, of somebody who is let in by a member who may grant the role.
`Access` maps its rows to their roles (`roleOf`). That both implement it means that
the short form in `Access` is held to the same promises as the long one.

### Counting what a limiter lets through

`granted[k][a]` is history: how many requests of key `k` the count has let through in
the last `a + 1` ticks. `Incr` adds one to every entry, `Tick` moves the entries on, so
`granted[k][Window - 1]` is what any window of time has seen, wherever it starts.

## Runs

| Run | Instance | Shows |
|---|---|---|
| `RefreshTokenStore` | 3 tokens, 2 families, 1 user, 2 calls in flight, TTL 2, lifetime 2, grace 0, skew 1, clock to 2 | type, inductive invariant, the five safety properties, refinement of `SessionLineage` |
| `AccountRecovery` | 1 user, 2 passwords, 2 reset tokens, 2 families, 3 refresh tokens, 2 requests | a reset ends the sessions saved before it; used and superseded tokens are burned |
| `AccountRecoveryOldPassword` | the same, `NoSessionOfOldPassword` violated | a sign-in that compared the old password opens a session after the reset |
| `AccountRecoverySpentTwice` | the same, `TokenSpentOnce` violated | two overlapping confirmations spend one reset token |
| `EmailConfirmation` | 1 account, 3 tokens, 2 requests, one server, with fairness | refinement of `ConfirmationLinks`; success is true; resending burns what it supersedes; requests never outlive a store; a delivered link confirms in the end |
| `Invitations` | 2 organizations, 2 addresses, 2 invitations, 2 requests | uniqueness, memberships only by invitation, atomic acceptance, no escalation, refinement of `Memberships` |
| `InvitationsExpiredBlocks` | `ExpiredNeverBlocks` violated | an expired invitation blocks a fresh one for good |
| `InvitationsRevokedLate` | `AcceptedNeverGainsRevoked` violated | a late revocation stamps an accepted invitation |
| `Access` | 2 organizations, 2 users, a customer, an item and an invitation, 2 requests, 3 joining transactions | management by managers and admins, reads by members; tokens settle on one organization |
| `TrialSweep` | 3 organizations, 2 jobs, trial 1, batch 2, clock to 3, with fairness | no access is taken, longest expired first, every expired trial ends suspended |
| `RateLimit` | 2 keys, 2 requests, max 2, window 2, with fairness | at most twice Max in any window; lock-outs end |
| `Catalog` | 2 organizations, 2 items, 3 taxes, 2 readers, 3 versions | taxes of one write, also on a page of items, no tax taken over, deleted items frozen |

Why these bounds are enough to meet the interesting cases: two requests make every
race of a check and a write, and each module's requests interfere only through
rows, so a third adds more of the same pairs. Three refresh tokens let one family
rotate twice, so that a token older than the last exchanged one can come back,
and two families let one end while another of the same user lives. A batch of 2
with 3 organizations leaves one behind. Three joining transactions are a founder
of another organization, a sign-up and an acceptance that overlaps it: the
case in which `Access` moves a user. One record of each kind is enough there,
since no statement touches two. Rows of two accounts never meet in
`EmailConfirmation` (every statement says `WHERE user_id` or names one token), so one
account is checked, with a token from its sign-up and two resends; the proofs cover any
number. Its tokens are numbered in the order in which they are minted and age
oldest first, which they do because they have one lifetime. `MaxClock`, `MaxVersion` and `MaxBegun` are
the only bounds on counters and appear in guards.

`CHECK_DEADLOCK FALSE` is set in `Access.cfg` alone: once `MaxBegun` is used up
and no user is registered, nothing is left to do. In the other modules time, a
request or its end is always possible.

### What the violated properties mean

Each states what a test or a comment of the repository claims, and the run shows
an interleaving in which the code does otherwise; `PROJECT.json` quotes the claims.

- Old password: `SignIn` compares the digest and saves the session in two steps.
  A reset that commits and revokes between them does not catch that session.
- Spent twice: `MarkUsed` of password-reset tokens ignores how many rows it
  changed; its e-mail counterpart does not.
- Expired blocks: the unique index on pending invitations cannot know expiry, and
  revoking an expired invitation is a no-op.
- Revoked late: the stamp of a revocation has no `accepted_at IS NULL`.

Behaviour worth knowing that no run refutes: of two clicks on one confirmation
link served at once, the second is told that the token is used; a sweep takes at
most 500 organizations, so "every organization" in the repository's README is true
of repeated runs only; an acceptance that began before its user's sign-up
commits counts as the older membership, and later access tokens name that
organization (`HomeIsSettled` says this cannot happen afterwards).

### Fairness

- `TrialSweep`: weak fairness of `SweepScan` and `SweepExit` is the scheduler
  starting the job again and a process going on; strong fairness of `SweepSuspend`
  says that an UPDATE tried again and again is not killed or failed every time.
  Nothing is assumed of the clock.
- `RateLimit`: weak fairness of `Tick`; strong fairness, per key, of `PExpire`
  (not every PEXPIRE is lost) and of `Incr` (its clients keep asking: the expiry of
  a key that lost its first PEXPIRE is only set by a later request, so a client that
  stops asking leaves a counter behind, and is locked out of nothing). The property
  holds while requests keep arriving at the locked key, the case in which `NX` matters.

- `EmailConfirmation`: the server is up again and again; a request that has begun ends
  (`WF` of `EndOfRequest`: requests have deadlines); a user who has been sent a link
  clicks on it again (`SF` of `ConfirmFind`, per token, since a server that is down or
  busy refuses him); and of the confirmations that reach their transaction again and
  again, some commit (`SF` of `ConfirmCommit`). Nothing is assumed of the broker:
  `DeliveredLinkConfirms` is about links that arrived, and a lost one is made up for by
  the user's asking for another only.

No other module claims liveness.

## Proofs

`RefreshTokenStore_proofs` proves, for any sets and any times allowed by
`TimeAssumption` (`TTL` and `Lifetime` positive, `Grace` and `Skew` natural) and
`NoKeyAssumption` (the absent key differs from every record):

| Theorem | States |
|---|---|
| `TypeCorrect` | `TypeOK` |
| `Consistent` | `IInv`, the inductive invariant |
| `OneLiveToken` | `OneLiveTokenPerFamily` |
| `EndedStayDead` | `EndedSessionsStayDead` |
| `LifetimeIsAbsolute` | `AbsoluteLifetime` |
| `ReplayRecognised` | `ReplayIsRecognised` |
| `IndexComplete` | `IndexCoversLiveTokens` |
| `StoreImplementsLineage` | `Spec => Lineages!Spec` |

Argument. None of the safety properties is inductive: that a token is the one its
family key names survives a rotation only if the family key expires no earlier than
the token, that a replay is recognised depends on tombstones that outlive tokens, and
that a reset finds a session depends on an index with an expiry of its own. `IInv`
therefore has one conjunct per kind of key and per kind of history:
`TokensConsistent` ties a token to its family, index entry, history and expiry;
`FamiliesConsistent` and `TombstonesConsistent` tie those keys to what was issued;
`SpentConsistent` and `IssuedConsistent` account for every token ever issued by a
tombstone, a token, an ended family or lapsed time; `IndexConsistent` and
`LiveTokensIndexed` bound the index's expiry from both sides; `RequestsConsistent`
bounds the stale clocks that calls in flight carry. One lemma per action (`SaveStep`,
`RotateOkStep`, `RotateExpiredStep`, `TickStep`, ...) shows that it keeps `IInv`; the
five ways of ending a session share `EndFamiliesStep`. The refinement maps a family to
the set of its usable tokens (`Bearer`); `IInv` makes that set a singleton where
`Rotate` of `SessionLineage` asks for one, and `StepRefines` maps each action to Open, Rotate,
Close or a stutter.

The tolerances in the properties are what the proofs need: a reset may miss a session
in its last `Skew` seconds, a log-out a token in its last `Skew` seconds.

`Invitations_proofs` proves all seven properties of `Invitations`, for any sets of
organizations, addresses, invitations and requests, from `NoneAssumption` (an absent
row or request differs from every present one):

| Theorem | States |
|---|---|
| `TypeCorrect` | `TypeOK` |
| `Consistent` | `IInv`, the inductive invariant |
| `OneInPlay` | `OneInPlayPerAddress` |
| `InvitedOnly` | `MembersWereInvited` |
| `AtomicAcceptance` | `AcceptanceIsAtomic` |
| `RolesDoNotEscalate` | `NoEscalation` |
| `NoLateJoin` | `LateRequestsJoinNobody` |
| `MembershipsAsPromised` | `ImplementsMemberships`, the refinement of `Memberships` |

Argument. A request checks in one statement and writes in a later one, so each
property needs to know that what was checked still holds at the write. `CreatorsMay`,
`RevokersMay` and `AcceptsRead` of `IInv` say so for the three kinds of request.
They hold because two things never change, which two lemmas establish for every
step: what an issued row says (`RowsAreKept`) and the role of a member
(`MembersAreKept`). The second rests on `MembersHaveFounder`: sign-up would overwrite
a membership if an organization could have members before its founder; it cannot,
because joining one takes an invitation, and issuing one takes an inviter that outranks
the role, who is a member (`NoEscalation`). What a request read of the stamps may be
out of date when it writes, and nothing claims otherwise: uniqueness rests on the index
alone. The run has two addresses, so in it no administrator ever has a third to invite;
`RolesDoNotEscalate` covers longer chains. The refinement maps sign-up to `Found`, since
its organization has no member before its founder and its user, who is not registered, no
membership (`AcceptanceIsAtomic`); and the joining commit to `Join`, let in by the inviter,
who by `NoEscalation` may still grant the role when the invitation is accepted.

`EmailConfirmation_proofs` proves every property of `EmailConfirmation` but its liveness,
for any sets of accounts, tokens and requests, from `NoneAssumption` alone:

| Theorem | States |
|---|---|
| `TypeCorrect` | `TypeOK` |
| `Consistent` | `IInv`, the inductive invariant |
| `SuccessHolds` | `SuccessIsTrue` |
| `SupersededBurned` | `SupersededTokensAreBurned` |
| `ServedOpen` | `ServedWhileOpen` |
| `ConfirmationImplementsLinks` | `Spec => Links!Spec` |

Argument. What a request has read may be stale in one respect only, whether the token
is still unused, and the transaction looks at that again (`Burns`). The rest stays true
because rows are kept, burned tokens stay burned, accounts stay confirmed and time does not
run backwards; `StepKeeps` shows this of every step, and `CallsConsistent`,
`SpentConsistent` and `SupersededTokensAreBurned` follow from it. `SpentConsistent` is what
the refinement needs to tell a withdrawn link from a redeemed one. `ServedWhileOpen` is not
inductive: `ServerConsistent` adds that the hooks that are open are a prefix of the list,
that the listener is open while the server is up, and that requests are in flight only
while it is. `StepRefines` maps sign-up, admission, resending (its two
statements apart) and the committing confirmation to the five actions of
`ConfirmationLinks`, and everything else to a stutter.

`AccountRecovery_proofs` proves every property of the run `AccountRecovery`, for any
accounts, passwords, tokens and requests, from `NoneAssumption`:

| Theorem | States |
|---|---|
| `TypeCorrect` | `TypeOK` |
| `Consistent` | `IInv`, the inductive invariant |
| `ResetEndsSessions` | `NoSavedSessionSurvivesReset` |
| `RedeemedBurned` | `RedeemedTokenIsBurned` |
| `SupersededBurned` | `SupersededTokensAreBurned` |
| `StoreAsPromised` | `Spec => Store!Spec`: the sessions behave as `SessionLineage` |

Argument. A reset counts up its user's epoch and revokes later, for the epoch it carries.
`NoSavedSessionSurvivesReset` compares the epoch a session was saved in with the latest
revocation; it is kept by a save only because no revocation is ahead of the epoch
(`SessionsConsistent`), which needs every revocation in flight to carry an epoch there has
been (`CallsConsistent`). `ResetsConsistent` says of every row that what it superseded is
burned: the row is written by a statement later than the one that burned them, so
`CallsConsistent` carries it over. Types alone are not inductive: the commit of a
confirmation updates a row that must exist. `StoreAsPromised` is where the modules meet:
`AccountRecovery` uses the store within `SessionLineage`, and `StoreImplementsLineage`
shows that the store is one.

`Access_proofs` proves every property of `Access`, for any organizations, users, records
and requests and any `MaxBegun`, from `BoundAssumption` (it is a natural number) and
`NoneAssumption`:

| Theorem | States |
|---|---|
| `TypeCorrect` | `TypeOK` |
| `Consistent` | `IInv`, the inductive invariant |
| `ManagersManage` | `OnlyManagersManage` |
| `AnswersInside` | `AnswersStayInside` |
| `HomeSettled` | `HomeIsSettled` |
| `MembershipsAsPromised` | `Spec => Members!Spec`, the refinement of `Memberships` |

Argument. Tokens and requests act on what was read long ago. That is sound because no
step changes a membership or moves a record to another organization (`StepKeeps`), so
`TokensConsistent` and `RequestsConsistent` can say of every token and request that its
membership exists, that a permitted one's is a manager's or an admin's, and that it
touches records of that organization only. `HandlerCases` reduces the thirteen handlers to
two forms, a read and a write within the organization of the request: for customers and
items because the statement filters by it, for invitations because the path was compared.
`HomeIsSettled` needs `TimesConsistent`, no date is ahead of the clock, so that an
acceptance that begins after a user has settled is dated later than his oldest membership.
The refinement needs `SignupsAlone` (no one else founds the organization of a sign-up in
flight) and `ManagersExist` (there is somebody who may have granted the role). No run
checks this refinement, which makes the instance of `Access` too slow; without records it
was checked with four joining transactions.

`TrialSweep_proofs` proves the safety of `TrialSweep`, for any jobs and any trial, batch
and bound allowed by `TrialAssumption`, and any finite set of organizations (a table is finite,
and the size of a batch is a cardinality), with `NoneAssumption`:

| Theorem | States |
|---|---|
| `TypeCorrect` | `TypeOK` |
| `Consistent` | `IInv`, the inductive invariant |
| `DrainsOldest` | `SuccessDrainsOldest` |
| `TakesNoAccess` | `SweepTakesNoAccess` |

Argument. A run works through a list it scanned at some time. `RunHolds` says that what was
due then has lost its access since, because rows are not prolonged and time does not run
backwards. `BatchKept` is the witness `DrainsOldest` needs: of a run without failures there
is a set of batch size, none of it due later than anything outside, all of it suspended or
still on the list. The scan provides it (`Batches` sorts before it cuts), and overlapping
runs only ever suspend more. The theorems are about `Spec`; `FairSpec`, which the run
checks, implies it.

`RateLimit_proofs` proves the safety of `RateLimit`, for any keys, requests, limit and
window (`LimitAssumption`: both positive):

| Theorem | States |
|---|---|
| `TypeCorrect` | `TypeOK` |
| `Consistent` | `IInv`, the inductive invariant |
| `BurstBounded` | `BurstIsBounded` |

Argument. A window of time may overlap two keys of Redis: the one there is, and the one
that expired before it. `TwoKeysAtMost` says that what was let through lately is at most what the
present key has let through and `Max` more. It survives the expiry of a key only if nothing of
the key before that is left in the window: `SinceExpirySet` says that, in the time since
the present key's expiry was set, only the present key has let anything through, and when it
expires that time is a whole window. A key that has lost its PEXPIRE stays
and lets through less than it might, never more.

`Catalog_proofs` proves every property of `Catalog`, for any organizations, items, taxes and
readers and any `MaxVersion` (`VersionAssumption`: positive), with `NoneAssumption`:

| Theorem | States |
|---|---|
| `TypeCorrect` | `TypeOK` |
| `Consistent` | `IInv`, the inductive invariant |
| `TaxesOfOneWrite` | `TaxesAreOfOneWrite` |
| `TaxesNotTaken` | `TaxesAreNotTaken` |
| `DeletedFrozen` | `DeletedItemsAreFrozen` |

Argument. `TaxesConsistent`: in the table, the taxes of an item are of its last write, since
each write replaces them all. `ReadersConsistent`: what a reader has of an item is no newer
than the table, so taxes that it reads afterwards are of one version, at least as new as the
item it has. Both hold for each item of a page by itself.

Only model-checked, for the provers do not do liveness under fairness:
`DeliveredLinkConfirms`, `ExpiredTrialsAreSuspended` and `LockoutEnds`. The four violated
properties are false, and nothing is proved of them.

## Not modelled

- In the store: records written before `family_expires_at` and `rotated_at` existed;
  forged or malformed tokens; loss of Redis data; `Validate`, which only reads and
  has no caller outside tests.
- Access tokens as JWTs: signatures are taken to be unforgeable and claims well formed.
  `Invitations` lets a member act for every organization he belongs to, which allows
  more than the handlers do; `Access` has the comparison they make.
- `RequireConfirmedEmail` and `SubscriptionGuard`: no route uses them.
- Activate, MarkPastDue and Cancel: no code calls them.
- Passwords that do not match, validation, amounts and rates, countries, search:
  they refuse or compute, and change no state by themselves. One consequence is worth
  knowing: `NewItem` accepts a positive rate or price that `NUMERIC(18,2)` then rounds to 0.00.
- Extraction of rate-limit keys; the limiter's decision to serve uncounted.
- The events of password resets and invitations, which are published like those of
  confirmation; their consumers, which are not in this repository.
- Logging, error bodies, the health check, configuration, connection pools.
- Seeds: a command that inserts a fixed list of industries and skips those present.
  `cmd/jobs` runs the sweep of `TrialSweep`, which may be killed anywhere; its hooks are
  those of `AppLifecycle` without `http`, and no run asks anything of them.

## Plan

Done: every module with its runs, and the proofs of every safety and action property and
of the refinements.

Next, in this order:

1. Lemmas that several proofs repeat in their own words (a request's record by its kind,
   what one update of `call` leaves alone), stated alike.
2. Facts beyond the properties of the runs that the invariants put within reach: in
   `Invitations` too an organization never lacks a manager; in `Access` a token that names
   another organization than the settled one was issued before.
3. The parts listed under "Not modelled" that a change of the code would bring into play:
   the subscription guard and the states past `active` once a route or a caller uses them.
