# Wallet tracker backend: TLA+ models

The backend tracks the wallets of mobile-app users on several EVM chains. It tells
Alchemy which addresses to watch, receives wallet activity from Alchemy's webhook (and,
when enabled, from its own polling tracker), stores it, and pushes alerts through
Firebase. It also serves holdings, positions and performance from provider data, and
signs users in. State is in PostgreSQL; every API process runs the background workers,
so two of each may run at once (during a deployment at least).

This directory models what in that system is concurrent, durable and retried. It holds
TLA+ modules, TLC configurations for small instances, and proofs for TLAPS. `PROJECT.json`
says for every definition which source lines it stands for, for every run what it
checks, and for every property a mutated definition that breaks it.

    tlc -workers 2 -config MCAlchemyReconciliation_faults.cfg MCAlchemyReconciliation.tla
    tlc -workers 2 -config MCAccounts_parts.cfg MCAccounts.tla
    tlapm AlchemyReconciliationProofs.tla
    tlapm PortfolioProofs.tla

Paths below are relative to the repository's `src/modules/` unless they say otherwise.

## 1. The system

| component | state it keeps | operations | what is hard |
|---|---|---|---|
| Wallets (`wallets/`) | `tracked_wallets`, `wallet_chains`, alert settings | create (or update when it exists), update, delete, alert settings | an update changes several watched pairs in one transaction; accounts share addresses; find-then-insert; read-merge-write of settings |
| Address-watch reconciliation (`webhooks/alchemyAddressReconciliation.*`, `alchemyAddressSync.service.js`) | `alchemy_address_reconciliation` markers (generation, claim token, lease, next attempt), advisory locks per pair, the watch at Alchemy | mark, claim, check, list, patch, complete, release, retry | lost answers of the provider, claims that expire under a running worker, marks made during an attempt, sessions that die with the lock |
| Drift sweep (`webhooks/alchemyReconciliation.service.js`, a script) | nothing of its own | compare database and provider, mark the differences | reads both without locks |
| Notification outbox (`notifications/`) | `notification_outbox`, `notifications`, `notification_deliveries` | claim, ensure alert, deliver per device, retry, fail | crash between push and record, claims taken over after five minutes, statements that end a job by id only |
| Device tokens (`deviceTokens/`) | `device_tokens` | register (also by another user), deactivate | a token registers again while a push to it is rejected |
| Notification history | `notifications.read_at` | list, read one, read all | retried jobs touch the same row |
| Event store and webhook (`events/`, `webhooks/alchemy.service.js`) | `wallet_events` with a unique key | normalise, value, insert event and job in one transaction per event, list, group | redelivered webhooks, batches that fail half way, two sources of one event, index collisions of ERC-1155 batches |
| Ethereum tracker (`ethereum/`) | `chain_sync_state` cursor | poll, fetch logs, backfill receipts, insert, advance | failures in the middle of a range, configured start block, wallets read once per poll, several trackers |
| Sessions (`auth/session.repository.js`) | `auth_sessions`, legacy revocation time | sign in, rotate refresh token, revoke, revoke all | two refreshes with one token, refresh against reset |
| Challenges (`auth/challenge.repository.js`) | `auth_challenges` | issue, consume, invalidate | attempts in parallel, expiry, cool-down |
| Identities (`auth/google.*`, `apple.*`, `identity*`) | `auth_identities` | sign in, link, unlink | the last method to sign in |
| Account deletion (`auth/accountDeletion*`) | re-authentication challenges, then everything of the user | issue, complete, consume, delete | claim, fail and complete of the Google flow; a deletion locks every pair of the account |
| Holdings, positions (`holdings/`, `positions/`) | memory caches, calls in flight, persisted chain caches | get, list cached | layers of caches, stale fallbacks, timeouts of shared calls |
| Token prices (`holdings/holdings.provider.js`) | price cache, calls in flight, a queue per process, a cool-down | price the tokens of a request | requests share calls they did not start |
| Performance (`performance/`) | `wallet_portfolio_snapshots` | capture for all wallets, compute | overlapping cycles, partial data |
| Portfolio summary | a cache of seconds, calls in flight | sum of holdings and positions | shared between the job and requests |
| Server (`src/server.js`), migrations (`src/scripts/runMigrations.js`) | process and schema | start, ready, shut down; migrate | work in progress at shutdown, lost acknowledgement of COMMIT |
| Rate limits, operations, configuration, schemas, routes | counters | - | per-process, no effect on the rest |

How they interact:

- A wallet mutation and the markers of the pairs it changes are one transaction, so the
  reconciliation needs no call from the wallet code: the marker rows are the message.
- An event and its outbox job are one transaction in the same way.
- Advisory locks per pair make wallet transactions (transaction-scoped locks) and
  reconciliation workers (session-scoped locks) exclude each other.
- Deletions of wallets and accounts cascade through foreign keys to events, jobs, alerts,
  deliveries and tokens under the feet of whatever worker is using them.
- Workers poll on timers; nothing is handed over in memory.

What makes each component correct, in one sentence each:

- Every divergence between database and watch is marked and finally repaired.
- Every alert is delivered at least once to every device that stays registered, and twice
  only for a reason.
- Every event is stored once and no confirmed one is skipped.
- A refresh token works once and never after a revocation, and is not overwritten before; nothing
  outlives a reset.
- A challenge admits five guesses and one success; an account keeps a way to sign in and is
  deleted only on an authorisation of its own that still holds.
- A wallet request is refused or answered for a reason its user can see.
- Caches never pass off one address as another, old data as fresh, or partial data as
  complete; no snapshot lacks a whole part of its wallet.
- Migrations are applied once, in order, and the exit code tells the truth.

## 2. Modules

| module | models | role |
|---|---|---|
| `AddressWatch` | what the reconciliation promises | abstract specification |
| `AlchemyReconciliation` | wallet transactions, markers, workers, sweep, provider | detailed specification, refines `AddressWatch` |
| `AlchemyReconciliationProofs` | - | theorems about both |
| `NotificationOutbox` | events' jobs, alerts, deliveries, devices, workers, Firebase | detailed specification |
| `NotificationOutboxProofs` | - | theorems about `NotificationOutbox` |
| `WalletEventIngestion` | chain, webhook requests, polling trackers, event rows, cursor | detailed specification |
| `WalletEventIngestionProofs` | - | theorems about `WalletEventIngestion` |
| `AuthSessions` | password, sessions, refresh, logout, reset, tokens older than sessions | detailed specification |
| `AuthChallenges` | mailed codes: issue, mail, guesses | detailed specification |
| `AccountIdentities` | accounts, emails, provider identities | detailed specification |
| `AccountDeletionReauth` | challenges, proofs and grants that delete an account | detailed specification |
| `Accounts` | the four account modules above, side by side | composition |
| `AccountsProofs` | - | theorems about `Accounts` and its parts |
| `WalletHoldings` | the caches and calls behind the holdings of a wallet | detailed specification |
| `WalletPositions` | the same for protocol positions | detailed specification |
| `PortfolioSnapshots` | summaries, the snapshot job, its cycles | detailed specification |
| `Portfolio` | holdings, positions and snapshots, side by side | composition |
| `PortfolioProofs` | - | theorems about `Portfolio` and its parts |
| `TokenPricing` | how requests share token prices | detailed specification |
| `WalletRequests` | the HTTP requests that create, change and remove wallets | detailed specification |
| `MigrationsRunner` | overlapping runs of the migration script | detailed specification |
| `Services` | prices, wallet requests and migrations, side by side | composition |
| `ServicesProofs` | - | theorems about `Services` and its parts |
| `MCAlchemyReconciliation`, `MCNotificationOutbox`, `MCWalletEventIngestion` | - | values for the runs of one module |
| `MCAccounts`, `MCPortfolio`, `MCServices` | - | values for one run of several modules |

The modules share no variable. Where they touch:

- `NotificationOutbox` begins where `WalletEventIngestion` ends: its `InsertWalletEvent` is the
  insertion of an event that is worth an alert.
- `AlchemyReconciliation` models what a wallet transaction does to the watch,
  `WalletRequests` what the requests around such transactions read and answer, so there the
  transaction is one step.
- `AuthSessions` models the account's row lock as two steps of a transaction. `AccountIdentities` and
  `AccountDeletionReauth` rely on that and make such a transaction one step; `AuthChallenges`
  keeps two, because the time a transaction began matters there.
- `PortfolioSnapshots` uses holdings and positions as calls that end complete (with a price for
  everything), underpriced (all there, some of it without a price), partial or failed; what "not partial"
  means is `HonestAnswers` and `HonestPositions`, when a token has no price `UnpricedExplained`.

`Accounts`, `Portfolio` and `Services` put modules side by side that have no variable in common: each extends
one of its parts, takes the others with `INSTANCE ... WITH` (constants and variables under names of their
own), collects the assumptions on the constants, and names the properties of the parts. `AccountsSpec`,
`PortfolioSpec` and `ServicesSpec` are the conjunctions of the parts' specifications.

`MCAccounts`, `MCPortfolio` and `MCServices` check them one part at a time: the variable `part` chooses at the
start which one moves, within which bounds, and all others keep their initial state. Since the parts share
nothing, a state that violates a property of one part is reached by steps of that part alone. Symmetry is used
in `MCAccounts` and `MCServices`, over values no property names; neither has a liveness property. Properties
and theorems use the same definitions: `IssueLimit`, say, is `Codes!IssueLimit` for both.

### 2.1 AlchemyReconciliation

One action is one SQL statement, one provider request, or one committed transaction:
everything that can interleave with something else.

| variable | in the system |
|---|---|
| `wallet` | committed `tracked_wallets` and `wallet_chains` rows: address and enabled chains |
| `txn` | per account the open wallet transaction. It holds the account's row lock, so there is one per account; its uncommitted changes live here until `CommitTxn` |
| `pairLock` | the advisory lock of each (chain, address) pair |
| `marker` | rows of `alchemy_address_reconciliation`. Generation 0 is "no row". `lease` is none, live or expired and stands for `lease_expires_at` against the clock; `due` for `next_attempt_at <= NOW()` |
| `worker` | local variables and program position of `reconcileClaimedAlchemyAddress` |
| `watched` | the pairs in the Alchemy webhooks |
| `sweep` | local variables of the sweep |
| `disturbed` | history: pairs changed at the provider from outside since somebody listed or marked them |

Wallet side: `BeginCreateWallet`, `BeginUpdateWallet`, `BeginDeleteWallet`,
`BeginDeleteAccount` open a transaction with the pairs it must lock and mark;
`LockNextPair` takes the next lock in sorted order (`lockAlchemyAddressPairsForMutation`),
waiting if need be; `CommitTxn` applies rows and marks and frees the locks; `AbortTxn` is
any error or the statement timeout. Updating an address or its chains locks old and new
pairs on every chain and marks the pairs desired before or after, as `updateWalletById`
does.

Worker side: `ClaimRow`, `AcquirePairLock`, `CheckClaim`, `ReadDesired`, `ListWatched`,
`PatchWatch`, `RelistWatched`, `RecheckDesired`, `CompleteClaim` or `ReleaseClaim`,
`UnlockPair`, and `RetryClaim` after an error. The failures are separate actions, enabled
by the constant `Faults`: a provider request that fails before or after it was applied, a
statement that fails, a completion whose answer is lost, a lock that cannot be taken, an
unlock that fails (the connection is destroyed), a crash that frees the session locks
and leaves claim and lease behind.

The watch can also change outside the backend (`WatchDrifts`): an edit in the provider's
console, or a request that timed out long ago and is applied now. `disturbed` records
that nobody has looked since; no program could promise anything about such a pair.

Abstractions: addresses and chains are numbers in the order the code sorts them; the
pagination of a listing is one step, since the pages are read by one worker that holds
the pair's lock and only the membership of its pair matters; a batch is a set of claims
worked off one at a time, so `ClaimRow` claims one row and a worker carries on with
another when it is idle (the rest of a claimed batch is in the state of rows whose worker
crashed; what differs is only when their leases end); the generation is bounded by
`MaxGeneration` at the actions that would start a mutation or a sweep.

### 2.2 AddressWatch

Four variables (desired, watched, dirty, disturbed) and five actions: `Change` marks what
it changes, `Apply` moves the watch towards the desired state for a marked pair, `Inspect`
clears the disturbance, `Settle` removes a mark when both agree, `Drift`. The property
`RefinesAddressWatch` maps dirty to "has a marker row" and desired to "some committed
wallet wants it". A refinement of it cannot forget to mark, patch an unmarked pair,
patch in the wrong direction, or delete a marker too early.

### 2.3 NotificationOutbox

| variable | in the system |
|---|---|
| `job` | `notification_outbox` rows (one per event): status, `attempt_count`, and whether `next_attempt_at` has come or `locked_at` is old |
| `notice` | `notifications` rows: none, unread, read |
| `delivery` | `notification_deliveries` rows per event and device: none, reserved, transient, refused, delivered |
| `device` | `device_tokens` rows: user, active, `updated_at` as a version, the row's identity |
| `worker` | the claimed batch and the position in `processNotificationOutboxJob` |
| `push`, `uncertain`, `incidents` | history: what Firebase did, which events two workers may have worked on, how many claims were abandoned or overlapped |

A claim takes up to `BatchSize` ready jobs in one step (`FOR UPDATE SKIP LOCKED`). A job
is `PickJob`, `ReadContext`, `EnsureNotification`, `ListDevices`, `ReadDeliveries`, then
per device `ReserveDelivery`, `SendPush`, `RecordDelivery` (or `RecordResult` for an
invalid token, which also deactivates the registration it was sent to), then `MarkSent`
or `RetryOrFail`. A failed statement throws out of the job into `RetryOrFail`; an
exception there aborts the batch and leaves its other jobs in processing, as the code
does (`BatchAborts`). `AbandonedGoesStale` is the five-minute limit running out on a job
nobody works on; `AttendedGoesStale` the same under a worker that is only slow.
`Unrecorded` marks a push whose outcome could not be stored.

### 2.4 WalletEventIngestion

| variable | in the system |
|---|---|
| `head` | the latest block of the chain |
| `wallet` | `tracked_wallets`: not yet created, active, or deleted (for good: its events went with it) |
| `store` | `wallet_events` rows by identity (`wallet_events_unique_identity`), with or without an outbox job |
| `cursor` | `chain_sync_state.last_synced_block`, or `NoCursor` |
| `request` | the webhook requests in `handleAlchemyWebhook`: the events they normalised and those still to insert |
| `delivered` | the blocks whose webhook Alchemy saw answered |
| `tracker` | the local variables of `pollOnce`, per tracker process |
| `answered`, `floor`, `alerts`, `failures` | history: what was answered for, from which block on a wallet is covered, the jobs inserted for an event, how often trackers failed |

Webhook: `ReceiveWebhook` (the lookup of the tracked wallets), `RequestInserts` once per event, `Respond`,
`RequestFails`. Tracker: `StartTracker`, `ListWallets`, `ReadLatest`, `ChooseStart` (with the
three cases of `getStartingBlock`), then per range `FetchRange`, `TrackerInserts` once per
event, `AdvanceCursor`; `PollFails`, `PollFindsNoWallet`, `CrashTracker`. Both sources use the
same `InsertEvent`: one transaction that inserts the row unless its identity exists and
then decides on the alert.

Abstractions: an event is a transfer of a kind its wallet tracks, seen by that wallet, and
has one identity (see the hazard on ERC-1155 batches for where the code's identities
differ); the alert decision, which depends on prices and settings, is a free choice; the
requests about a range are one step, since they read confirmed blocks only and everything
they return goes into local variables; the events of a batch are inserted in any order;
wallets are not paused. What the tracker is not obliged to store is named in `Covered`:
logs it cannot decode (`Malformed`; `ethereum.tracker.js:636-651` says so in its log and goes on), transfers the
provider's answers leave out or whose log is dropped because its block could not be read while it was decoded
(`Omissible`), and blocks before the first poll that saw the wallet (`floor`). The cursor passes what was dropped, and
only a lower start block scans it again. A failing metadata request drops nothing: it is answered
with defaults (`callOptional` in `ethereum.normalizers.js`).

### 2.5 The account modules

`AuthSessions`. One action is one step of a READ COMMITTED transaction: the first takes the row
lock and reads, the second writes and commits; a statement that meets a locked row is enabled
when the row is free and looks at it then.

| variable | in the system |
|---|---|
| `password`, `cutoff` | `app_users.password_hash` (numbered as made) and `legacy_access_revoked_at` |
| `session` | `auth_sessions` rows: open or revoked, digest of the current refresh token, expiry, and (history) the password it was born under |
| `issued` | the last refresh token made; tokens are random, hence never equal |
| `request` | a request between its reading and its writing step: what it verified, the session it locked and the token it presented |
| `uses`, `ended` | history: exchanges of each token, counted by the token presented; legacy tokens that were ended |

`ReadPassword`, `LockForPassword`, `CommitSignIn` are the password sign-in (the hash is verified
without a lock and compared again under it); `LockForProvider` the provider's;
`LockForRefresh`, `CommitRefresh` are `rotateRefreshToken`; `Logout`, `LegacyLogout`, `LockForReset`,
`CommitReset` the ways to end sessions. `AdmitsSession` and `AdmitsLegacy` are the middleware.

`AuthChallenges`. `challenge` are the `auth_challenges` rows of one account, `request` what a
request asked, when its transaction began (`NOW()` is that time, however long it waited for
the lock) and which code it compares. `Ask`, `LockToIssue`, `CommitIssue`, then `Mail` or `MailFails`
and `CloseUndelivered`; `Present`, `LockToCompare`, `CommitComparison`; `Fail` is any error.

`AccountIdentities`. `user` are the accounts (email, hash), `owner` says whose a provider's subject
is, `request` what a request read before its transaction. Registration, the first sign-in
with a provider with its single retry after a unique violation, linking and unlinking, against
reset, logout and deletion. Which requests share a session is left open: a logout revokes the session of
any of the user's requests. A provider's token is taken as verified.

`AccountDeletionReauth`. `challenge` and `grant` are the two tables, with the state of Google's callback
in the challenge; `request` holds what a proof read before its transaction. `IssueChallenge`, `Prove` /
`ProveWrongly`, `RecordFailure`, `CompleteReauth`, the callback's `ClaimCallback`, `Exchange`,
`CompleteCallback`, `FailCallback`, and `DeleteAccount`; meanwhile `ResetPassword`, `SignIn`, `Logout`, `Link`,
`Unlink`.

### 2.6 The portfolio modules

Each models one process and one wallet: the caches are per process, and those of two wallets
have no key in common (holdings) or are named as left out (positions). The event loop runs
the code between two awaits without interruption, and that is one step. A `Part` is what one
provider call returned for one chain: for which address, when, and of which quality. Amounts
are left out. Time passes in units; every lifetime is a constant.

| module | variable | in the system |
|---|---|---|
| `WalletHoldings` | `chainCache`, `chainGood`, `cache`, `good` | the four memory caches (per chain and per result, current and last known good) |
| | `fetch`, `joint` | `inFlightChainHoldingsPromises`, `inFlightHoldingsPromises` with what has arrived of each chain |
| | `stored` | `wallet_chain_holdings_cache` |
| `WalletPositions` | `chainCache`, `chainGood`, `coolUntil` | the provider's caches and its cool-down after a 429 |
| | `cache`, `joint`, `stored` | the service's cache, its shared call, `wallet_chain_positions_cache` |
| `PortfolioSnapshots` | `summary`, `promise` | the summary cache and the calls in flight |
| | `job`, `cycle`, `lastRun`, `snapshots` | the timer, flag and cycles of the snapshot job, its outcome, its rows |
| all | `now`, `address`, `changedAt` | the clock and the wallet's row; the address changes once |

`WalletHoldings`: `Ask`, `Look`, `Load` (or `ReadFails`), `Join` are `getWalletHoldings` up to its shared promise;
`ProviderAnswers`, `Persist`, `ProviderFails` the call of a chain; `TimesOut` and `Finish` what the promise makes of
the chains. `WalletPositions`: `Detail`, `FetchNext`, `ProviderAnswers`, `ProviderFails`, `ProviderRefuses`, `Persist`,
`FinishDetail` are the detail request, `ListFromMemory` and `ListFromRows` the list. `PortfolioSnapshots`:
`StartJob`, `TimerFires`, `ListWallets`, `TakeWallet`, `HoldingsSettle`, `PositionsSettle`, `Insert`, `EndCycle`, and
`AskPerformance` for requests that share the summary. `Outcome` says whether items without a price were left out of
a sum: `summarizePositions` and `holdings.provider.js:1820-1842` skip them as long as another item has a price, `isPartial`
stays false (187-193), and the snapshot is stored with the lower total. So `SnapshotsSound` does not say that a
snapshot is what the wallet was worth: it says that neither the holdings nor the positions were missing.
In the same way a `WalletHoldings` part is "degraded" only if balances are missing or none of its tokens has a price.

`TokenPricing` models the price lookups of one chain: `cache`, `flight` (in-flight promises by
token), `queue` (calls wait for one another), `cool`. `Classify` sorts a request's tokens into cached,
asked for by another, and its own; `ProviderAnswers` and `ProviderFails` end the call under way;
`AwaitedEnds` is the wait for another request's call. The model assumes that an entry, which
lives five minutes, outlives the requests that wait for it.

What reading the code for these modules showed: a request that has no token of its own to ask
for returns before it awaits the calls of others (`holdings.provider.js:1056-1070`), so those
tokens stay unpriced in its answer; and a call that failed or came late writes "no price" over
a newer price (1161-1166, 1197-1204). `UnpricedExplained` names both as explanations.

### 2.7 WalletRequests

| variable | in the system |
|---|---|
| `wallet` | `tracked_wallets` with the enabled rows of `wallet_chains` |
| `setting` | `wallet_alert_settings`, one flag |
| `request` | a request's parameters, its position, what it read and what it answers |
| `late`, `excused`, `overtaken`, `lost`, `faulted` | history: what other requests did in between, and failures |

A request looks (`Create`, `Change`), commits (`Insert`, `Update`, `Delete`, `PutSettings`) and looks again
for its answer (`ReadRow`, `ReadChains`, `VerifyDeleted`); other requests come in between. The unique
key of the table is (user, first chain, address) while creation looks by (user, address), so
overlapping creations, or an update of an address, can leave two wallets with one address;
`TwinsExplained` says exactly when. An update onto an address its user already has with the same
first chain is answered with 500, a creation whose wallet is deleted before it is read
again with 201 and no wallet, and two overlapping PUTs of settings lose one: `Explained` and
`SettingsKept` say these are the only such cases.

### 2.8 MigrationsRunner

What a run of the script believes (`pc`, `known`, `file`, `exit`) and what its database session does (`session`,
`sent`, `lock`) are apart: a run that is killed or loses its connection (`Gone`) leaves a
session that keeps the advisory lock until the server ends it (`SessionEnds`) and may still
carry out the COMMIT it was sent (`CommitLands`) or be given the lock it waited for
(`LockLandsLate`). `Last` says how many files a run's image holds: during a rollback an older
image runs after a newer one.

## 3. Runs

| run | instance | shows |
|---|---|---|
| `watch_faults` | 1 pair, 2 workers, every fault, sweep, drift | `TypeOK`, `DivergenceIsMarked`, `ClaimEndedByHolderOrMark`, `FreshMarkStaysDue`, and `EventuallyConverged` with overlapping claims |
| `watch_progress` | 2 accounts sharing an address on 2 chains, 1 worker, crashes | real multi-pair transactions: `DesiredStableUnderLock`, `RefinesAddressWatch`, and `TransactionsEnd` (no circular wait) |
| `outbox_devices` | 1 job, 2 users, 2 devices, 1 worker | `SentOnlyWhenSettled`, `NewerRegistrationKept` |
| `outbox_batches` | 2 jobs in batches of two, 2 workers | `EveryJobFinishes` despite aborted batches and late workers |
| `outbox_progress` | 1 job, 1 device, 2 workers, every fault | `TypeOK`, `DuplicatesExplained`, `RetriesPaidFor`, `FinishedStaysFinished`, `NothingTakenBack` |
| `outbox_retry_limit` | 1 job, 1 worker, crashes | violation of `RetryLimit` (section 6) |
| `ingest_sources` | 2 events of a block, 2 requests, 1 tracker, every fault | `TypeOK`, `AnsweredIsStored`, `AlertedOnce` |
| `ingest_trackers` | 3 events, one of which may be dropped, 2 trackers (one with a start block and a cursor reset), every fault | `CursorPassesNothing`, `ConfirmedIsStored` |
| `ingest_first_poll` | no cursor, start block 0, no fault | violation of `PollingGetsGoing` (section 6) |
| `accounts` | the four account modules, one at a time | `TypesOK`; sessions: `RefreshedOnce`, `NothingOutlivesReset`, `AnsweredTokenWorks`; codes: `IssueLimit`, `GuessesLimited`; identities: `AlwaysSignIn`, `LinkedWithProof`; deletion: `ChallengeOrGrant`, `GuessesLimited`, `DeletedWithCurrentProof` |
| `portfolio` | holdings and positions (3 parts each), snapshots (2) | `TypesOK`; `HonestAnswers`, `HonestPositions`: what an answer shows is of the wallet's address or explained, no older than the caches admit, and complete only if it has every chain; `DetailResultKept`; `SnapshotsSound` |
| `services` | migrations, wallet requests, token prices, one at a time | `TypesOK`; `MigrationsSound`, `RequestsExplained`, `UnpricedExplained` |

### Bounds and why they are enough

- *One pair and two workers* in `watch_faults`: workers meet only at one pair's marker and
  lock, so two workers on one pair show every overlap of theirs. `MaxGeneration` 1 keeps a mutation from
  beginning while a marker exists; one that began before still marks a pair under an attempt, so
  generations above 1 and markers that are deleted and inserted again do occur. The proofs have no bound.
- *Two accounts, two chains, one address*: the smallest instance where transactions need
  several locks and share pairs, so that lock order matters.
- *Two workers, one job*: an overlap needs a claim that goes stale under one worker and
  a second worker. Two incidents admit a late worker that is late again
  (`outbox_batches`, with two jobs, has one).
- *Two attempts* (`MaxAttempts`) tell the last attempt from the one before it. The product default is larger; no
  property depends on it. `outbox_retry_limit` has three.
- *Two devices*: one that succeeds and one that fails, in the two orders.
- `MaxRegistrations` 2 is a registration and one that replaces it. In `outbox_batches`
  it is 0: jobs without devices still go through claim, abort and retry.
- *Ingestion*: four blocks with one confirmation give three confirmed ranges of one block. In
  `ingest_trackers` the events lie in the second and third, so there is a range before
  them and a poll that ends between them; of the two in the third block one may be dropped, which must
  not carry the other off. In `ingest_sources` two events of one block and two
  requests show a batch that fails half way while another request or the tracker inserts
  the same. `MaxFailures` 2 lets each of two trackers fail, or one fail again after a restart.
  A configured start block lies within the blocks of the chain (`StartBlock` at most `MaxBlock`).
- *Accounts*: two requests are what races for one lock. Sessions: two sessions, three tokens, two passwords (one reset),
  from time 2 on so that there are tokens from before sessions. Codes: three challenges, one guess
  each and two an hour, so that every limit is met and one challenge replaces another. Identities: two users and
  one address, because all conflicts are about one address; two providers with two subjects; three passwords.
  Deletion: two challenges, one grant, one guess.
- *Portfolio*: holdings and positions each of a wallet that moves from one address to another, one whose
  data get old, and one on two chains with partial answers. A lifetime is one unit (two for a last known good
  result, a summary and the largest age of rows). In the parts about age the clock runs on to the largest age the
  property admits (3 for holdings, 7 for positions, where a stale part may be six units old, 3 for summaries), so that a
  cache that lives too long would show. Holdings of a moved wallet have requests of both modes during the first unit and of one mode
  up to time 3; on two chains requests are of one mode; of an aging wallet they are of both. The work between two awaits of the database takes no
  time. Snapshots: two cycles of two wallets, one of which may lack prices, with performance requests, a third one without; two
  cycles with an old summary.
- *Services*: three runs of the migration script with images of two, three and three files. Three wallet
  requests of one user on two wallets, two addresses and two chains: the twin of a wallet and the request
  that finds it; the deletion of the account next to two requests. Prices: calls
  of at most two tokens; two requests for any of three tokens, so that one has a second call in the queue, or three requests for
  two, so that a request waits for a call of another whose own call waits in the queue.
- *Symmetry* is used in `outbox_devices`, `accounts` and `services`, over values no property names;
  none of these has a liveness property.
- `CHECK_DEADLOCK FALSE` appears in all but the watch runs: once every event is
  handled, every request answered and every bound reached the model has nothing left to do. In the watch runs a deadlock is an
  error: an account can always begin another transaction or a worker has work.

### Fairness

- `WF` on a running worker's steps, on the end of a transaction and on retries: code that
  runs proceeds. Where a worker may fail instead, the fault is an alternative step and
  nothing obliges it to happen, nor to stop: `EventuallyConverged` assumes in its own
  statement that disruptions stop (a step that a running worker can take by itself is not
  one, even when a failure would have the same effect), the outbox counts its
  incidents and the trackers their failures.
- `SF` on taking an advisory lock (`AcquirePairLock`, `LockNextPair`): PostgreSQL queues the
  waiters first come, first served, so one that waits again and again is served.
- `SF` on claiming a row: the claim query orders by next attempt and creation, and every
  process polls on a timer, so a row that is due again and again is claimed.
- `WF` on the passing of leases, back-off and the five-minute limit: time passes.
- `WF` on each tracker's next step: it polls on a timer and is started again after a crash. `WF` on
  a new block. The tracker alone must get every event stored, so nothing is assumed of Alchemy.
- None for accounts, devices, webhook deliveries, drift, sweep or failures.

## 4. Proofs

Every safety property that a run expects to hold is a theorem. Each holds for any number of the things a
module is about (accounts, workers, devices, requests, chains, files, ...), for any bounds and any choice of faults,
from the assumption on the constants of its module alone. Most of an assumption says that a constant is a number or
that two values differ. What it says beyond that, and why the code justifies it:

- A configured start block lies within the blocks of the chain (`WalletEventIngestion`).
- There are finitely many workers (`NotificationOutbox`) and requests (`AccountDeletionReauth`); they are counted.
- `DatabaseTime <= Ttl` (`WalletHoldings`): what a request waits for the database (the connection and statement timeouts of
  `config/env.js`, 5 and 30 seconds unless configured) is not more than a complete answer is kept (120 seconds). Without it a
  request that joins a call whose row is still being written could get an answer older than any it would find in memory.
- `DegradedTtl <= Ttl <= GoodTtl` (`WalletPositions`), as the constants of the two files of `positions/` are.

| module | theorem | statement |
|---|---|---|
| `AlchemyReconciliationProofs` | `TypeCorrect` | `Spec => [](TypeOK /\ ClaimsHavePairs)` |
| | `InductiveInvariant` | `Spec => []IInv` |
| | `DivergenceAlwaysMarked` | `Spec => []DivergenceIsMarked` |
| | `DesiredStable` | `Spec => []DesiredStableUnderLock` |
| | `ClaimsEndProperly` | `Spec => ClaimEndedByHolderOrMark` |
| | `FreshMarksStayDue` | `Spec => FreshMarkStaysDue` |
| | `ImplementsAddressWatch` | `Spec => RefinesAddressWatch` |
| | `WatchCovers` | `Watch!WatchSpec => []Watch!Covered` |
| `NotificationOutboxProofs` | `TypeCorrect` | `Spec => []TypeOK` |
| | `OutboxInvariant` | `Spec => []OutboxInv` |
| | `DuplicatesAreExplained` | `Spec => []DuplicatesExplained` |
| | `RetriesArePaidFor` | `Spec => []RetriesPaidFor` |
| | `SentWhenSettled` | `Spec => SentOnlyWhenSettled` |
| | `FinishedJobsStay` | `Spec => FinishedStaysFinished` |
| | `NothingIsTakenBack` | `Spec => NothingTakenBack` |
| | `NewRegistrationsAreKept` | `Spec => NewerRegistrationKept` |
| `WalletEventIngestionProofs` | `TypeCorrect` | `Spec => []TypeOK` |
| | `IngestionInvariant` | `Spec => []IngestionInv` |
| | `AnswersAreStored` | `Spec => []AnsweredIsStored` |
| | `AlertsAreUnique` | `Spec => []AlertedOnce` |
| | `NothingIsPassed` | `Spec => []CursorPassesNothing` |
| `AccountsProofs` | `SessionsInvariant` | `Spec => []SessionsInv` |
| | `TokensAreUsedOnce`, `ResetEndsEverything` | `Spec => []RefreshedOnce`, `Spec => []NothingOutlivesReset` |
| | `AnsweredTokensWork` | `Spec => AnsweredTokenWorks` |
| | `ChallengesInvariant` | `Codes!Spec => []Codes!ChallengesInv` |
| | `IssuesAreLimited` | `Codes!Spec => []IssueLimit` |
| | `IdentitiesInvariant` | `Ids!Spec => []Ids!IdentitiesInv` |
| | `AccountsCanSignIn`, `LinksAreProved` | `Ids!Spec => []AlwaysSignIn`, `Ids!Spec => LinkedWithProof` |
| | `ReauthInvariant` | `Reauth!Spec => []Reauth!ReauthInv` |
| | `DeletionsAreCurrent` | `Reauth!Spec => DeletedWithCurrentProof` |
| | `OneThingAtATime` | `Reauth!Spec => []ChallengeOrGrant` |
| | `WrongGuessesAreLimited` | `Codes!Spec /\ Reauth!Spec => []GuessesLimited` |
| | `AccountTypesHold` | `AccountsSpec => []TypesOK` |
| `PortfolioProofs` | `HoldingsInvariant` | `HoldingsAssumption` gives `Spec => []HoldingsInv` |
| | `HoldingsAreHonest` | `Spec => []HonestAnswers` |
| | `PositionsInvariant` | `PositionsAssumption` gives `Positions!Spec => []Positions!PositionsInv` |
| | `PositionsAreHonest` | `Positions!Spec => []HonestPositions` |
| | `DetailResultsStay` | `Positions!Spec => DetailResultKept` |
| | `SnapshotsInvariant` | `SnapshotsAssumption` gives `Snapshots!Spec => []Snapshots!SnapshotsInv` |
| | `SnapshotsAreSound` | `Snapshots!Spec => []SnapshotsSound` |
| | `PortfolioTypesHold` | `PortfolioSpec => []TypesOK` |
| `ServicesProofs` | `InductiveInvariant` | `Spec => []MigrationsInv` |
| | `MigrationsAreSound` | `Spec => []MigrationsSound` |
| | `RequestsInvariant` | `NamesAssumption` gives `Wallets!Spec => []Wallets!RequestsInv` |
| | `RequestsAreExplained` | `Wallets!Spec => []RequestsExplained` |
| | `PricesInvariant` | `NobodyAssumption` gives `Prices!Spec => []Prices!PricesInv` |
| | `UnpricedTokensAreExplained` | `Prices!Spec => []UnpricedExplained` |
| | `ServiceTypesHold` | `ServicesSpec => []TypesOK` |

In `Accounts`, `Spec` is that of the sessions, in `Portfolio` that of the holdings, in `Services` that of the migrations.

The arguments.

**Reconciliation.** `DivergenceIsMarked` is not inductive: whether a worker may delete a marker
depends on what it read many steps ago. Each conjunct of `IInv` closes one gap:

- `LocksHeld`: a worker between lock and unlock is the holder, a transaction's locks are its
  own. Without it nothing excludes a transaction that commits under a worker.
- `TxnsCoverChanges`: an open transaction will change only pairs it has marked, and has
  locked what it marks. With `LocksHeld` a commit never changes a pair another worker holds.
- `DesiredStableUnderLock` follows: what a worker read stays true until it unlocks.
- `ClaimsOnRows`, `MarkersOutliveChecks`: only the holder of a pair's lock deletes its
  marker, so it exists for as long as a checked claim is being worked on.
- `ObservationsHold`: at the recheck and the completion the worker's observation is what
  the provider watches, unless the watch was disturbed since or its claim is already
  void. The completion tests exactly that claim, so the deletion it does is justified.
- With these `DivergenceIsMarked` is preserved: a marker is deleted only when the two sides agree.

`TypeCorrect` comes first and the other lemmas use it. There is one lemma per group of actions
(transactions, worker's reads, provider calls, completion, failures, sweep and time). The
refinement maps each step to an action of `AddressWatch` or to a stuttering step, using `IInv` to
show that a patch happens under a marker and that a completion finds both sides equal.

**Outbox.** `OutboxInv` is the invariant. The steps fall into a few kinds as far as claims and jobs go (`StepKinds`: a worker
goes on, ends its job, marks it sent unawares, drops its batch, claims; an event or a user acts), and each
conjunct is kept by each kind.

- `OneAtAJob`: unless an event is `uncertain` (a claim went stale under a worker that still has it, or a
  job was marked sent by a statement its worker took for failed), at most one worker has it in its batch, and the job waits for that
  worker. `FinishedJobsStay` follows directly.
- `FailuresCounted`: the failures of a device, plus the workers that still have their turn with
  it in a claimed attempt (`Senders`), are at most the attempts made. A push takes its worker out of `Senders`; `TurnsTaken` says that no worker
  returns to a device, since a device leaves the queue when its turn comes.
- `AttemptsPaid` is a potential: the claims whose failure would give the job back
  (`Renewable`), plus one if the job can be claimed as it is, are at most one more than the
  incidents so far. A claim turns one into the other, a last attempt uses one up, and
  only a crash, an aborted batch or a slow worker, each an incident, adds one.
- `PushesRecorded`: an accepted push that is not `doubtful` is in its delivery row, or in the hands of
  the one worker that is about to write it; whoever is about to push has found no such row.
- `DevicesHandled`, with `ListedBehind`: each device a worker listed is settled, or still ahead of it, or the attempt will be repeated. A device row that was deleted and
  registered again is newer than any listing, so it is not the row that was listed.

**Ingestion.** `IngestionInv` says of a poll that its starting block leaves nothing unstored behind, that what it
scanned is stored or still pending in its batch, that it scans confirmed blocks only, and that a wallet missing from its list has
its floor above the poll's safe block. The maximum that `floor` is made of needs the well-foundedness
of the naturals (`NatLessThanWellFounded`) for a bounded set.

**Sessions.** `SessionsInv`: row locks exclude (`LocksExclude`), what a request checked under a lock is
true until it commits (`CheckedUnderLock`), no two tokens have one digest (`DigestsUnique`), exchanges are
at most one per token (`UsesBounded`), and the cut-off of a reset covers all that existed before (`CutoffCovers`).
The exchange is counted by the token the request presented. That its row still has this token when the refresh commits is part of
`CheckedUnderLock`: with the row lock gone a second refresh would count the same token twice. `AnsweredTokensWork` adds that
no step but such an exchange takes a token from its row (`TokenStep`, `RefreshStep`).

**Codes.** What a request found under the account's lock is true until it commits (`FoundStaysTrue`): the
count of recent codes is below the limit, the row compared with is open and below its limit. The
count a transaction makes reaches from an hour before its own start to the newest row, so it covers every
window the new row falls into; that is why an old start time does no harm.

**Identities.** Besides types, `AlwaysSignIn` needs only that a request names an account and identity that exist: the unlink
checks the password in the transaction that removes the row.

**Deletion.** `GrantsCurrent` carries the theorem: an open grant of an open session was given for the
password the account still has, because a reset revokes every session and a revoked session never opens again. For
the wrong proofs, a challenge that still takes proofs has counted each of them, has it in the hands of a
request, or has lost it (`Accounted`); once it takes none, no request begins a new one.

**Migrations.** Only the run whose session holds the advisory lock has a transaction open, and what it
read of `schema_migrations` stays true until its own COMMIT; the files in the table are those applied, in order.

**Wallet requests.** `RequestsInv` follows a request from its look to its answer. `Begun`: a creation about to insert, or about
to update the wallet it found, has on record (`late`) every wallet that came to its address since it looked, so a twin it makes is
`excused`, and the unique key of the table keeps the two on different first chains. `Undisturbed`: what a request committed is
still there when it looks again, unless it is `overtaken`. Most steps leave the other requests alone or only add to
what is on record of them; one lemma says that `Begun`, `Undisturbed` and `Explained` survive such a step, and each
action is shown to be one.

**Prices.** `Sorted`: a request has for each token it wants a place (to be asked for, in its call, awaited) or an
explanation. `Awaited`: the first token it waits for is in the call of the request it awaits, so when that call ends the price is in
the cache or the trouble is on record; a token further down the list still has a call in flight, or has had
its answer already. That a call which failed writes "no price" over a newer price is what makes
`trouble` part of this.

**Holdings.** Every layer is shown to hold only what a lower one gave it, with the time of the provider's answer: `ChainsKept` for
the chains and the calls in flight, `RequestsSound` for a request that read the wallet's row and waits for
rows, `JointsSound` for the shared work, `ResultsKept` for the results. The bounds in `HonestAnswers` are the sums
along that path: a chain's answer is kept for `Ttl`, is still used by work that lasts for `Timeout`, whose result is kept
for `Ttl`. An old address lives on in requests for `DatabaseTime`, in the work they begin for
`Timeout`, in its result for `Ttl`; the invariant carries each of these as a deadline (`expires`), so that the passing of
time is the case where nothing but the deadline is needed.

**Positions.** The same path with `ProviderKept`, `RowsKept`, `CallSound`, `RequestsSound` and `ResultKept`; a response in the
provider's cache is `Usable` until its entry goes, which bounds the age of the positions that stand in for a
failed call. `DetailResultKept` is an action property: apart from expiry only three steps write the service's cache, and the one of a list request
looks at what came meanwhile.

**Snapshots.** `Alone` (one cycle, the flag up) with `Counted` (a cycle has tried exactly the wallets before the one it is at) and
`Recorded` (it has rows of those wallets only) give one snapshot of a wallet and cycle; `Aged` bounds what is
kept and in flight.

The invariants of the portfolio and of the services were checked with TLC on the instances of their runs before they were proved.

Only model-checked: the liveness properties (`TransactionsEnd`, `EventuallyConverged`, `EveryJobFinishes`,
`ConfirmedIsStored`), which are out of the prover's reach because they rest on fairness and ENABLED, and the two
violations of section 6.

## 5. Not modelled, and the plan

Done, with proofs: the reconciliation and its abstraction, the outbox, the ingestion, the account modules, the caches of
the portfolio, snapshots, prices, wallet requests and migrations. Left, by weight of what can go wrong:

1. The rest of `holdings.provider.js`: the queue of balance calls with its cool-down and retries, the metadata
   cache and its slots (317-337: a slot is handed on by a counter that waiters and newcomers both raise, so more calls than
   `TOKEN_METADATA_MAX_CONCURRENCY` may run), the native price, the symbol heuristics.
2. An abstract `AlertDelivery` (each device of an event: waiting, served, given up) that the outbox refines.
3. Pure functions against reference definitions: alert rules, cursor pagination of events and alerts,
   event grouping, the identity of ERC-1155 batches (`alchemy.service.js:270` numbers them otherwise than the tracker), performance results.
4. Paused wallets in the ingestion; server start and shutdown as a composition (what a
   shutdown does to a running cycle is a crash in the modules of the workers).

Left out for good: provider response parsing (`holdings.provider.js`, `positions.provider.js`,
`ethereum.normalizers.js` apart from what identifies an event), valuation of events, cryptography and JWT
verification, HTTP validation and routing, configuration, logging, rate-limit and status counters: they keep no state that
other parts rely on, or compute a value no property here tells apart.

## 6. Where code and documentation differ

`README.md:563` says "Transient FCM failures are retried up to the configured retry limit".
The limit is compared only when a failure is recorded (`notifications.service.js:315`); a
stale claim is taken over without looking at it (`notifications.repository.js:265-272`). A
worker that records the transient failure of the last attempt and dies before it ends the
job leaves the device another attempt. `outbox_retry_limit` shows the trace; what does
hold is `RetriesPaidFor`: one extra attempt per abandoned or overlapped claim.

`README.md:109` says "The Ethereum polling tracker remains available only for fallback,
debugging, or local recovery workflows", and `.env.example` leaves `ETHEREUM_START_BLOCK` at
0. With that value and no stored cursor, `getStartingBlock` (`ethereum/ethereum.tracker.js:276-277`)
returns the latest block minus the confirmations, read after the poll computed the block it
ends at in the same way (519-520). `safeBlock <= startBlock` (523) therefore holds at every
poll: nothing is scanned, no cursor is stored, and the next poll is in the same position.
`ingest_first_poll` shows a tracker that polls for ever without a fault while blocks are
confirmed. Once a cursor exists, or with a start block above 0, `ConfirmedIsStored` holds.
