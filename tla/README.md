# A TLA+ model of the XCF Concordium facilitator

The facilitator stands between a gateway that sells resources and the Concordium
chain. The gateway posts *challenges* (who is to be paid how much of which
protocol-level token, under a nonce), customers pay on chain, a worker copies the
transfers into Postgres, and the gateway asks the facilitator to *fulfil* a
challenge: to find the transfer, spend it on this one challenge, sign a receipt and
tell the merchant by webhook.

This directory holds TLA+ modules that model that code, TLC configurations that
check them on small instances, and proofs that TLAPS checks for all instances.
`PROJECT.json` maps every definition to the lines it models.

## Inventory

| Part | State | Operations | Hard behaviour | Correct when |
| --- | --- | --- | --- | --- |
| Payment API (`routes/crp.payments.ts`, `store/match.pg.ts`, `webhook.ts`, `db/pool.ts`) | tables `challenges`, `crp_plt_event_claims`; the locals of each request | `POST /payments` (upsert), `POST /payments/fulfill`, read-only `match` and `search` | a fulfilment is ten awaits; posts, other fulfilments and ingestion run between any two; READ COMMITTED snapshots and row locks; a pool of clients; lost COMMIT answers; crashes; webhooks that are sent once and whose answer may break off | an event pays one challenge for ever; claim, event and receipt agree; answers and webhooks say what is true; a paid challenge is fulfilled and announced in the end |
| Asset registry (`store/pltAssets.pg.ts`, `tools/seedPltAssets.ts`) | table `crp_plt_assets` | look-up; seeding (upsert) | read once per request, stale afterwards; an asset's key may change, and events follow but claims do not | disabled assets are refused; every event has its asset |
| Event store (`store/plt.pg.ts`) | table `crp_plt_events`; a memoised schema promise | `insertPltTransfers` (idempotent bulk insert) | one bad row refuses its batch; a failed schema check is remembered; several processes and a migration change the schema at once, in locks that may deadlock | an event is stored once, and in the end; what is remembered of the schema is true |
| Stream worker (`worker/main.ts`, `worker/pltSource.concordium.ts`) | cursor in memory and in `crp_stream_cursors` | resolve start cursor, fetch, insert, save cursor | crash between insert and save; late visibility; overlap; clamping against a monotone cursor, again at every restart | every visible transfer is stored; the cursor never runs ahead of what is stored |
| Wallet-proxy client (`services/walletProxyClient.ts`) | attempt counter | request with retries and backoff | transient or permanent errors; a body that breaks off | an outage shorter than the retries ends no worker; every call settles |
| Challenge store (`routes/challenges.ts`, `store/repo.pg.ts`) | table `challenges` (shared with the payment API) | idempotent create, status, `markFulfilled` | compare after a failed insert; JSONB text comparison | same payload, same outcome; another payload, 409 |
| Exact-match alias and PLT search (`http/crpExactMatchAlias.ts`, `http/pltEventsRoute.ts`, `routes/crp.plt.ts`) | none | queries | own resolution of decimals and genesis index | agrees with a fulfilment |
| Amounts and identifiers (`crp/decimals-registry.ts`, `worker/pltDecimals.ts`, `lib/networkId.ts`) | none | conversions | boundaries: zero decimals, leading zeros, aliases of a network | equal texts in minor units are equal amounts; aliases are an equivalence |
| Migration and inventory (`tools/applyCrpPltEventsMigration.ts`, `tools/reportCaip2NetworkInventory.ts`) | a transaction; a report | migrate older tables; report what a rewrite of the networks would do | runs beside workers; locks tables in another order than an insert; three reads without a transaction | all or nothing; a clean report can be relied on while the registry stands still |
| Signing, health, metrics, gRPC reads, preview tools, legacy stubs | keys, counters | | | not modelled, see below |

How they meet: the payment API and the challenge store share the table
`challenges`; the worker and the operator tools write `crp_plt_events`, the payment
API reads it; the seeding tool writes the registry that both read. They share no
memory: everything goes through Postgres, one statement or one transaction at a time.

## Modules

| Module | What it models |
| --- | --- |
| `CrpPayments` | the payment API with its tables and its environment |
| `EventClaims` | what the payment API promises about chain events, and nothing else |
| `MCCrpPayments` | small instances of `CrpPayments` for TLC |
| `CrpPayments_proofs` | the inductive invariant, the properties it implies, and the refinement of `EventClaims` |
| `EventClaims_proofs` | what follows from `EventClaims` |
| `StreamWorker` | the stream worker with its cursor, its restarts and the wallet proxy |
| `Ingestion` | what the worker promises about the transfers of one account |
| `MCStreamWorker` | small instances of `StreamWorker` for TLC |
| `StreamWorker_proofs` | types, the cursor invariant, the refinement of `Ingestion`, and what may be skipped |
| `WalletProxyClient` | one call to the wallet proxy: requests, pauses, retries, failures |
| `PolledWorker` | `StreamWorker` composed with `WalletProxyClient`, and a wallet proxy with outages |
| `MCPolledWorker` | a small instance of `PolledWorker` for TLC |
| `PolledWorker_proofs` | `PolledWorker` implements `StreamWorker`, so that nothing is missed and no more is skipped; outages end no process |
| `EventStore` | the schema of the event table and all who change it: workers, migration, seeding, claims, renames |
| `NetworkInventory` | the inventory of network identifiers, reading the tables of `EventStore` while they change |
| `MCNetworkInventory` | a small instance of `NetworkInventory` for TLC |
| `NetworkInventory_proofs` | the inductive invariant of `EventStore` and `NetworkInventory`, and the properties |
| `ChallengeStore` | `POST /v1/challenges` and its status, on the table that the payment API writes too |
| `ChallengeRegister` | what `POST /v1/challenges` promises |
| `MCChallengeStore` | a small instance of `ChallengeStore` for TLC |
| `ChallengeStore_proofs` | the inductive invariant, the properties, and the refinement of `ChallengeRegister` |
| `ExactMatch` | `GET /payments/exact-match` and `POST /payments/match`, two routes to one question |
| `MCExactMatch` | a small instance of `ExactMatch` for TLC |
| `ExactMatch_proofs` | the inductive invariant of the two routes, and all their properties |
| `Networks` | identifiers of networks: normal form, aliases, equivalence |
| `Amounts` | amounts in major and minor units |
| `Formats_proofs` | `Networks` and `Amounts`: the aliases are an equivalence, equal texts are equal numbers |

### CrpPayments

`rows`, `claims` and `events` are the *committed* contents of the three tables. The
primary keys are built in: `rows` is a function of `[merchant, nonce]`, `claims` one
of the event. `disabled` is the part of the registry that changes. Each element of
`Requests` is a slot for one fulfilment in flight: `pc` is the await it stands at,
`call` the body, and `match`, `event`, `seen`, `inserted`, `reply` are the handler's
locals. A slot that has answered takes the next call, so a behaviour holds any number
of fulfilments, `Cardinality(Requests)` at a time.

One action is one await, with everything the handler does up to the next one:

| Stage | Actions | Lines of `crp.payments.ts` |
| --- | --- | --- |
| arrival | `AcceptCall`, `RejectCall` | 641-693 |
| `registry` | `AssetPasses`, `AssetDisabled`, `WrongDecimals` | 244-300, 695-708 |
| `match` | `Match`, `NoMatch` | 306-335, 710-740 |
| `event` | `FindEvent`, `NoEvent`, `AmountMalformed` | 187-237, 740-886 |
| `begin` | `BeginClaim` | 887-901 |
| `insert` | `InsertClaim`, `ReuseClaim`, `ClaimConflict`, `ClaimLookupFails` | 338-412, 903-929 |
| `update` | `UpdateChallenge` | 931-951 |
| `commit` | `Commit`, `CommitAnswerLost` | 953-970 |
| `reread` | `ReRead` | 972-975 |
| `webhook` | `Webhook`, `WebhookHangs` | 977-984, `webhook.ts` |

The claim is one SQL statement, but two actions: Postgres takes the statement's
snapshot first (`BeginClaim` records in `seen` what the final SELECT will see), then
the INSERT may wait for another transaction's uncommitted claim (`ClaimInFlight`), and
only then does ON CONFLICT DO NOTHING decide. The UPDATE takes the row lock that a
concurrent `POST /payments` or another fulfilment waits for (`RowHolders`). Nothing of a
transaction is visible before `Commit`.

A post has passed the registry check (`AdmitPost`), then takes a client of the pool for its
upsert (`BeginUpsert`), and holds it while it waits for the row lock of a fulfilment
(`UpsertPost`). A fulfilment holds one through its transaction; every other query needs a free
one for its own duration (`ClientFree`). So posts that wait for a lock may hold all clients
while the holder of the lock goes on with its own.

`Webhook` is an attempt that is answered, refused or times out. `WebhookHangs` is an answer
that breaks off after its headers: `webhook.ts` (104-134) waits for the response's `end`, which
then never comes, while the timeout is one of an idle socket, which is closed by then. The comment
at its lines 9-10 ("Returns a structured result so routes can bubble status back to the client")
is not kept there: the request stays at `hung`, for good. It holds neither client nor lock.

A tuple (asset, payTo, amount), a key and a transfer are records of model values; the
asset stands for type, token, decimals, network and genesis index together, and `Listing` for
the token, which is all that `searchPayments` filters by of it, with merchant and payTo.
`MinorUnits` stands for `toMinorUnits`, `None` where it throws. A receipt is the
transfer and the tuple it signs as `paymentEvent`.

Environment: the gateway posts any tuple of `Offers[k]` for a key and calls any body of
`Calls`, any number of times; the worker ingests events in any order (`IngestEvent`);
an operator disables and enables assets; a query fails (`QueryFails`), COMMIT's answer
is lost, the server dies (`Crash`: transactions in flight are rolled back).

### EventClaims

Two variables: who owns an event, and the event of the receipt each challenge shows.
A challenge may be settled by an event that is free or already its own, and may lose
its receipt but never an event. `CrpPayments!Promise` instantiates it with
`owner <- claims` and the events of the visible receipts.

### StreamWorker

`visible` is what the wallet proxy shows of the account, `stored` the event table,
`saved` the row of `crp_stream_cursors`. Each element of `Workers` is a process with the
same cursor key: two of them may overlap while one version replaces another. Two history
variables say what is not asked of it. `floor` is the highest start so far that was not the saved
cursor (an override, a clamp, "from now"), 0 before the first. `first` is what the cursor table
held at first: that cursor may stem from an earlier numbering of the wallet proxy and lie beyond
the chain, and it then says nothing of lower ids that appear later. The code skips some of those,
in two ways. While the account is empty, or the chain has come within `MaxAhead`, such a cursor is
taken as it is. Before that it is clamped, and saved in vain, because `upsertCursor` takes the
greater cursor: each restart clamps again, or goes to "from now", past what its predecessor had
not stored. `SkipsStayBehind` is the bound: never past the saved cursor, nor to within `MaxAhead` of it.

| Stage | Actions | Lines of `worker/main.ts` |
| --- | --- | --- |
| `stopped` | `Start` | 137-184 |
| `resolve` | `Resume`, `Clamp`, `StartFromNow` | 187-219 |
| `clamp`, `from_now` | `SaveClamped`, `SaveFromNow` | 203, 213 |
| `fetch` | `Fetch` | 263-268, `pltSource.concordium.ts` 94-225 |
| `insert` | `Insert`, `InsertRefused` | 285-328, `store/plt.pg.ts` 206-278 |
| `save` | `Save` | 330-343 |

A transaction is its wallet-proxy id; the fields of an event and its key are determined by
it. Ids need not be contiguous. `IsPage` is the proxy's answer to a request with `from` and
`limit`; `Late` is the set of ids that may appear after higher ones, and `NothingMissed`
accounts for all others. Every failing call ends
the process (`runDemo` rejects): `Stop` covers them all, with a kill, a signal and
`maxTicks`. An upsert whose answer is lost is a `Save` followed by a `Stop`.

`DryRuns` are the processes with `CRP_STREAM_DRY_RUN`: they fetch, but pass over the insert
(`WouldInsert`) and, unless `PersistInDryRun`, over the save (`AfterProgress`). They share the
cursor key, and the code lets them save a start that they clamp or move to "from now"; that is
harmless for `NothingMissed`, since those starts are counted in `floor`.

### WalletProxyClient and PolledWorker

`WalletProxyClient` is one call of `requestWithRetry`: `phase` and `attempt` of each caller. Its
`Failures` are what a request can come to (no answer, an error status, an error object, a body
that is no JSON); `IsTransient` is the code's classification, by status and by words of the
message: it takes a 4xx that speaks of overload or a timeout for transient (`busy_4xx`), and an
unreachable host or a garbled 2xx answer for permanent.

`PolledWorker` replaces the single step of a poll, or of the look-up of the latest id, by such a call:

| Stage of the call | Actions | Lines of `walletProxyClient.ts` |
| --- | --- | --- |
| `idle` to `waiting` | `Request` | 139-206 |
| `waiting` to `pausing` and back | `Retry`, `Resend` | 238-252 |
| `waiting` to `idle` | `Answer`, `BlankPage`, `BlankLatest`, `GiveUp` | 214-255 |
| `waiting` to `hung` | `Hang`, `Exit` | 268-294 |

A connection that closes in the middle of a body settles nothing (`Hang`): the process does
nothing more, the idle connections of its pool close, nothing is left on the event loop and
it ends (`Exit`). A 2xx answer without a body counts as an empty page for a poll, and is a TypeError
for the look-up of the latest id. The environment has outages of at most `MaxOutage`
requests of a process (`DuringOutage`, `OutageOver`) and, bounded by `MaxStops`, faults and kills.
`ImplementsStreamWorker` is `StreamWorker!FairSpec`, fairness included.

### EventStore and NetworkInventory

`EventStore` is the schema of `crp_plt_assets` and `crp_plt_events` and their rows' keys.
`registry` is absent, `old` (keyed by `asset_id`) or `scoped` (by network); `fks` the foreign
keys of the events. A worker process prepares the tables before its first insert, one
statement at a time; what it remembers is its `pc`.

| Actions | Lines |
| --- | --- |
| `CreateAssets`, `CreateEvents`, `CheckColumns`, `FindConstraint`, `AddConstraint`, `CreateIndexes` | `store/plt.pg.ts` 36-176 |
| `BeginInsert`, `FinishInsert` | `store/plt.pg.ts` 206-278 |
| `BeginMigration`, `LockEvents`, `EndMigration`, `MigrationFails` | `tools/applyCrpPltEventsMigration.ts` 39-256 |
| `SeedTable`, `SeedRow` | `tools/seedPltAssets.ts` |
| `Claim` | `crp.payments.ts` 366-412, 887-901 |
| `ReadAssets`, `ReadEvents`, `ReadClaims` of `NetworkInventory` | `tools/reportCaip2NetworkInventory.ts` 64-332 |

The migration is one transaction, grouped by the locks it takes: the registry first, then the
events. An insert takes them the other way round, because the foreign key is looked up for the
rows that it has inserted, and so does ADD FOREIGN KEY, which locks the events (`BeginConstraint`)
before the registry that it refers to (`AddConstraint`): `BreakDeadlock` is what Postgres makes of
either, and any of the two may be the victim. CREATE TABLE IF NOT EXISTS run by several at the same
time fails for all but one (`Overtake`), with the catalog's unique index. A process that loses
there, or in a deadlock, ends like after any other error (`Die`), which is the only thing that
forgets a failed `schemaInitPromise`. A migration that loses is rolled back and repeated by the
operator; a lost seeding of the table is one that has not happened yet.

`Rename` is external: an operator changes the key of a registry row (`NewKeys`), to the other name
of its chain, as a move to CAIP-2 names would, or to another genesis index: the SQL migration
backfills 6, the tool 7, so that one of them is to be corrected. `ON UPDATE CASCADE` takes the
events along. Claims are keyed by network and genesis index too (`Claimed`), and stay behind.
`renamed` is a history variable: the transactions whose key has changed so. `SpentOnceUnlessRenamed`
does not excuse that: the comment at `crp.payments.ts` 341 and 348-351 promises that an event is
used once across all challenges, legacy names being equivalent, and a changed key breaks the promise. The property
says that nothing else does. `stale` of `NetworkInventory` is one more: whether the registry has
changed since the inventory read it, even if the change was undone.
`NetworkInventory` reads the tables one after another and keeps the keys it has seen, the gaps
and the collisions; the sections on `challenges` only count and are left out.


### Ingestion

The event table grows by visible transfers, the mark moves forward only over ids that are
accounted for, and ids up to `exempt` are not asked for. `StreamWorker!Promise` instantiates it
with the saved cursor as the mark, 0 standing for a missing one, and the greater of `first` and
`floor` as `exempt`.

The two models meet in the event table: `IngestEvent` of `CrpPayments` is `Insert` of
`StreamWorker`, and `EventuallyStored` is the reason for which `CrpPayments` may assume that
ingestion goes on.

### ChallengeStore

`rows` is the table `challenges`, seen as the network, the terms (asset, amount, payTo,
expiry), the extras (policy, metadata) and the status of each key. A request stands at the INSERT or at
the SELECT of `upsertChallenge`; between them others write the row.

| Stage | Actions | Lines of `store/repo.pg.ts` |
| --- | --- | --- |
| arrival | `Accept`, `Reject` | `routes/challenges.ts` 28-66 |
| `insert` | `Insert`, `InsertNothing`, `InsertAnswerLost` | 92-118 |
| `select` | `FindSame`, `FindOther` | 120-143 |

`QueryFails` covers a failed query at either. `GetStatus` is the status endpoint, `Repost` and
`Fulfil` are what the payment API does to the row. Whether two payloads have equal terms and
whether they are *spelled* as the database gives them back are two things (`text`), because
the code compares the latter. `overwritten` is a history variable: the keys that
`POST /v1/crp/payments` has written over.

Two promises of `docs/01-API-Contracts.md` are not kept, and the properties stop short of them.
Its lines 105, 319 and 329 know a 409 for different immutable fields only and call policy and metadata
mutable while pending; `repo.pg.ts` 134-135 compares them too and refuses others.
`ConflictIsReal` therefore speaks of clients that post the stored ones. Its line 331 calls terminal
states immutable; `POST /v1/crp/payments` resets a fulfilled row to pending, which
`FulfilledIsFinal` exempts (`overwritten`).

### ChallengeRegister

One write-once register per key. A creation sets a free register and shows it, or the answer
is lost; other answers show the register as it is, or nothing. The payment API may settle a
challenge or overwrite it. `ChallengeStore!Promise` instantiates it with the same names.

### Networks and Amounts

A network identifier is a scheme, a chain and a spelling. `NetworksEquivalent` is the code's
comparison, `CanonicalChainId` the name that receipts use. An amount is a sign and two
sequences of digits; `ToMinorUnits` makes a text of it as the code does, `RawText` is the text
that Postgres makes of `amount_raw`, and `IsWorth` is the reference: the same number.

### ExactMatch

Three awaits (`resolve`, `search`, `event`), between which registry, challenges and events
change (`Register`, `PostNew`, `Post`, `Ingest`). A query has a route. For `"alias"`,
`Resolve...` are the three ways to get decimals and genesis index; a failed look-up of the index
alone goes unnoticed. For `"match"`, `PassUnregistered`, `PassRegistered` and `RefuseAsset` are
`normalizeAssetWithRegistry`, and there is no event to look for. The two search differently
(`AliasMatch`, `PostMatch`): the alias filters by both names of the chain, the other route by none
and compares afterwards. `MatchFinds` is `POST /payments/match` in one state, for
`AliasFindsMatches`.

Both routes that store challenges are there: `PostNew` is `POST /v1/challenges`, which asks no
registry, `Post` is `POST /v1/crp/payments`, which stores the decimals of the registry's row at the
genesis index of the body (`Normalised`) or refuses.

The header of the alias calls it a "thin GET alias for the existing exact-tuple match logic"
(`crpExactMatchAlias.ts` 3-4). That is true of the search and not of what comes before it, and the module
shows where. The alias takes the registry row with the highest genesis index among enabled ones,
`POST /match` the row at the index of the body (`networkGenesisIndex`) or the configured one;
without a row the alias falls back to two decimals, `POST /match` to those it was given, or 0; a disabled
row is passed over by the alias and refused by `POST /match`; given decimals are checked against the
registry by `POST /match` only; decimals of 0 are given for the alias and missing for `POST
/match`. So one body may be found by either route and not by the other. `AliasFindsMatches` is
what remains: in the same decimals, the alias finds what `POST /match` finds.

## Runs

| Run | Asks | Result |
| --- | --- | --- |
| `payments_safety` | do claims, receipts, answers and webhooks agree, and implement `EventClaims`? was all that is spent on a challenge paid for it? | holds |
| `payments_live` | does every call get past the pool and the locks, and an answer unless its webhook hangs? is every payable challenge fulfilled and announced? | holds under `Fairness` |
| `payments_reset_race` | is a fulfilled row the row that was paid? (`FulfilledIsPaid`) | violated |
| `payments_claim_lookup` | does the owner's own claim always succeed? (`OwnClaimSucceeds`) | violated |
| `payments_webhook_pending` | does a fulfilled-webhook carry a fulfilled payment? (`WebhookMeansFulfilled`) | violated |
| `worker_safety` | does the saved cursor ever run ahead of the event table, with two processes, a dry run and a late transaction? does the worker implement `Ingestion`? | holds |
| `worker_live` | with outages, faults and broken answers: is every transfer stored in the end that no start passes over? does a start ever skip past the saved cursor? does every call settle, does only a fault end the process? does the composition implement `StreamWorker`? | holds under `PolledFairness` |
| `worker_late` | does the overlap heal late visibility? (`LateIsHealed`) | violated |
| `challenges_safety` | do concurrent creations agree under any name of a chain? is a 409 real, a fulfilled challenge final? does the store implement `ChallengeRegister`? | holds |
| `challenges_repeat` | does an identical payload get the same outcome? (`SameOutcome`) | violated |
| `exact_match` | is every "ok" and "no_event" true in numbers? is a "no_match" due to the search window only? does the alias find what `POST /match` finds in the same decimals? | holds |
| `inventory` | is the remembered schema true? has every event its asset? is a transfer spent twice only across a changed key? can a clean report be relied on, and does a gap mean that it is out of date? is every row stored in the end? | holds under `StoreFairness` |

The five violations are disagreements between the code and its own comments or docs,
quoted in `PROJECT.json`:

* *reset race.* A fulfilment matches the row, a re-post changes its tuple, the UPDATE
  then marks the changed row fulfilled, because it compares neither tuple nor status.
  `OneTupleIsPaid` shows that a gateway is safe that never posts a nonce with two
  tuples.
* *claim look-up.* Two overlapping calls for one challenge: the second waits for the
  first one's claim, inserts nothing, and does not see the claim either, for its
  snapshot is older. It answers 500 `claim_lookup_failed`; the comment on
  `claimPltEvent` promises success. `RefusalIsReal` bounds the damage (somebody holds
  the claim) and `PayableIsFulfilled` shows that the next call succeeds.
* *pending webhook.* With `requireEvent=false` the row is never fulfilled, yet the
  webhook says `crp.payment.fulfilled`.
* *late visibility.* The overlap fetches a late transaction again and again, but the strict
  filter behind it drops every id at or below the cursor, so nothing is healed.
  `NothingMissed`, proved for any `Late`, bounds the damage: only the late transactions
  themselves are lost.
* *repeated creation.* The stored row is compared with the payload as JSON text. JSONB gives
  back its keys in another order, and TEXT gives back a string where a number was posted:
  an identical payload is answered 409. `ConflictIsReal` shows that this is the only cause of
  a false conflict, besides other policy or metadata and an overwrite by the payment API.

### Bounds

* Two slots: every hazard above is a race of two; a third request repeats the role of
  one of them. The proofs hold for any number.
* Two nonces of one merchant that both want the same transfer: the smallest instance
  of a conflict. A second transfer of the same transaction has a lower index and
  another amount, so that the look-up's filters matter; a call asks for that amount
  though no challenge was posted with it. A second transaction would take the run past its
  time; what two of them spend on one challenge (`ClaimIsPayment`, `OwnersStay`) is proved for any number.
* `MaxPosts` = 3: both nonces once, and one re-post. `MaxFailures` = 1 (failed query,
  lost answer, crash or disabled asset): enough to separate any two awaits of one
  request, and the retry after it is fault-free; 0 in the violation runs, which need none.
* `SearchLimit` = 1 in the safety run, so that a newer post hides an older challenge
  between match and re-read; 2 in the live run, where nothing is hidden.
* `PoolSize` = 2, as many clients as slots: two transactions, or two posts of which one
  waits for a row lock, or one of each, leave none for anybody else, and in the live run two posts
  and two fulfilments compete for them.
* Slots are interchangeable: the safety run uses that symmetry.

* Worker: five ids, four of them transfers, in pages of two with an overlap of one: several
  pages, one transfer that may come late, a page without transfers in the live run, and a fetch that sees old and new ids. First cursors
  are `None`, which starts from now, and 3, which the proxy has not reached at first and which is clamped
  or taken as it is, while a transfer lies beyond; by either process or by the dry run beside them,
  which does not save its progress. `MaxStops` = 2: each of the two processes
  can be ended and restarted, or one of them twice. `Overlap` < `Limit` in the live run: with an
  overlap of a whole page the cursor never moves again, which the code permits (its limit is 100,
  the overlap is configured).
* The live run has one process and no override. Its first cursors are `None`, 3, which is taken as it
  is, and 6, which lies beyond the chain until id 5 is there: at every start before, a `Rewind` of 3 clamps it
  to a positive id or to 0, which is "from now". One transfer lies below it and one beyond.
  `MaxRetries` = `MaxOutage` = 2: an outage uses up all retries, and the last attempt is the
  first after it. `MaxStops` = 2 faults or kills in any attempt of any call.

* Challenge store: one nonce, since no statement touches two; two requests, since a third
  meets the row as the second does. Six payloads: both names of one chain (one in other
  casing, one padded), a chain without an alias, two sets of terms, a payload in another spelling,
  and an incomplete one. One re-post and one failure, so that each separates any two awaits.
* Exact match: one token, registered under both names of one chain with different genesis
  indexes; challenges with equal amounts in different texts and decimals, and one on another
  chain that fills the window (`SearchLimit` = 1); transfers that pay, pay under the other index,
  and pay zero. Queries with and without decimals, one whose amount has too many places,
  and one without `requireEvent`; two queries for `POST /match`, one without decimals at a
  genesis index that the registry lacks, one with decimals at the default index.
  `TextsAreWorth` adds 84 amounts with zeros in every place.

* Inventory: two workers whose networks are two spellings of one name, one transfer, two
  challenges. First tables: none; those of an older version; current ones that lack the foreign
  key and hold an event without an asset. One completed migration (`MaxMigrations`) and one
  mishap (`MaxMishaps`), which is a failure or a changed key (the other name, or the other of two genesis
  indexes): each property speaks of what one of
  them does between any two statements, and deadlocks are not counted as mishaps. The run declares
  no symmetry, because it checks liveness. The proofs hold for any bounds.

### Fairness

Handlers run on (`SF` of `Step(r)`): Node's event loop resumes a handler whose await is
done, the database answers or the client's error ends the await. Strong fairness stands for
queues: the pool serves those who wait for a client in turn, and Postgres those who wait for
a lock, although others hold them in between. An upsert that has its client waits for one row lock
only (`WF` of `UpsertPost`); that one gets a client at all is not needed and not assumed. A webhook comes to something (its timeout of 3 s) or
hangs: nothing makes a broken answer whole, so `OnlyWebhooksHang` lists that end. The worker goes on ingesting (`WF` of `IngestEvent`). The gateway repeats
each call that names a transaction and now and then finds a slot (`SF` of `AcceptCall`):
the retry loop that `docs/crp-gateway-contract.md` leaves to the gateway. Posts, crashes
and failures are not fair. `PayableIsFulfilled` and `OwnerIsNotified` speak of behaviours
in which the asset is not disabled for good, of a transfer that no other challenge
calls for, and of a challenge within the search window.

For the worker: a process goes on (`WF` of `Step(w)`), since a request to the proxy ends after
its retries and its timeout; a process that ended is started again (`WF` of `Start(w)`), which
the repository leaves to whoever runs `npm run crp:worker:demo`; the operator seeds the asset
in the end. The number of failures is finite (`MaxStops`). `PolledFairness` is the same for the
process with its calls: a request that is sent comes to something, be it the timeout, and a hung
process ends when its idle database connections are closed (pg's default of 10 s).

For the event store: processes run and are started again (`WF` of `StartWriter(w)`); a statement that
waits for a lock gets it if it is free again and again (`SF` of `WriterStep(w)`, `LockEvents` and
`SeedRow`), because Postgres queues lock requests; Postgres ends deadlocks; the operator seeds the
assets and repeats a migration that was rolled back until one has come to its end. Changed keys,
claims, failures and the inventory are not fair.

## Proofs

`tlapm CrpPayments_proofs.tla` proves, for any keys, tuples, events, calls, requests and
bounds, from the four named assumptions of `CrpPayments` (calls and offers are well typed,
events carry an index and an amount, the set of keys is finite and the bounds are numbers, `None`
is none of the values it stands beside):

* `TypeOK`, `ReceiptBacked`, `OneTupleIsPaid`, `OkMeansPaid`, `RefusalIsReal`,
  `WebhookIsBacked` and `ClaimIsPayment` are invariants;
* a spent transfer stays spent on the same challenge (`OwnersStay`), and `CrpPayments`
  implements `EventClaims` (`ImplementsEventClaims`);
* `OwnClaimSucceeds`, which `payments_claim_lookup` violates, holds if the transactions of two
  fulfilments do not overlap (`OneTransaction`: one slot, or a pool of one client). So the overlap
  is the only cause of `claim_lookup_failed`.

None of these is inductive by itself: that a receipt is backed after a commit depends
on what the request carried through its awaits. `IInv` says so for every stage
(`LocalInv`): from `match` on the row exists and its key was offered the tuple; from
`event` on the event is ingested and pays the tuple; at `insert` the snapshot shows
nothing or the present claim; in the transaction either this request has inserted the claim
and no claim is committed, or the claim is its own already. `ClaimExclusive` says that two
open transactions never hold the same inserted claim, which is why one commit cannot
invalidate what the other carries. `AnswerInv` keeps what an answer was based on;
it survives because claims and events only grow. `OffersInv` ties rows to offers for the
properties that assume one tuple per nonce.

The proof has one lemma per kind of step: steps that touch only one request's locals
(`LocalStep`, with `AnswerStep`, `MoveStep`, `ArriveStep`, `WebhookStep`, `RefuseStep`), commits
(`SettleTables`, `SettleOthers`, `SettleStep`), posts (`UpsertStep`), and the environment and
crash (`OtherStep`). The refinement maps commits to `Settle`, posts to `Reset` and all
else to stuttering.

`EventClaims_proofs` proves of `EventClaims` that a shown receipt's event is owned by its
challenge, and that owners are for ever.

`tlapm StreamWorker_proofs.tla` proves, for any ids, number of processes, page length,
overlap, clamping parameters, overrides and first cursors, from the named assumptions on
these constants:

* `TypeOK` is an invariant;
* if dry runs save no progress (`~PersistInDryRun`), `NothingMissed` is one, and
  `StreamWorker` implements `Ingestion` (`ImplementsIngestion`), whatever becomes visible late. With `PersistInDryRun` a dry run that shares the cursor key moves it over
  transfers that nobody has stored, which is what that switch asks for.

`NothingMissed` is not inductive: what is saved is a cursor that some process carries.
`CursorInv` therefore accounts for every cursor in memory too, and for the batch that a
process is about to insert (`BatchInv`); `Ordered` says that what is visible is, but for the late
ones, a prefix of the ids, so that whatever else appears next lies beyond every cursor. `FetchCovers` is the
heart: a page is a prefix of what follows `cursor - overlap`, so that no transfer between the
cursor and the best id of the page escapes the batch. The frame lemmas `CursorKept`,
`BatchKept` and `SavedKept` deal with the processes that do not move.

It also proves `SkipsStayBehind` (`SkipsAreBehind`), for persisting dry runs too, if
no override is configured (an override is a skip on purpose) and either one process runs or there is
a cursor from the first (`SoleOrSaved`), within the ids or beyond. `SkipInv` says that a process that resolves its start
has read no more than the saved cursor and, once there is one, not 0; and that one that has clamped has left the saved cursor more than
`MaxAhead` ahead of the latest id it has read, which is as far as it may still jump. Since the saved cursor never falls, no
other process disturbs that. Two processes that start on an empty cursor table are the exception:
one of them may go to the present after the other has saved.

`tlapm PolledWorker_proofs.tla` proves, for any processes, retries and outages, if outages are no
longer than the retries and of failures that the client takes for transient (`ShortOutages`):

* `OnlyFaultsEnd` is an invariant. It needs `CallInv`: each attempt of a call but the one that waits
  has met the present outage, so that a call out of attempts has met a longer one than there is.
* `PolledSpec` implies `StreamWorker!Spec`, step by step; so `NothingMissed` and
  `ImplementsIngestion` carry over from `StreamWorker_proofs`, and so does `SkipsStayBehind`.

`tlapm NetworkInventory_proofs.tla` proves, for any chains, assets, feeds, writers, first tables that
some version of the code has left (`Sound`) and bounds, that `InventoryTypeOK`, `MemoIsTrue`,
`NoOrphans`, `SpentOnceUnlessRenamed` and `CleanIsSafe` are invariants. The inductive invariant adds
that the registry has a network for each row once it has the columns (`KeysAreScoped`), that an
event is stored once, and `ClaimsFollow`: claims are in normal form and one per key, each has its event, and
the claims of an event that has kept its key are under the event's network and genesis index. From this
`SpentOnceUnlessRenamed` follows: two claims of one transfer whose key has not changed have the same key.
`CleanIsSafe` needs `ReportIsKept` (collisions of the registry that was read are reported), and
follows for claims from their normal form, for events from the foreign key: `NoOrphans` puts
each event's asset in the registry, and the rewrite of an asset's key is the key of the rewritten event.

`GapIsStale` (`GapIsAlwaysStale`) rests on the history variable `stale`: the registry has been changed
since the inventory read it. `GapHasCause`, the inductive part, says that until then the registry has the
columns and is the one that was read, and that a gap stands for an event whose asset was not in it and for a
registry without the foreign key. `StoreKeepsCause` carries this through the steps of the store: the columns
stay (`RegistryKeepsColumns`), events are only added while there is no foreign key (`EventsStay`), and
a foreign key cannot be added while an event lacks its asset.

`tlapm ChallengeStore_proofs.tla` proves, for any keys, terms, chains, payloads, requests and
bounds, from the assumptions that payloads are well typed, bounds are numbers and `None` is
none of the values beside it:

* `TypeOK`, `AcceptedAgree` and `ConflictIsReal` are invariants, `FulfilledIsFinal` is an action
  property, and `ChallengeStore` implements `ChallengeRegister` (`ImplementsRegister`).

The inductive invariant says that a request at `select` has a row to read (`StageInv`), that what
was shown is still what the row describes unless the row was overwritten (`ShownInv`), the same of a
conflict (`ConflictInv`), and that a status once reported as fulfilled is the row's
(`ReportInv`). `RowsStay` is why a creation disturbs none of them: it writes only where no row is.

`tlapm Formats_proofs.tla` proves two facts about formats, for all identifiers and all amounts:

* `Equivalence`: `NetworksEquivalent(a, b)` holds exactly when `CanonicalChainId` agrees. The
  code tests membership in a set of candidates, which need not be symmetric or transitive.
* `EqualTexts`: the text of `toMinorUnits` and that of `amount_raw` are equal exactly if the amounts are
  the same number, for digits of any length and any decimals. The value of a text is a recursive
  function, and so is the text of a number. The library's induction rules take an operator as a
  parameter, which no installed prover instantiates; the proof uses well-foundedness, which is stated of
  sets, instead (`NumbersInduction`, `TextsInduction`: what holds is a set, and is closed). By it
  both recursions have exactly one solution, appended digits multiply by ten and stripped zeros change
  nothing, and `RawText` is the one text without leading zeros that writes a number
  (`NumberOfRawText`, `RawTextOfNumber`).

`tlapm ExactMatch_proofs.tla` proves, for any registry, queries, challenges, transfers and search limit,
that `TypeOK`, `OkIsPaid`, `TextsAreWorth` and `AliasFindsMatches` are invariants, and
`NoEventIsTrue` and `OverlookedIsHidden` action properties. The assumptions are those of the
module: amounts are non-empty sequences of digits, identifiers name one of the chains, and challenges
are stored under normal forms, as both routes that store them do. The inductive invariant `IInv`
says what a request carries through its awaits (`Progress`): the query, from the search on the decimals and
genesis index resolved, at the look-up of the transfer a row in these decimals. `OkIsBacked` and
`NoEventIsAlwaysTrue` rest on `EqualTexts` and on the names of a chain (`CandidatesFacts`). `AliasIsNoWorse`
and `OverlookedIsAlwaysHidden` count the rows in the search window: the newest of fewer rows include those
of them that are among the newest of all (`NewestOfFewer`), and the alias filters by the chain's names before it cuts.

`NoEventIsTrue` speaks of transfers that are stored under a name in normal form. One that a worker
has stored under another spelling (`CRP_STREAM_NETWORK` is taken as it is configured) is found by
no look-up, and TLC shows that the property is false of it. The instance of `exact_match` has only names in
normal form, because a second spelling multiplies its states past what a run may take.

Only model-checked: the liveness properties (liveness under fairness is out of the
prover's reach, and so is the fairness in `ImplementsStreamWorker`), and the violations. Every invariant and
every action property that a run checks is stated by a theorem.

## Not modelled, and why

* `metadata.contract`: the signed contract copies gateway data from it; a receipt is
  modelled by the part that is checked.
* Expiry and clocks: a fulfilment does not check the expiry; `expiresAt` only decorates
  the receipt.
* Networks in `CrpPayments`: part of the abstract asset there; their aliases are modelled in
  `Networks`, and what a renamed network does to claims in `EventStore`.
* A webhook's delivery: the model counts the attempt, since the code never retries it.
* The worker's fixture source, which serves development, and the fields of an event.
* `db/migrations/20251126_create_crp_plt_events.sql`, an earlier form of what
  `applyCrpPltEventsMigration` does: on an empty database it leaves the same tables; on older ones it
  keeps a primary key on `asset_id` of the default name, to which its foreign key then cannot refer,
  and it backfills genesis index 6 where the tool takes 7 by default.
  `crp_plt_event_claims` is created nowhere in the repository; it is modelled from its comment and use.
* Several accounts: a transfer between two watched accounts is inserted by two workers, under
  one key.
* Signing and verification, readiness, metrics, gRPC reads: no influence on payments.
* `markFulfilled`, which only `routes/admin.ts` calls, and the server does not register;
  `fromMinorUnits`, `formatPltAmount` and the in-memory decimals registry, which nothing calls.
* The PLT search routes: filters and paging over the event table.
* A malformed amount in an exact-match query, and negative or fractional decimals: refused
  with the same 400 as too many places.
* `GET /payments/search`: the same filters without a comparison, and paging.
* The tools that preview or print blocks and tables (`ingestPlt*`, `debug*`), which write nothing, and the
  legacy sources that nothing reaches.

### Noted while modelling

* `normalizeNetworkId` keeps `concordium:testnet`, so the inventory's rewrites concern spellings
  only: a registry in plain legacy names is reported as canonical.
* `CRP_STREAM_NETWORK` is stored as it is configured. Events under another spelling of a name
  than the normal one are stored, but no fulfilment finds them (`Findable`).
* A dependency gap in the inventory is never one of the database, as long as the foreign key is there: it
  comes of a registry that changed between two reads (`GapIsStale`).
* A cursor clamped to 0 is saved, then taken for "from now", both also in a dry run.

## Plan

1. *Done:* `CrpPayments`, `EventClaims`, their runs and proofs.
2. *Done:* `StreamWorker`, `Ingestion`, their runs and proofs.
3. *Done:* `ChallengeStore`, `ChallengeRegister`, their runs and proofs.
4. *Done:* `Networks` with its equivalence proved, `Amounts` and `ExactMatch` with their run.
5. *Done:* `WalletProxyClient`, `PolledWorker`, with proofs; dry runs of the worker.
6. *Done:* `EventStore` and `NetworkInventory`, with proofs; `POST /payments/match` as a route of
   `ExactMatch`.
7. *Done:* proofs of `ExactMatch`, `Amounts`, `GapIsStale`, `SkipsStayBehind` and `ClaimIsPayment`.
8. Composition of worker and payment API in one specification (a transfer on chain ends as a
   fulfilled challenge).
9. Two processes that start on an empty cursor table: the skipped transfers are bounded by
   nothing that is modelled so far.
10. Readiness: two checks one after the other, with a timer that races the answer.
