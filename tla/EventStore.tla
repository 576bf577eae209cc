------------------------------ MODULE EventStore ------------------------------
(***************************************************************************)
(* The schema of the event store and those who change it: ensureSchema, by *)
(* which every worker process prepares the tables before its first insert  *)
(* (store/plt.pg.ts), the migration of older tables in one transaction     *)
(* (tools/applyCrpPltEventsMigration.ts), the seeding of assets            *)
(* (tools/seedPltAssets.ts), fulfilments that claim events, and an         *)
(* operator who gives an asset's network another name or corrects its      *)
(* genesis index.  One action is one statement, but for the migration,     *)
(* whose statements are grouped by the locks that they take.               *)
(***************************************************************************)
EXTENDS Networks, Naturals

CONSTANTS
  Chains, Assets,  \* of network identifiers and of registry rows
  Indexes,         \* genesis indexes
  Txs,             \* transaction hashes; the event index is 0
  Owners,          \* challenges to be paid
  Writers,         \* worker processes
  Feed,            \* Feed[w]: the rows that w inserts, by its CRP_STREAM_NETWORK
  SeedKeys,        \* rows that seedPltAssets is run for
  DefaultNetwork, DefaultIndex,  \* what the migration backfills
  FirstTables,     \* the tables that may be there at first
  MaxMigrations, MaxMishaps,  \* bounds: on migrations, on failures and changed keys
  None

\* Primary keys of the registry, after and before the migration, and event rows.
Keys == [network : NetworkIds(Chains), index : Indexes, asset : Assets]
OldKeys == [network : {None}, index : {None}, asset : Assets]
Rows == [tx : Txs, network : NetworkIds(Chains), index : Indexes, asset : Assets]

\* What the tables may be: the old registry is keyed by asset_id; a foreign key of the
\* events refers to the whole key of the registry, or to asset_id only.
Tables ==
  [registry : {"absent", "old", "scoped"}, assets : SUBSET (Keys \cup OldKeys),
   logged : BOOLEAN, events : SUBSET Rows, fks : SUBSET {"asset", "scoped"}]

KeyOf(row) == [network |-> row.network, index |-> row.index, asset |-> row.asset]

OneRowPerTx(rows) == \A d, e \in rows : d.tx = e.tx => d = e

\* Tables that some version of the code has left.
Sound(t) ==
  /\ OneRowPerTx(t.events)
  /\ t.registry = "absent" => t.assets = {}
  /\ t.registry # "old" => t.assets \subseteq Keys
  /\ ~t.logged => t.events = {} /\ t.fks = {}
  /\ "scoped" \in t.fks =>
       t.registry = "scoped" /\ \A e \in t.events : KeyOf(e) \in t.assets

ASSUME FeedAssumption ==
  /\ Feed \in [Writers -> SUBSET Rows] /\ \A w \in Writers : OneRowPerTx(Feed[w])
  /\ SeedKeys \subseteq Keys
  /\ DefaultNetwork \in NetworkIds(Chains) /\ DefaultIndex \in Indexes

ASSUME TablesAssumption ==
  /\ FirstTables \subseteq Tables
  /\ \A t \in FirstTables : Sound(t)
  /\ None \notin NetworkIds(Chains) \cup Indexes

ASSUME BoundsAssumption ==
  MaxMigrations \in Nat /\ MaxMishaps \in Nat

VARIABLES
  registry, assets,   \* crp_plt_assets: its shape, the keys of its rows
  logged, events,     \* crp_plt_events: whether it exists, its rows
  fks,                \* its foreign keys
  claims,             \* crp_plt_event_claims
  pc,                 \* pc[w]: the statement of ensureSchema or of the insert of w
  migration,          \* the tables that the open migration has locked
  renamed,            \* history: transactions whose network has got its other name, or
                      \* whose genesis index has been corrected
  migrations, mishaps  \* counters for the bounds

schema == <<registry, logged, fks>>
contents == <<assets, events>>
counters == <<migrations, mishaps>>
storeVars == <<schema, contents, claims, pc, migration, renamed, counters>>

Claims == [network : NetworkIds(Chains), index : Indexes, tx : Txs, owner : Owners]

Stages == {"stopped", "assets", "events", "columns", "constraint", "constrain",
           "constraining", "indexes", "ready", "checking"}

TypeOK ==
  /\ registry \in {"absent", "old", "scoped"} /\ assets \subseteq Keys \cup OldKeys
  /\ logged \in BOOLEAN /\ events \subseteq Rows /\ fks \subseteq {"asset", "scoped"}
  /\ claims \subseteq Claims
  /\ pc \in [Writers -> Stages] /\ migration \in {"off", "assets", "both"}
  /\ renamed \subseteq Txs
  /\ migrations \in 0..MaxMigrations /\ mishaps \in 0..MaxMishaps

StoreInit ==
  /\ \E t \in FirstTables :
       /\ registry = t.registry /\ assets = t.assets
       /\ logged = t.logged /\ events = t.events /\ fks = t.fks
  /\ claims = {} /\ pc = [w \in Writers |-> "stopped"] /\ migration = "off"
  /\ renamed = {} /\ migrations = 0 /\ mishaps = 0

GoTo(w, stage) == pc' = [pc EXCEPT ![w] = stage]

\* Mutation: the process lives on, and remembers that its schema check has failed.
LiveOn(w) == GoTo(w, "failed")

\* The error ends the process, and with it the promise that remembers the failure.
Die(w) == GoTo(w, "stopped")

\* No insert and no ADD CONSTRAINT is on its way, which would hold a lock on the events.
EventsFree == \A w \in Writers : pc[w] \notin {"checking", "constraining"}

\* Some of the processes that run the same CREATE TABLE IF NOT EXISTS at the same time
\* fail: the catalog has the name twice, for a moment.
Overtake(processes, others) ==
  \E losers \in SUBSET processes :
    pc' = [w \in Writers |-> IF w \in losers THEN "stopped" ELSE others[w]]

\* The processes that create the registry while it is absent, and the events.
CreatingAssets == {w \in Writers : pc[w] = "assets" /\ registry = "absent"}
CreatingEvents == {w \in Writers : pc[w] = "events" /\ ~logged}

\* The asset of the event is there.
Registered(row) == KeyOf(row) \in assets

-----------------------------------------------------------------------------
(* ensureSchema.                                                           *)

StartWriter(w) ==
  /\ pc[w] = "stopped"
  /\ GoTo(w, "assets")
  /\ UNCHANGED <<schema, contents, claims, migration, renamed, counters>>

\* CREATE TABLE IF NOT EXISTS, which waits for a migration that is creating it.
CreateAssets(w) ==
  /\ pc[w] = "assets" /\ (registry = "absent" => migration = "off")
  /\ registry' = IF registry = "absent" THEN "scoped" ELSE registry
  /\ Overtake(CreatingAssets \ {w}, [pc EXCEPT ![w] = "events"])
  /\ UNCHANGED <<contents, logged, fks, claims, migration, renamed, counters>>

CreateEvents(w) ==
  /\ pc[w] = "events" /\ (~logged => migration = "off")
  /\ logged' = TRUE
  /\ Overtake(CreatingEvents \ {w}, [pc EXCEPT ![w] = "columns"])
  /\ UNCHANGED <<contents, registry, fks, claims, migration, renamed, counters>>

\* The registry has the columns of the network, or is too old.
CheckColumns(w) ==
  /\ pc[w] = "columns"
  /\ IF registry = "scoped" THEN GoTo(w, "constraint") ELSE Die(w)
  /\ UNCHANGED <<schema, contents, claims, migration, renamed, counters>>

\* Is there a foreign key of this name?
FindConstraint(w) ==
  /\ pc[w] = "constraint"
  /\ GoTo(w, IF "scoped" \in fks THEN "indexes" ELSE "constrain")
  /\ UNCHANGED <<schema, contents, claims, migration, renamed, counters>>

\* ALTER TABLE locks the events ...
BeginConstraint(w) ==
  /\ pc[w] = "constrain" /\ migration # "both" /\ EventsFree
  /\ GoTo(w, "constraining")
  /\ UNCHANGED <<schema, contents, claims, migration, renamed, counters>>

\* Mutation: the rows that are there are not checked (NOT VALID).
AddUnchecked(w) ==
  /\ pc[w] = "constraining" /\ migration = "off"
  /\ fks' = fks \cup {"scoped"}
  /\ GoTo(w, "indexes")
  /\ UNCHANGED <<registry, logged, contents, claims, migration, renamed, counters>>

\* ... and then the registry, and checks the rows that are there; it fails if another
\* process has added the constraint since.
AddConstraint(w) ==
  /\ pc[w] = "constraining" /\ migration = "off"
  /\ IF "scoped" \notin fks /\ \A e \in events : Registered(e)
       THEN fks' = fks \cup {"scoped"} /\ GoTo(w, "indexes")
       ELSE Die(w) /\ UNCHANGED fks
  /\ UNCHANGED <<registry, logged, contents, claims, migration, renamed, counters>>

\* CREATE INDEX IF NOT EXISTS, six times; the process remembers that all is done.
CreateIndexes(w) ==
  /\ pc[w] = "indexes" /\ migration = "off" /\ EventsFree
  /\ GoTo(w, "ready")
  /\ UNCHANGED <<schema, contents, claims, migration, renamed, counters>>

-----------------------------------------------------------------------------
(* insertPltTransfers, once the schema is initialised.                     *)

\* ON CONFLICT (transaction_hash, event_index) DO NOTHING.
NewRows(w) == {row \in Feed[w] : \A e \in events : e.tx # row.tx}

\* The foreign key is looked up for the rows that are inserted: only then does the
\* statement need the registry.
NeedsRegistry(w) == NewRows(w) # {} /\ fks # {}

\* The statement locks the events, together with other inserts ...
BeginInsert(w) ==
  /\ pc[w] = "ready" /\ migration # "both" /\ \A v \in Writers : pc[v] # "constraining"
  /\ GoTo(w, "checking")
  /\ UNCHANGED <<schema, contents, claims, migration, renamed, counters>>

\* ... and then looks into the registry; one row without an asset refuses them all.
FinishInsert(w) ==
  /\ pc[w] = "checking" /\ (NeedsRegistry(w) => migration = "off")
  /\ IF \A row \in NewRows(w) : Registered(row)
       THEN events' = events \cup NewRows(w) /\ GoTo(w, "ready")
       ELSE Die(w) /\ UNCHANGED events
  /\ UNCHANGED <<schema, assets, claims, migration, renamed, counters>>

\* A query fails for another reason.
QueryFails(w) ==
  /\ pc[w] # "stopped" /\ mishaps < MaxMishaps
  /\ mishaps' = mishaps + 1
  /\ Die(w)
  /\ UNCHANGED <<schema, contents, claims, migration, renamed, migrations>>

WriterStep(w) ==
  \/ CreateAssets(w) \/ CreateEvents(w) \/ CheckColumns(w) \/ FindConstraint(w)
  \/ BeginConstraint(w) \/ AddConstraint(w) \/ CreateIndexes(w)
  \/ BeginInsert(w) \/ FinishInsert(w)

-----------------------------------------------------------------------------
(* applyCrpPltEventsMigration.                                             *)

\* BEGIN up to the backfill: ALTER TABLE locks the registry.
BeginMigration ==
  /\ migration = "off" /\ migrations < MaxMigrations
  /\ migration' = "assets"
  /\ UNCHANGED <<schema, contents, claims, pc, renamed, counters>>

\* Dropping the foreign keys, or adding the new one, locks the events.
LockEvents ==
  /\ migration = "assets" /\ EventsFree
  /\ migration' = "both"
  /\ UNCHANGED <<schema, contents, claims, pc, renamed, counters>>

\* Mutation: rows keep what they have.
BackfillNothing == assets

\* Rows without a network and a genesis index get the default ones.
Backfilled ==
  {[key EXCEPT !.network = IF key.network = None THEN DefaultNetwork ELSE key.network,
               !.index = IF key.index = None THEN DefaultIndex ELSE key.index] :
     key \in assets}

\* Mutation: the foreign key is left to a later transaction.
CommitWithoutKey ==
  /\ migration = "both"
  /\ registry' = "scoped" /\ assets' = Backfilled
  /\ logged' = TRUE /\ fks' = {}
  /\ migration' = "off" /\ migrations' = migrations + 1
  /\ UNCHANGED <<events, claims, pc, renamed, mishaps>>

\* The primary key is replaced, the foreign keys by the one that refers to it, and all
\* is committed; if an event has no asset, all is rolled back.
EndMigration ==
  /\ migration = "both"
  /\ IF \A e \in events : KeyOf(e) \in Backfilled
       THEN /\ registry' = "scoped" /\ assets' = Backfilled
            /\ logged' = TRUE /\ fks' = {"scoped"}
            /\ Overtake(CreatingAssets \cup CreatingEvents, pc)
       ELSE UNCHANGED <<schema, assets, pc>>
  /\ migration' = "off" /\ migrations' = migrations + 1
  /\ UNCHANGED <<events, claims, renamed, mishaps>>

MigrationFails ==
  /\ migration # "off" /\ mishaps < MaxMishaps
  /\ migration' = "off"
  /\ mishaps' = mishaps + 1
  /\ UNCHANGED <<schema, contents, claims, pc, renamed, migrations>>

\* The insert or the ADD CONSTRAINT of w holds the events and waits for the registry, the
\* migration holds the registry and waits for the events: the database ends one of them.
BreakDeadlock(w) ==
  /\ pc[w] = "constraining" \/ (pc[w] = "checking" /\ NeedsRegistry(w))
  /\ migration = "assets"
  /\ \/ Die(w) /\ UNCHANGED migration
     \/ migration' = "off" /\ UNCHANGED pc
  /\ UNCHANGED <<schema, contents, claims, renamed, counters>>

-----------------------------------------------------------------------------
(* seedPltAssets, fulfilments, and changed keys.                           *)

SeedTable ==
  /\ registry = "absent" /\ migration = "off"
  /\ registry' = "scoped"
  /\ Overtake(CreatingAssets, pc)
  /\ UNCHANGED <<contents, logged, fks, claims, migration, renamed, counters>>

\* The upsert, which the old primary key does not allow.
SeedRow(key) ==
  /\ registry = "scoped" /\ migration = "off"
  /\ assets' = assets \cup {key}
  /\ UNCHANGED <<schema, events, claims, pc, migration, renamed, counters>>

\* A claim is in the way of one of the event e under the network n: one with the same
\* primary key.  (With a claim under the twin of n the new row is inserted and answered.)
Claimed(e, n) == \E c \in claims : c.tx = e.tx /\ c.index = e.index /\ c.network = n

AddClaim(o, e, n) ==
  /\ ~Claimed(e, n)
  /\ claims' = claims \cup {[network |-> n, index |-> e.index, tx |-> e.tx, owner |-> o]}
  /\ UNCHANGED <<schema, contents, pc, migration, renamed, counters>>

\* The event is in normal form, and so among the candidates of the fulfilment.
Findable(e) == e.network = NormalizeNetworkId(e.network)

\* Mutation: the claim is made under the network of the request.
ClaimAsRequested(o, e) ==
  Findable(e) /\ \E n \in NetworkCandidates(e.network) : AddClaim(o, e, n)

\* A fulfilment finds the event, by the genesis index in the request or the default one,
\* and claims it under the event's network and index.
Claim(o, e) == Findable(e) /\ AddClaim(o, e, NormalizeNetworkId(e.network))

\* The key of a registry row becomes `to`: ON UPDATE CASCADE takes the events along, but
\* not the claims.
Rename(key, to) ==
  LET moved == {row \in events : KeyOf(row) = key} IN
  /\ migration = "off" /\ EventsFree /\ "scoped" \in fks /\ mishaps < MaxMishaps
  /\ to \notin assets
  /\ assets' = (assets \ {key}) \cup {to}
  /\ events' = (events \ moved)
                 \cup {[row EXCEPT !.network = to.network, !.index = to.index] : row \in moved}
  /\ renamed' = IF key.network.scheme = to.network.scheme /\ key.index = to.index
                  THEN renamed ELSE renamed \cup {row.tx : row \in moved}
  /\ mishaps' = mishaps + 1
  /\ UNCHANGED <<schema, claims, pc, migration, migrations>>

\* A network keeps its chain and gets one of the chain's names, as in the migration to
\* CAIP-2; a genesis index is corrected (db/migrations/20251126 backfills 6, the tool 7).
NewKeys(key) ==
  ({[key EXCEPT !.network = n] : n \in NetworkCandidates(key.network)}
     \cup {[key EXCEPT !.index = i] : i \in Indexes}) \ {key}

-----------------------------------------------------------------------------
Operator ==
  \/ BeginMigration \/ LockEvents \/ EndMigration \/ MigrationFails
  \/ SeedTable \/ \E key \in SeedKeys : SeedRow(key)
  \/ \E key \in assets \cap Keys : \E to \in NewKeys(key) : Rename(key, to)

StoreNext ==
  \/ \E w \in Writers : StartWriter(w) \/ WriterStep(w) \/ BreakDeadlock(w) \/ QueryFails(w)
  \/ \E o \in Owners, e \in events : Claim(o, e)
  \/ Operator

\* Processes go on and are started again, the database ends deadlocks and grants a lock
\* that is free again and again (its waiters queue up), and the operator seeds the assets
\* and runs a migration until it has come to its end MaxMigrations times.
StoreFairness ==
  /\ \A w \in Writers :
       /\ WF_storeVars(StartWriter(w)) /\ SF_storeVars(WriterStep(w))
       /\ WF_storeVars(BreakDeadlock(w))
  /\ WF_storeVars(BeginMigration) /\ SF_storeVars(LockEvents) /\ WF_storeVars(EndMigration)
  /\ \A key \in SeedKeys : SF_storeVars(SeedRow(key))

-----------------------------------------------------------------------------
(* Properties.                                                             *)

\* A process that remembers its schema as initialised is right: whatever migrations and
\* other processes do, the foreign key is there when it inserts.
MemoIsTrue ==
  \A w \in Writers :
    pc[w] \in {"indexes", "ready", "checking"} => "scoped" \in fks

\* With the foreign key, every event has its asset: whoever adds the key, over whatever
\* rows, and whatever is inserted, migrated or renamed meanwhile.
NoOrphans == "scoped" \in fks => \A e \in events : KeyOf(e) \in assets

\* One transfer pays two challenges only if the key of its asset has been changed between
\* the two, to the other name of its chain or to another genesis index: claims are keyed
\* by both and do not follow.  (claimPltEvent promises more, once across all challenges
\* whatever the name: a changed key breaks that promise.)
SpentOnceUnlessRenamed ==
  \A c, d \in claims : c.tx = d.tx /\ c.owner # d.owner => c.tx \in renamed

\* Every transfer is stored in the end, though another process creates the schema at
\* the same time, the tables must be migrated first, the migration and the insert
\* deadlock, or the asset is renamed under the worker.
FeedIsStored ==
  \A w \in Writers : \A row \in Feed[w] : <>(\E e \in events : e.tx = row.tx)
=============================================================================
