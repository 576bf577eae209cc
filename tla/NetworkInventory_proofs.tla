----------------------- MODULE NetworkInventory_proofs -----------------------
(***************************************************************************)
(* Proofs about EventStore and NetworkInventory, for any assets, feeds,    *)
(* writers, first tables and bounds.                                       *)
(***************************************************************************)
EXTENDS NetworkInventory, Formats_proofs

\* The registry has a network for every row, once it has the columns.
KeysAreScoped == registry # "old" => assets \subseteq Keys

\* Claims are in normal form, one per key, and those of an event that has kept its key
\* are under the event's network and genesis index.
ClaimsFollow ==
  /\ \A c \in claims :
       NormalizeNetworkId(c.network) = c.network /\ \E e \in events : e.tx = c.tx
  /\ \A c \in claims, e \in events :
       c.tx = e.tx /\ c.tx \notin renamed
         => c.network = NormalizeNetworkId(e.network) /\ c.index = e.index
  /\ \A c, d \in claims : ClaimKey(c) = ClaimKey(d) => c = d

\* The report has what the registry's rows converge on.
ReportIsKept == inventory # "assets" => Collisions(seenAssets) \subseteq clashes

\* An open migration is one more than those that have ended.
OpenIsCounted == migration # "off" => migrations < MaxMigrations

StoreInv ==
  /\ TypeOK /\ OpenIsCounted /\ KeysAreScoped /\ MemoIsTrue /\ NoOrphans
  /\ OneRowPerTx(events) /\ ClaimsFollow

Inv == StoreInv /\ InventoryTypeOK /\ ReportIsKept

-----------------------------------------------------------------------------
(* Network identifiers and rows.                                           *)

\* Normalising yields an identifier of the same scheme, and changes nothing twice; the
\* twin has the other scheme.
LEMMA IdFacts ==
  ASSUME NEW n \in NetworkIds(Chains)
  PROVE  /\ NormalizeNetworkId(n) \in NetworkIds(Chains) /\ Twin(n) \in NetworkIds(Chains)
         /\ NormalizeNetworkId(n).scheme = n.scheme /\ Twin(n).scheme # n.scheme
         /\ NormalizeNetworkId(NormalizeNetworkId(n)) = NormalizeNetworkId(n)
BY DEF NetworkIds, NormalizeNetworkId, Twin, Schemes, Forms, KnownChains

\* A changed key names the same asset, and within a scheme the same normal form.
LEMMA NewKeyFacts ==
  ASSUME NEW key \in Keys, NEW to \in NewKeys(key)
  PROVE  /\ to \in Keys /\ to.asset = key.asset
         /\ key.network.scheme = to.network.scheme
              => NormalizeNetworkId(to.network) = NormalizeNetworkId(key.network)
<1>1. key.network \in NetworkIds(Chains) /\ key.index \in Indexes
  BY DEF Keys
<1>2. CASE \E i \in Indexes : to = [key EXCEPT !.index = i]
  BY <1>2 DEF Keys
<1>3. ASSUME NEW n \in NetworkCandidates(key.network), to = [key EXCEPT !.network = n]
      PROVE  /\ to \in Keys /\ to.asset = key.asset
             /\ key.network.scheme = to.network.scheme
                  => NormalizeNetworkId(to.network) = NormalizeNetworkId(key.network)
  <2>1. n \in NetworkIds(Chains) /\ NormalizeNetworkId(n) = n
    BY <1>1, CandidatesFacts
  <2>2. to \in Keys /\ to.asset = key.asset /\ to.network = n
    BY <1>3, <2>1 DEF Keys
  <2>3. n = NormalizeNetworkId(key.network) \/ n = Twin(NormalizeNetworkId(key.network))
    BY DEF NetworkCandidates
  <2> QED BY <1>1, <2>1, <2>2, <2>3, IdFacts
<1> QED BY <1>2, <1>3 DEF NewKeys

\* The key of a rewritten row is the rewritten key of the row.
LEMMA TargetOfKey ==
  ASSUME NEW row \in Rows
  PROVE  KeyOf(Target(row)) = Target(KeyOf(row)) /\ KeyOf(row) \in Keys
BY DEF Rows, Keys, KeyOf, Target

\* Backfilling leaves no row without a network.
LEMMA BackfillIsScoped ==
  ASSUME assets \subseteq Keys \cup OldKeys
  PROVE  Backfilled \subseteq Keys
<1> SUFFICES ASSUME NEW key \in assets
             PROVE  [key EXCEPT
                       !.network = IF key.network = None THEN DefaultNetwork ELSE key.network,
                       !.index = IF key.index = None THEN DefaultIndex ELSE key.index] \in Keys
  BY DEF Backfilled
<1>1. CASE key \in Keys
  BY <1>1, TablesAssumption DEF Keys
<1>2. CASE key \in OldKeys
  BY <1>2, FeedAssumption DEF Keys, OldKeys
<1> QED BY <1>1, <1>2

-----------------------------------------------------------------------------
(* Every step of the store keeps the invariant.                            *)

USE DEF schema, contents, counters, storeVars

LEMMA InitStore == StoreInit => StoreInv
<1> SUFFICES ASSUME StoreInit PROVE StoreInv
  OBVIOUS
<1>1. PICK t \in FirstTables :
        /\ registry = t.registry /\ assets = t.assets
        /\ logged = t.logged /\ events = t.events /\ fks = t.fks
  BY DEF StoreInit
<1>2. t \in Tables /\ Sound(t)
  BY TablesAssumption
<1>3. TypeOK
  BY <1>1, <1>2, BoundsAssumption DEF TypeOK, StoreInit, Tables, Stages
<1>4. KeysAreScoped /\ NoOrphans /\ OneRowPerTx(events)
  BY <1>1, <1>2 DEF Sound, KeysAreScoped, NoOrphans
<1>5. MemoIsTrue /\ ClaimsFollow /\ OpenIsCounted
  BY DEF StoreInit, MemoIsTrue, ClaimsFollow, OpenIsCounted
<1> QED BY <1>3, <1>4, <1>5 DEF StoreInv

\* Steps that change neither the rows of a table nor the claims.
LEMMA StagesKeepRows ==
  ASSUME StoreInv, UNCHANGED <<contents, claims, renamed>>
  PROVE  OneRowPerTx(events)' /\ ClaimsFollow'
BY DEF StoreInv, OneRowPerTx, ClaimsFollow, ClaimKey

\* Statements of ensureSchema.
LEMMA SchemaStep ==
  ASSUME StoreInv, NEW w \in Writers,
         \/ StartWriter(w) \/ CreateAssets(w) \/ CreateEvents(w) \/ CheckColumns(w)
         \/ FindConstraint(w) \/ BeginConstraint(w) \/ AddConstraint(w)
         \/ CreateIndexes(w) \/ BeginInsert(w)
         \/ QueryFails(w) \/ BreakDeadlock(w)
  PROVE  StoreInv'
<1> USE DEF GoTo, Die, Overtake
<1>1. OneRowPerTx(events)' /\ ClaimsFollow'
  <2>1. UNCHANGED <<contents, claims, renamed>>
    BY DEF StartWriter, CreateAssets, CreateEvents, CheckColumns, FindConstraint,
           BeginConstraint, AddConstraint, CreateIndexes, BeginInsert, QueryFails, BreakDeadlock
  <2> QED BY <2>1, StagesKeepRows
<1>2. TypeOK' /\ OpenIsCounted'
  <2>1. mishaps' \in 0..MaxMishaps
    BY BoundsAssumption DEF StoreInv, TypeOK, StartWriter, CreateAssets, CreateEvents,
       CheckColumns, FindConstraint, BeginConstraint, AddConstraint, CreateIndexes, BeginInsert,
       QueryFails, BreakDeadlock
  <2>2. pc' \in [Writers -> Stages]
    BY DEF StoreInv, TypeOK, Stages, StartWriter, CreateAssets, CreateEvents,
       CheckColumns, FindConstraint, BeginConstraint, AddConstraint, CreateIndexes, BeginInsert,
       QueryFails, BreakDeadlock
  <2> QED BY <2>1, <2>2 DEF StoreInv, TypeOK, OpenIsCounted, StartWriter, CreateAssets,
       CreateEvents, CheckColumns, FindConstraint, BeginConstraint, AddConstraint, CreateIndexes,
       BeginInsert, QueryFails, BreakDeadlock
<1>3. KeysAreScoped'
  BY DEF StoreInv, KeysAreScoped, StartWriter, CreateAssets, CreateEvents, CheckColumns,
         FindConstraint, BeginConstraint, AddConstraint, CreateIndexes, BeginInsert, QueryFails,
         BreakDeadlock
<1>4. MemoIsTrue'
  BY DEF StoreInv, TypeOK, MemoIsTrue, StartWriter, CreateAssets, CreateEvents,
         CheckColumns, FindConstraint, BeginConstraint, AddConstraint, CreateIndexes, BeginInsert,
         QueryFails, BreakDeadlock
<1>5. NoOrphans'
  BY DEF StoreInv, NoOrphans, Registered, StartWriter, CreateAssets, CreateEvents,
         CheckColumns, FindConstraint, BeginConstraint, AddConstraint, CreateIndexes, BeginInsert,
         QueryFails, BreakDeadlock
<1> QED BY <1>1, <1>2, <1>3, <1>4, <1>5 DEF StoreInv

\* The insert brings at most one row for a transaction that has none.
LEMMA InsertStep ==
  ASSUME StoreInv, NEW w \in Writers, FinishInsert(w)
  PROVE  StoreInv'
<1> USE DEF GoTo, Die
<1>1. Feed[w] \subseteq Rows /\ OneRowPerTx(Feed[w])
  BY FeedAssumption
<1>2. TypeOK' /\ OpenIsCounted' /\ KeysAreScoped' /\ MemoIsTrue'
  BY <1>1 DEF StoreInv, TypeOK, OpenIsCounted, Stages, KeysAreScoped, MemoIsTrue, FinishInsert, NewRows
<1>3. NoOrphans'
  BY DEF StoreInv, NoOrphans, FinishInsert, Registered
<1>4. OneRowPerTx(events)'
  BY <1>1 DEF StoreInv, OneRowPerTx, FinishInsert, NewRows
<1>5. ClaimsFollow'
  <2>1. events' \subseteq events \cup NewRows(w) /\ events \subseteq events'
    BY DEF FinishInsert
  <2>2. \A c \in claims, e \in NewRows(w) : c.tx # e.tx
    BY DEF StoreInv, ClaimsFollow, NewRows
  <2> QED BY <2>1, <2>2 DEF StoreInv, ClaimsFollow, ClaimKey, FinishInsert
<1> QED BY <1>2, <1>3, <1>4, <1>5 DEF StoreInv

\* The migration.
LEMMA MigrationStep ==
  ASSUME StoreInv, BeginMigration \/ LockEvents \/ EndMigration \/ MigrationFails
  PROVE  StoreInv'
<1> USE DEF BeginMigration, LockEvents, EndMigration, MigrationFails, Overtake
<1>1. Backfilled \subseteq Keys
  BY BackfillIsScoped DEF StoreInv, TypeOK
<1>2. TypeOK' /\ OpenIsCounted'
  <2>1. migrations' \in 0..MaxMigrations /\ mishaps' \in 0..MaxMishaps
    BY BoundsAssumption DEF StoreInv, TypeOK, OpenIsCounted
  <2>2. pc' \in [Writers -> Stages]
    BY DEF StoreInv, TypeOK, Stages
  <2> QED BY <1>1, <2>1, <2>2 DEF StoreInv, TypeOK, OpenIsCounted
<1>3. KeysAreScoped' /\ MemoIsTrue' /\ NoOrphans'
  BY <1>1 DEF StoreInv, KeysAreScoped, MemoIsTrue, NoOrphans
<1>4. OneRowPerTx(events)' /\ ClaimsFollow'
  BY DEF StoreInv, OneRowPerTx, ClaimsFollow, ClaimKey
<1> QED BY <1>2, <1>3, <1>4 DEF StoreInv

\* Seeding.
LEMMA SeedStep ==
  ASSUME StoreInv, SeedTable \/ \E key \in SeedKeys : SeedRow(key)
  PROVE  StoreInv'
BY FeedAssumption DEF StoreInv, TypeOK, OpenIsCounted, KeysAreScoped, MemoIsTrue, NoOrphans,
   OneRowPerTx, ClaimsFollow, ClaimKey, SeedTable, SeedRow, Overtake, Stages

\* A claim is made under the network of its event.
LEMMA ClaimStep ==
  ASSUME StoreInv, NEW o \in Owners, NEW e \in events, Claim(o, e)
  PROVE  StoreInv'
<1> DEFINE n == NormalizeNetworkId(e.network)
           new == [network |-> n, index |-> e.index, tx |-> e.tx, owner |-> o]
<1>1. /\ claims' = claims \cup {new} /\ ~Claimed(e, n)
      /\ UNCHANGED <<schema, contents, pc, migration, renamed, counters>>
  BY DEF Claim, AddClaim
<1>2. e \in Rows /\ n \in NetworkIds(Chains) /\ NormalizeNetworkId(n) = n
  <2>1. e \in Rows /\ e.network \in NetworkIds(Chains)
    BY DEF StoreInv, TypeOK, Rows
  <2> QED BY <2>1, IdFacts
<1>3. new \in Claims /\ new.network = n /\ new.tx = e.tx /\ new.index = e.index
  BY <1>2 DEF Claims, Rows
<1> HIDE DEF new, n
<1>4. /\ TypeOK' /\ OpenIsCounted' /\ KeysAreScoped' /\ MemoIsTrue'
      /\ NoOrphans' /\ OneRowPerTx(events)'
  BY <1>1, <1>3 DEF StoreInv, TypeOK, OpenIsCounted, KeysAreScoped, MemoIsTrue,
     NoOrphans, OneRowPerTx
<1>5. \A c \in claims : ClaimKey(c) # ClaimKey(new)
  BY <1>1, <1>3 DEF Claimed, ClaimKey
<1>6. \A f \in events :
        f.tx = new.tx => NormalizeNetworkId(f.network) = n /\ f.index = new.index
  BY <1>3 DEF StoreInv, OneRowPerTx, n
<1>7. ClaimsFollow'
  BY <1>1, <1>2, <1>3, <1>5, <1>6 DEF StoreInv, ClaimsFollow, ClaimKey
<1> QED BY <1>4, <1>7 DEF StoreInv

\* A changed key takes its events along.
LEMMA RenameStep ==
  ASSUME StoreInv, NEW key \in assets \cap Keys, NEW to \in NewKeys(key), Rename(key, to)
  PROVE  StoreInv'
<1> DEFINE moved == {row \in events : KeyOf(row) = key}
           Moved(row) == [row EXCEPT !.network = to.network, !.index = to.index]
           same == key.network.scheme = to.network.scheme /\ key.index = to.index
<1>1. /\ assets' = (assets \ {key}) \cup {to}
      /\ events' = (events \ moved) \cup {Moved(row) : row \in moved}
      /\ renamed' = IF same THEN renamed ELSE renamed \cup {row.tx : row \in moved}
      /\ mishaps < MaxMishaps /\ mishaps' = mishaps + 1 /\ "scoped" \in fks
      /\ UNCHANGED <<schema, claims, pc, migration, migrations>>
  BY DEF Rename
<1>2. /\ to \in Keys /\ to.asset = key.asset
      /\ same => NormalizeNetworkId(to.network) = NormalizeNetworkId(key.network)
  BY NewKeyFacts
<1>3. \A row \in moved : /\ row \in Rows /\ row \in events
                          /\ row.network = key.network /\ row.index = key.index
                          /\ row.asset = key.asset
  BY DEF StoreInv, TypeOK, Rows, KeyOf
<1>4. \A row \in moved :
        /\ Moved(row) \in Rows /\ KeyOf(Moved(row)) = to /\ Moved(row).tx = row.tx
        /\ Moved(row).network = to.network /\ Moved(row).index = to.index
  BY <1>2, <1>3 DEF Rows, Keys, KeyOf
<1>5. \A e \in events' :
        \/ e \in events \ moved
        \/ \E row \in moved : e = Moved(row)
  BY <1>1
<1> HIDE DEF Moved, same
<1>6. TypeOK' /\ OpenIsCounted' /\ KeysAreScoped' /\ MemoIsTrue'
  <2>1. mishaps' \in 0..MaxMishaps
    BY <1>1, BoundsAssumption DEF StoreInv, TypeOK
  <2>2. events' \subseteq Rows
    BY <1>4, <1>5 DEF StoreInv, TypeOK
  <2>3. renamed' \subseteq Txs
    <3>1. \A row \in moved : row.tx \in Txs
      BY <1>3 DEF Rows
    <3> QED BY <1>1, <3>1 DEF StoreInv, TypeOK
  <2> QED BY <1>1, <1>2, <2>1, <2>2, <2>3
          DEF StoreInv, TypeOK, OpenIsCounted, KeysAreScoped, MemoIsTrue
<1>7. NoOrphans'
  <2>1. \A e \in events \ moved : KeyOf(e) \in assets /\ KeyOf(e) # key
    BY <1>1 DEF StoreInv, NoOrphans
  <2> QED BY <1>1, <1>4, <1>5, <2>1 DEF NoOrphans
<1>8. OneRowPerTx(events)'
  <2>1. \A d, e \in events : d.tx = e.tx => d = e
    BY DEF StoreInv, OneRowPerTx
  <2> QED BY <1>4, <1>5, <2>1 DEF OneRowPerTx
<1>9. ClaimsFollow'
  <2>1. \A e \in events : \E f \in events' : f.tx = e.tx
    BY <1>1, <1>4
  <2>2. ASSUME NEW c \in claims, NEW f \in events', c.tx = f.tx, c.tx \notin renamed'
        PROVE  c.network = NormalizeNetworkId(f.network) /\ c.index = f.index
    <3>1. c.tx \notin renamed
      BY <1>1, <2>2
    <3>2. CASE f \in events \ moved
      BY <2>2, <3>1, <3>2 DEF StoreInv, ClaimsFollow
    <3>3. ASSUME NEW row \in moved, f = Moved(row)
          PROVE  c.network = NormalizeNetworkId(f.network) /\ c.index = f.index
      <4>1. /\ row.tx = c.tx /\ f.network = to.network /\ f.index = to.index
            /\ row.network = key.network /\ row.index = key.index /\ row \in events
        BY <1>3, <1>4, <2>2, <3>3
      <4>2. same
        BY <1>1, <2>2, <4>1
      <4>3. c.network = NormalizeNetworkId(key.network) /\ c.index = key.index
        BY <2>2, <3>1, <4>1 DEF StoreInv, ClaimsFollow
      <4> QED BY <1>2, <4>1, <4>2, <4>3 DEF same
    <3> QED BY <1>5, <2>2, <3>2, <3>3
  <2>3. \A c \in claims :
          NormalizeNetworkId(c.network) = c.network /\ \E f \in events' : f.tx = c.tx
    BY <2>1 DEF StoreInv, ClaimsFollow
  <2>4. \A c, d \in claims : ClaimKey(c) = ClaimKey(d) => c = d
    BY DEF StoreInv, ClaimsFollow
  <2>5. claims' = claims
    BY <1>1
  <2> HIDE DEF moved
  <2> QED BY <2>2, <2>3, <2>4, <2>5 DEF ClaimsFollow, ClaimKey
<1> QED BY <1>6, <1>7, <1>8, <1>9 DEF StoreInv

LEMMA StoreStep ==
  ASSUME StoreInv, [StoreNext]_storeVars
  PROVE  StoreInv'
<1>1. CASE \E w \in Writers :
             StartWriter(w) \/ WriterStep(w) \/ BreakDeadlock(w) \/ QueryFails(w)
  BY <1>1, SchemaStep, InsertStep DEF WriterStep
<1>2. CASE \E o \in Owners, e \in events : Claim(o, e)
  BY <1>2, ClaimStep
<1>3. CASE Operator
  BY <1>3, MigrationStep, SeedStep, RenameStep DEF Operator
<1>4. CASE UNCHANGED storeVars
  BY <1>4 DEF StoreInv, TypeOK, OpenIsCounted, KeysAreScoped, MemoIsTrue, NoOrphans,
     OneRowPerTx, ClaimsFollow, ClaimKey
<1> QED BY <1>1, <1>2, <1>3, <1>4 DEF StoreNext

-----------------------------------------------------------------------------
(* The inventory.                                                          *)

\* The keys that converge are of the kind that is compared.
LEMMA CollisionsTyped ==
  /\ \A keys \in SUBSET Keys : Collisions(keys) \subseteq Keys
  /\ \A keys \in SUBSET ClaimKeys : Collisions(keys) \subseteq ClaimKeys
<1>1. \A key \in Keys : Target(key) \in Keys
  BY IdFacts DEF Keys, Target
<1>2. \A key \in ClaimKeys : Target(key) \in ClaimKeys
  BY IdFacts DEF ClaimKeys, Target
<1> QED BY <1>1, <1>2 DEF Collisions

LEMMA InitReport == Init => Inv
BY InitStore DEF Init, Inv, StoreInv, InventoryTypeOK, ReportIsKept

LEMMA ReportStep ==
  ASSUME Inv, [Next]_inventoryVars
  PROVE  Inv'
<1> USE DEF report
<1>0. stale' \in BOOLEAN
  BY DEF Next, inventoryVars, ReadAssets, ReadEvents, ReadClaims, Inv, InventoryTypeOK
<1>1. StoreInv'
  <2>1. [StoreNext]_storeVars
    BY DEF Next, inventoryVars, ReadAssets, ReadEvents, ReadClaims
  <2> QED BY <2>1, StoreStep DEF Inv
<1>2. CASE UNCHANGED <<inventory, report>>
  BY <1>0, <1>1, <1>2 DEF Inv, StoreInv, InventoryTypeOK, ReportIsKept, Collisions, Target
<1>3. CASE ReadAssets
  <2>1. assets \subseteq Keys
    BY <1>3 DEF ReadAssets, Inv, StoreInv, KeysAreScoped
  <2>2. Collisions(assets) \subseteq Keys
    BY <2>1, CollisionsTyped
  <2>3. Collisions(seenAssets)' = Collisions(assets)
    BY <1>3 DEF ReadAssets, Collisions, Target
  <2> QED BY <1>1, <1>3, <2>1, <2>2, <2>3
          DEF ReadAssets, Inv, StoreInv, InventoryTypeOK, ReportIsKept
<1>4. CASE ReadEvents
  <2>1. gaps' \subseteq Keys
    <3>1. \A row \in events : KeyOf(Target(row)) \in Keys
      BY IdFacts DEF Inv, StoreInv, TypeOK, Rows, Keys, KeyOf, Target
    <3> QED BY <1>4, <3>1 DEF ReadEvents, Legacy
  <2>2. Collisions(seenAssets)' = Collisions(seenAssets)
    BY <1>4 DEF ReadEvents, Collisions, Target
  <2> QED BY <1>1, <1>4, <2>1, <2>2
          DEF ReadEvents, Inv, StoreInv, InventoryTypeOK, ReportIsKept
<1>5. CASE ReadClaims
  <2>1. Collisions({ClaimKey(c) : c \in claims}) \subseteq ClaimKeys
    <3>1. {ClaimKey(c) : c \in claims} \subseteq ClaimKeys
      BY DEF Inv, StoreInv, TypeOK, Claims, ClaimKeys, ClaimKey
    <3> QED BY <3>1, CollisionsTyped
  <2>2. Collisions(seenAssets)' = Collisions(seenAssets)
    BY <1>5 DEF ReadClaims, Collisions, Target
  <2> QED BY <1>1, <1>5, <2>1, <2>2
          DEF ReadClaims, Inv, StoreInv, InventoryTypeOK, ReportIsKept
<1> QED BY <1>2, <1>3, <1>4, <1>5 DEF Next, inventoryVars

\* The inductive invariant of the event store and the inventory.
THEOREM InventoryInvariance == Spec => []Inv
<1>1. Init => Inv
  BY InitReport
<1>2. Inv /\ [Next]_inventoryVars => Inv'
  BY ReportStep
<1> QED BY <1>1, <1>2, PTL DEF Spec

\* Every variable of the event store and of the inventory keeps its type.
THEOREM InventoryTypeCorrect == Spec => []InventoryTypeOK
<1>1. Inv => InventoryTypeOK
  BY DEF Inv
<1> QED BY <1>1, InventoryInvariance, PTL

\* A process that holds the schema for initialised has its foreign key, for any number of
\* processes and migrations.
THEOREM MemoHolds == Spec => []MemoIsTrue
<1>1. Inv => MemoIsTrue
  BY DEF Inv, StoreInv
<1> QED BY <1>1, InventoryInvariance, PTL

\* The foreign key never lies, whoever adds it, migrates or renames.
THEOREM NoEventIsOrphaned == Spec => []NoOrphans
<1>1. Inv => NoOrphans
  BY DEF Inv, StoreInv
<1> QED BY <1>1, InventoryInvariance, PTL

\* An event is claimed for two challenges only if the key of its asset has been changed:
\* its network's name or its genesis index.
THEOREM OnlyRenamedSpentTwice == Spec => []SpentOnceUnlessRenamed
<1>1. Inv => SpentOnceUnlessRenamed
  <2> SUFFICES ASSUME Inv, NEW c \in claims, NEW d \in claims,
                      c.tx = d.tx, c.tx \notin renamed
               PROVE  c.owner = d.owner
    BY DEF SpentOnceUnlessRenamed
  <2>1. PICK e \in events : e.tx = c.tx
    BY DEF Inv, StoreInv, ClaimsFollow
  <2>2. /\ c.network = NormalizeNetworkId(e.network) /\ c.index = e.index
        /\ d.network = NormalizeNetworkId(e.network) /\ d.index = e.index
    BY <2>1 DEF Inv, StoreInv, ClaimsFollow
  <2>3. ClaimKey(c) = ClaimKey(d)
    BY <2>2 DEF ClaimKey
  <2> QED BY <2>3 DEF Inv, StoreInv, ClaimsFollow
<1> QED BY <1>1, InventoryInvariance, PTL

\* After a clean report the rewrite to normal form is safe while the registry stands.
THEOREM CleanReportIsSafe == Spec => []CleanIsSafe
<1>1. Inv => CleanIsSafe
  <2> SUFFICES ASSUME Inv, inventory = "done", Clean, seenAssets = assets
               PROVE  /\ \A j, k \in assets : Target(j) = Target(k) => j = k
                      /\ \A c, d \in claims :
                           ClaimKey(Target(c)) = ClaimKey(Target(d)) => c = d
                      /\ "scoped" \in fks =>
                           \A e \in events :
                             KeyOf(Target(e)) \in {Target(key) : key \in assets}
    BY DEF CleanIsSafe
  <2>1. \A j, k \in assets : Target(j) = Target(k) => j = k
    <3>1. Collisions(assets) = {}
      BY DEF Inv, ReportIsKept, Clean
    <3> QED BY <3>1 DEF Collisions
  <2>2. \A c \in claims : ClaimKey(Target(c)) = ClaimKey(c)
    BY DEF Inv, StoreInv, TypeOK, Claims, ClaimsFollow, ClaimKey, Target
  <2>3. \A c, d \in claims : ClaimKey(Target(c)) = ClaimKey(Target(d)) => c = d
    BY <2>2 DEF Inv, StoreInv, ClaimsFollow
  <2>4. "scoped" \in fks =>
          \A e \in events : KeyOf(Target(e)) \in {Target(key) : key \in assets}
    BY TargetOfKey DEF Inv, StoreInv, TypeOK, NoOrphans
  <2> QED BY <2>1, <2>3, <2>4
<1> QED BY <1>1, InventoryInvariance, PTL

-----------------------------------------------------------------------------
(* Gaps.  An asset that the rewrite would miss has been seeded or renamed  *)
(* behind the inventory's back.                                            *)

\* The asset of e was not among those read.
Overlooked(e) == KeyOf(e) \notin seenAssets

\* Unless it has been changed, the registry is the one that was read, and a gap stands
\* for an event that never had its asset.
GapHasCause ==
  (inventory # "assets" /\ ~stale) =>
    /\ registry = "scoped" /\ assets = seenAssets
    /\ gaps # {} => "scoped" \notin fks /\ \E e \in events : Overlooked(e)

GapInv ==
  /\ inventory = "assets" => gaps = {}
  /\ GapHasCause

\* A registry with the columns keeps them.
LEMMA RegistryKeepsColumns ==
  ASSUME [StoreNext]_storeVars, registry = "scoped"
  PROVE  registry' = "scoped"
<1>1. CASE \E w \in Writers :
             StartWriter(w) \/ WriterStep(w) \/ BreakDeadlock(w) \/ QueryFails(w)
  BY <1>1 DEF StartWriter, WriterStep, CreateAssets, CreateEvents, CheckColumns,
     FindConstraint, BeginConstraint, AddConstraint, CreateIndexes, BeginInsert,
     FinishInsert, BreakDeadlock, QueryFails
<1>2. CASE Operator
  BY <1>2 DEF Operator, BeginMigration, LockEvents, EndMigration, MigrationFails,
     SeedTable, SeedRow, Rename
<1>3. CASE \E o \in Owners, e \in events : Claim(o, e)
  BY <1>3 DEF Claim, AddClaim
<1> QED BY <1>1, <1>2, <1>3 DEF StoreNext

\* Before the foreign key is there, events are only added.
LEMMA EventsStay ==
  ASSUME [StoreNext]_storeVars, "scoped" \notin fks
  PROVE  events \subseteq events'
<1>1. CASE \E w \in Writers :
             StartWriter(w) \/ WriterStep(w) \/ BreakDeadlock(w) \/ QueryFails(w)
  BY <1>1 DEF StartWriter, WriterStep, CreateAssets, CreateEvents, CheckColumns,
     FindConstraint, BeginConstraint, AddConstraint, CreateIndexes, BeginInsert,
     FinishInsert, BreakDeadlock, QueryFails
<1>2. CASE Operator
  BY <1>2 DEF Operator, BeginMigration, LockEvents, EndMigration, MigrationFails,
     SeedTable, SeedRow, Rename
<1>3. CASE \E o \in Owners, e \in events : Claim(o, e)
  BY <1>3 DEF Claim, AddClaim
<1> QED BY <1>1, <1>2, <1>3 DEF StoreNext

LEMMA InitGap == Init => GapInv
BY DEF Init, GapInv, GapHasCause

\* A step beside the inventory changes the registry, or leaves the gaps their cause; it
\* cannot add the foreign key without changing the registry.
LEMMA StoreKeepsCause ==
  ASSUME Inv, StoreInv', GapInv, [StoreNext]_storeVars, UNCHANGED <<inventory, report>>,
         inventory # "assets" /\ ~stale' => assets' = assets /\ ~stale
  PROVE  GapInv'
<1> SUFFICES ASSUME inventory # "assets", ~stale'
             PROVE  /\ registry' = "scoped" /\ assets' = seenAssets
                    /\ gaps # {} => "scoped" \notin fks' /\ \E e \in events' : Overlooked(e)
  BY DEF GapInv, GapHasCause, Overlooked, report
<1>1. /\ registry = "scoped" /\ assets' = assets /\ assets = seenAssets
      /\ gaps # {} => "scoped" \notin fks /\ \E e \in events : Overlooked(e)
  BY DEF GapInv, GapHasCause
<1>2. registry' = "scoped"
  BY <1>1, RegistryKeepsColumns
<1>3. ASSUME gaps # {} PROVE "scoped" \notin fks' /\ \E e \in events' : Overlooked(e)
  <2>1. PICK e \in events : Overlooked(e)
    BY <1>1, <1>3
  <2>2. e \in events'
    BY <1>1, <1>3, EventsStay
  <2>3. KeyOf(e) \notin assets'
    BY <1>1, <2>1 DEF Overlooked
  <2>4. "scoped" \notin fks'
    BY <2>2, <2>3 DEF StoreInv, NoOrphans, KeyOf
  <2> QED BY <2>1, <2>2, <2>4
<1> QED BY <1>1, <1>2, <1>3

LEMMA GapStep ==
  ASSUME Inv, GapInv, [Next]_inventoryVars
  PROVE  GapInv'
<1> USE DEF report
<1>1. StoreInv /\ StoreInv'
  BY ReportStep DEF Inv
<1>2. [StoreNext]_storeVars
  BY DEF Next, inventoryVars, ReadAssets, ReadEvents, ReadClaims
<1>3. CASE \/ /\ StoreNext /\ UNCHANGED <<inventory, report>>
              /\ stale' = (inventory # "assets" /\ (stale \/ assets' # assets))
           \/ UNCHANGED inventoryVars
  <2>1. UNCHANGED <<inventory, report>>
    BY <1>3 DEF inventoryVars
  <2>2. inventory # "assets" /\ ~stale' => assets' = assets /\ ~stale
    BY <1>3, Zenon DEF inventoryVars
  <2> QED BY <1>1, <1>2, <2>1, <2>2, StoreKeepsCause
<1>4. CASE ReadAssets
  BY <1>4 DEF ReadAssets, GapInv, GapHasCause
<1>5. CASE ReadEvents
  <2>1. /\ inventory = "events" /\ inventory' = "claims"
        /\ UNCHANGED <<registry, assets, events, fks, seenAssets, stale>>
        /\ gaps' = {KeyOf(Target(row)) : row \in Legacy(events)} \ CanonicalUniverse
    BY <1>5 DEF ReadEvents
  <2> SUFFICES ASSUME ~stale, gaps' # {}
               PROVE  "scoped" \notin fks /\ \E e \in events : Overlooked(e)
    BY <2>1 DEF GapInv, GapHasCause, Overlooked
  <2>2. PICK row \in Legacy(events) : KeyOf(Target(row)) \notin CanonicalUniverse
    BY <2>1
  <2>3. row \in events /\ row \in Rows
    BY <1>1, <2>2 DEF Legacy, StoreInv, TypeOK
  <2>4. KeyOf(Target(row)) = Target(KeyOf(row))
    BY <2>3, TargetOfKey
  <2>5. Overlooked(row)
    BY <2>2, <2>4 DEF CanonicalUniverse, Overlooked
  <2>6. "scoped" \notin fks
    BY <1>1, <2>1, <2>3, <2>5 DEF GapInv, GapHasCause, StoreInv, NoOrphans, Overlooked
  <2> QED BY <2>3, <2>5, <2>6
<1>6. CASE ReadClaims
  BY <1>6 DEF ReadClaims, GapInv, GapHasCause, Overlooked
<1> QED BY <1>3, <1>4, <1>5, <1>6 DEF Next

\* While the foreign key stands, a dependency gap is one of the inventory's two reads and
\* not of the database: the registry has been changed since it was read, however many
\* migrations, seeds and changed keys there are.
THEOREM GapIsAlwaysStale == Spec => []GapIsStale
<1>1. Inv /\ GapInv => GapIsStale
  BY DEF GapIsStale, GapInv, GapHasCause
<1>2. Init => GapInv
  BY InitGap
<1>3. Inv /\ GapInv /\ [Next]_inventoryVars => GapInv'
  BY GapStep
<1> QED BY <1>1, <1>2, <1>3, InventoryInvariance, PTL DEF Spec
=============================================================================
