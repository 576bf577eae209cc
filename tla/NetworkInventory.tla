--------------------------- MODULE NetworkInventory ---------------------------
(***************************************************************************)
(* The inventory of network identifiers                                    *)
(* (tools/reportCaip2NetworkInventory.ts), run beside those who change the *)
(* event store: it reads the tables one after another, outside a           *)
(* transaction, and reports what a rewrite of the networks to their normal *)
(* form would do.  It keeps nothing: a run that fails, or is followed by   *)
(* another, is as good as one that starts later.                           *)
(***************************************************************************)
EXTENDS EventStore

VARIABLES
  inventory,   \* the table that is read next, or that the report is out
  seenAssets,  \* the keys of the registry that it has read
  gaps,        \* dependencyGaps: assets missing for the events that it has read
  clashes,     \* collisions: the keys on which rows that it has read converge
  stale        \* history: the registry has been changed since it was read

report == <<seenAssets, gaps, clashes>>
inventoryVars == <<storeVars, inventory, report, stale>>

ClaimKeys == [network : NetworkIds(Chains), index : Indexes, tx : Txs]

InventoryTypeOK ==
  /\ TypeOK
  /\ inventory \in {"assets", "events", "claims", "done"}
  /\ seenAssets \subseteq Keys /\ gaps \subseteq Keys
  /\ clashes \subseteq Keys \cup ClaimKeys
  /\ stale \in BOOLEAN

Init ==
  /\ StoreInit
  /\ inventory = "assets"
  /\ seenAssets = {} /\ gaps = {} /\ clashes = {} /\ stale = FALSE

-----------------------------------------------------------------------------
(* The report.                                                             *)

\* A row, or its key, with the canonical network.
Target(row) == [row EXCEPT !.network = NormalizeNetworkId(row.network)]

\* The rewrites that it proposes.
Legacy(rows) == {row \in rows : Target(row) # row}

\* The primary key of a claim.
ClaimKey(c) == [network |-> c.network, index |-> c.index, tx |-> c.tx]

\* Mutation: only rows that are rewritten are compared.
LegacyCollisions(keys) ==
  {Target(key) : key \in {j \in Legacy(keys) :
                            \E k \in Legacy(keys) : k # j /\ Target(j) = Target(k)}}

\* The targets on which several keys converge.
Collisions(keys) ==
  {Target(key) : key \in {j \in keys : \E k \in keys : k # j /\ Target(j) = Target(k)}}

\* Mutation: the networks of the registry are not normalised.
RawUniverse == seenAssets

\* The registry as the rewrite would leave it.
CanonicalUniverse == {Target(key) : key \in seenAssets}

\* Nothing speaks against the rewrite.
Clean == gaps = {} /\ clashes = {}

-----------------------------------------------------------------------------
(* main: the tables are read one after another.                            *)

\* The query fails unless the registry has its network columns; it waits for a
\* migration, which has the table locked.
ReadAssets ==
  /\ inventory = "assets" /\ registry = "scoped" /\ migration = "off"
  /\ seenAssets' = assets
  /\ clashes' = Collisions(assets)
  /\ inventory' = "events" /\ stale' = FALSE
  /\ UNCHANGED <<storeVars, gaps>>

\* The assets that rewritten events would refer to, but that were not there.
ReadEvents ==
  /\ inventory = "events" /\ logged /\ migration # "both"
  /\ gaps' = {KeyOf(Target(row)) : row \in Legacy(events)} \ CanonicalUniverse
  /\ inventory' = "claims"
  /\ UNCHANGED <<storeVars, seenAssets, clashes, stale>>

ReadClaims ==
  /\ inventory = "claims"
  /\ clashes' = clashes \cup Collisions({ClaimKey(c) : c \in claims})
  /\ inventory' = "done"
  /\ UNCHANGED <<storeVars, seenAssets, gaps, stale>>

-----------------------------------------------------------------------------
Next ==
  \/ /\ StoreNext /\ UNCHANGED <<inventory, report>>
     /\ stale' = (inventory # "assets" /\ (stale \/ assets' # assets))
  \/ ReadAssets \/ ReadEvents \/ ReadClaims

Spec == Init /\ [][Next]_inventoryVars

FairSpec == Spec /\ StoreFairness

-----------------------------------------------------------------------------
(* Properties.                                                             *)

\* A clean report holds for as long as the registry does, whatever has been ingested and
\* claimed since: the rewrite keeps the primary keys of registry and claims apart, and
\* every event its asset.
CleanIsSafe ==
  (inventory = "done" /\ Clean /\ seenAssets = assets) =>
    /\ \A j, k \in assets : Target(j) = Target(k) => j = k
    /\ \A c, d \in claims : ClaimKey(Target(c)) = ClaimKey(Target(d)) => c = d
    /\ "scoped" \in fks =>
         \A e \in events : KeyOf(Target(e)) \in {Target(key) : key \in assets}

\* A dependency gap is never one of the database: it is reported only if the registry
\* has been changed since it was read, before the events, even if the change is undone
\* or a foreign key is added by now.
GapIsStale == (gaps # {} /\ "scoped" \in fks) => stale
=============================================================================
