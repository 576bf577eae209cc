-------------------------- MODULE MCNetworkInventory --------------------------
(* A small instance of NetworkInventory for TLC.                           *)
EXTENDS NetworkInventory, TLC

CONSTANTS eur, t1, w1, w2, k1, k2

\* The legacy name of the test network, and the same in capitals.
Plain == [scheme |-> "concordium", chain |-> "testnet", form |-> "plain"]
Capitals == [Plain EXCEPT !.form = "variant"]

Key(network) == [network |-> network, index |-> 7, asset |-> eur]
Row(tx, network) == [tx |-> tx, network |-> network, index |-> 7, asset |-> eur]

\* Two workers that watch one account under two spellings of its network.
MCFeed == (w1 :> {Row(t1, Plain)}) @@ (w2 :> {Row(t1, Capitals)})

MCSeedKeys == {Key(Plain), Key(Capitals)}

\* No tables; those of an older version; current ones without the foreign key, with an
\* event whose asset is not seeded.
MCFirstTables ==
  {[registry |-> "absent", assets |-> {}, logged |-> FALSE, events |-> {}, fks |-> {}],
   [registry |-> "old", assets |-> {[network |-> None, index |-> None, asset |-> eur]}, logged |-> TRUE,
    events |-> {}, fks |-> {"asset"}],
   [registry |-> "scoped", assets |-> {}, logged |-> TRUE,
    events |-> {Row(t1, Plain)}, fks |-> {}]}

Symmetry == Permutations({k1, k2})
=============================================================================
