------------------------------ MODULE Networks ------------------------------
(***************************************************************************)
(* Network identifiers (lib/networkId.ts).  A chain goes by two names, the *)
(* legacy "concordium:testnet" and the CAIP-2 "ccd:<genesis hash>".  An    *)
(* identifier is modelled by its scheme, the chain it names and the form   *)
(* it is spelled in: "plain", "padded" with blanks, or a "variant" (other  *)
(* casing, for "ccd:" of the prefix only, or further segments behind the   *)
(* hash; a hash in another casing is another chain).                       *)
(***************************************************************************)

Schemes == {"concordium", "ccd", "other"}

Forms == {"plain", "padded", "variant"}

\* The chains whose genesis hashes the code knows.
KnownChains == {"testnet", "mainnet"}

NetworkIds(Chains) == [scheme : Schemes, chain : Chains, form : Forms]

\* Blanks are trimmed; the casing of an unknown network is kept.
NormalizeNetworkId(n) ==
  IF \/ n.form = "padded"
     \/ n.scheme = "ccd"
     \/ n.scheme = "concordium" /\ n.chain \in KnownChains
    THEN [n EXCEPT !.form = "plain"]
    ELSE n

\* The same chain under the other scheme.
Twin(n) == [n EXCEPT !.scheme = IF n.scheme = "ccd" THEN "concordium" ELSE "ccd"]

NetworkCandidates(n) ==
  LET m == NormalizeNetworkId(n) IN
  {m} \cup {t \in {Twin(m)} : m.scheme # "other" /\ m.chain \in KnownChains}

\* Mutation: normalised identifiers are compared, whatever the scheme.
NetworksEqual(a, b) == NormalizeNetworkId(a) = NormalizeNetworkId(b)

\* networksEquivalent of store/repo.pg.ts.
NetworksEquivalent(a, b) == NormalizeNetworkId(b) \in NetworkCandidates(a)

\* The one name that receipts use for a network (canonicalChainIdForReceipt of
\* routes/crp.payments.ts).
CanonicalChainId(n) ==
  IF n.scheme # "other" /\ n.chain \in KnownChains
    THEN [n EXCEPT !.scheme = "ccd", !.form = "plain"]
    ELSE NormalizeNetworkId(n)
=============================================================================
