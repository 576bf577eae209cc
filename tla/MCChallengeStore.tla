-------------------------- MODULE MCChallengeStore --------------------------
(***************************************************************************)
(* A small instance of ChallengeStore for TLC: one nonce, posted with two  *)
(* sets of terms and of extras, under the names of two chains.             *)
(***************************************************************************)
EXTENDS ChallengeStore, TLC

CONSTANTS k1, t1, t2, e1, e2, p1, p2

MCNetwork(s, c, f) == [scheme |-> s, chain |-> c, form |-> f]

MCLegacy == MCNetwork("concordium", "testnet", "variant")
MCCaip2 == MCNetwork("ccd", "testnet", "padded")
MCOther == MCNetwork("ccd", "private", "plain")

MCBody(n, t, e, x) ==
  [key |-> k1, network |-> n, terms |-> t, extras |-> e, text |-> x]

MCIncomplete == {MCBody(MCOther, t2, e1, "stored")}

MCBodies == {MCBody(MCLegacy, t1, e1, "stored"), MCBody(MCCaip2, t1, e1, "stored"),
             MCBody(MCLegacy, t1, e1, "other"), MCBody(MCCaip2, t2, e1, "stored"),
             MCBody(MCCaip2, t1, e2, "stored"), MCBody(MCOther, t1, e1, "stored")}
            \cup MCIncomplete

MCReposts ==
  {[key |-> k1, network |-> MCCaip2, terms |-> t, extras |-> e1] : t \in {t1, t2}}

Symmetry == Permutations(Posts)
=============================================================================
