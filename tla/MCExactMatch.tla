---------------------------- MODULE MCExactMatch ----------------------------
(***************************************************************************)
(* A small instance of ExactMatch for TLC: one token on one chain, which   *)
(* rows and queries call by both of its names, and a challenge on another. *)
(***************************************************************************)
EXTENDS ExactMatch

CONSTANTS n1, n2, m1, usd, p1

MCNetwork(s, c, f) == [scheme |-> s, chain |-> c, form |-> f]

MCLegacy == MCNetwork("concordium", "testnet", "plain")
MCCaip2 == MCNetwork("ccd", "testnet", "plain")
MCPrivate == MCNetwork("ccd", "private", "plain")

\* 0.50 and 0.5
MCHalf == [negative |-> FALSE, int |-> <<0>>, frac |-> <<5, 0>>]
MCShortHalf == [negative |-> FALSE, int |-> <<0>>, frac |-> <<5>>]

MCAssets == {[network |-> MCLegacy, index |-> 7, token |-> usd],
             [network |-> MCCaip2, index |-> 8, token |-> usd]}

MCChallenge(n, net, d, a) ==
  [merchant |-> m1, nonce |-> n, network |-> net, type |-> "PLT", token |-> usd,
   decimals |-> d, amount |-> a, payTo |-> p1]

MCChallenges == {MCChallenge(n1, MCCaip2, 2, MCHalf), MCChallenge(n1, MCLegacy, 0, MCHalf),
                 MCChallenge(n1, MCLegacy, 2, MCShortHalf),
                 MCChallenge(n2, MCPrivate, 2, MCHalf)}

MCTransfer(net, i, raw) ==
  [network |-> net, index |-> i, token |-> usd, to |-> p1, raw |-> raw]

MCTransfers == {MCTransfer(MCLegacy, 7, 50), MCTransfer(MCCaip2, 8, 50),
                MCTransfer(MCLegacy, 7, 0)}

MCQuery(r, f, d, n, a, e) ==
  [route |-> r, merchant |-> m1, nonce |-> n1, network |-> MCNetwork("concordium", "testnet", f),
   type |-> "PLT", token |-> usd, decimals |-> d, index |-> n, amount |-> a,
   payTo |-> p1, requireEvent |-> e]

MCQueries ==
  {MCQuery("alias", "variant", None, None, MCHalf, TRUE),
   MCQuery("alias", "plain", 2, None, MCShortHalf, TRUE),
   MCQuery("alias", "padded", 1, None, MCHalf, TRUE),
   MCQuery("alias", "plain", None, None, MCHalf, FALSE),
   MCQuery("match", "plain", None, 9, MCHalf, FALSE),
   MCQuery("match", "variant", 2, None, MCShortHalf, FALSE)}

-----------------------------------------------------------------------------
\* Amounts with one or two digits before the point and up to two behind it.
MCDigits(from) == UNION {[1..n -> {0, 5}] : n \in from..2}
MCAmounts == [negative : BOOLEAN, int : MCDigits(1), frac : MCDigits(0)]
=============================================================================
