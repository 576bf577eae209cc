--------------------------- MODULE MCCrpPayments ---------------------------
(***************************************************************************)
(* Small instances of CrpPayments for TLC: one merchant, two nonces, one   *)
(* PLT and one other asset.                                                *)
(***************************************************************************)
EXTENDS CrpPayments, TLC

CONSTANTS r1, r2, m1, n1, n2, plt, other, shop, a0, a1, a2, bad, tx1

Symmetry == Permutations(Requests)

K1 == [merchant |-> m1, nonce |-> n1]
K2 == [merchant |-> m1, nonce |-> n2]
MCKeys == {K1, K2}

Tuple(asset, amount) == [asset |-> asset, payTo |-> shop, amount |-> amount]
T1 == Tuple(plt, a1)
T2 == Tuple(plt, a2)
Unparseable == Tuple(plt, bad)
Misdecimal == Tuple(plt, a0)  \* an asset record is abstract: a0 marks the decimals
NotPlt == Tuple(other, a1)
MCTuples == {T1, T2, Unparseable, Misdecimal, NotPlt}
MCMisdecimals == {Misdecimal}
MCPltAssets == {plt}
MCListing == [a \in {plt, other} |-> "token"]  \* two assets of one token
MCMinorUnits == [a \in {a0, a1, a2, bad} |->
  CASE a = a2 -> 200 [] a = bad -> None [] OTHER -> 100]

Transfer(tx, index, raw) ==
  [tx |-> tx, index |-> index, asset |-> plt, to |-> shop, raw |-> raw]
Body(key, tuple, tx, requireEvent) ==
  [key |-> key, tuple |-> tuple, tx |-> tx, requireEvent |-> requireEvent]

\* payments_safety: one transfer of tx1 pays what both nonces ask for, another one,
\* with a lower index, an amount that a call asks for but no post.  The second nonce
\* is also posted for another asset, which needs no event, and called with the wrong
\* decimals.
SafetyEvents == {Transfer(tx1, 0, 200), Transfer(tx1, 1, 100)}
SafetyOffers == (K1 :> {T1}) @@ (K2 :> {T1, NotPlt})
SafetyCalls == {Body(K1, T1, tx1, TRUE), Body(K1, T2, tx1, TRUE),
                Body(K2, T1, tx1, TRUE), Body(K2, NotPlt, None, TRUE),
                Body(K2, Misdecimal, tx1, TRUE)}

\* payments_webhook_pending: the gateway waives the event.
WaivingCalls == {Body(K1, T1, tx1, TRUE), Body(K1, T1, None, FALSE)}

\* payments_live: the first nonce is paid by tx1, the second asks for an amount
\* that toMinorUnits refuses; one call lacks its txHash.
LiveEvents == {Transfer(tx1, 0, 100)}
LiveOffers == (K1 :> {T1}) @@ (K2 :> {Unparseable})
LiveCalls == {Body(K1, T1, tx1, TRUE), Body(K2, Unparseable, tx1, TRUE),
              Body(K1, T1, None, TRUE)}
=============================================================================
