------------------------- MODULE EventClaims_proofs -------------------------
(***************************************************************************)
(* What follows from the promise of EventClaims alone, for any challenges  *)
(* and events.  CrpPayments_proofs shows that the payment API keeps the    *)
(* promise, so these facts hold of its claims and receipts.                *)
(***************************************************************************)
EXTENDS EventClaims, TLAPS

IInv == TypeOK /\ SettledIsOwned

LEMMA InitIInv == Init => IInv
  BY DEF Init, IInv, TypeOK, SettledIsOwned

LEMMA IInvStep ==
  ASSUME None \notin Keys
  PROVE  IInv /\ [Next]_vars => IInv'
  <1> SUFFICES ASSUME IInv, [Next]_vars PROVE IInv'
    OBVIOUS
  <1> USE DEF IInv, TypeOK, SettledIsOwned
  <1>1. ASSUME NEW k \in Keys, Reset(k) PROVE IInv'
    BY <1>1 DEF Reset
  <1>2. ASSUME NEW k \in Keys, NEW e \in Events, Settle(k, e) PROVE IInv'
    <2>1. TypeOK'
      BY <1>2 DEF Settle
    <2>2. ASSUME NEW j \in Keys, settled'[j] # None PROVE owner'[settled'[j]] = j
      <3>1. CASE j = k
        BY <1>2, <3>1 DEF Settle
      <3>2. CASE j # k
        <4>1. settled'[j] = settled[j] /\ owner[settled[j]] = j
          BY <1>2, <2>2, <3>2 DEF Settle
        <4>2. settled[j] # e
          BY <1>2, <3>2, <4>1 DEF Settle
        <4> QED BY <1>2, <2>2, <4>1, <4>2 DEF Settle
      <3> QED BY <3>1, <3>2
    <2> QED BY <2>1, <2>2
  <1>3. CASE UNCHANGED vars
    BY <1>3 DEF vars
  <1> QED BY <1>1, <1>2, <1>3 DEF Next

\* Two challenges never show receipts for the same event: each receipt's event is
\* owned by the challenge that shows it.
THEOREM ReceiptsAreOwned ==
  ASSUME None \notin Keys
  PROVE  Spec => []SettledIsOwned
  <1>1. IInv => SettledIsOwned
    BY DEF IInv
  <1> QED BY InitIInv, IInvStep, <1>1, PTL DEF Spec

\* A spent event is never freed nor handed to another challenge.
THEOREM OwnersStay == Spec => OwnersAreForEver
  <1>1. ASSUME [Next]_vars
        PROVE  [\A e \in Events : owner[e] # None => owner'[e] = owner[e]]_vars
    <2>1. ASSUME NEW k \in Keys, NEW f \in Events, Settle(k, f), NEW e \in Events,
                 owner[e] # None
          PROVE  owner'[e] = owner[e]
      BY <2>1 DEF Settle
    <2>2. ASSUME NEW k \in Keys, Reset(k)
          PROVE  owner' = owner
      BY <2>2 DEF Reset
    <2> QED BY <1>1, <2>1, <2>2 DEF Next
  <1> QED BY <1>1, PTL DEF Spec, OwnersAreForEver
=============================================================================
