---------------------------- MODULE EventClaims ----------------------------
(***************************************************************************)
(* What the payment API promises about chain events, without its requests, *)
(* transactions or failures: an event settles at most one challenge, for   *)
(* ever, and a challenge shows a receipt only for an event it owns.        *)
(* CrpPayments is shown to implement this specification.                   *)
(***************************************************************************)
CONSTANTS
  Keys,    \* the challenges, by (merchant_id, nonce)
  Events,  \* the PLT transfer events of the chain
  None

VARIABLES
  owner,   \* owner[e]: the challenge the event e has been spent on, or None
  settled  \* settled[k]: the event of the receipt the challenge k shows, or None

vars == <<owner, settled>>

TypeOK ==
  /\ owner \in [Events -> Keys \cup {None}]
  /\ settled \in [Keys -> Events \cup {None}]

Init ==
  /\ owner = [e \in Events |-> None]
  /\ settled = [k \in Keys |-> None]

\* The challenge k is settled by an event that nobody owns, or that k owns
\* already (the retry of a fulfilment that was reset).
Settle(k, e) ==
  /\ owner[e] \in {None, k}
  /\ owner' = [owner EXCEPT ![e] = k]
  /\ settled' = [settled EXCEPT ![k] = e]

\* The challenge k is posted again: it loses its receipt, not its events.
Reset(k) ==
  /\ settled' = [settled EXCEPT ![k] = None]
  /\ UNCHANGED owner

Next == \E k \in Keys : Reset(k) \/ \E e \in Events : Settle(k, e)

Spec == Init /\ [][Next]_vars

\* A challenge shows a receipt only for an event that it owns.
SettledIsOwned == \A k \in Keys : settled[k] # None => owner[settled[k]] = k

\* An event, once spent, stays spent on the same challenge.
OwnersAreForEver ==
  [][\A e \in Events : owner[e] # None => owner'[e] = owner[e]]_vars
=============================================================================
