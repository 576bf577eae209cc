----------------------------- MODULE Ingestion -----------------------------
(***************************************************************************)
(* What the stream worker promises about the transfers of one account,     *)
(* without its processes, pages, crashes and restarts: the event table     *)
(* only grows, by transfers the wallet proxy shows, and the mark that      *)
(* restarts go by never runs ahead of the table.  StreamWorker is shown to *)
(* implement this specification.                                           *)
(***************************************************************************)
EXTENDS Naturals

CONSTANTS
  Ids,       \* wallet-proxy ids of the account's transactions
  Transfers, \* those that are transfers of the asset
  Late       \* those that may become visible after higher ids

VARIABLES
  visible,  \* the ids the wallet proxy shows
  stored,   \* the transfers in the event table
  mark,     \* the saved cursor, 0 if there is none
  exempt    \* ids up to here are not asked for: the first mark, or a start that skips

vars == <<visible, stored, mark, exempt>>

\* The id n and all that are shown before it, but for the late ones, are accounted for.
Covered(n) == \A i \in (visible \cap Transfers) \ Late : exempt < i /\ i <= n => i \in stored

Init ==
  /\ visible = {}
  /\ stored = {}
  /\ mark \in Nat
  /\ exempt = mark

\* A transaction becomes visible: beyond the mark, unless it is late.
Appear(i) ==
  /\ i \in Late \/ mark < i \/ i <= exempt
  /\ visible' = visible \cup {i}
  /\ UNCHANGED <<stored, mark, exempt>>

\* Transfers reach the event table.
Store ==
  /\ stored \subseteq stored'
  /\ stored' \subseteq stored \cup (visible \cap Transfers)
  /\ UNCHANGED <<visible, mark, exempt>>

\* The saved cursor moves on, over ids that are accounted for.
Advance ==
  /\ mark' \in Nat /\ mark' > mark
  /\ Covered(mark')
  /\ UNCHANGED <<visible, stored, exempt>>

\* A start "from now", at a clamped cursor, or at one that an operator sets.
Skip ==
  /\ exempt' \in Nat /\ exempt' > exempt
  /\ UNCHANGED <<visible, stored, mark>>

Next == (\E i \in Ids : Appear(i)) \/ Store \/ Advance \/ Skip

Spec == Init /\ [][Next]_vars

\* Nothing the wallet proxy shows in time, up to the saved cursor, is missing.
NothingMissed == Covered(mark)
=============================================================================
