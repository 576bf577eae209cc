------------------------- MODULE ChallengeRegister -------------------------
(***************************************************************************)
(* What POST /v1/challenges promises: a register per challenge key that is *)
(* written once.  Each answer that shows a challenge shows the register as *)
(* it is at one moment, and creating never changes a register that is set. *)
(* The payment API may settle a challenge or write it anew.                *)
(***************************************************************************)
CONSTANTS Keys, Posts, None

VARIABLES
  rows,  \* rows[k]: the challenge of the key k, or None
  shown  \* shown[p]: the challenge that the answer to the post p shows, or None

vars == <<rows, shown>>

Init ==
  /\ rows = [k \in Keys |-> None]
  /\ shown = [p \in Posts |-> None]

\* A free register is set; the answer may be lost.
Create(p, k) ==
  /\ rows[k] = None
  /\ rows'[k] # None /\ rows'[k].status = "pending"
  /\ rows' = [rows EXCEPT ![k] = rows'[k]]
  /\ \E answer \in {rows'[k], None} : shown' = [shown EXCEPT ![p] = answer]

\* A set register is shown, not changed.
Show(p, k) ==
  /\ rows[k] # None
  /\ shown' = [shown EXCEPT ![p] = rows[k]]
  /\ UNCHANGED rows

\* No challenge is shown: a new call, or a refusal.
ShowNothing(p) ==
  /\ shown' = [shown EXCEPT ![p] = None]
  /\ UNCHANGED rows

\* A fulfilment changes nothing but the status.
Settle(k) ==
  /\ rows[k] # None
  /\ rows' = [rows EXCEPT ![k].status = "fulfilled"]
  /\ UNCHANGED shown

\* POST /v1/crp/payments writes a pending challenge over whatever there is.
Overwrite(k) ==
  /\ rows'[k] # None /\ rows'[k].status = "pending"
  /\ rows' = [rows EXCEPT ![k] = rows'[k]]
  /\ UNCHANGED shown

Next ==
  \/ \E p \in Posts, k \in Keys : Create(p, k) \/ Show(p, k)
  \/ \E p \in Posts : ShowNothing(p)
  \/ \E k \in Keys : Settle(k) \/ Overwrite(k)

Spec == Init /\ [][Next]_vars
=============================================================================
