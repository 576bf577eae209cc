------------------------- MODULE CrpPayments_proofs -------------------------
(***************************************************************************)
(* Proofs about CrpPayments, for any keys, tuples, events, calls, requests *)
(* and bounds: the inductive invariant IInv and the properties it implies. *)
(***************************************************************************)
EXTENDS CrpPayments, FiniteSetTheorems, TLAPS

\* The stages behind a successful findExactMatch.
Matched == {"event", "begin", "insert", "update", "commit", "reread", "webhook", "hung"}

\* The stages between the event look-up and the end of the transaction.
HoldsEvent == {"begin", "insert", "update", "commit"}

\* The stages at which the claim of the event is settled within the transaction.
HoldsClaim == {"update", "commit"}

\* What is posted and stored is what the gateway offers.
OffersInv ==
  /\ \A k \in Keys, t \in Tuples : <<k, t>> \in posting => t \in Offers[k]
  /\ \A k \in Keys : rows[k] # None => rows[k].tuple \in Offers[k]

\* The locals of a request agree with the tables.
LocalInv(r) ==
  /\ pc[r] # "idle" => call[r] \in Calls
  /\ pc[r] \in Matched => /\ rows[call[r].key] # None
                          /\ match[r] # None
                          /\ call[r].tuple \in Offers[call[r].key]
  /\ pc[r] \notin Matched => match[r] = None
  /\ pc[r] \in HoldsEvent => /\ event[r] \in events
                             /\ event[r].tx = call[r].tx
                             /\ Pays(event[r], call[r].tuple)
  /\ pc[r] = "insert" => seen[r] \in {None, claims[event[r]]}
  /\ pc[r] \in HoldsClaim =>
       claims[event[r]] = IF inserted[r] THEN None ELSE call[r].key
  /\ pc[r] \notin HoldsClaim \cup {"reread", "webhook", "hung"} => ~inserted[r]
  /\ match[r] # None /\ match[r].receipt # None
       => pc[r] # "idle" /\ claims[match[r].receipt.event] = call[r].key

\* Two open transactions never insert the same claim.
ClaimExclusive ==
  \A p, q \in Requests :
    /\ pc[p] \in HoldsClaim /\ pc[q] \in HoldsClaim
    /\ inserted[p] /\ inserted[q]
    /\ event[p] = event[q]
    => p = q

\* The challenge of c owns a transfer that pays for c.
OwnsPayment(c) == \E e \in events : claims[e] = c.key /\ Pays(e, c.tuple)

\* A claim stands behind the refusal of r.
RefusalBacked(r) ==
  \E e \in events : /\ e.tx = call[r].tx
                    /\ Pays(e, call[r].tuple)
                    /\ claims[e] # None
                    /\ reply[r] = "event_claimed" => claims[e] # call[r].key

\* A request that needs an event and is past its transaction is paid for, and so
\* is one that was told so; a refusal names a claim.
AnswerInv(r) ==
  /\ pc[r] \in {"reread", "webhook"} /\ NeedsTx(call[r]) /\ OneTuple(call[r].key)
       => OwnsPayment(call[r])
  /\ pc[r] = "replied" /\ reply[r] = "ok" /\ NeedsTx(call[r])
       /\ OneTuple(call[r].key) => OwnsPayment(call[r])
  /\ pc[r] = "replied" /\ reply[r] \in {"event_claimed", "claim_lookup_failed"}
       => RefusalBacked(r)

IInv ==
  /\ TypeOK
  /\ OffersInv
  /\ \A r \in Requests : LocalInv(r) /\ AnswerInv(r)
  /\ ClaimExclusive
  /\ ReceiptBacked
  /\ OneTupleIsPaid

-----------------------------------------------------------------------------
(* The types.                                                              *)

LEMMA InitTypeOK == Init => TypeOK
  BY BoundsAssumption DEF Init, TypeOK

\* Numbering a new row by the rows there are gives a natural number.
LEMMA RowCount == Cardinality({j \in Keys : rows[j] # None}) \in Nat
  <1>1. IsFiniteSet({j \in Keys : rows[j] # None})
    BY BoundsAssumption, FS_Subset
  <1> QED BY <1>1, FS_CardinalityType

\* Answering keeps the types of the locals.
LEMMA AnswerTypes ==
  ASSUME TypeOK, NEW r \in Requests, NEW reason \in Replies, Answer(r, reason)
  PROVE  /\ pc' \in [Requests -> Stages \cup {"idle", "replied", "hung"}]
         /\ call' \in [Requests -> Calls \cup {None}]
         /\ match' \in [Requests -> Rows \cup {None}]
         /\ event' \in [Requests -> Events \cup {None}]
         /\ seen' \in [Requests -> Keys \cup {None}]
         /\ inserted' \in [Requests -> BOOLEAN]
         /\ reply' \in [Requests -> Replies \cup {None}]
  BY DEF TypeOK, Answer, GoTo

\* A committed fulfilment keeps the types of the tables.
LEMMA SettleTypes ==
  ASSUME TypeOK, NEW r \in Requests, call[r] \in Calls, event[r] \in Events,
         rows[call[r].key] # None, Settle(r)
  PROVE  rows' \in [Keys -> Rows \cup {None}] /\ claims' \in [Events -> Keys \cup {None}]
  <1> DEFINE k == call[r].key
             row == rows[k]
  <1>1. k \in Keys /\ call[r].tuple \in Tuples
    BY CallsAssumption
  <1>2. row \in Rows
    BY <1>1 DEF TypeOK
  <1>3. [row EXCEPT !.status = "fulfilled",
                    !.receipt = [event |-> event[r], payment |-> call[r].tuple]] \in Rows
    BY <1>1, <1>2 DEF Rows, Receipts
  <1>4. rows' = [rows EXCEPT ![k] =
          [row EXCEPT !.status = "fulfilled",
                      !.receipt = [event |-> event[r], payment |-> call[r].tuple]]]
    BY DEF Settle
  <1>5. rows' \in [Keys -> Rows \cup {None}]
    BY <1>1, <1>3, <1>4 DEF TypeOK
  <1> QED BY <1>1, <1>5 DEF TypeOK, Settle

LEMMA TypeStep == IInv /\ [Next]_vars => TypeOK'
  <1> SUFFICES ASSUME IInv, [Next]_vars PROVE TypeOK'
    OBVIOUS
  <1> TypeOK
    BY DEF IInv
  <1>1. ASSUME NEW k \in Keys, NEW t \in Offers[k], AdmitPost(k, t)
        PROVE  TypeOK'
    <2>1. t \in Tuples
      BY CallsAssumption
    <2> QED BY <1>1, <2>1 DEF AdmitPost, TypeOK, tables
  <1>2. ASSUME NEW k \in Keys, NEW t \in Offers[k], UpsertPost(k, t)
        PROVE  TypeOK'
    <2> DEFINE born == IF rows[k] = None
                         THEN Cardinality({j \in Keys : rows[j] # None})
                         ELSE rows[k].createdAt
               row == [tuple |-> t, status |-> "pending", receipt |-> None,
                       createdAt |-> born]
    <2>1. t \in Tuples
      BY CallsAssumption
    <2>2. born \in Nat
      BY RowCount DEF TypeOK, Rows
    <2>3. row \in Rows
      BY <2>1, <2>2 DEF Rows
    <2>4. rows' = [rows EXCEPT ![k] = row]
      BY <1>2 DEF UpsertPost
    <2>5. rows' \in [Keys -> Rows \cup {None}]
      BY <2>3, <2>4 DEF TypeOK
    <2> QED BY <1>2, <2>5 DEF UpsertPost, TypeOK
  <1>22. ASSUME NEW k \in Keys, NEW t \in Offers[k], BeginUpsert(k, t)
         PROVE  TypeOK'
    BY <1>22 DEF BeginUpsert, TypeOK, tables
  <1>3. ASSUME NEW r \in Requests, NEW c \in Calls, RejectCall(r, c) \/ AcceptCall(r, c)
        PROVE  TypeOK'
    BY <1>3 DEF RejectCall, AcceptCall, Arrive, GoTo, TypeOK, tables, outside,
                Stages, Replies
  <1>4. ASSUME NEW r \in Requests, NEW reason \in Replies, Refuse(r, reason)
        PROVE  TypeOK'
    BY <1>4, AnswerTypes DEF Refuse, TypeOK, tables, outside
  <1>5. ASSUME NEW r \in Requests,
               AssetDisabled(r) \/ WrongDecimals(r) \/ NoMatch(r) \/ AmountMalformed(r) \/ NoEvent(r)
                 \/ ClaimConflict(r) \/ ClaimLookupFails(r)
        PROVE  TypeOK'
    BY <1>4, <1>5 DEF AssetDisabled, WrongDecimals, NoMatch, AmountMalformed, NoEvent,
                      ClaimConflict, ClaimLookupFails, Replies
  <1>6. ASSUME NEW r \in Requests,
               AssetPasses(r) \/ ReuseClaim(r) \/ UpdateChallenge(r) \/ InsertClaim(r)
        PROVE  TypeOK'
    BY <1>6 DEF AssetPasses, ReuseClaim, UpdateChallenge, InsertClaim, GoTo, TypeOK,
                tables, outside, Stages
  <1>7. ASSUME NEW r \in Requests, pc[r] # "idle"
        PROVE  /\ call[r] \in Calls
               /\ call[r].key \in Keys
               /\ call[r].tuple \in Tuples
    BY <1>7, CallsAssumption DEF IInv, LocalInv
  <1>8. ASSUME NEW r \in Requests, Match(r) \/ ReRead(r)
        PROVE  TypeOK'
    <2>1. rows[call[r].key] \in Rows \cup {None}
      BY <1>7, <1>8 DEF Match, ReRead, TypeOK
    <2> QED BY <1>8, <2>1 DEF Match, ReRead, GoTo, TypeOK, tables, outside, Stages
  <1>9. ASSUME NEW r \in Requests, FindEvent(r)
        PROVE  TypeOK'
    <2>1. Payments(call[r]) \subseteq Events
      BY DEF Payments, TypeOK
    <2> QED BY <1>9, <2>1 DEF FindEvent, GoTo, TypeOK, tables, outside, Stages
  <1>10. ASSUME NEW r \in Requests, pc[r] \in HoldsEvent
         PROVE  /\ event[r] \in Events
                /\ rows[call[r].key] # None
    BY <1>10 DEF IInv, LocalInv, TypeOK, HoldsEvent, Matched
  <1>11. ASSUME NEW r \in Requests, BeginClaim(r)
         PROVE  TypeOK'
    <2>1. claims[event[r]] \in Keys \cup {None}
      BY <1>10, <1>11 DEF BeginClaim, TypeOK, HoldsEvent
    <2> QED BY <1>11, <2>1 DEF BeginClaim, GoTo, TypeOK, tables, outside, Stages
  <1>12. ASSUME NEW r \in Requests, pc[r] = "commit", Settle(r)
         PROVE  /\ rows' \in [Keys -> Rows \cup {None}]
                /\ claims' \in [Events -> Keys \cup {None}]
    BY <1>7, <1>10, <1>12, SettleTypes DEF HoldsEvent
  <1>13. ASSUME NEW r \in Requests, Commit(r)
         PROVE  TypeOK'
    BY <1>12, <1>13 DEF Commit, GoTo, TypeOK, outside, Stages
  <1>14. ASSUME NEW r \in Requests, Webhook(r)
         PROVE  TypeOK'
    BY <1>7, <1>14, AnswerTypes DEF Webhook, Announce, TypeOK, tables, outside, Replies
  <1>21. ASSUME NEW r \in Requests, WebhookHangs(r)
         PROVE  TypeOK'
    BY <1>7, <1>21 DEF WebhookHangs, Announce, Fail, GoTo, TypeOK, tables
  <1>15. ASSUME NEW r \in Requests, QueryFails(r)
         PROVE  TypeOK'
    BY <1>15, AnswerTypes DEF QueryFails, Fail, TypeOK, tables, Replies
  <1>16. ASSUME NEW r \in Requests, CommitAnswerLost(r)
         PROVE  TypeOK'
    BY <1>12, <1>16, AnswerTypes DEF CommitAnswerLost, Fail, TypeOK, Replies
  <1>17. CASE Crash
    BY <1>17 DEF Crash, Fail, TypeOK, tables
  <1>18. ASSUME NEW e \in Events, IngestEvent(e)
         PROVE  TypeOK'
    BY <1>18 DEF IngestEvent, TypeOK, tables
  <1>19. ASSUME NEW a \in PltAssets, DisableAsset(a) \/ EnableAsset(a)
         PROVE  TypeOK'
    BY <1>19 DEF DisableAsset, EnableAsset, TypeOK, tables
  <1>20. CASE UNCHANGED vars
    BY <1>20 DEF vars, TypeOK
  <1> QED
    BY <1>1, <1>2, <1>3, <1>5, <1>6, <1>8, <1>9, <1>11, <1>13, <1>14, <1>15, <1>16,
       <1>17, <1>18, <1>19, <1>20, <1>21, <1>22
    DEF Next, Step

-----------------------------------------------------------------------------
(* Steps that touch nothing but the locals of one request.                 *)

OnlyLocals(r) ==
  /\ UNCHANGED <<rows, claims, events, posting>>
  /\ \A q \in Requests \ {r} :
       /\ pc'[q] = pc[q] /\ call'[q] = call[q] /\ match'[q] = match[q]
       /\ event'[q] = event[q] /\ seen'[q] = seen[q]
       /\ inserted'[q] = inserted[q] /\ reply'[q] = reply[q]

\* Such a step preserves the invariant if it does so for the request itself and
\* lets it enter a transaction only with a claim that nobody else has inserted.
LEMMA LocalStep ==
  ASSUME IInv, TypeOK', NEW r \in Requests, OnlyLocals(r),
         LocalInv(r)', AnswerInv(r)',
         pc'[r] \in HoldsClaim /\ inserted'[r]
           => \/ pc[r] \in HoldsClaim /\ inserted[r] /\ event'[r] = event[r]
              \/ ~ClaimInFlight(event'[r])
  PROVE  IInv'
  <1>1. OffersInv'
    BY DEF IInv, OffersInv, OnlyLocals
  <1>2. ASSUME NEW q \in Requests PROVE LocalInv(q)' /\ AnswerInv(q)'
    <2>1. CASE q = r
      BY <2>1
    <2>2. CASE q # r
      <3>1. LocalInv(q) /\ AnswerInv(q)
        BY DEF IInv
      <3>2. /\ rows' = rows /\ claims' = claims /\ events' = events
            /\ pc'[q] = pc[q] /\ call'[q] = call[q] /\ match'[q] = match[q]
            /\ event'[q] = event[q] /\ seen'[q] = seen[q]
            /\ inserted'[q] = inserted[q] /\ reply'[q] = reply[q]
        BY <2>2 DEF OnlyLocals
      <3>3. LocalInv(q)'
        BY <3>1, <3>2 DEF LocalInv
      <3>4. AnswerInv(q)'
        BY <3>1, <3>2 DEF AnswerInv, OwnsPayment, RefusalBacked
      <3> QED BY <3>3, <3>4
    <2> QED BY <2>1, <2>2
  <1>3. ClaimExclusive'
    <2> SUFFICES ASSUME NEW p \in Requests, NEW q \in Requests, p # q,
                        pc'[p] \in HoldsClaim, pc'[q] \in HoldsClaim,
                        inserted'[p], inserted'[q], event'[p] = event'[q]
                 PROVE  FALSE
      BY DEF ClaimExclusive
    <2>1. ClaimExclusive
      BY DEF IInv
    <2>2. CASE p # r /\ q # r
      BY <2>1, <2>2 DEF ClaimExclusive, OnlyLocals
    <2>3. CASE p = r
      BY <2>1, <2>3 DEF ClaimExclusive, OnlyLocals, ClaimInFlight, HoldsClaim
    <2>4. CASE q = r
      BY <2>1, <2>4 DEF ClaimExclusive, OnlyLocals, ClaimInFlight, HoldsClaim
    <2> QED BY <2>2, <2>3, <2>4
  <1>4. ReceiptBacked' /\ OneTupleIsPaid'
    BY DEF IInv, ReceiptBacked, OneTupleIsPaid, HasReceipt, OnlyLocals
  <1> QED BY <1>1, <1>2, <1>3, <1>4 DEF IInv

\* Any answer but "ok" preserves it, if a claim stands behind a refusal.
LEMMA AnswerStep ==
  ASSUME IInv, TypeOK', NEW r \in Requests, NEW reason \in Replies \ {"ok"},
         pc[r] # "idle", Answer(r, reason),
         UNCHANGED <<rows, claims, events, posting>>,
         reason \in {"event_claimed", "claim_lookup_failed"} =>
           /\ pc[r] = "insert" /\ claims[event[r]] # None
           /\ reason = "event_claimed" => claims[event[r]] # call[r].key
  PROVE  IInv'
  <1>1. OnlyLocals(r)
    BY DEF Answer, GoTo, OnlyLocals, IInv, TypeOK
  <1>2. /\ pc'[r] = "replied" /\ call'[r] = call[r] /\ match'[r] = None
        /\ inserted'[r] = FALSE /\ reply'[r] = reason
    BY DEF Answer, GoTo, IInv, TypeOK
  <1>3. LocalInv(r)
    BY DEF IInv
  <1>4. LocalInv(r)'
    BY <1>2, <1>3 DEF LocalInv, Matched, HoldsEvent, HoldsClaim
  <1>5. AnswerInv(r)'
    <2>1. CASE reason \in {"event_claimed", "claim_lookup_failed"}
      <3>1. /\ event[r] \in events
            /\ event[r].tx = call[r].tx
            /\ Pays(event[r], call[r].tuple)
        BY <1>3, <2>1 DEF LocalInv, HoldsEvent
      <3> QED BY <1>2, <2>1, <3>1 DEF AnswerInv, RefusalBacked, Pays
    <2>2. CASE reason \notin {"event_claimed", "claim_lookup_failed"}
      BY <1>2, <2>2 DEF AnswerInv
    <2> QED BY <2>1, <2>2
  <1> QED BY <1>1, <1>2, <1>4, <1>5, LocalStep DEF HoldsClaim

-----------------------------------------------------------------------------
(* Steps that write the tables.                                            *)

\* The claims only grow, the events only grow: what an answer relies on stays.
LEMMA AnswerStays ==
  ASSUME NEW q \in Requests, AnswerInv(q), TypeOK, NoneAssumption,
         pc'[q] = pc[q], call'[q] = call[q], reply'[q] = reply[q],
         events \subseteq events',
         \A e \in Events : claims[e] # None => claims'[e] = claims[e],
         call[q].key # None
  PROVE  AnswerInv(q)'
  <1>1. OwnsPayment(call[q]) => OwnsPayment(call[q])'
    BY DEF OwnsPayment, TypeOK, Pays
  <1>2. ASSUME NEW e \in events, claims[e] # None
        PROVE  e \in events' /\ claims'[e] = claims[e]
    BY <1>2 DEF TypeOK
  <1>3. RefusalBacked(q) => RefusalBacked(q)'
    BY <1>2 DEF RefusalBacked, Pays
  <1> QED BY <1>1, <1>3 DEF AnswerInv

\* The body of a request that is not idle.
LEMMA CallType ==
  ASSUME IInv, NEW r \in Requests, pc[r] # "idle"
  PROVE  /\ call[r] \in Calls
         /\ call[r].key \in Keys /\ call[r].key # None
         /\ call[r].tuple \in Tuples
  BY CallsAssumption, NoneAssumption DEF IInv, LocalInv

\* What a committed fulfilment does to the tables: one receipt appears, on a row
\* whose tuple is kept, and at most one claim, on an event that had none.
LEMMA SettleTables ==
  ASSUME IInv, NEW r \in Requests, pc[r] = "commit", Settle(r), UNCHANGED events
  PROVE  /\ \A k \in Keys : /\ rows[k] # None <=> rows'[k] # None
                            /\ rows'[k] # None => rows'[k].tuple = rows[k].tuple
         /\ \A e \in Events : claims[e] # None => claims'[e] = claims[e]
         /\ claims'[event[r]] = call[r].key
         /\ \A e \in Events \ {event[r]} : claims'[e] = claims[e]
         /\ ~inserted[r] => claims' = claims
         /\ ReceiptBacked'
         /\ OneTupleIsPaid'
  <1> DEFINE k == call[r].key
             e == event[r]
             t == call[r].tuple
             paid == [rows[k] EXCEPT !.status = "fulfilled",
                        !.receipt = [event |-> e, payment |-> t]]
  <1> TypeOK
    BY DEF IInv
  <1>1. /\ k \in Keys /\ k # None /\ t \in Tuples
        /\ rows[k] # None /\ rows[k] \in Rows
        /\ t \in Offers[k]
    BY CallType DEF IInv, LocalInv, Matched, TypeOK
  <1>2. /\ e \in Events /\ e \in events /\ Pays(e, t)
        /\ claims[e] = IF inserted[r] THEN None ELSE k
    BY DEF IInv, LocalInv, HoldsEvent, HoldsClaim, TypeOK
  <1>3. /\ paid \in Rows /\ paid # None
        /\ paid.tuple = rows[k].tuple /\ paid.status = "fulfilled"
        /\ paid.receipt = [event |-> e, payment |-> t]
        /\ paid.receipt # None
    <2>1. [event |-> e, payment |-> t] \in Receipts
      BY <1>1, <1>2 DEF Receipts
    <2>2. paid \in Rows
      BY <1>1, <2>1 DEF Rows
    <2> QED BY <1>1, <2>1, <2>2, NoneAssumption DEF Rows
  <1>4. /\ rows'[k] = paid
        /\ \A j \in Keys \ {k} : rows'[j] = rows[j]
    BY <1>1 DEF Settle, TypeOK
  <1>5. /\ claims'[e] = k
        /\ \A f \in Events \ {e} : claims'[f] = claims[f]
    BY <1>2 DEF Settle, TypeOK
  <1> HIDE DEF paid
  <1>6. \A j \in Keys : /\ rows[j] # None <=> rows'[j] # None
                        /\ rows'[j] # None => rows'[j].tuple = rows[j].tuple
    BY <1>1, <1>3, <1>4
  <1>7. \A f \in Events : claims[f] # None => claims'[f] = claims[f]
    BY <1>2, <1>5
  <1>8. ~inserted[r] => claims' = claims
    BY <1>1, <1>2 DEF Settle, TypeOK
  <1>9. ReceiptBacked'
    <2> SUFFICES ASSUME NEW j \in Keys, HasReceipt(j)'
                 PROVE  /\ rows'[j].status = "fulfilled"
                        /\ claims'[rows'[j].receipt.event] = j
                        /\ rows'[j].receipt.event \in events'
                        /\ Pays(rows'[j].receipt.event, rows'[j].receipt.payment)
      BY DEF ReceiptBacked, Pays
    <2>1. CASE j = k
      <3>1. rows'[j].receipt.event = e /\ rows'[j].receipt.payment = t
        BY <1>3, <1>4, <2>1
      <3> QED BY <1>2, <1>3, <1>4, <1>5, <2>1, <3>1
    <2>2. CASE j # k
      <3>1. rows'[j] = rows[j] /\ HasReceipt(j)
        BY <1>4, <2>2 DEF HasReceipt
      <3>2. /\ rows[j].status = "fulfilled"
            /\ claims[rows[j].receipt.event] = j
            /\ rows[j].receipt.event \in events
            /\ Pays(rows[j].receipt.event, rows[j].receipt.payment)
        BY <3>1 DEF IInv, ReceiptBacked
      <3>3. rows[j].receipt.event \in Events /\ j # None
        BY <3>2, NoneAssumption DEF TypeOK
      <3> QED BY <1>7, <3>1, <3>2, <3>3
    <2> QED BY <2>1, <2>2
  <1>10. OneTupleIsPaid'
    <2> SUFFICES ASSUME NEW j \in Keys, HasReceipt(j)', OneTuple(j)
                 PROVE  rows'[j].receipt.payment = rows'[j].tuple
      BY DEF OneTupleIsPaid, OneTuple
    <2>1. CASE j = k
      <3>1. rows'[j].receipt.payment = t /\ rows'[j].tuple = rows[j].tuple
        BY <1>3, <1>4, <2>1
      <3>2. rows[j].tuple \in Offers[j]
        BY <1>1, <2>1 DEF IInv, OffersInv
      <3> QED BY <1>1, <2>1, <3>1, <3>2 DEF OneTuple
    <2>2. CASE j # k
      BY <1>4, <2>2 DEF IInv, OneTupleIsPaid, HasReceipt
    <2> QED BY <2>1, <2>2
  <1> QED BY <1>5, <1>6, <1>7, <1>8, <1>9, <1>10

\* The requests other than r after r's transaction has committed.
LEMMA SettleOthers ==
  ASSUME IInv, TypeOK', NEW r \in Requests, pc[r] = "commit", Settle(r),
         UNCHANGED events,
         NEW q \in Requests, q # r,
         pc'[q] = pc[q], call'[q] = call[q], match'[q] = match[q],
         event'[q] = event[q], seen'[q] = seen[q],
         inserted'[q] = inserted[q], reply'[q] = reply[q]
  PROVE  LocalInv(q)' /\ AnswerInv(q)'
  <1> TypeOK /\ LocalInv(q) /\ AnswerInv(q)
    BY DEF IInv
  <1>1. /\ \A k \in Keys : rows[k] # None => rows'[k] # None
        /\ \A e \in Events : claims[e] # None => claims'[e] = claims[e]
        /\ \A e \in Events \ {event[r]} : claims'[e] = claims[e]
        /\ ~inserted[r] => claims' = claims
    BY SettleTables
  <1>2. pc[q] # "idle" => /\ call[q] \in Calls
                          /\ call[q].key \in Keys /\ call[q].key # None
    BY CallType
  <1>3. pc[q] \in Matched => /\ rows'[call[q].key] # None
                             /\ match[q] # None
                             /\ call[q].tuple \in Offers[call[q].key]
    BY <1>1, <1>2 DEF LocalInv, Matched
  <1>4. pc[q] \in HoldsEvent => /\ event[q] \in events /\ event[q] \in Events
                                /\ event[q].tx = call[q].tx
                                /\ Pays(event[q], call[q].tuple)
    BY DEF LocalInv, TypeOK
  <1>5. pc[q] = "insert" => seen[q] \in {None, claims'[event[q]]}
    BY <1>1, <1>4 DEF LocalInv, HoldsEvent
  <1>6. pc[q] \in HoldsClaim =>
          claims'[event[q]] = IF inserted[q] THEN None ELSE call[q].key
    <2> SUFFICES ASSUME pc[q] \in HoldsClaim
                 PROVE  claims'[event[q]] = IF inserted[q] THEN None ELSE call[q].key
      OBVIOUS
    <2>1. /\ claims[event[q]] = IF inserted[q] THEN None ELSE call[q].key
          /\ event[q] \in Events
      BY <1>4 DEF LocalInv, HoldsClaim, HoldsEvent
    <2>2. CASE ~inserted[q]
      BY <1>1, <1>2, <2>1, <2>2 DEF HoldsClaim
    <2>3. CASE inserted[q] /\ inserted[r]
      <3>1. event[q] # event[r]
        BY <2>3 DEF IInv, ClaimExclusive, HoldsClaim
      <3> QED BY <1>1, <2>1, <3>1
    <2>4. CASE inserted[q] /\ ~inserted[r]
      BY <1>1, <2>1, <2>4
    <2> QED BY <2>2, <2>3, <2>4 DEF TypeOK
  <1>7. match[q] # None /\ match[q].receipt # None
          => pc[q] # "idle" /\ claims'[match[q].receipt.event] = call[q].key
    <2> SUFFICES ASSUME match[q] # None, match[q].receipt # None
                 PROVE  pc[q] # "idle" /\ claims'[match[q].receipt.event] = call[q].key
      OBVIOUS
    <2>1. pc[q] # "idle" /\ claims[match[q].receipt.event] = call[q].key
      BY DEF LocalInv
    <2>2. match[q].receipt.event \in Events
      BY DEF TypeOK, Rows, Receipts
    <2> QED BY <1>1, <1>2, <2>1, <2>2
  <1>8. LocalInv(q)'
    BY <1>3, <1>4, <1>5, <1>6, <1>7 DEF LocalInv, Pays
  <1>9. CASE pc[q] = "idle"
    BY <1>8, <1>9 DEF AnswerInv
  <1>10. CASE pc[q] # "idle"
    BY <1>1, <1>2, <1>8, <1>10, AnswerStays, NoneAssumption
  <1> QED BY <1>8, <1>9, <1>10

\* POST /payments writes a pending row: no receipt is lost sight of, because none
\* is left, and no request is misled, because none keeps a tuple of the row.
LEMMA UpsertStep ==
  ASSUME IInv, TypeOK', NEW k \in Keys, NEW t \in Offers[k], UpsertPost(k, t)
  PROVE  IInv'
  <1> DEFINE row == [tuple |-> t, status |-> "pending", receipt |-> None,
                     createdAt |-> IF rows[k] = None
                                     THEN Cardinality({j \in Keys : rows[j] # None})
                                     ELSE rows[k].createdAt]
  <1> TypeOK
    BY DEF IInv
  <1>1. /\ rows'[k] = row /\ row # None
        /\ \A j \in Keys \ {k} : rows'[j] = rows[j]
    <2>1. rows'[k] = row /\ \A j \in Keys \ {k} : rows'[j] = rows[j]
      BY DEF UpsertPost, TypeOK
    <2>2. t \in Tuples
      BY CallsAssumption
    <2>3. row.createdAt \in Nat
      BY RowCount DEF TypeOK, Rows
    <2>4. row \in Rows
      BY <2>2, <2>3 DEF Rows
    <2> QED BY <2>1, <2>4, NoneAssumption
  <1>2. row.tuple = t /\ row.receipt = None
    OBVIOUS
  <1> HIDE DEF row
  <1>3. OffersInv'
    BY <1>1, <1>2 DEF IInv, OffersInv, UpsertPost
  <1>4. ReceiptBacked' /\ OneTupleIsPaid'
    BY <1>1, <1>2 DEF IInv, ReceiptBacked, OneTupleIsPaid, HasReceipt, UpsertPost
  <1>5. ASSUME NEW q \in Requests PROVE LocalInv(q)' /\ AnswerInv(q)'
    <2>1. LocalInv(q) /\ AnswerInv(q)
      BY DEF IInv
    <2>2. pc[q] \in Matched => rows'[call[q].key] # None
      BY <1>1, <2>1, CallType DEF LocalInv, Matched
    <2>3. LocalInv(q)'
      BY <2>1, <2>2 DEF LocalInv, UpsertPost
    <2>4. AnswerInv(q)'
      BY <2>1 DEF AnswerInv, OwnsPayment, RefusalBacked, UpsertPost
    <2> QED BY <2>3, <2>4
  <1>6. ClaimExclusive'
    BY DEF IInv, ClaimExclusive, UpsertPost
  <1> QED BY <1>3, <1>4, <1>5, <1>6 DEF IInv

\* Commit and CommitAnswerLost, but for the requests' program counters.
LEMMA SettleStep ==
  ASSUME IInv, TypeOK', NEW r \in Requests, Commit(r) \/ CommitAnswerLost(r)
  PROVE  IInv'
  <1> TypeOK /\ LocalInv(r) /\ AnswerInv(r)
    BY DEF IInv
  <1>1. /\ pc[r] = "commit" /\ Settle(r) /\ UNCHANGED <<events, posting>>
        /\ call' = call
        /\ pc'[r] \in {"reread", "replied"}
        /\ pc'[r] = "replied" => /\ match'[r] = None /\ reply'[r] = "internal_error"
                                 /\ ~inserted'[r]
        /\ pc'[r] = "reread" => match'[r] = match[r]
    BY DEF Commit, CommitAnswerLost, Fail, Answer, GoTo, outside, TypeOK
  <1>2. \A q \in Requests \ {r} :
          /\ pc'[q] = pc[q] /\ call'[q] = call[q] /\ match'[q] = match[q]
          /\ event'[q] = event[q] /\ seen'[q] = seen[q]
          /\ inserted'[q] = inserted[q] /\ reply'[q] = reply[q]
    BY DEF Commit, CommitAnswerLost, Answer, GoTo, TypeOK
  <1>3. /\ \A k \in Keys : /\ rows[k] # None <=> rows'[k] # None
                           /\ rows'[k] # None => rows'[k].tuple = rows[k].tuple
        /\ \A e \in Events : claims[e] # None => claims'[e] = claims[e]
        /\ claims'[event[r]] = call[r].key
        /\ ReceiptBacked'
        /\ OneTupleIsPaid'
    BY <1>1, SettleTables
  <1>4. /\ call[r] \in Calls /\ call[r].key \in Keys /\ call[r].key # None
    BY <1>1, CallType
  <1>5. OffersInv'
    BY <1>1, <1>3 DEF IInv, OffersInv
  <1>6. LocalInv(r)'
    <2>1. /\ rows'[call[r].key] # None /\ match[r] # None
          /\ call[r].tuple \in Offers[call[r].key]
      BY <1>1, <1>3, <1>4 DEF LocalInv, Matched
    <2>2. match[r].receipt # None
            => claims'[match[r].receipt.event] = call[r].key
      <3>1. match[r] \in Rows
        BY <2>1 DEF TypeOK
      <3>2. match[r].receipt # None => match[r].receipt.event \in Events
        BY <3>1 DEF Rows, Receipts
      <3> QED BY <1>3, <1>4, <2>1, <3>2 DEF LocalInv
    <2> QED BY <1>1, <1>4, <2>1, <2>2 DEF LocalInv, Matched, HoldsEvent, HoldsClaim
  <1>7. AnswerInv(r)'
    <2>1. /\ event[r] \in events /\ Pays(event[r], call[r].tuple)
      BY <1>1 DEF LocalInv, HoldsEvent
    <2>2. OwnsPayment(call[r])'
      BY <1>1, <1>3, <2>1 DEF OwnsPayment, Pays
    <2> QED BY <1>1, <2>2 DEF AnswerInv
  <1>8. ASSUME NEW q \in Requests PROVE LocalInv(q)' /\ AnswerInv(q)'
    <2>1. CASE q = r
      BY <1>6, <1>7, <2>1
    <2>2. CASE q # r
      BY <1>1, <1>2, <2>2, SettleOthers
    <2> QED BY <2>1, <2>2
  <1>9. ClaimExclusive'
    BY <1>1, <1>2 DEF IInv, ClaimExclusive, HoldsClaim
  <1> QED BY <1>3, <1>5, <1>8, <1>9 DEF IInv

-----------------------------------------------------------------------------
(* The invariant.                                                          *)

LEMMA InitIInv == Init => IInv
  BY InitTypeOK DEF Init, IInv, OffersInv, LocalInv, AnswerInv, ClaimExclusive,
     ReceiptBacked, OneTupleIsPaid, HasReceipt, Matched, HoldsEvent, HoldsClaim

\* A call arrives at a free slot.
LEMMA ArriveStep ==
  ASSUME IInv, TypeOK', NEW r \in Requests, NEW c \in Calls,
         RejectCall(r, c) \/ AcceptCall(r, c)
  PROVE  IInv'
  <1> TypeOK /\ LocalInv(r)
    BY DEF IInv
  <1>1. OnlyLocals(r)
    BY DEF RejectCall, AcceptCall, Arrive, GoTo, OnlyLocals, TypeOK, tables, outside
  <1>2. /\ pc[r] \in {"idle", "replied"}
        /\ call'[r] = c /\ pc'[r] \in {"registry", "replied"}
        /\ match'[r] = match[r] /\ inserted'[r] = inserted[r]
        /\ reply'[r] \in {None, "bad_request"}
        /\ pc'[r] = "replied" => reply'[r] = "bad_request"
    BY DEF RejectCall, AcceptCall, Arrive, GoTo, TypeOK, tables, outside
  <1>3. match[r] = None /\ ~inserted[r]
    BY <1>2 DEF LocalInv, Matched, HoldsClaim
  <1>4. LocalInv(r)'
    BY <1>2, <1>3 DEF LocalInv, Matched, HoldsEvent, HoldsClaim
  <1>5. AnswerInv(r)'
    BY <1>2 DEF AnswerInv
  <1> QED BY <1>1, <1>2, <1>4, <1>5, LocalStep DEF HoldsClaim

\* A row of the key c.key with the tuple of c is one the gateway offered; if it
\* shows a receipt, its challenge owns the event of the receipt, and, when only
\* one tuple is offered for the key, that event pays for c.
LEMMA MatchedRow ==
  ASSUME IInv, NEW c \in Calls, FindsMatch(c)
  PROVE  /\ c.tuple \in Offers[c.key]
         /\ rows[c.key] # None /\ rows[c.key] \in Rows
         /\ rows[c.key].receipt # None =>
              /\ claims[rows[c.key].receipt.event] = c.key
              /\ OneTuple(c.key) => OwnsPayment(c)
  <1>1. c.key \in Keys
    BY CallsAssumption
  <1>2. /\ rows[c.key] # None /\ rows[c.key] \in Rows
        /\ rows[c.key].tuple = c.tuple /\ c.tuple \in Offers[c.key]
    BY <1>1 DEF FindsMatch, IInv, OffersInv, TypeOK
  <1>3. ASSUME rows[c.key].receipt # None
        PROVE  /\ claims[rows[c.key].receipt.event] = c.key
               /\ rows[c.key].receipt.event \in events
               /\ Pays(rows[c.key].receipt.event, rows[c.key].receipt.payment)
               /\ OneTuple(c.key) => rows[c.key].receipt.payment = rows[c.key].tuple
    BY <1>1, <1>2, <1>3 DEF IInv, ReceiptBacked, OneTupleIsPaid, HasReceipt
  <1> QED BY <1>2, <1>3 DEF OwnsPayment

\* The steps of a request that read or wait, and neither answer nor commit.
LEMMA MoveStep ==
  ASSUME IInv, TypeOK', NEW r \in Requests,
         \/ AssetPasses(r) \/ Match(r) \/ FindEvent(r) \/ BeginClaim(r)
         \/ InsertClaim(r) \/ ReuseClaim(r) \/ UpdateChallenge(r) \/ ReRead(r)
  PROVE  IInv'
  <1> TypeOK /\ LocalInv(r) /\ AnswerInv(r) /\ r \in Requests
    BY DEF IInv
  <1>1. OnlyLocals(r)
    BY DEF AssetPasses, Match, FindEvent, BeginClaim, InsertClaim, ReuseClaim,
           UpdateChallenge, ReRead, OnlyLocals, GoTo, TypeOK, tables, outside
  <1>2. /\ call' = call /\ reply' = reply
        /\ UNCHANGED <<rows, claims, events>>
        /\ call[r] \in Calls
    <2>1. pc[r] # "idle"
      BY DEF AssetPasses, Match, FindEvent, BeginClaim, InsertClaim, ReuseClaim,
             UpdateChallenge, ReRead
    <2> QED
      BY <2>1, CallType
      DEF AssetPasses, Match, FindEvent, BeginClaim, InsertClaim, ReuseClaim,
          UpdateChallenge, ReRead, tables, outside
  <1>3. CASE AssetPasses(r)
    <2>1. /\ pc[r] = "registry" /\ pc'[r] = "match"
          /\ UNCHANGED <<match, event, seen, inserted>>
      BY <1>3 DEF AssetPasses, GoTo, TypeOK
    <2>2. LocalInv(r)' /\ AnswerInv(r)'
      BY <1>2, <2>1 DEF LocalInv, AnswerInv, Matched, HoldsEvent, HoldsClaim
    <2> QED BY <1>1, <2>1, <2>2, LocalStep DEF HoldsClaim
  <1>4. CASE Match(r)
    <2>1. /\ pc[r] = "match" /\ FindsMatch(call[r])
          /\ pc'[r] = IF rows[call[r].key].status = "fulfilled"
                           /\ rows[call[r].key].receipt # None THEN "webhook"
                      ELSE IF NeedsTx(call[r]) THEN "event" ELSE "reread"
          /\ match'[r] = rows[call[r].key]
          /\ UNCHANGED <<event, seen, inserted>>
      BY <1>4 DEF Match, GoTo, TypeOK
    <2>2. /\ call[r].tuple \in Offers[call[r].key]
          /\ rows[call[r].key] # None
          /\ rows[call[r].key].receipt # None =>
               /\ claims[rows[call[r].key].receipt.event] = call[r].key
               /\ OneTuple(call[r].key) => OwnsPayment(call[r])
      BY <1>2, <2>1, MatchedRow
    <2>3. LocalInv(r)'
      BY <1>2, <2>1, <2>2 DEF LocalInv, Matched, HoldsEvent, HoldsClaim
    <2>4. OwnsPayment(call[r]) => OwnsPayment(call[r])'
      BY <1>2 DEF OwnsPayment
    <2>5. AnswerInv(r)'
      BY <1>2, <2>1, <2>2, <2>4 DEF AnswerInv
    <2> QED BY <1>1, <2>1, <2>3, <2>5, LocalStep DEF HoldsClaim
  <1>5. CASE FindEvent(r)
    <2>1. /\ pc[r] = "event" /\ pc'[r] = "begin"
          /\ event'[r] \in Payments(call[r])
          /\ UNCHANGED <<match, seen, inserted>>
      BY <1>5 DEF FindEvent, GoTo, TypeOK
    <2>2. /\ event'[r] \in events
          /\ event'[r].tx = call[r].tx
          /\ Pays(event'[r], call[r].tuple)
      BY <2>1 DEF Payments, Pays
    <2>3. LocalInv(r)' /\ AnswerInv(r)'
      BY <1>2, <2>1, <2>2 DEF LocalInv, AnswerInv, Matched, HoldsEvent, HoldsClaim, Pays
    <2> QED BY <1>1, <2>1, <2>3, LocalStep DEF HoldsClaim
  <1>6. CASE BeginClaim(r)
    <2>1. /\ pc[r] = "begin" /\ pc'[r] = "insert"
          /\ seen'[r] = claims[event[r]]
          /\ UNCHANGED <<match, event, inserted>>
      BY <1>6 DEF BeginClaim, GoTo, TypeOK
    <2>2. LocalInv(r)' /\ AnswerInv(r)'
      BY <1>2, <2>1 DEF LocalInv, AnswerInv, Matched, HoldsEvent, HoldsClaim, Pays
    <2> QED BY <1>1, <2>1, <2>2, LocalStep DEF HoldsClaim
  <1>7. CASE InsertClaim(r)
    <2>1. /\ pc[r] = "insert" /\ pc'[r] = "update"
          /\ ~ClaimInFlight(event[r]) /\ claims[event[r]] = None
          /\ inserted'[r] = TRUE
          /\ UNCHANGED <<match, event, seen>>
      BY <1>7 DEF InsertClaim, GoTo, TypeOK
    <2>2. LocalInv(r)' /\ AnswerInv(r)'
      BY <1>2, <2>1 DEF LocalInv, AnswerInv, Matched, HoldsEvent, HoldsClaim, Pays
    <2> QED BY <1>1, <2>1, <2>2, LocalStep
  <1>8. CASE ReuseClaim(r)
    <2>1. /\ pc[r] = "insert" /\ pc'[r] = "update"
          /\ claims[event[r]] # None /\ seen[r] = call[r].key
          /\ UNCHANGED <<match, event, seen, inserted>>
      BY <1>8 DEF ReuseClaim, GoTo, TypeOK
    <2>2. ~inserted[r] /\ claims[event[r]] = call[r].key
      <3>1. call[r].key # None
        BY <1>2, CallType, <2>1
      <3> QED BY <2>1, <3>1 DEF LocalInv, HoldsClaim
    <2>3. LocalInv(r)' /\ AnswerInv(r)'
      BY <1>2, <2>1, <2>2 DEF LocalInv, AnswerInv, Matched, HoldsEvent, HoldsClaim, Pays
    <2> QED BY <1>1, <2>1, <2>2, <2>3, LocalStep
  <1>9. CASE UpdateChallenge(r)
    <2>1. /\ pc[r] = "update" /\ pc'[r] = "commit"
          /\ UNCHANGED <<match, event, seen, inserted>>
      BY <1>9 DEF UpdateChallenge, GoTo, TypeOK
    <2>2. LocalInv(r)' /\ AnswerInv(r)'
      BY <1>2, <2>1 DEF LocalInv, AnswerInv, Matched, HoldsEvent, HoldsClaim, Pays
    <2> QED BY <1>1, <2>1, <2>2, LocalStep DEF HoldsClaim
  <1>10. CASE ReRead(r)
    <2>1. /\ pc[r] = "reread" /\ pc'[r] = "webhook"
          /\ \/ FindsMatch(call[r]) /\ match'[r] = rows[call[r].key]
             \/ match'[r] = match[r]
          /\ UNCHANGED <<event, seen, inserted>>
      BY <1>10 DEF ReRead, GoTo, TypeOK
    <2>2. /\ match'[r] # None
          /\ match'[r].receipt # None => claims[match'[r].receipt.event] = call[r].key
      BY <1>2, <2>1, MatchedRow DEF LocalInv, Matched
    <2>3. LocalInv(r)'
      BY <1>2, <2>1, <2>2 DEF LocalInv, Matched, HoldsEvent, HoldsClaim
    <2>4. OwnsPayment(call[r]) => OwnsPayment(call[r])'
      BY <1>2 DEF OwnsPayment
    <2>5. AnswerInv(r)'
      BY <1>2, <2>1, <2>4 DEF AnswerInv
    <2> QED BY <1>1, <2>1, <2>3, <2>5, LocalStep DEF HoldsClaim
  <1> QED
    BY <1>3, <1>4, <1>5, <1>6, <1>7, <1>8, <1>9, <1>10

\* The answer "ok" is backed by what the re-read stage has established.
LEMMA WebhookStep ==
  ASSUME IInv, TypeOK', NEW r \in Requests, Webhook(r)
  PROVE  IInv'
  <1> TypeOK /\ LocalInv(r) /\ AnswerInv(r)
    BY DEF IInv
  <1>1. OnlyLocals(r)
    BY DEF Webhook, Announce, Answer, GoTo, OnlyLocals, TypeOK, tables, outside
  <1>2. /\ pc[r] = "webhook" /\ pc'[r] = "replied" /\ reply'[r] = "ok"
        /\ call'[r] = call[r] /\ match'[r] = None /\ ~inserted'[r]
        /\ UNCHANGED <<rows, claims, events>>
    BY DEF Webhook, Announce, Answer, GoTo, TypeOK, tables, outside
  <1>3. LocalInv(r)'
    BY <1>2 DEF LocalInv, Matched, HoldsEvent, HoldsClaim
  <1>4. AnswerInv(r)'
    <2>1. OwnsPayment(call[r]) => OwnsPayment(call[r])'
      BY <1>2 DEF OwnsPayment
    <2> QED BY <1>2, <2>1 DEF AnswerInv
  <1> QED BY <1>1, <1>2, <1>3, <1>4, LocalStep DEF HoldsClaim

\* A request whose webhook is never answered keeps what it knows.
LEMMA HangStep ==
  ASSUME IInv, TypeOK', NEW r \in Requests, WebhookHangs(r)
  PROVE  IInv'
  <1> TypeOK /\ LocalInv(r)
    BY DEF IInv
  <1>1. OnlyLocals(r)
    BY DEF WebhookHangs, Fail, GoTo, OnlyLocals, TypeOK, tables
  <1>2. /\ pc[r] = "webhook" /\ pc'[r] = "hung"
        /\ UNCHANGED <<rows, claims, events, call, match, event, seen, inserted, reply>>
    BY DEF WebhookHangs, Announce, Fail, GoTo, TypeOK, tables
  <1>3. LocalInv(r)' /\ AnswerInv(r)'
    BY <1>2 DEF LocalInv, AnswerInv, Matched, HoldsEvent, HoldsClaim
  <1> QED BY <1>1, <1>2, <1>3, LocalStep DEF HoldsClaim

\* The refusals and the failures of a query.
LEMMA RefuseStep ==
  ASSUME IInv, TypeOK', NEW r \in Requests,
         \/ AssetDisabled(r) \/ WrongDecimals(r) \/ NoMatch(r) \/ AmountMalformed(r) \/ NoEvent(r)
         \/ ClaimConflict(r) \/ ClaimLookupFails(r) \/ QueryFails(r)
  PROVE  IInv'
  <1>1. CASE AssetDisabled(r)
    BY <1>1, AnswerStep DEF AssetDisabled, Refuse, Replies, tables, outside
  <1>2. CASE NoMatch(r)
    BY <1>2, AnswerStep DEF NoMatch, Refuse, Replies, tables, outside
  <1>3. CASE AmountMalformed(r)
    BY <1>3, AnswerStep DEF AmountMalformed, Refuse, Replies, tables, outside
  <1>4. CASE NoEvent(r)
    BY <1>4, AnswerStep DEF NoEvent, Refuse, Replies, tables, outside
  <1>5. CASE ClaimConflict(r)
    <2>1. /\ pc[r] = "insert" /\ claims[event[r]] # None
          /\ claims[event[r]] # call[r].key
      BY <1>5 DEF ClaimConflict, IInv, LocalInv
    <2> QED BY <1>5, <2>1, AnswerStep DEF ClaimConflict, Refuse, Replies, tables, outside
  <1>6. CASE ClaimLookupFails(r)
    BY <1>6, AnswerStep DEF ClaimLookupFails, Refuse, Replies, tables, outside
  <1>7. CASE QueryFails(r)
    <2>1. pc[r] # "idle"
      BY <1>7 DEF QueryFails, Stages
    <2> QED BY <1>7, <2>1, AnswerStep DEF QueryFails, Fail, Replies, tables
  <1>8. CASE WrongDecimals(r)
    BY <1>8, AnswerStep DEF WrongDecimals, Refuse, Replies, tables, outside
  <1> QED BY <1>1, <1>2, <1>3, <1>4, <1>5, <1>6, <1>7, <1>8

\* The steps of the server and of its environment that touch no request, and the
\* crash, which ends them all.
LEMMA OtherStep ==
  ASSUME IInv, TypeOK',
         \/ \E k \in Keys : \E t \in Offers[k] : AdmitPost(k, t) \/ BeginUpsert(k, t)
         \/ Crash
         \/ \E e \in Events : IngestEvent(e)
         \/ \E a \in PltAssets : DisableAsset(a) \/ EnableAsset(a)
         \/ UNCHANGED vars
  PROVE  IInv'
  <1> TypeOK
    BY DEF IInv
  <1>1. /\ rows' = rows /\ claims' = claims /\ events \subseteq events'
        /\ \A k \in Keys, t \in Tuples :
             <<k, t>> \in posting' => <<k, t>> \in posting \/ t \in Offers[k]
    BY DEF AdmitPost, BeginUpsert, Crash, Fail, IngestEvent, DisableAsset, EnableAsset,
           vars, tables
  <1>2. OffersInv'
    BY <1>1 DEF IInv, OffersInv
  <1>3. ReceiptBacked' /\ OneTupleIsPaid'
    BY <1>1 DEF IInv, ReceiptBacked, OneTupleIsPaid, HasReceipt
  <1>4. CASE Crash
    <2>1. \A r \in Requests : pc'[r] = "idle" /\ match'[r] = None /\ ~inserted'[r]
      BY <1>4 DEF Crash
    <2>2. \A r \in Requests : LocalInv(r)' /\ AnswerInv(r)'
      BY <2>1 DEF LocalInv, AnswerInv, Matched, HoldsEvent, HoldsClaim
    <2>3. ClaimExclusive'
      BY <2>1 DEF ClaimExclusive, HoldsClaim
    <2> QED BY <1>2, <1>3, <2>2, <2>3 DEF IInv
  <1>5. CASE ~Crash
    <2>1. UNCHANGED <<pc, call, match, event, seen, inserted, reply>>
      BY <1>5 DEF AdmitPost, BeginUpsert, IngestEvent, DisableAsset, EnableAsset, vars
    <2>2. ASSUME NEW r \in Requests PROVE LocalInv(r)' /\ AnswerInv(r)'
      <3>1. LocalInv(r) /\ AnswerInv(r)
        BY DEF IInv
      <3>2. LocalInv(r)'
        BY <1>1, <2>1, <3>1 DEF LocalInv, Pays
      <3>3. AnswerInv(r)'
        BY <1>1, <2>1, <3>1 DEF AnswerInv, OwnsPayment, RefusalBacked, Pays
      <3> QED BY <3>2, <3>3
    <2>3. ClaimExclusive'
      BY <2>1 DEF IInv, ClaimExclusive
    <2> QED BY <1>2, <1>3, <2>2, <2>3 DEF IInv
  <1> QED BY <1>4, <1>5

LEMMA IInvStep == IInv /\ [Next]_vars => IInv'
  <1> SUFFICES ASSUME IInv, [Next]_vars PROVE IInv'
    OBVIOUS
  <1>1. TypeOK'
    BY TypeStep
  <1> QED
    BY <1>1, ArriveStep, MoveStep, WebhookStep, HangStep, RefuseStep, UpsertStep, SettleStep,
       OtherStep
    DEF Next, Step

-----------------------------------------------------------------------------
(* The theorems.                                                           *)

\* IInv is an invariant, whatever the requests, posts, failures and crashes.
THEOREM Invariance == Spec => []IInv
  BY InitIInv, IInvStep, PTL DEF Spec

\* Every variable keeps its type.
THEOREM TypeCorrect == Spec => []TypeOK
  <1>1. IInv => TypeOK
    BY DEF IInv
  <1> QED BY Invariance, <1>1, PTL

\* The UPDATE and the claim of a fulfilment agree for ever: whoever reads a
\* receipt reads one that an ingested transfer of that very challenge backs.
THEOREM ReceiptsAreBacked == Spec => []ReceiptBacked
  <1>1. IInv => ReceiptBacked
    BY DEF IInv
  <1> QED BY Invariance, <1>1, PTL

\* With one tuple per nonce, a receipt is a receipt for the row that shows it.
THEOREM OneTuplePaid == Spec => []OneTupleIsPaid
  <1>1. IInv => OneTupleIsPaid
    BY DEF IInv
  <1> QED BY Invariance, <1>1, PTL

\* An "ok" to a fulfilment that needs an event means that its challenge owns a
\* transfer of the amount asked for, though rows are re-posted under it.
THEOREM OkIsPaid == Spec => []OkMeansPaid
  <1>1. IInv => OkMeansPaid
    BY DEF IInv, AnswerInv, OwnsPayment, OkMeansPaid
  <1> QED BY Invariance, <1>1, PTL

\* A refused claim is a claim that somebody holds.
THEOREM RefusalsAreReal == Spec => []RefusalIsReal
  <1>1. IInv => RefusalIsReal
    BY DEF IInv, AnswerInv, RefusalBacked, RefusalIsReal
  <1> QED BY Invariance, <1>1, PTL

\* A webhook announces no receipt of another challenge.
THEOREM WebhooksAreBacked == Spec => []WebhookIsBacked
  <1>1. IInv => WebhookIsBacked
    BY DEF IInv, LocalInv, Matched, WebhookIsBacked
  <1> QED BY Invariance, <1>1, PTL

-----------------------------------------------------------------------------
(* Transactions one after another.                                         *)

\* One fulfilment runs at a time, or the pool has one client, so that the transactions
\* of two fulfilments do not overlap.
OneTransaction ==
  (\A p, q \in Requests : p = q) \/ (IsFiniteSet(Requests) /\ PoolSize = 1)

\* The snapshot of a claim statement is not older than the claim.
SerialInv ==
  /\ \A p, q \in Requests : pc[p] \in InTransaction /\ pc[q] \in InTransaction => p = q
  /\ \A r \in Requests : /\ pc[r] = "insert" => seen[r] = claims[event[r]]
                         /\ pc[r] = "replied" => reply[r] # "claim_lookup_failed"
  /\ IsFiniteSet(upserting)

\* While a client is free, no transaction is open.
LEMMA FreeIsIdle ==
  ASSUME OneTransaction, ClientFree, IsFiniteSet(upserting), NEW r \in Requests, pc[r] \notin InTransaction
  PROVE  \A q \in Requests : pc[q] \notin InTransaction
  <1>1. CASE \A p, q \in Requests : p = q
    <2>1. ASSUME NEW q \in Requests PROVE pc[q] \notin InTransaction
      <3>1. q = r
        BY <1>1
      <3> QED BY <3>1
    <2> QED BY <2>1
  <1>2. CASE IsFiniteSet(Requests) /\ PoolSize = 1
    <2> DEFINE open == {q \in Requests : pc[q] \in InTransaction}
    <2>1. IsFiniteSet(open)
      BY <1>2, FS_Subset
    <2>2. Cardinality(open) \in Nat /\ Cardinality(upserting) \in Nat
      BY <2>1, FS_CardinalityType
    <2>5. Cardinality(open) + Cardinality(upserting) < 1
      BY <1>2 DEF ClientFree
    <2>3. Cardinality(open) = 0
      BY <2>2, <2>5
    <2>4. open = {}
      BY <2>1, <2>3, FS_EmptySet
    <2> QED BY <2>4
  <1> QED BY <1>1, <1>2 DEF OneTransaction

\* A step of one request: it enters a transaction when none is open, and commits when no
\* other request is in one.
LEMMA SerialMove ==
  ASSUME SerialInv, NEW r \in Requests,
         \A q \in Requests \ {r} : /\ pc'[q] = pc[q] /\ event'[q] = event[q]
                                  /\ seen'[q] = seen[q] /\ reply'[q] = reply[q],
         claims' = claims \/ pc[r] = "commit", upserting' = upserting,
         pc'[r] \in InTransaction
           => \/ pc[r] \in InTransaction
              \/ \A q \in Requests : pc[q] \notin InTransaction,
         pc'[r] = "insert" => claims' = claims /\ seen'[r] = claims[event'[r]],
         pc'[r] = "replied" => reply'[r] # "claim_lookup_failed"
  PROVE  SerialInv'
  <1>1. ASSUME NEW p \in Requests, NEW q \in Requests,
               pc'[p] \in InTransaction, pc'[q] \in InTransaction
        PROVE  p = q
    BY <1>1 DEF SerialInv
  <1>2. ASSUME NEW q \in Requests \ {r}, pc'[q] = "insert"
        PROVE  seen'[q] = claims'[event'[q]]
    <2>1. claims' = claims
      BY <1>2 DEF SerialInv, InTransaction
    <2> QED BY <1>2, <2>1 DEF SerialInv
  <1>3. \A q \in Requests : pc'[q] = "replied" => reply'[q] # "claim_lookup_failed"
    BY DEF SerialInv
  <1> QED BY <1>1, <1>2, <1>3 DEF SerialInv

\* What a handler does of its own keeps the transactions apart.
LEMMA SerialStep ==
  ASSUME OneTransaction, TypeOK, SerialInv, NEW r \in Requests,
         \/ \E c \in Calls : RejectCall(r, c) \/ AcceptCall(r, c)
         \/ Step(r) \/ QueryFails(r) \/ CommitAnswerLost(r) \/ WebhookHangs(r)
  PROVE  SerialInv'
  <1> USE DEF TypeOK, GoTo, tables, outside, InTransaction
  <1>1. CASE \E c \in Calls : RejectCall(r, c) \/ AcceptCall(r, c)
    <2>1. /\ pc'[r] = "registry" \/ (pc'[r] = "replied" /\ reply'[r] = "bad_request")
          /\ claims' = claims /\ event' = event /\ seen' = seen /\ upserting' = upserting
          /\ \A q \in Requests \ {r} : pc'[q] = pc[q] /\ reply'[q] = reply[q]
      BY <1>1 DEF RejectCall, AcceptCall, Arrive
    <2> QED BY <2>1, SerialMove
  <1>2. CASE \/ AssetDisabled(r) \/ WrongDecimals(r) \/ NoMatch(r) \/ AmountMalformed(r)
             \/ NoEvent(r) \/ ClaimConflict(r)
    BY <1>2, SerialMove
       DEF AssetDisabled, WrongDecimals, NoMatch, AmountMalformed, NoEvent, ClaimConflict,
           Refuse, Answer
  <1>3. CASE ClaimLookupFails(r)
    BY <1>3 DEF ClaimLookupFails, SerialInv
  <1>4. CASE AssetPasses(r) \/ Match(r) \/ FindEvent(r) \/ ReRead(r)
    <2>1. /\ claims' = claims /\ seen' = seen /\ reply' = reply /\ upserting' = upserting
          /\ pc'[r] \notin InTransaction \cup {"replied"}
          /\ \A q \in Requests \ {r} : pc'[q] = pc[q] /\ event'[q] = event[q]
      BY <1>4 DEF AssetPasses, Match, FindEvent, ReRead
    <2> QED BY <2>1, SerialMove
  <1>5. CASE BeginClaim(r)
    <2>1. \A q \in Requests : pc[q] \notin InTransaction
      BY <1>5, FreeIsIdle DEF BeginClaim, SerialInv
    <2>2. /\ claims' = claims /\ event' = event /\ reply' = reply
          /\ upserting' = upserting
          /\ seen'[r] = claims[event[r]]
          /\ \A q \in Requests \ {r} : pc'[q] = pc[q] /\ seen'[q] = seen[q]
      BY <1>5 DEF BeginClaim
    <2>3. pc'[r] = "insert"
      BY <1>5 DEF BeginClaim
    <2> QED BY <2>1, <2>2, <2>3, SerialMove
  <1>6. CASE InsertClaim(r) \/ ReuseClaim(r) \/ UpdateChallenge(r)
    <2>1. /\ claims' = claims /\ event' = event /\ seen' = seen /\ reply' = reply
          /\ upserting' = upserting
          /\ pc[r] \in InTransaction /\ pc'[r] \in {"update", "commit"}
          /\ \A q \in Requests \ {r} : pc'[q] = pc[q]
      BY <1>6 DEF InsertClaim, ReuseClaim, UpdateChallenge
    <2> QED BY <2>1, SerialMove
  <1>7. CASE Commit(r)
    <2>1. /\ event' = event /\ seen' = seen /\ reply' = reply /\ upserting' = upserting
          /\ pc[r] = "commit" /\ pc'[r] = "reread"
          /\ \A q \in Requests \ {r} : pc'[q] = pc[q]
      BY <1>7 DEF Commit
    <2> QED BY <2>1, SerialMove
  <1>8. CASE Webhook(r) \/ QueryFails(r) \/ CommitAnswerLost(r)
    <2>1. /\ claims' = claims \/ pc[r] = "commit"
          /\ upserting' = upserting
          /\ Answer(r, "ok") \/ Answer(r, "internal_error")
      BY <1>8 DEF Webhook, QueryFails, CommitAnswerLost
    <2>2. /\ pc'[r] = "replied" /\ reply'[r] \in {"ok", "internal_error"}
          /\ \A q \in Requests \ {r} : /\ pc'[q] = pc[q] /\ event'[q] = event[q]
                                       /\ seen'[q] = seen[q] /\ reply'[q] = reply[q]
      BY <2>1 DEF Answer
    <2> QED BY <2>1, <2>2, SerialMove
  <1>9. CASE WebhookHangs(r)
    <2>1. /\ claims' = claims /\ event' = event /\ seen' = seen /\ reply' = reply
          /\ upserting' = upserting /\ pc'[r] = "hung"
          /\ \A q \in Requests \ {r} : pc'[q] = pc[q]
      BY <1>9 DEF WebhookHangs
    <2> QED BY <2>1, SerialMove
  <1> QED BY <1>1, <1>2, <1>3, <1>4, <1>5, <1>6, <1>7, <1>8, <1>9 DEF Step

\* The exact extent of claim_lookup_failed: if no two fulfilments are in a transaction at
\* once, the owner's own claim is always found again.
THEOREM OwnClaimSucceedsAlone ==
  ASSUME OneTransaction
  PROVE  Spec => []OwnClaimSucceeds
  <1>1. Init => SerialInv
    BY FS_EmptySet DEF Init, SerialInv, InTransaction
  <1>2. TypeOK /\ SerialInv /\ [Next]_vars => SerialInv'
    <2> SUFFICES ASSUME TypeOK, SerialInv, [Next]_vars PROVE SerialInv'
      OBVIOUS
    <2>1. CASE \/ \E k \in Keys : \E t \in Offers[k] :
                    AdmitPost(k, t) \/ BeginUpsert(k, t) \/ UpsertPost(k, t)
               \/ \E e \in Events : IngestEvent(e)
               \/ \E a \in PltAssets : DisableAsset(a) \/ EnableAsset(a)
               \/ UNCHANGED vars
      <3>1. UNCHANGED <<claims, pc, event, seen, reply>>
        BY <2>1 DEF AdmitPost, BeginUpsert, UpsertPost, IngestEvent, DisableAsset,
                    EnableAsset, tables, vars
      <3>2. \/ upserting' = upserting
            \/ \E p \in Keys \X Tuples : upserting' \in {upserting \cup {p}, upserting \ {p}}
        BY <2>1, CallsAssumption
           DEF AdmitPost, BeginUpsert, UpsertPost, IngestEvent, DisableAsset, EnableAsset, vars
      <3>3. IsFiniteSet(upserting)'
        BY <3>2, FS_AddElement, FS_RemoveElement DEF SerialInv
      <3> QED BY <3>1, <3>3 DEF SerialInv
    <2>2. CASE Crash
      BY <2>2, FS_EmptySet DEF Crash, SerialInv, InTransaction
    <2> QED BY <2>1, <2>2, SerialStep DEF Next
  <1>3. SerialInv => OwnClaimSucceeds
    BY DEF SerialInv, OwnClaimSucceeds
  <1> QED BY <1>1, <1>2, <1>3, TypeCorrect, PTL DEF Spec

-----------------------------------------------------------------------------
(* The refinement of EventClaims.                                          *)

\* A commit of r settles r's challenge by r's event in the sense of EventClaims.
LEMMA SettleRefines ==
  ASSUME IInv, NEW r \in Requests, Commit(r) \/ CommitAnswerLost(r)
  PROVE  \E k \in Keys, e \in Events : Promise!Settle(k, e)
  <1> TypeOK
    BY DEF IInv
  <1>1. pc[r] = "commit" /\ Settle(r)
    BY DEF Commit, CommitAnswerLost
  <1>2. /\ call[r].key \in Keys /\ call[r].tuple \in Tuples
        /\ rows[call[r].key] \in Rows
        /\ event[r] \in Events
        /\ claims[event[r]] \in {None, call[r].key}
    BY <1>1, CallType DEF IInv, LocalInv, Matched, HoldsEvent, HoldsClaim, TypeOK
  <1>3. PICK k \in Keys, e \in Events, t \in Tuples :
          k = call[r].key /\ e = event[r] /\ t = call[r].tuple
    BY <1>2
  <1> DEFINE receipt == [event |-> e, payment |-> t]
             paid == [rows[k] EXCEPT !.status = "fulfilled", !.receipt = receipt]
  <1>4. receipt \in Receipts /\ receipt # None /\ receipt.event = e
    BY <1>3, NoneAssumption DEF Receipts
  <1>5. paid \in Rows /\ paid # None /\ paid.receipt = receipt
    BY <1>2, <1>3, <1>4, NoneAssumption DEF Rows
  <1>6. rows'[k] = paid /\ \A j \in Keys \ {k} : rows'[j] = rows[j]
    BY <1>1, <1>2, <1>3 DEF Settle, TypeOK
  <1>7. claims[e] \in {None, k} /\ claims' = [claims EXCEPT ![e] = k]
    BY <1>1, <1>2, <1>3 DEF Settle
  <1> HIDE DEF receipt, paid
  <1>8. HasReceipt(k)' /\ rows'[k].receipt.event = e
    BY <1>4, <1>5, <1>6 DEF HasReceipt
  <1>9. \A j \in Keys \ {k} : /\ HasReceipt(j)' <=> HasReceipt(j)
                              /\ rows'[j].receipt.event = rows[j].receipt.event
    BY <1>6 DEF HasReceipt
  <1>10. Promise!Settle(k, e)
    BY <1>7, <1>8, <1>9 DEF Promise!Settle
  <1> QED BY <1>10

\* An upsert resets the challenge in the sense of EventClaims.
LEMMA UpsertRefines ==
  ASSUME IInv, NEW k \in Keys, NEW t \in Offers[k], UpsertPost(k, t)
  PROVE  Promise!Reset(k)
  <1>1. /\ claims' = claims
        /\ rows'[k].receipt = None
        /\ \A j \in Keys \ {k} : rows'[j] = rows[j]
    BY DEF UpsertPost, IInv, TypeOK
  <1>2. ~HasReceipt(k)'
    BY <1>1 DEF HasReceipt
  <1>3. \A j \in Keys \ {k} : /\ HasReceipt(j)' <=> HasReceipt(j)
                              /\ rows'[j].receipt.event = rows[j].receipt.event
    BY <1>1 DEF HasReceipt
  <1> QED BY <1>1, <1>2, <1>3 DEF Promise!Reset

\* Every other step leaves claims and receipts alone.
LEMMA OthersStutter ==
  ASSUME [Next]_vars,
         ~\E r \in Requests : Commit(r) \/ CommitAnswerLost(r),
         ~\E k \in Keys : \E t \in Offers[k] : UpsertPost(k, t)
  PROVE  UNCHANGED tables
  BY DEF Next, Step, AdmitPost, BeginUpsert, RejectCall, AcceptCall, Arrive, AssetDisabled,
         WrongDecimals, AssetPasses, NoMatch, Match, AmountMalformed, NoEvent, FindEvent, BeginClaim,
         InsertClaim, ReuseClaim, ClaimConflict, ClaimLookupFails, UpdateChallenge,
         ReRead, Webhook, WebhookHangs, QueryFails, Crash, IngestEvent, DisableAsset,
         EnableAsset, Refuse, Fail, tables, vars

\* A commit claims a transfer that pays what was offered under the challenge's nonce; no
\* other step claims anything.
LEMMA ClaimStep == IInv /\ ClaimIsPayment /\ [Next]_vars => ClaimIsPayment'
  <1> SUFFICES ASSUME IInv, ClaimIsPayment, [Next]_vars PROVE ClaimIsPayment'
    OBVIOUS
  <1> TypeOK
    BY DEF IInv
  <1>1. events \subseteq events'
    BY DEF Next, Step, AdmitPost, BeginUpsert, UpsertPost, RejectCall, AcceptCall, Arrive, AssetDisabled,
           WrongDecimals, AssetPasses, NoMatch, Match, AmountMalformed, NoEvent, FindEvent,
           BeginClaim, InsertClaim, ReuseClaim, ClaimConflict, ClaimLookupFails,
           UpdateChallenge, Commit, CommitAnswerLost, ReRead, Webhook, WebhookHangs, QueryFails, Crash,
           IngestEvent, DisableAsset, EnableAsset, Refuse, Fail, outside, vars
  <1>2. ASSUME NEW r \in Requests, Commit(r) \/ CommitAnswerLost(r)
        PROVE  ClaimIsPayment'
    <2>1. pc[r] = "commit" /\ Settle(r) /\ events' = events
      BY <1>2 DEF Commit, CommitAnswerLost, Fail, outside
    <2>2. /\ event[r] \in events /\ Pays(event[r], call[r].tuple)
          /\ call[r].tuple \in Offers[call[r].key]
      BY <2>1 DEF IInv, LocalInv, HoldsEvent, Matched
    <2>3. /\ claims'[event[r]] = call[r].key
          /\ \A e \in Events \ {event[r]} : claims'[e] = claims[e]
      BY <2>1, SettleTables
    <2> QED BY <2>1, <2>2, <2>3 DEF ClaimIsPayment, Pays
  <1>3. ASSUME NEW k \in Keys, NEW t \in Offers[k], UpsertPost(k, t)
        PROVE  ClaimIsPayment'
    BY <1>1, <1>3 DEF UpsertPost, ClaimIsPayment, Pays
  <1>4. CASE UNCHANGED tables
    BY <1>1, <1>4 DEF tables, ClaimIsPayment, Pays
  <1> QED BY <1>2, <1>3, <1>4, OthersStutter

\* Whatever is spent on a challenge was paid for it, whichever posts and fulfilments were
\* under way, and whether their answers arrived or not.
THEOREM ClaimsArePayments == Spec => []ClaimIsPayment
  <1>1. Init => ClaimIsPayment
    BY DEF Init, ClaimIsPayment
  <1> QED BY Invariance, <1>1, ClaimStep, PTL DEF Spec

\* A transfer once spent stays spent on the same challenge, for ever ("can only be used once
\* across all challenges", says claimPltEvent): neither a re-post, a rollback, a crash nor
\* an overlapping fulfilment frees it or hands it on.
THEOREM OwnersStay ==
  Spec => [][\A e \in Events : claims[e] # None => claims'[e] = claims[e]]_claims
  <1> DEFINE Kept == \A e \in Events : claims[e] # None => claims'[e] = claims[e]
  <1>1. IInv /\ [Next]_vars => [Kept]_claims
    <2> SUFFICES ASSUME IInv, [Next]_vars PROVE Kept \/ UNCHANGED claims
      OBVIOUS
    <2>1. ASSUME NEW r \in Requests, Commit(r) \/ CommitAnswerLost(r)
          PROVE  Kept
      <3>1. pc[r] = "commit" /\ Settle(r) /\ events' = events
        BY <2>1 DEF Commit, CommitAnswerLost, Fail, outside
      <3> QED BY <3>1, SettleTables
    <2>2. ASSUME NEW k \in Keys, NEW t \in Offers[k], UpsertPost(k, t)
          PROVE  UNCHANGED claims
      BY <2>2 DEF UpsertPost
    <2>3. CASE UNCHANGED tables
      BY <2>3 DEF tables
    <2> QED BY <2>1, <2>2, <2>3, OthersStutter
  <1> QED BY Invariance, <1>1, PTL DEF Spec

\* The payment API implements EventClaims: an event is spent once, on one
\* challenge, together with the receipt of that challenge, and never given back.
THEOREM Refinement == Spec => ImplementsEventClaims
  <1>1. Init => Promise!Init
    BY DEF Init, Promise!Init, HasReceipt
  <1>2. IInv /\ [Next]_vars => [Promise!Next]_(Promise!vars)
    <2> SUFFICES ASSUME IInv, [Next]_vars PROVE [Promise!Next]_(Promise!vars)
      OBVIOUS
    <2>1. ASSUME NEW r \in Requests, Commit(r) \/ CommitAnswerLost(r)
          PROVE  Promise!Next
      BY <2>1, SettleRefines DEF Promise!Next
    <2>2. ASSUME NEW k \in Keys, NEW t \in Offers[k], UpsertPost(k, t)
          PROVE  Promise!Next
      BY <2>2, UpsertRefines DEF Promise!Next
    <2>3. CASE UNCHANGED tables
      BY <2>3 DEF Promise!vars, tables, HasReceipt
    <2> QED BY <2>1, <2>2, <2>3, OthersStutter
  <1> QED BY Invariance, <1>1, <1>2, PTL DEF Spec, ImplementsEventClaims, Promise!Spec
=============================================================================
