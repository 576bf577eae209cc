---------------------------- MODULE CrpPayments ----------------------------
(***************************************************************************)
(* The payment API of the facilitator (routes/crp.payments.ts): gateways   *)
(* post challenges (POST /v1/crp/payments) and ask for their fulfilment    *)
(* (POST /v1/crp/payments/fulfill).  A fulfilment is a sequence of awaits: *)
(* registry look-up, exact match, event look-up, and one READ COMMITTED    *)
(* transaction that claims the chain event and writes the receipt, then a  *)
(* second read and a webhook.  Every await is an action here, so all       *)
(* interleavings of concurrent requests, posts, ingestion by the stream    *)
(* worker, failing queries and crashes of the server are behaviours.       *)
(***************************************************************************)
EXTENDS Naturals, FiniteSets

CONSTANTS
  Keys,         \* challenge keys, [merchant, nonce]
  Tuples,       \* "gold tuples", [asset, payTo, amount]
  PltAssets,    \* the assets of type PLT
  Listing,      \* Listing[a]: what searchPayments filters of an asset, its token
                \* (and its network, if that has one name only)
  MinorUnits,   \* amount -> minor units; None where toMinorUnits throws
  Events,       \* PLT transfers of the chain, [tx, index, asset, to, raw]
  Misdecimals,  \* the tuples whose decimals contradict their registry row
  Offers,       \* Offers[k]: the tuples the gateway posts for the key k
  Calls,        \* fulfil bodies, [key, tuple, tx, requireEvent]
  Requests,     \* slots for concurrent fulfil requests
  SearchLimit,  \* rows searchPayments returns at most (100 in the code)
  PoolSize,     \* clients of the pg pool (10 by default)
  MaxPosts,     \* bound: POST /payments requests in a behaviour
  MaxFailures,  \* bound: failed queries, crashes and lost webhooks
  None

\* What a receipt signs: the transfer and, as paymentEvent, the tuple of the body.
Receipts == [event : Events, payment : Tuples]

Rows == [tuple : Tuples, status : {"pending", "fulfilled"},
         receipt : Receipts \cup {None}, createdAt : Nat]

ASSUME CallsAssumption ==
  /\ Calls \subseteq [key : Keys, tuple : Tuples,
                      tx : {e.tx : e \in Events} \cup {None},
                      requireEvent : BOOLEAN]
  /\ \A t \in Misdecimals : t.asset \in PltAssets
  /\ Offers \in [Keys -> SUBSET Tuples]

ASSUME EventsAssumption ==
  \A e \in Events : /\ e.index \in Nat
                    /\ e.raw # None

ASSUME BoundsAssumption ==
  /\ IsFiniteSet(Keys)
  /\ SearchLimit \in Nat \ {0}
  /\ PoolSize \in Nat \ {0}
  /\ MaxPosts \in Nat
  /\ MaxFailures \in Nat

ASSUME NoneAssumption ==
  None \notin Keys \cup Events \cup Receipts \cup Rows \cup Calls

VARIABLES
  rows,      \* public.challenges, committed: rows[k] or None
  claims,    \* public.crp_plt_event_claims, committed: the owner of e or None
  events,    \* public.crp_plt_events: the transfers ingested so far
  disabled,  \* the assets whose row in crp_plt_assets has enabled = false
  posting,   \* POST /payments requests past their registry check
  upserting, \* ... those of them that hold a client for their upsert
  pc,        \* where each fulfil request stands
  call,      \* its body
  match,     \* the row it found: `match`, later `paymentToSend`
  event,     \* the event it found: `pltEvent`
  seen,      \* the claim visible to the snapshot of its claim statement
  inserted,  \* whether its open transaction inserted the claim
  reply,     \* the reason it answered with
  notified,  \* challenges for which a webhook with a receipt was attempted
  posts, failures  \* counters for the bounds

tables == <<rows, claims>>
outside == <<events, disabled, posting, upserting, posts, failures>>
vars == <<rows, claims, events, disabled, posting, upserting, pc, call, match, event,
          seen, inserted, reply, notified, posts, failures>>

Replies == {"bad_request", "asset_disabled", "no_match", "no_event",
            "event_claimed", "claim_lookup_failed", "internal_error", "ok"}

\* The awaits of a fulfil request, in the order the handler reaches them.
Stages == {"registry", "match", "event", "begin", "insert", "update",
           "commit", "reread", "webhook"}

\* The stages at which the request holds a client of the pool in a transaction.
InTransaction == {"insert", "update", "commit"}

TypeOK ==
  /\ rows \in [Keys -> Rows \cup {None}]
  /\ claims \in [Events -> Keys \cup {None}]
  /\ events \subseteq Events
  /\ disabled \subseteq PltAssets
  /\ upserting \subseteq posting /\ posting \subseteq Keys \X Tuples
  /\ pc \in [Requests -> Stages \cup {"idle", "replied", "hung"}]
  /\ call \in [Requests -> Calls \cup {None}]
  /\ match \in [Requests -> Rows \cup {None}]
  /\ event \in [Requests -> Events \cup {None}]
  /\ seen \in [Requests -> Keys \cup {None}]
  /\ inserted \in [Requests -> BOOLEAN]
  /\ reply \in [Requests -> Replies \cup {None}]
  /\ notified \subseteq Keys
  /\ posts \in Nat
  /\ failures \in Nat

Init ==
  /\ rows = [k \in Keys |-> None]
  /\ claims = [e \in Events |-> None]
  /\ events = {}
  /\ disabled = {}
  /\ posting = {}
  /\ upserting = {}
  /\ pc = [r \in Requests |-> "idle"]
  /\ call = [r \in Requests |-> None]
  /\ match = [r \in Requests |-> None]
  /\ event = [r \in Requests |-> None]
  /\ seen = [r \in Requests |-> None]
  /\ inserted = [r \in Requests |-> FALSE]
  /\ reply = [r \in Requests |-> None]
  /\ notified = {}
  /\ posts = 0
  /\ failures = 0

-----------------------------------------------------------------------------
(* Look-ups.                                                               *)

IsPlt(t) == t.asset \in PltAssets

\* The filters of searchPayments: merchant, token and payTo.  Type, decimals and, where
\* it has two names, the network of the asset are compared after the LIMIT only.
SameSearch(j, k) ==
  /\ j.merchant = k.merchant
  /\ Listing[rows[j].tuple.asset] = Listing[rows[k].tuple.asset]
  /\ rows[j].tuple.payTo = rows[k].tuple.payTo

\* ORDER BY created_at DESC LIMIT: fewer than SearchLimit newer rows.
InSearchWindow(k) ==
  Cardinality({j \in Keys : /\ rows[j] # None
                            /\ SameSearch(j, k)
                            /\ rows[j].createdAt > rows[k].createdAt})
    < SearchLimit

\* Mutation: the tuple of the row is not compared.
FindsNonce(c) == rows[c.key] # None /\ InSearchWindow(c.key)

\* findExactMatch finds the row of the body's key with the body's tuple.
FindsMatch(c) ==
  /\ rows[c.key] # None
  /\ rows[c.key].tuple = c.tuple
  /\ InSearchWindow(c.key)

\* Mutation: the amount of the transfer is not compared.
PaymentsOfAnyAmount(c) ==
  {e \in events : e.tx = c.tx /\ e.asset = c.tuple.asset /\ e.to = c.tuple.payTo}

\* The transfers of the transaction c.tx that pay exactly the tuple.
Payments(c) ==
  {e \in events : /\ e.tx = c.tx
                  /\ e.asset = c.tuple.asset
                  /\ e.to = c.tuple.payTo
                  /\ e.raw = MinorUnits[c.tuple.amount]}

\* A client of the pool is free: transactions and upserts hold theirs while they wait.
ClientFree ==
  Cardinality({r \in Requests : pc[r] \in InTransaction}) + Cardinality(upserting)
    < PoolSize

\* normalizeAssetWithRegistry queries the registry for PLT only.
RegistryRead(t) == IsPlt(t) => ClientFree

\* Mutation: the row is locked (FOR SHARE) before the event is claimed.
EarlyRowHolders(k) == {r \in Requests : pc[r] \in InTransaction /\ call[r].key = k}

\* The requests whose open transaction has updated, and so locked, the row of k.
RowHolders(k) == {r \in Requests : pc[r] = "commit" /\ call[r].key = k}

\* An open transaction has inserted a claim of e.
ClaimInFlight(e) ==
  \E r \in Requests : /\ pc[r] \in {"update", "commit"}
                      /\ event[r] = e
                      /\ inserted[r]

-----------------------------------------------------------------------------
(* POST /v1/crp/payments.                                                  *)

\* The body is valid and normalizeAssetWithRegistry lets the asset pass.
AdmitPost(k, t) ==
  /\ posts < MaxPosts
  /\ <<k, t>> \notin posting
  /\ RegistryRead(t)
  /\ t.asset \notin disabled /\ t \notin Misdecimals
  /\ posting' = posting \cup {<<k, t>>}
  /\ posts' = posts + 1
  /\ UNCHANGED <<tables, events, disabled, upserting, pc, call, match, event, seen,
                 inserted, reply, notified, failures>>

\* pool.query takes a client for the upsert ...
BeginUpsert(k, t) ==
  /\ <<k, t>> \in posting \ upserting
  /\ ClientFree
  /\ upserting' = upserting \cup {<<k, t>>}
  /\ UNCHANGED <<tables, events, disabled, posting, pc, call, match, event, seen,
                 inserted, reply, notified, posts, failures>>

\* ... which waits for the lock on the row.  The row becomes pending and loses its
\* receipt, whatever its status was; only created_at survives.
UpsertPost(k, t) ==
  /\ <<k, t>> \in upserting
  /\ RowHolders(k) = {}
  /\ upserting' = upserting \ {<<k, t>>}
  /\ posting' = posting \ {<<k, t>>}
  /\ rows' = [rows EXCEPT ![k] =
       [tuple |-> t, status |-> "pending", receipt |-> None,
        createdAt |-> IF rows[k] = None
                        THEN Cardinality({j \in Keys : rows[j] # None})
                        ELSE rows[k].createdAt]]
  /\ UNCHANGED <<claims, events, disabled, pc, call, match, event, seen,
                 inserted, reply, notified, posts, failures>>

-----------------------------------------------------------------------------
(* POST /v1/crp/payments/fulfill, one await after another.                 *)

GoTo(r, stage) == pc' = [pc EXCEPT ![r] = stage]

\* The handler returns: its locals are gone, the answer is out.
Answer(r, reason) ==
  /\ GoTo(r, "replied")
  /\ reply' = [reply EXCEPT ![r] = reason]
  /\ match' = [match EXCEPT ![r] = None]
  /\ event' = [event EXCEPT ![r] = None]
  /\ seen' = [seen EXCEPT ![r] = None]
  /\ inserted' = [inserted EXCEPT ![r] = FALSE]
  /\ UNCHANGED call

Refuse(r, reason) ==
  /\ Answer(r, reason)
  /\ UNCHANGED <<tables, outside, notified>>

Arrive(r, c) ==
  /\ pc[r] \in {"idle", "replied"}
  /\ call' = [call EXCEPT ![r] = c]
  /\ UNCHANGED <<tables, outside, match, event, seen, inserted, notified>>

NeedsTx(c) == c.requireEvent /\ IsPlt(c.tuple)

\* txHash is required for PLT when requireEvent holds.
RejectCall(r, c) ==
  /\ NeedsTx(c) /\ c.tx = None
  /\ Arrive(r, c)
  /\ GoTo(r, "replied")
  /\ reply' = [reply EXCEPT ![r] = "bad_request"]

AcceptCall(r, c) ==
  /\ ~(NeedsTx(c) /\ c.tx = None)
  /\ Arrive(r, c)
  /\ GoTo(r, "registry")
  /\ reply' = [reply EXCEPT ![r] = None]

\* normalizeAssetWithRegistry: a disabled PLT is refused, and so is one with the
\* wrong decimals; an enabled one, one without a registry row, and an asset of
\* another type pass.
AssetDisabled(r) ==
  /\ pc[r] = "registry" /\ RegistryRead(call[r].tuple)
  /\ call[r].tuple.asset \in disabled
  /\ Refuse(r, "asset_disabled")

WrongDecimals(r) ==
  /\ pc[r] = "registry" /\ RegistryRead(call[r].tuple)
  /\ call[r].tuple.asset \notin disabled /\ call[r].tuple \in Misdecimals
  /\ Refuse(r, "bad_request")

AssetPasses(r) ==
  /\ pc[r] = "registry" /\ RegistryRead(call[r].tuple)
  /\ call[r].tuple.asset \notin disabled /\ call[r].tuple \notin Misdecimals
  /\ GoTo(r, "match")
  /\ UNCHANGED <<tables, outside, call, match, event, seen, inserted, reply,
                 notified>>

\* findExactMatch, over what is committed now.
NoMatch(r) ==
  /\ pc[r] = "match" /\ ClientFree
  /\ ~FindsMatch(call[r])
  /\ Refuse(r, "no_match")

\* Mutation: a repeated fulfilment is answered without a webhook.
MatchAnswersAtOnce(r) ==
  /\ pc[r] = "match" /\ ClientFree
  /\ FindsMatch(call[r])
  /\ LET row == rows[call[r].key] IN
     IF row.status = "fulfilled" /\ row.receipt # None
       THEN Answer(r, "ok")
       ELSE /\ match' = [match EXCEPT ![r] = row]
            /\ GoTo(r, IF NeedsTx(call[r]) THEN "event" ELSE "reread")
            /\ UNCHANGED <<call, event, seen, inserted, reply>>
  /\ UNCHANGED <<tables, outside, notified>>

\* Mutation: a pending row is fulfilled without an event.
MatchSkipsEvent(r) ==
  /\ pc[r] = "match" /\ ClientFree
  /\ FindsMatch(call[r])
  /\ match' = [match EXCEPT ![r] = rows[call[r].key]]
  /\ GoTo(r, "reread")
  /\ UNCHANGED <<tables, outside, call, event, seen, inserted, reply, notified>>

\* A row that is already fulfilled goes straight to the webhook; a pending one
\* needs an event, unless requireEvent is off or the asset is not a PLT.
Match(r) ==
  /\ pc[r] = "match" /\ ClientFree
  /\ FindsMatch(call[r])
  /\ match' = [match EXCEPT ![r] = rows[call[r].key]]
  /\ LET row == rows[call[r].key] IN
     GoTo(r, IF row.status = "fulfilled" /\ row.receipt # None THEN "webhook"
             ELSE IF NeedsTx(call[r]) THEN "event"
             ELSE "reread")
  /\ UNCHANGED <<tables, outside, call, event, seen, inserted, reply, notified>>

\* toMinorUnits throws.
AmountMalformed(r) ==
  /\ pc[r] = "event"
  /\ MinorUnits[call[r].tuple.amount] = None
  /\ Refuse(r, "bad_request")

NoEvent(r) ==
  /\ pc[r] = "event" /\ ClientFree
  /\ MinorUnits[call[r].tuple.amount] # None
  /\ Payments(call[r]) = {}
  /\ Refuse(r, "no_event")

\* findPltEventByTx takes the lowest event_index; the proof is then signed.
FindEvent(r) ==
  /\ pc[r] = "event" /\ ClientFree
  /\ MinorUnits[call[r].tuple.amount] # None
  /\ \E e \in Payments(call[r]) :
       /\ \A f \in Payments(call[r]) : e.index <= f.index
       /\ event' = [event EXCEPT ![r] = e]
  /\ GoTo(r, "begin")
  /\ UNCHANGED <<tables, outside, call, match, seen, inserted, reply, notified>>

\* pool.connect, BEGIN, and the snapshot of the claim statement: its SELECT
\* will see the claims committed now, not those committed while it waits.
BeginClaim(r) ==
  /\ pc[r] = "begin" /\ ClientFree
  /\ seen' = [seen EXCEPT ![r] = claims[event[r]]]
  /\ GoTo(r, "insert")
  /\ UNCHANGED <<tables, outside, call, match, event, inserted, reply, notified>>

\* Mutation: ON CONFLICT DO UPDATE.
InsertClaimAnyway(r) ==
  /\ pc[r] = "insert" /\ ~ClaimInFlight(event[r])
  /\ inserted' = [inserted EXCEPT ![r] = TRUE]
  /\ GoTo(r, "update")
  /\ UNCHANGED <<tables, outside, call, match, event, seen, reply, notified>>

\* INSERT ... ON CONFLICT DO NOTHING: waits for an open transaction that has
\* inserted the same claim, and inserts if no committed claim is left.
InsertClaim(r) ==
  /\ pc[r] = "insert" /\ ~ClaimInFlight(event[r])
  /\ claims[event[r]] = None
  /\ inserted' = [inserted EXCEPT ![r] = TRUE]
  /\ GoTo(r, "update")
  /\ UNCHANGED <<tables, outside, call, match, event, seen, reply, notified>>

\* Mutation: the claim is not idempotent.
ReuseRefused(r) ==
  /\ pc[r] = "insert" /\ ~ClaimInFlight(event[r])
  /\ claims[event[r]] # None
  /\ seen[r] = call[r].key
  /\ Refuse(r, "event_claimed")

\* Nothing inserted; the SELECT finds the challenge's own earlier claim.
ReuseClaim(r) ==
  /\ pc[r] = "insert" /\ ~ClaimInFlight(event[r])
  /\ claims[event[r]] # None
  /\ seen[r] = call[r].key
  /\ GoTo(r, "update")
  /\ UNCHANGED <<tables, outside, call, match, event, seen, inserted, reply,
                 notified>>

\* Mutation: the owner of the claim is not compared.
ClaimConflictAnyOwner(r) ==
  /\ pc[r] = "insert" /\ ~ClaimInFlight(event[r])
  /\ claims[event[r]] # None
  /\ seen[r] # None
  /\ Refuse(r, "event_claimed")

\* ... or another challenge's: ROLLBACK, 409.
ClaimConflict(r) ==
  /\ pc[r] = "insert" /\ ~ClaimInFlight(event[r])
  /\ claims[event[r]] # None
  /\ seen[r] \notin {None, call[r].key}
  /\ Refuse(r, "event_claimed")

\* Mutation: the look-up is repeated on the same snapshot.
ClaimLookupRepeats(r) ==
  /\ pc[r] = "insert" /\ ~ClaimInFlight(event[r])
  /\ claims[event[r]] # None
  /\ seen[r] = None
  /\ UNCHANGED vars

\* ... or nothing, because the claim was committed after the snapshot:
\* ROLLBACK, 500 claim_lookup_failed.
ClaimLookupFails(r) ==
  /\ pc[r] = "insert" /\ ~ClaimInFlight(event[r])
  /\ claims[event[r]] # None
  /\ seen[r] = None
  /\ Refuse(r, "claim_lookup_failed")

\* UPDATE challenges ... WHERE merchant_id AND nonce: waits for the row lock and
\* takes it.  Neither the tuple nor the status of the row is compared again; the
\* row is there, for rows are never deleted.
UpdateChallenge(r) ==
  /\ pc[r] = "update" /\ RowHolders(call[r].key) \subseteq {r}
  /\ GoTo(r, "commit")
  /\ UNCHANGED <<tables, outside, call, match, event, seen, inserted, reply,
                 notified>>

\* Mutation: the receipt signs no payment.
SettleUnsigned(r) ==
  /\ claims' = [claims EXCEPT ![event[r]] = call[r].key]
  /\ rows' = [rows EXCEPT ![call[r].key] =
       [@ EXCEPT !.status = "fulfilled", !.receipt = [event |-> event[r]]]]

\* What COMMIT makes visible: the claim and the receipt, together.
Settle(r) ==
  /\ claims' = [claims EXCEPT ![event[r]] = call[r].key]
  /\ rows' = [rows EXCEPT ![call[r].key] =
       [@ EXCEPT !.status = "fulfilled",
                 !.receipt = [event |-> event[r], payment |-> call[r].tuple]]]

Commit(r) ==
  /\ pc[r] = "commit"
  /\ Settle(r)
  /\ GoTo(r, "reread")
  /\ UNCHANGED <<outside, call, match, event, seen, inserted, reply, notified>>

\* findExactMatch again; `updated ?? match` keeps the old row when it finds none.
ReRead(r) ==
  /\ pc[r] = "reread" /\ ClientFree
  /\ match' = IF FindsMatch(call[r])
                THEN [match EXCEPT ![r] = rows[call[r].key]]
                ELSE match
  /\ GoTo(r, "webhook")
  /\ UNCHANGED <<tables, outside, call, event, seen, inserted, reply, notified>>

\* The merchant is sent the row; it counts if the row has a receipt.
Announce(r) ==
  /\ pc[r] = "webhook"
  /\ notified' = IF match[r].receipt = None THEN notified
                                            ELSE notified \cup {call[r].key}

\* postPaymentWebhook, then the answer; a webhook that is refused, fails or times out
\* is reported in the answer and never sent again.
Webhook(r) ==
  /\ Announce(r)
  /\ Answer(r, "ok")
  /\ UNCHANGED <<tables, outside>>

-----------------------------------------------------------------------------
(* Failures.                                                               *)

Fail ==
  /\ failures < MaxFailures
  /\ failures' = failures + 1
  /\ UNCHANGED <<events, disabled, posts>>

\* A query fails: an open transaction is rolled back and the answer is a 500.
\* (After COMMIT only the second read can fail: no webhook is sent.)
QueryFails(r) ==
  /\ Fail
  /\ pc[r] \in Stages \ {"webhook"}
  /\ pc[r] = "registry" => IsPlt(call[r].tuple)
  /\ Answer(r, "internal_error")
  /\ UNCHANGED <<tables, posting, upserting, notified>>

\* The connection is lost after the server has committed: the catch block's
\* ROLLBACK changes nothing, and the gateway is told that the fulfilment failed.
CommitAnswerLost(r) ==
  /\ Fail
  /\ pc[r] = "commit"
  /\ Settle(r)
  /\ Answer(r, "internal_error")
  /\ UNCHANGED <<posting, upserting, notified>>

\* The merchant's answer to the webhook breaks off after its headers: the response emits
\* no "end" (its "aborted" and "error" have no listener, and a closed socket no longer
\* times out), so that the promise is never settled and the handler never answers.
WebhookHangs(r) ==
  /\ Fail
  /\ Announce(r)
  /\ GoTo(r, "hung")
  /\ UNCHANGED <<tables, posting, upserting, call, match, event, seen, inserted, reply>>

\* The server process dies: every request is gone, the database rolls open
\* transactions back.
Crash ==
  /\ Fail
  /\ pc' = [r \in Requests |-> "idle"]
  /\ call' = [r \in Requests |-> None]
  /\ match' = [r \in Requests |-> None]
  /\ event' = [r \in Requests |-> None]
  /\ seen' = [r \in Requests |-> None]
  /\ inserted' = [r \in Requests |-> FALSE]
  /\ reply' = [r \in Requests |-> None]
  /\ posting' = {}
  /\ upserting' = {}
  /\ UNCHANGED <<tables, notified>>

-----------------------------------------------------------------------------
(* What the other parts of the system write.                               *)

\* The stream worker's insertPltTransfers.
IngestEvent(e) ==
  /\ e \notin events
  /\ events' = events \cup {e}
  /\ UNCHANGED <<tables, disabled, posting, upserting, pc, call, match, event, seen,
                 inserted, reply, notified, posts, failures>>

\* An operator disables an asset (bounded with the failures); seedPltAssets
\* upserts it as enabled.
DisableAsset(a) ==
  /\ failures < MaxFailures
  /\ failures' = failures + 1
  /\ disabled' = disabled \cup {a}
  /\ UNCHANGED <<tables, events, posting, upserting, pc, call, match, event, seen,
                 inserted, reply, notified, posts>>

EnableAsset(a) ==
  /\ a \in disabled
  /\ disabled' = disabled \ {a}
  /\ UNCHANGED <<tables, events, posting, upserting, pc, call, match, event, seen,
                 inserted, reply, notified, posts, failures>>

-----------------------------------------------------------------------------
\* The steps the handler of request r takes by itself.
Step(r) ==
  \/ AssetDisabled(r) \/ WrongDecimals(r) \/ AssetPasses(r)
  \/ NoMatch(r) \/ Match(r) \/ AmountMalformed(r) \/ NoEvent(r) \/ FindEvent(r)
  \/ BeginClaim(r) \/ InsertClaim(r) \/ ReuseClaim(r) \/ ClaimConflict(r)
  \/ ClaimLookupFails(r) \/ UpdateChallenge(r) \/ Commit(r)
  \/ ReRead(r) \/ Webhook(r)

Next ==
  \/ \E k \in Keys : \E t \in Offers[k] :
       AdmitPost(k, t) \/ BeginUpsert(k, t) \/ UpsertPost(k, t)
  \/ \E r \in Requests :
       \/ \E c \in Calls : RejectCall(r, c) \/ AcceptCall(r, c)
       \/ Step(r) \/ QueryFails(r) \/ CommitAnswerLost(r) \/ WebhookHangs(r)
  \/ Crash
  \/ \E e \in Events : IngestEvent(e)
  \/ \E a \in PltAssets : DisableAsset(a) \/ EnableAsset(a)

Spec == Init /\ [][Next]_vars

\* The event loop runs every handler on, and the pool and the database hand clients and
\* locks to those who wait for them in turn: who waits is served, though others hold
\* them in between (strong fairness).  The worker goes on ingesting.  The gateway
\* repeats each call that names a transaction: the server always comes round to it
\* again, though a slot for it is not always free.  New posts and other calls need no
\* fairness, and nothing makes a broken answer to a webhook whole.
Fairness ==
  /\ \A r \in Requests : SF_vars(Step(r))
  /\ \A k \in Keys : \A t \in Offers[k] : WF_vars(UpsertPost(k, t))
  /\ \A c \in {d \in Calls : d.tx # None} :
       SF_vars(\E r \in Requests : AcceptCall(r, c))
  /\ \A e \in Events : WF_vars(IngestEvent(e))

FairSpec == Spec /\ Fairness

-----------------------------------------------------------------------------
(* Properties.                                                             *)

\* The transfer e is what the tuple t asks for.
Pays(e, t) ==
  /\ e.asset = t.asset
  /\ e.to = t.payTo
  /\ e.raw = MinorUnits[t.amount]

HasReceipt(k) == rows[k] # None /\ rows[k].receipt # None

\* The gateway never posts the key k with two different tuples.
OneTuple(k) == \A t, u \in Offers[k] : t = u

\* A challenge that shows a receipt is fulfilled, and the receipt names an
\* ingested transfer that pays the tuple it signs and is claimed by this very
\* challenge: the claim, the event and the receipt agree, whichever requests,
\* posts and failures are interleaved.
ReceiptBacked ==
  \A k \in Keys : HasReceipt(k) =>
    LET e == rows[k].receipt.event IN
      /\ rows[k].status = "fulfilled"
      /\ claims[e] = k
      /\ e \in events
      /\ Pays(e, rows[k].receipt.payment)

\* Claims and receipts evolve as EventClaims promises: a claim appears only
\* together with the receipt it pays for, is never moved to another challenge
\* and survives a re-post.
Promise ==
  INSTANCE EventClaims WITH
    owner <- claims,
    settled <- [k \in Keys |-> IF HasReceipt(k) THEN rows[k].receipt.event
                                                ELSE None]

ImplementsEventClaims == Promise!Spec

\* Whatever is spent on a challenge was paid for it: a claimed transfer is ingested, and
\* pays a tuple that the gateway has offered under that very nonce, although the row may
\* have been posted anew since the match, and a second fulfilment may have replaced the
\* receipt that named the transfer.
ClaimIsPayment ==
  \A e \in Events : claims[e] # None =>
    e \in events /\ \E t \in Offers[claims[e]] : Pays(e, t)

\* A gateway told that its event-backed PLT fulfilment succeeded holds a
\* challenge that owns a transfer of exactly the amount it asked for, provided
\* it posts one tuple per nonce.
OkMeansPaid ==
  \A r \in Requests :
    pc[r] = "replied" /\ reply[r] = "ok" /\ NeedsTx(call[r])
      /\ OneTuple(call[r].key)
    => \E e \in events : claims[e] = call[r].key /\ Pays(e, call[r].tuple)

\* No call is refused for a claim that does not exist: behind an event_claimed
\* stands another challenge's claim on a transfer of that transaction, behind a
\* claim_lookup_failed somebody's.
RefusalIsReal ==
  \A r \in Requests :
    pc[r] = "replied" /\ reply[r] \in {"event_claimed", "claim_lookup_failed"}
    => \E e \in events : /\ e.tx = call[r].tx
                          /\ Pays(e, call[r].tuple)
                          /\ claims[e] # None
                          /\ reply[r] = "event_claimed"
                               => claims[e] # call[r].key

\* A webhook never announces a receipt that the challenge does not own.
WebhookIsBacked ==
  \A r \in Requests :
    pc[r] = "webhook" /\ match[r].receipt # None
    => claims[match[r].receipt.event] = call[r].key

\* The row a fulfilled challenge shows is the row that was paid for: its tuple is
\* the one its receipt signs.
FulfilledIsPaid ==
  \A k \in Keys : HasReceipt(k) => rows[k].receipt.payment = rows[k].tuple

\* The same, for the gateways that post one tuple per nonce.
OneTupleIsPaid ==
  \A k \in Keys : HasReceipt(k) /\ OneTuple(k)
    => rows[k].receipt.payment = rows[k].tuple

\* A claim by the challenge that owns the event already succeeds: nobody is told
\* that the claim of his own event could not be looked up.
OwnClaimSucceeds ==
  \A r \in Requests :
    pc[r] = "replied" /\ reply[r] = "claim_lookup_failed"
    => ~\E e \in events : /\ e.tx = call[r].tx
                           /\ Pays(e, call[r].tuple)
                           /\ claims[e] = call[r].key

\* A "crp.payment.fulfilled" webhook carries a fulfilled payment.
WebhookMeansFulfilled ==
  \A r \in Requests : pc[r] = "webhook" => match[r].status = "fulfilled"

\* Nobody waits for ever for a client, a claim or a row lock that others hold: every
\* call is answered, unless the server dies or the merchant's answer to its webhook
\* breaks off, which leaves it without an answer for good.
OnlyWebhooksHang ==
  \A r \in Requests : pc[r] \in Stages ~> pc[r] \in {"replied", "idle", "hung"}

\* The challenge of c stands posted and its transfer, which no call claims for
\* another challenge, is ingested.
Payable(c) ==
  /\ NeedsTx(c) /\ OneTuple(c.key)
  /\ rows[c.key] # None /\ rows[c.key].tuple = c.tuple
  /\ Payments(c) # {}
  /\ \A d \in Calls : Payments(d) \cap Payments(c) # {} => d.key = c.key

\* If no asset is left disabled, every payable challenge is fulfilled in the end
\* and stays so: neither a re-post, a lost answer, a crash nor a second request
\* for it blocks it for good.
PayableIsFulfilled ==
  <>[](disabled = {})
    => \A c \in Calls : Payable(c) ~> [](HasReceipt(c.key))

\* ... and its merchant is told so by at least one webhook.
OwnerIsNotified ==
  <>[](disabled = {})
    => \A c \in Calls : Payable(c) ~> c.key \in notified
=============================================================================
