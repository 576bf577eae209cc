--------------------------- MODULE ChallengeStore ---------------------------
(***************************************************************************)
(* POST /v1/challenges and its status endpoint (routes/challenges.ts with  *)
(* upsertChallenge of store/repo.pg.ts), on the table that the payment API *)
(* writes as well.  Creating takes two awaits: an INSERT that gives way to *)
(* a row that is there, then a SELECT that compares the payloads.          *)
(***************************************************************************)
EXTENDS Naturals, Networks

CONSTANTS
  Keys,        \* challenge keys, [merchant, nonce]
  Terms,       \* asset, amount, payTo and expiry of a payload
  Extras,      \* policy and metadata of a payload
  Chains,      \* the chains that identifiers may name
  Bodies,      \* payloads of POST /v1/challenges, see BodiesAssumption
  Incomplete,  \* those without a required field, or with a malformed expiry
  Reposts,     \* payloads of POST /v1/crp/payments, [key, network, terms, extras]
  Posts,       \* slots for concurrent POST /v1/challenges requests
  MaxReposts,  \* bound on POST /v1/crp/payments requests
  MaxFailures, \* bound on failed queries
  None

\* `text` says whether JSON.stringify of asset, policy and metadata, and the type of
\* the amount, are the ones that a read of the JSONB and TEXT columns gives back.
ASSUME BodiesAssumption ==
  /\ Bodies \subseteq [key : Keys, network : NetworkIds(Chains), terms : Terms,
                       extras : Extras, text : {"stored", "other"}]
  /\ Incomplete \subseteq Bodies
  /\ Reposts \subseteq [key : Keys, network : NetworkIds(Chains), terms : Terms,
                        extras : Extras]

ASSUME BoundsAssumption == MaxReposts \in Nat /\ MaxFailures \in Nat

Rows == [network : {NormalizeNetworkId(n) : n \in NetworkIds(Chains)},
         terms : Terms, extras : Extras, status : {"pending", "fulfilled"}]

\* 201, 200, 409, 400, and 500.
Answers == {"created", "same", "conflict", "refused", "failed"}

ASSUME NoneAssumption ==
  None \notin Rows \cup Bodies \cup Answers \cup {"pending", "fulfilled"}

VARIABLES
  rows,         \* the table challenges: rows[k], or None
  pc,           \* pc[p]: the await at which the request in slot p stands
  body,         \* its payload
  answer,       \* what it was answered with
  shown,        \* the challenge in that answer
  reported,     \* reported[k]: the status the last GET /v1/challenges/:nonce/status gave
  overwritten,  \* history: the keys whose row POST /v1/crp/payments wrote over
  reposts, failures  \* counters for the bounds

requests == <<pc, body, answer, shown>>
counters == <<reposts, failures>>
vars == <<rows, requests, reported, overwritten, counters>>

TypeOK ==
  /\ rows \in [Keys -> Rows \cup {None}]
  /\ pc \in [Posts -> {"idle", "insert", "select", "answered"}]
  /\ body \in [Posts -> Bodies \cup {None}]
  /\ answer \in [Posts -> Answers \cup {None}]
  /\ shown \in [Posts -> Rows \cup {None}]
  /\ reported \in [Keys -> {"pending", "fulfilled", None}]
  /\ overwritten \subseteq Keys
  /\ reposts \in 0..MaxReposts /\ failures \in 0..MaxFailures

Init ==
  /\ rows = [k \in Keys |-> None]
  /\ pc = [p \in Posts |-> "idle"] /\ body = [p \in Posts |-> None]
  /\ answer = [p \in Posts |-> None] /\ shown = [p \in Posts |-> None]
  /\ reported = [k \in Keys |-> None]
  /\ overwritten = {}
  /\ reposts = 0 /\ failures = 0

-----------------------------------------------------------------------------
(* POST /v1/challenges.                                                    *)

GoTo(p, stage) == pc' = [pc EXCEPT ![p] = stage]

Answer(p, code, row) ==
  /\ GoTo(p, "answered")
  /\ answer' = [answer EXCEPT ![p] = code]
  /\ shown' = [shown EXCEPT ![p] = row]

Arrive(p, b) ==
  /\ pc[p] \in {"idle", "answered"}
  /\ body' = [body EXCEPT ![p] = b]
  /\ UNCHANGED <<rows, reported, overwritten, counters>>

Accept(p, b) ==
  /\ b \notin Incomplete
  /\ Arrive(p, b)
  /\ GoTo(p, "insert")
  /\ answer' = [answer EXCEPT ![p] = None]
  /\ shown' = [shown EXCEPT ![p] = None]

\* A missing header or field is answered 400; a malformed expiry makes toIso throw.
Reject(p, b) ==
  /\ b \in Incomplete
  /\ Arrive(p, b)
  /\ Answer(p, "refused", None)

\* Mutation: the network is stored as posted.
NewRowAsPosted(b) ==
  [network |-> b.network, terms |-> b.terms, extras |-> b.extras, status |-> "pending"]

NewRow(b) ==
  [network |-> NormalizeNetworkId(b.network), terms |-> b.terms, extras |-> b.extras,
   status |-> "pending"]

\* Mutation: ON CONFLICT DO UPDATE.
InsertOrReplace(p) ==
  /\ pc[p] = "insert"
  /\ rows' = [rows EXCEPT ![body[p].key] = NewRow(body[p])]
  /\ Answer(p, "created", NewRow(body[p]))
  /\ UNCHANGED <<body, reported, overwritten, counters>>

Insert(p) ==
  /\ pc[p] = "insert" /\ rows[body[p].key] = None
  /\ rows' = [rows EXCEPT ![body[p].key] = NewRow(body[p])]
  /\ Answer(p, "created", NewRow(body[p]))
  /\ UNCHANGED <<body, reported, overwritten, counters>>

\* The row is inserted, but the connection breaks before the database's answer.
InsertAnswerLost(p) ==
  /\ pc[p] = "insert" /\ rows[body[p].key] = None
  /\ failures < MaxFailures /\ failures' = failures + 1
  /\ rows' = [rows EXCEPT ![body[p].key] = NewRow(body[p])]
  /\ Answer(p, "failed", None)
  /\ UNCHANGED <<body, reported, overwritten, reposts>>

\* ON CONFLICT DO NOTHING.
InsertNothing(p) ==
  /\ pc[p] = "insert" /\ rows[body[p].key] # None
  /\ GoTo(p, "select")
  /\ UNCHANGED <<rows, body, answer, shown, reported, overwritten, counters>>

\* Mutation: only the networks are compared.
SameButTerms(row, b) == NetworksEquivalent(row.network, b.network)

\* The comparison is one of texts: a payload spelled otherwise than the database
\* gives it back is another payload.
Same(row, b) ==
  /\ NetworksEquivalent(row.network, b.network)
  /\ row.terms = b.terms /\ row.extras = b.extras
  /\ b.text = "stored"

\* The SELECT and the comparison.
FindSame(p) ==
  /\ pc[p] = "select"
  /\ LET row == rows[body[p].key] IN
     /\ row # None /\ Same(row, body[p])
     /\ Answer(p, "same", row)
  /\ UNCHANGED <<rows, body, reported, overwritten, counters>>

FindOther(p) ==
  /\ pc[p] = "select"
  /\ LET row == rows[body[p].key] IN ~(row # None /\ Same(row, body[p]))
  /\ Answer(p, "conflict", None)
  /\ UNCHANGED <<rows, body, reported, overwritten, counters>>

\* A query fails without an effect: 500.
QueryFails(p) ==
  /\ pc[p] \in {"insert", "select"}
  /\ failures < MaxFailures /\ failures' = failures + 1
  /\ Answer(p, "failed", None)
  /\ UNCHANGED <<rows, body, reported, overwritten, reposts>>

-----------------------------------------------------------------------------
(* Reads, and the payment API on the same table.                           *)

\* GET /v1/challenges/:nonce/status, not the 404.
GetStatus(k) ==
  /\ rows[k] # None
  /\ reported' = [reported EXCEPT ![k] = rows[k].status]
  /\ UNCHANGED <<rows, requests, overwritten, counters>>

\* POST /v1/crp/payments, the upsert: pending again, whatever there was.
Repost(b) ==
  /\ reposts < MaxReposts /\ reposts' = reposts + 1
  /\ rows' = [rows EXCEPT ![b.key] = NewRow(b)]
  /\ overwritten' = overwritten \cup {k \in {b.key} : rows[k] # None}
  /\ UNCHANGED <<requests, reported, failures>>

\* The COMMIT of POST /v1/crp/payments/fulfill.
Fulfil(k) ==
  /\ rows[k] # None
  /\ rows' = [rows EXCEPT ![k].status = "fulfilled"]
  /\ UNCHANGED <<requests, reported, overwritten, counters>>

Next ==
  \/ \E p \in Posts : \/ \E b \in Bodies : Accept(p, b) \/ Reject(p, b)
                      \/ Insert(p) \/ InsertAnswerLost(p) \/ InsertNothing(p)
                      \/ FindSame(p) \/ FindOther(p) \/ QueryFails(p)
  \/ \E k \in Keys : GetStatus(k) \/ Fulfil(k)
  \/ \E b \in Reposts : Repost(b)

Spec == Init /\ [][Next]_vars

-----------------------------------------------------------------------------
(* Properties.                                                             *)

\* The immutable fields of the row are those of the body.
SameTerms(b, row) ==
  row.terms = b.terms /\ CanonicalChainId(row.network) = CanonicalChainId(b.network)

\* The row is the challenge that the body describes, policy and metadata included.
Describes(b, row) == SameTerms(b, row) /\ row.extras = b.extras

\* Two requests that were both told that their challenge stands described the same
\* challenge, however they met in the table, unless the payment API has overwritten it.
AcceptedAgree ==
  \A p, q \in Posts :
    (/\ shown[p] # None /\ shown[q] # None
     /\ body[p].key = body[q].key
     /\ body[p].key \notin overwritten)
      => Describes(body[p], shown[q])

\* A 409 to a client that posts the policy and the metadata of the row is due to
\* different immutable fields under the nonce, also for a retry whose first attempt was
\* inserted but not answered, unless the payload's text differs from the stored one or
\* the payment API has overwritten the row.  (The contract has no other 409 at all, and
\* calls policy and metadata mutable while pending; the code refuses other ones.)
ConflictIsReal ==
  \A p \in Posts :
    (/\ answer[p] = "conflict"
     /\ body[p].text = "stored"
     /\ body[p].key \notin overwritten)
      => LET row == rows[body[p].key] IN
           row # None /\ (row.extras = body[p].extras => ~SameTerms(body[p], row))

\* A client that saw its challenge fulfilled never sees it pending again, unless the
\* payment API has overwritten the row: creating it once more does not reset it.
FulfilledIsFinal ==
  [][\A k \in Keys :
       reported[k] = "fulfilled" /\ reported'[k] # "fulfilled" => k \in overwritten]_vars

\* Each answer shows the table as it is at one moment; creating never changes a row.
Promise == INSTANCE ChallengeRegister

ImplementsRegister == Promise!Spec

\* The same nonce with an identical payload gets the same outcome: a 409 means that
\* the challenge under the nonce is another one.
SameOutcome ==
  \A p \in Posts :
    answer[p] = "conflict" /\ body[p].key \notin overwritten
      => rows[body[p].key] # None /\ ~Describes(body[p], rows[body[p].key])
=============================================================================
