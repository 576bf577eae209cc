------------------------ MODULE ChallengeStore_proofs ------------------------
(***************************************************************************)
(* Proofs about ChallengeStore, for any keys, payloads, requests and       *)
(* bounds.                                                                 *)
(***************************************************************************)
EXTENDS ChallengeStore, Formats_proofs, TLAPS

-----------------------------------------------------------------------------
(* The inductive invariant.                                                *)

\* The two challenges differ in their status at most.
SameBut(r, s) == r.terms = s.terms /\ r.network = s.network /\ r.extras = s.extras

\* A request under way has a payload and no answer yet; at the SELECT the row is there.
StageInv(p) ==
  pc[p] \in {"insert", "select"} =>
    /\ body[p] \in Bodies /\ shown[p] = None /\ answer[p] = None
    /\ pc[p] = "select" => rows[body[p].key] # None

\* A challenge that was shown is the one asked for, and still in the table.
ShownInv(p) ==
  shown[p] # None =>
    /\ body[p] \in Bodies /\ Describes(body[p], shown[p])
    /\ rows[body[p].key] # None
    /\ body[p].key \notin overwritten => SameBut(shown[p], rows[body[p].key])

\* A 409 found another challenge, or another text.
ConflictInv(p) ==
  answer[p] = "conflict" =>
    /\ body[p] \in Bodies /\ rows[body[p].key] # None
    /\ (body[p].text = "stored" /\ body[p].key \notin overwritten)
         => ~Describes(body[p], rows[body[p].key])

\* What was seen fulfilled is fulfilled.
ReportInv(k) ==
  (reported[k] = "fulfilled" /\ k \notin overwritten)
    => rows[k] # None /\ rows[k].status = "fulfilled"

IInv ==
  /\ TypeOK
  /\ \A p \in Posts : StageInv(p) /\ ShownInv(p) /\ ConflictInv(p)
  /\ \A k \in Keys : ReportInv(k)

\* A payload makes a row that it describes.
LEMMA NewRowFacts ==
  ASSUME NEW b \in Bodies \cup Reposts
  PROVE  /\ NewRow(b) \in Rows /\ NewRow(b) # None /\ b.key \in Keys
         /\ NewRow(b).status = "pending"
         /\ Describes(b, NewRow(b))
<1>1. /\ b.key \in Keys /\ b.network \in NetworkIds(Chains) /\ b.terms \in Terms
      /\ b.extras \in Extras
  BY BodiesAssumption
<1>2. CanonicalChainId(NormalizeNetworkId(b.network)) = CanonicalChainId(b.network)
  BY <1>1, NormalizeFacts
<1>3. NewRow(b) \in Rows
  BY <1>1 DEF NewRow, Rows
<1> QED BY <1>1, <1>2, <1>3, NoneAssumption DEF NewRow, Describes, SameTerms

\* upsertChallenge compares what Describes compares, and the text.
LEMMA SameFacts ==
  ASSUME NEW b \in Bodies, NEW row \in Rows
  PROVE  Same(row, b) <=> Describes(b, row) /\ b.text = "stored"
<1>1. b.network \in NetworkIds(Chains)
  BY BodiesAssumption
<1>2. row.network \in NetworkIds(Chains)
  BY NormalizeFacts DEF Rows
<1> QED BY <1>1, <1>2, Equivalence DEF Same, Describes, SameTerms

\* The steps of a request, its arrival and its answer included.
RequestStep(p) ==
  \/ \E b \in Bodies : Accept(p, b) \/ Reject(p, b)
  \/ Insert(p) \/ InsertAnswerLost(p) \/ InsertNothing(p)
  \/ FindSame(p) \/ FindOther(p) \/ QueryFails(p)

\* The steps of everyone else.
TableStep ==
  \/ \E k \in Keys : GetStatus(k) \/ Fulfil(k)
  \/ \E b \in Reposts : Repost(b)

\* What a step of the request p leaves alone.
LEMMA RequestFrame ==
  ASSUME TypeOK, NEW p \in Posts, RequestStep(p)
  PROVE  /\ UNCHANGED <<reported, overwritten, reposts>>
         /\ \A q \in Posts \ {p} : /\ pc'[q] = pc[q] /\ body'[q] = body[q]
                                  /\ answer'[q] = answer[q] /\ shown'[q] = shown[q]
         /\ \A k \in Keys : rows[k] # None => rows'[k] = rows[k]
<1> USE DEF TypeOK, RequestStep, GoTo, Answer, counters
<1>1. CASE \E b \in Bodies : Accept(p, b) \/ Reject(p, b)
  BY <1>1 DEF Accept, Reject, Arrive
<1>2. CASE Insert(p) \/ InsertAnswerLost(p)
  BY <1>2 DEF Insert, InsertAnswerLost
<1>3. CASE InsertNothing(p) \/ QueryFails(p)
  BY <1>3 DEF InsertNothing, QueryFails
<1>4. CASE FindSame(p) \/ FindOther(p)
  BY <1>4 DEF FindSame, FindOther
<1> QED BY <1>1, <1>2, <1>3, <1>4

\* Where a request stands after its own step, and what it was told.
LEMMA RequestEffect ==
  ASSUME IInv, NEW p \in Posts, RequestStep(p)
  PROVE  /\ TypeOK'
         /\ StageInv(p)' /\ ShownInv(p)' /\ ConflictInv(p)'
<1> USE DEF TypeOK, GoTo, Answer, counters, Answers
<1>0. TypeOK /\ StageInv(p) /\ Incomplete \subseteq Bodies
  BY BodiesAssumption DEF IInv
<1>1. ASSUME NEW b \in Bodies, Accept(p, b) \/ Reject(p, b)
      PROVE  TypeOK' /\ StageInv(p)' /\ ShownInv(p)' /\ ConflictInv(p)'
  <2>1. /\ body' = [body EXCEPT ![p] = b] /\ shown' = [shown EXCEPT ![p] = None]
        /\ UNCHANGED <<rows, reported, overwritten, counters>>
        /\ \/ /\ pc' = [pc EXCEPT ![p] = "insert"]
              /\ answer' = [answer EXCEPT ![p] = None]
           \/ /\ pc' = [pc EXCEPT ![p] = "answered"]
              /\ answer' = [answer EXCEPT ![p] = "refused"]
    BY <1>1 DEF Accept, Reject, Arrive
  <2>2. TypeOK'
    BY <1>0, <2>1
  <2>3. /\ body'[p] = b /\ shown'[p] = None
        /\ \/ pc'[p] = "insert" /\ answer'[p] = None
           \/ pc'[p] = "answered" /\ answer'[p] = "refused"
    BY <1>0, <2>1
  <2> QED BY <2>2, <2>3, NoneAssumption DEF StageInv, ShownInv, ConflictInv
<1>2. CASE Insert(p) \/ InsertAnswerLost(p)
  <2> DEFINE b == body[p]
             row == NewRow(body[p])
  <2>1. b \in Bodies /\ b.key \in Keys /\ row \in Rows /\ row # None /\ Describes(b, row)
    BY <1>0, <1>2, NewRowFacts DEF StageInv, Insert, InsertAnswerLost
  <2>2. /\ rows' = [rows EXCEPT ![b.key] = row] /\ body' = body
        /\ pc' = [pc EXCEPT ![p] = "answered"]
        /\ \E code \in {"created", "failed"} : answer' = [answer EXCEPT ![p] = code]
        /\ \E s \in {row, None} : shown' = [shown EXCEPT ![p] = s]
        /\ UNCHANGED <<reported, overwritten, reposts>>
        /\ failures' \in 0..MaxFailures
    BY <1>0, <1>2, BoundsAssumption DEF Insert, InsertAnswerLost
  <2> HIDE DEF row
  <2>3. TypeOK'
    BY <1>0, <2>1, <2>2
  <2>4. rows'[b.key] = row /\ pc'[p] = "answered" /\ answer'[p] # "conflict"
        /\ shown'[p] \in {row, None}
    BY <1>0, <2>1, <2>2
  <2>5. body'[p] = b /\ overwritten' = overwritten
    BY <2>2
  <2>6. StageInv(p)' /\ ConflictInv(p)'
    BY <2>4 DEF StageInv, ConflictInv
  <2>7. ShownInv(p)'
    BY <2>1, <2>4, <2>5 DEF ShownInv, SameBut
  <2> QED BY <2>3, <2>6, <2>7
<1>3. CASE InsertNothing(p) \/ QueryFails(p)
  <2>1. pc[p] \in {"insert", "select"}
    BY <1>3 DEF InsertNothing, QueryFails
  <2>2. /\ UNCHANGED <<rows, body, reported, overwritten, reposts>>
        /\ failures' \in 0..MaxFailures
        /\ shown'[p] = None /\ answer'[p] # "conflict"
        /\ \/ pc'[p] = "answered"
           \/ pc'[p] = "select" /\ answer'[p] = None /\ rows[body[p].key] # None
    BY <1>0, <1>3, <2>1, BoundsAssumption, NoneAssumption
       DEF InsertNothing, QueryFails, StageInv
  <2>3. TypeOK'
    BY <1>0, <1>3, <2>2 DEF InsertNothing, QueryFails
  <2> QED BY <1>0, <2>1, <2>2, <2>3 DEF StageInv, ShownInv, ConflictInv
<1>4. CASE FindSame(p) \/ FindOther(p)
  <2> DEFINE b == body[p]
             row == rows[body[p].key]
  <2>1. b \in Bodies /\ b.key \in Keys /\ row # None /\ row \in Rows
    BY <1>0, <1>4, BodiesAssumption DEF StageInv, FindSame, FindOther
  <2>2. Same(row, b) <=> Describes(b, row) /\ b.text = "stored"
    BY <2>1, SameFacts
  <2>3. /\ UNCHANGED <<rows, body, reported, overwritten, counters>>
        /\ pc' = [pc EXCEPT ![p] = "answered"]
        /\ \/ /\ Same(row, b) /\ answer' = [answer EXCEPT ![p] = "same"]
              /\ shown' = [shown EXCEPT ![p] = row]
           \/ /\ ~Same(row, b) /\ answer' = [answer EXCEPT ![p] = "conflict"]
              /\ shown' = [shown EXCEPT ![p] = None]
    BY <1>4, <2>1 DEF FindSame, FindOther
  <2>4. TypeOK'
    BY <1>0, <2>1, <2>3
  <2> QED BY <1>0, <2>1, <2>2, <2>3, <2>4 DEF StageInv, ShownInv, ConflictInv, SameBut
<1> QED BY <1>1, <1>2, <1>3, <1>4 DEF RequestStep
\* Rows stay, with their terms and their network unless they are overwritten.
RowsStay ==
  /\ overwritten \subseteq overwritten'
  /\ \A k \in Keys : rows[k] # None =>
       rows'[k] # None /\ (k \notin overwritten' => SameBut(rows'[k], rows[k]))

\* Then a request that does not move keeps what it was told.
LEMMA RequestKept ==
  ASSUME IInv, RowsStay, NEW q \in Posts,
         pc'[q] = pc[q], body'[q] = body[q], answer'[q] = answer[q], shown'[q] = shown[q]
  PROVE  StageInv(q)' /\ ShownInv(q)' /\ ConflictInv(q)'
<1>1. StageInv(q) /\ ShownInv(q) /\ ConflictInv(q)
  BY DEF IInv
<1>2. body[q] \in Bodies => body[q].key \in Keys
  BY BodiesAssumption
<1>3. StageInv(q)'
  BY <1>1, <1>2 DEF StageInv, RowsStay
<1>4. ShownInv(q)'
  BY <1>1, <1>2 DEF ShownInv, RowsStay, SameBut, Describes, SameTerms
<1>5. ConflictInv(q)'
  BY <1>1, <1>2 DEF ConflictInv, RowsStay, SameBut, Describes, SameTerms
<1> QED BY <1>3, <1>4, <1>5

\* A step of a request keeps the invariant.
LEMMA RequestInv ==
  ASSUME IInv, NEW p \in Posts, RequestStep(p)
  PROVE  IInv'
<1>1. /\ UNCHANGED <<reported, overwritten, reposts>>
      /\ \A q \in Posts \ {p} : /\ pc'[q] = pc[q] /\ body'[q] = body[q]
                               /\ answer'[q] = answer[q] /\ shown'[q] = shown[q]
      /\ \A k \in Keys : rows[k] # None => rows'[k] = rows[k]
  BY RequestFrame DEF IInv
<1>2. RowsStay
  BY <1>1 DEF RowsStay, SameBut
<1>3. \A q \in Posts : StageInv(q)' /\ ShownInv(q)' /\ ConflictInv(q)'
  BY <1>1, <1>2, RequestEffect, RequestKept
<1>4. \A k \in Keys : ReportInv(k)'
  BY <1>1 DEF IInv, ReportInv
<1> QED BY <1>3, <1>4, RequestEffect DEF IInv

\* A read, a fulfilment and a post of the payment API keep it.
LEMMA TableInv ==
  ASSUME IInv, TableStep
  PROVE  IInv'
<1>0. TypeOK /\ \A k \in Keys : ReportInv(k)
  BY DEF IInv
<1>1. ASSUME UNCHANGED requests, RowsStay, TypeOK', \A k \in Keys : ReportInv(k)'
      PROVE  IInv'
  BY <1>1, RequestKept DEF IInv, requests
<1>2. ASSUME NEW k \in Keys, GetStatus(k) PROVE IInv'
  <2>1. rows[k] # None /\ rows[k] \in Rows
    BY <1>0, <1>2 DEF GetStatus, TypeOK
  <2>2. TypeOK'
    BY <1>0, <1>2, <2>1 DEF GetStatus, TypeOK, Rows, requests, counters
  <2>3. RowsStay
    BY <1>2 DEF GetStatus, RowsStay, SameBut
  <2>4. \A j \in Keys : ReportInv(j)'
    BY <1>0, <1>2, <2>1 DEF GetStatus, ReportInv, TypeOK
  <2> QED BY <1>1, <1>2, <2>2, <2>3, <2>4 DEF GetStatus
<1>3. ASSUME NEW k \in Keys, Fulfil(k) PROVE IInv'
  <2>1. rows[k] # None /\ rows[k] \in Rows
    BY <1>0, <1>3 DEF Fulfil, TypeOK
  <2> DEFINE row == [rows[k] EXCEPT !.status = "fulfilled"]
  <2>2. /\ rows' = [rows EXCEPT ![k] = row]
        /\ UNCHANGED <<requests, reported, overwritten, counters>>
    BY <1>3 DEF Fulfil
  <2>3. row \in Rows /\ SameBut(row, rows[k]) /\ row.status = "fulfilled"
    BY <2>1 DEF Rows, SameBut
  <2>4. row # None
    BY <2>3, NoneAssumption
  <2> HIDE DEF row
  <2>5. TypeOK'
    BY <1>0, <2>2, <2>3 DEF TypeOK, requests, counters
  <2>6. RowsStay
    BY <1>0, <2>2, <2>3, <2>4 DEF RowsStay, SameBut, TypeOK
  <2>7. \A j \in Keys : ReportInv(j)'
    BY <1>0, <2>2, <2>3, <2>4 DEF ReportInv, TypeOK
  <2> QED BY <1>1, <2>2, <2>5, <2>6, <2>7
<1>4. ASSUME NEW b \in Reposts, Repost(b) PROVE IInv'
  <2> DEFINE row == NewRow(b)
  <2>1. row \in Rows /\ row # None /\ b.key \in Keys
    BY NewRowFacts
  <2>2. /\ rows' = [rows EXCEPT ![b.key] = row]
        /\ overwritten' = overwritten \cup {k \in {b.key} : rows[k] # None}
        /\ UNCHANGED <<requests, reported, failures>> /\ reposts' \in 0..MaxReposts
    BY <1>0, <1>4, BoundsAssumption DEF Repost, TypeOK
  <2> HIDE DEF row
  <2>3. TypeOK'
    BY <1>0, <2>1, <2>2 DEF TypeOK, requests
  <2>4. RowsStay
    BY <1>0, <2>1, <2>2 DEF RowsStay, SameBut, TypeOK
  <2>5. \A j \in Keys : ReportInv(j)'
    BY <1>0, <2>1, <2>2 DEF ReportInv, TypeOK
  <2> QED BY <1>1, <2>2, <2>3, <2>4, <2>5
<1> QED BY <1>2, <1>3, <1>4 DEF TableStep

-----------------------------------------------------------------------------
(* Theorems.                                                               *)

\* Each step is one of a request or one of the table.
LEMMA Steps == Next => TableStep \/ \E p \in Posts : RequestStep(p)
BY DEF Next, TableStep, RequestStep

\* The invariant holds in every state.
THEOREM Invariance == Spec => []IInv
<1>1. Init => IInv
  <2> SUFFICES ASSUME Init PROVE IInv
    OBVIOUS
  <2>1. TypeOK
    BY BoundsAssumption DEF Init, TypeOK
  <2>2. \A p \in Posts : StageInv(p) /\ ShownInv(p) /\ ConflictInv(p)
    BY NoneAssumption DEF Init, StageInv, ShownInv, ConflictInv, Answers
  <2>3. \A k \in Keys : ReportInv(k)
    BY NoneAssumption DEF Init, ReportInv
  <2> QED BY <2>1, <2>2, <2>3 DEF IInv
<1>2. IInv /\ [Next]_vars => IInv'
  <2> SUFFICES ASSUME IInv, [Next]_vars PROVE IInv'
    OBVIOUS
  <2>1. CASE Next
    BY <2>1, Steps, RequestInv, TableInv
  <2>2. CASE UNCHANGED vars
    <3>1. /\ UNCHANGED <<rows, pc, body, answer, shown, reported, overwritten>>
          /\ UNCHANGED <<reposts, failures>>
      BY <2>2 DEF vars, requests, counters
    <3> QED BY <3>1 DEF IInv, TypeOK, StageInv, ShownInv, ConflictInv, ReportInv
  <2> QED BY <2>1, <2>2
<1> QED BY <1>1, <1>2, PTL DEF Spec

\* Every variable keeps its type, and every stored network is normalised.
THEOREM TypeCorrect == Spec => []TypeOK
<1>1. IInv => TypeOK
  BY DEF IInv
<1> QED BY <1>1, Invariance, PTL

\* Requests that are told that their challenge stands agree on it.
THEOREM Agreement == Spec => []AcceptedAgree
<1>1. IInv => AcceptedAgree
  BY DEF IInv, ShownInv, AcceptedAgree, Describes, SameTerms, SameBut
<1> QED BY <1>1, Invariance, PTL

\* Who posts the policy and the metadata of the row is refused for different immutable
\* fields only (who posts others is refused as well).
THEOREM ConflictsAreReal == Spec => []ConflictIsReal
<1>1. IInv => ConflictIsReal
  BY DEF IInv, ConflictInv, ConflictIsReal, Describes
<1> QED BY <1>1, Invariance, PTL

\* A challenge seen fulfilled is never seen pending unless it was overwritten.
THEOREM FulfilledStays == Spec => FulfilledIsFinal
<1>1. IInv /\ [Next]_vars =>
        [\A k \in Keys :
           reported[k] = "fulfilled" /\ reported'[k] # "fulfilled" => k \in overwritten]_vars
  <2> SUFFICES ASSUME IInv, Next, NEW k \in Keys,
                      reported[k] = "fulfilled", reported'[k] # "fulfilled"
               PROVE  k \in overwritten
    BY DEF vars
  <2>1. ReportInv(k) /\ TypeOK
    BY DEF IInv
  <2>2. PICK j \in Keys : GetStatus(j)
    <3>1. ASSUME NEW p \in Posts, RequestStep(p) PROVE FALSE
      BY <2>1, <3>1, RequestFrame
    <3>2. ASSUME NEW j \in Keys, Fulfil(j) PROVE FALSE
      BY <3>2 DEF Fulfil
    <3>3. ASSUME NEW b \in Reposts, Repost(b) PROVE FALSE
      BY <3>3 DEF Repost
    <3> QED BY <3>1, <3>2, <3>3, Steps DEF TableStep
  <2>3. /\ reported' = [reported EXCEPT ![j] = rows[j].status]
        /\ reported \in [Keys -> {"pending", "fulfilled", None}]
    BY <2>1, <2>2 DEF GetStatus, TypeOK
  <2> QED BY <2>1, <2>3 DEF ReportInv
<1> QED BY <1>1, Invariance, PTL DEF Spec, FulfilledIsFinal

\* The store implements the register.
THEOREM Refinement == Spec => ImplementsRegister
<1>1. Init => Promise!Init
  BY DEF Init, Promise!Init
<1>2. IInv /\ [Next]_vars => [Promise!Next]_(Promise!vars)
  <2> SUFFICES ASSUME IInv, [Next]_vars PROVE [Promise!Next]_(Promise!vars)
    OBVIOUS
  <2>0. TypeOK
    BY DEF IInv
  <2>1. ASSUME NEW p \in Posts, RequestStep(p) PROVE [Promise!Next]_(Promise!vars)
    <3>1. CASE Insert(p) \/ InsertAnswerLost(p)
      <4> DEFINE k == body[p].key
                 row == NewRow(body[p])
      <4>1. body[p] \in Bodies
        BY <3>1 DEF IInv, StageInv, Insert, InsertAnswerLost
      <4>2. k \in Keys /\ row # None /\ row.status = "pending"
        BY <4>1, NewRowFacts
      <4>3. /\ rows[k] = None /\ rows' = [rows EXCEPT ![k] = row]
            /\ \E s \in {row, None} : shown' = [shown EXCEPT ![p] = s]
        BY <3>1 DEF Insert, InsertAnswerLost, Answer
      <4> HIDE DEF row, k
      <4>4. rows'[k] = row
        BY <2>0, <4>2, <4>3 DEF TypeOK
      <4>5. \E s \in {rows'[k], None} : shown' = [shown EXCEPT ![p] = s]
        BY <4>3, <4>4
      <4>6. rows' = [rows EXCEPT ![k] = rows'[k]]
        BY <4>3, <4>4
      <4>7. Promise!Create(p, k)
        BY <4>2, <4>3, <4>4, <4>5, <4>6 DEF Promise!Create
      <4> QED BY <4>2, <4>7 DEF Promise!Next
    <3>2. CASE FindSame(p)
      <4>1. body[p] \in Bodies /\ body[p].key \in Keys
        BY <3>2, BodiesAssumption DEF IInv, StageInv, FindSame
      <4> QED BY <3>2, <4>1 DEF FindSame, Answer, Promise!Next, Promise!Show
    <3>3. CASE \/ \E b \in Bodies : Accept(p, b) \/ Reject(p, b)
               \/ FindOther(p) \/ QueryFails(p)
      <4>1. shown' = [shown EXCEPT ![p] = None] /\ rows' = rows
        BY <3>3 DEF Accept, Reject, Arrive, FindOther, QueryFails, Answer
      <4> QED BY <4>1 DEF Promise!Next, Promise!ShowNothing
    <3>4. CASE InsertNothing(p)
      BY <3>4 DEF InsertNothing, Promise!vars
    <3> QED BY <2>1, <3>1, <3>2, <3>3, <3>4 DEF RequestStep
  <2>2. ASSUME NEW k \in Keys, GetStatus(k) PROVE [Promise!Next]_(Promise!vars)
    BY <2>2 DEF GetStatus, requests, Promise!vars
  <2>3. ASSUME NEW k \in Keys, Fulfil(k) PROVE [Promise!Next]_(Promise!vars)
    BY <2>3 DEF Fulfil, requests, Promise!Next, Promise!Settle
  <2>4. ASSUME NEW b \in Reposts, Repost(b) PROVE [Promise!Next]_(Promise!vars)
    <3>1. b.key \in Keys /\ NewRow(b) # None /\ NewRow(b).status = "pending"
      BY NewRowFacts
    <3>2. rows' = [rows EXCEPT ![b.key] = NewRow(b)] /\ shown' = shown
      BY <2>4 DEF Repost, requests
    <3>3. rows'[b.key] = NewRow(b)
      BY <2>0, <3>1, <3>2 DEF TypeOK
    <3> QED BY <3>1, <3>2, <3>3 DEF Promise!Next, Promise!Overwrite
  <2>5. CASE UNCHANGED vars
    BY <2>5 DEF vars, requests, Promise!vars
  <2> QED BY <2>1, <2>2, <2>3, <2>4, <2>5, Steps DEF TableStep
<1> QED BY Invariance, <1>1, <1>2, PTL DEF Spec, ImplementsRegister, Promise!Spec
=============================================================================
