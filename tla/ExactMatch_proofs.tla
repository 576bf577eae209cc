-------------------------- MODULE ExactMatch_proofs --------------------------
(***************************************************************************)
(* Proofs about ExactMatch, for any registry keys, challenges, transfers,  *)
(* queries, amounts and search limit: what "ok", "no_event" and "no_match" *)
(* say of the tables, and what the two routes find.                        *)
(***************************************************************************)
EXTENDS ExactMatch, Formats_proofs, FiniteSetTheorems

\* What the handler knows at an await: the query, and from the search on what the
\* registry said; at the look-up of the transfer, the challenge it is for.
Progress ==
  /\ pc # "idle" => query \in Queries
  /\ pc \in {"search", "event"} => resolved \in [decimals : Nat, index : Nat]
  /\ pc = "event" => /\ query.requireEvent
                     /\ match.decimals = resolved.decimals /\ match.nonce = query.nonce
  /\ answer # None => pc = "answered"

IInv == TypeOK /\ Progress /\ OkIsPaid

-----------------------------------------------------------------------------
(* The look-ups.                                                           *)

\* What is found has the nonce and the decimals that are searched for.
LEMMA FoundFacts ==
  ASSUME NEW q, NEW d, NEW i \in Found(q, d)
  PROVE  i \in DOMAIN rows /\ rows[i].nonce = q.nonce /\ rows[i].decimals = d
BY DEF Found, AliasMatch, PostMatch, Exact, Newest, OnNetwork, Candidates

\* A transfer under a normal name of its network is found to pay exactly if it does.
LEMMA PaymentsPay ==
  ASSUME TypeOK, NEW q \in Queries, NEW r \in [decimals : Nat, index : Nat],
         HasMinorUnits(q.amount, r.decimals)
  PROVE  /\ \A e \in Payments(q, r) : e \in events /\ Pays(e, q, r)
         /\ \A e \in events : e.network = NormalizeNetworkId(e.network) =>
              (e \in Payments(q, r) <=> Pays(e, q, r))
<1>1. r.decimals \in Nat /\ IsAmount(q.amount) /\ q.network \in NetworkIds(Chains)
  BY AmountsAssumption, NetworksAssumption
<1>2. \A e \in events : e.raw \in Nat /\ e.network \in NetworkIds(Chains)
  BY AmountsAssumption, NetworksAssumption DEF TypeOK
<1>3. \A e \in events :
        RawText(e.raw) = ToMinorUnits(q.amount, r.decimals)
          <=> IsWorth(e.raw, q.amount, r.decimals)
  BY <1>1, <1>2, EqualTexts
<1>4. /\ \A n \in NetworkCandidates(q.network) : NormalizeNetworkId(n) = n
      /\ \A n \in NetworkIds(Chains) :
           NormalizeNetworkId(n) = n =>
             (n \in NetworkCandidates(q.network)
                <=> CanonicalChainId(n) = CanonicalChainId(q.network))
  BY <1>1, CandidatesFacts
<1>5. \A e \in events : e.network = NormalizeNetworkId(e.network) =>
        (e \in Payments(q, r) <=> Pays(e, q, r))
  BY <1>2, <1>3, <1>4 DEF Payments, Pays
<1>6. \A e \in Payments(q, r) : e \in events /\ e.network = NormalizeNetworkId(e.network)
  BY <1>4 DEF Payments
<1> QED BY <1>5, <1>6

\* A challenge is stored as it was posted, but for its decimals.
LEMMA StoredFacts ==
  ASSUME NEW c \in Challenges, NEW d
  PROVE  LET s == [c EXCEPT !.decimals = d]
         IN  s.network = c.network /\ s.merchant = c.merchant /\ s.nonce = c.nonce
BY ChallengesAssumption

LEMMA StoredNetworks ==
  ASSUME NEW s \in StoredChallenges
  PROVE  s.network \in NetworkIds(Chains) /\ s.network = NormalizeNetworkId(s.network)
<1>1. CASE s \in Challenges
  BY <1>1, NetworksAssumption
<1>2. ASSUME NEW c \in Challenges, NEW d \in Decimals, s = [c EXCEPT !.decimals = d]
      PROVE  s.network = c.network
  BY <1>2, StoredFacts
<1> QED BY <1>1, <1>2, NetworksAssumption DEF StoredChallenges

\* What normalizeAssetWithRegistry lets pass is stored under the merchant and nonce posted.
LEMMA NormalisedFacts ==
  ASSUME TypeOK, NEW c \in Challenges, NEW n, NEW s \in Normalised(c, n)
  PROVE  s \in StoredChallenges /\ s.merchant = c.merchant /\ s.nonce = c.nonce
<1>1. CASE s = c
  BY <1>1 DEF StoredChallenges
<1>2. CASE s # c
  <2>1. PICK a \in RegistryRow(c.network, n, c.token) :
               s = [c EXCEPT !.decimals = registry[a].decimals]
    BY <1>2 DEF Normalised
  <2>2. a \in Assets /\ registry[a] # None
    BY <2>1 DEF RegistryRow
  <2>3. registry[a].decimals \in Decimals
    BY <2>2 DEF TypeOK
  <2> QED BY <2>1, <2>3, StoredFacts DEF StoredChallenges
<1> QED BY <1>1, <1>2

-----------------------------------------------------------------------------
(* The inductive invariant.                                                *)

LEMMA InitIInv == Init => IInv
  BY NoneAssumption DEF Init, IInv, TypeOK, Progress, OkIsPaid, Reasons

\* Nothing that OkIsPaid speaks of changes but the transfers, which only get more.
LEMMA PaidStays ==
  ASSUME OkIsPaid, UNCHANGED request, events \subseteq events'
  PROVE  OkIsPaid'
BY DEF OkIsPaid, request, Pays

LEMMA AskStep ==
  ASSUME IInv, NEW q \in Queries, Ask(q)
  PROVE  IInv'
BY NoneAssumption DEF IInv, TypeOK, Progress, OkIsPaid, Ask, tables, Reasons

\* The registry has told decimals and a genesis index.
LEMMA GoSearchStep ==
  ASSUME IInv, NEW d \in Nat, NEW n \in Nat, pc = "resolve", GoSearch(d, n)
  PROVE  IInv'
<1>1. resolved' \in [decimals : Nat, index : Nat]
  BY DEF GoSearch
<1>2. answer' = None
  BY DEF IInv, Progress, GoSearch
<1> QED BY <1>1, <1>2, NoneAssumption
        DEF IInv, TypeOK, Progress, OkIsPaid, GoSearch, tables, Reasons

\* An answer other than "ok".
LEMMA RefusalStep ==
  ASSUME IInv, NEW reason \in Reasons \ {"ok"}, pc # "idle", Answer(reason),
         UNCHANGED <<tables, query, resolved, match>>
  PROVE  IInv'
BY DEF IInv, TypeOK, Progress, OkIsPaid, Answer, tables

LEMMA ResolveStep ==
  ASSUME IInv, \/ ResolveGiven \/ ResolveRegistered \/ ResolveDefault
               \/ PassUnregistered \/ PassRegistered
  PROVE  IInv'
<1>1. pc = "resolve" /\ query \in Queries
  BY DEF IInv, Progress, ResolveGiven, ResolveRegistered, ResolveDefault, PassUnregistered,
         PassRegistered
<1>2. \A a \in Assets : /\ a.index \in Nat
                        /\ registry[a] # None => registry[a].decimals \in Nat
  BY BoundsAssumption DEF IInv, TypeOK
<1>3. GenesisIndex(query) \in Nat
  BY <1>1, AmountsAssumption, BoundsAssumption DEF GenesisIndex
<1>4. \E d \in Nat, n \in Nat : GoSearch(d, n)
  <2>1. CASE ResolveGiven
    BY <1>1, <1>2, <2>1, AmountsAssumption DEF ResolveGiven, Latest, Registered
  <2>2. CASE ResolveRegistered
    BY <1>2, <2>2 DEF ResolveRegistered, Latest, Enabled, Registered
  <2>3. CASE ResolveDefault
    BY <2>3 DEF ResolveDefault
  <2>4. CASE PassUnregistered
    <3>1. GivenDecimals(query) \in Nat
      BY <1>1, AmountsAssumption DEF GivenDecimals
    <3> QED BY <1>3, <2>4, <3>1 DEF PassUnregistered
  <2>5. CASE PassRegistered
    BY <1>2, <1>3, <2>5 DEF PassRegistered, AssetRow, RegistryRow
  <2> QED BY <2>1, <2>2, <2>3, <2>4, <2>5
<1> QED BY <1>1, <1>4, GoSearchStep

LEMMA FindMatchStep ==
  ASSUME IInv, FindMatch
  PROVE  IInv'
<1>1. PICK i \in Found(query, resolved.decimals) : match' = rows[i]
  BY DEF FindMatch
<1>2. /\ match' \in StoredChallenges
      /\ match'.nonce = query.nonce /\ match'.decimals = resolved.decimals
  BY <1>1, FoundFacts DEF IInv, TypeOK
<1>3. /\ pc = "search" /\ query \in Queries /\ answer = None
      /\ resolved \in [decimals : Nat, index : Nat]
      /\ UNCHANGED <<tables, query, resolved>>
  BY DEF IInv, Progress, FindMatch
<1>4. CASE query.requireEvent
  <2>1. pc' = "event" /\ answer' = None
    BY <1>3, <1>4 DEF FindMatch
  <2> QED BY <1>2, <1>3, <1>4, <2>1, NoneAssumption
          DEF IInv, TypeOK, Progress, OkIsPaid, tables, Reasons
<1>5. CASE ~query.requireEvent
  <2>1. pc' = "answered" /\ answer' = "ok"
    BY <1>5 DEF FindMatch, Answer
  <2> QED BY <1>2, <1>3, <1>5, <2>1
          DEF IInv, TypeOK, Progress, OkIsPaid, tables, Reasons
<1> QED BY <1>4, <1>5

\* The transfer that is found pays.
LEMMA FindEventStep ==
  ASSUME IInv, FindEvent
  PROVE  IInv'
<1>1. /\ pc = "event" /\ query \in Queries /\ resolved \in [decimals : Nat, index : Nat]
      /\ match.decimals = resolved.decimals /\ match.nonce = query.nonce
      /\ HasMinorUnits(query.amount, resolved.decimals)
      /\ UNCHANGED <<tables, query, resolved, match>>
  BY DEF IInv, Progress, FindEvent
<1>2. CASE Payments(query, resolved) = {}
  BY <1>1, <1>2, RefusalStep DEF FindEvent, Reasons
<1>3. CASE Payments(query, resolved) # {}
  <2>1. pc' = "answered" /\ answer' = "ok"
    BY <1>3 DEF FindEvent, Answer
  <2>2. \E e \in events : Pays(e, query, resolved)
    BY <1>1, <1>3, PaymentsPay DEF IInv
  <2>3. OkIsPaid'
    BY <1>1, <2>2 DEF OkIsPaid, Pays, tables
  <2> QED BY <1>1, <2>1, <2>3 DEF IInv, TypeOK, Progress, tables, Reasons
<1> QED BY <1>2, <1>3

LEMMA RefuseStep ==
  ASSUME IInv, RefuseAsset \/ NoMatch \/ TooManyPlaces \/ QueryFails
  PROVE  IInv'
<1>1. /\ pc # "idle" /\ UNCHANGED <<tables, query, resolved, match>>
      /\ \E reason \in Reasons \ {"ok"} : Answer(reason)
  BY DEF RefuseAsset, NoMatch, TooManyPlaces, QueryFails, Reasons
<1> QED BY <1>1, RefusalStep

LEMMA HandleStep ==
  ASSUME IInv, Handle
  PROVE  IInv'
BY ResolveStep, FindMatchStep, FindEventStep, RefuseStep DEF Handle

\* A challenge is posted: one row for a merchant and nonce.
LEMMA PostStep ==
  ASSUME IInv, NEW c \in Challenges, PostNew(c) \/ \E n \in Indexes : Post(c, n)
  PROVE  IInv'
<1> DEFINE Unique(rs) == \A i, j \in DOMAIN rs :
             rs[i].merchant = rs[j].merchant /\ rs[i].nonce = rs[j].nonce => i = j
<1>1. rows \in Seq(StoredChallenges) /\ Unique(rows)
  BY DEF IInv, TypeOK
<1>2. PICK s \in StoredChallenges :
        /\ s.merchant = c.merchant /\ s.nonce = c.nonce
        /\ rows' = IF RowsOf(c) = {}
                     THEN Append(rows, s)
                     ELSE [i \in DOMAIN rows |-> IF i \in RowsOf(c) THEN s ELSE rows[i]]
  <2>1. CASE PostNew(c)
    BY <2>1 DEF PostNew, StoredChallenges
  <2>2. ASSUME NEW n \in Indexes, Post(c, n)
        PROVE  \E s \in Normalised(c, n) :
                 rows' = IF RowsOf(c) = {}
                           THEN Append(rows, s)
                           ELSE [i \in DOMAIN rows |-> IF i \in RowsOf(c) THEN s ELSE rows[i]]
    BY <2>2 DEF Post
  <2> QED BY <2>1, <2>2, NormalisedFacts DEF IInv
<1>3. rows' \in Seq(StoredChallenges) /\ Unique(rows')
  <2>1. CASE RowsOf(c) = {}
    <3>1. rows' = Append(rows, s)
      BY <1>2, <2>1
    <3>2. \A i \in DOMAIN rows : rows[i].merchant # c.merchant \/ rows[i].nonce # c.nonce
      BY <2>1 DEF RowsOf
    <3>3. /\ rows' \in Seq(StoredChallenges) /\ DOMAIN rows' = 1..Len(rows) + 1
          /\ \A i \in DOMAIN rows : rows'[i] = rows[i]
          /\ rows'[Len(rows) + 1] = s
      BY <1>1, <3>1
    <3>4. DOMAIN rows = 1..Len(rows) /\ Len(rows) \in Nat
      BY <1>1
    <3>5. \A i \in DOMAIN rows' : i \in DOMAIN rows \/ i = Len(rows) + 1
      BY <3>3, <3>4
    <3> QED BY <1>1, <1>2, <3>2, <3>3, <3>5
  <2>2. CASE RowsOf(c) # {}
    <3>1. rows' = [i \in DOMAIN rows |-> IF i \in RowsOf(c) THEN s ELSE rows[i]]
      BY <1>2, <2>2
    <3>2. rows' \in Seq(StoredChallenges) /\ DOMAIN rows' = DOMAIN rows
      BY <1>1, <3>1
    <3>3. \A i \in DOMAIN rows : /\ rows'[i].merchant = rows[i].merchant
                                 /\ rows'[i].nonce = rows[i].nonce
      BY <1>2, <3>1 DEF RowsOf
    <3> QED BY <1>1, <3>2, <3>3
  <2> QED BY <2>1, <2>2
<1>4. UNCHANGED <<registry, events, request>>
  BY DEF PostNew, Post
<1>5. OkIsPaid'
  BY <1>4, PaidStays DEF IInv
<1> QED BY <1>3, <1>4, <1>5 DEF IInv, TypeOK, Progress, request

LEMMA RegisterStep ==
  ASSUME IInv, NEW a \in Assets, NEW d \in Decimals, NEW enabled \in BOOLEAN,
         Register(a, d, enabled)
  PROVE  IInv'
<1>1. UNCHANGED <<rows, events, request>>
  BY DEF Register
<1>2. registry' \in [Assets -> [decimals : Decimals, enabled : BOOLEAN] \cup {None}]
  <2>1. [decimals |-> d, enabled |-> enabled] \in [decimals : Decimals, enabled : BOOLEAN]
    OBVIOUS
  <2> QED BY <2>1 DEF IInv, TypeOK, Register
<1>3. OkIsPaid'
  BY <1>1, PaidStays DEF IInv
<1> QED BY <1>1, <1>2, <1>3 DEF IInv, TypeOK, Progress, request

LEMMA IngestStep ==
  ASSUME IInv, NEW e \in Transfers, Ingest(e)
  PROVE  IInv'
<1>1. UNCHANGED <<registry, rows, request>> /\ events' = events \cup {e}
  BY DEF Ingest
<1>2. OkIsPaid'
  BY <1>1, PaidStays DEF IInv
<1> QED BY <1>1, <1>2 DEF IInv, TypeOK, Progress, request

LEMMA StutterStep == IInv /\ UNCHANGED vars => IInv'
  <1> SUFFICES ASSUME IInv, UNCHANGED vars PROVE IInv'
    OBVIOUS
  <1>1. OkIsPaid'
    BY PaidStays DEF IInv, vars, tables
  <1> QED BY <1>1 DEF IInv, TypeOK, Progress, vars, tables, request

LEMMA IInvStep == IInv /\ [Next]_vars => IInv'
BY AskStep, HandleStep, PostStep, RegisterStep, IngestStep, StutterStep DEF Next

\* The inductive invariant holds of every state.
THEOREM Inductive == Spec => []IInv
BY InitIInv, IInvStep, PTL DEF Spec

\* The types, and one row for a merchant and nonce, although challenges are posted anew
\* (ON CONFLICT of upsertChallenge) and the handler stands at any of its awaits.
THEOREM TypeCorrect == Spec => []TypeOK
<1>1. IInv => TypeOK
  BY DEF IInv
<1> QED BY <1>1, Inductive, PTL

\* The exact-match alias says "ok" to a query that requires a transfer only if there is
\* one that is worth the amount, on the chain and at the genesis index resolved, in the
\* decimals of the challenge that was found.
THEOREM OkIsBacked == Spec => []OkIsPaid
<1>1. IInv => OkIsPaid
  BY DEF IInv
<1> QED BY <1>1, Inductive, PTL

\* The texts that hasMatchingPltEvent compares are equal exactly if the amounts are, for
\* every amount a gateway may write and every transfer that may be stored.
THEOREM TextsAreAlwaysWorth == Spec => []TextsAreWorth
<1>1. IInv => TextsAreWorth
  <2> SUFFICES ASSUME IInv, pc = "event", NEW amount \in Prices, NEW e \in events,
                      HasMinorUnits(amount, resolved.decimals)
               PROVE  RawText(e.raw) = ToMinorUnits(amount, resolved.decimals)
                        <=> IsWorth(e.raw, amount, resolved.decimals)
    BY DEF TextsAreWorth
  <2>1. IsAmount(amount) /\ e.raw \in Nat /\ resolved.decimals \in Nat
    BY AmountsAssumption DEF IInv, TypeOK, Progress
  <2> QED BY <2>1, EqualTexts
<1> QED BY <1>1, Inductive, PTL

-----------------------------------------------------------------------------
(* What is not found.                                                      *)

\* The alias says "no_event" only if there is no transfer that pays.
THEOREM NoEventIsAlwaysTrue == Spec => NoEventIsTrue
<1>1. ASSUME IInv, Next, answer' = "no_event", answer # "no_event"
      PROVE  \A e \in events :
               e.network = NormalizeNetworkId(e.network) => ~Pays(e, query, resolved)
  <2>1. CASE FindEvent
    <3>1. /\ TypeOK /\ query \in Queries /\ resolved \in [decimals : Nat, index : Nat]
          /\ HasMinorUnits(query.amount, resolved.decimals)
      BY <1>1, <2>1 DEF IInv, Progress, FindEvent
    <3>2. Payments(query, resolved) = {}
      BY <1>1, <2>1 DEF FindEvent, Answer
    <3> QED BY <3>1, <3>2, PaymentsPay
  <2>2. ASSUME NEW q \in Queries, Ask(q) PROVE FALSE
    BY <1>1, <2>2, NoneAssumption DEF Ask, Reasons
  <2>3. ASSUME Handle, ~FindEvent PROVE FALSE
    BY <1>1, <2>3 DEF Handle, ResolveGiven, ResolveRegistered, ResolveDefault,
       PassUnregistered, PassRegistered, GoSearch, RefuseAsset, FindMatch, NoMatch,
       TooManyPlaces, QueryFails, Answer
  <2>4. ASSUME UNCHANGED request PROVE FALSE
    BY <1>1, <2>4 DEF request
  <2> QED BY <1>1, <2>1, <2>2, <2>3, <2>4 DEF Next, PostNew, Post, Register, Ingest
<1>2. IInv /\ [Next]_vars =>
        [answer' = "no_event" /\ answer # "no_event"
           => \A e \in events :
                e.network = NormalizeNetworkId(e.network) => ~Pays(e, query, resolved)]_vars
  BY <1>1
<1> QED BY <1>2, Inductive, PTL DEF Spec, NoEventIsTrue

\* The rows of a set that are newer than row i.
Newer(found, i) == {j \in found : j > i}

\* A search for the newest rows of a smaller set finds what one in a larger set does.
LEMMA NewestOfFewer ==
  ASSUME TypeOK, NEW more \in SUBSET DOMAIN rows, NEW less \in SUBSET more,
         NEW i \in less
  PROVE  /\ Cardinality(Newer(less, i)) \in Nat
         /\ i \in Newest(more) => i \in Newest(less)
<1> DEFINE newer == Newer(more, i)
           fewer == Newer(less, i)
<1>1. IsFiniteSet(DOMAIN rows)
  <2>1. DOMAIN rows = 1..Len(rows) /\ Len(rows) \in Nat
    BY DEF TypeOK
  <2> QED BY <2>1, FS_Interval
<1>2. IsFiniteSet(newer)
  BY <1>1, FS_Subset DEF Newer
<1>3. IsFiniteSet(fewer) /\ Cardinality(fewer) <= Cardinality(newer)
  BY <1>2, FS_Subset DEF Newer
<1>4. Cardinality(newer) \in Nat /\ Cardinality(fewer) \in Nat
  BY <1>2, <1>3, FS_CardinalityType
<1>5. ASSUME i \in Newest(more) PROVE i \in Newest(less)
  <2>1. Cardinality(newer) < SearchLimit
    BY <1>5 DEF Newest, Newer
  <2>2. Cardinality(fewer) < SearchLimit
    BY <1>3, <1>4, <2>1, BoundsAssumption
  <2> QED BY <2>2 DEF Newest, Newer
<1> QED BY <1>3, <1>4, <1>5

\* The alias searches among the rows of the network only, and finds what the other
\* route finds.
LEMMA AliasFindsMore ==
  ASSUME TypeOK, NEW q, NEW d, PostMatch(q, d) # {}
  PROVE  AliasMatch(q, d) # {}
<1> DEFINE all == Candidates(q)
           here == OnNetwork(all, q)
           searched == IF Cardinality(NetworkCandidates(q.network)) = 1 THEN here ELSE all
<1>1. PICK i \in Exact(OnNetwork(Newest(searched), q), q, d) : TRUE
  BY DEF PostMatch
<1>2. here \subseteq all /\ all \subseteq DOMAIN rows /\ here \subseteq searched
      /\ searched \subseteq all
  BY DEF OnNetwork, Candidates
<1> HIDE DEF searched
<1>3. i \in Newest(searched) /\ i \in searched /\ rows[i].network \in NetworkCandidates(q.network)
  BY <1>1 DEF Exact, OnNetwork, Newest
<1>4. i \in here
  BY <1>2, <1>3 DEF OnNetwork
<1> HIDE DEF here
<1>5. i \in Newest(here)
  BY <1>2, <1>3, <1>4, NewestOfFewer
<1>6. i \in Exact(Newest(here), q, d)
  BY <1>1, <1>5 DEF Exact
<1> QED BY <1>6 DEF AliasMatch, here

\* In the same decimals GET /payments/exact-match finds what POST /payments/match finds,
\* whatever the other rows are that fill the search window.
THEOREM AliasIsNoWorse == Spec => []AliasFindsMatches
<1>1. IInv => AliasFindsMatches
  BY AliasFindsMore DEF IInv, AliasFindsMatches
<1> QED BY <1>1, Inductive, PTL

\* Both routes overlook a challenge with the terms asked for only behind SearchLimit
\* newer ones.
LEMMA HiddenBehindNewer ==
  ASSUME TypeOK, NEW q \in Queries, NEW d, Found(q, d) = {},
         NEW i \in Exact(Candidates(q), q, d),
         CanonicalChainId(rows[i].network) = CanonicalChainId(q.network)
  PROVE  Cardinality(Newer(Candidates(q), i)) >= SearchLimit
<1> DEFINE all == Candidates(q)
           here == OnNetwork(all, q)
           searched == IF Cardinality(NetworkCandidates(q.network)) = 1 THEN here ELSE all
           newer == Newer(all, i)
<1>1. i \in all /\ all \subseteq DOMAIN rows /\ here \subseteq all
  BY DEF Exact, Candidates, OnNetwork
<1>2. rows[i].network \in NetworkCandidates(q.network)
  <2>1. rows[i] \in StoredChallenges
    BY <1>1 DEF TypeOK
  <2> QED BY <2>1, StoredNetworks, NetworksAssumption, CandidatesFacts
<1>3. i \in here /\ here \subseteq searched /\ searched \subseteq all
  BY <1>1, <1>2 DEF OnNetwork
<1> HIDE DEF all, here, searched
<1>4. Cardinality(newer) \in Nat
  <2>1. all \in SUBSET DOMAIN rows /\ all \in SUBSET all
    BY <1>1
  <2> QED BY <1>1, <2>1, NewestOfFewer
<1> SUFFICES ASSUME Cardinality(newer) < SearchLimit PROVE FALSE
  BY <1>4, BoundsAssumption DEF all
<1>5. i \in Newest(all)
  BY <1>1 DEF Newest, Newer
<1>6. i \in Newest(here) /\ i \in Newest(searched)
  BY <1>1, <1>3, <1>5, NewestOfFewer
<1>7. i \in AliasMatch(q, d)
  BY <1>6 DEF AliasMatch, Exact, all, here
<1>8. i \in PostMatch(q, d)
  <2>1. i \in OnNetwork(Newest(searched), q)
    BY <1>2, <1>6 DEF OnNetwork
  <2>2. i \in Exact(OnNetwork(Newest(searched), q), q, d)
    BY <2>1 DEF Exact
  <2> QED BY <2>2 DEF PostMatch, searched, all, here
<1> QED BY <1>7, <1>8 DEF Found

\* A "no_match" of either route is true, or due to the search window.
THEOREM OverlookedIsAlwaysHidden == Spec => OverlookedIsHidden
<1> DEFINE Hidden ==
             answer' = "no_match" /\ answer # "no_match"
               => \A i \in Exact(Candidates(query), query, resolved.decimals) :
                    CanonicalChainId(rows[i].network) = CanonicalChainId(query.network)
                      => Cardinality({j \in Candidates(query) : j > i}) >= SearchLimit
<1>1. ASSUME IInv, Next PROVE Hidden
  <2> SUFFICES ASSUME answer' = "no_match", answer # "no_match"
               PROVE  \A i \in Exact(Candidates(query), query, resolved.decimals) :
                        CanonicalChainId(rows[i].network) = CanonicalChainId(query.network)
                          => Cardinality({j \in Candidates(query) : j > i}) >= SearchLimit
    OBVIOUS
  <2>1. CASE NoMatch
    <3>1. TypeOK /\ query \in Queries /\ Found(query, resolved.decimals) = {}
      BY <1>1, <2>1 DEF IInv, Progress, NoMatch
    <3> QED BY <3>1, HiddenBehindNewer DEF Newer
  <2>2. ASSUME NEW q \in Queries, Ask(q) PROVE FALSE
    BY <2>2, NoneAssumption DEF Ask, Reasons
  <2>3. ASSUME Handle, ~NoMatch PROVE FALSE
    BY <2>3 DEF Handle, ResolveGiven, ResolveRegistered, ResolveDefault,
       PassUnregistered, PassRegistered, GoSearch, RefuseAsset, FindMatch, FindEvent,
       TooManyPlaces, QueryFails, Answer
  <2>4. ASSUME UNCHANGED request PROVE FALSE
    BY <2>4 DEF request
  <2> QED BY <1>1, <2>1, <2>2, <2>3, <2>4 DEF Next, PostNew, Post, Register, Ingest
<1>2. IInv /\ [Next]_vars => [Hidden]_vars
  BY <1>1
<1> QED BY <1>2, Inductive, PTL DEF Spec, OverlookedIsHidden
=============================================================================
