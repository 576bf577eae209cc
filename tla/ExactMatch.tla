----------------------------- MODULE ExactMatch -----------------------------
(***************************************************************************)
(* GET /v1/crp/payments/exact-match (http/crpExactMatchAlias.ts) and POST  *)
(* /v1/crp/payments/match (routes/crp.payments.ts): has a challenge been   *)
(* posted, and, for the former, is there a transfer that pays it?  The     *)
(* answer takes up to three awaits: decimals and genesis index from the    *)
(* registry, the challenge, the transfer.  Meanwhile the tables change.    *)
(***************************************************************************)
EXTENDS Networks, Amounts, FiniteSets

CONSTANTS
  Chains,        \* the chains that networks name
  Prices,        \* the amounts that challenges and queries name
  Assets,        \* keys of crp_plt_assets, [network, index, token]
  Decimals,      \* the decimals that a registry row may have
  Challenges,    \* challenge rows, [merchant, nonce, network, type, token, decimals,
                 \* amount, payTo]
  Transfers,     \* rows of crp_plt_events, [network, index, token, to, raw]
  Queries,       \* what is asked: the fields of a challenge, `decimals` may be None, the
                 \* genesis index of the body or None, requireEvent, and the route:
                 \* "alias" or "match"
  Indexes,       \* genesis indexes that bodies of POST /v1/crp/payments name
  SearchLimit,   \* rows searchPayments returns at most (100 in the code)
  DefaultIndex,  \* CRP_DEFAULT_NETWORK_GENESIS_INDEX
  None

ASSUME BoundsAssumption ==
  /\ SearchLimit \in Nat \ {0} /\ DefaultIndex \in Nat /\ Decimals \subseteq Nat
  /\ Indexes \subseteq Nat /\ \A a \in Assets : a.index \in Nat

ASSUME AmountsAssumption ==
  /\ \A amount \in Prices : IsAmount(amount)
  /\ \A c \in Challenges : c.amount \in Prices
  /\ \A q \in Queries :
       /\ q.decimals \in Nat \cup {None} /\ q.index \in Nat \cup {None}
       /\ q.amount \in Prices /\ q.requireEvent \in BOOLEAN /\ q.route \in {"alias", "match"}
       /\ q.route = "match" => ~q.requireEvent
  /\ \A e \in Transfers : e.raw \in Nat

\* Challenges are stored under the normal form of their network; registry rows and
\* transfers need not be, some were stored before there was one.
ASSUME NetworksAssumption ==
  /\ \A x \in Assets \cup Challenges \cup Transfers \cup Queries :
       x.network \in NetworkIds(Chains)
  /\ \A c \in Challenges : c.network = NormalizeNetworkId(c.network)

ASSUME ChallengesAssumption ==
  \A c \in Challenges :
    DOMAIN c = {"merchant", "nonce", "network", "type", "token", "decimals", "amount", "payTo"}

VARIABLES
  registry,  \* crp_plt_assets: registry[a], [decimals, enabled], or None
  rows,      \* the table challenges, in the order of created_at
  events,    \* crp_plt_events
  pc,        \* the await at which the handler stands
  query,     \* what is asked
  resolved,  \* decimals and genesis index, while they are in use
  match,     \* the challenge found
  answer     \* the reason answered

\* POST /v1/crp/payments stores decimals of the registry for decimals of 0.
StoredChallenges ==
  Challenges \cup {[c EXCEPT !.decimals = d] : c \in Challenges, d \in Decimals}

tables == <<registry, rows, events>>
request == <<pc, query, resolved, match, answer>>
vars == <<tables, request>>

Reasons == {"ok", "no_match", "no_event", "bad_request", "asset_disabled", "failed"}

ASSUME NoneAssumption == None \notin Reasons

TypeOK ==
  /\ registry \in [Assets -> [decimals : Decimals, enabled : BOOLEAN] \cup {None}]
  /\ rows \in Seq(StoredChallenges)
  /\ \A i, j \in DOMAIN rows :
       rows[i].merchant = rows[j].merchant /\ rows[i].nonce = rows[j].nonce => i = j
  /\ events \subseteq Transfers
  /\ pc \in {"idle", "resolve", "search", "event", "answered"}
  /\ query \in Queries \cup {None}
  /\ resolved \in [decimals : Nat, index : Nat] \cup {None}
  /\ match \in StoredChallenges \cup {None}
  /\ answer \in Reasons \cup {None}

Init ==
  /\ registry = [a \in Assets |-> None] /\ rows = <<>> /\ events = {}
  /\ pc = "idle" /\ query = None /\ resolved = None /\ match = None /\ answer = None

-----------------------------------------------------------------------------
(* Look-ups.                                                               *)

\* The registry rows of the token under any name of the network.
Registered(q) ==
  {a \in Assets : /\ registry[a] # None
                  /\ a.network \in NetworkCandidates(q.network)
                  /\ a.token = q.token}

\* ORDER BY network_genesis_index DESC LIMIT 1: one of these.
Latest(assets) == {a \in assets : \A b \in assets : b.index <= a.index}

\* getPltAsset: the row under the very name of the network, or else under its twin.
RegistryRow(n, index, token) ==
  LET found == {a \in Assets : /\ registry[a] # None
                               /\ a.network \in NetworkCandidates(n)
                               /\ a.index = index /\ a.token = token}
      exact == {a \in found : a.network = n}
  IN  IF exact # {} THEN exact ELSE found

\* The merchant, token and payTo filters of searchPayments.
Candidates(q) ==
  {i \in DOMAIN rows : /\ rows[i].merchant = q.merchant
                       /\ rows[i].token = q.token
                       /\ rows[i].payTo = q.payTo}

OnNetwork(found, q) == {i \in found : rows[i].network \in NetworkCandidates(q.network)}

\* Mutation: the oldest rows first.
Oldest(found) == {i \in found : Cardinality({j \in found : j < i}) < SearchLimit}

\* ORDER BY created_at DESC LIMIT.
Newest(found) == {i \in found : Cardinality({j \in found : j > i}) < SearchLimit}

Exact(found, q, decimals) ==
  {i \in found : /\ rows[i].nonce = q.nonce
                 /\ rows[i].amount = q.amount
                 /\ rows[i].type = q.type
                 /\ rows[i].decimals = decimals}

\* Mutation: only the name in the query is searched.
AliasMatchByName(q, decimals) ==
  Exact(Newest({i \in Candidates(q) : rows[i].network = NormalizeNetworkId(q.network)}),
        q, decimals)

\* What the alias searches: the network is a filter of the query.
AliasMatch(q, decimals) == Exact(Newest(OnNetwork(Candidates(q), q)), q, decimals)

\* What POST /v1/crp/payments/match searches: with two names of a network the search is
\* not narrowed to it, the rows are compared afterwards.
PostMatch(q, decimals) ==
  LET found == Candidates(q)
      searched == IF Cardinality(NetworkCandidates(q.network)) = 1
                    THEN OnNetwork(found, q) ELSE found
  IN  Exact(OnNetwork(Newest(searched), q), q, decimals)

Found(q, decimals) ==
  IF q.route = "alias" THEN AliasMatch(q, decimals) ELSE PostMatch(q, decimals)

\* Mutation: the transfer's genesis index is not compared.
PaymentsOfAnyIndex(q, r) ==
  {e \in events : /\ e.network \in NetworkCandidates(q.network)
                  /\ e.token = q.token /\ e.to = q.payTo
                  /\ RawText(e.raw) = ToMinorUnits(q.amount, r.decimals)}

\* hasMatchingPltEvent.
Payments(q, r) ==
  {e \in events : /\ e.network \in NetworkCandidates(q.network)
                  /\ e.index = r.index
                  /\ e.token = q.token /\ e.to = q.payTo
                  /\ RawText(e.raw) = ToMinorUnits(q.amount, r.decimals)}

-----------------------------------------------------------------------------
(* The handler.                                                            *)

Answer(reason) == pc' = "answered" /\ answer' = reason

Ask(q) ==
  /\ pc \in {"idle", "answered"}
  /\ pc' = "resolve" /\ query' = q
  /\ resolved' = None /\ match' = None /\ answer' = None
  /\ UNCHANGED tables

\* The registry has been read.
GoSearch(decimals, index) ==
  /\ pc' = "search"
  /\ resolved' = [decimals |-> decimals, index |-> index]
  /\ UNCHANGED <<tables, query, match, answer>>

\* Decimals are given: only the genesis index is looked up, enabled or not; if there
\* is none, or the query fails, it is 0.
ResolveGiven ==
  /\ pc = "resolve" /\ query.route = "alias" /\ query.decimals # None
  /\ \/ \E a \in Latest(Registered(query)) : GoSearch(query.decimals, a.index)
     \/ GoSearch(query.decimals, 0)

Enabled(q) == {a \in Registered(q) : registry[a].enabled}

ResolveRegistered ==
  /\ pc = "resolve" /\ query.route = "alias" /\ query.decimals = None
  /\ \E a \in Latest(Enabled(query)) : GoSearch(registry[a].decimals, a.index)

\* No enabled row: two decimals, genesis index 0.
ResolveDefault ==
  /\ pc = "resolve" /\ query.route = "alias" /\ query.decimals = None
  /\ Enabled(query) = {}
  /\ GoSearch(2, 0)

\* For POST /v1/crp/payments/match, decimals that are not given are 0.
GivenDecimals(q) == IF q.decimals = None THEN 0 ELSE q.decimals

\* The genesis index of the body, or the configured one.
GenesisIndex(q) == IF q.index = None THEN DefaultIndex ELSE q.index

\* The row that normalizeAssetWithRegistry reads.
AssetRow(q) == RegistryRow(NormalizeNetworkId(q.network), GenesisIndex(q), q.token)

\* The row agrees with the decimals, where 0 is none.
Agrees(a, q) == GivenDecimals(q) > 0 => GivenDecimals(q) = registry[a].decimals

\* Without a row, or for another kind of asset, the decimals are taken as given.
PassUnregistered ==
  /\ pc = "resolve" /\ query.route = "match"
  /\ query.type # "PLT" \/ AssetRow(query) = {}
  /\ GoSearch(GivenDecimals(query), GenesisIndex(query))

PassRegistered ==
  /\ pc = "resolve" /\ query.route = "match" /\ query.type = "PLT"
  /\ \E a \in AssetRow(query) :
       /\ registry[a].enabled /\ Agrees(a, query)
       /\ GoSearch(registry[a].decimals, GenesisIndex(query))

RefuseAsset ==
  /\ pc = "resolve" /\ query.route = "match" /\ query.type = "PLT"
  /\ \E a \in AssetRow(query) :
       \/ ~registry[a].enabled /\ Answer("asset_disabled")
       \/ registry[a].enabled /\ ~Agrees(a, query) /\ Answer("bad_request")
  /\ UNCHANGED <<tables, query, resolved, match>>

\* The challenge is looked up; without requireEvent it is all that is asked.
FindMatch ==
  /\ pc = "search"
  /\ \E i \in Found(query, resolved.decimals) : match' = rows[i]
  /\ IF query.requireEvent THEN pc' = "event" /\ UNCHANGED answer
                           ELSE Answer("ok")
  /\ UNCHANGED <<tables, query, resolved>>

NoMatch ==
  /\ pc = "search" /\ Found(query, resolved.decimals) = {}
  /\ Answer("no_match")
  /\ UNCHANGED <<tables, query, resolved, match>>

\* toMinorUnits throws.
TooManyPlaces ==
  /\ pc = "event" /\ ~HasMinorUnits(query.amount, resolved.decimals)
  /\ Answer("bad_request")
  /\ UNCHANGED <<tables, query, resolved, match>>

FindEvent ==
  /\ pc = "event" /\ HasMinorUnits(query.amount, resolved.decimals)
  /\ Answer(IF Payments(query, resolved) = {} THEN "no_event" ELSE "ok")
  /\ UNCHANGED <<tables, query, resolved, match>>

\* A query fails: 500.  Only the alias's look-up of a genesis index may fail unnoticed.
QueryFails ==
  /\ pc \in {"resolve", "search", "event"}
  /\ pc = "resolve" =>
       IF query.route = "alias" THEN query.decimals = None ELSE query.type = "PLT"
  /\ Answer("failed")
  /\ UNCHANGED <<tables, query, resolved, match>>

-----------------------------------------------------------------------------
(* Others change the tables.                                               *)

\* Mutation: a plain INSERT.
PostTwice(c) ==
  /\ rows' = Append(rows, c)
  /\ UNCHANGED <<registry, events, request>>

\* The rows of the challenge: one at most.
RowsOf(c) ==
  {i \in DOMAIN rows : rows[i].merchant = c.merchant /\ rows[i].nonce = c.nonce}

\* POST /v1/challenges, with a new nonce: no registry is asked.
PostNew(c) ==
  /\ RowsOf(c) = {}
  /\ rows' = Append(rows, c)
  /\ UNCHANGED <<registry, events, request>>

\* What normalizeAssetWithRegistry makes of a challenge posted with the genesis index n:
\* nothing, if it refuses; as it is, if there is no row; else in the row's decimals.
Normalised(c, n) ==
  LET row == RegistryRow(c.network, n, c.token)
  IN  IF c.type # "PLT" \/ row = {}
        THEN {c}
        ELSE {[c EXCEPT !.decimals = registry[a].decimals] :
                a \in {b \in row : /\ registry[b].enabled
                                  /\ c.decimals > 0 => c.decimals = registry[b].decimals}}

\* POST /v1/crp/payments: a row that is there keeps its created_at.
Post(c, n) ==
  /\ \E posted \in Normalised(c, n) :
       rows' = IF RowsOf(c) = {}
                 THEN Append(rows, posted)
                 ELSE [i \in DOMAIN rows |-> IF i \in RowsOf(c) THEN posted ELSE rows[i]]
  /\ UNCHANGED <<registry, events, request>>

\* seedPltAssets, or an operator: a row is inserted or updated.
Register(a, d, enabled) ==
  /\ registry' = [registry EXCEPT ![a] = [decimals |-> d, enabled |-> enabled]]
  /\ UNCHANGED <<rows, events, request>>

\* insertPltTransfers; the foreign key wants a registry row.
Ingest(e) ==
  /\ \E a \in Assets : /\ registry[a] # None
                       /\ a.network = e.network /\ a.index = e.index /\ a.token = e.token
  /\ events' = events \cup {e}
  /\ UNCHANGED <<registry, rows, request>>

Handle ==
  \/ ResolveGiven \/ ResolveRegistered \/ ResolveDefault
  \/ PassUnregistered \/ PassRegistered \/ RefuseAsset
  \/ FindMatch \/ NoMatch \/ TooManyPlaces \/ FindEvent \/ QueryFails

Next ==
  \/ \E q \in Queries : Ask(q)
  \/ Handle
  \/ \E c \in Challenges : PostNew(c) \/ \E n \in Indexes : Post(c, n)
  \/ \E a \in Assets, d \in Decimals, enabled \in BOOLEAN : Register(a, d, enabled)
  \/ \E e \in Transfers : Ingest(e)

Spec == Init /\ [][Next]_vars

-----------------------------------------------------------------------------
(* Properties.                                                             *)

\* The transfer e pays what q asks for, in numbers and by the chain it is on.
Pays(e, q, r) ==
  /\ CanonicalChainId(e.network) = CanonicalChainId(q.network)
  /\ e.index = r.index /\ e.token = q.token /\ e.to = q.payTo
  /\ IsWorth(e.raw, q.amount, r.decimals)

\* An "ok" that required an event is backed by a transfer that is worth the amount
\* asked, in the decimals of the challenge that was found, although registry, challenge
\* and transfer were read one after another.
OkIsPaid ==
  (answer = "ok" /\ query.requireEvent)
    => /\ match.decimals = resolved.decimals /\ match.nonce = query.nonce
       /\ \E e \in events : Pays(e, query, resolved)

\* Whatever the amount of a challenge is, a stored transfer is found to pay it if and
\* only if it is worth it: no zero, sign or place before or behind the point makes two
\* texts of toMinorUnits and the database equal, or different, that should not be.
TextsAreWorth ==
  pc = "event" =>
    \A amount \in Prices, e \in events :
      HasMinorUnits(amount, resolved.decimals) =>
        (RawText(e.raw) = ToMinorUnits(amount, resolved.decimals)
           <=> IsWorth(e.raw, amount, resolved.decimals))

\* "no_event" is said only if no transfer pays that is stored by then, under a normal
\* name of its network: the comparison of texts overlooks none, whatever zeros and
\* names of the network are used.  What is stored under another spelling is never found.
NoEventIsTrue ==
  [][answer' = "no_event" /\ answer # "no_event"
       => \A e \in events :
            e.network = NormalizeNetworkId(e.network) => ~Pays(e, query, resolved)]_vars

\* A "no_match" is said only if no challenge has the terms that are asked for, under
\* either name of the network, or if SearchLimit newer ones hide it, those of the same
\* merchant, token and payTo.
OverlookedIsHidden ==
  [][answer' = "no_match" /\ answer # "no_match"
       => \A i \in Exact(Candidates(query), query, resolved.decimals) :
            CanonicalChainId(rows[i].network) = CanonicalChainId(query.network)
              => Cardinality({j \in Candidates(query) : j > i}) >= SearchLimit]_vars

\* In the same decimals the alias finds whatever POST /v1/crp/payments/match finds, also
\* where newer rows of another network fill the window of the latter.  (The decimals are
\* the same only if both routes read one registry row: the alias takes the latest
\* enabled row of the token, or 2, where the other takes the row at the genesis index of
\* the body, enabled or refused, or the decimals of the body.)
AliasFindsMatches ==
  \A q \in Queries : \A d \in {rows[i].decimals : i \in DOMAIN rows} :
    PostMatch(q, d) # {} => AliasMatch(q, d) # {}
=============================================================================
