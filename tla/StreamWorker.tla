---------------------------- MODULE StreamWorker ----------------------------
(***************************************************************************)
(* The PLT stream worker (worker/main.ts with pltSource.concordium.ts): it *)
(* copies the token transfers of one account from the wallet proxy into    *)
(* crp_plt_events.  A worker process resolves its start cursor, then polls *)
(* for ever: fetch a page, insert its new transfers, save the cursor.  Any *)
(* failing call ends the process, and whoever runs it starts it again; two *)
(* processes with the same cursor key may run at once, some of them dry    *)
(* runs, which store nothing.  One action is one await.  Runs from the     *)
(* fixture file are left out.                                              *)
(***************************************************************************)
EXTENDS Integers, FiniteSets

CONSTANTS
  Ids,            \* wallet-proxy ids of the account's transactions
  Transfers,      \* those that are transfers of the asset
  Late,           \* those that may become visible after higher ids
  Workers,        \* worker processes
  DryRuns,        \* those with CRP_STREAM_DRY_RUN
  PersistInDryRun, \* CRP_STREAM_PERSIST_CURSOR_IN_DRY_RUN
  Limit,          \* length of a page
  Overlap,        \* CRP_STREAM_OVERLAP
  MaxAhead,       \* CRP_STREAM_CURSOR_MAX_AHEAD
  Rewind,         \* CRP_STREAM_CURSOR_REWIND
  ZeroIsGenesis,  \* CRP_STREAM_ZERO_IS_GENESIS
  Overrides,      \* what CRP_STREAM_LAST_HEIGHT may be at a start, None if not enabled
  FirstCursors,   \* what crp_stream_cursors may hold at first
  MaxStops,       \* bound on processes that die or are stopped
  None

ASSUME IdsAssumption ==
  Ids \subseteq Nat \ {0} /\ Transfers \subseteq Ids /\ Late \subseteq Ids

ASSUME ConfigAssumption ==
  /\ Limit \in Nat \ {0} /\ Overlap \in Nat
  /\ MaxAhead \in Nat /\ Rewind \in Nat /\ MaxStops \in Nat
  /\ ZeroIsGenesis \in BOOLEAN /\ PersistInDryRun \in BOOLEAN
  /\ Overrides \subseteq Nat \cup {None} /\ FirstCursors \subseteq Nat \cup {None}

ASSUME NoneAssumption == None \notin Nat

VARIABLES
  visible,     \* the ids the wallet proxy shows
  registered,  \* crp_plt_assets has the asset
  stored,      \* crp_plt_events: the transfers inserted
  saved,       \* crp_stream_cursors: the last_height of the cursor key, or None
  first,       \* history: what saved was at first, 0 if None
  floor,       \* history: the highest start so far that was not the saved cursor
  stops,       \* number of stops so far
  pc,          \* pc[w]: the await at which the process w stands
  cursor,      \* pc-local: lastHeightExclusive (start, while it is resolved)
  latest,      \* ... the latestId of resolveStartCursor, until the clamp is saved
  batch,       \* ... the events of fetchSince
  best         \* ... its bestHeight

outside == <<visible, registered, first>>
database == <<stored, saved>>
locals == <<cursor, latest, batch, best>>
vars == <<outside, database, floor, stops, pc, locals>>

Stages == {"stopped", "resolve", "clamp", "from_now", "fetch", "insert", "save"}

TypeOK ==
  /\ visible \subseteq Ids /\ registered \in BOOLEAN
  /\ stored \subseteq Transfers /\ saved \in Nat \cup {None}
  /\ first \in Nat /\ floor \in Nat /\ stops \in 0..MaxStops
  /\ pc \in [Workers -> Stages]
  /\ cursor \in [Workers -> Nat] /\ latest \in [Workers -> Nat]
  /\ batch \in [Workers -> SUBSET Transfers] /\ best \in [Workers -> Nat]

Greatest(m, n) == IF m > n THEN m ELSE n

\* A cursor that may be missing counts as 0.
OrZero(c) == IF c = None THEN 0 ELSE c

Init ==
  /\ visible = {} /\ registered = FALSE
  /\ stored = {} /\ saved \in FirstCursors
  /\ first = OrZero(saved) /\ floor = 0
  /\ stops = 0
  /\ pc = [w \in Workers |-> "stopped"]
  /\ cursor = [w \in Workers |-> 0] /\ latest = [w \in Workers |-> 0]
  /\ batch = [w \in Workers |-> {}] /\ best = [w \in Workers |-> 0]

GoTo(w, stage) == pc' = [pc EXCEPT ![w] = stage]

\* Mutation: the last writer wins.
LastUpsert(n) == saved' = n

\* upsertCursor: never back.
Upsert(n) == saved' = Greatest(OrZero(saved), n)

-----------------------------------------------------------------------------
(* The wallet proxy, and the operator.                                     *)

\* A transaction of the account becomes visible: in the order of the ids, but for
\* the late ones, which may come when higher ids are there already.
Appear(i) ==
  /\ i \notin visible
  /\ \A j \in Ids \ Late : j < i => j \in visible
  /\ visible' = visible \cup {i}
  /\ UNCHANGED <<registered, first, database, floor, stops, pc, locals>>

\* seedPltAssets inserts the asset's row; nobody deletes one.
SeedAsset ==
  /\ registered' = TRUE
  /\ UNCHANGED <<visible, first, database, floor, stops, pc, locals>>

-----------------------------------------------------------------------------
(* resolveStartCursor.                                                     *)

\* Mutation: the cursor in the database is ignored.
StartAfresh(w) ==
  /\ pc[w] = "stopped"
  /\ \E o \in Overrides :
       /\ cursor' = [cursor EXCEPT ![w] = OrZero(o)]
       /\ floor' = Greatest(floor, OrZero(o))
  /\ GoTo(w, "resolve")
  /\ UNCHANGED <<outside, database, stops, latest, batch, best>>

\* A process starts and reads the saved cursor; an override goes first.
Start(w) ==
  /\ pc[w] = "stopped"
  /\ \E o \in Overrides :
       /\ cursor' = [cursor EXCEPT ![w] = IF o # None THEN o ELSE OrZero(saved)]
       /\ floor' = Greatest(floor, OrZero(o))
  /\ GoTo(w, "resolve")
  /\ UNCHANGED <<outside, database, stops, latest, batch, best>>

\* getLatestAccountTransactionId: 0 if the account has no transaction.
IsLatest(n) ==
  /\ n \in visible \cup {0}
  /\ \A i \in visible : i <= n

FromNow(start) == start = 0 /\ ~ZeroIsGenesis

\* The cursor of w becomes the latest id n, and will be saved as such.
GoFromNow(w, n) ==
  /\ cursor' = [cursor EXCEPT ![w] = n]
  /\ floor' = Greatest(floor, n)
  /\ GoTo(w, "from_now")

\* Mutation: a rewind that may go below 0.
Rewound(n) == n - Rewind

\* Math.max(0, latestId - rewindOnClamp)
Clamped(n) == Greatest(0, n - Rewind)

\* The start is taken as it is: an account without transactions is not clamped.
Resume(w) ==
  /\ pc[w] = "resolve"
  /\ \E n \in visible \cup {0} :
       /\ IsLatest(n)
       /\ n > 0 => cursor[w] <= n + MaxAhead /\ ~FromNow(cursor[w])
  /\ GoTo(w, "fetch")
  /\ UNCHANGED <<outside, database, floor, stops, locals>>

\* A cursor too far ahead of the proxy is moved back: the process passes over what lies
\* below, whether it is stored or not.
Clamp(w) ==
  /\ pc[w] = "resolve"
  /\ \E n \in visible :
       /\ IsLatest(n)
       /\ cursor[w] > n + MaxAhead
       /\ cursor' = [cursor EXCEPT ![w] = Clamped(n)]
       /\ latest' = [latest EXCEPT ![w] = n]
       /\ floor' = Greatest(floor, Clamped(n))
  /\ GoTo(w, "clamp")
  /\ UNCHANGED <<outside, database, stops, batch, best>>

\* A start at 0 means "from now".
StartFromNow(w) ==
  /\ pc[w] = "resolve" /\ FromNow(cursor[w])
  /\ \E n \in visible : IsLatest(n) /\ GoFromNow(w, n)
  /\ UNCHANGED <<outside, database, stops, latest, batch, best>>

\* The clamped cursor is saved, in vain if a greater one is; then a cursor clamped
\* to 0 is taken for "from now" as well.
SaveClamped(w) ==
  /\ pc[w] = "clamp"
  /\ Upsert(cursor[w])
  /\ latest' = [latest EXCEPT ![w] = 0]
  /\ IF FromNow(cursor[w]) THEN GoFromNow(w, latest[w])
                           ELSE GoTo(w, "fetch") /\ UNCHANGED <<cursor, floor>>
  /\ UNCHANGED <<outside, stored, stops, batch, best>>

SaveFromNow(w) ==
  /\ pc[w] = "from_now"
  /\ Upsert(cursor[w])
  /\ GoTo(w, "fetch")
  /\ UNCHANGED <<outside, stored, floor, stops, locals>>

-----------------------------------------------------------------------------
(* runWorker.                                                              *)

\* Mutation: the newest transactions first.
IsNewestPage(page, from) ==
  LET after == {i \in visible : i > from} IN
  /\ page \subseteq after /\ Cardinality(page) <= Limit
  /\ \A i \in page, j \in after : j > i => j \in page
  /\ page # after => Cardinality(page) = Limit

\* The wallet proxy's answer: the first Limit ids above from.
IsPage(page, from) ==
  LET after == {i \in visible : i > from} IN
  /\ page \subseteq after /\ Cardinality(page) <= Limit
  /\ \A i \in page, j \in after : j < i => j \in page
  /\ page # after => Cardinality(page) = Limit

\* What fetchSince extracts: the page's transfers beyond the cursor; the overlap is
\* fetched, but filtered out.
NewTransfers(page, c) == {i \in page \cap Transfers : i > c}

\* Mutation: a page without transfers is no progress.
FetchTransfers(w) ==
  /\ pc[w] = "fetch"
  /\ \E page \in SUBSET visible :
       /\ IsPage(page, Greatest(0, cursor[w] - Overlap))
       /\ batch' = [batch EXCEPT ![w] = NewTransfers(page, cursor[w])]
       /\ \E b \in page \cup {cursor[w]} :
            /\ b >= cursor[w] /\ \A i \in page : i <= b
            /\ best' = [best EXCEPT ![w] = b]
            /\ GoTo(w, IF NewTransfers(page, cursor[w]) = {} THEN "fetch"
                                                             ELSE "insert")
  /\ UNCHANGED <<outside, database, floor, stops, cursor, latest>>

\* Mutation: a dry run saves its progress.
SaveAlways(w) == "save"

\* Where a process with progress goes on: a dry run does not save it.
AfterProgress(w) ==
  IF w \in DryRuns /\ ~PersistInDryRun THEN "fetch" ELSE "save"

\* One tick up to the insert.  Nothing is inserted for a page without new transfers:
\* the cursor moves on at once, if at all.
Fetch(w) ==
  /\ pc[w] = "fetch"
  /\ \E page \in SUBSET visible :
       /\ IsPage(page, Greatest(0, cursor[w] - Overlap))
       /\ batch' = [batch EXCEPT ![w] = NewTransfers(page, cursor[w])]
       /\ \E b \in page \cup {cursor[w]} :
            /\ b >= cursor[w] /\ \A i \in page : i <= b
            /\ IF NewTransfers(page, cursor[w]) # {}
                 THEN /\ best' = [best EXCEPT ![w] = b]
                      /\ GoTo(w, "insert")
                      /\ UNCHANGED cursor
                 ELSE /\ cursor' = [cursor EXCEPT ![w] = b]
                      /\ GoTo(w, IF b > cursor[w] THEN AfterProgress(w) ELSE "fetch")
                      /\ UNCHANGED best
  /\ UNCHANGED <<outside, database, floor, stops, latest>>

\* The events of the page are done with: the cursor in memory follows.
Progress(w) ==
  /\ cursor' = [cursor EXCEPT ![w] = best[w]]
  /\ batch' = [batch EXCEPT ![w] = {}]
  /\ best' = [best EXCEPT ![w] = 0]
  /\ GoTo(w, AfterProgress(w))
  /\ UNCHANGED <<outside, saved, floor, stops, latest>>

\* insertPltTransfers, one idempotent statement.
Insert(w) ==
  /\ pc[w] = "insert" /\ w \notin DryRuns /\ registered
  /\ stored' = stored \cup batch[w]
  /\ Progress(w)

\* A dry run passes over the insert.
WouldInsert(w) ==
  /\ pc[w] = "insert" /\ w \in DryRuns
  /\ Progress(w)
  /\ UNCHANGED stored

\* The process w ends; what it had in memory is lost.
End(w) ==
  /\ GoTo(w, "stopped")
  /\ cursor' = [cursor EXCEPT ![w] = 0]
  /\ latest' = [latest EXCEPT ![w] = 0]
  /\ batch' = [batch EXCEPT ![w] = {}]
  /\ best' = [best EXCEPT ![w] = 0]
  /\ UNCHANGED <<outside, database, floor>>

\* The foreign key to the registry refuses the whole batch: the process dies of it.
InsertRefused(w) ==
  /\ pc[w] = "insert" /\ w \notin DryRuns /\ ~registered
  /\ End(w)
  /\ UNCHANGED stops

Save(w) ==
  /\ pc[w] = "save"
  /\ Upsert(cursor[w])
  /\ GoTo(w, "fetch")
  /\ UNCHANGED <<outside, stored, floor, stops, locals>>

\* A call that fails for good, a kill, a signal or maxTicks ends the process.  An
\* insert or upsert whose answer is lost is one that happened, then a Stop.
Stop(w) ==
  /\ stops < MaxStops /\ pc[w] # "stopped"
  /\ stops' = stops + 1
  /\ End(w)

-----------------------------------------------------------------------------
\* What the process w does by itself.
Step(w) ==
  \/ Resume(w) \/ Clamp(w) \/ StartFromNow(w) \/ SaveClamped(w) \/ SaveFromNow(w)
  \/ Fetch(w) \/ Insert(w) \/ WouldInsert(w) \/ InsertRefused(w) \/ Save(w)

Next ==
  \/ \E i \in Ids : Appear(i)
  \/ SeedAsset
  \/ \E w \in Workers : Start(w) \/ Step(w) \/ Stop(w)

Spec == Init /\ [][Next]_vars

\* A process goes on, one that has ended is started again, and the operator seeds the
\* asset in the end; stops and new transactions need not come.
Fairness ==
  /\ \A w \in Workers : WF_vars(Step(w)) /\ WF_vars(Start(w))
  /\ WF_vars(SeedAsset)

FairSpec == Spec /\ Fairness

-----------------------------------------------------------------------------
(* Properties.                                                             *)

\* All up to n is visible and accounted for, but for what is late, what was passed over
\* on purpose, and what lies at or below the first cursor: that may come from an earlier
\* numbering of the wallet proxy, and then says nothing of ids it has not shown yet.
Covered(n) ==
  \A i \in Ids \ Late :
    floor < i /\ first < i /\ i <= n => i \in visible /\ (i \in Transfers => i \in stored)

\* Whenever the process dies, the saved cursor is no further than the event table: no
\* transfer between the first cursor and it is missing, but for those that become visible
\* late, so no other is lost by resuming from it.  A dry run may save a start that it
\* clamps or moves to "from now", but no progress.
NothingMissed == Covered(OrZero(saved))

\* The saved cursor only moves forward, over transfers that are stored, and the
\* table grows by visible transfers only, whatever processes run side by side.
Promise == INSTANCE Ingestion
             WITH mark <- OrZero(saved), exempt <- Greatest(first, floor)

ImplementsIngestion == Promise!Spec

\* A start passes over transactions only while no cursor is saved, or, while the saved
\* one lies more than MaxAhead beyond the place it goes to, below that place: no restart
\* skips past the saved cursor or to within MaxAhead of it, neither by its clamp nor by
\* the "from now" that may follow the clamp after the chain has grown.  A saved cursor
\* beyond the chain stays (GREATEST), so each restart may skip again, up to there.
SkipsStayBehind ==
  [][floor' # floor => OrZero(saved) = 0 \/ floor' + MaxAhead < OrZero(saved)]_vars

\* Every transfer beyond the first cursor that no start passes over reaches the event
\* table, in spite of crashes, of restarts that clamp again, of dry runs beside, of an
\* asset seeded late, and of pages full of other transactions.
EventuallyStored ==
  \A i \in Transfers : i \in visible ~> i \in stored \/ i <= Greatest(first, floor)

\* What lies ahead of a polling process it stores, unless it ends: also after its
\* cursor was clamped, when the saved one is no guide.
PollerStores ==
  \A w \in Workers \ DryRuns, i \in Transfers :
    (pc[w] = "fetch" /\ i \in visible /\ cursor[w] < i)
      ~> (i \in stored \/ pc[w] = "stopped")

\* The overlap heals late visibility: a transfer that becomes visible within the
\* overlap behind the cursor of a polling process is stored, unless it ends.
LateIsHealed ==
  \A w \in Workers \ DryRuns, i \in Transfers :
    (pc[w] = "fetch" /\ i \in visible /\ cursor[w] - Overlap < i)
      ~> (i \in stored \/ pc[w] = "stopped")
=============================================================================
