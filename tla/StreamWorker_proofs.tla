------------------------ MODULE StreamWorker_proofs ------------------------
(***************************************************************************)
(* Proofs about StreamWorker, for any ids, processes, page length, overlap *)
(* and configuration: types, that nothing at or below the saved cursor is  *)
(* missing but what became visible late, the refinement of Ingestion, and  *)
(* where transactions are skipped.                                         *)
(***************************************************************************)
EXTENDS StreamWorker, TLAPS

-----------------------------------------------------------------------------
(* Types.                                                                  *)

\* The operators on cursors stay within the numbers.
LEMMA CursorTypes ==
  /\ \A m, n \in Nat : /\ Greatest(m, n) \in Nat
                       /\ Greatest(m, n) >= m /\ Greatest(m, n) >= n
                       /\ Greatest(m, n) \in {m, n}
  /\ \A c \in Nat \cup {None} : OrZero(c) \in Nat
  /\ \A n \in Nat : Clamped(n) \in Nat /\ Clamped(n) <= n
BY ConfigAssumption, NoneAssumption DEF Greatest, OrZero, Clamped

\* A tick fetches a page and goes to the best id of page and cursor.
LEMMA FetchFacts ==
  ASSUME TypeOK, NEW w \in Workers, Fetch(w)
  PROVE  \E page \in SUBSET visible, b \in Nat :
           /\ IsPage(page, Greatest(0, cursor[w] - Overlap))
           /\ b \in page \cup {cursor[w]} /\ \A i \in page : i <= b
           /\ batch' = [batch EXCEPT ![w] = NewTransfers(page, cursor[w])]
           /\ \/ /\ best' = [best EXCEPT ![w] = b]
                 /\ GoTo(w, "insert") /\ UNCHANGED cursor
              \/ /\ NewTransfers(page, cursor[w]) = {}
                 /\ cursor' = [cursor EXCEPT ![w] = b]
                 /\ GoTo(w, AfterProgress(w)) \/ GoTo(w, "fetch")
                 /\ UNCHANGED best
<1>1. visible \subseteq Nat
  BY IdsAssumption DEF TypeOK
<1>2. PICK page \in SUBSET visible :
        /\ IsPage(page, Greatest(0, cursor[w] - Overlap))
        /\ batch' = [batch EXCEPT ![w] = NewTransfers(page, cursor[w])]
        /\ \E b \in page \cup {cursor[w]} :
             /\ b >= cursor[w] /\ \A i \in page : i <= b
             /\ IF NewTransfers(page, cursor[w]) # {}
                  THEN /\ best' = [best EXCEPT ![w] = b]
                       /\ GoTo(w, "insert")
                       /\ UNCHANGED cursor
                  ELSE /\ cursor' = [cursor EXCEPT ![w] = b]
                       /\ GoTo(w, IF b > cursor[w] THEN AfterProgress(w) ELSE "fetch")
                       /\ UNCHANGED best
  BY DEF Fetch
<1>3. PICK b \in page \cup {cursor[w]} :
        /\ b >= cursor[w] /\ \A i \in page : i <= b
        /\ IF NewTransfers(page, cursor[w]) # {}
             THEN /\ best' = [best EXCEPT ![w] = b]
                  /\ GoTo(w, "insert")
                  /\ UNCHANGED cursor
             ELSE /\ cursor' = [cursor EXCEPT ![w] = b]
                  /\ GoTo(w, IF b > cursor[w] THEN AfterProgress(w) ELSE "fetch")
                  /\ UNCHANGED best
  BY <1>2
<1>4. b \in Nat
  BY <1>1 DEF TypeOK
<1> QED BY <1>2, <1>3, <1>4

\* The types hold at first.
LEMMA TypeInit == Init => TypeOK
<1> SUFFICES ASSUME Init PROVE TypeOK
  OBVIOUS
<1>1. saved \in Nat \cup {None} /\ first \in Nat /\ floor \in Nat
  BY ConfigAssumption, CursorTypes DEF Init
<1>2. stops \in 0..MaxStops
  BY ConfigAssumption DEF Init
<1>3. /\ visible \subseteq Ids /\ registered \in BOOLEAN /\ stored \subseteq Transfers
      /\ pc \in [Workers -> Stages]
  BY DEF Init, Stages
<1>4. /\ cursor \in [Workers -> Nat] /\ latest \in [Workers -> Nat]
      /\ batch \in [Workers -> SUBSET Transfers] /\ best \in [Workers -> Nat]
  BY DEF Init
<1> QED BY <1>1, <1>2, <1>3, <1>4 DEF TypeOK

\* Every step keeps them.
LEMMA TypeStep == TypeOK /\ [Next]_vars => TypeOK'
<1> SUFFICES ASSUME TypeOK, [Next]_vars PROVE TypeOK'
  OBVIOUS
<1> USE CursorTypes DEF TypeOK, Stages, GoTo, outside, database, locals
<1>0. visible \subseteq Nat
  BY IdsAssumption
<1>1. ASSUME NEW i \in Ids, Appear(i) PROVE TypeOK'
  BY <1>1 DEF Appear
<1>2. CASE SeedAsset
  BY <1>2 DEF SeedAsset
<1>3. ASSUME NEW w \in Workers, Start(w) PROVE TypeOK'
  <2>1. PICK o \in Overrides : /\ cursor' = [cursor EXCEPT ![w] = IF o # None THEN o
                                                                ELSE OrZero(saved)]
                               /\ floor' = Greatest(floor, OrZero(o))
    BY <1>3 DEF Start
  <2>2. (IF o # None THEN o ELSE OrZero(saved)) \in Nat /\ OrZero(o) \in Nat
    BY ConfigAssumption
  <2> QED BY <1>3, <2>1, <2>2 DEF Start
<1>4. ASSUME NEW w \in Workers, Resume(w) PROVE TypeOK'
  BY <1>4 DEF Resume
<1>5. ASSUME NEW w \in Workers, Clamp(w) PROVE TypeOK'
  <2>1. PICK n \in visible : /\ cursor' = [cursor EXCEPT ![w] = Clamped(n)]
                             /\ latest' = [latest EXCEPT ![w] = n]
                             /\ floor' = Greatest(floor, Clamped(n))
    BY <1>5 DEF Clamp
  <2>2. n \in Nat /\ Clamped(n) \in Nat
    BY <1>0
  <2> QED BY <1>5, <2>1, <2>2 DEF Clamp
<1>6. ASSUME NEW w \in Workers, StartFromNow(w) PROVE TypeOK'
  BY <1>0, <1>6 DEF StartFromNow, GoFromNow
<1>7. ASSUME NEW w \in Workers, SaveClamped(w) PROVE TypeOK'
  BY <1>7 DEF SaveClamped, GoFromNow, Upsert
<1>8. ASSUME NEW w \in Workers, SaveFromNow(w) PROVE TypeOK'
  BY <1>8 DEF SaveFromNow, Upsert
<1>9. ASSUME NEW w \in Workers, Fetch(w) PROVE TypeOK'
  <2>1. PICK page \in SUBSET visible, b \in Nat :
          /\ batch' = [batch EXCEPT ![w] = NewTransfers(page, cursor[w])]
          /\ best' \in {best, [best EXCEPT ![w] = b]}
          /\ cursor' \in {cursor, [cursor EXCEPT ![w] = b]}
          /\ \E stage \in Stages : GoTo(w, stage)
    BY <1>9, FetchFacts DEF AfterProgress
  <2>2. NewTransfers(page, cursor[w]) \subseteq Transfers
    BY DEF NewTransfers
  <2>3. /\ cursor' \in [Workers -> Nat] /\ best' \in [Workers -> Nat]
        /\ batch' \in [Workers -> SUBSET Transfers] /\ pc' \in [Workers -> Stages]
    BY <2>1, <2>2
  <2> QED BY <1>9, <2>3 DEF Fetch
<1>10. ASSUME NEW w \in Workers, Insert(w) \/ WouldInsert(w) PROVE TypeOK'
  <2>1. /\ Progress(w) /\ stored' \in {stored, stored \cup batch[w]}
    BY <1>10 DEF Insert, WouldInsert
  <2>2. stored' \subseteq Transfers
    BY <2>1
  <2>3. \E stage \in Stages : GoTo(w, stage)
    BY <2>1 DEF Progress, AfterProgress
  <2>4. /\ UNCHANGED <<visible, registered, first, saved, floor, stops, latest>>
        /\ cursor' \in [Workers -> Nat] /\ batch' \in [Workers -> SUBSET Transfers]
        /\ best' \in [Workers -> Nat]
    BY <2>1 DEF Progress
  <2> QED BY <2>2, <2>3, <2>4
<1>11. ASSUME NEW w \in Workers, InsertRefused(w) PROVE TypeOK'
  BY <1>11 DEF InsertRefused, End
<1>12. ASSUME NEW w \in Workers, Save(w) PROVE TypeOK'
  BY <1>12 DEF Save, Upsert
<1>13. ASSUME NEW w \in Workers, Stop(w) PROVE TypeOK'
  <2>1. stops + 1 \in 0..MaxStops
    BY <1>13, ConfigAssumption DEF Stop
  <2> QED BY <1>13, <2>1 DEF Stop, End
<1>14. CASE UNCHANGED vars
  BY <1>14 DEF vars
<1> QED
  BY <1>1, <1>2, <1>3, <1>4, <1>5, <1>6, <1>7, <1>8, <1>9, <1>10, <1>11, <1>12,
     <1>13, <1>14 DEF Next, Step

\* Every variable keeps its type.
THEOREM TypeCorrect == Spec => []TypeOK
BY TypeInit, TypeStep, PTL DEF Spec

-----------------------------------------------------------------------------
(* The cursors.                                                            *)

\* What is visible is a prefix of the ids, but for the late ones.
Ordered == \A i \in visible, j \in Ids \ Late : j < i => j \in visible

\* The cursor of a process counts unless it is that of a dry run that polls.
Trusted(w) == w \in DryRuns => pc[w] \notin {"fetch", "insert", "save"}

\* Up to the best id of its fetch a process that is about to insert lacks its batch, but
\* for the late ones.
BatchInv(w) ==
  /\ batch[w] \subseteq visible
  /\ pc[w] = "insert" /\ w \notin DryRuns =>
       \A i \in Ids \ Late : floor < i /\ first < i /\ i <= best[w] =>
         i \in visible /\ (i \in Transfers => i \in stored \cup batch[w])

\* What the process w holds is accounted for, and no dry run saves its progress.
LocalInv(w) ==
  /\ Trusted(w) => Covered(cursor[w])
  /\ w \in DryRuns => pc[w] # "save"
  /\ BatchInv(w)

\* Every cursor that counts, saved or in memory, is accounted for.
CursorInv ==
  /\ Ordered
  /\ stored \subseteq visible
  /\ Covered(OrZero(saved))
  /\ \A w \in Workers : LocalInv(w)

IInv == TypeOK /\ CursorInv

\* No step hides a transaction, drops a transfer or takes back a skip.
Grows == visible \subseteq visible' /\ stored \subseteq stored' /\ floor <= floor' /\ first' = first

\* A cursor stays accounted for if it does not rise, or only to what was saved or
\* skipped.
LEMMA CursorKept ==
  ASSUME IInv, TypeOK', Grows, NEW v \in Workers,
         \/ Trusted(v) /\ cursor'[v] <= cursor[v]
         \/ cursor'[v] <= floor'
         \/ cursor'[v] <= OrZero(saved)
  PROVE  Covered(cursor[v])'
<1> USE DEF IInv, CursorInv, LocalInv, TypeOK, Grows, Covered
<1>1. /\ Ids \subseteq Nat /\ floor \in Nat /\ floor' \in Nat
      /\ cursor[v] \in Nat /\ cursor'[v] \in Nat /\ OrZero(saved) \in Nat
  BY IdsAssumption, CursorTypes
<1>2. CASE Trusted(v) /\ cursor'[v] <= cursor[v]
  BY <1>1, <1>2
<1>3. CASE cursor'[v] <= floor'
  BY <1>1, <1>3
<1>4. CASE cursor'[v] <= OrZero(saved)
  BY <1>1, <1>4
<1> QED BY <1>2, <1>3, <1>4

\* So does a batch that stays, or that is gone.
LEMMA BatchKept ==
  ASSUME IInv, TypeOK', Grows, NEW v \in Workers,
         \/ batch'[v] = batch[v] /\ best'[v] = best[v] /\ pc'[v] = pc[v]
         \/ batch'[v] \in {{}, batch[v]} /\ pc'[v] # "insert"
  PROVE  BatchInv(v)'
<1> USE DEF IInv, CursorInv, LocalInv, TypeOK, Grows, BatchInv
<1>1. /\ Ids \subseteq Nat /\ floor \in Nat /\ floor' \in Nat
      /\ best[v] \in Nat /\ best'[v] \in Nat
  BY IdsAssumption
<1>2. CASE batch'[v] = batch[v] /\ best'[v] = best[v] /\ pc'[v] = pc[v]
  <2> SUFFICES ASSUME pc[v] = "insert", v \notin DryRuns,
                      NEW i \in Ids \ Late, floor' < i, first' < i, i <= best[v]
               PROVE  i \in visible' /\ (i \in Transfers => i \in stored' \cup batch[v])
    BY <1>2
  <2>1. floor < i /\ first < i
    BY <1>1
  <2> QED BY <2>1
<1>3. CASE batch'[v] \in {{}, batch[v]} /\ pc'[v] # "insert"
  BY <1>3
<1> QED BY <1>2, <1>3

\* A process that does not move stays accounted for.
LEMMA LocalKept ==
  ASSUME IInv, TypeOK', Grows, NEW v \in Workers,
         cursor'[v] = cursor[v], pc'[v] = pc[v], batch'[v] = batch[v], best'[v] = best[v]
  PROVE  LocalInv(v)'
<1>1. cursor'[v] <= cursor[v] /\ (Trusted(v)' <=> Trusted(v))
  BY DEF IInv, TypeOK, Trusted
<1>2. Trusted(v)' => Covered(cursor[v])'
  BY <1>1, CursorKept
<1>3. BatchInv(v)'
  BY BatchKept
<1> QED BY <1>2, <1>3 DEF IInv, CursorInv, LocalInv

\* What a save leaves behind is the greater cursor.
LEMMA UpsertFacts ==
  ASSUME TypeOK, NEW w \in Workers, Upsert(cursor[w])
  PROVE  /\ OrZero(saved) \in Nat /\ cursor[w] \in Nat
         /\ OrZero(saved)' = Greatest(OrZero(saved), cursor[w])
         /\ OrZero(saved)' \in {OrZero(saved), cursor[w]}
<1>1. OrZero(saved) \in Nat /\ cursor[w] \in Nat
  BY CursorTypes DEF TypeOK
<1> DEFINE n == Greatest(OrZero(saved), cursor[w])
<1>2. n \in Nat /\ n \in {OrZero(saved), cursor[w]}
  BY <1>1, CursorTypes
<1>3. saved' = n
  BY DEF Upsert
<1>4. OrZero(saved)' = n
  BY <1>2, <1>3, NoneAssumption DEF OrZero
<1> QED BY <1>1, <1>2, <1>4

\* The saved cursor stays accounted for if it rises only to one that counts.
LEMMA SavedKept ==
  ASSUME IInv, TypeOK', Grows,
         saved' = saved \/ \E w \in Workers : Trusted(w) /\ Upsert(cursor[w])
  PROVE  Covered(OrZero(saved))'
<1>1. Ids \subseteq Nat /\ floor \in Nat /\ floor' \in Nat
  BY IdsAssumption DEF IInv, TypeOK
<1>2. \/ OrZero(saved)' = OrZero(saved)
      \/ \E w \in Workers : Trusted(w) /\ OrZero(saved)' \in {OrZero(saved), cursor[w]}
  BY UpsertFacts DEF IInv, OrZero
<1> QED BY <1>1, <1>2 DEF IInv, CursorInv, LocalInv, Grows, Covered

\* A fetch misses nothing in order between the cursor and the best id of its page: the
\* page is a prefix of what follows the cursor, or an earlier id.
LEMMA FetchCovers ==
  ASSUME IInv, NEW w \in Workers, w \notin DryRuns,
         NEW page \in SUBSET visible, NEW b \in page \cup {cursor[w]},
         IsPage(page, Greatest(0, cursor[w] - Overlap))
  PROVE  \A i \in Ids \ Late : floor < i /\ first < i /\ i <= b =>
           i \in visible /\
           (i \in Transfers => i \in stored \cup NewTransfers(page, cursor[w]))
<1> DEFINE from == Greatest(0, cursor[w] - Overlap)
<1>1. /\ Ids \subseteq Nat /\ floor \in Nat /\ cursor[w] \in Nat /\ b \in Nat
      /\ visible \subseteq Ids
  BY IdsAssumption DEF IInv, TypeOK
<1>2. from \in Nat /\ from <= cursor[w]
  BY <1>1, ConfigAssumption DEF Greatest
<1> SUFFICES ASSUME NEW i \in Ids \ Late, floor < i, first < i, i <= b
             PROVE  i \in visible /\
                    (i \in Transfers => i \in stored \cup NewTransfers(page, cursor[w]))
  OBVIOUS
<1>3. CASE i <= cursor[w]
  BY <1>3 DEF IInv, CursorInv, LocalInv, Trusted, Covered
<1>4. CASE i > cursor[w]
  <2>1. b \in page
    BY <1>1, <1>4
  <2>2. i \in visible
    BY <1>1, <2>1 DEF IInv, CursorInv, Ordered
  <2>3. i > from
    BY <1>1, <1>2, <1>4
  <2>4. i \in page
    <3>1. \A j \in page, k \in {l \in visible : l > from} : k < j => k \in page
      BY DEF IsPage
    <3>2. i \in {l \in visible : l > from}
      BY <2>2, <2>3
    <3> QED BY <1>1, <2>1, <3>1, <3>2
  <2> QED BY <1>4, <2>2, <2>4 DEF NewTransfers
<1> QED BY <1>1, <1>3, <1>4

\* The steps of one process that store nothing: only its own cursor and batch, and
\* the saved cursor, are to be looked at.
LEMMA LocalStep ==
  ASSUME IInv, TypeOK', NEW w \in Workers,
         UNCHANGED <<visible, stored, first>>, floor <= floor',
         saved' = saved \/ (Trusted(w) /\ Upsert(cursor[w])),
         \A v \in Workers \ {w} : /\ cursor'[v] = cursor[v] /\ pc'[v] = pc[v]
                                  /\ batch'[v] = batch[v] /\ best'[v] = best[v],
         LocalInv(w)'
  PROVE  CursorInv'
<1>1. Grows
  BY DEF Grows
<1>2. Ordered' /\ (stored \subseteq visible)'
  BY DEF IInv, CursorInv, Ordered
<1>3. Covered(OrZero(saved))'
  BY <1>1, SavedKept
<1>4. \A v \in Workers : LocalInv(v)'
  BY <1>1, LocalKept
<1> QED BY <1>2, <1>3, <1>4 DEF CursorInv

\* ... or, if it has no new batch, whether its cursor may stand where it does.
LEMMA QuietStep ==
  ASSUME IInv, TypeOK', NEW w \in Workers, Trusted(w),
         UNCHANGED <<visible, stored, first, batch, best>>, floor <= floor',
         saved' = saved \/ Upsert(cursor[w]),
         \A v \in Workers \ {w} : cursor'[v] = cursor[v] /\ pc'[v] = pc[v],
         pc'[w] \notin {"insert", "save"},
         \/ cursor'[w] <= cursor[w]
         \/ cursor'[w] <= floor'
         \/ cursor'[w] <= OrZero(saved)
  PROVE  CursorInv'
<1>1. Grows
  BY DEF Grows
<1>2. Covered(cursor[w])'
  BY <1>1, CursorKept
<1>3. BatchInv(w)'
  BY <1>1, BatchKept
<1>4. LocalInv(w)'
  BY <1>2, <1>3 DEF LocalInv
<1> QED BY <1>4, LocalStep

\* A process that resolves its start: at the saved cursor, below the clamped one, or
\* up to where it skips.
LEMMA ResolveStep ==
  ASSUME IInv, TypeOK', NEW w \in Workers,
         Start(w) \/ Resume(w) \/ Clamp(w) \/ StartFromNow(w) \/ SaveClamped(w)
           \/ SaveFromNow(w)
  PROVE  CursorInv'
<1> USE CursorTypes DEF outside, database, locals, GoTo
<1>0. /\ visible \subseteq Nat /\ floor \in Nat /\ \A v \in Workers : cursor[v] \in Nat
      /\ OrZero(saved) \in Nat /\ latest[w] \in Nat
      /\ pc \in [Workers -> Stages] /\ cursor \in [Workers -> Nat]
  BY IdsAssumption DEF IInv, TypeOK
<1>a. Trusted(w)
  BY DEF Trusted, Start, Resume, Clamp, StartFromNow, SaveClamped, SaveFromNow
<1>1. CASE Start(w)
  <2>1. PICK o \in Overrides : /\ cursor' = [cursor EXCEPT ![w] = IF o # None THEN o
                                                                ELSE OrZero(saved)]
                               /\ floor' = Greatest(floor, OrZero(o))
    BY <1>1 DEF Start
  <2>2. o \in Nat \cup {None}
    BY ConfigAssumption
  <2>3. floor <= floor' /\ (cursor'[w] <= floor' \/ cursor'[w] <= OrZero(saved))
    BY <1>0, <2>1, <2>2 DEF OrZero
  <2>4. UNCHANGED <<visible, stored, first, saved, batch, best>> /\ pc'[w] = "resolve"
    BY <1>0, <1>1 DEF Start
  <2>5. Grows
    BY <2>3, <2>4 DEF Grows
  <2> QED BY <1>0, <1>1, <2>1, <2>3, <2>4, <2>5, <1>a, QuietStep DEF Start
<1>2. CASE Resume(w)
  <2>1. /\ UNCHANGED <<visible, stored, first, saved, floor, cursor, batch, best>>
        /\ pc'[w] = "fetch" /\ \A v \in Workers \ {w} : pc'[v] = pc[v]
    BY <1>0, <1>2 DEF Resume
  <2>2. Grows /\ cursor'[w] <= cursor[w] /\ floor <= floor'
    BY <1>0, <2>1 DEF Grows
  <2> QED BY <2>1, <2>2, <1>a, QuietStep
<1>3. CASE Clamp(w)
  <2>1. PICK n \in visible : /\ cursor[w] > n + MaxAhead
                             /\ cursor' = [cursor EXCEPT ![w] = Clamped(n)]
                             /\ floor' = Greatest(floor, Clamped(n))
    BY <1>3 DEF Clamp
  <2>2. cursor'[w] <= cursor[w] /\ floor <= floor'
    BY <1>0, <2>1, ConfigAssumption
  <2>3. /\ UNCHANGED <<visible, stored, first, saved, batch, best>>
        /\ pc'[w] = "clamp" /\ \A v \in Workers \ {w} : pc'[v] = pc[v]
    BY <1>0, <1>3 DEF Clamp
  <2>4. Grows /\ \A v \in Workers \ {w} : cursor'[v] = cursor[v]
    BY <1>0, <2>1, <2>2, <2>3 DEF Grows
  <2> QED BY <2>2, <2>3, <2>4, <1>a, QuietStep
<1>4. ASSUME NEW n \in Nat, GoFromNow(w, n), UNCHANGED <<visible, stored, first, batch, best>>,
             saved' = saved \/ Upsert(cursor[w])
      PROVE  CursorInv'
  <2>1. /\ cursor'[w] = n /\ \A v \in Workers \ {w} : cursor'[v] = cursor[v]
        /\ pc'[w] = "from_now" /\ \A v \in Workers \ {w} : pc'[v] = pc[v]
    BY <1>0, <1>4 DEF GoFromNow
  <2>2. floor <= floor' /\ n <= floor'
    BY <1>0, <1>4 DEF GoFromNow
  <2>3. Grows
    BY <1>4, <2>2 DEF Grows
  <2> QED BY <1>4, <2>1, <2>2, <2>3, <1>a, QuietStep
<1>5. CASE StartFromNow(w)
  BY <1>0, <1>4, <1>5 DEF StartFromNow
<1>6. ASSUME Upsert(cursor[w]),
             UNCHANGED <<visible, stored, first, floor, cursor, batch, best>>, GoTo(w, "fetch")
      PROVE  CursorInv'
  <2>1. pc'[w] = "fetch" /\ \A v \in Workers \ {w} : pc'[v] = pc[v]
    BY <1>0, <1>6
  <2>2. Grows /\ cursor'[w] <= cursor[w] /\ floor <= floor'
    BY <1>0, <1>6 DEF Grows
  <2> QED BY <1>6, <2>1, <2>2, <1>a, QuietStep
<1>7. CASE SaveClamped(w)
  <2>1. CASE FromNow(cursor[w])
    BY <1>0, <1>4, <1>7, <2>1 DEF SaveClamped
  <2>2. CASE ~FromNow(cursor[w])
    BY <1>6, <1>7, <2>2 DEF SaveClamped
  <2> QED BY <2>1, <2>2
<1>8. CASE SaveFromNow(w)
  BY <1>6, <1>8 DEF SaveFromNow
<1> QED BY <1>1, <1>2, <1>3, <1>5, <1>7, <1>8

\* A fetch leaves behind a batch that completes the table up to the best id, or a
\* cursor for which nothing was missing.
LEMMA FetchStep ==
  ASSUME ~PersistInDryRun, IInv, TypeOK', NEW w \in Workers, Fetch(w)
  PROVE  CursorInv'
<1>1. PICK page \in SUBSET visible, b \in Nat :
        /\ IsPage(page, Greatest(0, cursor[w] - Overlap))
        /\ b \in page \cup {cursor[w]} /\ \A i \in page : i <= b
        /\ batch' = [batch EXCEPT ![w] = NewTransfers(page, cursor[w])]
        /\ \/ /\ best' = [best EXCEPT ![w] = b]
              /\ GoTo(w, "insert") /\ UNCHANGED cursor
           \/ /\ NewTransfers(page, cursor[w]) = {}
              /\ cursor' = [cursor EXCEPT ![w] = b]
              /\ GoTo(w, AfterProgress(w)) \/ GoTo(w, "fetch")
              /\ UNCHANGED best
  BY FetchFacts DEF IInv
<1>2. w \notin DryRuns => \A i \in Ids \ Late : floor < i /\ first < i /\ i <= b =>
        i \in visible /\
        (i \in Transfers => i \in stored \cup NewTransfers(page, cursor[w]))
  BY <1>1, FetchCovers
<1>3. /\ UNCHANGED <<visible, stored, first, saved, floor>> /\ floor <= floor'
      /\ \A v \in Workers \ {w} : /\ cursor'[v] = cursor[v] /\ pc'[v] = pc[v]
                                  /\ batch'[v] = batch[v] /\ best'[v] = best[v]
  BY <1>1 DEF IInv, TypeOK, Fetch, GoTo, outside, database
<1>4. batch'[w] = NewTransfers(page, cursor[w]) /\ batch'[w] \subseteq visible'
  BY <1>1, <1>3 DEF IInv, TypeOK, NewTransfers
<1>5. CASE best' = [best EXCEPT ![w] = b] /\ GoTo(w, "insert") /\ UNCHANGED cursor
  <2>1. best'[w] = b /\ cursor'[w] = cursor[w] /\ pc[w] = "fetch" /\ pc'[w] = "insert"
    BY <1>5 DEF IInv, TypeOK, GoTo, Fetch
  <2>2. Trusted(w)' => Covered(cursor[w])'
    BY <1>3, <2>1 DEF IInv, CursorInv, LocalInv, Trusted, Covered
  <2>3. BatchInv(w)'
    BY <1>2, <1>3, <1>4, <2>1 DEF BatchInv
  <2>4. LocalInv(w)'
    BY <2>1, <2>2, <2>3 DEF LocalInv
  <2> QED BY <1>3, <2>4, LocalStep
<1>6. CASE /\ NewTransfers(page, cursor[w]) = {}
           /\ cursor' = [cursor EXCEPT ![w] = b]
           /\ GoTo(w, AfterProgress(w)) \/ GoTo(w, "fetch")
  <2>1. /\ cursor'[w] = b /\ pc'[w] \in {"fetch", "save"}
        /\ w \in DryRuns => pc'[w] = "fetch"
    BY <1>6 DEF IInv, TypeOK, GoTo, AfterProgress
  <2>2. w \notin DryRuns => Covered(cursor[w])'
    BY <1>2, <1>3, <1>6, <2>1 DEF Covered
  <2>3. BatchInv(w)'
    BY <1>4, <2>1 DEF BatchInv
  <2>4. LocalInv(w)'
    BY <2>1, <2>2, <2>3 DEF LocalInv, Trusted
  <2> QED BY <1>3, <2>4, LocalStep
<1> QED BY <1>1, <1>5, <1>6

\* An insert completes the table up to the best id, which becomes the cursor.
LEMMA InsertStep ==
  ASSUME IInv, TypeOK', NEW w \in Workers, Insert(w)
  PROVE  CursorInv'
<1>1. /\ UNCHANGED <<visible, first, saved, floor>> /\ stored' = stored \cup batch[w]
      /\ cursor'[w] = best[w] /\ batch'[w] = {} /\ pc[w] = "insert" /\ pc'[w] = "save"
      /\ w \notin DryRuns
      /\ \A v \in Workers \ {w} : /\ cursor'[v] = cursor[v] /\ pc'[v] = pc[v]
                                  /\ batch'[v] = batch[v] /\ best'[v] = best[v]
  BY DEF IInv, TypeOK, Insert, Progress, AfterProgress, GoTo, outside
<1>2. Grows
  BY <1>1 DEF Grows, IInv, TypeOK
<1>3. Ordered' /\ (stored \subseteq visible)'
  BY <1>1 DEF IInv, CursorInv, LocalInv, BatchInv, Ordered
<1>4. Covered(OrZero(saved))'
  BY <1>1, <1>2, SavedKept
<1>5. LocalInv(w)'
  BY <1>1 DEF IInv, CursorInv, LocalInv, BatchInv, Covered
<1>6. \A v \in Workers : LocalInv(v)'
  BY <1>1, <1>2, <1>5, LocalKept
<1> QED BY <1>3, <1>4, <1>6 DEF CursorInv

\* A dry run goes on with a cursor that does not count.
LEMMA WouldInsertStep ==
  ASSUME ~PersistInDryRun, IInv, TypeOK', NEW w \in Workers, WouldInsert(w)
  PROVE  CursorInv'
<1>1. /\ UNCHANGED <<visible, stored, first, saved, floor>> /\ floor <= floor'
      /\ batch'[w] = {} /\ w \in DryRuns /\ pc'[w] = "fetch"
      /\ \A v \in Workers \ {w} : /\ cursor'[v] = cursor[v] /\ pc'[v] = pc[v]
                                  /\ batch'[v] = batch[v] /\ best'[v] = best[v]
  BY DEF IInv, TypeOK, WouldInsert, Progress, AfterProgress, GoTo, outside
<1>2. LocalInv(w)'
  BY <1>1 DEF LocalInv, Trusted, BatchInv
<1> QED BY <1>1, <1>2, LocalStep

\* A process that saves its cursor, or ends.
LEMMA SaveOrEndStep ==
  ASSUME IInv, TypeOK', NEW w \in Workers, Save(w) \/ End(w)
  PROVE  CursorInv'
<1>1. /\ UNCHANGED <<visible, stored, first, floor>> /\ floor <= floor'
      /\ \A v \in Workers \ {w} : /\ cursor'[v] = cursor[v] /\ pc'[v] = pc[v]
                                  /\ batch'[v] = batch[v] /\ best'[v] = best[v]
      /\ batch'[w] \in {{}, batch[w]} /\ pc'[w] \in {"fetch", "stopped"}
  BY DEF IInv, TypeOK, Save, End, GoTo, outside, database, locals
<1>2. Grows
  BY <1>1 DEF Grows
<1>3. CASE Save(w)
  <2>1. w \notin DryRuns /\ Trusted(w) /\ Upsert(cursor[w]) /\ cursor'[w] <= cursor[w]
    BY <1>3 DEF IInv, TypeOK, CursorInv, LocalInv, Trusted, Save, locals
  <2>2. LocalInv(w)'
    BY <1>1, <1>2, <2>1, CursorKept, BatchKept DEF LocalInv
  <2> QED BY <1>1, <2>1, <2>2, LocalStep
<1>4. CASE End(w)
  <2>1. saved' = saved /\ cursor'[w] <= OrZero(saved)
    BY <1>4, CursorTypes DEF IInv, TypeOK, End, database
  <2>2. LocalInv(w)'
    BY <1>1, <1>2, <2>1, CursorKept, BatchKept DEF LocalInv
  <2> QED BY <1>1, <2>1, <2>2, LocalStep
<1> QED BY <1>3, <1>4

\* A transaction that becomes visible leaves what is covered covered.
LEMMA AppearStep ==
  ASSUME IInv, TypeOK', NEW i \in Ids, Appear(i)
  PROVE  CursorInv'
<1>1. /\ visible' = visible \cup {i}
      /\ UNCHANGED <<stored, first, saved, floor, pc, cursor, batch, best>>
      /\ \A j \in Ids \ Late : j < i => j \in visible
  BY DEF Appear, database, locals
<1>2. Grows
  BY <1>1 DEF Grows, IInv, TypeOK
<1>3. Ordered' /\ (stored \subseteq visible)'
  BY <1>1 DEF IInv, CursorInv, Ordered
<1>4. Covered(OrZero(saved))'
  BY <1>1, <1>2, SavedKept
<1>5. \A v \in Workers : LocalInv(v)'
  BY <1>1, <1>2, LocalKept
<1> QED BY <1>3, <1>4, <1>5 DEF CursorInv

\* IInv holds at first.
LEMMA InvInit == Init => IInv
<1> SUFFICES ASSUME Init PROVE IInv
  OBVIOUS
<1>1. TypeOK
  BY TypeInit
<1>2. /\ Ids \subseteq Nat \ {0} /\ first = OrZero(saved) /\ first \in Nat /\ floor = 0
      /\ visible = {} /\ stored = {}
      /\ \A w \in Workers : cursor[w] = 0 /\ batch[w] = {} /\ pc[w] = "stopped"
  BY <1>1, IdsAssumption DEF Init, TypeOK
<1>3. Ordered /\ stored \subseteq visible
  BY <1>2 DEF Ordered
<1>4. Covered(OrZero(saved)) /\ \A w \in Workers : Covered(cursor[w])
  BY <1>2 DEF Covered
<1>5. \A w \in Workers : LocalInv(w)
  BY <1>2, <1>4 DEF LocalInv, BatchInv
<1> QED BY <1>1, <1>3, <1>4, <1>5 DEF IInv, CursorInv

\* Every step keeps IInv if no dry run persists.
LEMMA InvStep ==
  ASSUME ~PersistInDryRun, IInv, [Next]_vars
  PROVE  IInv'
<1>1. TypeOK'
  BY TypeStep DEF IInv
<1>2. ASSUME NEW i \in Ids, Appear(i) PROVE CursorInv'
  BY <1>1, <1>2, AppearStep
<1>3. CASE SeedAsset \/ UNCHANGED vars
  <2>1. UNCHANGED <<visible, stored, first, saved, floor, pc, cursor, batch, best>>
    BY <1>3 DEF SeedAsset, vars, outside, database, locals
  <2> QED BY <1>1, <2>1
         DEF IInv, CursorInv, LocalInv, Trusted, Ordered, Covered, BatchInv, OrZero
<1>4. ASSUME NEW w \in Workers, Start(w) \/ Step(w) \/ Stop(w) PROVE CursorInv'
  <2>1. CASE Start(w) \/ Resume(w) \/ Clamp(w) \/ StartFromNow(w) \/ SaveClamped(w)
               \/ SaveFromNow(w)
    BY <1>1, <2>1, ResolveStep
  <2>2. CASE Fetch(w)
    BY <1>1, <2>2, FetchStep
  <2>3. CASE Insert(w)
    BY <1>1, <2>3, InsertStep
  <2>4. CASE WouldInsert(w)
    BY <1>1, <2>4, WouldInsertStep
  <2>5. CASE Save(w) \/ InsertRefused(w) \/ Stop(w)
    BY <1>1, <2>5, SaveOrEndStep DEF InsertRefused, Stop
  <2> QED BY <1>4, <2>1, <2>2, <2>3, <2>4, <2>5 DEF Step
<1> QED BY <1>1, <1>2, <1>3, <1>4 DEF IInv, Next

\* Every cursor, saved or in memory, is accounted for: whatever becomes visible late, it
\* is only the late ones that may be missing.
THEOREM Invariance ==
  ASSUME ~PersistInDryRun
  PROVE  Spec => []IInv
<1>1. IInv /\ [Next]_vars => IInv'
  BY InvStep
<1> QED BY <1>1, InvInit, PTL DEF Spec

\* Nothing at or below the saved cursor is missing from the event table but what became
\* visible late.
THEOREM NothingIsMissed ==
  ASSUME ~PersistInDryRun
  PROVE  Spec => []NothingMissed
<1>1. IInv => NothingMissed
  BY DEF IInv, CursorInv, NothingMissed
<1> QED BY <1>1, Invariance, PTL

-----------------------------------------------------------------------------
(* The refinement of Ingestion.                                            *)

\* Saving the cursor of a process is an Advance, or changes nothing.
LEMMA UpsertRefines ==
  ASSUME IInv, NEW w \in Workers, Trusted(w), Upsert(cursor[w]),
         UNCHANGED <<visible, stored, first, floor>>
  PROVE  Promise!Advance \/ UNCHANGED Promise!vars
<1>1. /\ OrZero(saved) \in Nat /\ cursor[w] \in Nat
      /\ OrZero(saved)' = Greatest(OrZero(saved), cursor[w])
  BY UpsertFacts DEF IInv
<1>2. CASE cursor[w] <= OrZero(saved)
  <2>1. OrZero(saved)' = OrZero(saved)
    BY <1>1, <1>2 DEF Greatest
  <2> QED BY <2>1 DEF Promise!vars
<1>3. CASE cursor[w] > OrZero(saved)
  <2>1. OrZero(saved)' = cursor[w]
    BY <1>1, <1>3 DEF Greatest
  <2>2. Promise!Covered(cursor[w])
    BY IdsAssumption
       DEF IInv, CursorInv, LocalInv, TypeOK, Covered, Greatest, Promise!Covered
  <2>3. Promise!Covered(OrZero(saved)')
    BY <2>1, <2>2
  <2> QED BY <1>1, <1>3, <2>1, <2>3 DEF Promise!Advance
<1> QED BY <1>1, <1>2, <1>3

\* A higher floor is a Skip.
LEMMA SkipRefines ==
  ASSUME IInv, TypeOK', floor <= floor', UNCHANGED <<visible, stored, first>>,
         OrZero(saved)' = OrZero(saved)
  PROVE  Promise!Skip \/ UNCHANGED Promise!vars
<1> DEFINE exempt == Greatest(first, floor)
<1>1. exempt' > exempt \/ exempt' = exempt
  BY DEF IInv, TypeOK, Greatest
<1>2. exempt' \in Nat
  BY DEF TypeOK, Greatest
<1> QED BY <1>1, <1>2 DEF Promise!Skip, Promise!vars

\* Every step of a process is a step of Ingestion or none.
LEMMA ProcessRefines ==
  ASSUME IInv, TypeOK', NEW w \in Workers, Start(w) \/ Step(w) \/ Stop(w)
  PROVE  [Promise!Next]_(Promise!vars)
<1> USE DEF Promise!Next, outside, database, locals
<1>0. /\ floor \in Nat /\ OrZero(saved) \in Nat /\ cursor[w] \in Nat /\ latest[w] \in Nat
      /\ visible \subseteq Nat
  BY CursorTypes, IdsAssumption DEF IInv, TypeOK
<1>1. CASE Start(w) \/ StartFromNow(w) \/ Clamp(w)
  <2>1. floor <= floor'
    <3>1. CASE Start(w)
      <4>1. PICK o \in Overrides : floor' = Greatest(floor, OrZero(o))
        BY <3>1 DEF Start
      <4>2. OrZero(o) \in Nat
        BY CursorTypes, ConfigAssumption
      <4> QED BY <1>0, <4>1, <4>2, CursorTypes
    <3>2. CASE StartFromNow(w)
      <4>1. PICK n \in visible : floor' = Greatest(floor, n)
        BY <3>2 DEF StartFromNow, GoFromNow
      <4>2. n \in Nat
        BY <1>0
      <4> QED BY <1>0, <4>1, <4>2, CursorTypes
    <3>3. CASE Clamp(w)
      <4>1. PICK n \in visible : floor' = Greatest(floor, Clamped(n))
        BY <3>3 DEF Clamp
      <4>2. Clamped(n) \in Nat
        BY <1>0, CursorTypes
      <4> QED BY <1>0, <4>1, <4>2, CursorTypes
    <3> QED BY <1>1, <3>1, <3>2, <3>3
  <2>2. UNCHANGED <<visible, stored, first, saved>>
    BY <1>1 DEF Start, StartFromNow, Clamp
  <2> QED BY <2>1, <2>2, SkipRefines DEF OrZero
<1>2. CASE Resume(w) \/ Fetch(w) \/ WouldInsert(w) \/ InsertRefused(w) \/ Stop(w)
  <2>1. UNCHANGED <<visible, stored, first, saved, floor>>
    BY <1>2 DEF Resume, Fetch, WouldInsert, Progress, InsertRefused, Stop, End
  <2> QED BY <2>1 DEF Promise!vars, OrZero
<1>3. CASE SaveClamped(w) /\ FromNow(cursor[w])
  <2>1. floor <= floor' /\ UNCHANGED <<visible, stored, first>>
    BY <1>0, <1>3, CursorTypes DEF SaveClamped, GoFromNow
  <2>2. saved' = OrZero(saved)
    BY <1>0, <1>3 DEF SaveClamped, FromNow, Upsert, Greatest
  <2>3. OrZero(saved)' = OrZero(saved)
    BY <1>0, <2>2, NoneAssumption DEF OrZero
  <2> QED BY <2>1, <2>3, SkipRefines
<1>4. CASE \/ SaveClamped(w) /\ ~FromNow(cursor[w])
           \/ SaveFromNow(w) \/ Save(w)
  <2>1. Upsert(cursor[w]) /\ UNCHANGED <<visible, stored, first, floor>>
    BY <1>4 DEF SaveClamped, SaveFromNow, Save
  <2>2. Trusted(w)
    BY <1>4 DEF IInv, CursorInv, LocalInv, Trusted, SaveClamped, SaveFromNow, Save
  <2> QED BY <2>1, <2>2, UpsertRefines
<1>5. CASE Insert(w)
  <2>1. /\ stored' = stored \cup batch[w] /\ batch[w] \subseteq visible \cap Transfers
        /\ UNCHANGED <<visible, first, saved, floor>>
    BY <1>5 DEF Insert, Progress, IInv, CursorInv, LocalInv, BatchInv, TypeOK
  <2> QED BY <2>1 DEF Promise!Store, OrZero
<1> QED BY <1>1, <1>2, <1>3, <1>4, <1>5 DEF Step

\* A transaction that becomes visible is late, or none that the mark has passed.
LEMMA AppearRefines ==
  ASSUME IInv, NEW i \in Ids, Appear(i)
  PROVE  Promise!Appear(i)
<1>1. /\ i \notin visible /\ visible' = visible \cup {i}
      /\ UNCHANGED <<stored, first, saved, floor>>
  BY DEF Appear, database
<1>2. i \in Late \/ OrZero(saved) < i \/ i <= Greatest(first, floor)
  <2>1. OrZero(saved) \in Nat /\ i \in Nat /\ first \in Nat /\ floor \in Nat
    BY CursorTypes, IdsAssumption DEF IInv, TypeOK
  <2> QED BY <1>1, <2>1 DEF IInv, CursorInv, Covered, Greatest
<1> QED BY <1>1, <1>2 DEF Promise!Appear, OrZero

\* The worker implements Ingestion, with any number of processes and stops, and whatever
\* becomes visible late.
THEOREM Refinement ==
  ASSUME ~PersistInDryRun
  PROVE  Spec => ImplementsIngestion
<1>1. Init => Promise!Init
  <2> SUFFICES ASSUME Init PROVE Promise!Init
    OBVIOUS
  <2>1. OrZero(saved) \in Nat /\ first = OrZero(saved) /\ floor = 0
    BY TypeInit, CursorTypes DEF Init, TypeOK
  <2>2. Greatest(first, floor) = OrZero(saved)
    BY <2>1 DEF Greatest
  <2> QED BY <2>1, <2>2 DEF Init, Promise!Init
<1>2. IInv /\ [Next]_vars => [Promise!Next]_(Promise!vars)
  <2> SUFFICES ASSUME IInv, [Next]_vars PROVE [Promise!Next]_(Promise!vars)
    OBVIOUS
  <2>1. TypeOK'
    BY TypeStep DEF IInv
  <2>2. ASSUME NEW i \in Ids, Appear(i) PROVE Promise!Next
    BY <2>2, AppearRefines DEF Promise!Next
  <2>3. CASE SeedAsset \/ UNCHANGED vars
    BY <2>3 DEF SeedAsset, vars, outside, database, Promise!vars, OrZero, Greatest
  <2>4. ASSUME NEW w \in Workers, Start(w) \/ Step(w) \/ Stop(w)
        PROVE  [Promise!Next]_(Promise!vars)
    BY <2>1, <2>4, ProcessRefines
  <2> QED BY <2>2, <2>3, <2>4 DEF Next
<1> QED BY Invariance, <1>1, <1>2, PTL DEF Spec, ImplementsIngestion, Promise!Spec

-----------------------------------------------------------------------------
(* Skips.  A process skips what lies below the place it goes to, if no     *)
(* cursor is saved, or if the saved one is further ahead of that place     *)
(* than MaxAhead.                                                          *)

\* Either one process runs, or there is a cursor from the first.
SoleOrSaved ==
  (\A v, w \in Workers : v = w) \/ (\A c \in FirstCursors : OrZero(c) # 0)

\* A process that resolves its start has read no more than the saved cursor, and nothing
\* only while there is nothing; one that has clamped knows the saved cursor is too far
\* ahead of the latest id that it will go to.
StartInv(w) ==
  /\ pc[w] = "resolve" => /\ cursor[w] <= OrZero(saved)
                          /\ cursor[w] = 0 => OrZero(saved) = 0
  /\ pc[w] = "clamp" => latest[w] + MaxAhead < OrZero(saved)

SkipInv ==
  /\ (\A v, w \in Workers : v = w) \/ OrZero(saved) # 0
  /\ \A w \in Workers : StartInv(w)

\* Where the floor is raised to.
SkipBehind == floor' # floor => OrZero(saved) = 0 \/ floor' + MaxAhead < OrZero(saved)

LEMMA SkipInit ==
  ASSUME SoleOrSaved, Init
  PROVE  SkipInv
<1>1. saved \in FirstCursors /\ \A w \in Workers : pc[w] = "stopped"
  BY DEF Init
<1> QED BY <1>1 DEF SkipInv, StartInv, SoleOrSaved

\* The steps of a process: what it saves, and what it takes with it to the next stage.  The
\* saved cursor never falls, so the others are not disturbed.
LEMMA SkipByProcess ==
  ASSUME TypeOK, TypeOK', SkipInv, NEW w \in Workers,
         saved' = saved \/ Upsert(cursor[w]),
         \A v \in Workers \ {w} : /\ cursor'[v] = cursor[v] /\ pc'[v] = pc[v]
                                  /\ latest'[v] = latest[v],
         pc'[w] = "resolve" => saved' = saved /\ cursor'[w] = OrZero(saved),
         pc'[w] = "clamp" => saved' = saved /\ latest'[w] + MaxAhead < OrZero(saved)
  PROVE  SkipInv'
<1>1. /\ OrZero(saved) \in Nat /\ cursor[w] \in Nat /\ MaxAhead \in Nat
      /\ \A v \in Workers : cursor[v] \in Nat /\ latest[v] \in Nat
  BY CursorTypes, ConfigAssumption DEF TypeOK
<1>2. OrZero(saved)' \in Nat /\ OrZero(saved)' >= OrZero(saved)
  <2>1. CASE saved' = saved
    BY <1>1, <2>1 DEF OrZero
  <2>2. CASE Upsert(cursor[w])
    <3>1. OrZero(saved)' = Greatest(OrZero(saved), cursor[w])
      BY <2>2, UpsertFacts
    <3> QED BY <1>1, <3>1, CursorTypes
  <2> QED BY <2>1, <2>2
<1>3. (\A u, v \in Workers : u = v) \/ OrZero(saved)' # 0
  BY <1>1, <1>2 DEF SkipInv
<1>4. StartInv(w)'
  <2>1. CASE saved' = saved
    <3>1. OrZero(saved)' = OrZero(saved)
      BY <2>1 DEF OrZero
    <3> QED BY <1>1, <3>1 DEF StartInv
  <2>2. CASE saved' # saved
    BY <2>2 DEF StartInv
  <2> QED BY <2>1, <2>2
<1>5. ASSUME NEW v \in Workers \ {w} PROVE StartInv(v)'
  <2>1. OrZero(saved) # 0
    BY <1>5 DEF SkipInv
  <2>2. StartInv(v) /\ cursor'[v] = cursor[v] /\ pc'[v] = pc[v] /\ latest'[v] = latest[v]
    BY DEF SkipInv
  <2>3. pc[v] = "resolve" => cursor[v] <= OrZero(saved)' /\ cursor[v] # 0
    BY <1>1, <1>2, <2>1, <2>2 DEF StartInv
  <2>4. pc[v] = "clamp" => latest[v] + MaxAhead < OrZero(saved)'
    BY <1>1, <1>2, <2>2 DEF StartInv
  <2> QED BY <2>2, <2>3, <2>4 DEF StartInv
<1> QED BY <1>3, <1>4, <1>5 DEF SkipInv

\* What the steps before the first poll do with the floor.
LEMMA SkipByStart ==
  ASSUME Overrides \subseteq {None}, TypeOK, TypeOK', SkipInv, NEW w \in Workers,
         \/ Start(w) \/ Resume(w) \/ Clamp(w) \/ StartFromNow(w) \/ SaveClamped(w)
         \/ SaveFromNow(w)
  PROVE  SkipInv' /\ SkipBehind
<1> USE DEF GoTo, outside, database, locals, SkipBehind
<1>1. /\ OrZero(saved) \in Nat /\ floor \in Nat /\ cursor[w] \in Nat /\ latest[w] \in Nat
      /\ visible \subseteq Nat /\ MaxAhead \in Nat
  BY CursorTypes, IdsAssumption, ConfigAssumption DEF TypeOK
<1>2. StartInv(w)
  BY DEF SkipInv
<1>3. CASE Start(w)
  <2>1. cursor' = [cursor EXCEPT ![w] = OrZero(saved)] /\ floor' = floor
    <3>1. PICK o \in Overrides :
            /\ cursor' = [cursor EXCEPT ![w] = IF o # None THEN o ELSE OrZero(saved)]
            /\ floor' = Greatest(floor, OrZero(o))
      BY <1>3 DEF Start
    <3>2. o = None /\ OrZero(o) = 0
      BY DEF OrZero
    <3> QED BY <1>1, <3>1, <3>2 DEF Greatest
  <2>2. cursor'[w] = OrZero(saved) /\ pc'[w] = "resolve" /\ UNCHANGED <<saved, latest>>
    BY <1>3, <2>1 DEF Start, TypeOK
  <2>3. \A v \in Workers \ {w} : cursor'[v] = cursor[v] /\ pc'[v] = pc[v]
    BY <1>3, <2>1 DEF Start, TypeOK
  <2> QED BY <2>1, <2>2, <2>3, SkipByProcess
<1>4. CASE Resume(w) \/ SaveFromNow(w)
  <2>1. /\ saved' = saved \/ Upsert(cursor[w])
        /\ UNCHANGED <<floor, cursor, latest>> /\ pc'[w] = "fetch"
        /\ \A v \in Workers \ {w} : pc'[v] = pc[v]
    BY <1>4 DEF Resume, SaveFromNow, TypeOK
  <2> QED BY <2>1, SkipByProcess
<1>5. CASE Clamp(w)
  <2>1. PICK n \in visible : /\ cursor[w] > n + MaxAhead
                             /\ cursor' = [cursor EXCEPT ![w] = Clamped(n)]
                             /\ latest' = [latest EXCEPT ![w] = n]
                             /\ floor' = Greatest(floor, Clamped(n))
    BY <1>5 DEF Clamp
  <2>2. n \in Nat /\ Clamped(n) \in Nat /\ Clamped(n) <= n
    BY <1>1, CursorTypes
  <2>3. n + MaxAhead < OrZero(saved)
    BY <1>1, <1>2, <1>5, <2>1, <2>2 DEF StartInv, Clamp
  <2>4. SkipBehind
    BY <1>1, <2>1, <2>2, <2>3 DEF Greatest
  <2>5. /\ saved' = saved /\ latest'[w] = n
        /\ pc'[w] = "clamp"
        /\ \A v \in Workers \ {w} :
             cursor'[v] = cursor[v] /\ pc'[v] = pc[v] /\ latest'[v] = latest[v]
    BY <1>5, <2>1 DEF Clamp, TypeOK
  <2> QED BY <2>3, <2>4, <2>5, SkipByProcess
<1>6. CASE StartFromNow(w)
  <2>1. PICK n \in visible : GoFromNow(w, n)
    BY <1>6 DEF StartFromNow
  <2>2. OrZero(saved) = 0 /\ saved' = saved
    BY <1>2, <1>6 DEF StartFromNow, StartInv, FromNow
  <2>3. /\ pc'[w] = "from_now" /\ latest' = latest
        /\ \A v \in Workers \ {w} : cursor'[v] = cursor[v] /\ pc'[v] = pc[v]
    BY <1>6, <2>1 DEF StartFromNow, GoFromNow, TypeOK
  <2> QED BY <2>2, <2>3, SkipByProcess
<1>7. CASE SaveClamped(w)
  <2>1. /\ pc[w] = "clamp" /\ Upsert(cursor[w]) /\ latest' = [latest EXCEPT ![w] = 0]
        /\ GoFromNow(w, latest[w]) \/ (GoTo(w, "fetch") /\ UNCHANGED <<cursor, floor>>)
    BY <1>7 DEF SaveClamped
  <2>2. latest[w] + MaxAhead < OrZero(saved)
    BY <1>2, <2>1 DEF StartInv
  <2>3. SkipBehind
    BY <1>1, <2>1, <2>2 DEF GoFromNow, Greatest
  <2>4. /\ pc'[w] \in {"from_now", "fetch"}
        /\ \A v \in Workers \ {w} :
             cursor'[v] = cursor[v] /\ pc'[v] = pc[v] /\ latest'[v] = latest[v]
    BY <2>1 DEF GoFromNow, TypeOK
  <2> QED BY <2>1, <2>3, <2>4, SkipByProcess
<1> QED BY <1>3, <1>4, <1>5, <1>6, <1>7

\* Polling skips nothing.
LEMMA SkipByPoll ==
  ASSUME TypeOK, TypeOK', SkipInv, NEW w \in Workers,
         \/ Fetch(w) \/ Insert(w) \/ WouldInsert(w) \/ InsertRefused(w) \/ Save(w)
         \/ Stop(w)
  PROVE  SkipInv' /\ SkipBehind
<1> USE DEF GoTo, outside, database, locals
<1>1. floor' = floor /\ (saved' = saved \/ Upsert(cursor[w]))
  BY DEF Fetch, Insert, WouldInsert, Progress, InsertRefused, Save, Stop, End
<1>2. /\ pc'[w] \in {"insert", "fetch", "save", "stopped"}
      /\ \A v \in Workers \ {w} :
           cursor'[v] = cursor[v] /\ pc'[v] = pc[v] /\ latest'[v] = latest[v]
  <2>1. CASE Fetch(w)
    <3>1. PICK b \in Nat :
            /\ cursor' \in {cursor, [cursor EXCEPT ![w] = b]}
            /\ GoTo(w, "insert") \/ GoTo(w, AfterProgress(w)) \/ GoTo(w, "fetch")
      BY <2>1, FetchFacts
    <3>2. latest' = latest
      BY <2>1 DEF Fetch
    <3> QED BY <3>1, <3>2 DEF TypeOK, AfterProgress
  <2>2. CASE Insert(w) \/ WouldInsert(w)
    <3>1. Progress(w)
      BY <2>2 DEF Insert, WouldInsert
    <3> QED BY <3>1 DEF Progress, AfterProgress, TypeOK
  <2>3. CASE InsertRefused(w) \/ Stop(w)
    <3>1. End(w)
      BY <2>3 DEF InsertRefused, Stop
    <3> QED BY <3>1 DEF End, TypeOK
  <2>4. CASE Save(w)
    BY <2>4 DEF Save, TypeOK
  <2> QED BY <2>1, <2>2, <2>3, <2>4
<1>3. SkipInv'
  BY <1>1, <1>2, SkipByProcess
<1> QED BY <1>1, <1>3 DEF SkipBehind

LEMMA SkipStep ==
  ASSUME Overrides \subseteq {None}, TypeOK, SkipInv, [Next]_vars
  PROVE  SkipInv' /\ SkipBehind
<1>1. TypeOK'
  BY TypeStep
<1>2. CASE (\E i \in Ids : Appear(i)) \/ SeedAsset \/ UNCHANGED vars
  <2>1. UNCHANGED <<saved, floor, pc, cursor, latest>>
    BY <1>2 DEF Appear, SeedAsset, vars, outside, database, locals
  <2> QED BY <2>1 DEF SkipInv, StartInv, SkipBehind, OrZero
<1>3. ASSUME NEW w \in Workers, Start(w) \/ Step(w) \/ Stop(w)
      PROVE  SkipInv' /\ SkipBehind
  <2>1. CASE Start(w) \/ Resume(w) \/ Clamp(w) \/ StartFromNow(w) \/ SaveClamped(w)
               \/ SaveFromNow(w)
    BY <1>1, <2>1, SkipByStart
  <2>2. CASE \/ Fetch(w) \/ Insert(w) \/ WouldInsert(w) \/ InsertRefused(w) \/ Save(w)
             \/ Stop(w)
    BY <1>1, <2>2, SkipByPoll
  <2> QED BY <1>3, <2>1, <2>2 DEF Step
<1> QED BY <1>2, <1>3 DEF Next

\* No start skips past the saved cursor, or to within MaxAhead of it: if no override is
\* configured, and one process runs or a cursor was there from the first.  Two processes
\* that start on an empty cursor table are the exception.
THEOREM SkipsAreBehind ==
  ASSUME Overrides \subseteq {None}, SoleOrSaved
  PROVE  Spec => SkipsStayBehind
<1>1. Init => SkipInv
  BY SkipInit
<1>2. TypeOK /\ SkipInv /\ [Next]_vars => SkipInv'
  BY SkipStep
<1>3. TypeOK /\ SkipInv /\ [Next]_vars =>
        [floor' # floor => OrZero(saved) = 0 \/ floor' + MaxAhead < OrZero(saved)]_vars
  BY SkipStep DEF SkipBehind
<1> QED BY <1>1, <1>2, <1>3, TypeCorrect, PTL DEF Spec, SkipsStayBehind
=============================================================================
