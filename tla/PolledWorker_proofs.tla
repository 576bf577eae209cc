------------------------- MODULE PolledWorker_proofs -------------------------
(***************************************************************************)
(* Proofs about PolledWorker, for any processes, retries and lengths of    *)
(* outages, as long as an outage fails no more requests of a process than  *)
(* there are retries, and in ways that the client takes for transient: it  *)
(* implements StreamWorker, and so neither misses nor skips more than it.  *)
(***************************************************************************)
EXTENDS PolledWorker, StreamWorker_proofs

\* What the client is built for.
ShortOutages ==
  /\ MaxOutage <= MaxRetries
  /\ \A failure \in OutageFailures : Client!IsTransient(failure)

\* A call is made by a process that polls or looks up the latest id; each attempt but
\* the one that waits has met the present outage; a hung process does nothing more.
CallInv(w) ==
  /\ phase[w] \in {"waiting", "pausing"} =>
       pc[w] \in {"resolve", "fetch"} /\ attempt[w] \in 1..MaxRetries + 1
  /\ phase[w] = "waiting" => attempt[w] <= outage[w] + 1
  /\ phase[w] = "pausing" => attempt[w] <= outage[w] /\ attempt[w] <= MaxRetries
  /\ phase[w] = "hung" => pc[w] = "stopped"

PInv ==
  /\ TypeOK /\ PolledTypeOK
  /\ OnlyFaultsEnd
  /\ \A w \in Workers : CallInv(w)

\* The client's constants and what it does to the call of one process.
LEMMA ClientFacts ==
  ASSUME PInv, NEW w \in Workers, NEW to \in Client!Phases, NEW n \in 0..MaxRetries + 1,
         Client!MoveOn(w, to, n)
  PROVE  /\ Client!ClientTypeOK'
         /\ phase'[w] = to /\ attempt'[w] = n
         /\ \A v \in Workers \ {w} : phase'[v] = phase[v] /\ attempt'[v] = attempt[v]
BY RetryAssumption
   DEF PInv, PolledTypeOK, Client!ClientTypeOK, Client!MaxAttempts, Client!MoveOn

\* An outage that goes on or ends, and a fault, keep the types.
LEMMA EnvironmentFacts ==
  ASSUME PInv, NEW w \in Workers
  PROVE  /\ DuringOutage(w) =>
              /\ outage[w] < MaxOutage /\ outage'[w] = outage[w] + 1 /\ faults' = faults
              /\ outage' \in [Workers -> 0..MaxOutage] /\ faults' \in 0..MaxStops
         /\ OutageOver(w) =>
              /\ outage'[w] = 0 /\ faults' = faults
              /\ outage' \in [Workers -> 0..MaxOutage] /\ faults' \in 0..MaxStops
         /\ Fault =>
              /\ faults < MaxStops /\ faults' = faults + 1 /\ outage' = outage
              /\ faults' \in 0..MaxStops
         /\ DuringOutage(w) \/ OutageOver(w) \/ Fault =>
              \A v \in Workers \ {w} : outage'[v] = outage[v]
BY RetryAssumption, ConfigAssumption
   DEF PInv, PolledTypeOK, DuringOutage, OutageOver, Fault

-----------------------------------------------------------------------------
(* The refinement, step by step.                                           *)

\* What a process does is what it does in StreamWorker, if it is not one of its ends.
LEMMA PlainSteps ==
  ASSUME PInv, NEW w \in Workers,
         \/ StartProcess(w) \/ Request(w) \/ Resend(w) \/ Retry(w) \/ Answer(w)
         \/ BlankPage(w) \/ DatabaseStep(w) \/ Exit(w)
  PROVE  [Next]_vars /\ stops' = stops
<1>1. CASE Request(w) \/ Resend(w) \/ Retry(w) \/ BlankPage(w) \/ Exit(w)
  BY <1>1 DEF Request, Resend, Retry, BlankPage, Exit, vars
<1>2. CASE StartProcess(w)
  BY <1>2 DEF StartProcess, Start, Next
<1>3. CASE Answer(w)
  BY <1>3 DEF Answer, Resume, Clamp, StartFromNow, Fetch, Step, Next
<1>4. CASE DatabaseStep(w)
  <2>1. stops' = stops
    BY <1>4 DEF DatabaseStep, SaveClamped, SaveFromNow, Insert, WouldInsert, Progress,
                InsertRefused, Save
  <2>2. Step(w)
    BY <1>4 DEF DatabaseStep, Step
  <2> QED BY <2>1, <2>2 DEF Next
<1> QED BY <1>1, <1>2, <1>3, <1>4

\* A call in an outage is not thrown: there were fewer attempts than the outage fails.
LEMMA OutageIsRidden ==
  ASSUME ShortOutages, PInv, NEW w \in Workers, NEW failure \in OutageFailures,
         Client!Throw(w, failure), DuringOutage(w)
  PROVE  FALSE
<1>1. phase[w] = "waiting" /\ attempt[w] = MaxRetries + 1
  BY DEF ShortOutages, Client!Throw, Client!MaxAttempts
<1>2. attempt[w] <= outage[w] + 1 /\ outage[w] < MaxOutage
  BY <1>1, EnvironmentFacts DEF PInv, CallInv
<1>3. outage[w] \in 0..MaxOutage
  BY DEF PInv, PolledTypeOK
<1> QED BY <1>1, <1>2, <1>3, RetryAssumption DEF ShortOutages

\* Whatever ends a process is a fault, and an end in StreamWorker.
LEMMA Ends ==
  ASSUME ShortOutages, PInv, NEW w \in Workers,
         GiveUp(w) \/ BlankLatest(w) \/ Hang(w) \/ Kill(w)
  PROVE  Stop(w) /\ Fault
<1>1. Fault /\ Die(w)
  <2>1. CASE GiveUp(w)
    BY <2>1, OutageIsRidden DEF GiveUp
  <2>2. CASE BlankLatest(w) \/ Hang(w) \/ Kill(w)
    BY <2>2 DEF BlankLatest, Hang, Kill
  <2> QED BY <2>1, <2>2
<1>2. pc[w] # "stopped"
  <2>1. CASE Kill(w)
    BY <2>1 DEF Kill
  <2>2. CASE GiveUp(w) \/ BlankLatest(w) \/ Hang(w)
    <3>1. phase[w] = "waiting"
      BY <2>2 DEF GiveUp, BlankLatest, Hang, Client!Throw, Client!Return, Client!Hang
    <3> QED BY <3>1 DEF PInv, CallInv
  <2> QED BY <2>1, <2>2
<1>3. stops < MaxStops
  BY <1>1, ConfigAssumption DEF PInv, TypeOK, PolledTypeOK, OnlyFaultsEnd, Fault
<1> QED BY <1>1, <1>2, <1>3 DEF Stop, Die

\* Every step is one of StreamWorker, or none, and ends no process but by a fault.
LEMMA StepRefines ==
  ASSUME ShortOutages, PInv, [PolledNext]_polledVars
  PROVE  [Next]_vars /\ OnlyFaultsEnd'
<1> USE DEF PInv, TypeOK, PolledTypeOK, OnlyFaultsEnd
<1>1. CASE Outside
  <2>1. Next /\ stops' = stops /\ faults' = faults
    BY <1>1 DEF Outside, Next, Appear, SeedAsset, environment
  <2> QED BY <2>1
<1>2. CASE UNCHANGED polledVars
  BY <1>2 DEF polledVars, vars, environment
<1>3. ASSUME NEW w \in Workers,
             \/ StartProcess(w) \/ Request(w) \/ Resend(w) \/ Retry(w) \/ Answer(w)
             \/ BlankPage(w) \/ DatabaseStep(w) \/ Exit(w)
      PROVE  [Next]_vars /\ OnlyFaultsEnd'
  <2>1. faults' = faults
    BY <1>3 DEF StartProcess, Request, Resend, Retry, Answer, BlankPage, DatabaseStep, Exit,
                environment, DuringOutage, OutageOver
  <2> QED BY <1>3, <2>1, PlainSteps
<1>4. ASSUME NEW w \in Workers, GiveUp(w) \/ BlankLatest(w) \/ Hang(w) \/ Kill(w)
      PROVE  [Next]_vars /\ OnlyFaultsEnd'
  <2>1. Stop(w) /\ Fault
    BY <1>4, Ends
  <2>2. stops' = stops + 1 /\ faults' = faults + 1
    BY <2>1 DEF Stop, Fault
  <2> QED BY <2>1, <2>2, ConfigAssumption DEF Next
<1> QED BY <1>1, <1>2, <1>3, <1>4 DEF PolledNext, PolledStep

-----------------------------------------------------------------------------
(* The invariant.                                                          *)

\* What the process w does leaves the calls of the others alone.
LEMMA OthersKept ==
  ASSUME PInv, NEW w \in Workers, NEW v \in Workers \ {w},
         phase'[v] = phase[v], attempt'[v] = attempt[v], outage'[v] = outage[v],
         pc'[v] = pc[v]
  PROVE  CallInv(v)'
BY DEF PInv, CallInv

\* What a process does to pc, and what its steps ask of it.
LEMMA StageFacts ==
  ASSUME PInv, NEW w \in Workers
  PROVE  /\ \A stage \in Stages : GoTo(w, stage) => pc'[w] = stage
         /\ Start(w) \/ Step(w) \/ End(w) =>
              \A v \in Workers \ {w} : pc'[v] = pc[v]
         /\ Start(w) => pc[w] = "stopped"
         /\ DatabaseStep(w) => pc[w] \in {"clamp", "from_now", "insert", "save"}
         /\ End(w) => pc'[w] = "stopped"
<1> USE DEF PInv, TypeOK, GoTo, Stages
<1>1. /\ \A stage \in Stages : GoTo(w, stage) => pc'[w] = stage
      /\ End(w) => pc'[w] = "stopped"
      /\ \A stage : GoTo(w, stage) => \A v \in Workers \ {w} : pc'[v] = pc[v]
  BY DEF End
<1>2. Start(w) \/ Step(w) \/ End(w) => \E stage : GoTo(w, stage)
  <2>1. Start(w) \/ End(w) \/ Resume(w) \/ Clamp(w) \/ StartFromNow(w) \/ SaveFromNow(w)
          \/ Insert(w) \/ WouldInsert(w) \/ InsertRefused(w) \/ Save(w)
          => \E stage : GoTo(w, stage)
    BY DEF Start, End, Resume, Clamp, StartFromNow, GoFromNow, SaveFromNow, Insert,
           WouldInsert, Progress, InsertRefused, Save
  <2>2. SaveClamped(w) => \E stage : GoTo(w, stage)
    BY DEF SaveClamped, GoFromNow
  <2>3. Fetch(w) => \E stage : GoTo(w, stage)
    BY FetchFacts
  <2> QED BY <2>1, <2>2, <2>3 DEF Step
<1>3. /\ Start(w) => pc[w] = "stopped"
      /\ DatabaseStep(w) => pc[w] \in {"clamp", "from_now", "insert", "save"}
  BY DEF Start, DatabaseStep, SaveClamped, SaveFromNow, Insert, WouldInsert,
         InsertRefused, Save
<1> QED BY <1>1, <1>2, <1>3

\* Requests, their repetitions and their answers.
LEMMA CallStep ==
  ASSUME PInv, NEW w \in Workers,
         \/ Request(w) \/ Resend(w) \/ Retry(w) \/ Answer(w) \/ BlankPage(w) \/ Exit(w)
  PROVE  PolledTypeOK' /\ \A v \in Workers : CallInv(v)'
<1>0. /\ attempt[w] \in 0..MaxRetries + 1 /\ outage[w] \in 0..MaxOutage
      /\ pc[w] \in Stages /\ CallInv(w)
  BY DEF PInv, TypeOK, PolledTypeOK, Client!ClientTypeOK, Client!MaxAttempts
<1>1. CASE Request(w)
  <2>1. /\ phase[w] = "idle" /\ Client!MoveOn(w, "waiting", 1)
        /\ pc[w] \in {"resolve", "fetch"} /\ UNCHANGED <<pc, outage, faults>>
    BY <1>1 DEF Request, Client!Request, vars, environment
  <2>2. /\ Client!ClientTypeOK' /\ phase'[w] = "waiting" /\ attempt'[w] = 1
        /\ \A v \in Workers \ {w} : phase'[v] = phase[v] /\ attempt'[v] = attempt[v]
    BY <2>1, ClientFacts, RetryAssumption DEF Client!Phases
  <2>3. PolledTypeOK'
    BY <2>1, <2>2 DEF PInv, PolledTypeOK
  <2>4. CallInv(w)'
    BY <1>0, <2>1, <2>2, RetryAssumption DEF CallInv
  <2> QED BY <2>1, <2>2, <2>3, <2>4, OthersKept
<1>2. CASE Resend(w)
  <2>1. /\ phase[w] = "pausing" /\ Client!MoveOn(w, "waiting", attempt[w] + 1)
        /\ UNCHANGED <<pc, outage, faults>>
    BY <1>2 DEF Resend, Client!Resend, vars, environment
  <2>2. /\ pc[w] \in {"resolve", "fetch"} /\ attempt[w] <= outage[w]
        /\ attempt[w] + 1 \in 1..MaxRetries + 1
    BY <1>0, <2>1, RetryAssumption DEF CallInv
  <2>3. /\ Client!ClientTypeOK' /\ phase'[w] = "waiting" /\ attempt'[w] = attempt[w] + 1
        /\ \A v \in Workers \ {w} : phase'[v] = phase[v] /\ attempt'[v] = attempt[v]
    BY <2>1, <2>2, ClientFacts, RetryAssumption DEF Client!Phases
  <2>4. PolledTypeOK'
    BY <2>1, <2>3 DEF PInv, PolledTypeOK
  <2>5. CallInv(w)'
    BY <1>0, <2>1, <2>2, <2>3 DEF CallInv
  <2> QED BY <2>1, <2>3, <2>4, <2>5, OthersKept
<1>3. CASE Retry(w)
  <2>1. /\ phase[w] = "waiting" /\ attempt[w] # MaxRetries + 1
        /\ Client!MoveOn(w, "pausing", attempt[w]) /\ DuringOutage(w) /\ UNCHANGED pc
    BY <1>3 DEF Retry, Client!Pause, Client!MaxAttempts, vars
  <2>2. /\ pc[w] \in {"resolve", "fetch"} /\ attempt[w] <= outage[w] + 1
        /\ attempt[w] \in 1..MaxRetries + 1 /\ attempt[w] <= MaxRetries
    BY <1>0, <2>1, RetryAssumption DEF CallInv
  <2>3. /\ Client!ClientTypeOK' /\ phase'[w] = "pausing" /\ attempt'[w] = attempt[w]
        /\ \A v \in Workers \ {w} : phase'[v] = phase[v] /\ attempt'[v] = attempt[v]
    BY <1>0, <2>1, ClientFacts DEF Client!Phases
  <2>4. /\ outage'[w] = outage[w] + 1 /\ \A v \in Workers \ {w} : outage'[v] = outage[v]
        /\ outage' \in [Workers -> 0..MaxOutage] /\ faults' \in 0..MaxStops
    BY <2>1, EnvironmentFacts
  <2>5. PolledTypeOK'
    BY <2>3, <2>4 DEF PInv, PolledTypeOK
  <2>6. CallInv(w)'
    BY <1>0, <2>1, <2>2, <2>3, <2>4 DEF CallInv
  <2> QED BY <2>1, <2>3, <2>4, <2>5, <2>6, OthersKept
<1>4. CASE Answer(w) \/ BlankPage(w) \/ Exit(w)
  <2>1. Client!MoveOn(w, "idle", 0)
    BY <1>4 DEF Answer, BlankPage, Exit, Client!Return, Client!Abandon
  <2>2. /\ Client!ClientTypeOK' /\ phase'[w] = "idle"
        /\ \A v \in Workers \ {w} : phase'[v] = phase[v] /\ attempt'[v] = attempt[v]
    BY <2>1, ClientFacts, RetryAssumption DEF Client!Phases
  <2>3. /\ \A v \in Workers \ {w} : outage'[v] = outage[v]
        /\ outage' \in [Workers -> 0..MaxOutage] /\ faults' \in 0..MaxStops
    BY <1>4, EnvironmentFacts
       DEF Answer, BlankPage, Exit, environment, PInv, PolledTypeOK
  <2>4. \A v \in Workers \ {w} : pc'[v] = pc[v]
    BY <1>4, StageFacts DEF Answer, BlankPage, Exit, vars, Step
  <2>5. PolledTypeOK'
    BY <2>2, <2>3 DEF PolledTypeOK
  <2>6. CallInv(w)'
    BY <2>2 DEF CallInv
  <2> QED BY <2>2, <2>3, <2>4, <2>5, <2>6, OthersKept
<1> QED BY <1>1, <1>2, <1>3, <1>4

\* Ends, and what a process does between its calls.
LEMMA BetweenCalls ==
  ASSUME ShortOutages, PInv, NEW w \in Workers,
         \/ StartProcess(w) \/ DatabaseStep(w)
         \/ GiveUp(w) \/ BlankLatest(w) \/ Hang(w) \/ Kill(w)
  PROVE  PolledTypeOK' /\ \A v \in Workers : CallInv(v)'
<1>0. /\ attempt[w] \in 0..MaxRetries + 1 /\ phase[w] \in Client!Phases /\ CallInv(w)
  BY DEF PInv, PolledTypeOK, Client!ClientTypeOK, Client!MaxAttempts
<1>1. CASE StartProcess(w) \/ DatabaseStep(w)
  <2>1. /\ UNCHANGED <<phase, attempt, outage, faults>>
        /\ \A v \in Workers \ {w} : pc'[v] = pc[v]
    BY <1>1, StageFacts DEF StartProcess, DatabaseStep, Step, call, environment
  <2>2. phase[w] = "idle"
    <3>1. CASE StartProcess(w)
      BY <3>1 DEF StartProcess
    <3>2. CASE DatabaseStep(w)
      BY <1>0, <3>2, StageFacts DEF CallInv, Client!Phases
    <3> QED BY <1>1, <3>1, <3>2
  <2>3. PolledTypeOK'
    BY <2>1 DEF PInv, PolledTypeOK, Client!ClientTypeOK
  <2>4. CallInv(w)'
    BY <2>1, <2>2 DEF CallInv
  <2> QED BY <2>1, <2>3, <2>4, OthersKept
<1>2. CASE GiveUp(w) \/ BlankLatest(w) \/ Hang(w) \/ Kill(w)
  <2>1. Fault /\ End(w)
    BY <1>2, Ends DEF Stop
  <2>2. Client!MoveOn(w, "idle", 0) \/ Client!MoveOn(w, "hung", attempt[w])
    BY <1>2 DEF GiveUp, BlankLatest, Hang, Kill, Client!Throw, Client!Return, Client!Hang,
                Client!Abandon
  <2>3. /\ Client!ClientTypeOK' /\ phase'[w] \in {"idle", "hung"}
        /\ \A v \in Workers \ {w} : phase'[v] = phase[v] /\ attempt'[v] = attempt[v]
    BY <1>0, <2>2, ClientFacts, RetryAssumption DEF Client!Phases
  <2>4. pc'[w] = "stopped" /\ \A v \in Workers \ {w} : pc'[v] = pc[v]
    BY <2>1, StageFacts
  <2>5. outage' = outage /\ faults' \in 0..MaxStops
    BY <2>1, EnvironmentFacts
  <2>6. PolledTypeOK'
    BY <2>3, <2>5 DEF PInv, PolledTypeOK
  <2>7. CallInv(w)'
    BY <2>3, <2>4 DEF CallInv
  <2> QED BY <2>3, <2>4, <2>5, <2>6, <2>7, OthersKept
<1> QED BY <1>1, <1>2

\* The invariant holds at first ...
LEMMA PInvInit == PolledInit => PInv
<1> SUFFICES ASSUME PolledInit PROVE PInv
  OBVIOUS
<1>1. TypeOK
  BY TypeInit DEF PolledInit
<1>2. PolledTypeOK
  BY RetryAssumption, ConfigAssumption
     DEF PolledInit, PolledTypeOK, Client!ClientInit, Client!ClientTypeOK, Client!Phases,
         Client!MaxAttempts
<1>3. OnlyFaultsEnd
  BY DEF PolledInit, Init, OnlyFaultsEnd
<1>4. \A w \in Workers : CallInv(w)
  BY DEF PolledInit, Client!ClientInit, CallInv
<1> QED BY <1>1, <1>2, <1>3, <1>4 DEF PInv

\* ... and after every step.
LEMMA PInvStep ==
  ASSUME ShortOutages, PInv, [PolledNext]_polledVars
  PROVE  PInv'
<1>1. TypeOK' /\ OnlyFaultsEnd'
  BY StepRefines, TypeStep DEF PInv
<1>2. PolledTypeOK' /\ \A w \in Workers : CallInv(w)'
  <2>1. CASE Outside \/ UNCHANGED polledVars
    <3>1. UNCHANGED <<pc, phase, attempt, outage, faults>>
      BY <2>1 DEF Outside, Appear, SeedAsset, polledVars, vars, call, environment
    <3> QED BY <3>1 DEF PInv, PolledTypeOK, Client!ClientTypeOK, CallInv
  <2>2. ASSUME NEW w \in Workers, StartProcess(w) \/ PolledStep(w) \/ Exit(w) \/ Kill(w)
        PROVE  PolledTypeOK' /\ \A v \in Workers : CallInv(v)'
    BY <2>2, CallStep, BetweenCalls DEF PolledStep
  <2> QED BY <2>1, <2>2 DEF PolledNext
<1> QED BY <1>1, <1>2 DEF PInv

\* The calls of every process are as its stage asks, whatever the wallet proxy does.
THEOREM PolledInvariance ==
  ASSUME ShortOutages
  PROVE  PolledSpec => []PInv
<1>1. PInv /\ [PolledNext]_polledVars => PInv'
  BY PInvStep
<1> QED BY <1>1, PInvInit, PTL DEF PolledSpec

\* No process ends by an outage that is no longer than the retries: there are as many
\* faults as ends.
THEOREM OutagesEndNothing ==
  ASSUME ShortOutages
  PROVE  PolledSpec => []OnlyFaultsEnd
<1>1. PInv => OnlyFaultsEnd
  BY DEF PInv
<1> QED BY <1>1, PolledInvariance, PTL

\* The worker with its calls is a StreamWorker, as far as safety goes.
THEOREM PolledRefinement ==
  ASSUME ShortOutages
  PROVE  PolledSpec => Spec
<1>1. PolledInit => Init
  BY DEF PolledInit
<1>2. PInv /\ [PolledNext]_polledVars => [Next]_vars
  BY StepRefines
<1> QED BY <1>1, <1>2, PolledInvariance, PTL DEF PolledSpec, Spec

\* So, with its calls and their failures, nothing at or below the saved cursor is
\* missing but what became visible late ...
THEOREM PolledNothingIsMissed ==
  ASSUME ShortOutages, ~PersistInDryRun
  PROVE  PolledSpec => []NothingMissed
BY PolledRefinement, NothingIsMissed, PTL

\* ... and it implements Ingestion.
THEOREM PolledImplementsIngestion ==
  ASSUME ShortOutages, ~PersistInDryRun
  PROVE  PolledSpec => ImplementsIngestion
BY PolledRefinement, Refinement, PTL

\* Nor does it skip more: no outage and no fault makes a process skip past the saved
\* cursor, or to within MaxAhead of it.
THEOREM PolledSkipsAreBehind ==
  ASSUME ShortOutages, Overrides \subseteq {None}, SoleOrSaved
  PROVE  PolledSpec => SkipsStayBehind
BY PolledRefinement, SkipsAreBehind, PTL
=============================================================================
