----------------------------- MODULE PolledWorker -----------------------------
(***************************************************************************)
(* The stream worker composed with its client of the wallet proxy: what    *)
(* StreamWorker takes for one step, the answer to a poll or to the look-up *)
(* of the latest id, is a call of several requests, each of which may      *)
(* fail.  The wallet proxy has outages, which pass, and other faults,      *)
(* which end the process.                                                  *)
(***************************************************************************)
EXTENDS StreamWorker

CONSTANTS
  MaxRetries,      \* WALLET_PROXY_MAX_RETRIES
  OutageFailures,  \* what a request may meet in an outage
  MaxOutage        \* bound on the requests of a process that one outage fails

VARIABLES
  phase, attempt,  \* of WalletProxyClient: the call of each process
  outage,          \* outage[w]: requests of w in the present outage
  faults           \* number of faults, and of kills

Client == INSTANCE WalletProxyClient WITH Callers <- Workers

ASSUME RetryAssumption ==
  /\ MaxRetries \in Nat /\ MaxOutage \in Nat
  /\ OutageFailures \subseteq Client!Failures

call == <<phase, attempt>>
environment == <<outage, faults>>
polledVars == <<vars, call, environment>>

\* Types of the client's part; that of the worker is StreamWorker's.
PolledTypeOK ==
  /\ Client!ClientTypeOK
  /\ outage \in [Workers -> 0..MaxOutage] /\ faults \in 0..MaxStops

PolledInit ==
  /\ Init /\ Client!ClientInit
  /\ outage = [w \in Workers |-> 0] /\ faults = 0

-----------------------------------------------------------------------------
(* The wallet proxy.                                                       *)

\* Outages are short: a request after MaxOutage failed ones is answered.
DuringOutage(w) ==
  /\ outage[w] < MaxOutage
  /\ outage' = [outage EXCEPT ![w] = @ + 1]
  /\ UNCHANGED faults

OutageOver(w) == outage' = [outage EXCEPT ![w] = 0] /\ UNCHANGED faults

\* A fault of the proxy or of the network, a kill, a signal or maxTicks.
Fault == faults < MaxStops /\ faults' = faults + 1 /\ UNCHANGED outage

-----------------------------------------------------------------------------
(* The calls of a process.                                                 *)

\* The process dies of what its call has come to.
Die(w) == stops' = stops + 1 /\ End(w)

\* fetchSince, or resolveStartCursor after it has read the saved cursor.
Request(w) ==
  /\ pc[w] \in {"resolve", "fetch"}
  /\ Client!Request(w)
  /\ UNCHANGED <<vars, environment>>

Resend(w) == Client!Resend(w) /\ UNCHANGED <<vars, environment>>

\* A request fails and will be repeated.
Retry(w) ==
  /\ \E failure \in Client!Failures : Client!Pause(w, failure)
  /\ DuringOutage(w)
  /\ UNCHANGED vars

\* A call fails for good.
GiveUp(w) ==
  /\ \E failure \in Client!Failures :
       /\ Client!Throw(w, failure)
       /\ (failure \in OutageFailures /\ DuringOutage(w)) \/ Fault
  /\ Die(w)

\* The answer arrives.
Answer(w) ==
  /\ Client!Return(w)
  /\ Resume(w) \/ Clamp(w) \/ StartFromNow(w) \/ Fetch(w)
  /\ OutageOver(w)

\* A 2xx answer without a body is a page without transactions ...
BlankPage(w) ==
  /\ pc[w] = "fetch" /\ Client!Return(w)
  /\ DuringOutage(w)
  /\ UNCHANGED vars

\* ... but getLatestAccountTransactionId throws a TypeError on it.
BlankLatest(w) ==
  /\ pc[w] = "resolve" /\ Client!Return(w)
  /\ Fault
  /\ Die(w)

\* A call that is never settled: the process does nothing more ...
Hang(w) ==
  /\ Client!Hang(w)
  /\ Fault
  /\ Die(w)

\* Mutation: something keeps the event loop alive.
NeverExit(w) == phase[w] = "hung" /\ UNCHANGED polledVars

\* ... and ends when the idle connections to the database are closed.
Exit(w) ==
  /\ phase[w] = "hung" /\ Client!Abandon(w)
  /\ UNCHANGED <<vars, environment>>

-----------------------------------------------------------------------------
(* The rest of the worker, between its calls.                              *)

StartProcess(w) == phase[w] = "idle" /\ Start(w) /\ UNCHANGED <<call, environment>>

DatabaseStep(w) ==
  /\ SaveClamped(w) \/ SaveFromNow(w) \/ Insert(w) \/ WouldInsert(w) \/ InsertRefused(w)
       \/ Save(w)
  /\ UNCHANGED <<call, environment>>

Kill(w) ==
  /\ pc[w] # "stopped" /\ Fault
  /\ Die(w)
  /\ Client!Abandon(w)

-----------------------------------------------------------------------------
\* What the process w does by itself, once it runs.
PolledStep(w) ==
  \/ Request(w) \/ Resend(w) \/ Retry(w) \/ GiveUp(w)
  \/ Answer(w) \/ BlankPage(w) \/ BlankLatest(w) \/ Hang(w)
  \/ DatabaseStep(w)

Outside ==
  /\ (\E i \in Ids : Appear(i)) \/ SeedAsset
  /\ UNCHANGED <<call, environment>>

PolledNext ==
  \/ Outside
  \/ \E w \in Workers : StartProcess(w) \/ PolledStep(w) \/ Exit(w) \/ Kill(w)

PolledSpec == PolledInit /\ [][PolledNext]_polledVars

\* A process goes on, a request that is sent comes to something, a process that has
\* ended is started again, and the operator seeds the asset in the end.
PolledFairness ==
  /\ \A w \in Workers :
       /\ WF_polledVars(PolledStep(w)) /\ WF_polledVars(StartProcess(w))
       /\ WF_polledVars(Exit(w))
  /\ WF_polledVars(SeedAsset /\ UNCHANGED <<call, environment>>)

FairPolledSpec == PolledSpec /\ PolledFairness

-----------------------------------------------------------------------------
(* Properties.                                                             *)

\* Outages that are no longer than the retries never end a process: its ends by failed
\* calls are as few as the faults, whatever outages lie between them.
OnlyFaultsEnd == stops <= faults

\* The worker with its calls, their repetitions and their failures is the worker whose
\* polls are one step, and as live.
ImplementsStreamWorker == FairSpec

\* No call stays open for ever: it is answered, or fails, or the process with it ends.
CallSettles == \A w \in Workers : phase[w] # "idle" ~> phase[w] = "idle"
=============================================================================
