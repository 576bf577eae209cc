-------------------------- MODULE WalletProxyClient --------------------------
(***************************************************************************)
(* A call to the wallet proxy (services/walletProxyClient.ts): a request   *)
(* that is repeated after transient failures, up to a number of attempts,  *)
(* with a pause before each repetition.  A caller makes one call at a      *)
(* time.                                                                   *)
(***************************************************************************)
EXTENDS Naturals

CONSTANTS
  Callers,    \* those who call
  MaxRetries  \* WALLET_PROXY_MAX_RETRIES

VARIABLES
  phase,   \* phase[c]: how far the call of c is
  attempt  \* attempt[c]: the attempt it is in, 0 outside calls

Phases == {"idle", "waiting", "pausing", "hung"}

\* Mutation: the first attempt counts as a retry.
FewerAttempts == MaxRetries

\* Math.max(1, config.maxRetries + 1); a negative setting is refused.
MaxAttempts == MaxRetries + 1

ClientTypeOK ==
  /\ phase \in [Callers -> Phases]
  /\ attempt \in [Callers -> 0..MaxAttempts]

ClientInit ==
  /\ phase = [c \in Callers |-> "idle"]
  /\ attempt = [c \in Callers |-> 0]

-----------------------------------------------------------------------------
(* What may become of one request but a good answer.                       *)

\* No answer comes: the connection fails, or nothing is heard for the timeout.
NoAnswer == {"refused", "reset", "timed_out", "unknown_host", "unreachable"}

\* An error status, with or without an error object, or a body that is no JSON; the
\* error object of a "busy" status speaks of overload or of a timeout.
Status5xx == {"error_5xx", "garbled_5xx"}
Status4xx == {"busy_4xx", "error_4xx", "garbled_4xx"}

\* A 2xx status with an error object, or with a body that is no JSON.
Status2xx == {"overloaded", "error_2xx", "garbled_2xx"}

Failures == NoAnswer \cup Status5xx \cup Status4xx \cup Status2xx

\* Mutation: a status is no reason to try again.
NamedFailure(failure) ==
  failure \in {"refused", "reset", "timed_out", "unknown_host", "overloaded",
              "busy_4xx"}

\* WalletProxyRequestError.isTransient: by the status, or by the words of the message.
IsTransient(failure) ==
  failure \in Status5xx \cup {"refused", "reset", "timed_out", "unknown_host", "overloaded",
                             "busy_4xx"}

-----------------------------------------------------------------------------
(* requestWithRetry.                                                       *)

MoveOn(c, to, n) ==
  /\ phase' = [phase EXCEPT ![c] = to]
  /\ attempt' = [attempt EXCEPT ![c] = n]

\* The first request of a call.
Request(c) == phase[c] = "idle" /\ MoveOn(c, "waiting", 1)

\* A transient failure, and attempts are left.
Pause(c, failure) ==
  /\ phase[c] = "waiting" /\ IsTransient(failure) /\ attempt[c] # MaxAttempts
  /\ MoveOn(c, "pausing", attempt[c])

\* The pause is over, and the request is sent once more.
Resend(c) == phase[c] = "pausing" /\ MoveOn(c, "waiting", attempt[c] + 1)

\* A 2xx answer that is no error is returned; its body may be missing.
Return(c) == phase[c] = "waiting" /\ MoveOn(c, "idle", 0)

\* A failure that is not transient, or the last one, is thrown.
Throw(c, failure) ==
  /\ phase[c] = "waiting" /\ (~IsTransient(failure) \/ attempt[c] = MaxAttempts)
  /\ MoveOn(c, "idle", 0)

\* The connection closes in the middle of the body: the response has no "end", nobody
\* listens for it to be aborted, and the promise is never settled.
Hang(c) == phase[c] = "waiting" /\ MoveOn(c, "hung", attempt[c])

\* The process of c is gone, and its call with it.
Abandon(c) == MoveOn(c, "idle", 0)
=============================================================================
