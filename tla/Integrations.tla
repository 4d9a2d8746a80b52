---------------------------- MODULE Integrations ----------------------------
(***************************************************************************)
(* ResilientHttpClient.fetchJson: calls of external APIs (ViaCEP,          *)
(* BrasilAPI) that share, per integration, a circuit breaker and a rate    *)
(* limiter.  Calls run concurrently; an action is the code between two     *)
(* awaits of one call.                                                     *)
(*                                                                         *)
(* Time passes in ticks.  The code compares Date.now() with instants it    *)
(* recorded; here the time since such an instant is counted, up to the     *)
(* point where the comparison no longer changes.                           *)
(***************************************************************************)
EXTENDS Integers

CONSTANTS
  Names,             \* the integrations
  Calls,             \* calls that may be in progress at the same time
  Target,            \* the integration a call is for
  MaxAttempts, FailureThreshold,
  Cooldown, MinInterval, BaseDelay   \* in ticks

ASSUME ClientAssumption ==
  /\ Target \in [Calls -> Names]
  /\ MaxAttempts \in Nat \ {0}
  /\ FailureThreshold \in Nat \ {0}
  /\ Cooldown \in Nat
  /\ MinInterval \in Nat
  /\ BaseDelay \in Nat
  /\ \A n \in 0..MaxAttempts : BaseDelay * 2 ^ n \in Nat

VARIABLES
  state,      \* CircuitBreaker.state, per integration
  failures,   \* consecutiveFailures, counted up to FailureThreshold
  open,       \* ticks since openedAt, counted up to Cooldown
  idle,       \* ticks since lastRequestAt, counted up to MinInterval
  pc,         \* what a call does next
  attempt,    \* the attempt a call is at
  sleep,      \* ticks until the timer of a call fires
  apart,      \* history: ticks since the request that was the last one when
              \* the call asked the limiter, counted up to MinInterval
  outcome     \* how a call ended

breaker == <<state, failures, open>>
vars == <<breaker, idle, pc, attempt, sleep, apart, outcome>>

CircuitState == {"CLOSED", "OPEN", "HALF_OPEN"}
Outcome == {"none", "ok", "clientError", "unavailable", "rejected"}
CallStep == {"ended", "limited", "fetching", "body", "backoff"}

Up(n, limit) == IF n < limit THEN n + 1 ELSE n

Init ==
  /\ state = [i \in Names |-> "CLOSED"]
  /\ failures = [i \in Names |-> 0]
  /\ open = [i \in Names |-> Cooldown]
  /\ idle = [i \in Names |-> MinInterval]
  /\ pc = [c \in Calls |-> "ended"]
  /\ attempt = [c \in Calls |-> 0]
  /\ sleep = [c \in Calls |-> 0]
  /\ apart = [c \in Calls |-> MinInterval]
  /\ outcome = [c \in Calls |-> "none"]
-----------------------------------------------------------------------------
(* CircuitBreaker *)

MayAttempt(i) == state[i] # "OPEN" \/ open[i] >= Cooldown

\* canAttempt() returning true.
Admit(i) ==
  /\ state' = [state EXCEPT ![i] = IF @ = "OPEN" THEN "HALF_OPEN" ELSE @]
  /\ UNCHANGED <<failures, open>>

OnSuccess(i) ==
  /\ state' = [state EXCEPT ![i] = "CLOSED"]
  /\ failures' = [failures EXCEPT ![i] = 0]
  /\ UNCHANGED open

OnFailure(i) ==
  /\ failures' = [failures EXCEPT ![i] = Up(@, FailureThreshold)]
  /\ IF failures'[i] = FailureThreshold
     THEN /\ state' = [state EXCEPT ![i] = "OPEN"]
          /\ open' = [open EXCEPT ![i] = 0]
     ELSE UNCHANGED <<state, open>>
-----------------------------------------------------------------------------
(* RateLimiter.acquire *)

\* Mutant: the limiter sleeps the interval less what already passed, twice.
AcquireShort(c) ==
  LET i == Target[c] IN
  IF 2 * idle[i] < MinInterval
  THEN /\ pc' = [pc EXCEPT ![c] = "limited"]
       /\ sleep' = [sleep EXCEPT ![c] = MinInterval - 2 * idle[i]]
       /\ apart' = [apart EXCEPT ![c] = idle[i]]
       /\ UNCHANGED idle
  ELSE /\ pc' = [pc EXCEPT ![c] = "fetching"]
       /\ idle' = [idle EXCEPT ![i] = 0]
       /\ apart' = [apart EXCEPT ![c] = idle[i]]
       /\ UNCHANGED sleep

Acquire(c) ==
  LET i == Target[c] IN
  /\ apart' = [apart EXCEPT ![c] = idle[i]]
  /\ IF idle[i] < MinInterval
     THEN /\ pc' = [pc EXCEPT ![c] = "limited"]
          /\ sleep' = [sleep EXCEPT ![c] = MinInterval - idle[i]]
          /\ UNCHANGED idle
     ELSE /\ pc' = [pc EXCEPT ![c] = "fetching"]
          /\ idle' = [idle EXCEPT ![i] = 0]
          /\ UNCHANGED sleep

\* The timer of acquire fires: lastRequestAt = Date.now().
Wake(c) ==
  /\ pc[c] = "limited"
  /\ sleep[c] = 0
  /\ pc' = [pc EXCEPT ![c] = "fetching"]
  /\ idle' = [idle EXCEPT ![Target[c]] = 0]
  /\ UNCHANGED <<breaker, attempt, sleep, apart, outcome>>
-----------------------------------------------------------------------------
(* ResilientHttpClient.fetchJson *)

Ends(c, result) ==
  /\ pc' = [pc EXCEPT ![c] = "ended"]
  /\ outcome' = [outcome EXCEPT ![c] = result]
  /\ UNCHANGED <<idle, attempt, sleep, apart>>

Rejected(c) ==
  /\ pc[c] = "ended"
  /\ ~MayAttempt(Target[c])
  /\ Ends(c, "rejected")
  /\ UNCHANGED breaker

Call(c) ==
  /\ pc[c] = "ended"
  /\ MayAttempt(Target[c])
  /\ Admit(Target[c])
  /\ Acquire(c)
  /\ attempt' = [attempt EXCEPT ![c] = 1]
  /\ outcome' = [outcome EXCEPT ![c] = "none"]

\* Mutant: the loop runs once more.
AttemptFailsOnceMore(c) ==
  IF attempt[c] <= MaxAttempts
  THEN /\ pc' = [pc EXCEPT ![c] = "backoff"]
       /\ sleep' = [sleep EXCEPT ![c] = BaseDelay * 2 ^ (attempt[c] - 1)]
       /\ UNCHANGED <<breaker, idle, attempt, apart, outcome>>
  ELSE OnFailure(Target[c]) /\ Ends(c, "unavailable")

\* The end of an attempt that a later one may make good, or of the last one.
AttemptFails(c) ==
  IF attempt[c] < MaxAttempts
  THEN /\ pc' = [pc EXCEPT ![c] = "backoff"]
       /\ sleep' = [sleep EXCEPT ![c] = BaseDelay * 2 ^ (attempt[c] - 1)]
       /\ UNCHANGED <<breaker, idle, attempt, apart, outcome>>
  ELSE OnFailure(Target[c]) /\ Ends(c, "unavailable")

\* A response with ok: the breaker is told before the body is read.
RespondsOk(c) ==
  /\ pc[c] = "fetching"
  /\ OnSuccess(Target[c])
  /\ pc' = [pc EXCEPT ![c] = "body"]
  /\ UNCHANGED <<idle, attempt, sleep, apart, outcome>>

\* Mutant: a 4xx counts as a failure of the circuit.
ClientErrorFails(c) ==
  pc[c] = "fetching" /\ OnFailure(Target[c]) /\ Ends(c, "clientError")

\* Mutant: a 4xx is thrown without telling the breaker.
ClientErrorUntold(c) ==
  pc[c] = "fetching" /\ Ends(c, "clientError") /\ UNCHANGED breaker

\* A 4xx: the API answered, the request is not tried again.
RespondsClientError(c) ==
  pc[c] = "fetching" /\ OnSuccess(Target[c]) /\ Ends(c, "clientError")

\* A 5xx, a network error, or the abort after timeoutMs.
FetchFails(c) == pc[c] = "fetching" /\ AttemptFails(c)

BodyRead(c) == pc[c] = "body" /\ Ends(c, "ok") /\ UNCHANGED breaker

\* response.json() throws, on a malformed body or on the abort.
BodyFails(c) == pc[c] = "body" /\ AttemptFails(c)

Retry(c) ==
  /\ pc[c] = "backoff"
  /\ sleep[c] = 0
  /\ attempt' = [attempt EXCEPT ![c] = @ + 1]
  /\ Acquire(c)
  /\ UNCHANGED <<breaker, outcome>>

Tick ==
  /\ open' = [i \in Names |-> Up(open[i], Cooldown)]
  /\ idle' = [i \in Names |-> Up(idle[i], MinInterval)]
  /\ sleep' = [c \in Calls |-> IF sleep[c] > 0 THEN sleep[c] - 1 ELSE 0]
  /\ apart' = [c \in Calls |-> Up(apart[c], MinInterval)]
  /\ UNCHANGED <<state, failures, pc, attempt, outcome>>
-----------------------------------------------------------------------------
Step(c) ==
  \/ Wake(c) \/ RespondsOk(c) \/ RespondsClientError(c) \/ FetchFails(c)
  \/ BodyRead(c) \/ BodyFails(c) \/ Retry(c)

Next == Tick \/ \E c \in Calls : Rejected(c) \/ Call(c) \/ Step(c)

\* Time passes, timers fire, and every fetch ends: it is aborted if need be.
Spec == Init /\ [][Next]_vars /\ WF_vars(Tick) /\ \A c \in Calls : WF_vars(Step(c))
-----------------------------------------------------------------------------
TypeOK ==
  /\ state \in [Names -> CircuitState]
  /\ failures \in [Names -> 0..FailureThreshold]
  /\ open \in [Names -> 0..Cooldown]
  /\ idle \in [Names -> 0..MinInterval]
  /\ pc \in [Calls -> CallStep]
  /\ attempt \in [Calls -> 0..MaxAttempts]
  /\ sleep \in [Calls -> Nat]
  /\ apart \in [Calls -> 0..MinInterval]
  /\ outcome \in [Calls -> Outcome]

\* The circuit is closed exactly while fewer than the threshold of calls in a
\* row have failed, although calls admitted in one state report in another:
\* so a single failure in HALF_OPEN opens it again.
ClosedBelowThreshold ==
  \A i \in Names : state[i] = "CLOSED" <=> failures[i] < FailureThreshold

\* The limiter keeps the interval for requests in sequence: one is sent at
\* least MinInterval after the one that was the last when its call asked for
\* leave, whatever other calls were granted in between.
SequentialSpacing ==
  [][\A c \in Calls : pc[c] # "fetching" /\ pc'[c] = "fetching" =>
       apart'[c] >= MinInterval]_vars

\* Only a call that used up its attempts opens the circuit: no 4xx does, nor
\* an attempt that is tried again.
OpensOnlyByExhaustion ==
  [][\A i \in Names : state[i] # "OPEN" /\ state'[i] = "OPEN" =>
       \E c \in Calls :
         /\ Target[c] = i
         /\ attempt[c] = MaxAttempts
         /\ pc[c] # "ended" /\ outcome'[c] = "unavailable"]_vars

\* The inductive part of the limiter's promise: a sleeping call wakes up late
\* enough.
Paced == \A c \in Calls : pc[c] = "limited" => sleep[c] + apart[c] >= MinInterval

\* Every call gets an answer, however the API and the other calls behave, and
\* so a half-open circuit is decided: the call it admitted reports to it
\* whatever becomes of it.
EveryCallReports ==
  /\ \A c \in Calls : pc[c] # "ended" ~> pc[c] = "ended"
  /\ \A i \in Names : state[i] = "HALF_OPEN" ~> state[i] # "HALF_OPEN"
=============================================================================
