------------------------- MODULE IntegrationsProofs -------------------------
(***************************************************************************)
(* The safety properties of Integrations, for every set of integrations    *)
(* and calls, every threshold and every interval.                          *)
(***************************************************************************)
EXTENDS Integrations, TLAPS

\* A call in progress is at an attempt, and one that backs off has more to go.
Counted ==
  \A c \in Calls :
    /\ pc[c] # "ended" => attempt[c] > 0
    /\ pc[c] = "backoff" => attempt[c] < MaxAttempts

IInv == TypeOK /\ ClosedBelowThreshold /\ Paced /\ Counted

\* A new instance: circuits closed, nobody waiting.
LEMMA InitIInv == Init => IInv
  BY ClientAssumption
  DEF Init, IInv, TypeOK, ClosedBelowThreshold, Paced, Counted, CircuitState, CallStep, Outcome

-----------------------------------------------------------------------------
(* What the two shared objects do to their own variables. *)

\* canAttempt, onSuccess and onFailure keep the breaker's variables in their
\* types and the threshold's meaning.
LEMMA BreakerStep ==
  ASSUME IInv, NEW i \in Names, Admit(i) \/ OnSuccess(i) \/ OnFailure(i)
  PROVE  /\ state' \in [Names -> CircuitState]
         /\ failures' \in [Names -> 0..FailureThreshold]
         /\ open' \in [Names -> 0..Cooldown]
         /\ ClosedBelowThreshold'
  <1>1. CASE Admit(i)
    BY <1>1, ClientAssumption
    DEF IInv, TypeOK, ClosedBelowThreshold, Admit, CircuitState
  <1>2. CASE OnSuccess(i)
    BY <1>2, ClientAssumption
    DEF IInv, TypeOK, ClosedBelowThreshold, OnSuccess, CircuitState
  <1>3. CASE OnFailure(i)
    BY <1>3, ClientAssumption
    DEF IInv, TypeOK, ClosedBelowThreshold, OnFailure, CircuitState, Up
  <1> QED BY <1>1, <1>2, <1>3

\* acquire either lets the call go at once or puts it to sleep for the rest of
\* the interval.
LEMMA AcquireStep ==
  ASSUME IInv, NEW c \in Calls, Acquire(c)
  PROVE  /\ idle' \in [Names -> 0..MinInterval]
         /\ pc' \in [Calls -> CallStep]
         /\ sleep' \in [Calls -> Nat]
         /\ apart' \in [Calls -> 0..MinInterval]
         /\ Paced'
  <1> DEFINE i == Target[c]
  <1>0. i \in Names /\ idle[i] \in 0..MinInterval
    BY ClientAssumption DEF IInv, TypeOK
  <1>1. CASE idle[i] < MinInterval
    BY <1>0, <1>1, ClientAssumption DEF IInv, TypeOK, Paced, Acquire, CallStep
  <1>2. CASE ~(idle[i] < MinInterval)
    BY <1>0, <1>2, ClientAssumption DEF IInv, TypeOK, Paced, Acquire, CallStep
  <1> QED BY <1>1, <1>2

\* A failed attempt backs off or, if it was the last, reports to the breaker.
LEMMA AttemptFailsStep ==
  ASSUME IInv, NEW c \in Calls, pc[c] \in {"fetching", "body"}, AttemptFails(c)
  PROVE  IInv'
  <1>0. Target[c] \in Names /\ attempt[c] \in 1..MaxAttempts
    BY ClientAssumption DEF IInv, TypeOK, Counted
  <1>1. CASE attempt[c] < MaxAttempts
    <2>1. BaseDelay * 2 ^ (attempt[c] - 1) \in Nat
      <3>1. attempt[c] - 1 \in 0..MaxAttempts
        BY <1>0, ClientAssumption
      <3> QED BY <3>1, ClientAssumption
    <2> QED
      BY <1>0, <1>1, <2>1
      DEF IInv, TypeOK, ClosedBelowThreshold, Paced, Counted, AttemptFails,
          breaker, CallStep
  <1>2. CASE ~(attempt[c] < MaxAttempts)
    <2>1. OnFailure(Target[c]) /\ Ends(c, "unavailable")
      BY <1>2 DEF AttemptFails
    <2> QED BY <1>0, <2>1, BreakerStep
         DEF IInv, TypeOK, Paced, Counted, Ends, CallStep, Outcome
  <1> QED BY <1>1, <1>2

-----------------------------------------------------------------------------
(* One step per action. *)
LEMMA NextIInv == IInv /\ [Next]_vars => IInv'
  <1> SUFFICES ASSUME IInv, [Next]_vars PROVE IInv'
    OBVIOUS
  <1>0. \A c \in Calls : Target[c] \in Names
    BY ClientAssumption
  <1>1. CASE Tick
    BY <1>1, ClientAssumption
    DEF IInv, TypeOK, ClosedBelowThreshold, Paced, Counted, Tick, Up
  <1>2. ASSUME NEW c \in Calls, Rejected(c) PROVE IInv'
    BY <1>2
    DEF IInv, TypeOK, ClosedBelowThreshold, Paced, Counted, Rejected, Ends,
        breaker, CallStep, Outcome
  <1>3. ASSUME NEW c \in Calls, Call(c) PROVE IInv'
    <2>1. Admit(Target[c]) /\ Acquire(c)
      BY <1>3 DEF Call
    <2>2. ClosedBelowThreshold' /\ Paced'
      BY <1>0, <2>1, BreakerStep, AcquireStep
    <2>3. TypeOK'
      <3>1. /\ state' \in [Names -> CircuitState]
            /\ failures' \in [Names -> 0..FailureThreshold]
            /\ open' \in [Names -> 0..Cooldown]
        BY <1>0, <2>1, BreakerStep
      <3>2. /\ idle' \in [Names -> 0..MinInterval]
            /\ pc' \in [Calls -> CallStep]
            /\ sleep' \in [Calls -> Nat]
            /\ apart' \in [Calls -> 0..MinInterval]
        BY <2>1, AcquireStep
      <3>3. attempt' \in [Calls -> 0..MaxAttempts] /\ outcome' \in [Calls -> Outcome]
        BY <1>3, ClientAssumption DEF IInv, TypeOK, Call, Outcome
      <3> QED BY <3>1, <3>2, <3>3 DEF TypeOK
    <2>4. Counted'
      BY <1>3, <2>1, ClientAssumption DEF IInv, TypeOK, Counted, Call, Acquire
    <2> QED BY <2>2, <2>3, <2>4 DEF IInv
  <1>4. ASSUME NEW c \in Calls, Wake(c) PROVE IInv'
    BY <1>0, <1>4, ClientAssumption
    DEF IInv, TypeOK, ClosedBelowThreshold, Paced, Counted, Wake, breaker, CallStep
  <1>5. ASSUME NEW c \in Calls, RespondsOk(c) PROVE IInv'
    BY <1>0, <1>5, BreakerStep
    DEF IInv, TypeOK, Paced, Counted, RespondsOk, CallStep
  <1>6. ASSUME NEW c \in Calls, RespondsClientError(c) PROVE IInv'
    BY <1>0, <1>6, BreakerStep
    DEF IInv, TypeOK, Paced, Counted, RespondsClientError, Ends, CallStep, Outcome
  <1>7. ASSUME NEW c \in Calls, FetchFails(c) \/ BodyFails(c) PROVE IInv'
    BY <1>7, AttemptFailsStep DEF FetchFails, BodyFails
  <1>8. ASSUME NEW c \in Calls, BodyRead(c) PROVE IInv'
    BY <1>8
    DEF IInv, TypeOK, ClosedBelowThreshold, Paced, Counted, BodyRead, Ends,
        breaker, CallStep, Outcome
  <1>9. ASSUME NEW c \in Calls, Retry(c) PROVE IInv'
    <2>1. attempt[c] < MaxAttempts
      BY <1>9 DEF IInv, Counted, Retry
    <2>2. Acquire(c) /\ UNCHANGED <<breaker, outcome>>
      BY <1>9 DEF Retry
    <2>3. TypeOK' /\ ClosedBelowThreshold' /\ Paced'
      <3>1. attempt' \in [Calls -> 0..MaxAttempts]
        BY <1>9, <2>1, ClientAssumption DEF IInv, TypeOK, Retry
      <3>2. /\ idle' \in [Names -> 0..MinInterval]
            /\ pc' \in [Calls -> CallStep]
            /\ sleep' \in [Calls -> Nat]
            /\ apart' \in [Calls -> 0..MinInterval]
            /\ Paced'
        BY <2>2, AcquireStep
      <3> QED BY <2>2, <3>1, <3>2 DEF IInv, TypeOK, ClosedBelowThreshold, breaker
    <2>4. Counted'
      BY <1>9, <2>1, <2>2, ClientAssumption DEF IInv, TypeOK, Counted, Retry, Acquire
    <2> QED BY <2>3, <2>4 DEF IInv
  <1>10. CASE UNCHANGED vars
    BY <1>10
    DEF IInv, TypeOK, ClosedBelowThreshold, Paced, Counted, vars, breaker
  <1> QED
    BY <1>1, <1>2, <1>3, <1>4, <1>5, <1>6, <1>7, <1>8, <1>9, <1>10
    DEF Next, Step

LEMMA InvariantHolds == Spec => []IInv
  BY InitIInv, NextIInv, PTL DEF Spec

\* No interleaving of calls, answers and ticks takes a variable out of its
\* type: in particular the attempts of a call never pass MaxAttempts.
THEOREM TypeCorrect == Spec => []TypeOK
  BY InvariantHolds, PTL DEF IInv

\* A circuit is closed exactly while fewer than the threshold of calls in a row
\* have failed, however many calls share it.
THEOREM ClosedIsBelowThreshold == Spec => []ClosedBelowThreshold
  BY InvariantHolds, PTL DEF IInv

\* A request goes out at least MinInterval after the one that was the last when
\* its call asked the limiter.
THEOREM SequentialRequestsAreSpaced == Spec => SequentialSpacing
  <1> DEFINE Spaced ==
        \A c \in Calls : pc[c] # "fetching" /\ pc'[c] = "fetching" =>
          apart'[c] >= MinInterval
  <1>1. IInv /\ [Next]_vars => [Spaced]_vars
    <2> SUFFICES ASSUME IInv, Next, NEW c \in Calls,
                        pc[c] # "fetching", pc'[c] = "fetching"
                 PROVE  apart'[c] >= MinInterval
      OBVIOUS
    <2>1. ASSUME Acquire(c) PROVE apart'[c] >= MinInterval
      <3> DEFINE i == Target[c]
      <3>1. i \in Names /\ idle[i] \in 0..MinInterval
        BY ClientAssumption DEF IInv, TypeOK
      <3>2. apart'[c] = idle[i] /\ ~(idle[i] < MinInterval)
        BY <2>1 DEF IInv, TypeOK, Acquire
      <3> QED BY <3>1, <3>2, ClientAssumption
    <2>2. ASSUME Wake(c) PROVE apart'[c] >= MinInterval
      BY <2>2, ClientAssumption DEF IInv, TypeOK, Paced, Wake
    <2>3. Acquire(c) \/ Wake(c)
      BY DEF IInv, TypeOK, Next, Step, Tick, Rejected, Call, Wake, RespondsOk,
             RespondsClientError, FetchFails, BodyRead, BodyFails, Retry,
             AttemptFails, Acquire, Ends
    <2> QED BY <2>1, <2>2, <2>3
  <1> QED BY <1>1, InvariantHolds, PTL DEF Spec, SequentialSpacing

\* Only a call whose last attempt failed opens a circuit.
THEOREM OpenedByExhaustion == Spec => OpensOnlyByExhaustion
  <1> DEFINE Exhausted ==
        \A i \in Names : state[i] # "OPEN" /\ state'[i] = "OPEN" =>
          \E c \in Calls :
            /\ Target[c] = i
            /\ attempt[c] = MaxAttempts
            /\ pc[c] # "ended" /\ outcome'[c] = "unavailable"
  <1>1. IInv /\ [Next]_vars => [Exhausted]_vars
    <2> SUFFICES ASSUME IInv, Next, NEW i \in Names,
                        state[i] # "OPEN", state'[i] = "OPEN"
                 PROVE  \E c \in Calls :
                          /\ Target[c] = i
                          /\ attempt[c] = MaxAttempts
                          /\ pc[c] # "ended" /\ outcome'[c] = "unavailable"
      OBVIOUS
    <2>1. PICK c \in Calls : FetchFails(c) \/ BodyFails(c)
      BY DEF IInv, TypeOK, Next, Step, Tick, Rejected, Call, Wake, RespondsOk,
             RespondsClientError, BodyRead, Retry, Admit, OnSuccess, breaker
    <2>2. attempt[c] = MaxAttempts /\ OnFailure(Target[c]) /\ Ends(c, "unavailable")
      BY <2>1, ClientAssumption
      DEF IInv, TypeOK, FetchFails, BodyFails, AttemptFails, breaker
    <2>3. Target[c] = i
      BY <2>2 DEF IInv, TypeOK, OnFailure
    <2> QED BY <2>1, <2>2, <2>3 DEF IInv, TypeOK, FetchFails, BodyFails, Ends
  <1> QED BY <1>1, InvariantHolds, PTL DEF Spec, OpensOnlyByExhaustion
=============================================================================
