--------------------------- MODULE CircuitBreaker ---------------------------
(***************************************************************************)
(* The resilience toolkit (app/core/resilience/recovery.py): callers run   *)
(* async_retry around CircuitBreaker.call of one shared breaker.           *)
(*                                                                         *)
(* A call awaits its service outside the lock, so any number of calls are  *)
(* in flight while the state changes under them; the two locked sections   *)
(* hold no await and are single steps.  Time is relative: `cooldown` is    *)
(* _open_until minus the monotonic clock, and a sleeper counts down.       *)
(***************************************************************************)
EXTENDS Naturals

CONSTANTS
  Callers,        \* coroutines that use the breaker
  Threshold,      \* CircuitBreakerConfig.failure_threshold
  Recovery,       \* CircuitBreakerConfig.recovery_timeout, in ticks
  MaxRetries,     \* RetryConfig.max_retries
  BaseDelay,      \* RetryConfig.base_delay, in ticks
  BackoffFactor,  \* RetryConfig.backoff_factor
  MaxDelay        \* RetryConfig.max_delay, in ticks

ASSUME BreakerAssumption ==
  /\ Threshold \in Nat \ {0} /\ Recovery \in Nat \ {0} /\ MaxRetries \in Nat
  /\ BaseDelay \in Nat /\ BackoffFactor \in Nat /\ MaxDelay \in Nat

VARIABLES
  state,      \* _state
  failures,   \* _failure_count; only compared with Threshold, so it stops there
  cooldown,   \* what is left until _open_until
  phase,      \* where each caller is
  attempt,    \* its attempt in async_retry
  delay,      \* what is left of its sleep
  before,     \* history: calls in flight that were admitted before the last trip
  rest,       \* history: what is left of the recovery time since the last trip
  heard       \* history: some call succeeded since the last trip

breaker == <<state, failures, cooldown>>
caller == <<phase, attempt, delay>>
trip == <<before, rest, heard>>
breakerVars == <<breaker, caller, trip>>

Calling == {c \in Callers : phase[c] = "calling"}

BreakerInit ==
  /\ state = "closed" /\ failures = 0 /\ cooldown = 0
  /\ phase = [c \in Callers |-> "idle"]
  /\ attempt = [c \in Callers |-> 0]
  /\ delay = [c \in Callers |-> 0]
  /\ before = {} /\ rest = 0 /\ heard = TRUE
-----------------------------------------------------------------------------
Goto(c, label) == phase' = [phase EXCEPT ![c] = label]

(* The caller has its result or its exception. *)
Return(c) == Goto(c, "idle") /\ attempt' = [attempt EXCEPT ![c] = 0] /\ UNCHANGED delay

(* async_retry begins with attempt 0. *)
Start(c) ==
  /\ phase[c] = "idle"
  /\ Goto(c, "due")
  /\ UNCHANGED <<breaker, attempt, delay, trip>>

(* Wrong variant: the trial goes out but the state stays open. *)
OnAdmissionForgotten == state

(* The recovery time is over: this call is the trial. *)
OnAdmission == IF state = "open" THEN "half_open" ELSE state

(* CircuitBreaker.call up to the await of the service. *)
Admit(c) ==
  /\ phase[c] = "due" /\ (state = "open" => cooldown = 0)
  /\ state' = OnAdmission
  /\ Goto(c, "calling")
  /\ UNCHANGED <<failures, cooldown, attempt, delay, trip>>

(* Wrong variant: an early call puts the recovery off. *)
CooldownPutOff == Recovery

CooldownAfterReject == cooldown

(* CircuitOpenError, which async_retry does not retry. *)
Reject(c) ==
  /\ phase[c] = "due" /\ state = "open" /\ cooldown > 0
  /\ cooldown' = CooldownAfterReject
  /\ Return(c)
  /\ UNCHANGED <<state, failures, trip>>

(* Wrong variant: leaving half-open keeps the failure count. *)
FailuresKept == IF state = "closed" THEN 0 ELSE failures

FailuresAfterSuccess == 0

(* _record_success: whatever the state was by now, the circuit is closed. *)
Succeed(c) ==
  /\ phase[c] = "calling"
  /\ state' = "closed" /\ failures' = FailuresAfterSuccess
  /\ before' = before \ {c} /\ heard' = TRUE
  /\ Return(c)
  /\ UNCHANGED <<cooldown, rest>>

Counted == IF failures < Threshold THEN failures + 1 ELSE Threshold

(* Wrong variant: a failed trial reopens the circuit without a new _open_until. *)
OpenForOnce == IF state = "half_open" THEN cooldown ELSE Recovery

OpenFor == Recovery

Trips == state = "half_open" \/ (state = "closed" /\ Counted >= Threshold)

(* _record_failure of caller c's call. *)
RecordFailure(c) ==
  /\ failures' = Counted
  /\ \/ /\ Trips
        /\ state' = "open" /\ cooldown' = OpenFor
        /\ before' = Calling \ {c} /\ rest' = Recovery /\ heard' = FALSE
     \/ /\ ~Trips
        /\ before' = before \ {c}
        /\ UNCHANGED <<state, cooldown, rest, heard>>

(* An exception outside cfg.retryable, or the last attempt: raised to the caller. *)
FailForGood(c) ==
  /\ phase[c] = "calling"
  /\ RecordFailure(c)
  /\ Return(c)

(* Wrong variant: the delay is not capped by max_delay. *)
DelaysUncapped(a) == 0..(BaseDelay * BackoffFactor ^ a)

(* random.uniform(0, min(base_delay * backoff_factor ** attempt, max_delay)) *)
Delays(a) == {d \in 0..MaxDelay : d <= BaseDelay * BackoffFactor ^ a}

(* A retryable failure with attempts left: sleep. *)
FailAndSleep(c) ==
  /\ phase[c] = "calling" /\ attempt[c] < MaxRetries
  /\ RecordFailure(c)
  /\ \E d \in Delays(attempt[c]) : delay' = [delay EXCEPT ![c] = d]
  /\ Goto(c, "sleeping")
  /\ UNCHANGED attempt

(* Wrong variant: every retry is the first. *)
NextAttemptStuck(c) == attempt[c]

NextAttempt(c) == attempt[c] + 1

Wake(c) ==
  /\ phase[c] = "sleeping" /\ delay[c] = 0
  /\ attempt' = [attempt EXCEPT ![c] = NextAttempt(c)]
  /\ Goto(c, "due")
  /\ UNCHANGED <<breaker, delay, trip>>

(* CancelledError is no Exception: neither outcome is recorded, nothing is retried. *)
Cancel(c) ==
  /\ phase[c] \in {"calling", "sleeping"}
  /\ Goto(c, "idle")
  /\ attempt' = [attempt EXCEPT ![c] = 0]
  /\ delay' = [delay EXCEPT ![c] = 0]
  /\ before' = before \ {c}
  /\ UNCHANGED <<breaker, rest, heard>>

Less(n) == IF n > 0 THEN n - 1 ELSE 0

(* One unit of the monotonic clock; a sleeper may wake late. *)
Elapse ==
  /\ cooldown > 0 \/ rest > 0 \/ \E c \in Callers : delay[c] > 0
  /\ cooldown' = Less(cooldown) /\ rest' = Less(rest)
  /\ delay' = [c \in Callers |-> Less(delay[c])]
  /\ UNCHANGED <<state, failures, phase, attempt, before, heard>>

-----------------------------------------------------------------------------
(* What the event loop runs on by itself, once the service has answered. *)
Proceed(c) ==
  \/ Admit(c) \/ Reject(c) \/ Wake(c)
  \/ Succeed(c) \/ FailForGood(c) \/ FailAndSleep(c)

BreakerNext ==
  \/ \E c \in Callers : Start(c) \/ Proceed(c) \/ Cancel(c)
  \/ Elapse

BreakerSpec == BreakerInit /\ [][BreakerNext]_breakerVars

(* Time passes, the event loop runs what is ready, and every service call ends with an
   answer or an error.  No caller has to start a call. *)
FairSpec == BreakerSpec /\ WF_breakerVars(Elapse) /\ \A c \in Callers : WF_breakerVars(Proceed(c))
-----------------------------------------------------------------------------
(* Breaker and callers keep their shapes; nobody sleeps longer than max_delay. *)
BreakerTypeOK ==
  /\ state \in {"closed", "open", "half_open"}
  /\ failures \in 0..Threshold /\ cooldown \in 0..Recovery
  /\ phase \in [Callers -> {"idle", "due", "calling", "sleeping"}]
  /\ attempt \in [Callers -> 0..MaxRetries]
  /\ delay \in [Callers -> 0..MaxDelay]
  /\ before \subseteq Calling /\ rest \in 0..Recovery /\ heard \in BOOLEAN
  /\ \A c \in Callers : phase[c] = "sleeping" => attempt[c] < MaxRetries

(* A closed circuit is never one failure past its threshold: failures counted while it
   was open or half-open, by calls that came back late, are forgotten when it closes
   (_record_success), or the next single failure would trip it. *)
ClosedBelowThreshold == state = "closed" => failures < Threshold

(* A failing service is left alone: after a trip no call reaches it until the recovery
   time is over or some call, late or trial, has succeeded (call, _record_failure). *)
ServiceRests ==
  [][\A c \in Callers : phase[c] # "calling" /\ phase'[c] = "calling" => rest = 0 \/ heard]_breakerVars

(* The circuit goes from open to closed, past half-open, only by the answer of a call
   that was in flight when it tripped (_record_success closes from any state). *)
OnlyLateAnswersCloseEarly ==
  [][state = "open" /\ state' = "closed" => \E c \in before : phase'[c] # "calling"]_breakerVars

(* However many calls are rejected or fail late, an open circuit gets to the end of its
   recovery time (call reads _open_until and never moves it). *)
CoolsDown == state = "open" ~> (state # "open" \/ cooldown = 0)

(* async_retry ends: with a result, the last exception, or CircuitOpenError. *)
EveryCallReturns == \A c \in Callers : phase[c] # "idle" ~> phase[c] = "idle"
=============================================================================
