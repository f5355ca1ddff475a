------------------------------ MODULE LLMService ------------------------------
(***************************************************************************)
(* LLMService.generate: a cache in front of a provider guarded by a        *)
(* circuit breaker around retries around a timeout (services/llm_service.py,*)
(* policies/retry.py).                                                     *)
(*                                                                         *)
(* A Call is a client that asks again and again.  A request builds an      *)
(* LLMService with a breaker of its own (dependencies.py, get_llm_service) *)
(* and makes one call after the other: a batch of alerts asks for one      *)
(* hypothesis each, a chat asks once.  Redis and the provider are external:*)
(* a lookup hits, misses or raises, an attempt answers, raises or hangs.   *)
(* Time is counted in ticks, and timers fire within the tick they are due. *)
(***************************************************************************)
EXTENDS Integers

CONSTANTS Call,
          Closed,        \* _opened_at is None
          MaxAttempts,   \* RETRY_MAX_ATTEMPTS
          Backoff,       \* RETRY_BACKOFF_SECONDS
          CallTimeout,   \* REQUEST_TIMEOUT_SECONDS
          Threshold,     \* CIRCUIT_BREAKER_FAILURE_THRESHOLD
          ResetTimeout   \* CIRCUIT_BREAKER_RESET_TIMEOUT

ASSUME LLMAssumption == /\ Closed \notin Nat
                        /\ MaxAttempts \in Nat \ {0}
                        /\ Backoff \in Nat \ {0}
                        /\ CallTimeout \in Nat \ {0}
                        /\ Threshold \in Nat \ {0}
                        /\ ResetTimeout \in Nat \ {0}

VARIABLES stage,     \* where each call is
          attempt,   \* RetryPolicy's attempt
          timer,     \* ticks until wait_for or sleep is over
          spent,     \* history: ticks since the breaker admitted the call, up to Budget + 1
          failures,  \* CircuitBreaker._failure_count of each client's request
          age,       \* ticks since _opened_at, up to ResetTimeout
          streak,    \* history: operations that failed in a row, in the whole process
          quiet      \* history: ticks since the last of them, up to ResetTimeout

breaker == <<failures, age>>
llmVars == <<stage, attempt, timer, spent, breaker, streak, quiet>>

Settled == {"idle", "done", "failed", "rejected"}
Timed == {"calling", "waiting"}

LLMInit == /\ stage = [c \in Call |-> "idle"]
           /\ attempt = [c \in Call |-> 0]
           /\ timer = [c \in Call |-> 0]
           /\ spent = [c \in Call |-> 0]
           /\ failures = [c \in Call |-> 0]
           /\ age = [c \in Call |-> Closed]
           /\ streak = 0
           /\ quiet = ResetTimeout
-----------------------------------------------------------------------------
MutIsOpen(c) == age[c] # Closed              \* mutant: a stamp never expires

IsOpen(c) == age[c] # Closed /\ age[c] < ResetTimeout

OnFailure(c) ==
  /\ failures' = [failures EXCEPT ![c] = @ + 1]
  /\ age' = [age EXCEPT ![c] = IF failures[c] + 1 >= Threshold THEN 0 ELSE @]

OnSuccess(c) == /\ failures' = [failures EXCEPT ![c] = 0]
                /\ age' = [age EXCEPT ![c] = Closed]
-----------------------------------------------------------------------------
\* The first call of a request, whose service is new, or a later one; the cache
\* is asked.
Start(c, first) ==
  /\ stage[c] \in Settled
  /\ stage' = [stage EXCEPT ![c] = "lookup"]
  /\ IF first
     THEN /\ failures' = [failures EXCEPT ![c] = 0]
          /\ age' = [age EXCEPT ![c] = Closed]
     ELSE UNCHANGED breaker
  /\ UNCHANGED <<attempt, timer, spent, streak, quiet>>

Hit(c) == /\ stage[c] = "lookup"
          /\ stage' = [stage EXCEPT ![c] = "done"]
          /\ UNCHANGED <<attempt, timer, spent, breaker, streak, quiet>>

\* No hit, or Redis raised, and the breaker is open.
Reject(c) == /\ stage[c] = "lookup"
             /\ IsOpen(c)
             /\ stage' = [stage EXCEPT ![c] = "rejected"]
             /\ UNCHANGED <<attempt, timer, spent, breaker, streak, quiet>>

\* No hit, and the breaker lets the call pass; a stamp that is old enough is
\* cleared together with the count.
Admit(c) ==
  /\ stage[c] = "lookup"
  /\ ~IsOpen(c)
  /\ stage' = [stage EXCEPT ![c] = "calling"]
  /\ attempt' = [attempt EXCEPT ![c] = 1]
  /\ timer' = [timer EXCEPT ![c] = CallTimeout]
  /\ failures' = [failures EXCEPT ![c] = IF age[c] = Closed THEN @ ELSE 0]
  /\ age' = [age EXCEPT ![c] = Closed]
  /\ UNCHANGED <<spent, streak, quiet>>

\* The provider answered, in time: the breaker closes, the answer goes to the cache.
Succeed(c) == /\ stage[c] = "calling"
              /\ stage' = [stage EXCEPT ![c] = "storing"]
              /\ spent' = [spent EXCEPT ![c] = 0]
              /\ OnSuccess(c)
              /\ streak' = 0
              /\ UNCHANGED <<attempt, timer, quiet>>

\* The attempt is over without an answer: the provider raised, at any time, or
\* wait_for did, when the timer ran out.
AttemptOver(c) == stage[c] = "calling"

RetryLater(c) == /\ AttemptOver(c)
                 /\ attempt[c] < MaxAttempts
                 /\ stage' = [stage EXCEPT ![c] = "waiting"]
                 /\ timer' = [timer EXCEPT ![c] = Backoff * attempt[c]]
                 /\ UNCHANGED <<attempt, spent, breaker, streak, quiet>>

GiveUp(c) == /\ AttemptOver(c)
             /\ attempt[c] >= MaxAttempts
             /\ stage' = [stage EXCEPT ![c] = "failed"]
             /\ spent' = [spent EXCEPT ![c] = 0]
             /\ OnFailure(c)
             /\ streak' = IF streak < Threshold THEN streak + 1 ELSE streak
             /\ quiet' = 0
             /\ UNCHANGED <<attempt, timer>>

MutRetry(c) == /\ stage[c] = "waiting"           \* mutant: the attempt is not counted
               /\ timer[c] = 0
               /\ stage' = [stage EXCEPT ![c] = "calling"]
               /\ timer' = [timer EXCEPT ![c] = CallTimeout]
               /\ UNCHANGED <<attempt, spent, breaker, streak, quiet>>

\* The sleep is over.  The breaker is not asked again.
Retry(c) == /\ stage[c] = "waiting"
            /\ timer[c] = 0
            /\ stage' = [stage EXCEPT ![c] = "calling"]
            /\ attempt' = [attempt EXCEPT ![c] = @ + 1]
            /\ timer' = [timer EXCEPT ![c] = CallTimeout]
            /\ UNCHANGED <<spent, breaker, streak, quiet>>

\* The cache write came back or raised, which is only logged.
Store(c) == /\ stage[c] = "storing"
            /\ stage' = [stage EXCEPT ![c] = "done"]
            /\ UNCHANGED <<attempt, timer, spent, breaker, streak, quiet>>

\* Longest a call may take once admitted: every attempt its timeout, and
\* Backoff * (1 + ... + (MaxAttempts - 1)) between them.
Budget == MaxAttempts * CallTimeout + Backoff * ((MaxAttempts * (MaxAttempts - 1)) \div 2)

UpTo(limit, n) == IF n < limit THEN n ELSE limit

MutDue(c) == stage[c] = "waiting" /\ timer[c] = 0    \* mutant: no timeout on the provider's call

\* Timers that have run out go first.
Due(c) == stage[c] \in Timed /\ timer[c] = 0

Tick == /\ \A c \in Call : ~Due(c)
        /\ timer' = [c \in Call |-> IF stage[c] \in Timed /\ timer[c] > 0 THEN timer[c] - 1 ELSE timer[c]]
        /\ spent' = [c \in Call |-> IF stage[c] \in Timed THEN UpTo(Budget + 1, spent[c] + 1) ELSE spent[c]]
        /\ age' = [c \in Call |-> IF age[c] = Closed THEN Closed
                                  ELSE UpTo(ResetTimeout, age[c] + 1)]
        /\ quiet' = UpTo(ResetTimeout, quiet + 1)
        /\ streak' = IF quiet' = ResetTimeout THEN 0 ELSE streak
        /\ UNCHANGED <<stage, attempt, failures>>

Step(c) == \/ Hit(c) \/ Reject(c) \/ Admit(c) \/ Succeed(c)
           \/ RetryLater(c) \/ GiveUp(c) \/ Retry(c) \/ Store(c)

LLMNext == \/ \E c \in Call : Step(c) \/ \E first \in BOOLEAN : Start(c, first)
           \/ Tick

LLMSpec == LLMInit /\ [][LLMNext]_llmVars

\* Time passes; a lookup, a cache write and a timer that is due are attended to.
\* The provider need not answer.
LLMFairSpec == /\ LLMSpec
               /\ WF_llmVars(Tick)
               /\ \A c \in Call : WF_llmVars((stage[c] \in {"lookup", "storing"} \/ Due(c)) /\ Step(c))
-----------------------------------------------------------------------------
LLMTypeOK == /\ stage \in [Call -> Settled \cup Timed \cup {"lookup", "storing"}]
             /\ attempt \in [Call -> 0..MaxAttempts]
             /\ timer \in [Call -> Nat]
             /\ spent \in [Call -> Nat]
             /\ failures \in [Call -> Nat]
             /\ age \in [Call -> 0..ResetTimeout \cup {Closed}]
             /\ streak \in 0..Threshold
             /\ quiet \in 0..ResetTimeout

\* The count and the stamp agree: a breaker is stamped exactly when its count has
\* reached the threshold.  (CircuitBreaker changes the two in three methods and
\* never tests one against the other.)
StampedAtThreshold == \A c \in Call : age[c] # Closed <=> failures[c] >= Threshold

\* "Opens after N failures ... stops hammering a dead dependency"
\* (docs/INTERVIEW_GUIDE.md:190,194): when the last Threshold operations all
\* failed, the last of them less than ResetTimeout ago, no call is let through.
\* False: the failures are spread over breakers that live as long as a request.
StopsHammering ==
  [][\A c \in Call : stage[c] = "lookup" /\ stage'[c] = "calling" => streak < Threshold]_llmVars

\* "resets after timeout": the breaker of a request never stays open for good,
\* however often the request asks again.
OpenEnds == \A c \in Call : IsOpen(c) ~> ~IsOpen(c)

\* Every call comes to an end although the provider may hang at each attempt,
\* and once the provider has answered it ends with the answer, whatever becomes
\* of the cache write.
CallEnds == \A c \in Call : /\ stage[c] = "lookup" ~> stage[c] \in Settled
                            /\ stage[c] = "storing" ~> stage[c] = "done"

\* What the three policies add up to: an admitted call ends within a timeout per
\* attempt and the sleeps between them, no matter when attempts fail.
WithinBudget == \A c \in Call : spent[c] <= Budget
=============================================================================
