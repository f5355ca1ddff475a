------------------------------ MODULE ChatProofs ------------------------------
(***************************************************************************)
(* Theorems about the answer to a chat request: LLMService, for any number *)
(* of clients and any settings of the retry policy, the timeout and the    *)
(* breaker, and Conversation, for any number of exchanges, sessions and    *)
(* replicas.                                                               *)
(***************************************************************************)
EXTENDS Conversation, LLMService, FiniteSetTheorems, WellFoundedInduction, TLAPS

(***************************************************************************)
(* LLMService.                                                             *)
(***************************************************************************)

\* A call that waits to try again has an attempt left.
AttemptLeft == \A c \in Call : stage[c] = "waiting" => attempt[c] < MaxAttempts

LLMIInv == /\ LLMTypeOK
           /\ AttemptLeft
           /\ StampedAtThreshold
-----------------------------------------------------------------------------
LEMMA InitLLMIInv == LLMInit => LLMIInv
<1> SUFFICES ASSUME LLMInit PROVE LLMIInv
  OBVIOUS
<1>1. LLMTypeOK
  BY LLMAssumption DEF LLMInit, LLMTypeOK, Settled
<1>2. StampedAtThreshold
  BY LLMAssumption DEF LLMInit, StampedAtThreshold
<1>4. AttemptLeft
  BY DEF LLMInit, AttemptLeft
<1> QED
  BY <1>1, <1>2, <1>4 DEF LLMIInv

\* A step that leaves the breakers alone preserves what the invariant says of them.
LEMMA BreakerUntouched ==
  ASSUME LLMIInv, LLMTypeOK', AttemptLeft', UNCHANGED breaker
  PROVE  LLMIInv'
BY DEF LLMIInv, breaker, StampedAtThreshold

\* One operation on the breaker of s, described by what it does to its count and
\* its stamp.
LEMMA BreakerStep ==
  ASSUME LLMIInv, NEW s \in Call, NEW n \in Nat, NEW stamp \in {0, Closed},
         failures' = [failures EXCEPT ![s] = n],
         age' = [age EXCEPT ![s] = stamp],
         stamp # Closed <=> n >= Threshold
  PROVE  /\ failures' \in [Call -> Nat]
         /\ age' \in [Call -> 0..ResetTimeout \cup {Closed}]
         /\ StampedAtThreshold'
<1>1. 0 \in 0..ResetTimeout
  BY LLMAssumption
<1>2. LLMTypeOK /\ StampedAtThreshold
  BY DEF LLMIInv
<1>3. /\ failures' \in [Call -> Nat]
      /\ age' \in [Call -> 0..ResetTimeout \cup {Closed}]
  BY <1>1, <1>2 DEF LLMTypeOK
<1>4. failures'[s] = n /\ age'[s] = stamp
  BY <1>2 DEF LLMTypeOK
<1>5. \A q \in Call \ {s} : failures'[q] = failures[q] /\ age'[q] = age[q]
  BY <1>2 DEF LLMTypeOK
<1> QED
  BY <1>2, <1>3, <1>4, <1>5 DEF StampedAtThreshold

LEMMA StartLLMIInv ==
  ASSUME LLMIInv, NEW c \in Call, NEW first \in BOOLEAN, Start(c, first)
  PROVE  LLMIInv'
<1>1. LLMTypeOK
  BY DEF LLMIInv
<1>2. /\ stage' = [stage EXCEPT ![c] = "lookup"]
      /\ UNCHANGED <<attempt, timer, spent, streak, quiet>>
  BY DEF Start
<1>3. stage' \in [Call -> Settled \cup Timed \cup {"lookup", "storing"}]
  BY <1>1, <1>2 DEF LLMTypeOK
<1>0. AttemptLeft'
  BY <1>1, <1>2 DEF LLMIInv, AttemptLeft, LLMTypeOK
<1>4. CASE first
  <2>1. /\ failures' = [failures EXCEPT ![c] = 0]
        /\ age' = [age EXCEPT ![c] = Closed]
    BY <1>4 DEF Start
  <2>2. 0 \in Nat /\ (Closed # Closed <=> 0 >= Threshold)
    BY LLMAssumption
  <2>3. /\ failures' \in [Call -> Nat]
        /\ age' \in [Call -> 0..ResetTimeout \cup {Closed}]
        /\ StampedAtThreshold'
    BY <2>1, <2>2, BreakerStep
  <2>4. LLMTypeOK'
    BY <1>1, <1>2, <1>3, <2>3 DEF LLMTypeOK
  <2> QED
    BY <1>0, <2>3, <2>4 DEF LLMIInv
<1>5. CASE ~first
  <2>1. UNCHANGED breaker
    BY <1>5 DEF Start
  <2>2. LLMTypeOK'
    BY <1>1, <1>2, <1>3, <2>1 DEF LLMTypeOK, breaker
  <2> QED
    BY <1>0, <2>1, <2>2, BreakerUntouched
<1> QED
  BY <1>4, <1>5

\* Steps of a call that do not touch the breaker.
LEMMA QuietStepLLMIInv ==
  ASSUME LLMIInv, NEW c \in Call, Hit(c) \/ Reject(c) \/ RetryLater(c) \/ Retry(c) \/ Store(c)
  PROVE  LLMIInv'
<1>1. LLMTypeOK /\ UNCHANGED <<spent, breaker, streak, quiet>>
  BY DEF LLMIInv, Hit, Reject, RetryLater, Retry, Store
<1>2. stage' \in [Call -> Settled \cup Timed \cup {"lookup", "storing"}]
  BY <1>1 DEF LLMTypeOK, Hit, Reject, RetryLater, Retry, Store, Settled, Timed
<1>3. attempt' \in [Call -> 0..MaxAttempts]
  <2>1. CASE Retry(c)
    <3>1. attempt[c] < MaxAttempts /\ attempt[c] \in 0..MaxAttempts
      BY <1>1, <2>1 DEF LLMIInv, AttemptLeft, Retry, LLMTypeOK
    <3>2. attempt[c] + 1 \in 0..MaxAttempts
      BY <3>1, LLMAssumption
    <3> QED
      BY <1>1, <2>1, <3>2 DEF Retry, LLMTypeOK
  <2>2. CASE ~Retry(c)
    BY <1>1, <2>2 DEF LLMTypeOK, Hit, Reject, RetryLater, Store
  <2> QED
    BY <2>1, <2>2
<1>4. timer' \in [Call -> Nat]
  BY <1>1, LLMAssumption DEF LLMTypeOK, Hit, Reject, RetryLater, Retry, Store
<1>5. LLMTypeOK'
  BY <1>1, <1>2, <1>3, <1>4 DEF LLMTypeOK, breaker
<1>6. AttemptLeft'
  BY <1>1 DEF LLMIInv, AttemptLeft, LLMTypeOK, Hit, Reject, RetryLater, Retry, Store
<1> QED
  BY <1>1, <1>5, <1>6, BreakerUntouched

\* Admitting a call clears stamp and count together.
LEMMA AdmitLLMIInv ==
  ASSUME LLMIInv, NEW c \in Call, Admit(c)
  PROVE  LLMIInv'
<1>1. LLMTypeOK
  BY DEF LLMIInv
<1>2. /\ ~IsOpen(c)
      /\ stage' = [stage EXCEPT ![c] = "calling"]
      /\ attempt' = [attempt EXCEPT ![c] = 1]
      /\ timer' = [timer EXCEPT ![c] = CallTimeout]
      /\ failures' = [failures EXCEPT ![c] = IF age[c] = Closed THEN @ ELSE 0]
      /\ age' = [age EXCEPT ![c] = Closed]
      /\ UNCHANGED <<spent, streak, quiet>>
  BY DEF Admit
<1> DEFINE n == IF age[c] = Closed THEN failures[c] ELSE 0
<1>3. n \in Nat /\ failures' = [failures EXCEPT ![c] = n] /\ (Closed # Closed <=> n >= Threshold)
  BY <1>1, <1>2, LLMAssumption DEF LLMIInv, LLMTypeOK, StampedAtThreshold
<1>4. /\ failures' \in [Call -> Nat]
      /\ age' \in [Call -> 0..ResetTimeout \cup {Closed}]
      /\ StampedAtThreshold'
  BY <1>1, <1>2, <1>3, BreakerStep
<1>5. LLMTypeOK' /\ AttemptLeft'
  <2>1. 1 \in 0..MaxAttempts /\ CallTimeout \in Nat
    BY LLMAssumption
  <2> QED
    BY <1>1, <1>2, <1>4, <2>1 DEF LLMIInv, LLMTypeOK, AttemptLeft, Timed
<1> QED
  BY <1>4, <1>5 DEF LLMIInv

LEMMA SucceedLLMIInv ==
  ASSUME LLMIInv, NEW c \in Call, Succeed(c)
  PROVE  LLMIInv'
<1>1. LLMTypeOK
  BY DEF LLMIInv
<1>2. /\ stage' = [stage EXCEPT ![c] = "storing"]
      /\ spent' = [spent EXCEPT ![c] = 0]
      /\ failures' = [failures EXCEPT ![c] = 0]
      /\ age' = [age EXCEPT ![c] = Closed]
      /\ streak' = 0
      /\ UNCHANGED <<attempt, timer, quiet>>
  BY DEF Succeed, OnSuccess
<1>3. 0 \in Nat /\ (Closed # Closed <=> 0 >= Threshold)
  BY LLMAssumption
<1>4. /\ failures' \in [Call -> Nat]
      /\ age' \in [Call -> 0..ResetTimeout \cup {Closed}]
      /\ StampedAtThreshold'
  BY <1>1, <1>2, <1>3, BreakerStep
<1>5. LLMTypeOK' /\ AttemptLeft'
  <2>1. 0 \in 0..Threshold
    BY LLMAssumption
  <2> QED
    BY <1>1, <1>2, <1>4, <2>1 DEF LLMIInv, LLMTypeOK, AttemptLeft
<1> QED
  BY <1>4, <1>5 DEF LLMIInv

\* A failed operation counts and, from the threshold on, stamps.
LEMMA GiveUpLLMIInv ==
  ASSUME LLMIInv, NEW c \in Call, GiveUp(c)
  PROVE  LLMIInv'
<1> DEFINE n == failures[c] + 1
<1>1. LLMTypeOK
  BY DEF LLMIInv
<1>2. /\ stage' = [stage EXCEPT ![c] = "failed"]
      /\ spent' = [spent EXCEPT ![c] = 0]
      /\ failures' = [failures EXCEPT ![c] = n]
      /\ age' = [age EXCEPT ![c] = IF n >= Threshold THEN 0 ELSE age[c]]
      /\ streak' = (IF streak < Threshold THEN streak + 1 ELSE streak)
      /\ quiet' = 0
      /\ UNCHANGED <<attempt, timer>>
  BY DEF GiveUp, OnFailure
<1> DEFINE stamp == IF n >= Threshold THEN 0 ELSE age[c]
<1>3. n \in Nat /\ stamp \in {0, Closed} /\ (stamp # Closed <=> n >= Threshold)
  BY <1>1, LLMAssumption DEF LLMIInv, LLMTypeOK, StampedAtThreshold
<1>4. /\ failures' \in [Call -> Nat]
      /\ age' \in [Call -> 0..ResetTimeout \cup {Closed}]
      /\ StampedAtThreshold'
  BY <1>1, <1>2, <1>3, BreakerStep
<1>5. LLMTypeOK' /\ AttemptLeft'
  <2>1. streak' \in 0..Threshold /\ quiet' \in 0..ResetTimeout
    BY <1>1, <1>2, LLMAssumption DEF LLMTypeOK
  <2>2. stage' \in [Call -> Settled \cup Timed \cup {"lookup", "storing"}]
    BY <1>1, <1>2 DEF LLMTypeOK, Settled
  <2> QED
    BY <1>1, <1>2, <1>4, <2>1, <2>2 DEF LLMIInv, LLMTypeOK, AttemptLeft
<1> QED
  BY <1>4, <1>5 DEF LLMIInv

\* Time opens and closes no breaker.
LEMMA TickLLMIInv ==
  ASSUME LLMIInv, Tick
  PROVE  LLMIInv'
<1>1. LLMTypeOK
  BY DEF LLMIInv
<1>2. /\ timer' = [c \in Call |-> IF stage[c] \in Timed /\ timer[c] > 0 THEN timer[c] - 1 ELSE timer[c]]
      /\ spent' = [c \in Call |-> IF stage[c] \in Timed THEN UpTo(Budget + 1, spent[c] + 1) ELSE spent[c]]
      /\ age' = [c \in Call |-> IF age[c] = Closed THEN Closed
                                ELSE UpTo(ResetTimeout, age[c] + 1)]
      /\ quiet' = UpTo(ResetTimeout, quiet + 1)
      /\ streak' = (IF quiet' = ResetTimeout THEN 0 ELSE streak)
      /\ UNCHANGED <<stage, attempt, failures>>
  BY DEF Tick
<1>3. timer' \in [Call -> Nat]
  BY <1>1, <1>2 DEF LLMTypeOK
<1>4. spent' \in [Call -> Nat]
  <2>1. Budget + 1 \in Nat
    <3>1. MaxAttempts * (MaxAttempts - 1) \in Nat
      BY LLMAssumption
    <3>2. (MaxAttempts * (MaxAttempts - 1)) \div 2 \in Nat
      BY <3>1
    <3>3. MaxAttempts * CallTimeout \in Nat
      BY LLMAssumption
    <3>4. Backoff * ((MaxAttempts * (MaxAttempts - 1)) \div 2) \in Nat
      BY <3>2, LLMAssumption
    <3> QED
      BY <3>3, <3>4 DEF Budget
  <2> HIDE DEF Budget
  <2> QED
    BY <1>1, <1>2, <2>1 DEF LLMTypeOK, UpTo
<1>5. age' \in [Call -> 0..ResetTimeout \cup {Closed}]
  BY <1>1, <1>2, LLMAssumption DEF LLMTypeOK, UpTo
<1>6. quiet' \in 0..ResetTimeout /\ streak' \in 0..Threshold
  BY <1>1, <1>2, LLMAssumption DEF LLMTypeOK, UpTo
<1>7. LLMTypeOK' /\ AttemptLeft'
  BY <1>1, <1>2, <1>3, <1>4, <1>5, <1>6 DEF LLMIInv, LLMTypeOK, AttemptLeft
<1>8. \A c \in Call : age'[c] # Closed <=> age[c] # Closed
  BY <1>1, <1>2, LLMAssumption DEF LLMTypeOK, UpTo
<1>9. StampedAtThreshold'
  BY <1>2, <1>8 DEF LLMIInv, StampedAtThreshold
<1> QED
  BY <1>7, <1>9 DEF LLMIInv
-----------------------------------------------------------------------------
LEMMA NextLLMIInv == LLMIInv /\ [LLMNext]_llmVars => LLMIInv'
<1> SUFFICES ASSUME LLMIInv, [LLMNext]_llmVars PROVE LLMIInv'
  OBVIOUS
<1>1. CASE UNCHANGED llmVars
  <2>1. UNCHANGED <<stage, attempt, timer, spent, breaker, streak, quiet>>
    BY <1>1 DEF llmVars
  <2>2. LLMTypeOK' /\ AttemptLeft'
    BY <2>1 DEF LLMIInv, LLMTypeOK, AttemptLeft, breaker
  <2> QED
    BY <2>1, <2>2, BreakerUntouched
<1>2. ASSUME NEW c \in Call, Step(c) PROVE LLMIInv'
  BY <1>2, QuietStepLLMIInv, AdmitLLMIInv, SucceedLLMIInv, GiveUpLLMIInv DEF Step
<1>3. ASSUME NEW c \in Call, NEW first \in BOOLEAN, Start(c, first) PROVE LLMIInv'
  BY <1>3, StartLLMIInv
<1>4. CASE Tick
  BY <1>4, TickLLMIInv
<1> QED
  BY <1>1, <1>2, <1>3, <1>4 DEF LLMNext

\* The invariant holds in every behaviour.
THEOREM AlwaysLLMIInv == LLMSpec => []LLMIInv
BY InitLLMIInv, NextLLMIInv, PTL DEF LLMSpec
-----------------------------------------------------------------------------
\* Every variable keeps its type (LLMService.generate and its policies).
THEOREM LLMTypeCorrect == LLMSpec => []LLMTypeOK
<1>1. LLMIInv => LLMTypeOK
  BY DEF LLMIInv
<1> QED
  BY <1>1, AlwaysLLMIInv, PTL

\* Count and stamp of every CircuitBreaker agree, which its three methods change and
\* none compares: a breaker whose count has reached the threshold is never without
\* the stamp that refuses calls.
THEOREM CountAndStampAgree == LLMSpec => []StampedAtThreshold
<1>1. LLMIInv => StampedAtThreshold
  BY DEF LLMIInv
<1> QED
  BY <1>1, AlwaysLLMIInv, PTL

-----------------------------------------------------------------------------
(* The time a call may take. *)

\* What a call may have spent when its attempt a is over.
Allowed(a) == a * CallTimeout + Backoff * ((a * (a - 1)) \div 2)

\* What it spent and what its timer still has to run stay within that.
Spending ==
  \A c \in Call :
     /\ stage[c] \notin Timed => spent[c] = 0
     /\ stage[c] \in Timed => attempt[c] >= 1
     /\ stage[c] = "calling" => spent[c] + timer[c] <= Allowed(attempt[c])
     /\ stage[c] = "waiting" => spent[c] + timer[c] <= Allowed(attempt[c]) + Backoff * attempt[c]

LEMMA Products ==
  ASSUME NEW x \in Nat, NEW y \in Nat, x <= y, NEW z \in Nat
  PROVE  x * z <= y * z /\ z * x <= z * y /\ x * z \in Nat /\ z * x \in Nat
<1>1. PICK n \in Nat : y = x + n
  <2>1. y - x \in Nat /\ y = x + (y - x)
    OBVIOUS
  <2> QED BY <2>1
<1>2. n * z \in Nat /\ x * z \in Nat
  OBVIOUS
<1>3. y * z = x * z + n * z
  BY <1>1
<1> QED BY <1>2, <1>3

LEMMA Sleeps == ASSUME NEW a \in Nat PROVE Backoff * a \in Nat
  BY Products, LLMAssumption

\* A further attempt is allowed its timeout and the sleep before it.
LEMMA AllowedGrows ==
  ASSUME NEW a \in Nat
  PROVE  /\ Allowed(a) \in Nat
         /\ Allowed(a + 1) = Allowed(a) + Backoff * a + CallTimeout
<1> DEFINE half == (a * (a - 1)) \div 2
<1>1. a * (a - 1) \in Nat
  <2>1. CASE a = 0
    BY <2>1
  <2>2. CASE a - 1 \in Nat
    BY <2>2
  <2> QED BY <2>1, <2>2
<1>2. half \in Nat
  BY <1>1
<1>3. ((a + 1) * ((a + 1) - 1)) \div 2 = half + a
  <2>1. (a + 1) * ((a + 1) - 1) = a * (a - 1) + 2 * a
    OBVIOUS
  <2> QED BY <1>1, <2>1
<1>4. (a + 1) * CallTimeout = a * CallTimeout + CallTimeout
  BY LLMAssumption
<1>5. Backoff * (half + a) = Backoff * half + Backoff * a
  BY <1>2, LLMAssumption
<1>6. a * CallTimeout \in Nat /\ Backoff * half \in Nat /\ Backoff * a \in Nat /\ CallTimeout \in Nat
  BY <1>2, Products, LLMAssumption
<1>7. Allowed(a) = a * CallTimeout + Backoff * half
  BY DEF Allowed
<1>8. Allowed(a + 1) = (a * CallTimeout + CallTimeout) + (Backoff * half + Backoff * a)
  BY <1>3, <1>4, <1>5 DEF Allowed
<1> QED BY <1>6, <1>7, <1>8

LEMMA AllowedIsMonotone ==
  ASSUME NEW a \in Nat \ {0}, NEW b \in Nat, a <= b
  PROVE  Allowed(a) <= Allowed(b)
<1>1. a - 1 \in Nat /\ b - 1 \in Nat /\ a - 1 <= b - 1 /\ a \in Nat
  OBVIOUS
<1>2. a * (a - 1) <= b * (b - 1) /\ a * (a - 1) \in Nat /\ b * (b - 1) \in Nat
  <2>1. a * (a - 1) <= b * (a - 1)
    BY <1>1, Products
  <2>2. b * (a - 1) <= b * (b - 1)
    BY <1>1, Products
  <2>3. a * (a - 1) \in Nat /\ b * (a - 1) \in Nat /\ b * (b - 1) \in Nat
    BY <1>1, Products
  <2> QED BY <2>1, <2>2, <2>3
<1> DEFINE p == (a * (a - 1)) \div 2
           q == (b * (b - 1)) \div 2
<1>3. p \in Nat /\ q \in Nat /\ p <= q
  BY <1>2
<1>4. Backoff * p <= Backoff * q /\ Backoff * p \in Nat /\ Backoff * q \in Nat
  <2> HIDE DEF p, q
  <2> QED BY <1>3, Products, LLMAssumption
<1>5. a * CallTimeout <= b * CallTimeout /\ a * CallTimeout \in Nat /\ b * CallTimeout \in Nat
  BY <1>1, Products, LLMAssumption
<1>6. Allowed(a) = a * CallTimeout + Backoff * p /\ Allowed(b) = b * CallTimeout + Backoff * q
  BY DEF Allowed
<1> QED BY <1>4, <1>5, <1>6

LEMMA SpendingHolds == LLMSpec => []Spending
<1>1. LLMInit => Spending
  BY DEF LLMInit, Spending, Timed
<1>2. ASSUME LLMIInv, Spending, [LLMNext]_llmVars PROVE Spending'
  <2>1. LLMTypeOK /\ CallTimeout \in Nat
    BY <1>2, LLMAssumption DEF LLMIInv
  <2>2. CASE UNCHANGED llmVars
    <3>1. stage' = stage /\ attempt' = attempt /\ timer' = timer /\ spent' = spent
      BY <2>2 DEF llmVars
    <3> QED BY <1>2, <3>1 DEF Spending
  <2>3. ASSUME NEW c \in Call, Step(c) \/ \E first \in BOOLEAN : Start(c, first) PROVE Spending'
    <3>1. CASE Admit(c)
      <4>1. Allowed(1) = CallTimeout
        <5>1. (1 * (1 - 1)) \div 2 = 0
          OBVIOUS
        <5> QED BY <2>1, <5>1, LLMAssumption DEF Allowed
      <4> QED BY <1>2, <2>1, <3>1, <4>1 DEF Admit, Spending, LLMTypeOK, Timed
    <3>2. CASE Succeed(c) \/ GiveUp(c)
      BY <1>2, <2>1, <3>2 DEF Succeed, GiveUp, Spending, LLMTypeOK, Timed
    <3>3. CASE RetryLater(c)
      <4>1. /\ timer'[c] = Backoff * attempt[c] /\ stage'[c] = "waiting" /\ stage[c] = "calling"
            /\ spent' = spent /\ attempt' = attempt
            /\ timer[c] \in Nat /\ spent[c] \in Nat /\ attempt[c] \in Nat
        BY <2>1, <3>3, LLMAssumption DEF RetryLater, AttemptOver, LLMTypeOK
      <4>2. \A x \in Call : x # c => stage'[x] = stage[x] /\ timer'[x] = timer[x]
        BY <2>1, <3>3 DEF RetryLater, LLMTypeOK
      <4>3. Allowed(attempt[c]) \in Nat /\ Backoff * attempt[c] \in Nat
        BY <4>1, AllowedGrows, Sleeps
      <4>4. spent[c] + timer[c] <= Allowed(attempt[c]) /\ attempt[c] >= 1
        BY <1>2, <4>1 DEF Spending, Timed
      <4>5. spent'[c] + timer'[c] <= Allowed(attempt[c]) + Backoff * attempt[c]
        BY <4>1, <4>3, <4>4
      <4> QED BY <1>2, <4>1, <4>2, <4>4, <4>5 DEF Spending, Timed
    <3>4. CASE Retry(c)
      <4>1. attempt[c] \in Nat
        BY <2>1, LLMAssumption DEF LLMTypeOK
      <4>2. Allowed(attempt[c] + 1) = Allowed(attempt[c]) + Backoff * attempt[c] + CallTimeout
        BY <4>1, AllowedGrows
      <4>3. timer'[c] = CallTimeout /\ spent'[c] = spent[c] /\ stage'[c] = "calling" /\ attempt'[c] = attempt[c] + 1
            /\ timer[c] = 0 /\ stage[c] = "waiting"
        BY <2>1, <3>4 DEF Retry, LLMTypeOK
      <4>4. \A x \in Call : x # c => /\ stage'[x] = stage[x] /\ timer'[x] = timer[x]
                                     /\ spent'[x] = spent[x] /\ attempt'[x] = attempt[x]
        BY <2>1, <3>4 DEF Retry, LLMTypeOK
      <4>5. spent[c] <= Allowed(attempt[c]) + Backoff * attempt[c] /\ attempt[c] >= 1 /\ spent[c] \in Nat
        BY <1>2, <2>1, <4>3 DEF Spending, LLMTypeOK, Timed
      <4>6. Allowed(attempt[c]) + Backoff * attempt[c] \in Nat
        <5>1. Allowed(attempt[c]) \in Nat /\ Backoff * attempt[c] \in Nat
          BY <4>1, AllowedGrows, Sleeps
        <5> HIDE DEF Allowed
        <5> QED BY <5>1
      <4>7. spent'[c] + timer'[c] <= Allowed(attempt'[c]) /\ attempt'[c] >= 1
        BY <2>1, <4>1, <4>2, <4>3, <4>5, <4>6
      <4> SUFFICES ASSUME NEW x \in Call
                   PROVE  /\ stage'[x] \notin Timed => spent'[x] = 0
                          /\ stage'[x] \in Timed => attempt'[x] >= 1
                          /\ stage'[x] = "calling" => spent'[x] + timer'[x] <= Allowed(attempt'[x])
                          /\ stage'[x] = "waiting" => spent'[x] + timer'[x] <= Allowed(attempt'[x]) + Backoff * attempt'[x]
        BY DEF Spending
      <4>8. CASE x = c
        BY <4>3, <4>7, <4>8 DEF Timed
      <4>9. CASE x # c
        BY <1>2, <4>4, <4>9 DEF Spending
      <4> QED BY <4>8, <4>9
    <3>5. CASE Hit(c) \/ Reject(c) \/ Store(c) \/ \E first \in BOOLEAN : Start(c, first)
      BY <1>2, <2>1, <3>5 DEF Hit, Reject, Store, Start, Spending, LLMTypeOK, Timed, Settled
    <3> QED BY <2>3, <3>1, <3>2, <3>3, <3>4, <3>5 DEF Step
  <2>4. CASE Tick
    <3> SUFFICES ASSUME NEW c \in Call
                 PROVE  /\ stage[c] \notin Timed => spent'[c] = 0
                        /\ stage[c] \in Timed => attempt[c] >= 1
                        /\ stage[c] = "calling" => spent'[c] + timer'[c] <= Allowed(attempt[c])
                        /\ stage[c] = "waiting" => spent'[c] + timer'[c] <= Allowed(attempt[c]) + Backoff * attempt[c]
      BY <2>4 DEF Tick, Spending
    <3>1. spent[c] \in Nat /\ timer[c] \in Nat
      BY <2>1 DEF LLMTypeOK
    <3>2. CASE stage[c] \in Timed
      <4>1. timer[c] > 0 /\ timer'[c] = timer[c] - 1 /\ spent'[c] = UpTo(Budget + 1, spent[c] + 1)
        BY <2>4, <3>1, <3>2 DEF Tick, Due
      <4>2. spent'[c] <= spent[c] + 1 /\ spent'[c] \in Nat
        <5>1. Budget \in Nat
          BY AllowedGrows, LLMAssumption DEF Budget, Allowed
        <5>2. UpTo(Budget + 1, spent[c] + 1) \in {spent[c] + 1, Budget + 1}
              /\ UpTo(Budget + 1, spent[c] + 1) <= spent[c] + 1
          BY <3>1, <5>1 DEF UpTo
        <5> QED BY <3>1, <4>1, <5>1, <5>2
      <4>3. attempt[c] \in Nat
        BY <2>1 DEF LLMTypeOK
      <4>4. Allowed(attempt[c]) \in Nat /\ Backoff * attempt[c] \in Nat
        BY <4>3, AllowedGrows, Sleeps
      <4>5. spent'[c] + timer'[c] <= spent[c] + timer[c]
        BY <3>1, <4>1, <4>2
      <4>6. \A limit \in Nat : spent[c] + timer[c] <= limit => spent'[c] + timer'[c] <= limit
        BY <3>1, <4>1, <4>2, <4>5
      <4>7. Allowed(attempt[c]) + Backoff * attempt[c] \in Nat
        BY <4>4
      <4>8. /\ attempt[c] >= 1
            /\ stage[c] = "calling" => spent[c] + timer[c] <= Allowed(attempt[c])
            /\ stage[c] = "waiting" => spent[c] + timer[c] <= Allowed(attempt[c]) + Backoff * attempt[c]
        BY <1>2, <3>2 DEF Spending
      <4> QED BY <3>2, <4>4, <4>6, <4>7, <4>8
    <3>3. CASE stage[c] \notin Timed
      BY <1>2, <2>4, <3>3 DEF Tick, Spending, Timed
    <3> QED BY <3>2, <3>3
  <2> QED BY <1>2, <2>2, <2>3, <2>4 DEF LLMNext
<1> QED BY <1>1, <1>2, AlwaysLLMIInv, PTL DEF LLMSpec

\* An admitted call of LLMService.generate ends within the time its policies add
\* up to, whatever they are set to and however its attempts fail.
THEOREM CallsStayWithinBudget == LLMSpec => []WithinBudget
<1>1. LLMIInv /\ Spending => WithinBudget
  <2> SUFFICES ASSUME LLMIInv, Spending, NEW c \in Call PROVE spent[c] <= Budget
    BY DEF WithinBudget
  <2>1. /\ attempt[c] \in 0..MaxAttempts /\ spent[c] \in Nat /\ timer[c] \in Nat
        /\ stage[c] = "waiting" => attempt[c] < MaxAttempts
    BY DEF LLMIInv, LLMTypeOK, AttemptLeft
  <2>2. Budget = Allowed(MaxAttempts) /\ Budget \in Nat
    BY AllowedGrows, LLMAssumption DEF Budget, Allowed
  <2>3. CASE stage[c] \notin Timed
    BY <2>2, <2>3 DEF Spending
  <2>4. CASE stage[c] = "calling"
    <3>1. attempt[c] \in Nat \ {0} /\ attempt[c] <= MaxAttempts
      BY <2>1, <2>4, LLMAssumption DEF Spending, Timed
    <3>2. Allowed(attempt[c]) <= Budget /\ Allowed(attempt[c]) \in Nat
      BY <2>2, <3>1, AllowedIsMonotone, AllowedGrows, LLMAssumption
    <3> QED BY <2>1, <2>2, <2>4, <3>2 DEF Spending
  <2>5. CASE stage[c] = "waiting"
    <3>1. attempt[c] \in Nat \ {0} /\ attempt[c] + 1 \in Nat \ {0} /\ attempt[c] + 1 <= MaxAttempts
      BY <2>1, <2>5, LLMAssumption DEF Spending, Timed
    <3>2. Allowed(attempt[c] + 1) <= Budget
      BY <2>2, <3>1, AllowedIsMonotone, LLMAssumption
    <3>3. /\ Allowed(attempt[c] + 1) = Allowed(attempt[c]) + Backoff * attempt[c] + CallTimeout
          /\ Allowed(attempt[c]) + Backoff * attempt[c] \in Nat /\ CallTimeout \in Nat
      <4>1. /\ Allowed(attempt[c]) \in Nat /\ Backoff * attempt[c] \in Nat /\ CallTimeout \in Nat
            /\ Allowed(attempt[c] + 1) = Allowed(attempt[c]) + Backoff * attempt[c] + CallTimeout
        BY <3>1, AllowedGrows, Sleeps, LLMAssumption
      <4> QED BY <4>1
    <3>4. spent[c] + timer[c] <= Allowed(attempt[c]) + Backoff * attempt[c]
      BY <2>5 DEF Spending
    <3> DEFINE most == Allowed(attempt[c]) + Backoff * attempt[c]
    <3>5. most + CallTimeout <= Budget /\ most \in Nat /\ CallTimeout \in Nat /\ spent[c] + timer[c] <= most
      BY <3>2, <3>3, <3>4
    <3> HIDE DEF most
    <3> QED BY <2>1, <2>2, <3>5
  <2> QED BY <2>3, <2>4, <2>5 DEF Timed
<1> QED BY <1>1, AlwaysLLMIInv, SpendingHolds, PTL
-----------------------------------------------------------------------------
(***************************************************************************)
(* Conversation.                                                           *)
(***************************************************************************)

(* The inductive invariant. *)

\* Types of all the properties speak of; what a prompt holds is not among it.
LogTypes ==
  /\ backend \in {"memory", "postgres"}
  /\ home \in [Exchange -> Replica]
  /\ session \in [Exchange -> Session]
  /\ remembers \subseteq Exchange
  /\ pc \in [Exchange -> Ended \cup {"idle", "retrieve", "generate", "look", "send", "commit"}]
  /\ role \in [Exchange -> Role]
  /\ unknown \subseteq Exchange
  /\ log \in [Place -> [Session -> Seq(Message)]]
  /\ met \in [Exchange -> SUBSET Exchange]

\* In memory nothing is ever on its way to be stored, nor is what nobody wants
\* remembered.
StoresLate == \A e \in Exchange : Saving(e) => e \in remembers /\ ~InMemory

\* Which of its messages an exchange has in the history, by where it is.
Neither(e) == ~Has(e, "user") /\ ~Has(e, "assistant")
OnlyQuestion(e) == Has(e, "user") /\ ~Has(e, "assistant")
Both(e) == Has(e, "user") /\ Has(e, "assistant")

Stage(e) ==
  /\ pc[e] \in {"idle", "retrieve", "generate"} => role[e] = "user" /\ Neither(e)
  /\ pc[e] \in {"look", "send"} => IF role[e] = "user" THEN Neither(e) ELSE OnlyQuestion(e)
  /\ pc[e] = "commit" => IF role[e] = "user" THEN OnlyQuestion(e) ELSE Both(e)
  /\ pc[e] = "done" => IF e \in remembers \ forgotten THEN Both(e) ELSE Neither(e)
  /\ pc[e] = "failed" => Neither(e) \/ (~InMemory /\ Has(e, "user"))
  /\ e \in forgotten => pc[e] = "done"

Stages == \A e \in Exchange : Stage(e)

\* Exchanges that are being saved at one time have met.
HaveMet == \A e, f \in Exchange : e # f /\ Saving(e) /\ Saving(f) => f \in met[e]

\* What follows the question of an exchange that is being saved is its answer
\* or comes from one it has met.
Follows(e) ==
  \A i, k \in DOMAIN LogOf(e) : i < k /\ LogOf(e)[i] = <<e, "user">> =>
     LogOf(e)[k] = <<e, "assistant">> \/ LogOf(e)[k][1] \in met[e]

Following == \A e \in Exchange : Saving(e) => Follows(e)

ChatIInv == /\ LogTypes /\ StoresLate /\ Stages /\ HaveMet
            /\ Following /\ PairsTogether /\ ClashNeedsCrossing
-----------------------------------------------------------------------------
\* The property of the runs, for one exchange.
Paired(e) ==
  \A i, j \in DOMAIN LogOf(e) :
     LogOf(e)[i] = <<e, "user">> /\ LogOf(e)[j] = <<e, "assistant">> =>
        i < j /\ \A k \in i + 1..j - 1 : LogOf(e)[k][1] \in met[e]

LEMMA AllPaired == PairsTogether <=> \A e \in Exchange : Paired(e)
BY DEF PairsTogether, Paired
-----------------------------------------------------------------------------
(* Sequences of messages. *)

LEMMA Joined ==
  ASSUME NEW M, NEW q \in Seq(M), NEW ms \in Seq(M)
  PROVE  /\ q \o ms \in Seq(M)
         /\ Len(q \o ms) = Len(q) + Len(ms)
         /\ DOMAIN (q \o ms) = 1..Len(q) + Len(ms)
         /\ \A i \in DOMAIN q : i \in DOMAIN (q \o ms) /\ (q \o ms)[i] = q[i]
         /\ \A i \in DOMAIN (q \o ms) : i \notin DOMAIN q =>
               i > Len(q) /\ i - Len(q) \in DOMAIN ms /\ (q \o ms)[i] = ms[i - Len(q)]
OBVIOUS

LEMMA Removed ==
  ASSUME NEW M, NEW q \in Seq(M), NEW n \in DOMAIN q
  PROVE  /\ RemoveAt(q, n) \in Seq(M)
         /\ DOMAIN RemoveAt(q, n) = 1..Len(q) - 1
         /\ \A i \in 1..Len(q) - 1 : RemoveAt(q, n)[i] = IF i < n THEN q[i] ELSE q[i + 1]
<1>1. n \in 1..Len(q) /\ Len(q) \in Nat
  OBVIOUS
<1> DEFINE a == SubSeq(q, 1, n - 1)
           b == SubSeq(q, n + 1, Len(q))
<1>2. /\ a \in Seq(M) /\ Len(a) = n - 1
      /\ \A i \in 1..n - 1 : a[i] = q[i]
  BY <1>1
<1>3. /\ b \in Seq(M) /\ Len(b) = Len(q) - n
      /\ \A i \in 1..Len(q) - n : b[i] = q[n + i]
  BY <1>1
<1>4. RemoveAt(q, n) = a \o b
  BY DEF RemoveAt
<1> HIDE DEF a, b
<1>5. a \o b \in Seq(M) /\ Len(a \o b) = Len(q) - 1 /\ DOMAIN (a \o b) = 1..Len(q) - 1
  BY <1>1, <1>2, <1>3
<1>6. \A i \in 1..Len(q) - 1 : (a \o b)[i] = IF i < n THEN q[i] ELSE q[i + 1]
  <2> SUFFICES ASSUME NEW i \in 1..Len(q) - 1
               PROVE  (a \o b)[i] = IF i < n THEN q[i] ELSE q[i + 1]
    OBVIOUS
  <2>1. CASE i < n
    <3>1. i \in 1..Len(a) /\ (a \o b)[i] = a[i]
      BY <1>1, <1>2, <1>3, <2>1
    <3> QED
      BY <1>1, <1>2, <2>1, <3>1
  <2>2. CASE ~(i < n)
    <3>1. (a \o b)[i] = b[i - Len(a)]
      <4>1. DOMAIN a = 1..n - 1 /\ i \notin DOMAIN a /\ i \in DOMAIN (a \o b)
        BY <1>1, <1>2, <1>5, <2>2
      <4>2. \A j \in DOMAIN (a \o b) : j \notin DOMAIN a => (a \o b)[j] = b[j - Len(a)]
        BY <1>2, <1>3, Joined
      <4> QED
        BY <4>1, <4>2
    <3>2. i - Len(a) \in 1..Len(q) - n /\ n + (i - Len(a)) = i + 1
      BY <1>1, <1>2, <2>2
    <3> QED
      BY <1>3, <2>2, <3>1, <3>2
  <2> QED
    BY <2>1, <2>2
<1> QED
  BY <1>4, <1>5, <1>6
-----------------------------------------------------------------------------
(* What the steps do to the history of a session. *)

LEMMA PlaceOf ==
  ASSUME LogTypes, NEW e \in Exchange
  PROVE  At(e) \in Place /\ session[e] \in Session /\ LogOf(e) \in Seq(Message)
BY DEF LogTypes, At, Place, LogOf

LEMMA Fixed ==
  ASSUME UNCHANGED given
  PROVE  /\ UNCHANGED <<backend, home, session, remembers>>
         /\ InMemory' = InMemory
         /\ \A e \in Exchange : At(e)' = At(e)
BY DEF given, InMemory, At

LEMMA LogStays ==
  ASSUME UNCHANGED <<given, log>>
  PROVE  \A e \in Exchange : /\ LogOf(e)' = LogOf(e)
                             /\ Has(e, "user")' <=> Has(e, "user")
                             /\ Has(e, "assistant")' <=> Has(e, "assistant")
BY Fixed DEF LogOf, Has

LEMMA LogGrows ==
  ASSUME LogTypes, UNCHANGED given, NEW f \in Exchange, NEW ms \in Seq(Message), Stored(f, ms)
  PROVE  /\ log' \in [Place -> [Session -> Seq(Message)]]
         /\ \A e \in Exchange : LogOf(e)' = IF At(e) = At(f) /\ session[e] = session[f]
                                            THEN LogOf(e) \o ms ELSE LogOf(e)
<1>1. /\ At(f) \in Place /\ session[f] \in Session /\ LogOf(f) \in Seq(Message)
      /\ LogOf(f) = log[At(f)][session[f]]
  BY PlaceOf DEF LogOf
<1>2. log' = [log EXCEPT ![At(f)][session[f]] = LogOf(f) \o ms]
  BY <1>1 DEF Stored
<1>3. LogOf(f) \o ms \in Seq(Message)
  BY <1>1
<1>4. log' \in [Place -> [Session -> Seq(Message)]]
  BY <1>1, <1>2, <1>3 DEF LogTypes
<1>5. ASSUME NEW e \in Exchange
      PROVE  LogOf(e)' = IF At(e) = At(f) /\ session[e] = session[f]
                         THEN LogOf(e) \o ms ELSE LogOf(e)
  <2>1. At(e) \in Place /\ session[e] \in Session /\ LogOf(e)' = log'[At(e)][session[e]]
    BY Fixed, PlaceOf DEF LogOf
  <2>2. CASE At(e) = At(f) /\ session[e] = session[f]
    BY <1>1, <1>2, <2>1, <2>2 DEF LogTypes, LogOf
  <2>3. CASE ~(At(e) = At(f) /\ session[e] = session[f])
    BY <1>1, <1>2, <2>1, <2>3 DEF LogTypes, LogOf
  <2> QED
    BY <2>2, <2>3
<1> QED
  BY <1>4, <1>5

\* Messages of its own are all an exchange adds.
LEMMA OthersMessages ==
  ASSUME LogTypes, UNCHANGED given, NEW f \in Exchange, NEW ms \in Seq(Message), Stored(f, ms),
         \A i \in DOMAIN ms : ms[i][1] = f,
         NEW e \in Exchange, e # f
  PROVE  /\ Has(e, "user")' <=> Has(e, "user")
         /\ Has(e, "assistant")' <=> Has(e, "assistant")
<1>1. LogOf(e) \in Seq(Message)
  BY PlaceOf
<1>2. \A r : <<e, r>>[1] = e
  OBVIOUS
<1>3. CASE LogOf(e)' = LogOf(e)
  BY <1>3 DEF Has
<1>4. CASE LogOf(e)' = LogOf(e) \o ms
  <2>1. ASSUME NEW r
        PROVE  (\E i \in DOMAIN (LogOf(e) \o ms) : (LogOf(e) \o ms)[i] = <<e, r>>)
                  <=> (\E i \in DOMAIN LogOf(e) : LogOf(e)[i] = <<e, r>>)
    <3> DEFINE q == LogOf(e)
               t == q \o ms
    <3>1. /\ \A i \in DOMAIN q : i \in DOMAIN t /\ t[i] = q[i]
          /\ \A i \in DOMAIN t : i \notin DOMAIN q => t[i][1] = f
      BY <1>1, Joined
    <3> HIDE DEF q, t
    <3>2. \A i \in DOMAIN t : t[i] = <<e, r>> => i \in DOMAIN q
      BY <1>2, <3>1
    <3>3. (\E i \in DOMAIN t : t[i] = <<e, r>>) <=> (\E i \in DOMAIN q : q[i] = <<e, r>>)
      BY <3>1, <3>2
    <3> QED
      BY <3>3 DEF q, t
  <2> QED
    BY <1>4, <2>1 DEF Has
<1> QED
  BY <1>3, <1>4, LogGrows

LEMMA StageStays ==
  ASSUME NEW e \in Exchange, Stage(e), UNCHANGED given,
         pc'[e] = pc[e], role'[e] = role[e], e \in forgotten' <=> e \in forgotten,
         Has(e, "user")' <=> Has(e, "user"),
         Has(e, "assistant")' <=> Has(e, "assistant")
  PROVE  Stage(e)'
BY Fixed DEF Stage, Neither, OnlyQuestion, Both
-----------------------------------------------------------------------------
(* Steps that store nothing. *)

\* One exchange moves on, and is not saving unless it was.
LEMMA MoveInv ==
  ASSUME ChatIInv, NEW e \in Exchange, LogTypes', UNCHANGED <<given, log, met, forgotten>>,
         \A f \in Exchange \ {e} : pc'[f] = pc[f] /\ role'[f] = role[f],
         Saving(e)' => Saving(e), Stage(e)',
         rows' = rows \/ (rows' = rows \cup {session[e]} /\ pc[e] = "commit"),
         \A f \in Exchange \ {e} : f \in unknown' <=> f \in unknown,
         pc'[e] = "send" /\ e \in unknown' => session[e] \notin rows'
  PROVE  ChatIInv'
<1>1. /\ \A f \in Exchange : /\ LogOf(f)' = LogOf(f)
                             /\ Has(f, "user")' <=> Has(f, "user")
                             /\ Has(f, "assistant")' <=> Has(f, "assistant")
      /\ UNCHANGED <<session, remembers>> /\ InMemory' = InMemory
  BY LogStays, Fixed
<1>2. \A f \in Exchange : Saving(f)' => Saving(f)
  BY DEF Saving
<1>3. StoresLate'
  BY <1>1, <1>2 DEF ChatIInv, StoresLate
<1>4. Stages'
  BY <1>1, StageStays DEF ChatIInv, Stages
<1>5. HaveMet'
  BY <1>2 DEF ChatIInv, HaveMet
<1>6. Following'
  BY <1>1, <1>2 DEF ChatIInv, Following, Follows
<1>7. PairsTogether'
  BY <1>1 DEF ChatIInv, PairsTogether
<1>8. ClashNeedsCrossing'
  <2>1. ASSUME NEW f \in unknown', f \in Exchange, pc'[f] = "send", session[f] \in rows'
        PROVE  \E g \in met[f] : session[g] = session[f]
    <3>1. f # e /\ f \in unknown /\ pc[f] = "send"
      BY <2>1
    <3>2. CASE session[f] \in rows
      BY <3>1, <3>2 DEF ChatIInv, ClashNeedsCrossing
    <3>3. CASE session[f] \notin rows
      <4>1. session[f] = session[e] /\ Saving(e) /\ Saving(f)
        BY <2>1, <3>1, <3>3 DEF Saving
      <4>2. e \in met[f]
        BY <2>1, <3>1, <4>1 DEF ChatIInv, HaveMet
      <4> QED
        BY <4>1, <4>2
    <3> QED
      BY <3>2, <3>3
  <2>2. unknown' \subseteq Exchange
    BY DEF LogTypes
  <2> QED
    BY <1>1, <2>1, <2>2 DEF ClashNeedsCrossing
<1> QED
  BY <1>3, <1>4, <1>5, <1>6, <1>7, <1>8 DEF ChatIInv

LEMMA Kept ==
  ASSUME LogTypes, NEW e \in Exchange, UNCHANGED <<given, log, met, forgotten>>
  PROVE  /\ Neither(e)' <=> Neither(e)
         /\ OnlyQuestion(e)' <=> OnlyQuestion(e)
         /\ Both(e)' <=> Both(e)
         /\ Has(e, "user")' <=> Has(e, "user")
         /\ UNCHANGED <<remembers, session>> /\ InMemory' = InMemory
<1>1. /\ Has(e, "user")' <=> Has(e, "user")
      /\ Has(e, "assistant")' <=> Has(e, "assistant")
  BY LogStays
<1> QED
  BY <1>1, Fixed DEF Neither, OnlyQuestion, Both

LEMMA RefuseInv == ASSUME ChatIInv, NEW e \in Exchange, Refuse(e) PROVE ChatIInv'
<1>1. LogTypes' /\ pc'[e] = "failed" /\ pc[e] = "idle"
  BY DEF ChatIInv, LogTypes, Refuse, GoTo, Ended, given, history
<1>2. Stage(e)'
  BY <1>1, Kept DEF ChatIInv, Stages, Stage, Refuse, history
<1> QED
  BY <1>1, <1>2, MoveInv DEF ChatIInv, LogTypes, Refuse, GoTo, Saving, history

LEMMA ReadHistoryInv == ASSUME ChatIInv, NEW e \in Exchange, ReadHistory(e) PROVE ChatIInv'
<1>1. LogTypes' /\ pc'[e] = "retrieve" /\ pc[e] = "idle"
  BY DEF ChatIInv, LogTypes, ReadHistory, GoTo, given, history
<1>2. Stage(e)'
  BY <1>1, Kept DEF ChatIInv, Stages, Stage, ReadHistory, history
<1> QED
  BY <1>1, <1>2, MoveInv DEF ChatIInv, LogTypes, ReadHistory, GoTo, Saving, history

LEMMA RetrieveInv == ASSUME ChatIInv, NEW e \in Exchange, Retrieve(e) PROVE ChatIInv'
<1>1. LogTypes' /\ pc'[e] = "generate" /\ pc[e] = "retrieve"
  BY DEF ChatIInv, LogTypes, Retrieve, GoTo, given, history
<1>2. Stage(e)'
  BY <1>1, Kept DEF ChatIInv, Stages, Stage, Retrieve, history
<1> QED
  BY <1>1, <1>2, MoveInv DEF ChatIInv, LogTypes, Retrieve, GoTo, Saving, history

LEMMA AnswerUnsavedInv == ASSUME ChatIInv, NEW e \in Exchange, AnswerUnsaved(e) PROVE ChatIInv'
<1>1. LogTypes' /\ pc'[e] = "done" /\ pc[e] = "generate" /\ e \notin remembers
  BY DEF ChatIInv, LogTypes, AnswerUnsaved, GoTo, Ended, given, history
<1>2. Stage(e)'
  BY <1>1, Kept DEF ChatIInv, Stages, Stage, AnswerUnsaved, history
<1> QED
  BY <1>1, <1>2, MoveInv DEF ChatIInv, LogTypes, AnswerUnsaved, GoTo, Saving, history

LEMMA LookInv == ASSUME ChatIInv, NEW e \in Exchange, Look(e) PROVE ChatIInv'
<1>1. /\ LogTypes' /\ pc'[e] = "send" /\ pc[e] = "look" /\ role' = role
      /\ e \in unknown' => session[e] \notin rows'
  BY DEF ChatIInv, LogTypes, Look, GoTo, given, history
<1>2. Stage(e)'
  BY <1>1, Kept DEF ChatIInv, Stages, Stage, Look, history
<1> QED
  BY <1>1, <1>2, MoveInv DEF ChatIInv, LogTypes, Look, GoTo, Saving, history

LEMMA CommitInv == ASSUME ChatIInv, NEW e \in Exchange, Commit(e) PROVE ChatIInv'
<1>1. /\ LogTypes' /\ pc[e] = "commit" /\ role'[e] = "assistant"
      /\ pc'[e] = IF role[e] = "user" THEN "look" ELSE "done"
  BY DEF ChatIInv, LogTypes, Commit, GoTo, Ended, Role, given, history
<1>2. e \in remembers
  BY <1>1 DEF ChatIInv, StoresLate, Saving
<1>3. Stage(e)'
  BY <1>1, <1>2, Kept DEF ChatIInv, Stages, Stage, Commit, history
<1>4. Saving(e) /\ pc'[e] # "send"
  BY <1>1 DEF Saving
<1> QED
  BY <1>1, <1>3, <1>4, MoveInv DEF ChatIInv, LogTypes, Commit, GoTo, history

\* The call of the store raised, or the exchange broke off with nothing to roll
\* back.
LEMMA BreakInv ==
  ASSUME ChatIInv, NEW e \in Exchange, InFlight(e), pc' = [pc EXCEPT ![e] = "failed"],
         UNCHANGED <<given, role, unknown, log, history>>,
         rows' = rows \/ (rows' = rows \cup {session[e]} /\ pc[e] = "commit")
  PROVE  ChatIInv'
<1>1. LogTypes' /\ pc'[e] = "failed" /\ pc[e] \in {"retrieve", "generate", "look", "send", "commit"}
  BY DEF ChatIInv, LogTypes, InFlight, Ended, given, history
<1>2. Saving(e) => ~InMemory
  BY DEF ChatIInv, StoresLate
<1>3. Stage(e)'
  <2>1. Neither(e) \/ (~InMemory /\ Has(e, "user"))
    BY <1>1, <1>2 DEF ChatIInv, Stages, Stage, Saving, OnlyQuestion, Both
  <2>2. e \notin forgotten
    BY <1>1 DEF ChatIInv, Stages, Stage
  <2> QED
    BY <1>1, <2>1, <2>2, Kept DEF ChatIInv, Stage, history
<1> QED
  BY <1>1, <1>3, MoveInv DEF ChatIInv, LogTypes, Saving, history
-----------------------------------------------------------------------------
(* Steps that store, or are about to. *)

LEMMA AnswerInv == ASSUME ChatIInv, NEW e \in Exchange, Answer(e) PROVE ChatIInv'
<1> DEFINE others == {f \in Exchange : Saving(f)}
<1>1. /\ pc[e] = "generate" /\ pc'[e] = "look" /\ \A f \in Exchange \ {e} : pc'[f] = pc[f]
      /\ e \in remembers /\ ~InMemory
      /\ UNCHANGED <<given, log, role, unknown, rows, forgotten>>
  BY DEF ChatIInv, LogTypes, Answer, GoTo
<1>2. met' = [f \in Exchange |-> CASE f = e -> others
                                   [] f \in others -> met[f] \cup {e}
                                   [] OTHER -> met[f]]
  BY DEF Answer
<1>3. e \notin others
  BY <1>1 DEF Saving
<1>4. /\ met'[e] = others
      /\ \A f \in others : met'[f] = met[f] \cup {e}
      /\ \A f \in Exchange : f # e /\ f \notin others => met'[f] = met[f]
  BY <1>2, <1>3
<1>5. \A f \in Exchange : f # e => met[f] \subseteq met'[f]
  BY <1>4
<1> HIDE DEF others
<1>6. met' \in [Exchange -> SUBSET Exchange]
  <2>1. others \subseteq Exchange /\ \A f \in Exchange : met[f] \subseteq Exchange
    BY DEF ChatIInv, LogTypes, others
  <2>2. ASSUME NEW f \in Exchange PROVE met'[f] \in SUBSET Exchange
    <3>1. met'[f] = others \/ met'[f] = met[f] \cup {e} \/ met'[f] = met[f]
      BY <1>4
    <3> QED
      BY <2>1, <3>1
  <2> QED
    BY <1>2, <2>2
<1>7. LogTypes'
  BY <1>1, <1>6 DEF ChatIInv, LogTypes, Answer, GoTo, given
<1>8. /\ \A f \in Exchange : /\ LogOf(f)' = LogOf(f)
                             /\ Has(f, "user")' <=> Has(f, "user")
                             /\ Has(f, "assistant")' <=> Has(f, "assistant")
      /\ UNCHANGED <<session, remembers>> /\ InMemory' = InMemory
  BY <1>1, LogStays, Fixed
<1>9. \A f \in Exchange : f # e => (Saving(f)' <=> Saving(f))
  BY <1>1 DEF Saving
<1>10. StoresLate'
  BY <1>1, <1>8, <1>9 DEF ChatIInv, StoresLate
<1>11. Stage(e) /\ role[e] = "user" /\ ~Has(e, "user") /\ ~Has(e, "assistant")
  BY <1>1 DEF ChatIInv, Stages, Stage, Neither
<1>12. Stages'
  <2>1. Stage(e)'
    BY <1>1, <1>8, <1>11 DEF Stage, Neither, OnlyQuestion, Both
  <2>2. ASSUME NEW f \in Exchange, f # e PROVE Stage(f)'
    BY <1>1, <1>8, <2>2, StageStays DEF ChatIInv, Stages
  <2> QED
    BY <2>1, <2>2 DEF Stages
<1>13. HaveMet'
  <2>1. ASSUME NEW f \in Exchange, NEW g \in Exchange, f # g, Saving(f)', Saving(g)'
        PROVE  g \in met'[f]
    <3>1. CASE f = e
      BY <1>4, <1>9, <2>1, <3>1 DEF others
    <3>2. CASE g = e
      BY <1>4, <1>9, <2>1, <3>2 DEF others
    <3>3. CASE f # e /\ g # e
      BY <1>5, <1>9, <2>1, <3>3 DEF ChatIInv, HaveMet
    <3> QED
      BY <3>1, <3>2, <3>3
  <2> QED
    BY <2>1 DEF HaveMet
<1>14. Following'
  <2>1. Follows(e)'
    BY <1>8, <1>11 DEF Follows, Has
  <2>2. ASSUME NEW f \in Exchange, f # e, Saving(f)' PROVE Follows(f)'
    BY <1>5, <1>8, <1>9, <2>2 DEF ChatIInv, Following, Follows
  <2> QED
    BY <2>1, <2>2 DEF Following
<1>15. PairsTogether'
  <2>1. Paired(e)'
    BY <1>8, <1>11 DEF Paired, Has
  <2>2. ASSUME NEW f \in Exchange, f # e PROVE Paired(f)'
    <3>1. Paired(f)
      BY AllPaired DEF ChatIInv
    <3> QED
      BY <1>5, <1>8, <2>2, <3>1 DEF Paired
  <2>3. \A f \in Exchange : Paired(f)'
    BY <2>1, <2>2
  <2> QED
    BY <2>3 DEF PairsTogether, Paired
<1>16. ClashNeedsCrossing'
  <2>1. ASSUME NEW f \in unknown', pc'[f] = "send", session'[f] \in rows'
        PROVE  \E g \in met'[f] : session'[g] = session'[f]
    <3>1. f \in Exchange /\ f # e
      BY <1>1, <2>1 DEF ChatIInv, LogTypes
    <3>2. \E g \in met[f] : session[g] = session[f]
      BY <1>1, <1>8, <2>1, <3>1 DEF ChatIInv, ClashNeedsCrossing
    <3> QED
      BY <1>5, <1>8, <3>1, <3>2
  <2> QED
    BY <2>1 DEF ClashNeedsCrossing
<1> QED
  BY <1>7, <1>10, <1>12, <1>13, <1>14, <1>15, <1>16 DEF ChatIInv

\* Of an exchange, a message another one stores parts neither question and
\* answer nor, if the two have met, the question from what may follow it.
LEMMA OthersOrder ==
  ASSUME LogTypes, UNCHANGED <<given, met>>, NEW e \in Exchange, NEW ms \in Seq(Message), Stored(e, ms),
         \A i \in DOMAIN ms : ms[i][1] = e,
         NEW f \in Exchange, f # e
  PROVE  /\ Paired(f) => Paired(f)'
         /\ Follows(f) /\ e \in met[f] => Follows(f)'
<1> DEFINE q == LogOf(f)
           t == q \o ms
<1>1. LogOf(f)' = q \/ LogOf(f)' = t
  BY LogGrows
<1>2. q \in Seq(Message) /\ DOMAIN q = 1..Len(q) /\ Len(q) \in Nat /\ DOMAIN t = 1..Len(q) + Len(ms) /\ Len(ms) \in Nat
  BY PlaceOf, Joined
<1>3. /\ \A i \in DOMAIN q : i \in DOMAIN t /\ t[i] = q[i]
      /\ \A i \in DOMAIN t : i \notin DOMAIN q => t[i][1] = e
  BY <1>2, Joined
<1>4. \A r : <<f, r>>[1] = f
  OBVIOUS
<1>5. LogOf(f) = q
  OBVIOUS
<1> HIDE DEF q, t
<1>6. ASSUME Paired(f) PROVE Paired(f)'
  <2>1. CASE LogOf(f)' = q
    BY <1>5, <1>6, <2>1 DEF Paired
  <2>2. CASE LogOf(f)' = t
    <3>1. ASSUME NEW i \in DOMAIN t, NEW j \in DOMAIN t, t[i] = <<f, "user">>, t[j] = <<f, "assistant">>
          PROVE  i < j /\ \A k \in i + 1..j - 1 : t[k][1] \in met[f]
      <4>1. i \in DOMAIN q /\ j \in DOMAIN q
        BY <1>3, <1>4, <3>1
      <4>2. i < j /\ \A k \in i + 1..j - 1 : q[k][1] \in met[f]
        BY <1>3, <1>5, <1>6, <3>1, <4>1 DEF Paired
      <4>3. \A k \in i + 1..j - 1 : k \in DOMAIN q
        BY <1>2, <4>1
      <4> QED
        BY <1>3, <4>2, <4>3
    <3> QED
      BY <2>2, <3>1 DEF Paired
  <2> QED
    BY <1>1, <2>1, <2>2
<1>7. ASSUME Follows(f), e \in met[f] PROVE Follows(f)'
  <2>1. CASE LogOf(f)' = q
    BY <1>5, <1>7, <2>1 DEF Follows
  <2>2. CASE LogOf(f)' = t
    <3>1. ASSUME NEW i \in DOMAIN t, NEW k \in DOMAIN t, i < k, t[i] = <<f, "user">>
          PROVE  t[k] = <<f, "assistant">> \/ t[k][1] \in met[f]
      <4>1. i \in DOMAIN q
        BY <1>3, <1>4, <3>1
      <4>2. CASE k \in DOMAIN q
        BY <1>3, <1>5, <1>7, <3>1, <4>1, <4>2 DEF Follows
      <4>3. CASE k \notin DOMAIN q
        BY <1>3, <1>7, <4>3
      <4> QED
        BY <4>2, <4>3
    <3> QED
      BY <2>2, <3>1 DEF Follows
  <2> QED
    BY <1>1, <2>1, <2>2
<1> QED
  BY <1>6, <1>7

\* What an exchange stores comes after all that is there.
LEMMA OwnOrder ==
  ASSUME LogTypes, UNCHANGED given, NEW e \in Exchange, NEW ms \in Seq(Message), Stored(e, ms)
  PROVE  /\ LogOf(e) \in Seq(Message) /\ Len(LogOf(e)) \in Nat /\ DOMAIN LogOf(e) = 1..Len(LogOf(e))
         /\ DOMAIN LogOf(e)' = 1..Len(LogOf(e)) + Len(ms)
         /\ \A i \in DOMAIN LogOf(e) : LogOf(e)'[i] = LogOf(e)[i]
         /\ \A i \in DOMAIN LogOf(e)' : i \notin DOMAIN LogOf(e) =>
               i > Len(LogOf(e)) /\ i - Len(LogOf(e)) \in DOMAIN ms /\ LogOf(e)'[i] = ms[i - Len(LogOf(e))]
<1>1. LogOf(e)' = LogOf(e) \o ms /\ LogOf(e) \in Seq(Message)
  BY LogGrows, PlaceOf
<1> QED
  BY <1>1, Joined

\* One exchange stores messages of its own and goes on.
LEMMA StoreInv ==
  ASSUME ChatIInv, NEW e \in Exchange, NEW ms \in Seq(Message), Stored(e, ms),
         \A i \in DOMAIN ms : ms[i][1] = e,
         UNCHANGED <<given, role, unknown, rows, history>>,
         \A f \in Exchange \ {e} : pc'[f] = pc[f],
         LogTypes', Saving(e)' => Saving(e), pc'[e] # "send",
         \A f \in Exchange \ {e} : Saving(f) => e \in met[f],
         Stage(e)', Paired(e)', Saving(e) => Follows(e)'
  PROVE  ChatIInv'
<1>1. UNCHANGED <<session, remembers>> /\ InMemory' = InMemory /\ UNCHANGED <<met, forgotten>> /\ LogTypes
  BY Fixed DEF history, ChatIInv
<1>2. \A f \in Exchange : Saving(f)' => Saving(f)
  BY DEF Saving
<1>3. StoresLate'
  BY <1>1, <1>2 DEF ChatIInv, StoresLate
<1>4. Stages'
  <2>1. ASSUME NEW f \in Exchange, f # e PROVE Stage(f)'
    <3>1. Stage(f)
      BY DEF ChatIInv, Stages
    <3>2. /\ Has(f, "user")' <=> Has(f, "user")
          /\ Has(f, "assistant")' <=> Has(f, "assistant")
      BY <1>1, <2>1, OthersMessages
    <3> QED
      BY <1>1, <2>1, <3>1, <3>2, StageStays
  <2> QED
    BY <2>1 DEF Stages
<1>5. HaveMet'
  BY <1>1, <1>2 DEF ChatIInv, HaveMet
<1>6. Following'
  <2>1. ASSUME NEW f \in Exchange, f # e, Saving(f)' PROVE Follows(f)'
    <3>1. Follows(f) /\ e \in met[f]
      BY <1>2, <2>1 DEF ChatIInv, Following
    <3> QED
      BY <1>1, <2>1, <3>1, OthersOrder
  <2> QED
    BY <2>1 DEF Following
<1>7. PairsTogether'
  <2>1. ASSUME NEW f \in Exchange, f # e PROVE Paired(f)'
    <3>1. Paired(f)
      BY AllPaired DEF ChatIInv
    <3> QED
      BY <1>1, <2>1, <3>1, OthersOrder
  <2>2. \A f \in Exchange : Paired(f)'
    BY <2>1
  <2> QED
    BY <2>2 DEF PairsTogether, Paired
<1>8. ClashNeedsCrossing'
  <2>1. ASSUME NEW f \in unknown', pc'[f] = "send", session'[f] \in rows'
        PROVE  \E g \in met'[f] : session'[g] = session'[f]
    <3>1. f \in Exchange /\ f # e
      BY <1>1, <2>1 DEF LogTypes
    <3> QED
      BY <1>1, <2>1, <3>1 DEF ChatIInv, ClashNeedsCrossing
  <2> QED
    BY <2>1 DEF ClashNeedsCrossing
<1> QED
  BY <1>3, <1>4, <1>5, <1>6, <1>7, <1>8 DEF ChatIInv

LEMMA AnswerInMemoryInv == ASSUME ChatIInv, NEW e \in Exchange, AnswerInMemory(e) PROVE ChatIInv'
<1> DEFINE ms == <<<<e, "user">>, <<e, "assistant">>>>
           n == Len(LogOf(e))
<1>1. /\ ms \in Seq(Message) /\ Len(ms) = 2 /\ DOMAIN ms = 1..2
      /\ ms[1] = <<e, "user">> /\ ms[2] = <<e, "assistant">>
  BY DEF Message, Role
<1>2. \A i \in DOMAIN ms : ms[i][1] = e
  BY <1>1
<1>3. /\ Stored(e, ms) /\ pc[e] = "generate" /\ pc'[e] = "done" /\ e \in remembers /\ InMemory
      /\ \A f \in Exchange \ {e} : pc'[f] = pc[f]
      /\ UNCHANGED <<given, role, unknown, rows, history>>
  BY DEF ChatIInv, LogTypes, AnswerInMemory, GoTo
<1>4. /\ Neither(e) /\ e \notin forgotten
      /\ \A f \in Exchange : ~Saving(f)
  BY <1>3 DEF ChatIInv, Stages, Stage, StoresLate
<1>5. LogTypes'
  BY <1>1, <1>3, LogGrows DEF ChatIInv, LogTypes, AnswerInMemory, GoTo, Ended, given, history
<1> HIDE DEF ms
<1>6. /\ n \in Nat /\ DOMAIN LogOf(e) = 1..n /\ DOMAIN LogOf(e)' = 1..n + 2
      /\ \A i \in 1..n : LogOf(e)'[i] = LogOf(e)[i]
      /\ \A i \in 1..n + 2 : i \notin 1..n => LogOf(e)'[i] = ms[i - n]
  BY <1>1, <1>3, OwnOrder DEF ChatIInv
<1>7. /\ LogOf(e)'[n + 1] = <<e, "user">> /\ LogOf(e)'[n + 2] = <<e, "assistant">>
      /\ n + 1 \in DOMAIN LogOf(e)' /\ n + 2 \in DOMAIN LogOf(e)'
  <2> HIDE DEF n
  <2>1. /\ n + 1 \in 1..n + 2 /\ n + 1 \notin 1..n /\ n + 1 - n = 1
        /\ n + 2 \in 1..n + 2 /\ n + 2 \notin 1..n /\ n + 2 - n = 2
    BY <1>6
  <2> QED
    BY <1>1, <1>6, <2>1
<1>8. \A i \in 1..n : LogOf(e)[i] # <<e, "user">> /\ LogOf(e)[i] # <<e, "assistant">>
  BY <1>4, <1>6 DEF Neither, Has
<1> HIDE DEF n
<1>9. \A i \in 1..n + 2 : i = n + 1 \/ i = n + 2 \/ i \in 1..n
  BY <1>6
<1>10. Stage(e)'
  <2>1. Both(e)'
    BY <1>7 DEF Both, Has
  <2>2. e \in (remembers \ forgotten)'
    BY <1>3, <1>4, Fixed DEF history
  <2> QED
    BY <1>3, <2>1, <2>2 DEF Stage
<1>11. Paired(e)'
  <2>1. ASSUME NEW i \in DOMAIN LogOf(e)', NEW j \in DOMAIN LogOf(e)',
               LogOf(e)'[i] = <<e, "user">>, LogOf(e)'[j] = <<e, "assistant">>
        PROVE  i < j /\ \A k \in i + 1..j - 1 : LogOf(e)'[k][1] \in met'[e]
    <3>1. i = n + 1 /\ j = n + 2
      BY <1>6, <1>7, <1>8, <1>9, <2>1
    <3> QED
      BY <1>6, <3>1
  <2> QED
    BY <2>1 DEF Paired
<1>12. ~Saving(e)'
  BY <1>3 DEF Saving
<1> QED
  BY <1>1, <1>2, <1>3, <1>4, <1>5, <1>10, <1>11, <1>12, StoreInv

LEMMA SendInv == ASSUME ChatIInv, NEW e \in Exchange, Send(e) PROVE ChatIInv'
<1>1. CASE e \in unknown /\ session[e] \in rows
  <2>1. /\ pc[e] = "send" /\ pc' = [pc EXCEPT ![e] = "failed"]
        /\ UNCHANGED <<given, role, unknown, log, rows, history>>
    BY <1>1 DEF Send, GoTo
  <2> QED
    BY <2>1, BreakInv DEF InFlight, Ended
<1>2. CASE ~(e \in unknown /\ session[e] \in rows)
  <2> DEFINE ms == <<<<e, role[e]>>>>
             n == Len(LogOf(e))
  <2>1. role[e] \in {"user", "assistant"}
    BY DEF ChatIInv, LogTypes, Role
  <2>2. /\ ms \in Seq(Message) /\ Len(ms) = 1 /\ DOMAIN ms = 1..1
        /\ ms[1] = <<e, role[e]>>
    BY <2>1 DEF Message, Role
  <2>3. \A i \in DOMAIN ms : ms[i][1] = e
    BY <2>2
  <2>4. /\ Stored(e, ms) /\ pc[e] = "send" /\ pc'[e] = "commit"
        /\ \A f \in Exchange \ {e} : pc'[f] = pc[f]
        /\ UNCHANGED <<given, role, unknown, rows, history>>
    BY <1>2 DEF ChatIInv, LogTypes, Send, GoTo
  <2>5. /\ Saving(e) /\ Saving(e)'
        /\ e \in remembers /\ ~InMemory
        /\ e \notin forgotten
        /\ IF role[e] = "user" THEN Neither(e) ELSE OnlyQuestion(e)
        /\ Follows(e)
        /\ \A f \in Exchange \ {e} : Saving(f) => e \in met[f]
    BY <2>4 DEF ChatIInv, Stages, Stage, StoresLate, HaveMet, Following, Saving
  <2>6. LogTypes'
    BY <2>2, <2>4, <1>2, LogGrows DEF ChatIInv, LogTypes, Send, GoTo, Ended, given, history
  <2> HIDE DEF ms
  <2>7. /\ n \in Nat /\ DOMAIN LogOf(e) = 1..n /\ DOMAIN LogOf(e)' = 1..n + 1
        /\ \A i \in 1..n : LogOf(e)'[i] = LogOf(e)[i]
        /\ \A i \in 1..n + 1 : i \notin 1..n => LogOf(e)'[i] = ms[i - n]
    BY <2>2, <2>4, OwnOrder DEF ChatIInv
  <2> HIDE DEF n
  <2>8. /\ n + 1 \in 1..n + 1 /\ n + 1 \notin 1..n /\ n + 1 - n = 1
        /\ \A i \in 1..n + 1 : i = n + 1 \/ i \in 1..n
    BY <2>7
  <2>9. LogOf(e)'[n + 1] = <<e, role[e]>>
    BY <2>2, <2>7, <2>8
  <2>10. /\ Has(e, "user")' <=> (Has(e, "user") \/ role[e] = "user")
         /\ Has(e, "assistant")' <=> (Has(e, "assistant") \/ role[e] = "assistant")
    <3>1. ASSUME NEW r PROVE Has(e, r)' <=> (Has(e, r) \/ role[e] = r)
      <4>1. \A i \in 1..n : i \in 1..n + 1
        BY <2>7
      <4>2. (\E i \in 1..n + 1 : LogOf(e)'[i] = <<e, r>>)
               <=> (\E i \in 1..n : LogOf(e)[i] = <<e, r>>) \/ role[e] = r
        BY <2>7, <2>8, <2>9, <4>1
      <4> QED
        BY <2>7, <4>2 DEF Has
    <3> QED
      BY <3>1
  <2>11. Stage(e)'
    BY <2>1, <2>4, <2>5, <2>10 DEF Stage, Neither, OnlyQuestion, Both, history
  <2>12. role'[e] = role[e] /\ met'[e] = met[e]
    BY <2>4 DEF history
  <2>13. CASE role[e] = "user"
    <3>1. \A i \in 1..n : LogOf(e)[i] # <<e, "user">> /\ LogOf(e)[i] # <<e, "assistant">>
      BY <2>5, <2>7, <2>13 DEF Neither, Has
    <3>2. \A i \in 1..n + 1 : LogOf(e)'[i] # <<e, "assistant">>
      BY <2>7, <2>8, <2>9, <2>13, <3>1
    <3>3. Paired(e)'
      BY <2>7, <3>2 DEF Paired
    <3>4. Follows(e)'
      <4>1. ASSUME NEW i \in 1..n + 1, NEW k \in 1..n + 1, i < k PROVE LogOf(e)'[i] # <<e, "user">>
        <5>1. i \in 1..n
          BY <2>7, <4>1
        <5> QED
          BY <2>7, <3>1, <5>1
      <4> QED
        BY <2>7, <4>1 DEF Follows
    <3> QED
      BY <2>2, <2>3, <2>4, <2>5, <2>6, <2>11, <3>3, <3>4, StoreInv
  <2>14. CASE role[e] = "assistant"
    <3>1. \A i \in 1..n : LogOf(e)[i] # <<e, "assistant">>
      BY <2>5, <2>7, <2>14 DEF OnlyQuestion, Has
    <3>2. \A i, k \in 1..n : i < k /\ LogOf(e)[i] = <<e, "user">> => LogOf(e)[k][1] \in met[e]
      BY <2>5, <2>7, <3>1 DEF Follows
    <3>3. ASSUME NEW i \in 1..n + 1, NEW j \in 1..n + 1,
                 LogOf(e)'[i] = <<e, "user">>, LogOf(e)'[j] = <<e, "assistant">>
          PROVE  i < j /\ \A k \in i + 1..j - 1 : LogOf(e)'[k][1] \in met[e]
      <4>1. i \in 1..n /\ LogOf(e)[i] = <<e, "user">> /\ j = n + 1
        BY <2>7, <2>8, <2>9, <2>14, <3>1, <3>3
      <4>2. ASSUME NEW k \in i + 1..j - 1 PROVE LogOf(e)'[k][1] \in met[e]
        <5>1. k \in 1..n /\ i < k
          BY <2>7, <4>1
        <5>2. LogOf(e)'[k] = LogOf(e)[k]
          BY <2>7, <5>1
        <5> QED
          BY <3>2, <4>1, <5>1, <5>2
      <4>3. i < j
        BY <2>7, <4>1
      <4> QED
        BY <4>2, <4>3
    <3>4. Paired(e)'
      BY <2>7, <2>12, <3>3 DEF Paired
    <3>5. ASSUME NEW i \in 1..n + 1, NEW k \in 1..n + 1, i < k, LogOf(e)'[i] = <<e, "user">>
          PROVE  LogOf(e)'[k] = <<e, "assistant">> \/ LogOf(e)'[k][1] \in met[e]
      <4>1. i \in 1..n /\ LogOf(e)[i] = <<e, "user">>
        BY <2>7, <2>8, <3>5
      <4> QED
        BY <2>7, <2>8, <2>9, <2>14, <3>2, <3>5, <4>1
    <3>6. Follows(e)'
      BY <2>7, <2>12, <3>5 DEF Follows
    <3> QED
      BY <2>2, <2>3, <2>4, <2>5, <2>6, <2>11, <3>4, <3>6, StoreInv
  <2> QED
    BY <2>1, <2>13, <2>14
<1> QED
  BY <1>1, <1>2
-----------------------------------------------------------------------------
(* Steps that take messages away. *)

\* What is left of a sequence stands in the order it stood in.
LEMMA Rest ==
  ASSUME NEW M, NEW q \in Seq(M), NEW n \in DOMAIN q
  PROVE  \E g \in [DOMAIN RemoveAt(q, n) -> DOMAIN q] :
            /\ \A i \in DOMAIN RemoveAt(q, n) : RemoveAt(q, n)[i] = q[g[i]]
            /\ \A i, j \in DOMAIN RemoveAt(q, n) : i < j <=> g[i] < g[j]
            /\ \A k \in DOMAIN q : k # n => \E i \in DOMAIN RemoveAt(q, n) : g[i] = k
<1> DEFINE t == RemoveAt(q, n)
           g == [i \in 1..Len(q) - 1 |-> IF i < n THEN i ELSE i + 1]
<1>1. /\ Len(q) \in Nat /\ DOMAIN q = 1..Len(q) /\ n \in 1..Len(q)
      /\ DOMAIN t = 1..Len(q) - 1
      /\ \A i \in 1..Len(q) - 1 : t[i] = IF i < n THEN q[i] ELSE q[i + 1]
  <2>1. Len(q) \in Nat /\ DOMAIN q = 1..Len(q) /\ n \in 1..Len(q)
    OBVIOUS
  <2>2. /\ DOMAIN RemoveAt(q, n) = 1..Len(q) - 1
        /\ \A i \in 1..Len(q) - 1 : RemoveAt(q, n)[i] = IF i < n THEN q[i] ELSE q[i + 1]
    BY Removed, Zenon
  <2> QED
    BY <2>1, <2>2, Zenon
<1> HIDE DEF t
<1>2. \A i \in 1..Len(q) - 1 : g[i] \in 1..Len(q)
  BY <1>1
<1>3. g \in [DOMAIN t -> DOMAIN q]
  BY <1>1, <1>2
<1>4. \A i \in 1..Len(q) - 1 : t[i] = q[g[i]]
  BY <1>1
<1>5. \A i, j \in 1..Len(q) - 1 : i < j <=> g[i] < g[j]
  BY <1>1
<1>6. ASSUME NEW k \in 1..Len(q), k # n PROVE \E i \in 1..Len(q) - 1 : g[i] = k
  <2>1. CASE k < n
    <3>1. k \in 1..Len(q) - 1 /\ g[k] = k
      BY <1>1, <2>1
    <3> QED
      BY <3>1
  <2>2. CASE ~(k < n)
    <3>1. k - 1 \in 1..Len(q) - 1 /\ ~(k - 1 < n) /\ k - 1 + 1 = k
      BY <1>1, <1>6, <2>2
    <3>2. g[k - 1] = k
      BY <3>1
    <3> QED
      BY <3>1, <3>2
  <2> QED
    BY <2>1, <2>2
<1> HIDE DEF g
<1>7. /\ \A i \in DOMAIN t : t[i] = q[g[i]]
      /\ \A i, j \in DOMAIN t : i < j <=> g[i] < g[j]
      /\ \A k \in DOMAIN q : k # n => \E i \in DOMAIN t : g[i] = k
  BY <1>1, <1>4, <1>5, <1>6
<1> QED
  BY <1>3, <1>7, Zenon DEF t

\* Taking a message of e away disturbs no order, and loses no one else a message.
LEMMA RestOrder ==
  ASSUME LogTypes, LogTypes', UNCHANGED <<given, met>>, NEW e \in Exchange,
         NEW f \in Exchange, NEW n \in DOMAIN LogOf(f), LogOf(f)[n][1] = e,
         LogOf(f)' = RemoveAt(LogOf(f), n)
  PROVE  /\ Paired(f) => Paired(f)'
         /\ Follows(f) => Follows(f)'
         /\ \A r : /\ Has(f, r)' => Has(f, r)
                   /\ Has(f, r) /\ LogOf(f)[n] # <<f, r>> => Has(f, r)'
<1> DEFINE q == LogOf(f)
           t == RemoveAt(q, n)
<1>1. /\ q \in Seq(Message) /\ DOMAIN q = 1..Len(q) /\ Len(q) \in Nat
      /\ DOMAIN t = 1..Len(q) - 1
  BY PlaceOf, Removed
<1>2. PICK g \in [DOMAIN t -> DOMAIN q] :
         /\ \A i \in DOMAIN t : t[i] = q[g[i]]
         /\ \A i, j \in DOMAIN t : i < j <=> g[i] < g[j]
         /\ \A k \in DOMAIN q : k # n => \E i \in DOMAIN t : g[i] = k
  <2>1. q \in Seq(Message) /\ n \in DOMAIN q
    BY <1>1
  <2> HIDE DEF q
  <2> QED
    BY <2>1, Rest
<1>3. LogOf(f)' = t /\ LogOf(f) = q
  OBVIOUS
<1>4. \A i \in DOMAIN t : g[i] \in DOMAIN q
  BY <1>2
<1> HIDE DEF t, q
<1>5. ASSUME Paired(f) PROVE Paired(f)'
  <2>1. ASSUME NEW i \in DOMAIN t, NEW j \in DOMAIN t, t[i] = <<f, "user">>, t[j] = <<f, "assistant">>
        PROVE  i < j /\ \A k \in i + 1..j - 1 : t[k][1] \in met[f]
    <3>1. g[i] < g[j] /\ \A k \in g[i] + 1..g[j] - 1 : q[k][1] \in met[f]
      BY <1>2, <1>3, <1>4, <1>5, <2>1 DEF Paired
    <3>2. i < j
      BY <1>2, <3>1
    <3>3. ASSUME NEW k \in i + 1..j - 1 PROVE t[k][1] \in met[f]
      <4>1. k \in DOMAIN t /\ i < k /\ k < j
        BY <1>1, <2>1
      <4>2. g[i] < g[k] /\ g[k] < g[j]
        BY <1>2, <4>1
      <4>3. g[i] \in Nat /\ g[j] \in Nat /\ g[k] \in Nat
        BY <1>1, <1>4, <4>1
      <4>4. g[k] \in g[i] + 1..g[j] - 1
        BY <4>2, <4>3
      <4> QED
        BY <1>2, <3>1, <4>1, <4>4
    <3> QED
      BY <3>2, <3>3
  <2> QED
    BY <1>3, <2>1 DEF Paired
<1>6. ASSUME Follows(f) PROVE Follows(f)'
  <2>1. ASSUME NEW i \in DOMAIN t, NEW k \in DOMAIN t, i < k, t[i] = <<f, "user">>
        PROVE  t[k] = <<f, "assistant">> \/ t[k][1] \in met[f]
    <3>1. g[i] < g[k] /\ t[i] = q[g[i]] /\ t[k] = q[g[k]]
      BY <1>2, <2>1
    <3> QED
      BY <1>3, <1>4, <1>6, <2>1, <3>1 DEF Follows
  <2> QED
    BY <1>3, <2>1 DEF Follows
<1>7. ASSUME NEW r
      PROVE  /\ Has(f, r)' => Has(f, r)
             /\ Has(f, r) /\ LogOf(f)[n] # <<f, r>> => Has(f, r)'
  <2>1. (\E i \in DOMAIN t : t[i] = <<f, r>>) => \E i \in DOMAIN q : q[i] = <<f, r>>
    BY <1>2, <1>4
  <2>2. ASSUME NEW k \in DOMAIN q, q[k] = <<f, r>>, q[n] # <<f, r>> PROVE \E i \in DOMAIN t : t[i] = <<f, r>>
    <3>1. k # n
      BY <2>2
    <3> QED
      BY <1>2, <2>2, <3>1
  <2> QED
    BY <1>3, <2>1, <2>2 DEF Has
<1> QED
  BY <1>5, <1>6, <1>7

\* The transaction of an exchange is rolled back.
LEMMA RollBackInv ==
  ASSUME ChatIInv, NEW e \in Exchange, pc[e] = "commit", pc' = [pc EXCEPT ![e] = "failed"],
         RollBack(e), UNCHANGED <<given, role, unknown, rows, history>>
  PROVE  ChatIInv'
<1>1. /\ LogTypes /\ UNCHANGED <<session, remembers, met, forgotten>> /\ InMemory' = InMemory
      /\ e \in remembers /\ ~InMemory
      /\ pc'[e] = "failed" /\ \A f \in Exchange \ {e} : pc'[f] = pc[f]
  BY Fixed DEF ChatIInv, StoresLate, Saving, LogTypes, history
<1>2. \A f \in Exchange : LogOf(f) = log[Database][session[f]] /\ LogOf(f)' = log'[Database][session[f]]
  BY <1>1 DEF LogOf, At
<1>3. PICK n \in DOMAIN LogOf(e) :
         /\ LogOf(e)[n] = <<e, role[e]>>
         /\ log' = [log EXCEPT ![Database][session[e]] = RemoveAt(LogOf(e), n)]
  BY <1>2 DEF RollBack
<1>4. Database \in Place /\ LogOf(e) \in Seq(Message) /\ RemoveAt(LogOf(e), n) \in Seq(Message)
  BY <1>1, PlaceOf, Removed DEF Place
<1>5. \A f \in Exchange : session[f] \in Session
  BY <1>1 DEF LogTypes
<1>6. ASSUME NEW f \in Exchange
      PROVE  IF session[f] = session[e] THEN LogOf(f) = LogOf(e) /\ LogOf(f)' = RemoveAt(LogOf(f), n)
                                        ELSE LogOf(f)' = LogOf(f)
  BY <1>1, <1>2, <1>3, <1>4, <1>5 DEF LogTypes
<1>7. LogTypes'
  BY <1>1, <1>3, <1>4, <1>5 DEF LogTypes, Ended, given
<1>8. ASSUME NEW f \in Exchange
      PROVE  /\ Paired(f) => Paired(f)'
             /\ Follows(f) => Follows(f)'
             /\ \A r : /\ Has(f, r)' => Has(f, r)
                       /\ Has(f, r) /\ (f = e => r # role[e]) => Has(f, r)'
  <2>1. CASE session[f] = session[e]
    <3>1. /\ n \in DOMAIN LogOf(f) /\ LogOf(f)[n] = <<e, role[e]>> /\ LogOf(f)[n][1] = e
          /\ LogOf(f)' = RemoveAt(LogOf(f), n)
      BY <1>3, <1>6, <2>1
    <3>2. \A r : (f = e => r # role[e]) => LogOf(f)[n] # <<f, r>>
      BY <3>1
    <3> QED
      BY <1>1, <1>7, <3>1, <3>2, RestOrder
  <2>2. CASE session[f] # session[e]
    BY <1>1, <1>6, <2>2 DEF Paired, Follows, Has
  <2> QED
    BY <2>1, <2>2
<1>9. ~Saving(e)' /\ \A f \in Exchange : Saving(f)' => Saving(f)
  BY <1>1 DEF Saving
<1>10. StoresLate'
  BY <1>1, <1>9 DEF ChatIInv, StoresLate
<1>11. Stages'
  <2>1. Stage(e)'
    <3>1. /\ role[e] \in {"user", "assistant"} /\ e \notin forgotten
          /\ IF role[e] = "user" THEN OnlyQuestion(e) ELSE Both(e)
      BY <1>1 DEF ChatIInv, Stages, Stage, LogTypes, Role
    <3>2. Has(e, "assistant")' => Has(e, "user")'
      BY <1>8, <3>1 DEF OnlyQuestion, Both
    <3> QED
      BY <1>1, <3>1, <3>2 DEF Stage, Neither
  <2>2. ASSUME NEW f \in Exchange, f # e PROVE Stage(f)'
    <3>1. /\ Has(f, "user")' <=> Has(f, "user")
          /\ Has(f, "assistant")' <=> Has(f, "assistant")
      BY <1>8, <2>2
    <3>2. Stage(f)
      BY DEF ChatIInv, Stages
    <3> QED
      BY <1>1, <2>2, <3>1, <3>2, StageStays
  <2> QED
    BY <2>1, <2>2 DEF Stages
<1>12. HaveMet'
  BY <1>1, <1>9 DEF ChatIInv, HaveMet
<1>13. Following'
  BY <1>8, <1>9 DEF ChatIInv, Following
<1>14. PairsTogether'
  <2>1. \A f \in Exchange : Paired(f)'
    BY <1>8, AllPaired DEF ChatIInv
  <2> QED
    BY <2>1 DEF PairsTogether, Paired
<1>15. ClashNeedsCrossing'
  BY <1>1 DEF ChatIInv, ClashNeedsCrossing, LogTypes
<1> QED
  BY <1>7, <1>10, <1>11, <1>12, <1>13, <1>14, <1>15 DEF ChatIInv

LEMMA FailInv == ASSUME ChatIInv, NEW e \in Exchange, Fail(e) PROVE ChatIInv'
<1>1. /\ InFlight(e) /\ pc' = [pc EXCEPT ![e] = "failed"]
      /\ UNCHANGED <<given, role, unknown, seen, history>>
  BY DEF Fail
<1>2. CASE pc[e] = "commit" /\ UNCHANGED rows /\ RollBack(e)
  BY <1>1, <1>2, RollBackInv
<1>3. CASE UNCHANGED log /\ (rows' = rows \/ (rows' = rows \cup {session[e]} /\ pc[e] = "commit"))
  BY <1>1, <1>3, BreakInv
<1> QED
  BY <1>2, <1>3 DEF Fail

\* In memory nobody is saving, and who has stored anything is done.
LEMMA RestartInv == ASSUME ChatIInv, NEW r \in Replica, Restart(r) PROVE ChatIInv'
<1> DEFINE mine == {e \in Exchange : home[e] = r}
<1>1. /\ InMemory /\ InMemory' /\ UNCHANGED <<given, session, remembers, role, unknown, rows, met>>
      /\ log' = [log EXCEPT ![r] = [s \in Session |-> <<>>]]
      /\ forgotten' = forgotten \cup {e \in mine : pc[e] = "done"}
      /\ pc' = [e \in Exchange |-> IF e \in mine /\ InFlight(e) THEN "failed" ELSE pc[e]]
      /\ LogTypes
  BY Fixed DEF Restart, ChatIInv
<1>2. LogTypes'
  <2>1. <<>> \in Seq(Message)
    OBVIOUS
  <2>2. log' \in [Place -> [Session -> Seq(Message)]]
    BY <1>1, <2>1 DEF LogTypes
  <2>3. pc' \in [Exchange -> Ended \cup {"idle", "retrieve", "generate", "look", "send", "commit"}]
    BY <1>1 DEF LogTypes, Ended
  <2> QED
    BY <1>1, <2>2, <2>3 DEF LogTypes, given
<1>3. \A e \in Exchange : At(e) = home[e] /\ At(e)' = home[e] /\ home[e] \in Place
  BY <1>1, Fixed DEF At, LogTypes, Place
<1>4. ASSUME NEW e \in Exchange PROVE LogOf(e)' = IF e \in mine THEN <<>> ELSE LogOf(e)
  BY <1>1, <1>3 DEF LogTypes, LogOf, Place
<1>5. \A e \in Exchange : ~Saving(e) /\ ~Saving(e)'
  <2>1. \A e \in Exchange : ~Saving(e)
    BY <1>1 DEF ChatIInv, StoresLate
  <2> QED
    BY <1>1, <2>1 DEF Saving, LogTypes
<1>6. Stages'
  <2>1. ASSUME NEW e \in Exchange, e \in mine PROVE Stage(e)'
    <3>1. Neither(e)'
      BY <1>4, <2>1 DEF Neither, Has
    <3>2. Stage(e)
      BY DEF ChatIInv, Stages
    <3>3. CASE InFlight(e)
      <4>1. pc'[e] = "failed"
        BY <1>1, <2>1, <3>3
      <4>2. pc[e] # "done"
        BY <3>3 DEF InFlight, Ended
      <4>3. e \notin forgotten'
        BY <1>1, <3>2, <4>2 DEF Stage
      <4> QED
        BY <3>1, <4>1, <4>3 DEF Stage
    <3>4. CASE ~InFlight(e)
      <4>1. pc'[e] = pc[e] /\ pc[e] \in {"idle", "done", "failed"}
        BY <1>1, <3>4 DEF InFlight, Ended, LogTypes
      <4>2. CASE pc[e] = "done"
        BY <1>1, <2>1, <3>1, <3>2, <4>1, <4>2 DEF Stage
      <4>3. CASE pc[e] # "done"
        BY <1>1, <3>1, <3>2, <4>1, <4>3 DEF Stage
      <4> QED
        BY <4>2, <4>3
    <3> QED
      BY <3>3, <3>4
  <2>2. ASSUME NEW e \in Exchange, e \notin mine PROVE Stage(e)'
    <3>1. /\ Has(e, "user")' <=> Has(e, "user")
          /\ Has(e, "assistant")' <=> Has(e, "assistant")
      BY <1>4, <2>2 DEF Has
    <3>2. Stage(e) /\ pc'[e] = pc[e] /\ role'[e] = role[e] /\ (e \in forgotten' <=> e \in forgotten)
      BY <1>1, <2>2 DEF ChatIInv, Stages
    <3> QED
      BY <1>1, <3>1, <3>2, StageStays
  <2> QED
    BY <2>1, <2>2 DEF Stages
<1>7. PairsTogether'
  <2>1. ASSUME NEW e \in Exchange PROVE Paired(e)'
    <3>1. Paired(e)
      BY AllPaired DEF ChatIInv
    <3>2. CASE e \in mine
      BY <1>4, <3>2 DEF Paired
    <3>3. CASE e \notin mine
      BY <1>1, <1>4, <3>1, <3>3 DEF Paired
    <3> QED
      BY <3>2, <3>3
  <2> QED
    BY <2>1 DEF PairsTogether, Paired
<1>8. StoresLate' /\ HaveMet' /\ Following'
  BY <1>5 DEF StoresLate, HaveMet, Following
<1>9. ClashNeedsCrossing'
  <2>1. \A e \in Exchange : pc'[e] # "send"
    BY <1>5 DEF Saving
  <2> QED
    BY <1>2, <2>1 DEF ClashNeedsCrossing, LogTypes
<1> QED
  BY <1>2, <1>6, <1>7, <1>8, <1>9 DEF ChatIInv
-----------------------------------------------------------------------------
LEMMA InitChatIInv == Init => ChatIInv
<1> SUFFICES ASSUME Init PROVE ChatIInv
  OBVIOUS
<1>1. /\ \A e \in Exchange : pc[e] = "idle" /\ role[e] = "user" /\ LogOf(e) = <<>> /\ met[e] = {}
      /\ unknown = {} /\ forgotten = {}
  <2>1. \A e \in Exchange : At(e) \in Place /\ session[e] \in Session
    BY DEF Init, At, Place
  <2> QED
    BY <2>1 DEF Init, LogOf
<1>2. LogTypes
  <2>1. <<>> \in Seq(Message)
    OBVIOUS
  <2>2. log \in [Place -> [Session -> Seq(Message)]]
    BY <2>1 DEF Init
  <2> QED
    BY <2>2 DEF Init, LogTypes, Ended, Role
<1>3. \A e \in Exchange : Neither(e) /\ ~Saving(e)
  BY <1>1 DEF Neither, Has, Saving
<1>4. Stages
  BY <1>1, <1>3 DEF Stages, Stage
<1>5. StoresLate /\ HaveMet /\ Following
  BY <1>3 DEF StoresLate, HaveMet, Following
<1>6. PairsTogether /\ ClashNeedsCrossing
  BY <1>1 DEF PairsTogether, ClashNeedsCrossing
<1> QED
  BY <1>2, <1>4, <1>5, <1>6 DEF ChatIInv

LEMMA StutterInv == ASSUME ChatIInv, UNCHANGED vars PROVE ChatIInv'
<1>1. /\ UNCHANGED <<given, log, backend, home, session, remembers, pc, role, unknown, met, forgotten, rows>>
      /\ InMemory' = InMemory
  BY Fixed DEF vars, given, history
<1>2. \A e \in Exchange : /\ LogOf(e)' = LogOf(e)
                          /\ Has(e, "user")' <=> Has(e, "user")
                          /\ Has(e, "assistant")' <=> Has(e, "assistant")
                          /\ Saving(e)' <=> Saving(e)
  BY <1>1, LogStays DEF Saving
<1>3. LogTypes'
  BY <1>1 DEF ChatIInv, LogTypes
<1>4. Stages'
  BY <1>1, <1>2, StageStays DEF ChatIInv, Stages
<1>5. StoresLate' /\ HaveMet'
  BY <1>1, <1>2 DEF ChatIInv, StoresLate, HaveMet
<1>6. Following'
  BY <1>1, <1>2 DEF ChatIInv, Following, Follows
<1>7. PairsTogether'
  BY <1>1, <1>2 DEF ChatIInv, PairsTogether
<1>8. ClashNeedsCrossing'
  BY <1>1 DEF ChatIInv, ClashNeedsCrossing
<1> QED
  BY <1>3, <1>4, <1>5, <1>6, <1>7, <1>8 DEF ChatIInv

LEMMA NextChatIInv == ChatIInv /\ [Next]_vars => ChatIInv'
<1> SUFFICES ASSUME ChatIInv, [Next]_vars PROVE ChatIInv'
  OBVIOUS
<1>1. ASSUME NEW e \in Exchange, Refuse(e) \/ Serve(e) \/ Fail(e) PROVE ChatIInv'
  <2>1. CASE Refuse(e) \/ Fail(e)
    BY <2>1, RefuseInv, FailInv
  <2>2. CASE Serve(e)
    BY <2>2, ReadHistoryInv, RetrieveInv, AnswerUnsavedInv, AnswerInMemoryInv, AnswerInv,
       LookInv, SendInv, CommitInv DEF Serve
  <2> QED
    BY <1>1, <2>1, <2>2
<1>2. ASSUME NEW r \in Replica, Restart(r) PROVE ChatIInv'
  BY <1>2, RestartInv
<1>3. CASE UNCHANGED vars
  BY <1>3, StutterInv
<1> QED
  BY <1>1, <1>2, <1>3 DEF Next, Finished

THEOREM AlwaysChatIInv == Spec => []ChatIInv
BY InitChatIInv, NextChatIInv, PTL DEF Spec

\* However the exchanges of a session overlap, break off or are rolled back, its
\* history keeps question and answer of PostgresConversationMemory.append in
\* order, with nothing between them but messages of exchanges saved meanwhile.
THEOREM PairsStayTogether == Spec => []PairsTogether
<1>1. ChatIInv => PairsTogether
  BY DEF ChatIInv
<1> QED
  BY <1>1, AlwaysChatIInv, PTL

\* The two commits of ChatService._save_exchange leave a question alone only
\* where the exchange is between them or broke off there, and no answer ever.
THEOREM QuestionsHaveAnswers == Spec => []QuestionHasAnswer
<1>1. ChatIInv => QuestionHasAnswer
  <2> SUFFICES ASSUME ChatIInv, NEW e \in Exchange
               PROVE  /\ Has(e, "assistant") => Has(e, "user")
                      /\ Has(e, "user") /\ ~Has(e, "assistant") =>
                            pc[e] \in {"look", "send", "commit", "failed"} /\ ~InMemory
    BY DEF QuestionHasAnswer
  <2>1. Stage(e) /\ (Saving(e) => ~InMemory)
    BY DEF ChatIInv, Stages, StoresLate
  <2>2. pc[e] \in {"idle", "retrieve", "generate", "look", "send", "commit", "done", "failed"}
    BY DEF ChatIInv, LogTypes, Ended
  <2> QED
    BY <2>1, <2>2 DEF Stage, Saving, Neither, OnlyQuestion, Both
<1> QED
  BY <1>1, AlwaysChatIInv, PTL

\* The exchange whose reply was sent in full has question and answer in its
\* session's history, until a restart of the replica that keeps it in memory.
THEOREM AnswersAreRemembered == Spec => []AnsweredIsRemembered
<1>1. ChatIInv => AnsweredIsRemembered
  BY DEF ChatIInv, Stages, Stage, AnsweredIsRemembered, Neither, Both
<1> QED
  BY <1>1, AlwaysChatIInv, PTL

\* The second insert of a session's row (PostgresConversationMemory.append)
\* raises only where two exchanges of the session were saved at one time.
THEOREM ClashesNeedCrossing == Spec => []ClashNeedsCrossing
<1>1. ChatIInv => ClashNeedsCrossing
  BY DEF ChatIInv
<1> QED
  BY <1>1, AlwaysChatIInv, PTL
-----------------------------------------------------------------------------
(* The history in a prompt.  What Visible, Chars and Trim compute by recursion *)
(* is known by the least number for which it were not so.                      *)

LEMMA Least ==
  ASSUME NEW T \in SUBSET Nat, T # {}
  PROVE  \E x \in T : \A y \in T : x <= y
<1> DEFINE R == {ss \in Nat \X Nat : ss[1] < ss[2]}
<1>1. IsWellFoundedOn(R, Nat)
  BY NatLessThanWellFounded DEF OpToRel
<1>2. \A x, y \in Nat : y < x => <<y, x>> \in R
  OBVIOUS
<1> HIDE DEF R
<1>3. PICK x \in T : \A y \in T : <<y, x>> \notin R
  BY <1>1, WFMin
<1>4. ASSUME NEW y \in T PROVE x <= y
  <2>1. x \in Nat /\ y \in Nat
    OBVIOUS
  <2>2. ~(y < x)
    BY <1>2, <1>3, <2>1
  <2> QED
    BY <2>1, <2>2
<1> QED
  BY <1>4

LEMMA LengthType == ASSUME NEW m PROVE Length(m) \in Nat \ {0}
<1>1. MaxChars \in Nat \ {0}
  BY ConversationAssumption
<1> QED
  BY <1>1 DEF Length

\* A step repeated N times has a function of its results.
ResultsOf(g, V, v, step, N) ==
  /\ g \in [0..N -> V]
  /\ g = [k \in 0..N |-> IF k = 0 THEN v ELSE step[k][g[k - 1]]]

LEMMA ResultsExist ==
  ASSUME NEW V, NEW v \in V, NEW step \in [Nat -> [V -> V]], NEW N \in Nat
  PROVE  \E g : ResultsOf(g, V, v, step, N)
<1> DEFINE Good(n) == \E g \in [0..n -> V] : g = [k \in 0..n |-> IF k = 0 THEN v ELSE step[k][g[k - 1]]]
           T == {n \in Nat : ~Good(n)}
<1>1. Good(0)
  <2> DEFINE g == [k \in 0..0 |-> v]
  <2>1. g \in [0..0 -> V] /\ g = [k \in 0..0 |-> IF k = 0 THEN v ELSE step[k][g[k - 1]]]
    OBVIOUS
  <2> HIDE DEF g
  <2> QED
    BY <2>1
<1>2. ASSUME NEW n \in Nat, Good(n) PROVE Good(n + 1)
  <2>1. PICK h \in [0..n -> V] : h = [k \in 0..n |-> IF k = 0 THEN v ELSE step[k][h[k - 1]]]
    BY <1>2
  <2> DEFINE g == [k \in 0..n + 1 |-> IF k = n + 1 THEN step[n + 1][h[n]] ELSE h[k]]
  <2>2. g \in [0..n + 1 -> V]
    <3>1. step[n + 1][h[n]] \in V
      OBVIOUS
    <3>2. \A k \in 0..n + 1 : k = n + 1 \/ k \in 0..n
      OBVIOUS
    <3> QED
      BY <3>1, <3>2
  <2>3. ASSUME NEW k \in 0..n + 1 PROVE g[k] = IF k = 0 THEN v ELSE step[k][g[k - 1]]
    <3>1. CASE k = n + 1
      <4>1. n \in 0..n + 1 /\ n # n + 1 /\ n + 1 # 0 /\ n + 1 - 1 = n /\ n + 1 \in 0..n + 1
        OBVIOUS
      <4>2. g[n + 1] = step[n + 1][h[n]] /\ g[n] = h[n]
        BY <4>1
      <4> QED
        BY <3>1, <4>1, <4>2
    <3>2. CASE k \in 0..n /\ k # 0
      <4>1. k - 1 \in 0..n /\ k \in 0..n + 1 /\ k - 1 \in 0..n + 1 /\ k # n + 1 /\ k - 1 # n + 1
        BY <3>2
      <4>2. g[k] = h[k] /\ g[k - 1] = h[k - 1]
        BY <4>1
      <4>3. h[k] = step[k][h[k - 1]]
        BY <2>1, <3>2
      <4> QED
        BY <3>2, <4>2, <4>3
    <3>3. CASE k = 0
      <4>1. 0 \in 0..n /\ 0 \in 0..n + 1 /\ 0 # n + 1
        OBVIOUS
      <4>2. g[0] = h[0] /\ h[0] = v
        BY <2>1, <4>1
      <4> QED
        BY <3>3, <4>2
    <3> QED
      BY <3>1, <3>2, <3>3
  <2>4. g = [k \in 0..n + 1 |-> IF k = 0 THEN v ELSE step[k][g[k - 1]]]
    BY <2>3
  <2> HIDE DEF g
  <2> QED
    BY <2>2, <2>4
<1> HIDE DEF Good
<1>3. T = {}
  <2> SUFFICES ASSUME T # {} PROVE FALSE
    OBVIOUS
  <2>1. PICK n \in T : \A m \in T : n <= m
    BY Least
  <2>2. n \in Nat /\ ~Good(n) /\ n # 0
    BY <1>1, <2>1
  <2>3. n - 1 \in Nat /\ n - 1 + 1 = n /\ ~(n <= n - 1)
    BY <2>2
  <2>4. Good(n - 1)
    BY <2>1, <2>3
  <2> QED
    BY <1>2, <2>2, <2>3, <2>4
<1>4. Good(N)
  BY <1>3
<1> QED
  BY <1>4 DEF Good, ResultsOf

LEMMA CharsDef ==
  ASSUME NEW ms \in Seq(Message)
  PROVE  /\ Chars(ms) \in [0..Len(ms) -> Nat]
         /\ Chars(ms)[0] = 0
         /\ \A n \in 1..Len(ms) : Chars(ms)[n] = Chars(ms)[n - 1] + Length(ms[Len(ms) - n + 1])
<1> DEFINE N == Len(ms)
           step == [k \in Nat |-> [x \in Nat |-> x + Length(ms[N - k + 1])]]
           sum == CHOOSE sum : sum = [n \in 0..N |-> IF n = 0 THEN 0 ELSE sum[n - 1] + Length(ms[N - n + 1])]
<1>1. N \in Nat /\ step \in [Nat -> [Nat -> Nat]]
  <2>1. \A k \in Nat : [x \in Nat |-> x + Length(ms[N - k + 1])] \in [Nat -> Nat]
    BY LengthType
  <2> QED
    BY <2>1
<1>2. Chars(ms) = sum
  BY DEF Chars
<1>3. sum = [n \in 0..N |-> IF n = 0 THEN 0 ELSE sum[n - 1] + Length(ms[N - n + 1])]
  <2>1. \A k, x \in Nat : step[k][x] = x + Length(ms[N - k + 1])
    OBVIOUS
  <2> HIDE DEF step, N
  <2>2. PICK g : ResultsOf(g, Nat, 0, step, N)
    <3>1. 0 \in Nat
      OBVIOUS
    <3> QED
      BY <1>1, <3>1, ResultsExist
  <2>3. g = [n \in 0..N |-> IF n = 0 THEN 0 ELSE g[n - 1] + Length(ms[N - n + 1])]
    <3>1. ASSUME NEW n \in 0..N PROVE g[n] = IF n = 0 THEN 0 ELSE g[n - 1] + Length(ms[N - n + 1])
      <4>1. CASE n # 0
        <5>1. n \in Nat /\ n - 1 \in 0..N /\ g[n - 1] \in Nat
          BY <1>1, <2>2, <4>1 DEF ResultsOf
        <5>2. g[n] = step[n][g[n - 1]]
          BY <2>2, <4>1 DEF ResultsOf
        <5> QED
          BY <2>1, <4>1, <5>1, <5>2
      <4> QED
        BY <2>2, <4>1 DEF ResultsOf
    <3> QED
      BY <2>2, <3>1 DEF ResultsOf
  <2> QED
    BY <2>3
<1> HIDE DEF sum, step
<1>4. /\ DOMAIN sum = 0..N /\ sum[0] = 0
      /\ \A n \in 1..N : sum[n] = sum[n - 1] + Length(ms[N - n + 1])
  <2>1. \A n \in 0..N : sum[n] = IF n = 0 THEN 0 ELSE sum[n - 1] + Length(ms[N - n + 1])
    BY <1>3
  <2>2. DOMAIN sum = 0..N
    BY <1>3
  <2>3. 0 \in 0..N /\ \A n \in 1..N : n \in 0..N /\ n # 0
    BY <1>1
  <2> QED
    BY <2>1, <2>2, <2>3
<1>5. \A n \in 0..N : sum[n] \in Nat
  <2> DEFINE T == {n \in Nat : n <= N /\ sum[n] \notin Nat}
  <2>1. T = {}
    <3> SUFFICES ASSUME T # {} PROVE FALSE
      OBVIOUS
    <3>1. PICK n \in T : \A m \in T : n <= m
      BY Least
    <3>2. n \in Nat /\ n <= N /\ sum[n] \notin Nat /\ n # 0
      BY <1>4, <3>1
    <3>3. n - 1 \in Nat /\ n - 1 <= N /\ ~(n <= n - 1) /\ n \in 1..N
      BY <1>1, <3>2
    <3>4. sum[n - 1] \in Nat
      BY <3>1, <3>3
    <3>5. sum[n] = sum[n - 1] + Length(ms[N - n + 1]) /\ Length(ms[N - n + 1]) \in Nat
      BY <1>4, <3>3, LengthType
    <3> QED
      BY <3>2, <3>4, <3>5
  <2>2. ASSUME NEW n \in 0..N PROVE sum[n] \in Nat
    <3>1. n \in Nat /\ n <= N
      BY <1>1
    <3> QED
      BY <2>1, <3>1
  <2> QED
    BY <2>2
<1>6. sum \in [0..N -> Nat]
  <2>1. sum = [n \in 0..N |-> sum[n]]
    BY <1>3
  <2> QED
    BY <1>5, <2>1
<1> QED
  BY <1>2, <1>4, <1>6

LEMMA CharsGrow ==
  ASSUME NEW ms \in Seq(Message), NEW k \in 0..Len(ms), NEW l \in 0..Len(ms), k <= l
  PROVE  Chars(ms)[k] <= Chars(ms)[l]
<1> DEFINE c == Chars(ms)
           N == Len(ms)
           T == {n \in Nat : k <= n /\ n <= N /\ ~(c[k] <= c[n])}
<1>1. /\ N \in Nat /\ k \in Nat /\ l \in Nat /\ k <= N /\ l <= N
      /\ \A n \in 0..N : c[n] \in Nat
      /\ \A n \in 1..N : \E x \in Nat : c[n] = c[n - 1] + x
  <2>1. N \in Nat /\ k \in Nat /\ l \in Nat /\ k <= N /\ l <= N
    OBVIOUS
  <2>2. \A n \in 0..N : c[n] \in Nat
    BY CharsDef
  <2>3. ASSUME NEW n \in 1..N PROVE \E x \in Nat : c[n] = c[n - 1] + x
    <3> DEFINE x == Length(ms[N - n + 1])
    <3>1. x \in Nat
      BY LengthType
    <3>2. c[n] = c[n - 1] + x
      BY CharsDef
    <3> HIDE DEF x
    <3> QED
      BY <3>1, <3>2
  <2> QED
    BY <2>1, <2>2, <2>3
<1> HIDE DEF c, N
<1>2. T = {}
  <2> SUFFICES ASSUME T # {} PROVE FALSE
    OBVIOUS
  <2>1. PICK n \in T : \A m \in T : n <= m
    BY Least
  <2>2. n \in Nat /\ k <= n /\ n <= N /\ ~(c[k] <= c[n])
    BY <2>1
  <2>3. c[k] \in Nat /\ c[n] \in Nat
    BY <1>1, <2>2
  <2>4. n # k
    BY <2>2, <2>3
  <2>5. n - 1 \in Nat /\ k <= n - 1 /\ n - 1 <= N /\ ~(n <= n - 1) /\ n \in 1..N /\ n - 1 \in 0..N
    BY <1>1, <2>2, <2>4
  <2>6. c[k] <= c[n - 1]
    BY <2>1, <2>5
  <2>7. PICK x \in Nat : c[n] = c[n - 1] + x
    BY <1>1, <2>5
  <2>8. c[n - 1] \in Nat
    BY <1>1, <2>5
  <2> QED
    BY <2>2, <2>3, <2>6, <2>7, <2>8
<1>3. l \notin T
  BY <1>2
<1>4. c[k] <= c[l]
  BY <1>1, <1>3
<1> QED
  BY <1>4 DEF c

LEMMA NewestOf ==
  ASSUME NEW ms \in Seq(Message), NEW n \in 0..Len(ms)
  PROVE  /\ Newest(ms, n) \in Seq(Message) /\ Len(Newest(ms, n)) = n
         /\ \A k \in 1..n : Newest(ms, n)[n - k + 1] = ms[Len(ms) - k + 1]
         /\ \A k \in 0..n : Newest(Newest(ms, n), k) = Newest(ms, k)
<1> DEFINE N == Len(ms)
           q == Newest(ms, n)
<1>1. N \in Nat /\ n \in Nat /\ n <= N /\ N - n + 1 \in 1..N + 1
  OBVIOUS
<1>2. q \in Seq(Message) /\ Len(q) = n /\ \A i \in 1..n : q[i] = ms[N - n + i]
  BY <1>1 DEF Newest
<1>3. ASSUME NEW k \in 1..n PROVE q[n - k + 1] = ms[N - k + 1]
  <2>1. n - k + 1 \in 1..n /\ N - n + (n - k + 1) = N - k + 1
    BY <1>1
  <2> QED
    BY <1>2, <2>1
<1>4. ASSUME NEW k \in 0..n PROVE Newest(q, k) = Newest(ms, k)
  <2> DEFINE a == Newest(q, k)
             b == Newest(ms, k)
  <2> HIDE DEF q, N
  <2>1. k \in Nat /\ k <= n /\ k <= N
    BY <1>1
  <2>2. a \in Seq(Message) /\ Len(a) = k /\ \A i \in 1..k : a[i] = q[n - k + i]
    BY <1>1, <1>2, <2>1 DEF Newest
  <2>3. b \in Seq(Message) /\ Len(b) = k /\ \A i \in 1..k : b[i] = ms[N - k + i]
    BY <1>1, <2>1 DEF Newest, N
  <2>4. ASSUME NEW i \in 1..k PROVE a[i] = b[i]
    <3>1. n - k + i \in 1..n /\ N - n + (n - k + i) = N - k + i
      BY <1>1, <2>1
    <3> QED
      BY <1>2, <2>2, <2>3, <3>1
  <2> HIDE DEF a, b
  <2>5. a = b
    BY <2>2, <2>3, <2>4
  <2> QED
    BY <2>5 DEF a, b
<1> QED
  BY <1>2, <1>3, <1>4

LEMMA CharsNewest ==
  ASSUME NEW ms \in Seq(Message), NEW m \in 0..Len(ms), NEW l \in 0..m
  PROVE  Chars(Newest(ms, m))[l] = Chars(ms)[l]
<1> DEFINE q == Newest(ms, m)
           T == {n \in Nat : n <= m /\ Chars(q)[n] # Chars(ms)[n]}
<1>1. /\ q \in Seq(Message) /\ Len(q) = m /\ m \in Nat /\ l \in Nat /\ l <= m
      /\ \A k \in 1..m : q[m - k + 1] = ms[Len(ms) - k + 1]
      /\ \A k \in 1..m : k \in 1..Len(ms)
  <2>1. m \in Nat /\ l \in Nat /\ l <= m /\ \A k \in 1..m : k \in 1..Len(ms)
    OBVIOUS
  <2>2. /\ q \in Seq(Message) /\ Len(q) = m
        /\ \A k \in 1..m : q[m - k + 1] = ms[Len(ms) - k + 1]
    BY NewestOf
  <2> QED
    BY <2>1, <2>2
<1> HIDE DEF q
<1>2. /\ Chars(q)[0] = 0 /\ Chars(ms)[0] = 0
      /\ \A n \in 1..m : /\ Chars(q)[n] = Chars(q)[n - 1] + Length(q[m - n + 1])
                         /\ Chars(ms)[n] = Chars(ms)[n - 1] + Length(ms[Len(ms) - n + 1])
  BY <1>1, CharsDef
<1>3. T = {}
  <2> SUFFICES ASSUME T # {} PROVE FALSE
    OBVIOUS
  <2>1. PICK n \in T : \A k \in T : n <= k
    BY Least
  <2>2. n \in Nat /\ n <= m /\ Chars(q)[n] # Chars(ms)[n] /\ n # 0
    BY <1>2, <2>1
  <2>3. n - 1 \in Nat /\ n - 1 <= m /\ ~(n <= n - 1) /\ n \in 1..m
    BY <1>1, <2>2
  <2>4. Chars(q)[n - 1] = Chars(ms)[n - 1]
    BY <2>1, <2>3
  <2> QED
    BY <1>1, <1>2, <2>2, <2>3, <2>4
<1>4. l \notin T
  BY <1>3
<1> QED
  BY <1>1, <1>4 DEF q

\* The loop of _trim_by_chars ends at the first message that does not fit.
LEMMA TrimDef ==
  ASSUME NEW q \in Seq(Message)
  PROVE  \E n \in 0..Len(q) : /\ Trim(q) = Newest(q, n)
                              /\ n = Len(q) \/ (n > 0 /\ Chars(q)[n + 1] > MaxChars)
                              /\ \A k \in 0..Len(q) : k < n => ~(k > 0 /\ Chars(q)[k + 1] > MaxChars)
<1> DEFINE N == Len(q)
           Stop(n) == n = N \/ (n > 0 /\ Chars(q)[n + 1] > MaxChars)
           S == {n \in 0..N : Stop(n)}
           First(n) == CHOOSE k \in S : n <= k /\ \A j \in S : n <= j => k <= j
           kept == CHOOSE kept : kept = [n \in 0..N |-> IF n = N \/ (n > 0 /\ Chars(q)[n + 1] > MaxChars)
                                                        THEN n ELSE kept[n + 1]]
<1>1. N \in Nat /\ 0 \in 0..N /\ N \in 0..N
  OBVIOUS
<1>2. Trim(q) = Newest(q, kept[0])
  BY DEF Trim
<1>3. \A n \in 0..N : Stop(n) <=> n \in S
  OBVIOUS
<1>4. N \in S /\ \A k \in S : k \in Nat /\ k \in 0..N
  BY <1>1
<1> HIDE DEF Stop, S
<1>5. ASSUME NEW n \in 0..N
      PROVE  First(n) \in S /\ n <= First(n) /\ \A j \in S : n <= j => First(n) <= j
  <2> DEFINE T == {k \in S : n <= k}
  <2>1. T \in SUBSET Nat
    BY <1>4
  <2>2. N \in T
    BY <1>1, <1>4
  <2>3. PICK k \in T : \A j \in T : k <= j
    BY <2>1, <2>2, Least
  <2>4. k \in S /\ n <= k /\ \A j \in S : n <= j => k <= j
    BY <2>3
  <2> QED
    BY <2>4
<1> HIDE DEF First
<1>6. ASSUME NEW n \in 0..N PROVE First(n) = IF Stop(n) THEN n ELSE First(n + 1)
  <2>0. n \in Nat /\ First(n) \in Nat
    BY <1>4, <1>5
  <2>1. CASE Stop(n)
    <3>1. n <= First(n) /\ First(n) <= n
      BY <1>3, <1>5, <2>0, <2>1
    <3> QED
      BY <2>0, <2>1, <3>1
  <2>2. CASE ~Stop(n)
    <3>1. n # N /\ n + 1 \in 0..N
      BY <1>1, <1>3, <1>4, <2>2
    <3>2. First(n) # n
      BY <1>3, <1>5, <2>2
    <3>3. First(n) \in S /\ n + 1 <= First(n)
      BY <1>5, <2>0, <3>2
    <3>4. First(n + 1) \in S /\ n + 1 <= First(n + 1) /\ First(n + 1) <= First(n)
      BY <1>5, <3>1, <3>3
    <3>5. First(n + 1) \in Nat /\ n <= First(n + 1)
      BY <1>4, <2>0, <3>4
    <3>6. First(n) <= First(n + 1)
      BY <1>5, <3>4, <3>5
    <3> QED
      BY <2>0, <2>2, <3>4, <3>5, <3>6
  <2> QED
    BY <2>1, <2>2
<1>7. kept = [n \in 0..N |-> IF n = N \/ (n > 0 /\ Chars(q)[n + 1] > MaxChars) THEN n ELSE kept[n + 1]]
  <2> DEFINE g == [n \in 0..N |-> First(n)]
  <2>1. ASSUME NEW n \in 0..N PROVE g[n] = IF Stop(n) THEN n ELSE g[n + 1]
    <3>1. ~Stop(n) => n + 1 \in 0..N
      BY <1>1 DEF Stop
    <3> QED
      BY <1>6, <3>1
  <2>2. g = [n \in 0..N |-> IF n = N \/ (n > 0 /\ Chars(q)[n + 1] > MaxChars) THEN n ELSE g[n + 1]]
    <3>1. g = [n \in 0..N |-> g[n]]
      OBVIOUS
    <3> HIDE DEF g
    <3> QED
      BY <2>1, <3>1 DEF Stop
  <2> HIDE DEF g, N
  <2> QED
    BY <2>2
<1> HIDE DEF kept
<1>8. \A n \in 0..N : kept[n] = IF Stop(n) THEN n ELSE kept[n + 1]
  BY <1>7 DEF Stop
<1> DEFINE f == First(0)
<1>9. f \in S /\ f \in Nat /\ f <= N /\ f \in 0..N /\ \A j \in S : f <= j
  <2>1. f \in S /\ \A j \in S : 0 <= j => f <= j
    BY <1>1, <1>5
  <2> HIDE DEF f
  <2> QED
    BY <1>1, <1>4, <2>1
<1> HIDE DEF f
<1>10. kept[0] = f
  <2> DEFINE T == {i \in Nat : i <= f /\ kept[f - i] # f}
  <2>1. T = {}
    <3> SUFFICES ASSUME T # {} PROVE FALSE
      OBVIOUS
    <3>1. PICK i \in T : \A j \in T : i <= j
      BY Least
    <3>2. i \in Nat /\ i <= f /\ kept[f - i] # f
      BY <3>1
    <3>3. i # 0
      <4>1. kept[f] = f
        BY <1>3, <1>8, <1>9
      <4> QED
        BY <1>9, <3>2, <4>1
    <3>4. /\ f - i \in 0..N /\ ~(f <= f - i) /\ f - i + 1 = f - (i - 1)
          /\ i - 1 \in Nat /\ i - 1 <= f /\ ~(i <= i - 1)
      BY <1>1, <1>9, <3>2, <3>3
    <3>5. kept[f - (i - 1)] = f
      BY <3>1, <3>4
    <3>6. ~Stop(f - i)
      BY <1>3, <1>9, <3>4
    <3> QED
      BY <1>8, <3>2, <3>4, <3>5, <3>6
  <2>2. f - f = 0 /\ f <= f
    BY <1>9
  <2>3. kept[f - f] = f
    BY <1>9, <2>1, <2>2
  <2> QED
    BY <2>2, <2>3
<1>11. Stop(f)
  BY <1>3, <1>9
<1>12. ASSUME NEW k \in 0..N, k < f PROVE ~Stop(k)
  <2>1. ~(f <= k)
    BY <1>9, <1>12
  <2> QED
    BY <1>3, <1>9, <2>1
<1> QED
  BY <1>2, <1>9, <1>10, <1>11, <1>12 DEF Stop

LEMMA VisibleType ==
  ASSUME LogTypes, NEW p \in Place, NEW s \in Session
  PROVE  Visible(p, s) \in Seq(Message)
<1> DEFINE ms == log[p][s]
           N == Len(ms)
           upTo == CHOOSE upTo : upTo = [n \in 0..N |-> CASE n = 0 -> <<>>
                                                          [] n > 0 /\ Sent(ms[n]) -> upTo[n - 1]
                                                          [] OTHER -> Append(upTo[n - 1], ms[n])]
           next(n, x) == IF n \in 1..N /\ ~Sent(ms[n]) THEN Append(x, ms[n]) ELSE x
           step == [n \in Nat |-> [x \in Seq(Message) |-> next(n, x)]]
<1>1. /\ ms \in Seq(Message) /\ N \in Nat
      /\ \A n \in 1..N : ms[n] \in Message
  BY DEF LogTypes
<1>2. Visible(p, s) = upTo[N]
  BY DEF Visible
<1> HIDE DEF ms, N
<1>3. \A n \in Nat, x \in Seq(Message) : next(n, x) \in Seq(Message)
  BY <1>1
<1> HIDE DEF next
<1>4. step \in [Nat -> [Seq(Message) -> Seq(Message)]]
  <2>1. \A n \in Nat : [x \in Seq(Message) |-> next(n, x)] \in [Seq(Message) -> Seq(Message)]
    BY <1>3
  <2> QED
    BY <2>1
<1>5. \A n \in Nat, x \in Seq(Message) : step[n][x] = next(n, x)
  OBVIOUS
<1> HIDE DEF step
<1>6. PICK g : ResultsOf(g, Seq(Message), <<>>, step, N)
  <2>1. <<>> \in Seq(Message)
    OBVIOUS
  <2> QED
    BY <1>1, <1>4, <2>1, ResultsExist
<1>7. upTo = [n \in 0..N |-> CASE n = 0 -> <<>>
                               [] n > 0 /\ Sent(ms[n]) -> upTo[n - 1]
                               [] OTHER -> Append(upTo[n - 1], ms[n])]
  <2>1. ASSUME NEW n \in 0..N
        PROVE  g[n] = CASE n = 0 -> <<>>
                        [] n > 0 /\ Sent(ms[n]) -> g[n - 1]
                        [] OTHER -> Append(g[n - 1], ms[n])
    <3>1. CASE n = 0
      BY <1>6, <3>1 DEF ResultsOf
    <3>2. CASE n # 0
      <4>1. n \in Nat /\ n > 0 /\ n \in 1..N /\ n - 1 \in 0..N /\ g[n - 1] \in Seq(Message)
        BY <1>1, <1>6, <3>2 DEF ResultsOf
      <4>2. g[n] = next(n, g[n - 1])
        BY <1>5, <1>6, <3>2, <4>1 DEF ResultsOf
      <4> QED
        BY <3>2, <4>1, <4>2 DEF next
    <3> QED
      BY <3>1, <3>2
  <2>2. g = [n \in 0..N |-> g[n]]
    BY <1>6 DEF ResultsOf
  <2>3. g = [n \in 0..N |-> CASE n = 0 -> <<>>
                              [] n > 0 /\ Sent(ms[n]) -> g[n - 1]
                              [] OTHER -> Append(g[n - 1], ms[n])]
    BY <2>1, <2>2
  <2> QED
    BY <2>3
<1> HIDE DEF upTo
<1>8. ASSUME NEW n \in 1..N PROVE upTo[n] = next(n, upTo[n - 1])
  <2>1. n \in 0..N /\ n # 0 /\ n > 0
    BY <1>1
  <2> QED
    BY <1>7, <2>1 DEF next
<1>9. upTo[0] = <<>>
  BY <1>1, <1>7
<1>10. upTo[N] \in Seq(Message)
  <2> DEFINE T == {n \in Nat : n <= N /\ upTo[n] \notin Seq(Message)}
  <2>1. T = {}
    <3> SUFFICES ASSUME T # {} PROVE FALSE
      OBVIOUS
    <3>1. PICK n \in T : \A m \in T : n <= m
      BY Least
    <3>2. <<>> \in Seq(Message)
      OBVIOUS
    <3>3. n \in Nat /\ n <= N /\ upTo[n] \notin Seq(Message) /\ n # 0
      BY <1>9, <3>1, <3>2
    <3>4. n - 1 \in Nat /\ n - 1 <= N /\ ~(n <= n - 1) /\ n \in 1..N
      BY <1>1, <3>3
    <3>5. upTo[n - 1] \in Seq(Message)
      BY <3>1, <3>4
    <3> QED
      BY <1>3, <1>8, <3>3, <3>4, <3>5
  <2> QED
    BY <1>1, <2>1
<1> QED
  BY <1>2, <1>10

\* _apply_limits cuts by messages first, and then _trim_by_chars by characters.
Limited(ms) == Trim(Newest(ms, IF Len(ms) < MaxMessages THEN Len(ms) ELSE MaxMessages))

LEMMA LongestThatFits ==
  ASSUME NEW ms \in Seq(Message)
  PROVE  \E n \in 0..Len(ms) : /\ Limited(ms) = Newest(ms, n)
                               /\ Fits(ms, n)
                               /\ \A k \in n + 1..Len(ms) : ~Fits(ms, k)
<1> DEFINE N == Len(ms)
           m == IF N < MaxMessages THEN N ELSE MaxMessages
           q == Newest(ms, m)
           c == Chars(ms)
<1>1. N \in Nat /\ MaxMessages \in Nat \ {0} /\ MaxChars \in Nat \ {0}
  BY ConversationAssumption
<1>2. m \in 0..N /\ m \in Nat /\ m <= N /\ m <= MaxMessages /\ (m = N \/ m = MaxMessages)
  BY <1>1
<1>3. /\ Limited(ms) = Trim(q)
      /\ \A n \in 0..N : Fits(ms, n) <=> n <= MaxMessages /\ (n <= 1 \/ c[n] <= MaxChars)
      /\ \A n \in 0..N : c[n] \in Nat
      /\ \A k, l \in 0..N : k <= l => c[k] <= c[l]
  BY CharsDef, CharsGrow DEF Limited, Fits
<1>4. /\ q \in Seq(Message) /\ Len(q) = m
      /\ \A k \in 0..m : Newest(q, k) = Newest(ms, k) /\ Chars(q)[k] = c[k]
  <2> HIDE DEF m
  <2>1. q \in Seq(Message) /\ Len(q) = m /\ \A k \in 0..m : Newest(q, k) = Newest(ms, k)
    BY <1>2, NewestOf
  <2>2. \A k \in 0..m : Chars(q)[k] = c[k]
    BY <1>2, CharsNewest
  <2> QED
    BY <2>1, <2>2
<1> HIDE DEF N, m, q, c
<1>5. PICK n \in 0..m : /\ Trim(q) = Newest(q, n)
                        /\ n = m \/ (n > 0 /\ Chars(q)[n + 1] > MaxChars)
                        /\ \A k \in 0..m : k < n => ~(k > 0 /\ Chars(q)[k + 1] > MaxChars)
  BY <1>4, TrimDef
<1>6. n \in Nat /\ n <= m /\ n \in 0..N
  BY <1>1, <1>2
<1>7. Limited(ms) = Newest(ms, n)
  BY <1>3, <1>4, <1>5
<1>8. Fits(ms, n)
  <2>1. CASE n <= 1
    BY <1>1, <1>2, <1>3, <1>6, <2>1
  <2>2. CASE ~(n <= 1)
    <3>1. n - 1 \in 0..m /\ n - 1 < n /\ n - 1 > 0 /\ n - 1 + 1 = n /\ n \in 0..m
      BY <1>2, <1>6, <2>2
    <3>2. ~(c[n] > MaxChars)
      BY <1>4, <1>5, <3>1
    <3> QED
      BY <1>1, <1>2, <1>3, <1>6, <3>2
  <2> QED
    BY <2>1, <2>2
<1>9. ASSUME NEW k \in n + 1..N PROVE ~Fits(ms, k)
  <2>1. k \in 0..N /\ k \in Nat /\ n + 1 <= k
    BY <1>1, <1>6
  <2>2. CASE n = m
    <3>1. m = MaxMessages
      BY <1>1, <1>2, <1>9, <2>2
    <3>2. ~(k <= MaxMessages)
      BY <1>1, <1>6, <2>1, <2>2, <3>1
    <3> QED
      BY <1>3, <2>1, <3>2
  <2>3. CASE n # m
    <3>0. n > 0 /\ Chars(q)[n + 1] > MaxChars
      BY <1>5, <2>3
    <3>1. n + 1 \in 0..m /\ n + 1 \in 0..N
      BY <1>1, <1>2, <1>6, <2>3
    <3>2. c[n + 1] > MaxChars /\ c[n + 1] <= c[k] /\ c[k] \in Nat /\ c[n + 1] \in Nat
      BY <1>3, <1>4, <2>1, <3>0, <3>1
    <3>3. ~(k <= 1) /\ ~(c[k] <= MaxChars)
      BY <1>1, <1>6, <2>1, <3>0, <3>2
    <3> QED
      BY <1>3, <2>1, <3>3
  <2> QED
    BY <2>2, <2>3
<1> QED
  BY <1>6, <1>7, <1>8, <1>9 DEF N

LEMMA OnlyReadHistoryReads ==
  ASSUME LogTypes, Next, NEW e \in Exchange, pc[e] = "idle", pc'[e] = "retrieve"
  PROVE  ReadHistory(e)
<1>1. ASSUME NEW f \in Exchange, Refuse(f) \/ Serve(f) \/ Fail(f) PROVE f = e /\ ReadHistory(f)
  <2>1. f = e
    BY <1>1 DEF LogTypes, Refuse, Serve, Fail, ReadHistory, Retrieve, AnswerUnsaved, AnswerInMemory, Answer,
       Look, Send, Commit, GoTo
  <2>2. ~Refuse(e) /\ ~Fail(e)
    BY DEF LogTypes, Refuse, Fail, GoTo, InFlight
  <2>3. /\ ~Retrieve(e) /\ ~AnswerUnsaved(e) /\ ~AnswerInMemory(e) /\ ~Answer(e)
        /\ ~Look(e) /\ ~Send(e) /\ ~Commit(e)
    BY DEF Retrieve, AnswerUnsaved, AnswerInMemory, Answer, Look, Send, Commit, GoTo
  <2> QED
    BY <1>1, <2>1, <2>2, <2>3 DEF Serve
<1>2. ASSUME NEW r \in Replica PROVE ~Restart(r)
  BY DEF Restart, InFlight, LogTypes
<1>3. ~Finished
  BY DEF Finished, vars, Ended
<1> QED
  BY <1>1, <1>2, <1>3 DEF Next

LEMMA HistoryOf ==
  ASSUME LogTypes, NEW e \in Exchange
  PROVE  LET ms == Visible(At(e), session[e])
             n == Len(History(e))
         IN  /\ History(e) \in Seq(Message)
             /\ n <= Len(ms) /\ History(e) = Newest(ms, n)
             /\ Fits(ms, n)
             /\ \A k \in n + 1..Len(ms) : ~Fits(ms, k)
<1> DEFINE ms == Visible(At(e), session[e])
<1>1. ms \in Seq(Message)
  BY PlaceOf, VisibleType
<1>2. History(e) = Limited(ms)
  BY DEF History, Limited
<1> HIDE DEF ms
<1>3. PICK n \in 0..Len(ms) : /\ Limited(ms) = Newest(ms, n)
                              /\ Fits(ms, n)
                              /\ \A k \in n + 1..Len(ms) : ~Fits(ms, k)
  BY <1>1, LongestThatFits
<1>4. Newest(ms, n) \in Seq(Message) /\ Len(Newest(ms, n)) = n
  BY <1>1, NewestOf
<1>5. n <= Len(ms)
  BY <1>1
<1>6. History(e) \in Seq(Message) /\ Len(History(e)) = n /\ History(e) = Newest(ms, n)
  BY <1>2, <1>3, <1>4
<1> QED
  BY <1>3, <1>5, <1>6 DEF ms

\* The parts of the type that the order of the messages does not rest on.
OtherTypes ==
  /\ long \subseteq Exchange
  /\ seen \in [Exchange -> Seq(Message)]
  /\ rows \subseteq Session
  /\ forgotten \subseteq Exchange

LEMMA SeenType ==
  ASSUME LogTypes, OtherTypes, NEW e \in Exchange, ReadHistory(e)
  PROVE  seen' \in [Exchange -> Seq(Message)]
<1>1. (IF e \in remembers THEN History(e) ELSE <<>>) \in Seq(Message)
  <2>1. History(e) \in Seq(Message)
    BY HistoryOf
  <2> QED
    BY <2>1
<1>2. seen' = [seen EXCEPT ![e] = IF e \in remembers THEN History(e) ELSE <<>>]
  BY DEF ReadHistory
<1> QED
  BY <1>1, <1>2 DEF OtherTypes

LEMMA NextOtherTypes == LogTypes /\ OtherTypes /\ [Next]_vars => OtherTypes'
<1> SUFFICES ASSUME LogTypes, OtherTypes, [Next]_vars PROVE OtherTypes'
  OBVIOUS
<1>1. ASSUME NEW e \in Exchange, ReadHistory(e) PROVE OtherTypes'
  BY <1>1, SeenType DEF OtherTypes, ReadHistory, given, history
<1>2. ASSUME NEW e \in Exchange, Commit(e) PROVE OtherTypes'
  BY <1>2 DEF LogTypes, OtherTypes, Commit, given, history
<1>3. ASSUME NEW e \in Exchange, Fail(e) PROVE OtherTypes'
  <2>1. UNCHANGED <<given, seen, history>> /\ (UNCHANGED rows \/ rows' = rows \cup {session[e]})
    BY <1>3 DEF Fail
  <2>2. session[e] \in Session
    BY DEF LogTypes
  <2> QED
    BY <2>1, <2>2 DEF OtherTypes, given, history
<1>4. ASSUME NEW r \in Replica, Restart(r) PROVE OtherTypes'
  BY <1>4 DEF OtherTypes, Restart, given
<1>5. ASSUME NEW e \in Exchange,
             \/ Refuse(e) \/ Retrieve(e) \/ AnswerUnsaved(e) \/ AnswerInMemory(e)
             \/ Answer(e) \/ Look(e) \/ Send(e)
      PROVE  OtherTypes'
  BY <1>5 DEF OtherTypes, Refuse, Retrieve, AnswerUnsaved, AnswerInMemory, Answer, Look, Send, given, history
<1>6. CASE UNCHANGED vars
  BY <1>6 DEF OtherTypes, vars, given, history
<1> QED
  BY <1>1, <1>2, <1>3, <1>4, <1>5, <1>6 DEF Next, Serve, Finished

LEMMA AlwaysOtherTypes == Spec => []OtherTypes
<1>1. Init => OtherTypes
  BY DEF Init, OtherTypes
<1>2. ChatIInv => LogTypes
  BY DEF ChatIInv
<1> QED
  BY <1>1, <1>2, NextOtherTypes, AlwaysChatIInv, PTL DEF Spec

\* The history in the prompt of ChatService.chat is, whatever is on record, the
\* longest tail that ConversationMemoryStore._apply_limits allows, or else the
\* newest message alone.
THEOREM HistoriesAreTails == Spec => HistoryIsTail
<1>1. LogTypes /\ OtherTypes /\ [Next]_vars =>
        \A e \in remembers : pc[e] = "idle" /\ pc'[e] = "retrieve" =>
           LET ms == Visible(At(e), session[e])
               n == Len(seen'[e])
           IN  /\ n <= Len(ms) /\ seen'[e] = Newest(ms, n)
               /\ Fits(ms, n)
               /\ \A k \in n + 1..Len(ms) : ~Fits(ms, k)
  <2> SUFFICES ASSUME LogTypes, OtherTypes, [Next]_vars,
                      NEW e \in remembers, pc[e] = "idle", pc'[e] = "retrieve"
               PROVE  LET ms == Visible(At(e), session[e])
                          n == Len(seen'[e])
                      IN  /\ n <= Len(ms) /\ seen'[e] = Newest(ms, n)
                          /\ Fits(ms, n)
                          /\ \A k \in n + 1..Len(ms) : ~Fits(ms, k)
    OBVIOUS
  <2>1. e \in Exchange /\ Next
    BY DEF LogTypes, vars
  <2>2. ReadHistory(e)
    BY <2>1, OnlyReadHistoryReads
  <2>3. seen'[e] = History(e)
    BY <2>1, <2>2 DEF ReadHistory, OtherTypes
  <2> QED
    BY <2>1, <2>3, HistoryOf
<1>2. ChatIInv => LogTypes
  BY DEF ChatIInv
<1> QED
  BY <1>1, <1>2, AlwaysChatIInv, AlwaysOtherTypes, PTL DEF Spec, HistoryIsTail

\* Every variable of an exchange and of the memory stays in its type.
THEOREM ConversationTypeCorrect == Spec => []TypeOK
<1>1. ChatIInv /\ OtherTypes => TypeOK
  BY DEF ChatIInv, LogTypes, OtherTypes, TypeOK
<1> QED
  BY <1>1, AlwaysChatIInv, AlwaysOtherTypes, PTL
=============================================================================
