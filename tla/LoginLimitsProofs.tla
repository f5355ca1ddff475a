-------------------------- MODULE LoginLimitsProofs --------------------------
(***************************************************************************)
(* LoginLimits: the types, the limits in every window, and what can leave  *)
(* a counter or a lock behind, for any number of logins, hosts, addresses  *)
(* and replicas and any settings.                                          *)
(***************************************************************************)
EXTENDS LoginLimits, FiniteSetTheorems, TLAPS

(***************************************************************************)
(* The inductive invariant.                                                *)
(***************************************************************************)

Begun == {a \in Attempt : pc[a] # "idle"}
Counted == {a \in Attempt : pc[a] \notin {"idle", "check"}}

\* An attempt has no age in a window it has not come to.
NotYet == \A a \in Attempt : /\ a \notin Begun => passed[a] = Old(RequestWindow)
                             /\ a \notin Counted => admitted[a] = Old(Window)

\* What still counts in a sliding window, and was not forgotten, is in its bucket.
Tracked ==
  /\ \A r \in Replica, k \in Source \cup Key : bucket[r][k] \subseteq Begun
  /\ \A a \in Attempt \ forgotten : /\ passed[a] <= RequestWindow => a \in bucket[home[a]][host(a)]
                                    /\ InMemory /\ admitted[a] <= Window => a \in bucket[home[a]][key[a]]

FromHost(r, h) == {a \in Attempt \ forgotten : home[a] = r /\ host(a) = h}
WithKey(r, k) == {a \in Attempt \ forgotten : home[a] = r /\ key[a] = k}
Young(k) == {a \in Attempt : key[a] = k /\ admitted[a] <= Window - 1}

\* The window that is open in Redis began with f and has let T through; what it
\* finds from the window before is older than f and one short of the limit.
OpenWindow(k, T, f) ==
  /\ Cardinality(T) <= hits[k]
  /\ Cardinality(T) <= Limit
  /\ Cardinality(Young(k) \ T) <= Limit - 1
  /\ hitsLeft[k] # None => admitted[f] + hitsLeft[k] >= Window
  /\ \A a \in Young(k) \ T : admitted[a] >= admitted[f]

RedisWindow ==
  \A k \in Key : IF hits[k] = 0
                 THEN hitsLeft[k] = None /\ (~InMemory => Cardinality(Young(k)) <= Limit - 1)
                 ELSE ~InMemory => \E T \in SUBSET Counted : \E f \in T : OpenWindow(k, T, f)

MemoryWindows ==
  \A r \in Replica :
     /\ \A h \in Source : Recent(FromHost(r, h), passed, RequestWindow) <= RequestLimit
     /\ InMemory => \A k \in Key : Recent(WithKey(r, k), admitted, Window) <= Limit

Windows == NotYet /\ Tracked /\ MemoryWindows /\ RedisWindow

BrokenIsOver == \A a \in Attempt : brokeAt[a] # None => pc[a] = "over"

\* Each failure counted since the last clearing came from an attempt of its own.
Failures ==
  \A p \in Place, e \in Email :
     /\ IsFiniteSet(since[p][e])
     /\ fails[p][e] <= Cardinality(since[p][e])
     /\ \A a \in since[p][e] : pc[a] \in {"over", "expire_fails", "lock"}

\* Who is about to lock has counted enough, or was overtaken.
LockDue == \A a \in Attempt : pc[a] = "lock" /\ a \in since[Redis][email(a)] =>
                                 Cardinality(since[Redis][email(a)]) >= MaxFailures

IInv == /\ TypeOK /\ IsFiniteSet(Begun) /\ Windows
        /\ BrokenIsOver /\ CounterExpires
        /\ Failures /\ LockDue /\ LockIsEarned
-----------------------------------------------------------------------------
(* Constants, and what never changes.                                      *)

LEMMA Settings ==
  /\ RequestLimit \in Nat /\ RequestWindow \in Nat /\ Limit \in Nat /\ Window \in Nat
  /\ MaxFailures \in Nat /\ LockFor \in Nat
  /\ RequestLimit >= 1 /\ RequestWindow >= 1 /\ Limit >= 1 /\ Window >= 1 /\ MaxFailures >= 1 /\ LockFor >= 1
<1>1. \A n \in Nat \ {0} : n >= 1
  OBVIOUS
<1>2. {RequestLimit, RequestWindow, Limit, Window, MaxFailures, LockFor} \subseteq Nat \ {0}
  BY LimitsAssumption
<1> QED
  BY <1>1, <1>2

LEMMA NotNone == None \notin Nat /\ None \notin Attempt /\ None \notin Halfway
BY LimitsAssumption DEF Halfway

LEMMA Places == Redis \in Place /\ Redis \notin Replica /\ Replica \subseteq Place
BY LimitsAssumption DEF Place

LEMMA Belongs ==
  ASSUME TypeOK, NEW a \in Attempt
  PROVE  /\ home[a] \in Replica /\ key[a] \in Key
         /\ host(a) \in Source /\ email(a) \in Email
         /\ host(a) \notin Key /\ At(a) \in Place
<1>1. home[a] \in Replica /\ key[a] \in Source \X Email
  BY DEF TypeOK, Key
<1>2. host(a) \in Source /\ email(a) \in Email
  BY <1>1 DEF host, email
<1> QED
  BY <1>1, <1>2, LimitsAssumption DEF Key, At, Place

LEMMA GivenStays == Next => UNCHANGED given
BY DEF Next, Serve, Dispatch, CheckMemory, Incr, Expire, AssertNotLocked, Verify, FailMemory,
       FailIncr, FailExpire, SetLock, ClearMemory, ClearFails, Unlock, Fail, Restart, Tick, Finished, vars
-----------------------------------------------------------------------------
(* Types.                                                                  *)

LEMMA GoesTo ==
  ASSUME TypeOK, NEW a \in Attempt, NEW from, NEW to \in Steps, GoTo(a, from, to)
  PROVE  /\ pc[a] = from /\ pc'[a] = to
         /\ pc' \in [Attempt -> Steps]
         /\ \A b \in Attempt \ {a} : pc'[b] = pc[b]
BY DEF TypeOK, GoTo

LEMMA SlideType ==
  ASSUME TypeOK, NEW a \in Attempt, NEW k \in Source \cup Key, NEW window \in Nat,
         NEW age \in [Attempt -> 0..Old(window)],
         NEW limit \in Nat, NEW from, NEW to \in Steps, Slide(a, k, age, window, limit, from, to)
  PROVE  /\ pc' \in [Attempt -> Steps]
         /\ bucket' \in [Replica -> [Source \cup Key -> SUBSET Attempt]]
         /\ Stamped(age, a, to) \in [Attempt -> 0..Old(window)]
<1>1. "over" \in Steps
  BY DEF Steps
<1>2. pc' \in [Attempt -> Steps]
  BY <1>1, GoesTo DEF Slide
<1>3. bucket' \in [Replica -> [Source \cup Key -> SUBSET Attempt]]
  <2>1. bucket \in [Replica -> [Source \cup Key -> SUBSET Attempt]] /\ home[a] \in Replica
    BY Belongs DEF TypeOK
  <2>2. Kept(home[a], k, age, window) \in SUBSET Attempt
    BY <2>1 DEF Kept
  <2>3. Kept(home[a], k, age, window) \cup {a} \in SUBSET Attempt
    BY <2>2
  <2>4. PICK B \in SUBSET Attempt : bucket' = [bucket EXCEPT ![home[a]][k] = B]
    BY <2>2, <2>3 DEF Slide
  <2> QED
    BY <2>1, <2>4
<1>4. 0 \in 0..Old(window)
  BY DEF Old
<1> QED
  BY <1>2, <1>3, <1>4 DEF Stamped

LEMMA OlderType == ASSUME NEW window \in Nat, NEW n \in 0..Old(window)
                   PROVE  Older(n, window) \in 0..Old(window)
BY DEF Old, Older

LEMMA LeftType == ASSUME NEW m \in Nat, NEW n \in 0..m \cup {None}
                  PROVE  Left(n) \in 1..m \cup {None}
BY NotNone DEF Left

LEMMA TypeNext == TypeOK /\ Next => TypeOK'
<1> SUFFICES ASSUME TypeOK, Next PROVE TypeOK'
  OBVIOUS
<1>g. UNCHANGED given
  BY GivenStays
<1>s. /\ "over" \in Steps /\ "check" \in Steps /\ "expire" \in Steps /\ "assert" \in Steps
      /\ "verify" \in Steps /\ "wrong" \in Steps /\ "expire_fails" \in Steps /\ "lock" \in Steps
      /\ "clear" \in Steps /\ "unlock" \in Steps
  BY DEF Steps
<1>t. /\ pc \in [Attempt -> Steps]
      /\ passed \in [Attempt -> 0..Old(RequestWindow)] /\ admitted \in [Attempt -> 0..Old(Window)]
  BY DEF TypeOK
<1>k. \A n : AfterCount(n) \in Steps
  BY <1>s DEF AfterCount
<1>1. ASSUME NEW a \in Attempt, Dispatch(a) PROVE TypeOK'
  <2>1. host(a) \in Source \cup Key
    BY Belongs
  <2>2. /\ Slide(a, host(a), passed, RequestWindow, RequestLimit, "idle", "check")
        /\ passed' = Stamped(passed, a, "check")
    BY <1>1 DEF Dispatch
  <2>3. /\ pc' \in [Attempt -> Steps]
        /\ bucket' \in [Replica -> [Source \cup Key -> SUBSET Attempt]]
        /\ passed' \in [Attempt -> 0..Old(RequestWindow)]
    BY <2>1, <2>2, <1>s, <1>t, Settings, SlideType
  <2> QED
    BY <1>1, <2>3 DEF Dispatch, TypeOK, given, counters, lockout
<1>2. ASSUME NEW a \in Attempt, CheckMemory(a) PROVE TypeOK'
  <2>1. key[a] \in Source \cup Key
    BY Belongs
  <2>2. /\ Slide(a, key[a], admitted, Window, Limit, "check", "assert")
        /\ admitted' = Stamped(admitted, a, "assert")
    BY <1>2 DEF CheckMemory
  <2>3. /\ pc' \in [Attempt -> Steps]
        /\ bucket' \in [Replica -> [Source \cup Key -> SUBSET Attempt]]
        /\ admitted' \in [Attempt -> 0..Old(Window)]
    BY <2>1, <2>2, <1>s, <1>t, Settings, SlideType
  <2> QED
    BY <1>2, <2>3 DEF CheckMemory, TypeOK, given, counters, lockout
<1>3. ASSUME NEW a \in Attempt, Incr(a) PROVE TypeOK'
  <2>1. pc' \in [Attempt -> Steps]
    BY <1>3, <1>s, <1>t DEF Incr, GoTo
  <2>2. hits' \in [Key -> Nat]
    BY <1>3, Belongs DEF Incr, TypeOK
  <2>3. admitted' \in [Attempt -> 0..Old(Window)]
    BY <1>3, <1>t, Settings DEF Incr, Old
  <2> QED
    BY <1>3, <2>1, <2>2, <2>3 DEF Incr, TypeOK, given, lockout
<1>4. ASSUME NEW a \in Attempt, Expire(a) PROVE TypeOK'
  <2>1. pc' \in [Attempt -> Steps]
    BY <1>4, <1>s, <1>t DEF Expire, GoTo
  <2>2. Window \in 1..Window
    BY Settings
  <2>3. hitsLeft' \in [Key -> 1..Window \cup {None}]
    BY <1>4, <2>2 DEF Expire, TypeOK
  <2> QED
    BY <1>4, <2>1, <2>3 DEF Expire, TypeOK, given, lockout
<1>5. ASSUME NEW a \in Attempt, AssertNotLocked(a) PROVE TypeOK'
  <2>1. pc' \in [Attempt -> Steps]
    BY <1>5, <1>s, <1>t DEF AssertNotLocked, GoTo
  <2>2. lock' \in [Place -> [Email -> 0..LockFor \cup {None}]]
    <3>1. \/ lock' = [lock EXCEPT ![At(a)][email(a)] = lock[At(a)][email(a)]]
          \/ lock' = [lock EXCEPT ![At(a)][email(a)] = None]
      BY <1>5 DEF AssertNotLocked
    <3>2. At(a) \in Place /\ email(a) \in Email
      BY Belongs
    <3>3. lock \in [Place -> [Email -> 0..LockFor \cup {None}]]
      BY DEF TypeOK
    <3> QED
      BY <3>1, <3>2, <3>3
  <2>3. fails' \in [Place -> [Email -> Nat]] /\ since' \in [Place -> [Email -> SUBSET Attempt]]
    <3>1. CASE lock[At(a)][email(a)] = 0
      <4>1. Forget(At(a), email(a))
        BY <1>5, <3>1 DEF AssertNotLocked
      <4> QED
        BY <4>1 DEF Forget, TypeOK
    <3>2. CASE lock[At(a)][email(a)] # 0
      BY <1>5, <3>2 DEF AssertNotLocked, TypeOK
    <3> QED
      BY <3>1, <3>2
  <2> QED
    BY <1>5, <2>1, <2>2, <2>3 DEF AssertNotLocked, TypeOK, given, counters
<1>6. ASSUME NEW a \in Attempt, Verify(a) PROVE TypeOK'
  <2>1. pc' \in [Attempt -> Steps]
    BY <1>6, <1>s, <1>t DEF Verify, GoTo
  <2> QED
    BY <1>6, <2>1 DEF Verify, TypeOK, given, counters, lockout
<1>7. ASSUME NEW a \in Attempt, FailMemory(a) PROVE TypeOK'
  <2>1. pc' \in [Attempt -> Steps]
    BY <1>7, <1>s, <1>t DEF FailMemory, GoTo
  <2>2. home[a] \in Place /\ email(a) \in Email /\ LockFor \in 0..LockFor
    BY Belongs, Places, Settings
  <2>3. fails' \in [Place -> [Email -> Nat]] /\ since' \in [Place -> [Email -> SUBSET Attempt]]
    <3>1. fails[home[a]][email(a)] + 1 \in Nat
      BY <2>2 DEF TypeOK
    <3>2. PICK n \in Nat : fails' = [fails EXCEPT ![home[a]][email(a)] = n]
      <4>1. CASE fails[home[a]][email(a)] + 1 < MaxFailures
        BY <1>7, <3>1, <4>1 DEF FailMemory
      <4>2. CASE ~(fails[home[a]][email(a)] + 1 < MaxFailures)
        BY <1>7, <4>2 DEF FailMemory
      <4> QED
        BY <4>1, <4>2
    <3>3. fails' \in [Place -> [Email -> Nat]]
      BY <3>2 DEF TypeOK
    <3>4. since' \in [Place -> [Email -> SUBSET Attempt]]
      <4>1. since' = [since EXCEPT ![home[a]][email(a)] = @ \cup {a}]
        BY <1>7 DEF FailMemory
      <4>2. since[home[a]][email(a)] \cup {a} \in SUBSET Attempt
        BY <2>2 DEF TypeOK
      <4>3. PICK S \in SUBSET Attempt : since' = [since EXCEPT ![home[a]][email(a)] = S]
        BY <4>1, <4>2
      <4> QED
        BY <4>3 DEF TypeOK
    <3> QED
      BY <3>3, <3>4
  <2>4. lock' \in [Place -> [Email -> 0..LockFor \cup {None}]]
    <3>1. CASE fails[home[a]][email(a)] + 1 < MaxFailures
      BY <1>7, <3>1 DEF FailMemory, TypeOK
    <3>2. CASE ~(fails[home[a]][email(a)] + 1 < MaxFailures)
      <4>1. lock' = [lock EXCEPT ![home[a]][email(a)] = LockFor]
        BY <1>7, <3>2 DEF FailMemory
      <4> QED
        BY <2>2, <4>1 DEF TypeOK
    <3> QED
      BY <3>1, <3>2
  <2> QED
    BY <1>7, <2>1, <2>3, <2>4 DEF FailMemory, TypeOK, given, counters
<1>8. ASSUME NEW a \in Attempt, FailIncr(a) PROVE TypeOK'
  <2>1. pc' \in [Attempt -> Steps]
    BY <1>8, <1>s, <1>t, <1>k DEF FailIncr, GoTo
  <2>2. Redis \in Place /\ email(a) \in Email
    BY Belongs, Places
  <2>3. fails' \in [Place -> [Email -> Nat]] /\ since' \in [Place -> [Email -> SUBSET Attempt]]
    BY <1>8, <2>2 DEF FailIncr, TypeOK
  <2> QED
    BY <1>8, <2>1, <2>3 DEF FailIncr, TypeOK, given, counters
<1>9. ASSUME NEW a \in Attempt, FailExpire(a) PROVE TypeOK'
  <2>1. pc' \in [Attempt -> Steps]
    BY <1>9, <1>s, <1>t, <1>k DEF FailExpire, GoTo
  <2>2. LockFor \in 1..LockFor
    BY Settings
  <2>3. failsLeft' \in [Email -> 1..LockFor \cup {None}]
    BY <1>9, <2>2 DEF FailExpire, TypeOK
  <2> QED
    BY <1>9, <2>1, <2>3 DEF FailExpire, TypeOK, given, counters
<1>10. ASSUME NEW a \in Attempt, SetLock(a) PROVE TypeOK'
  <2>1. pc' \in [Attempt -> Steps] /\ late' \subseteq Attempt
    BY <1>10, <1>s, <1>t DEF SetLock, GoTo, TypeOK
  <2>2. LockFor \in 0..LockFor
    BY Settings
  <2>3. lock' \in [Place -> [Email -> 0..LockFor \cup {None}]]
    BY <1>10, <2>2 DEF SetLock, TypeOK
  <2> QED
    BY <1>10, <2>1, <2>3 DEF SetLock, TypeOK, given, counters
<1>11. ASSUME NEW a \in Attempt, ClearMemory(a) PROVE TypeOK'
  <2>1. pc' \in [Attempt -> Steps]
    BY <1>11, <1>s, <1>t DEF ClearMemory, GoTo
  <2>2. fails' \in [Place -> [Email -> Nat]] /\ since' \in [Place -> [Email -> SUBSET Attempt]]
    BY <1>11 DEF ClearMemory, TypeOK, Forget
  <2>3. lock' \in [Place -> [Email -> 0..LockFor \cup {None}]]
    BY <1>11 DEF ClearMemory, TypeOK
  <2> QED
    BY <1>11, <2>1, <2>2, <2>3 DEF ClearMemory, TypeOK, given, counters
<1>12. ASSUME NEW a \in Attempt, ClearFails(a) PROVE TypeOK'
  <2>1. pc' \in [Attempt -> Steps]
    BY <1>12, <1>s, <1>t DEF ClearFails, GoTo
  <2>2. fails' \in [Place -> [Email -> Nat]] /\ since' \in [Place -> [Email -> SUBSET Attempt]]
    BY <1>12 DEF ClearFails, TypeOK, Forget
  <2>3. failsLeft' \in [Email -> 1..LockFor \cup {None}]
    BY <1>12 DEF ClearFails, TypeOK
  <2> QED
    BY <1>12, <2>1, <2>2, <2>3 DEF ClearFails, TypeOK, given, counters
<1>13. ASSUME NEW a \in Attempt, Unlock(a) PROVE TypeOK'
  <2>1. pc' \in [Attempt -> Steps]
    BY <1>13, <1>s, <1>t DEF Unlock, GoTo
  <2>2. lock' \in [Place -> [Email -> 0..LockFor \cup {None}]]
    BY <1>13 DEF Unlock, TypeOK
  <2> QED
    BY <1>13, <2>1, <2>2 DEF Unlock, TypeOK, given, counters
<1>14. ASSUME NEW a \in Attempt, Fail(a) PROVE TypeOK'
  <2>1. pc' \in [Attempt -> Steps] /\ brokeAt' \in [Attempt -> Halfway \cup {None}]
    BY <1>14, <1>s, <1>t DEF Fail, TypeOK, Broken
  <2> QED
    BY <1>14, <2>1 DEF Fail, TypeOK, given, counters, lockout
<1>15. ASSUME NEW r \in Replica, Restart(r) PROVE TypeOK'
  <2>1. pc' \in [Attempt -> Steps] /\ brokeAt' \in [Attempt -> Halfway \cup {None}]
    BY <1>15, <1>s, <1>t DEF Restart, TypeOK, Broken
  <2>3. forgotten' \subseteq Attempt
    BY <1>15 DEF Restart, TypeOK
  <2>4. bucket' \in [Replica -> [Source \cup Key -> SUBSET Attempt]]
    BY <1>15 DEF Restart, TypeOK
  <2>5. fails' \in [Place -> [Email -> Nat]] /\ since' \in [Place -> [Email -> SUBSET Attempt]]
    BY <1>15 DEF Restart, TypeOK
  <2>6. lock' \in [Place -> [Email -> 0..LockFor \cup {None}]]
    BY <1>15 DEF Restart, TypeOK
  <2> QED
    BY <1>15, <2>1, <2>3, <2>4, <2>5, <2>6 DEF Restart, TypeOK, given, counters
<1>16. CASE Tick
  <2>1. passed' \in [Attempt -> 0..Old(RequestWindow)] /\ admitted' \in [Attempt -> 0..Old(Window)]
    BY <1>16, <1>t, OlderType, Settings DEF Tick
  <2>2. hits' \in [Key -> Nat] /\ fails' \in [Place -> [Email -> Nat]]
    BY <1>16 DEF Tick, TypeOK
  <2>3. hitsLeft' \in [Key -> 1..Window \cup {None}]
    <3>1. \A k \in Key : hitsLeft[k] \in 0..Window \cup {None}
      BY DEF TypeOK
    <3>2. \A k \in Key : Left(hitsLeft[k]) \in 1..Window \cup {None}
      BY <3>1, Settings, LeftType
    <3> QED
      BY <1>16, <3>2 DEF Tick
  <2>4. failsLeft' \in [Email -> 1..LockFor \cup {None}]
    <3>1. \A e \in Email : failsLeft[e] \in 0..LockFor \cup {None}
      BY DEF TypeOK
    <3>2. \A e \in Email : Left(failsLeft[e]) \in 1..LockFor \cup {None}
      BY <3>1, Settings, LeftType
    <3> QED
      BY <1>16, <3>2 DEF Tick
  <2>5. lock' \in [Place -> [Email -> 0..LockFor \cup {None}]]
    <3>1. \A p \in Place, e \in Email : lock[p][e] \in 0..LockFor \cup {None}
      BY DEF TypeOK
    <3>2. \A p \in Place, e \in Email : Left(lock[p][e]) \in 1..LockFor \cup {None}
      BY <3>1, Settings, LeftType
    <3>3. 0 \in 0..LockFor /\ 1..LockFor \subseteq 0..LockFor
      BY Settings
    <3> QED
      BY <1>16, <3>2, <3>3 DEF Tick
  <2> QED
    BY <1>16, <2>1, <2>2, <2>3, <2>4, <2>5 DEF Tick, TypeOK, given
<1>17. CASE Finished
  BY <1>17 DEF Finished, vars, TypeOK, given, counters, lockout
<1> QED
  BY <1>1, <1>2, <1>3, <1>4, <1>5, <1>6, <1>7, <1>8, <1>9, <1>10, <1>11, <1>12, <1>13, <1>14,
     <1>15, <1>16, <1>17 DEF Next, Serve
-----------------------------------------------------------------------------
(* How attempts move on.                                                   *)

LEMMA MovesOn ==
  ASSUME TypeOK, NEW a \in Attempt, Serve(a) \/ Fail(a)
  PROVE  /\ pc[a] # "over" /\ pc'[a] # "idle"
         /\ a \in Counted => pc'[a] \notin {"idle", "check"}
         /\ \A b \in Attempt \ {a} : pc'[b] = pc[b]
<1>1. CASE Dispatch(a) \/ CheckMemory(a)
  BY <1>1 DEF Dispatch, CheckMemory, Slide, GoTo, TypeOK, Counted
<1>2. CASE Incr(a) \/ Expire(a) \/ AssertNotLocked(a) \/ Verify(a)
  BY <1>2 DEF Incr, Expire, AssertNotLocked, Verify, GoTo, TypeOK, Counted
<1>3. CASE FailMemory(a) \/ FailIncr(a) \/ FailExpire(a) \/ SetLock(a)
  BY <1>3 DEF FailMemory, FailIncr, FailExpire, SetLock, AfterCount, GoTo, TypeOK, Counted
<1>4. CASE ClearMemory(a) \/ ClearFails(a) \/ Unlock(a) \/ Fail(a)
  BY <1>4 DEF ClearMemory, ClearFails, Unlock, Fail, InFlight, GoTo, TypeOK, Counted
<1> QED
  BY <1>1, <1>2, <1>3, <1>4 DEF Serve

LEMMA Onward ==
  ASSUME TypeOK, Next
  PROVE  /\ Begun \subseteq Begun' /\ Counted \subseteq Counted'
         /\ \A b \in Attempt : pc[b] = "over" => pc'[b] = "over"
         /\ IsFiniteSet(Begun) => IsFiniteSet(Begun')
<1>1. ASSUME NEW a \in Attempt, Serve(a) \/ Fail(a)
      PROVE  /\ Begun \subseteq Begun' /\ Counted \subseteq Counted'
             /\ \A b \in Attempt : pc[b] = "over" => pc'[b] = "over"
             /\ IsFiniteSet(Begun) => IsFiniteSet(Begun')
  <2>1. /\ pc[a] # "over" /\ pc'[a] # "idle"
        /\ a \in Counted => pc'[a] \notin {"idle", "check"}
        /\ \A b \in Attempt \ {a} : pc'[b] = pc[b]
    BY <1>1, MovesOn
  <2>2. Begun' = Begun \cup {a} /\ Counted \subseteq Counted'
    BY <2>1 DEF Begun, Counted
  <2>3. IsFiniteSet(Begun) => IsFiniteSet(Begun')
    BY <2>2, FS_AddElement
  <2> QED
    BY <2>1, <2>2, <2>3
<1>2. ASSUME NEW r \in Replica, Restart(r)
      PROVE  /\ Begun' = Begun /\ Counted \subseteq Counted'
             /\ \A b \in Attempt : pc[b] = "over" => pc'[b] = "over"
  BY <1>2 DEF Restart, InFlight, Begun, Counted, TypeOK
<1>3. CASE Tick \/ Finished
  BY <1>3 DEF Tick, Finished, vars, Begun, Counted
<1> QED
  BY <1>1, <1>2, <1>3 DEF Next
-----------------------------------------------------------------------------
(* The sliding windows.                                                    *)

LEMMA Fewer ==
  ASSUME NEW S, IsFiniteSet(S), NEW T \in SUBSET S, NEW n \in Nat, Cardinality(S) <= n
  PROVE  IsFiniteSet(T) /\ Cardinality(T) <= n
<1>1. IsFiniteSet(T) /\ Cardinality(T) <= Cardinality(S)
  BY FS_Subset
<1>2. Cardinality(T) \in Nat /\ Cardinality(S) \in Nat
  BY <1>1, FS_CardinalityType
<1> QED
  BY <1>1, <1>2

\* A step of a sliding window keeps its limit, and all it still counts.
LEMMA SlideBounds ==
  ASSUME TypeOK, IsFiniteSet(Begun), NEW a \in Attempt, NEW k \in Source \cup Key,
         NEW window \in Nat, NEW age \in [Attempt -> 0..Old(window)], NEW limit \in Nat,
         NEW from, NEW to, to # "over", Slide(a, k, age, window, limit, from, to),
         bucket[home[a]][k] \subseteq Begun,
         NEW S \in SUBSET Attempt, {b \in S : age[b] <= window} \subseteq bucket[home[a]][k],
         Recent(S, age, window) <= limit
  PROVE  /\ Recent(S, Stamped(age, a, to), window) <= limit
         /\ {b \in S : Stamped(age, a, to)[b] <= window} \subseteq bucket'[home[a]][k]
<1> DEFINE kept == Kept(home[a], k, age, window)
           young == {b \in S : age[b] <= window}
           next == {b \in S : Stamped(age, a, to)[b] <= window}
<1>1. bucket \in [Replica -> [Source \cup Key -> SUBSET Attempt]] /\ home[a] \in Replica
  BY Belongs DEF TypeOK
<1>2. IsFiniteSet(kept) /\ kept \subseteq Begun
  BY FS_Subset DEF Kept
<1>3. young \subseteq kept /\ IsFiniteSet(young)
  BY <1>2, FS_Subset DEF Kept
<1>4. CASE Cardinality(kept) >= limit
  <2>1. pc'[a] = "over" /\ bucket' = [bucket EXCEPT ![home[a]][k] = kept]
    BY <1>4 DEF Slide, GoTo, TypeOK
  <2>2. Stamped(age, a, to) = age
    BY <2>1 DEF Stamped
  <2>3. bucket'[home[a]][k] = kept
    BY <1>1, <2>1
  <2> QED
    BY <1>3, <2>2, <2>3
<1>5. CASE ~(Cardinality(kept) >= limit)
  <2>1. bucket' = [bucket EXCEPT ![home[a]][k] = kept \cup {a}]
    BY <1>5 DEF Slide
  <2>2. bucket'[home[a]][k] = kept \cup {a}
    BY <1>1, <2>1
  <2>3. next \subseteq young \cup {a}
    BY DEF Stamped
  <2>4. next \subseteq kept \cup {a}
    BY <1>3, <2>3
  <2>5. IsFiniteSet(kept \cup {a}) /\ Cardinality(kept \cup {a}) <= limit
    <3>1. Cardinality(kept) \in Nat
      BY <1>2, FS_CardinalityType
    <3>2. Cardinality(kept \cup {a}) = Cardinality(kept) \/ Cardinality(kept \cup {a}) = Cardinality(kept) + 1
      BY <1>2, FS_AddElement
    <3> QED
      BY <1>2, <1>5, <3>1, <3>2, FS_AddElement
  <2>6. Cardinality(next) <= limit
    <3> HIDE DEF next, kept
    <3> QED
      BY <2>4, <2>5, Fewer
  <2> QED
    BY <2>2, <2>4, <2>6 DEF Recent
<1> QED
  BY <1>4, <1>5

\* What a step of a sliding window does not touch.
LEMMA SlideFrame ==
  ASSUME TypeOK, NEW a \in Attempt, NEW k \in Source \cup Key, NEW age, NEW window, NEW limit,
         NEW from, NEW to, Slide(a, k, age, window, limit, from, to)
  PROVE  /\ pc[a] = from
         /\ bucket'[home[a]][k] \subseteq bucket[home[a]][k] \cup {a}
         /\ \A r \in Replica, q \in Source \cup Key :
               r # home[a] \/ q # k => bucket'[r][q] = bucket[r][q]
<1>1. bucket \in [Replica -> [Source \cup Key -> SUBSET Attempt]] /\ home[a] \in Replica
  BY Belongs DEF TypeOK
<1>2. PICK B : /\ B \subseteq bucket[home[a]][k] \cup {a}
               /\ bucket' = [bucket EXCEPT ![home[a]][k] = B]
  <2>1. Kept(home[a], k, age, window) \subseteq bucket[home[a]][k]
    BY DEF Kept
  <2>2. CASE Cardinality(Kept(home[a], k, age, window)) >= limit
    BY <2>1, <2>2 DEF Slide
  <2>3. CASE ~(Cardinality(Kept(home[a], k, age, window)) >= limit)
    BY <2>1, <2>3 DEF Slide
  <2> QED
    BY <2>2, <2>3
<1>3. pc[a] = from
  BY DEF Slide, GoTo
<1> QED
  BY <1>1, <1>2, <1>3

LEMMA RecentFinite ==
  ASSUME TypeOK, IsFiniteSet(Begun), Windows
  PROVE  /\ \A r, h : IsFiniteSet({a \in FromHost(r, h) : passed[a] <= RequestWindow})
         /\ \A r, k : IsFiniteSet({a \in WithKey(r, k) : admitted[a] <= Window})
         /\ \A k : IsFiniteSet(Young(k)) /\ Young(k) \subseteq Counted
         /\ Counted \subseteq Begun
<1>1. Counted \subseteq Begun
  BY DEF Counted, Begun
<1>2. \A a \in Attempt : (passed[a] <= RequestWindow => a \in Begun) /\ (admitted[a] <= Window => a \in Counted)
  BY Settings DEF Windows, NotYet, Old
<1>3. \A a \in Attempt : admitted[a] \in Nat
  BY Settings DEF TypeOK, Old
<1>4. \A r, h : {a \in FromHost(r, h) : passed[a] <= RequestWindow} \in SUBSET Begun
  BY <1>2 DEF FromHost
<1>5. \A r, k : {a \in WithKey(r, k) : admitted[a] <= Window} \in SUBSET Begun
  BY <1>1, <1>2 DEF WithKey
<1>6. \A k : Young(k) \subseteq Counted
  BY <1>2, <1>3, Settings DEF Young
<1>7. \A T \in SUBSET Begun : IsFiniteSet(T)
  BY FS_Subset
<1>8. \A k : IsFiniteSet(Young(k))
  BY <1>1, <1>6, <1>7
<1> QED
  BY <1>1, <1>4, <1>5, <1>6, <1>7, <1>8

LEMMA RedisStays ==
  ASSUME RedisWindow, UNCHANGED <<given, counters, admitted>>, Counted \subseteq Counted'
  PROVE  RedisWindow'
<1>1. /\ hits' = hits /\ hitsLeft' = hitsLeft /\ admitted' = admitted /\ key' = key
      /\ InMemory' = InMemory
  BY DEF given, counters, InMemory
<1>2. \A k \in Key : Young(k)' = Young(k)
  BY <1>1 DEF Young
<1>3. \A k \in Key : \A T, f : OpenWindow(k, T, f) => OpenWindow(k, T, f)'
  BY <1>1, <1>2 DEF OpenWindow
<1>4. \A k \in Key, T \in SUBSET Counted : T \in SUBSET Counted'
  OBVIOUS
<1> QED
  BY <1>1, <1>2, <1>3, <1>4 DEF RedisWindow

LEMMA WindowsStay ==
  ASSUME TypeOK, Next, Windows, UNCHANGED <<bucket, counters, passed, admitted, forgotten>>
  PROVE  Windows'
<1>1. UNCHANGED given /\ Begun \subseteq Begun' /\ Counted \subseteq Counted'
  BY GivenStays, Onward
<1>2. RedisWindow'
  BY <1>1, RedisStays DEF Windows
<1>3. NotYet' /\ Tracked'
  BY <1>1 DEF Windows, NotYet, Tracked, given, host, InMemory
<1>4. MemoryWindows'
  BY <1>1 DEF Windows, MemoryWindows, given, InMemory, FromHost, WithKey, host, Recent
<1> QED
  BY <1>2, <1>3, <1>4 DEF Windows

LEMMA DispatchWindows ==
  ASSUME TypeOK, IsFiniteSet(Begun), Windows, NEW a \in Attempt, Dispatch(a)
  PROVE  Windows'
<1>1. /\ Slide(a, host(a), passed, RequestWindow, RequestLimit, "idle", "check")
      /\ passed' = Stamped(passed, a, "check")
      /\ UNCHANGED <<given, counters, admitted, forgotten>>
  BY DEF Dispatch
<1>2. Next
  BY DEF Next, Serve
<1>3. /\ UNCHANGED <<home, key, forgotten>> /\ (InMemory <=> InMemory') /\ UNCHANGED admitted
      /\ Begun \subseteq Begun' /\ Counted \subseteq Counted'
  BY <1>1, <1>2, Onward DEF given, InMemory
<1>4. /\ home[a] \in Replica /\ host(a) \in Source \cup Key
      /\ \A b \in Attempt : host(b) \in Source /\ key[b] \in Key /\ home[b] \in Replica /\ key[b] # host(a)
  BY Belongs
<1>5. /\ pc[a] = "idle"
      /\ bucket'[home[a]][host(a)] \subseteq bucket[home[a]][host(a)] \cup {a}
      /\ \A r \in Replica, q \in Source \cup Key :
            r # home[a] \/ q # host(a) => bucket'[r][q] = bucket[r][q]
  BY <1>1, <1>4, SlideFrame
<1>6. a \in Begun'
  <2>1. pc'[a] # "idle"
    BY MovesOn DEF Serve
  <2> QED
    BY <2>1 DEF Begun
<1>7. passed[a] = Old(RequestWindow) /\ \A b \in Attempt \ {a} : passed'[b] = passed[b]
  BY <1>1, <1>5 DEF Windows, NotYet, Begun, Stamped, TypeOK
<1>8. NotYet'
  <2>1. \A b \in Attempt : b \notin Begun' => passed'[b] = Old(RequestWindow)
    BY <1>3, <1>6, <1>7 DEF Windows, NotYet
  <2>2. \A b \in Attempt : b \notin Counted' => admitted'[b] = Old(Window)
    BY <1>3 DEF Windows, NotYet
  <2> QED
    BY <2>1, <2>2 DEF NotYet
<1>9. \A h \in Source :
        /\ {b \in FromHost(home[a], h) : passed[b] <= RequestWindow} \subseteq bucket[home[a]][h]
        /\ bucket[home[a]][h] \subseteq Begun
  BY <1>4 DEF Windows, Tracked, FromHost
<1>10. /\ Recent(FromHost(home[a], host(a)), passed', RequestWindow) <= RequestLimit
       /\ {b \in FromHost(home[a], host(a)) : passed'[b] <= RequestWindow} \subseteq bucket'[home[a]][host(a)]
  <2>1. /\ Recent(FromHost(home[a], host(a)), passed, RequestWindow) <= RequestLimit
        /\ FromHost(home[a], host(a)) \in SUBSET Attempt
        /\ passed \in [Attempt -> 0..Old(RequestWindow)] /\ host(a) \in Source
    BY <1>4 DEF Windows, MemoryWindows, FromHost, TypeOK
  <2> QED
    BY <1>1, <1>4, <1>7, <1>9, <2>1, Settings, SlideBounds
<1>11. Tracked'
  <2>1. \A r \in Replica, k \in Source \cup Key : bucket'[r][k] \subseteq Begun'
    BY <1>3, <1>4, <1>5, <1>6 DEF Windows, Tracked
  <2>2. ASSUME NEW b \in Attempt \ forgotten, passed'[b] <= RequestWindow PROVE b \in bucket'[home[b]][host(b)]
    <3>1. CASE home[b] = home[a] /\ host(b) = host(a)
      BY <1>10, <2>2, <3>1 DEF FromHost
    <3>2. CASE ~(home[b] = home[a] /\ host(b) = host(a))
      <4>1. b # a /\ bucket'[home[b]][host(b)] = bucket[home[b]][host(b)]
        BY <1>4, <1>5, <3>2
      <4> QED
        BY <1>7, <2>2, <4>1 DEF Windows, Tracked
    <3> QED
      BY <3>1, <3>2
  <2>3. ASSUME NEW b \in Attempt \ forgotten, InMemory, admitted[b] <= Window PROVE b \in bucket'[home[b]][key[b]]
    <3>1. bucket'[home[b]][key[b]] = bucket[home[b]][key[b]]
      BY <1>4, <1>5
    <3> QED
      BY <2>3, <3>1 DEF Windows, Tracked
  <2>4. \A b \in Attempt : host(b)' = host(b)
    BY <1>3 DEF host
  <2> QED
    BY <1>3, <2>1, <2>2, <2>3, <2>4 DEF Tracked
<1>12. MemoryWindows'
  <2>1. \A r, h : FromHost(r, h)' = FromHost(r, h)
    BY <1>3 DEF FromHost, host
  <2>2. \A r, k : WithKey(r, k)' = WithKey(r, k)
    BY <1>3 DEF WithKey
  <2>3. ASSUME NEW r \in Replica, NEW h \in Source
        PROVE  Recent(FromHost(r, h), passed', RequestWindow) <= RequestLimit
    <3>1. CASE r = home[a] /\ h = host(a)
      BY <1>10, <3>1
    <3>2. CASE ~(r = home[a] /\ h = host(a))
      <4>1. {b \in FromHost(r, h) : passed'[b] <= RequestWindow} = {b \in FromHost(r, h) : passed[b] <= RequestWindow}
        BY <1>7, <3>2 DEF FromHost
      <4> QED
        BY <4>1 DEF Windows, MemoryWindows, Recent
    <3> QED
      BY <3>1, <3>2
  <2>5. \A r \in Replica, h \in Source : Recent(FromHost(r, h), passed, RequestWindow)' <= RequestLimit
    BY <2>1, <2>3 DEF Recent
  <2>6. \A r \in Replica, k \in Key : InMemory' => Recent(WithKey(r, k), admitted, Window)' <= Limit
    BY <1>3, <2>2 DEF Windows, MemoryWindows, Recent
  <2> QED
    BY <2>5, <2>6 DEF MemoryWindows
<1>13. RedisWindow'
  BY <1>1, <1>3, RedisStays DEF Windows
<1> QED
  BY <1>8, <1>11, <1>12, <1>13 DEF Windows

LEMMA CheckMemoryWindows ==
  ASSUME TypeOK, IsFiniteSet(Begun), Windows, NEW a \in Attempt, CheckMemory(a)
  PROVE  Windows'
<1>1. /\ Slide(a, key[a], admitted, Window, Limit, "check", "assert")
      /\ admitted' = Stamped(admitted, a, "assert")
      /\ InMemory /\ UNCHANGED <<given, counters, passed, forgotten>>
  BY DEF CheckMemory
<1>2. Next
  BY DEF Next, Serve
<1>3. /\ UNCHANGED <<home, key, forgotten>> /\ InMemory' /\ UNCHANGED passed
      /\ Begun \subseteq Begun' /\ Counted \subseteq Counted'
  BY <1>1, <1>2, Onward DEF given, InMemory
<1>4. /\ home[a] \in Replica /\ key[a] \in Source \cup Key
      /\ \A b \in Attempt : host(b) \in Source /\ key[b] \in Key /\ home[b] \in Replica /\ host(b) # key[a]
  BY Belongs
<1>5. /\ pc[a] = "check"
      /\ bucket'[home[a]][key[a]] \subseteq bucket[home[a]][key[a]] \cup {a}
      /\ \A r \in Replica, q \in Source \cup Key :
            r # home[a] \/ q # key[a] => bucket'[r][q] = bucket[r][q]
  BY <1>1, <1>4, SlideFrame
<1>6. a \in Begun' /\ a \in Counted'
  <2>1. pc'[a] \in {"over", "assert"}
    BY <1>1 DEF Slide, GoTo, TypeOK
  <2> QED
    BY <2>1 DEF Begun, Counted
<1>7. admitted[a] = Old(Window) /\ \A b \in Attempt \ {a} : admitted'[b] = admitted[b]
  BY <1>1, <1>5 DEF Windows, NotYet, Counted, Stamped, TypeOK
<1>8. NotYet'
  <2>1. \A b \in Attempt : b \notin Begun' => passed'[b] = Old(RequestWindow)
    BY <1>3 DEF Windows, NotYet
  <2>2. \A b \in Attempt : b \notin Counted' => admitted'[b] = Old(Window)
    BY <1>3, <1>6, <1>7 DEF Windows, NotYet
  <2> QED
    BY <2>1, <2>2 DEF NotYet
<1>9. \A k \in Key :
        /\ {b \in WithKey(home[a], k) : admitted[b] <= Window} \subseteq bucket[home[a]][k]
        /\ bucket[home[a]][k] \subseteq Begun
  BY <1>1, <1>4 DEF Windows, Tracked, WithKey
<1>10. /\ Recent(WithKey(home[a], key[a]), admitted', Window) <= Limit
       /\ {b \in WithKey(home[a], key[a]) : admitted'[b] <= Window} \subseteq bucket'[home[a]][key[a]]
  <2>1. /\ Recent(WithKey(home[a], key[a]), admitted, Window) <= Limit
        /\ WithKey(home[a], key[a]) \in SUBSET Attempt
        /\ admitted \in [Attempt -> 0..Old(Window)]
    BY <1>1, <1>4 DEF Windows, MemoryWindows, WithKey, TypeOK
  <2>2. /\ bucket[home[a]][key[a]] \subseteq Begun
        /\ {b \in WithKey(home[a], key[a]) : admitted[b] <= Window} \subseteq bucket[home[a]][key[a]]
        /\ Window \in Nat /\ Limit \in Nat
    BY <1>4, <1>9, Settings
  <2>3. admitted' = Stamped(admitted, a, "assert") /\ key[a] \in Source \cup Key
    BY <1>1, <1>4
  <2>4. /\ Recent(WithKey(home[a], key[a]), Stamped(admitted, a, "assert"), Window) <= Limit
        /\ {b \in WithKey(home[a], key[a]) : Stamped(admitted, a, "assert")[b] <= Window} \subseteq bucket'[home[a]][key[a]]
    BY <1>1, <2>1, <2>2, <2>3, SlideBounds
  <2> QED
    BY <2>3, <2>4
<1>11. Tracked'
  <2>1. \A r \in Replica, k \in Source \cup Key : bucket'[r][k] \subseteq Begun'
    BY <1>3, <1>4, <1>5, <1>6 DEF Windows, Tracked
  <2>2. ASSUME NEW b \in Attempt \ forgotten, admitted'[b] <= Window PROVE b \in bucket'[home[b]][key[b]]
    <3>1. CASE home[b] = home[a] /\ key[b] = key[a]
      BY <1>10, <2>2, <3>1 DEF WithKey
    <3>2. CASE ~(home[b] = home[a] /\ key[b] = key[a])
      <4>1. b # a /\ bucket'[home[b]][key[b]] = bucket[home[b]][key[b]]
        BY <1>4, <1>5, <3>2
      <4> QED
        BY <1>1, <1>7, <2>2, <4>1 DEF Windows, Tracked
    <3> QED
      BY <3>1, <3>2
  <2>3. ASSUME NEW b \in Attempt \ forgotten, passed[b] <= RequestWindow PROVE b \in bucket'[home[b]][host(b)]
    <3>1. bucket'[home[b]][host(b)] = bucket[home[b]][host(b)]
      BY <1>4, <1>5
    <3> QED
      BY <2>3, <3>1 DEF Windows, Tracked
  <2>4. \A b \in Attempt : host(b)' = host(b)
    BY <1>3 DEF host
  <2> QED
    BY <1>3, <2>1, <2>2, <2>3, <2>4 DEF Tracked
<1>12. MemoryWindows'
  <2>1. \A r, h : FromHost(r, h)' = FromHost(r, h)
    BY <1>3 DEF FromHost, host
  <2>2. \A r, k : WithKey(r, k)' = WithKey(r, k)
    BY <1>3 DEF WithKey
  <2>3. ASSUME NEW r \in Replica, NEW k \in Key
        PROVE  Recent(WithKey(r, k), admitted', Window) <= Limit
    <3>1. CASE r = home[a] /\ k = key[a]
      BY <1>10, <3>1
    <3>2. CASE ~(r = home[a] /\ k = key[a])
      <4>1. {b \in WithKey(r, k) : admitted'[b] <= Window} = {b \in WithKey(r, k) : admitted[b] <= Window}
        BY <1>7, <3>2 DEF WithKey
      <4> QED
        BY <1>1, <4>1 DEF Windows, MemoryWindows, Recent
    <3> QED
      BY <3>1, <3>2
  <2>4. \A r \in Replica, k \in Key : Recent(WithKey(r, k), admitted, Window)' <= Limit
    BY <2>2, <2>3 DEF Recent
  <2>5. \A r \in Replica, h \in Source : Recent(FromHost(r, h), passed, RequestWindow)' <= RequestLimit
    BY <1>3, <2>1 DEF Windows, MemoryWindows, Recent
  <2> QED
    BY <2>4, <2>5 DEF MemoryWindows
<1>13. RedisWindow'
  BY <1>1, <1>3 DEF Windows, RedisWindow, counters
<1> QED
  BY <1>8, <1>11, <1>12, <1>13 DEF Windows

LEMMA RestartWindows ==
  ASSUME TypeOK, IsFiniteSet(Begun), Windows, NEW r \in Replica, Restart(r)
  PROVE  Windows'
<1>1. /\ UNCHANGED <<given, home, key, passed, admitted>> /\ (InMemory <=> InMemory') /\ UNCHANGED counters
      /\ Begun \subseteq Begun' /\ Counted \subseteq Counted'
  BY Onward DEF Next, Restart, given, InMemory
<1>2. /\ forgotten \subseteq forgotten'
      /\ \A b \in Attempt \ forgotten' : home[b] = r => b \notin Begun
  BY DEF Restart, Begun
<1>3. /\ \A q \in Source \cup Key : bucket'[r][q] = {}
      /\ \A s \in Replica \ {r} : bucket'[s] = bucket[s]
  BY DEF Restart, TypeOK
<1>4. NotYet'
  BY <1>1 DEF Windows, NotYet
<1>5. \A b \in Attempt : /\ passed[b] <= RequestWindow => b \in Begun
                         /\ admitted[b] <= Window => b \in Begun
  BY RecentFinite, Settings DEF Windows, NotYet, Old
<1>6. \A b \in Attempt : host(b) \in Source \cup Key /\ key[b] \in Source \cup Key /\ home[b] \in Replica
  BY Belongs
<1>7. \A b \in Attempt : host(b)' = host(b)
  BY <1>1 DEF host
<1>8. Tracked'
  <2>1. \A s \in Replica, k \in Source \cup Key : bucket'[s][k] \subseteq Begun'
    BY <1>1, <1>3 DEF Windows, Tracked
  <2>2. \A b \in Attempt \ forgotten' : passed[b] <= RequestWindow => b \in bucket'[home[b]][host(b)]
    BY <1>2, <1>3, <1>5, <1>6 DEF Windows, Tracked
  <2>3. \A b \in Attempt \ forgotten' : InMemory /\ admitted[b] <= Window => b \in bucket'[home[b]][key[b]]
    BY <1>2, <1>3, <1>5, <1>6 DEF Windows, Tracked
  <2> QED
    BY <1>1, <1>7, <2>1, <2>2, <2>3 DEF Tracked
<1>9. MemoryWindows'
  <2>1. \A s, h : FromHost(s, h)' \subseteq FromHost(s, h)
    BY <1>1, <1>2, <1>7 DEF FromHost
  <2>2. \A s, k : WithKey(s, k)' \subseteq WithKey(s, k)
    BY <1>1, <1>2 DEF WithKey
  <2>3. ASSUME NEW s \in Replica, NEW h \in Source
        PROVE  Recent(FromHost(s, h), passed, RequestWindow)' <= RequestLimit
    <3>1. {b \in FromHost(s, h)' : passed[b] <= RequestWindow} \subseteq {b \in FromHost(s, h) : passed[b] <= RequestWindow}
      BY <2>1
    <3>2. Cardinality({b \in FromHost(s, h) : passed[b] <= RequestWindow}) <= RequestLimit
      BY DEF Windows, MemoryWindows, Recent
    <3>3. Cardinality({b \in FromHost(s, h)' : passed[b] <= RequestWindow}) <= RequestLimit
      BY <3>1, <3>2, RecentFinite, Settings, Fewer
    <3> QED
      BY <1>1, <3>3 DEF Recent
  <2>4. ASSUME NEW s \in Replica, NEW k \in Key, InMemory
        PROVE  Recent(WithKey(s, k), admitted, Window)' <= Limit
    <3>1. {b \in WithKey(s, k)' : admitted[b] <= Window} \subseteq {b \in WithKey(s, k) : admitted[b] <= Window}
      BY <2>2
    <3>2. Cardinality({b \in WithKey(s, k) : admitted[b] <= Window}) <= Limit
      BY <2>4 DEF Windows, MemoryWindows, Recent
    <3>3. Cardinality({b \in WithKey(s, k)' : admitted[b] <= Window}) <= Limit
      BY <3>1, <3>2, RecentFinite, Settings, Fewer
    <3> QED
      BY <1>1, <3>3 DEF Recent
  <2> QED
    BY <1>1, <2>3, <2>4 DEF MemoryWindows
<1>10. RedisWindow'
  BY <1>1, RedisStays DEF Windows
<1> QED
  BY <1>4, <1>8, <1>9, <1>10 DEF Windows
-----------------------------------------------------------------------------
(* The window in Redis.                                                    *)

LEMMA ExpireWindows ==
  ASSUME TypeOK, IsFiniteSet(Begun), Windows, NEW a \in Attempt, Expire(a)
  PROVE  Windows'
<1>1. /\ UNCHANGED <<home, key>> /\ (InMemory <=> InMemory')
      /\ UNCHANGED <<bucket, passed, admitted, forgotten, hits>>
      /\ Begun \subseteq Begun' /\ Counted \subseteq Counted'
  BY Onward DEF Next, Serve, Expire, given, InMemory
<1>2. NotYet' /\ Tracked'
  BY <1>1 DEF Windows, NotYet, Tracked, host
<1>3. MemoryWindows'
  BY <1>1 DEF Windows, MemoryWindows, FromHost, WithKey, host, Recent
<1>4. \A k \in Key : Young(k)' = Young(k)
  BY <1>1 DEF Young
<1>5. /\ \A k \in Key : hits[k] = 0 /\ hitsLeft[k] = None => hitsLeft'[k] = None
      /\ \A k \in Key : hitsLeft'[k] = hitsLeft[k] \/ hitsLeft'[k] = None \/ hitsLeft'[k] = Window
  BY DEF Expire, TypeOK
<1>6. ASSUME NEW k \in Key, NEW T \in SUBSET Counted, NEW f \in T, OpenWindow(k, T, f)
      PROVE  OpenWindow(k, T, f)'
  <2>1. admitted[f] \in Nat
    BY Settings DEF Counted, TypeOK, Old
  <2>2. hitsLeft'[k] # None => admitted[f] + hitsLeft'[k] >= Window
    BY <1>5, <1>6, <2>1, Settings DEF OpenWindow
  <2> QED
    BY <1>1, <1>4, <1>6, <2>2 DEF OpenWindow
<1>7. RedisWindow'
  <2> SUFFICES ASSUME NEW k \in Key
               PROVE  IF hits'[k] = 0
                      THEN hitsLeft'[k] = None /\ (~InMemory' => Cardinality(Young(k)') <= Limit - 1)
                      ELSE ~InMemory' => \E T \in SUBSET (Counted') : \E f \in T : OpenWindow(k, T, f)'
    BY DEF RedisWindow
  <2>1. CASE hits[k] = 0
    BY <1>1, <1>4, <1>5, <2>1 DEF Windows, RedisWindow
  <2>2. CASE hits[k] # 0 /\ ~InMemory
    <3>1. PICK T \in SUBSET Counted : \E f \in T : OpenWindow(k, T, f)
      BY <2>2 DEF Windows, RedisWindow
    <3> QED
      BY <1>1, <1>6, <2>2, <3>1
  <2>3. CASE hits[k] # 0 /\ InMemory
    BY <1>1, <2>3
  <2> QED
    BY <2>1, <2>2, <2>3
<1> QED
  BY <1>2, <1>3, <1>7 DEF Windows

LEMMA IncrWindows ==
  ASSUME TypeOK, IsFiniteSet(Begun), Windows, NEW a \in Attempt, Incr(a)
  PROVE  Windows'
<1>1. /\ UNCHANGED <<home, key>> /\ ~InMemory /\ ~InMemory'
      /\ UNCHANGED <<bucket, passed, forgotten, hitsLeft>>
      /\ Begun \subseteq Begun' /\ Counted \subseteq Counted'
      /\ hits' = [hits EXCEPT ![key[a]] = hits[key[a]] + 1]
      /\ admitted' = [admitted EXCEPT ![a] = IF hits[key[a]] + 1 <= Limit THEN 0 ELSE admitted[a]]
  BY Onward DEF Next, Serve, Incr, given, InMemory
<1>2. /\ key[a] \in Key /\ hits \in [Key -> Nat] /\ admitted \in [Attempt -> 0..Old(Window)]
      /\ a \in Counted' /\ a \notin Counted
  <2>1. pc[a] = "check" /\ pc'[a] \in {"expire", "over", "assert"}
    BY DEF Incr, GoTo, TypeOK
  <2> QED
    BY <2>1, Belongs DEF TypeOK, Counted
<1>3. /\ hits'[key[a]] = hits[key[a]] + 1
      /\ \A k \in Key \ {key[a]} : hits'[k] = hits[k]
      /\ \A b \in Attempt \ {a} : admitted'[b] = admitted[b]
      /\ hits[key[a]] + 1 <= Limit => admitted'[a] = 0
      /\ hits[key[a]] + 1 > Limit => admitted'[a] = admitted[a]
      /\ hits[key[a]] \in Nat
  BY <1>1, <1>2, Settings
<1>4. NotYet'
  BY <1>1, <1>2, <1>3 DEF Windows, NotYet
<1>5. Tracked'
  BY <1>1 DEF Windows, Tracked, host
<1>6. MemoryWindows'
  BY <1>1 DEF Windows, MemoryWindows, FromHost, host, Recent
<1>7. \A k \in Key \ {key[a]} : Young(k)' = Young(k)
  BY <1>1, <1>3 DEF Young
<1>8. Young(key[a])' \subseteq Young(key[a]) \cup {a}
  BY <1>1, <1>3 DEF Young
<1>9. IsFiniteSet(Young(key[a])) /\ Young(key[a]) \subseteq Counted /\ Counted \subseteq Begun
  BY RecentFinite
<1>10. ASSUME NEW T \in SUBSET (Counted'), IsFiniteSet(T), NEW f \in T,
              Cardinality(T) <= hits'[key[a]], Cardinality(T) <= Limit,
              Cardinality(Young(key[a]) \ T) <= Limit - 1,
              Young(key[a])' \ T \subseteq Young(key[a]) \ T,
              hitsLeft[key[a]] # None => admitted'[f] + hitsLeft[key[a]] >= Window,
              \A b \in Young(key[a])' \ T : admitted'[b] >= admitted'[f]
       PROVE  OpenWindow(key[a], T, f)'
  <2>1. IsFiniteSet(Young(key[a]) \ T)
    BY <1>9, FS_Subset
  <2>2. Limit - 1 \in Nat
    BY Settings
  <2>3. Cardinality(Young(key[a])' \ T) <= Limit - 1
    BY <1>10, <2>1, <2>2, Fewer
  <2>4. OpenWindow(key[a], T, f)' <=>
           /\ Cardinality(T) <= hits'[key[a]]
           /\ Cardinality(T) <= Limit
           /\ Cardinality(Young(key[a])' \ T) <= Limit - 1
           /\ hitsLeft'[key[a]] # None => admitted'[f] + hitsLeft'[key[a]] >= Window
           /\ \A b \in Young(key[a])' \ T : admitted'[b] >= admitted'[f]
    BY <1>1 DEF OpenWindow, Young
  <2> QED
    BY <1>1, <1>10, <2>3, <2>4
<1>11. \E T \in SUBSET (Counted') : \E f \in T : OpenWindow(key[a], T, f)'
  <2>1. CASE hits[key[a]] = 0
    <3>1. hits'[key[a]] = 1 /\ admitted'[a] = 0
      BY <1>3, <2>1, Settings
    <3>2. hitsLeft[key[a]] = None /\ Cardinality(Young(key[a])) <= Limit - 1
      BY <1>1, <1>2, <2>1 DEF Windows, RedisWindow
    <3>3. IsFiniteSet({a}) /\ Cardinality({a}) = 1
      BY FS_Singleton
    <3>4. Cardinality(Young(key[a]) \ {a}) <= Limit - 1
      BY <1>9, <3>2, Settings, Fewer
    <3>5. \A b \in Young(key[a])' \ {a} : admitted'[b] >= admitted'[a]
      BY <1>1, <1>2, <1>3, <3>1, Settings DEF Young, Old
    <3>6. OpenWindow(key[a], {a}, a)'
      BY <1>2, <1>8, <1>10, <3>1, <3>2, <3>3, <3>4, <3>5, Settings
    <3> QED
      BY <1>2, <3>6
  <2>2. CASE hits[key[a]] # 0
    <3>1. PICK T \in SUBSET Counted : \E f \in T : OpenWindow(key[a], T, f)
      BY <1>1, <1>2, <2>2 DEF Windows, RedisWindow
    <3>2. PICK f \in T : OpenWindow(key[a], T, f)
      BY <3>1
    <3>3. IsFiniteSet(T) /\ a \notin T /\ f # a
      BY <1>2, <1>9, FS_Subset
    <3>4. /\ Cardinality(T) <= hits[key[a]] /\ Cardinality(T) <= Limit
          /\ Cardinality(Young(key[a]) \ T) <= Limit - 1
          /\ hitsLeft[key[a]] # None => admitted'[f] + hitsLeft[key[a]] >= Window
          /\ \A b \in Young(key[a]) \ T : b # a => admitted'[b] >= admitted'[f]
      <4>1. admitted'[f] = admitted[f] /\ \A b \in Young(key[a]) : b # a => admitted'[b] = admitted[b]
        BY <1>3, <3>3 DEF Counted, Young
      <4> QED
        BY <3>2, <4>1 DEF OpenWindow
    <3>5. CASE hits[key[a]] + 1 <= Limit
      <4> DEFINE U == T \cup {a}
      <4>1. IsFiniteSet(U) /\ Cardinality(U) = Cardinality(T) + 1
        BY <3>3, FS_AddElement
      <4>2. Cardinality(T) \in Nat
        BY <3>3, FS_CardinalityType
      <4>3. Cardinality(U) <= hits'[key[a]] /\ Cardinality(U) <= Limit
        BY <1>3, <3>4, <3>5, <4>1, <4>2, Settings
      <4>4. /\ IsFiniteSet(Young(key[a]) \ T)
            /\ Young(key[a]) \ U \subseteq Young(key[a]) \ T
            /\ Young(key[a])' \ U \subseteq Young(key[a]) \ U
        BY <1>8, <1>9, FS_Subset
      <4>5. Cardinality(Young(key[a]) \ U) <= Limit - 1
        <5> HIDE DEF U
        <5> QED
          BY <3>4, <4>4, Settings, Fewer
      <4>6. \A b \in Young(key[a])' \ U : admitted'[b] >= admitted'[f]
        BY <3>4, <4>4
      <4>7. U \in SUBSET (Counted') /\ f \in U
        BY <1>1, <1>2
      <4>8. OpenWindow(key[a], U, f)'
        <5> HIDE DEF U
        <5> QED
          BY <1>10, <3>4, <4>1, <4>3, <4>4, <4>5, <4>6, <4>7
      <4> QED
        BY <4>7, <4>8
    <3>6. CASE ~(hits[key[a]] + 1 <= Limit)
      <4>1. admitted'[a] = admitted[a] /\ admitted[a] = Old(Window)
        BY <1>2, <1>3, <3>6, Settings DEF Windows, NotYet
      <4>2. a \notin Young(key[a])'
        BY <1>1, <4>1, Settings DEF Young, Old
      <4>3. Young(key[a])' \ T \subseteq Young(key[a]) \ T
        BY <1>8, <4>2
      <4>4. Cardinality(T) <= hits'[key[a]]
        <5>1. Cardinality(T) \in Nat
          BY <3>3, FS_CardinalityType
        <5> QED
          BY <1>3, <3>4, <5>1
      <4>5. \A b \in Young(key[a])' \ T : admitted'[b] >= admitted'[f]
        BY <3>4, <4>2, <4>3
      <4>6. T \in SUBSET (Counted')
        BY <1>1
      <4>7. OpenWindow(key[a], T, f)'
        BY <1>10, <3>3, <3>4, <4>3, <4>4, <4>5, <4>6
      <4> QED
        BY <4>6, <4>7
    <3> QED
      BY <3>5, <3>6
  <2> QED
    BY <2>1, <2>2
<1>12. RedisWindow'
  <2> SUFFICES ASSUME NEW k \in Key
               PROVE  IF hits'[k] = 0
                      THEN hitsLeft'[k] = None /\ (~InMemory' => Cardinality(Young(k)') <= Limit - 1)
                      ELSE ~InMemory' => \E T \in SUBSET (Counted') : \E f \in T : OpenWindow(k, T, f)'
    BY DEF RedisWindow
  <2>1. CASE k = key[a]
    <3>1. PICK T \in SUBSET (Counted') : \E f \in T : OpenWindow(key[a], T, f)'
      BY <1>11
    <3>2. PICK f \in T : OpenWindow(key[a], T, f)'
      BY <3>1
    <3>3. OpenWindow(k, T, f)'
      BY <1>1, <2>1, <3>2 DEF OpenWindow, Young
    <3>4. hits'[k] # 0
      BY <1>3, <2>1
    <3> QED
      BY <3>1, <3>3, <3>4
  <2>2. CASE k # key[a] /\ hits[k] = 0
    BY <1>1, <1>3, <1>7, <2>2 DEF Windows, RedisWindow
  <2>3. CASE k # key[a] /\ hits[k] # 0
    <3>1. PICK T \in SUBSET Counted : \E f \in T : OpenWindow(k, T, f)
      BY <1>1, <2>3 DEF Windows, RedisWindow
    <3>2. PICK f \in T : OpenWindow(k, T, f)
      BY <3>1
    <3>3. /\ Young(k)' = Young(k) /\ Young(k) \subseteq Counted
          /\ f \in Counted /\ hits'[k] = hits[k]
      BY <1>3, <1>7, <2>3, <3>1, RecentFinite
    <3>4. admitted'[f] = admitted[f] /\ \A b \in Young(k) : admitted'[b] = admitted[b]
      BY <1>2, <1>3, <3>3 DEF Counted
    <3>5. OpenWindow(k, T, f)'
      BY <1>1, <3>2, <3>3, <3>4 DEF OpenWindow
    <3>6. T \in SUBSET (Counted') /\ hits'[k] # 0
      BY <1>1, <2>3, <3>3
    <3> QED
      BY <3>5, <3>6
  <2> QED
    BY <2>1, <2>2, <2>3
<1> QED
  BY <1>4, <1>5, <1>6, <1>12 DEF Windows

LEMMA TickWindows ==
  ASSUME TypeOK, IsFiniteSet(Begun), Windows, Tick
  PROVE  Windows'
<1>1. /\ UNCHANGED <<home, key, bucket, forgotten>> /\ (InMemory <=> InMemory')
      /\ Begun' = Begun /\ Counted' = Counted
  BY DEF Tick, given, InMemory, Begun, Counted
<1>2. /\ \A b \in Attempt : /\ passed'[b] = Older(passed[b], RequestWindow)
                            /\ admitted'[b] = Older(admitted[b], Window)
      /\ \A b \in Attempt : passed[b] \in 0..Old(RequestWindow) /\ admitted[b] \in 0..Old(Window)
  BY DEF Tick, TypeOK
<1>3. \A w \in Nat :
        /\ \A n \in 0..Old(w) : /\ Older(n, w) >= n /\ Older(n, w) \in 0..Old(w)
                                /\ n <= w => Older(n, w) = n + 1
        /\ Older(Old(w), w) = Old(w)
        /\ \A m, n \in 0..Old(w) : m >= n => Older(m, w) >= Older(n, w)
  BY DEF Older, Old
<1>4. \A b \in Attempt : /\ passed'[b] <= RequestWindow => passed[b] <= RequestWindow
                         /\ admitted'[b] <= Window => admitted[b] <= Window
  <2>1. ASSUME NEW b \in Attempt, passed'[b] <= RequestWindow PROVE passed[b] <= RequestWindow
    BY <1>2, <2>1, Settings DEF Older, Old
  <2>2. ASSUME NEW b \in Attempt, admitted'[b] <= Window PROVE admitted[b] <= Window
    BY <1>2, <2>2, Settings DEF Older, Old
  <2> QED
    BY <2>1, <2>2
<1>5. NotYet'
  BY <1>1, <1>2, <1>3, Settings DEF Windows, NotYet
<1>6. Tracked'
  BY <1>1, <1>4 DEF Windows, Tracked, host
<1>7. MemoryWindows'
  <2>1. \A s, h : FromHost(s, h)' = FromHost(s, h)
    BY <1>1 DEF FromHost, host
  <2>2. \A s, k : WithKey(s, k)' = WithKey(s, k)
    BY <1>1 DEF WithKey
  <2>3. ASSUME NEW s \in Replica, NEW h \in Source
        PROVE  Recent(FromHost(s, h), passed, RequestWindow)' <= RequestLimit
    <3>1. {b \in FromHost(s, h) : passed'[b] <= RequestWindow} \subseteq {b \in FromHost(s, h) : passed[b] <= RequestWindow}
      BY <1>4 DEF FromHost
    <3>2. Cardinality({b \in FromHost(s, h) : passed[b] <= RequestWindow}) <= RequestLimit
      BY DEF Windows, MemoryWindows, Recent
    <3>3. Cardinality({b \in FromHost(s, h) : passed'[b] <= RequestWindow}) <= RequestLimit
      BY <3>1, <3>2, RecentFinite, Settings, Fewer
    <3> QED
      BY <2>1, <3>3 DEF Recent
  <2>4. ASSUME NEW s \in Replica, NEW k \in Key, InMemory
        PROVE  Recent(WithKey(s, k), admitted, Window)' <= Limit
    <3>1. {b \in WithKey(s, k) : admitted'[b] <= Window} \subseteq {b \in WithKey(s, k) : admitted[b] <= Window}
      BY <1>4 DEF WithKey
    <3>2. Cardinality({b \in WithKey(s, k) : admitted[b] <= Window}) <= Limit
      BY <2>4 DEF Windows, MemoryWindows, Recent
    <3>3. Cardinality({b \in WithKey(s, k) : admitted'[b] <= Window}) <= Limit
      BY <3>1, <3>2, RecentFinite, Settings, Fewer
    <3> QED
      BY <2>2, <3>3 DEF Recent
  <2> QED
    BY <1>1, <2>3, <2>4 DEF MemoryWindows
<1>8. \A k \in Key : Young(k)' \subseteq Young(k)
  <2>1. ASSUME NEW b \in Attempt, admitted'[b] <= Window - 1 PROVE admitted[b] <= Window - 1
    BY <1>2, <2>1, Settings DEF Older, Old
  <2> QED
    BY <1>1, <2>1 DEF Young
<1>9. \A k \in Key : /\ hits'[k] = IF hitsLeft[k] = 1 THEN 0 ELSE hits[k]
                     /\ hitsLeft'[k] = Left(hitsLeft[k])
                     /\ hitsLeft[k] \in 1..Window \cup {None}
  BY DEF Tick, TypeOK
<1>10. ASSUME NEW k \in Key, NEW T \in SUBSET Counted, NEW f \in T, OpenWindow(k, T, f), hitsLeft[k] # 1
       PROVE  OpenWindow(k, T, f)'
  <2>1. IsFiniteSet(Young(k) \ T) /\ Young(k)' \ T \subseteq Young(k) \ T
    BY <1>8, RecentFinite, FS_Subset
  <2>2. Cardinality(Young(k)' \ T) <= Limit - 1
    BY <1>10, <2>1, Settings, Fewer DEF OpenWindow
  <2>3. f \in Attempt /\ admitted[f] \in 0..Old(Window) /\ admitted'[f] = Older(admitted[f], Window)
    BY <1>2 DEF Counted
  <2>4. hitsLeft'[k] # None => admitted'[f] + hitsLeft'[k] >= Window
    <3>1. SUFFICES ASSUME hitsLeft'[k] # None PROVE admitted'[f] + hitsLeft'[k] >= Window
      OBVIOUS
    <3>2. hitsLeft[k] # None /\ hitsLeft[k] \in 2..Window /\ hitsLeft'[k] = hitsLeft[k] - 1
      BY <1>9, <1>10, <3>1, Settings, NotNone DEF Left
    <3>3. admitted[f] + hitsLeft[k] >= Window
      BY <1>10, <3>2 DEF OpenWindow
    <3>4. admitted'[f] = Old(Window) \/ admitted'[f] = admitted[f] + 1
      BY <2>3 DEF Older
    <3> QED
      BY <2>3, <3>2, <3>3, <3>4, Settings DEF Old
  <2>5. \A b \in Young(k)' \ T : admitted'[b] >= admitted'[f]
    <3>1. \A b \in Young(k)' \ T : /\ b \in Attempt /\ admitted[b] >= admitted[f]
                                   /\ admitted[b] \in 0..Old(Window) /\ admitted'[b] = Older(admitted[b], Window)
      BY <1>2, <1>10, <2>1 DEF OpenWindow, Young
    <3> QED
      BY <1>3, <2>3, <3>1, Settings
  <2>6. hits'[k] = hits[k]
    BY <1>9, <1>10
  <2> QED
    BY <1>10, <2>2, <2>4, <2>5, <2>6 DEF OpenWindow
<1>11. ASSUME NEW k \in Key, NEW T \in SUBSET Counted, NEW f \in T, OpenWindow(k, T, f), hitsLeft[k] = 1
       PROVE  Cardinality(Young(k)') <= Limit - 1
  <2>1. IsFiniteSet(T) /\ f \in Attempt
    BY RecentFinite, FS_Subset DEF Counted
  <2>2. Cardinality(T) <= Limit /\ admitted[f] + 1 >= Window
    BY <1>11, NotNone DEF OpenWindow
  <2>3. \A b \in Attempt : admitted[b] >= admitted[f] => admitted'[b] >= Window
    BY <1>2, <1>3, <2>1, <2>2, Settings DEF Old, Older
  <2>4. f \notin Young(k)' /\ \A b \in Young(k) \ T : b \notin Young(k)'
    <3>1. ASSUME NEW b \in Attempt, admitted'[b] >= Window PROVE ~(admitted'[b] <= Window - 1)
      BY <1>2, <3>1, Settings DEF Older, Old
    <3>2. \A b \in Young(k) \ T : b \in Attempt /\ admitted[b] >= admitted[f]
      BY <1>11 DEF OpenWindow, Young
    <3>3. admitted[f] >= admitted[f]
      BY <1>2, <2>1, Settings DEF Old
    <3> QED
      BY <2>1, <2>3, <3>1, <3>2, <3>3 DEF Young
  <2>5. Young(k)' \subseteq T \ {f}
    BY <1>8, <2>4
  <2>6. IsFiniteSet(T \ {f}) /\ Cardinality(T \ {f}) = Cardinality(T) - 1
    BY <2>1, FS_RemoveElement
  <2>7. Cardinality(T) \in Nat
    BY <2>1, FS_CardinalityType
  <2>8. Cardinality(T \ {f}) <= Limit - 1
    BY <2>2, <2>6, <2>7, Settings
  <2> QED
    BY <2>5, <2>6, <2>8, Settings, Fewer
<1>12. RedisWindow'
  <2> SUFFICES ASSUME NEW k \in Key
               PROVE  IF hits'[k] = 0
                      THEN hitsLeft'[k] = None /\ (~InMemory' => Cardinality(Young(k)') <= Limit - 1)
                      ELSE ~InMemory' => \E T \in SUBSET (Counted') : \E f \in T : OpenWindow(k, T, f)'
    BY DEF RedisWindow
  <2>1. CASE hits[k] = 0
    <3>1. hits'[k] = 0 /\ hitsLeft'[k] = None
      BY <1>9, <2>1, NotNone DEF Windows, RedisWindow, Left
    <3>2. ~InMemory => Cardinality(Young(k)) <= Limit - 1
      BY <2>1 DEF Windows, RedisWindow
    <3>3. ~InMemory => Cardinality(Young(k)') <= Limit - 1
      BY <1>8, <3>2, RecentFinite, Settings, Fewer
    <3> QED
      BY <1>1, <3>1, <3>3
  <2>2. CASE hits[k] # 0 /\ InMemory
    <3>1. hitsLeft[k] = 1 => hits'[k] = 0 /\ hitsLeft'[k] = None
      BY <1>9 DEF Left
    <3> QED
      BY <1>1, <1>9, <2>2, <3>1
  <2>3. CASE hits[k] # 0 /\ ~InMemory
    <3>1. PICK T \in SUBSET Counted : \E f \in T : OpenWindow(k, T, f)
      BY <2>3 DEF Windows, RedisWindow
    <3>2. PICK f \in T : OpenWindow(k, T, f)
      BY <3>1
    <3>3. CASE hitsLeft[k] = 1
      <4>1. hits'[k] = 0 /\ hitsLeft'[k] = None
        BY <1>9, <3>3 DEF Left
      <4> QED
        BY <1>11, <3>2, <3>3, <4>1
    <3>4. CASE hitsLeft[k] # 1
      <4>1. OpenWindow(k, T, f)' /\ hits'[k] # 0
        BY <1>9, <1>10, <2>3, <3>2, <3>4
      <4> QED
        BY <1>1, <4>1
    <3> QED
      BY <3>3, <3>4
  <2> QED
    BY <2>1, <2>2, <2>3
<1> QED
  BY <1>5, <1>6, <1>7, <1>12 DEF Windows
-----------------------------------------------------------------------------
(* Breaking off.                                                           *)

LEMMA ServeBreaks == \A a \in Attempt : Serve(a) => UNCHANGED brokeAt
BY DEF Serve, Dispatch, CheckMemory, Incr, Expire, AssertNotLocked, Verify, FailMemory,
       FailIncr, FailExpire, SetLock, ClearMemory, ClearFails, Unlock

LEMMA BrokenNext ==
  ASSUME TypeOK, BrokenIsOver, Next
  PROVE  BrokenIsOver'
<1>1. ASSUME NEW a \in Attempt, Serve(a) PROVE BrokenIsOver'
  BY <1>1, MovesOn, ServeBreaks DEF BrokenIsOver
<1>2. ASSUME NEW a \in Attempt, Fail(a) PROVE BrokenIsOver'
  BY <1>2 DEF Fail, GoTo, TypeOK, BrokenIsOver
<1>3. ASSUME NEW r \in Replica, Restart(r) PROVE BrokenIsOver'
  BY <1>3 DEF Restart, TypeOK, BrokenIsOver
<1>4. CASE Tick \/ Finished
  BY <1>4 DEF Tick, Finished, vars, BrokenIsOver
<1> QED
  BY <1>1, <1>2, <1>3, <1>4 DEF Next

\* Who is between two commands stays there, or has broken off there, until it
\* sends the second one.
LEMMA StillExpiring ==
  ASSUME TypeOK, BrokenIsOver, Next, NEW step \in Halfway, NEW b \in Attempt,
         Expiring(b, step), ~(pc[b] = step /\ Serve(b))
  PROVE  Expiring(b, step)'
<1>1. step # None /\ step \notin {"idle", "over"}
  BY NotNone DEF Halfway
<1>2. brokeAt[b] = step => pc[b] = "over"
  BY <1>1 DEF BrokenIsOver
<1>3. ASSUME NEW a \in Attempt, Serve(a) PROVE Expiring(b, step)'
  <2>1. a # b
    BY <1>2, <1>3, MovesOn DEF Expiring
  <2> QED
    BY <1>3, <2>1, MovesOn, ServeBreaks DEF Expiring
<1>4. ASSUME NEW a \in Attempt, Fail(a) PROVE Expiring(b, step)'
  <2>1. /\ pc' = [pc EXCEPT ![a] = "over"] /\ brokeAt' = [brokeAt EXCEPT ![a] = Broken(a)]
        /\ pc[a] # "over"
    BY <1>4 DEF Fail, InFlight
  <2>2. CASE a = b
    <3>1. pc[b] = step
      BY <1>2, <2>1, <2>2 DEF Expiring
    <3>2. Broken(a) = step
      BY <2>2, <3>1 DEF Broken
    <3> QED
      BY <2>1, <2>2, <3>2 DEF Expiring, TypeOK
  <2>3. CASE a # b
    BY <2>1, <2>3 DEF Expiring, TypeOK
  <2> QED
    BY <2>2, <2>3
<1>5. ASSUME NEW r \in Replica, Restart(r) PROVE Expiring(b, step)'
  <2>1. CASE pc[b] = step
    BY <1>1, <1>5, <2>1 DEF Restart, Broken, Expiring, InFlight
  <2>2. CASE pc[b] # step
    <3>1. brokeAt[b] = step /\ ~InFlight(b)
      BY <1>2, <2>2 DEF Expiring, InFlight
    <3> QED
      BY <1>5, <3>1 DEF Restart, Expiring
  <2> QED
    BY <2>1, <2>2
<1>6. CASE Tick \/ Finished
  BY <1>6 DEF Tick, Finished, vars, Expiring
<1> QED
  BY <1>3, <1>4, <1>5, <1>6 DEF Next

LEMMA SecondCommand ==
  ASSUME NEW b \in Attempt, Serve(b)
  PROVE  /\ pc[b] = "expire" => Expire(b)
         /\ pc[b] = "expire_fails" => FailExpire(b)
         /\ pc[b] = "unlock" => Unlock(b)
         /\ pc[b] = "lock" => SetLock(b)
BY DEF Serve, Dispatch, CheckMemory, Slide, Incr, Expire, AssertNotLocked, Verify, FailMemory,
       FailIncr, FailExpire, SetLock, ClearMemory, ClearFails, Unlock, GoTo

LEMMA IncrExpires ==
  ASSUME TypeOK, BrokenIsOver, CounterExpires, NEW a \in Attempt, Incr(a) \/ Expire(a), NEW k \in Key,
         hits'[k] > 0, hitsLeft'[k] = None
  PROVE  \E b \in Attempt : key[b] = k /\ Expiring(b, "expire")'
<1>1. Next /\ "expire" \in Halfway /\ UNCHANGED key /\ key[a] \in Key
  BY Belongs DEF Next, Serve, Halfway, Incr, Expire, given
<1>2. CASE Incr(a)
  <2>1. CASE k = key[a] /\ hits[k] = 0
    <3>1. hits[key[a]] + 1 = 1
      BY <2>1
    <3>2. GoTo(a, "check", "expire")
      BY <1>2, <3>1, Settings DEF Incr
    <3>3. pc'[a] = "expire"
      BY <3>2 DEF GoTo, TypeOK
    <3> QED
      BY <2>1, <3>3 DEF Expiring
  <2>2. CASE ~(k = key[a] /\ hits[k] = 0)
    <3>1. hits[k] > 0 /\ hitsLeft[k] = None
      BY <1>1, <1>2, <2>2 DEF Incr, TypeOK
    <3>2. PICK b \in Attempt : key[b] = k /\ Expiring(b, "expire")
      BY <3>1 DEF CounterExpires
    <3>3. ~(pc[b] = "expire" /\ Serve(b))
      <4>1. SUFFICES ASSUME pc[b] = "expire", Expire(b) PROVE FALSE
        BY SecondCommand
      <4>2. b = a
        BY <1>2, <4>1 DEF Incr, Expire, GoTo, TypeOK
      <4> QED
        BY <1>2, <4>1, <4>2 DEF Incr, GoTo
    <3>4. Expiring(b, "expire")'
      BY <1>1, <3>2, <3>3, StillExpiring
    <3> QED
      BY <3>2, <3>4
  <2> QED
    BY <2>1, <2>2
<1>3. CASE Expire(a)
  <2>1. k # key[a]
    BY <1>1, <1>3, Settings, NotNone DEF Expire, TypeOK
  <2>2. hits[k] > 0 /\ hitsLeft[k] = None
    BY <1>3, <2>1 DEF Expire, TypeOK
  <2>3. PICK b \in Attempt : key[b] = k /\ Expiring(b, "expire")
    BY <2>2 DEF CounterExpires
  <2>4. b # a
    BY <2>1, <2>3
  <2>5. Expiring(b, "expire")'
    BY <1>3, <2>3, <2>4 DEF Expire, GoTo, TypeOK, Expiring
  <2> QED
    BY <2>3, <2>5
<1> QED
  BY <1>2, <1>3

LEMMA FailExpires ==
  ASSUME TypeOK, BrokenIsOver, CounterExpires, NEW a \in Attempt, FailIncr(a) \/ FailExpire(a), NEW e \in Email,
         fails'[Redis][e] > 0, failsLeft'[e] = None
  PROVE  \E b \in Attempt : email(b) = e /\ Expiring(b, "expire_fails")'
<1>1. /\ Next /\ "expire_fails" \in Halfway /\ email(a) \in Email /\ Redis \in Place
      /\ fails[Redis][e] \in Nat
  <2>1. Next
    BY DEF Next, Serve
  <2>2. email(a) \in Email /\ Redis \in Place
    BY Belongs, Places
  <2>3. fails[Redis][e] \in Nat
    BY <2>2 DEF TypeOK
  <2> QED
    BY <2>1, <2>2, <2>3 DEF Halfway
<1>2. CASE FailIncr(a)
  <2>0. fails' = [fails EXCEPT ![Redis][email(a)] = fails[Redis][email(a)] + 1] /\ failsLeft' = failsLeft
    BY <1>2 DEF FailIncr
  <2>1. CASE e = email(a) /\ fails[Redis][e] = 0
    <3>1. pc'[a] = "expire_fails"
      BY <1>2, <2>1 DEF FailIncr, GoTo, TypeOK
    <3> QED
      BY <2>1, <3>1 DEF Expiring
  <2>2. CASE ~(e = email(a) /\ fails[Redis][e] = 0)
    <3>1. fails[Redis][e] > 0 /\ failsLeft[e] = None
      BY <1>1, <2>0, <2>2 DEF TypeOK
    <3>2. PICK b \in Attempt : email(b) = e /\ Expiring(b, "expire_fails")
      BY <3>1 DEF CounterExpires
    <3>3. ~(pc[b] = "expire_fails" /\ Serve(b))
      <4>1. SUFFICES ASSUME pc[b] = "expire_fails", FailExpire(b) PROVE FALSE
        BY SecondCommand
      <4>2. CASE b = a
        BY <1>2, <4>1, <4>2 DEF FailIncr, GoTo
      <4>3. CASE b # a
        <5>1. pc'[b] = AfterCount(1) /\ pc'[b] = pc[b]
          BY <1>2, <4>1, <4>3 DEF FailIncr, FailExpire, GoTo, TypeOK
        <5> QED
          BY <4>1, <5>1 DEF AfterCount
      <4> QED
        BY <4>2, <4>3
    <3>4. Expiring(b, "expire_fails")'
      BY <1>1, <3>2, <3>3, StillExpiring
    <3> QED
      BY <3>2, <3>4
  <2> QED
    BY <2>1, <2>2
<1>3. CASE FailExpire(a)
  <2>1. e # email(a)
    BY <1>1, <1>3, Settings, NotNone DEF FailExpire, TypeOK
  <2>2. fails[Redis][e] > 0 /\ failsLeft[e] = None
    BY <1>3, <2>1 DEF FailExpire, TypeOK
  <2>3. PICK b \in Attempt : email(b) = e /\ Expiring(b, "expire_fails")
    BY <2>2 DEF CounterExpires
  <2>4. b # a
    BY <2>1, <2>3
  <2>5. Expiring(b, "expire_fails")'
    BY <1>3, <2>3, <2>4 DEF FailExpire, GoTo, TypeOK, Expiring
  <2> QED
    BY <2>3, <2>5
<1> QED
  BY <1>2, <1>3

\* What any other step does to the counters in Redis.
LEMMA CountersShrink ==
  ASSUME TypeOK, Next,
         \A a \in Attempt : ~Incr(a) /\ ~Expire(a) /\ ~FailIncr(a) /\ ~FailExpire(a)
  PROVE  /\ \A k \in Key : hits'[k] = 0 \/ (hits'[k] = hits[k] /\ (hitsLeft'[k] = None => hitsLeft[k] = None))
         /\ \A e \in Email : \/ fails'[Redis][e] = 0
                             \/ /\ fails'[Redis][e] = fails[Redis][e]
                                /\ failsLeft'[e] = None => failsLeft[e] = None
<1>1. CASE Tick
  <2>1. ASSUME NEW k \in Key
        PROVE  hits'[k] = 0 \/ (hits'[k] = hits[k] /\ (hitsLeft'[k] = None => hitsLeft[k] = None))
    <3>1. hitsLeft[k] \in 1..Window \cup {None}
      BY DEF TypeOK
    <3>2. hitsLeft'[k] = Left(hitsLeft[k]) /\ hits'[k] = IF hitsLeft[k] = 1 THEN 0 ELSE hits[k]
      BY <1>1 DEF Tick
    <3>3. hitsLeft[k] # None => hitsLeft[k] \in 1..Window
      BY <3>1
    <3>4. hitsLeft[k] # None /\ hitsLeft[k] # 1 => Left(hitsLeft[k]) = hitsLeft[k] - 1 /\ hitsLeft[k] - 1 \in Nat
      BY <3>3, Settings DEF Left
    <3> QED
      BY <3>2, <3>4, NotNone
  <2>2. ASSUME NEW e \in Email
        PROVE  \/ fails'[Redis][e] = 0
               \/ /\ fails'[Redis][e] = fails[Redis][e]
                  /\ failsLeft'[e] = None => failsLeft[e] = None
    <3>1. failsLeft[e] \in 1..LockFor \cup {None}
      BY DEF TypeOK
    <3>2. /\ failsLeft'[e] = Left(failsLeft[e])
          /\ fails'[Redis][e] = IF failsLeft[e] = 1 THEN 0 ELSE fails[Redis][e]
      BY <1>1, Places DEF Tick, TypeOK
    <3> QED
      BY <3>1, <3>2, Settings, NotNone DEF Left
  <2> QED
    BY <2>1, <2>2
<1>2. ASSUME NEW r \in Replica, Restart(r)
      PROVE  UNCHANGED <<hits, hitsLeft, failsLeft>> /\ fails'[Redis] = fails[Redis]
  <2>1. r # Redis /\ Redis \in Place
    BY Places
  <2>2. fails' = [fails EXCEPT ![r] = [e \in Email |-> 0]]
    BY <1>2 DEF Restart
  <2>3. fails'[Redis] = fails[Redis]
    BY <2>1, <2>2 DEF TypeOK
  <2> QED
    BY <1>2, <2>3 DEF Restart, counters
<1>3. ASSUME NEW a \in Attempt, Dispatch(a) \/ CheckMemory(a) \/ Verify(a) \/ SetLock(a) \/ Unlock(a) \/ Fail(a)
      PROVE  UNCHANGED <<hits, hitsLeft, failsLeft, fails>>
  BY <1>3 DEF Dispatch, CheckMemory, Verify, SetLock, Unlock, Fail, counters, lockout
<1>4. ASSUME NEW a \in Attempt, FailMemory(a) \/ ClearMemory(a)
      PROVE  UNCHANGED <<hits, hitsLeft, failsLeft>> /\ fails'[Redis] = fails[Redis]
  <2>1. home[a] # Redis /\ home[a] \in Place /\ Redis \in Place
    BY Belongs, Places
  <2>2. UNCHANGED <<hits, hitsLeft, failsLeft>>
    BY <1>4 DEF FailMemory, ClearMemory, counters
  <2>3. fails'[Redis] = fails[Redis]
    <3>1. CASE FailMemory(a)
      <4>1. CASE fails[home[a]][email(a)] + 1 < MaxFailures
        BY <2>1, <3>1, <4>1 DEF FailMemory, TypeOK
      <4>2. CASE ~(fails[home[a]][email(a)] + 1 < MaxFailures)
        <5>1. fails' = [fails EXCEPT ![home[a]][email(a)] = 0]
          BY <3>1, <4>2 DEF FailMemory
        <5> QED
          BY <2>1, <5>1 DEF TypeOK
      <4> QED
        BY <4>1, <4>2
    <3>2. CASE ClearMemory(a)
      BY <2>1, <3>2 DEF ClearMemory, Forget, TypeOK
    <3> QED
      BY <1>4, <3>1, <3>2
  <2> QED
    BY <2>2, <2>3
<1>5. ASSUME NEW a \in Attempt, AssertNotLocked(a)
      PROVE  /\ UNCHANGED <<hits, hitsLeft, failsLeft>>
             /\ \A e \in Email : fails'[Redis][e] = 0 \/ fails'[Redis][e] = fails[Redis][e]
  <2>1. At(a) \in Place /\ email(a) \in Email /\ Redis \in Place
    BY Belongs, Places
  <2>2. UNCHANGED <<hits, hitsLeft, failsLeft>>
    BY <1>5 DEF AssertNotLocked, counters
  <2>3. CASE lock[At(a)][email(a)] = 0
    <3>1. fails' = [fails EXCEPT ![At(a)][email(a)] = 0]
      BY <1>5, <2>3 DEF AssertNotLocked, Forget
    <3> QED
      BY <2>1, <2>2, <3>1 DEF TypeOK
  <2>4. CASE lock[At(a)][email(a)] # 0
    BY <1>5, <2>2, <2>4 DEF AssertNotLocked
  <2> QED
    BY <2>3, <2>4
<1>6. ASSUME NEW a \in Attempt, ClearFails(a)
      PROVE  /\ UNCHANGED <<hits, hitsLeft>>
             /\ \A e \in Email : \/ fails'[Redis][e] = 0
                                 \/ (fails'[Redis][e] = fails[Redis][e] /\ failsLeft'[e] = failsLeft[e])
  <2>1. email(a) \in Email /\ Redis \in Place
    BY Belongs, Places
  <2>2. fails' = [fails EXCEPT ![Redis][email(a)] = 0] /\ failsLeft' = [failsLeft EXCEPT ![email(a)] = None]
    BY <1>6 DEF ClearFails, Forget
  <2>3. UNCHANGED <<hits, hitsLeft>>
    BY <1>6 DEF ClearFails, counters
  <2> QED
    BY <2>1, <2>2, <2>3 DEF TypeOK
<1>7. CASE Finished
  BY <1>7 DEF Finished, vars, counters, lockout
<1>8. \/ Tick \/ Finished
      \/ \E r \in Replica : Restart(r)
      \/ \E a \in Attempt : \/ Dispatch(a) \/ CheckMemory(a) \/ Verify(a) \/ SetLock(a) \/ Unlock(a) \/ Fail(a)
                            \/ FailMemory(a) \/ ClearMemory(a) \/ AssertNotLocked(a) \/ ClearFails(a)
  BY DEF Next, Serve
<1> QED
  BY <1>1, <1>2, <1>3, <1>4, <1>5, <1>6, <1>7, <1>8

LEMMA CounterNext ==
  ASSUME TypeOK, BrokenIsOver, CounterExpires, Next
  PROVE  CounterExpires'
<1>0. /\ \A b \in Attempt : key'[b] = key[b] /\ email(b)' = email(b)
      /\ "expire" \in Halfway /\ "expire_fails" \in Halfway
  BY GivenStays DEF given, email, Halfway
<1>1. \A k \in Key : hits[k] \in Nat
  BY DEF TypeOK
<1>2. \A e \in Email : fails[Redis][e] \in Nat
  BY Places DEF TypeOK
<1>3. ASSUME NEW k \in Key, hits'[k] > 0, hitsLeft'[k] = None
      PROVE  \E b \in Attempt : key[b] = k /\ Expiring(b, "expire")'
  <2>1. CASE \E a \in Attempt : Incr(a) \/ Expire(a)
    BY <1>3, <2>1, IncrExpires
  <2>2. CASE ~(\E a \in Attempt : Incr(a) \/ Expire(a))
    <3>1. hits[k] > 0 /\ hitsLeft[k] = None
      <4>1. CASE \E a \in Attempt : FailIncr(a) \/ FailExpire(a)
        <5>1. hits' = hits /\ hitsLeft' = hitsLeft
          BY <4>1 DEF FailIncr, FailExpire, counters
        <5> QED
          BY <1>3, <5>1
      <4>2. CASE ~(\E a \in Attempt : FailIncr(a) \/ FailExpire(a))
        <5>1. hits'[k] = 0 \/ (hits'[k] = hits[k] /\ (hitsLeft'[k] = None => hitsLeft[k] = None))
          BY <2>2, <4>2, CountersShrink
        <5> QED
          BY <1>1, <1>3, <5>1
      <4> QED
        BY <4>1, <4>2
    <3>2. PICK b \in Attempt : key[b] = k /\ Expiring(b, "expire")
      BY <3>1 DEF CounterExpires
    <3>3. Expiring(b, "expire")'
      BY <1>0, <2>2, <3>2, SecondCommand, StillExpiring
    <3> QED
      BY <3>2, <3>3
  <2> QED
    BY <2>1, <2>2
<1>4. ASSUME NEW e \in Email, fails'[Redis][e] > 0, failsLeft'[e] = None
      PROVE  \E b \in Attempt : email(b) = e /\ Expiring(b, "expire_fails")'
  <2>1. CASE \E a \in Attempt : FailIncr(a) \/ FailExpire(a)
    BY <1>4, <2>1, FailExpires
  <2>2. CASE ~(\E a \in Attempt : FailIncr(a) \/ FailExpire(a))
    <3>1. fails[Redis][e] > 0 /\ failsLeft[e] = None
      <4>1. CASE \E a \in Attempt : Incr(a) \/ Expire(a)
        <5>1. fails' = fails /\ failsLeft' = failsLeft
          BY <4>1 DEF Incr, Expire, lockout
        <5> QED
          BY <1>4, <5>1
      <4>2. CASE ~(\E a \in Attempt : Incr(a) \/ Expire(a))
        <5>1. \/ fails'[Redis][e] = 0
              \/ (fails'[Redis][e] = fails[Redis][e] /\ (failsLeft'[e] = None => failsLeft[e] = None))
          BY <2>2, <4>2, CountersShrink
        <5> QED
          BY <1>2, <1>4, <5>1
      <4> QED
        BY <4>1, <4>2
    <3>2. PICK b \in Attempt : email(b) = e /\ Expiring(b, "expire_fails")
      BY <3>1 DEF CounterExpires
    <3>3. Expiring(b, "expire_fails")'
      BY <1>0, <2>2, <3>2, SecondCommand, StillExpiring
    <3> QED
      BY <3>2, <3>3
  <2> QED
    BY <2>1, <2>2
<1>5. \A k \in Key : hits'[k] > 0 /\ hitsLeft'[k] = None =>
         \E b \in Attempt : key'[b] = k /\ Expiring(b, "expire")'
  BY <1>0, <1>3
<1>6. \A e \in Email : fails'[Redis][e] > 0 /\ failsLeft'[e] = None =>
         \E b \in Attempt : email(b)' = e /\ Expiring(b, "expire_fails")'
  BY <1>0, <1>4
<1> QED
  BY <1>5, <1>6 DEF CounterExpires
-----------------------------------------------------------------------------
(* Locks and failures.                                                     *)

Lockout == Failures /\ LockDue /\ LockIsEarned

\* A lock that stays keeps what earned it.
LEMMA StillEarned ==
  ASSUME LockIsEarned, UNCHANGED <<home, key>>, late \subseteq late',
         NEW p \in Place, NEW e \in Email, Locked(p, e),
         IsFiniteSet(since'[p][e]), since[p][e] \subseteq since'[p][e],
         \A b \in Attempt : email(b) = e /\ Expiring(b, "unlock") => Expiring(b, "unlock")'
  PROVE  \/ Cardinality(since'[p][e]) >= MaxFailures
         \/ p = Redis /\ \E a \in late' : email(a) = e
         \/ p = Redis /\ \E a \in Attempt : email(a) = e /\ Expiring(a, "unlock")'
<1>1. CASE Cardinality(since[p][e]) >= MaxFailures
  <2>1. IsFiniteSet(since[p][e]) /\ Cardinality(since[p][e]) <= Cardinality(since'[p][e])
    BY FS_Subset
  <2>2. Cardinality(since[p][e]) \in Nat /\ Cardinality(since'[p][e]) \in Nat
    BY <2>1, FS_CardinalityType
  <2> QED
    BY <1>1, <2>1, <2>2, Settings
<1>2. CASE p = Redis /\ \E a \in late : email(a) = e
  BY <1>2
<1>3. CASE p = Redis /\ \E a \in Attempt : email(a) = e /\ Expiring(a, "unlock")
  BY <1>3
<1> QED
  BY <1>1, <1>2, <1>3 DEF LockIsEarned

\* A step after which each lock was there before, and has what it had.
LEMMA LocksKept ==
  ASSUME LockIsEarned, Failures', UNCHANGED <<home, key>>, late \subseteq late',
         \A p \in Place, e \in Email : Locked(p, e)' =>
            Locked(p, e) /\ since[p][e] \subseteq since'[p][e],
         \A b \in Attempt : Expiring(b, "unlock") => Expiring(b, "unlock")' \/ ~Locked(Redis, email(b))'
  PROVE  LockIsEarned'
<1>0. \A a \in Attempt : email(a)' = email(a)
  BY DEF email
<1>1. ASSUME NEW p \in Place, NEW e \in Email, Locked(p, e)'
      PROVE  \/ Cardinality(since'[p][e]) >= MaxFailures
             \/ p = Redis /\ \E a \in late' : email(a) = e
             \/ p = Redis /\ \E a \in Attempt : email(a) = e /\ Expiring(a, "unlock")'
  <2>1. Locked(p, e) /\ since[p][e] \subseteq since'[p][e] /\ IsFiniteSet(since'[p][e])
    BY <1>1 DEF Failures
  <2>2. CASE Cardinality(since[p][e]) >= MaxFailures
    <3>1. IsFiniteSet(since[p][e]) /\ Cardinality(since[p][e]) <= Cardinality(since'[p][e])
      BY <2>1, FS_Subset
    <3>2. Cardinality(since[p][e]) \in Nat /\ Cardinality(since'[p][e]) \in Nat
      BY <2>1, <3>1, FS_CardinalityType
    <3> QED
      BY <2>2, <3>1, <3>2, Settings
  <2>3. CASE p = Redis /\ \E a \in late : email(a) = e
    BY <2>3
  <2>4. CASE p = Redis /\ \E a \in Attempt : email(a) = e /\ Expiring(a, "unlock")
    <3>1. PICK a \in Attempt : email(a) = e /\ Expiring(a, "unlock")
      BY <2>4
    <3>2. Locked(Redis, email(a))'
      BY <1>0, <1>1, <2>4, <3>1 DEF Locked
    <3> QED
      BY <2>4, <3>1, <3>2
  <2> QED
    BY <2>1, <2>2, <2>3, <2>4 DEF LockIsEarned
<1>2. \A p \in Place, e \in Email : Locked(p, e)' =>
         \/ Cardinality(since'[p][e]) >= MaxFailures
         \/ p = Redis /\ \E a \in late' : email(a)' = e
         \/ p = Redis /\ \E a \in Attempt : email(a)' = e /\ Expiring(a, "unlock")'
  <2>1. \A a \in late' : email(a)' = email(a)
    BY DEF email
  <2> QED
    BY <1>0, <1>1, <2>1
<1> QED
  BY <1>2 DEF LockIsEarned

LEMMA AddsOne ==
  ASSUME NEW S, IsFiniteSet(S), NEW a, a \notin S
  PROVE  /\ IsFiniteSet(S \cup {a})
         /\ Cardinality(S) \in Nat /\ Cardinality(S \cup {a}) = Cardinality(S) + 1
BY FS_AddElement, FS_CardinalityType

\* Steps that leave locks and failures alone.
LEMMA LockoutStays ==
  ASSUME TypeOK, BrokenIsOver, Lockout, Next, UNCHANGED lockout,
         \A a \in Attempt : ~FailMemory(a) /\ ~FailIncr(a) /\ ~FailExpire(a) /\ ~SetLock(a) /\ ~Unlock(a)
  PROVE  Lockout'
<1>1. /\ UNCHANGED <<fails, lock, since, late>> /\ UNCHANGED <<home, key>>
      /\ \A a \in Attempt : email(a)' = email(a)
  BY GivenStays DEF lockout, given, email
<1>2. \A a \in Attempt : /\ pc'[a] = "lock" => pc[a] = "lock"
                         /\ pc[a] \in {"over", "expire_fails", "lock"} => pc'[a] \in {"over", "expire_fails", "lock"}
  <2>1. ASSUME NEW b \in Attempt, Serve(b)
        PROVE  pc[b] \notin {"over", "expire_fails", "lock"} /\ pc'[b] # "lock"
    <3>1. \/ Dispatch(b) \/ CheckMemory(b) \/ Incr(b) \/ Expire(b) \/ AssertNotLocked(b) \/ Verify(b)
          \/ ClearMemory(b) \/ ClearFails(b)
      BY <2>1 DEF Serve
    <3>2. CASE Dispatch(b) \/ CheckMemory(b)
      BY <3>2 DEF Dispatch, CheckMemory, Slide, GoTo, TypeOK
    <3>3. CASE Incr(b) \/ Expire(b)
      BY <3>3, Settings DEF Incr, Expire, GoTo, TypeOK
    <3>4. CASE AssertNotLocked(b) \/ Verify(b) \/ ClearMemory(b) \/ ClearFails(b)
      BY <3>4 DEF AssertNotLocked, Verify, ClearMemory, ClearFails, GoTo, TypeOK
    <3> QED
      BY <3>1, <3>2, <3>3, <3>4
  <2>2. ASSUME NEW b \in Attempt, Serve(b), NEW a \in Attempt
        PROVE  /\ pc'[a] = "lock" => pc[a] = "lock"
               /\ pc[a] \in {"over", "expire_fails", "lock"} => pc'[a] \in {"over", "expire_fails", "lock"}
    BY <2>1, <2>2, MovesOn
  <2>3. ASSUME NEW b \in Attempt, Fail(b), NEW a \in Attempt
        PROVE  /\ pc'[a] = "lock" => pc[a] = "lock"
               /\ pc[a] \in {"over", "expire_fails", "lock"} => pc'[a] \in {"over", "expire_fails", "lock"}
    BY <2>3 DEF Fail, TypeOK
  <2>4. ASSUME NEW r \in Replica, Restart(r), NEW a \in Attempt
        PROVE  /\ pc'[a] = "lock" => pc[a] = "lock"
               /\ pc[a] \in {"over", "expire_fails", "lock"} => pc'[a] \in {"over", "expire_fails", "lock"}
    BY <2>4 DEF Restart
  <2>5. CASE Tick \/ Finished
    BY <2>5 DEF Tick, Finished, vars
  <2> QED
    BY <2>2, <2>3, <2>4, <2>5 DEF Next
<1>3. Failures'
  BY <1>1, <1>2, Places DEF Lockout, Failures, TypeOK
<1>4. LockDue'
  BY <1>1, <1>2 DEF Lockout, LockDue
<1>5. \A b \in Attempt : Expiring(b, "unlock") => Expiring(b, "unlock")'
  BY SecondCommand, StillExpiring DEF Halfway
<1>6. LockIsEarned'
  BY <1>1, <1>3, <1>5, LocksKept DEF Lockout, Locked
<1> QED
  BY <1>3, <1>4, <1>6 DEF Lockout

\* The attempts about to lock an account, and those counted as failures, when
\* one attempt moves on and is not yet about to lock.
LEMMA AssertLockout ==
  ASSUME TypeOK, BrokenIsOver, Lockout, NEW a \in Attempt, AssertNotLocked(a) \/ ClearMemory(a) \/ ClearFails(a)
  PROVE  Lockout'
<1> DEFINE e == email(a)
           p == IF ClearFails(a) THEN Redis ELSE At(a)
<1>1. Next /\ p \in Place /\ e \in Email /\ Redis \in Place
  BY Belongs, Places DEF Next, Serve
<1>2. /\ UNCHANGED <<home, key, late>>
      /\ \A b \in Attempt : email(b)' = email(b)
  BY DEF AssertNotLocked, ClearMemory, ClearFails, given, email
<1>3. /\ pc[a] \in {"assert", "clear"} /\ pc'[a] \notin {"lock"}
      /\ \A b \in Attempt \ {a} : pc'[b] = pc[b]
  BY DEF AssertNotLocked, ClearMemory, ClearFails, GoTo, TypeOK
<1>4. /\ \/ fails'[p][e] = 0 /\ since'[p][e] = {}
         \/ fails'[p][e] = fails[p][e] /\ since'[p][e] = since[p][e]
      /\ \A q \in Place, g \in Email : q # p \/ g # e =>
            fails'[q][g] = fails[q][g] /\ since'[q][g] = since[q][g]
  <2>1. CASE Forget(p, e)
    BY <1>1, <2>1 DEF Forget, TypeOK
  <2>2. CASE UNCHANGED <<fails, since>>
    BY <2>2
  <2>3. Forget(p, e) \/ UNCHANGED <<fails, since>>
    <3>1. CASE AssertNotLocked(a)
      <4>1. ~ClearFails(a)
        BY <3>1 DEF AssertNotLocked, ClearFails, GoTo
      <4> QED
        BY <3>1, <4>1 DEF AssertNotLocked
    <3>2. CASE ClearMemory(a)
      <4>1. ~ClearFails(a)
        BY <3>2 DEF ClearMemory, ClearFails
      <4> QED
        BY <3>2, <4>1 DEF ClearMemory, At
    <3>3. CASE ClearFails(a)
      BY <3>3 DEF ClearFails
    <3> QED
      BY <3>1, <3>2, <3>3
  <2> QED
    BY <2>1, <2>2, <2>3
<1> HIDE DEF p, e
<1>5. Failures'
  <2>1. ASSUME NEW q \in Place, NEW g \in Email
        PROVE  /\ IsFiniteSet(since'[q][g])
               /\ fails'[q][g] <= Cardinality(since'[q][g])
               /\ \A b \in since'[q][g] : pc'[b] \in {"over", "expire_fails", "lock"}
    <3>1. CASE fails'[q][g] = fails[q][g] /\ since'[q][g] = since[q][g]
      <4>1. since[q][g] \subseteq Attempt /\ \A b \in since[q][g] : pc[b] \in {"over", "expire_fails", "lock"}
        BY DEF Lockout, Failures, TypeOK
      <4>2. a \notin since[q][g]
        BY <1>3, <4>1
      <4> QED
        BY <1>3, <3>1, <4>1, <4>2 DEF Lockout, Failures
    <3>2. CASE fails'[q][g] = 0 /\ since'[q][g] = {}
      BY <3>2, FS_EmptySet
    <3> QED
      BY <1>4, <3>1, <3>2
  <2> QED
    BY <2>1 DEF Failures
<1>6. LockDue'
  <2>1. ASSUME NEW b \in Attempt, pc'[b] = "lock", b \in since'[Redis][email(b)]
        PROVE  Cardinality(since'[Redis][email(b)]) >= MaxFailures
    <3>1. b # a /\ pc[b] = "lock" /\ email(b) \in Email
      BY <1>3, <2>1, Belongs
    <3>2. since'[Redis][email(b)] = since[Redis][email(b)]
      BY <1>1, <1>4, <2>1, <3>1
    <3> QED
      BY <2>1, <3>1, <3>2 DEF Lockout, LockDue
  <2> QED
    BY <1>2, <2>1 DEF LockDue
<1>7. CASE ClearFails(a)
  <2>0. p = Redis
    BY <1>7 DEF p
  <2>1. pc'[a] = "unlock" /\ UNCHANGED lock
    BY <1>7 DEF ClearFails, GoTo, TypeOK
  <2>2. \A b \in Attempt : Expiring(b, "unlock") => Expiring(b, "unlock")'
    BY <1>1, SecondCommand, StillExpiring, <1>3, <2>1 DEF Expiring, Unlock, GoTo, Halfway
  <2>3. ASSUME NEW q \in Place, NEW g \in Email, Locked(q, g)'
        PROVE  \/ Cardinality(since'[q][g]) >= MaxFailures
               \/ q = Redis /\ \E b \in late' : email(b) = g
               \/ q = Redis /\ \E b \in Attempt : email(b) = g /\ Expiring(b, "unlock")'
    <3>1. CASE q = Redis /\ g = e
      BY <2>1, <3>1 DEF Expiring, e
    <3>2. CASE ~(q = Redis /\ g = e)
      <4>1. Locked(q, g) /\ since'[q][g] = since[q][g] /\ IsFiniteSet(since'[q][g])
        BY <1>4, <1>5, <2>0, <2>1, <2>3, <3>2 DEF Locked, Failures
      <4> QED
        BY <1>2, <2>2, <4>1, StillEarned DEF Lockout
    <3> QED
      BY <3>1, <3>2
  <2>4. \A b \in late' : email(b)' = email(b)
    BY <1>2 DEF email
  <2>5. LockIsEarned'
    BY <1>2, <2>3, <2>4 DEF LockIsEarned
  <2> QED
    BY <1>5, <1>6, <2>5 DEF Lockout
<1>8. CASE ~ClearFails(a)
  <2>0. p = At(a)
    BY <1>8 DEF p
  <2>1. \A q \in Place, g \in Email : Locked(q, g)' => Locked(q, g) /\ since'[q][g] = since[q][g]
    <3>1. CASE AssertNotLocked(a)
      <4>1. /\ lock' = [lock EXCEPT ![p][e] = IF Locked(p, e) THEN @ ELSE None]
            /\ lock[p][e] # 0 => UNCHANGED since
        BY <2>0, <3>1 DEF AssertNotLocked, e
      <4>2. \A q \in Place, g \in Email : Locked(q, g)' => Locked(q, g) /\ (q # p \/ g # e \/ lock[p][e] # 0)
        BY <1>1, <4>1 DEF Locked, TypeOK
      <4> QED
        BY <1>4, <4>1, <4>2
    <3>2. CASE ClearMemory(a)
      <4>1. lock' = [lock EXCEPT ![p][e] = None]
        BY <2>0, <3>2 DEF ClearMemory, e, At
      <4>2. \A q \in Place, g \in Email : Locked(q, g)' => Locked(q, g) /\ (q # p \/ g # e)
        BY <1>1, <4>1 DEF Locked, TypeOK
      <4> QED
        BY <1>4, <4>2
    <3> QED
      BY <1>8, <3>1, <3>2
  <2>2. \A b \in Attempt : Expiring(b, "unlock") => Expiring(b, "unlock")'
    <3>1. ~Unlock(a)
      BY <1>3 DEF Unlock, GoTo
    <3>2. ASSUME NEW b \in Attempt, Expiring(b, "unlock") PROVE Expiring(b, "unlock")'
      <4>1. UNCHANGED brokeAt
        BY ServeBreaks DEF Serve
      <4>2. b # a
        <5>1. brokeAt[a] = None
          BY <1>3 DEF BrokenIsOver
        <5> QED
          BY <1>3, <3>2, <5>1, NotNone DEF Expiring, Halfway
      <4> QED
        BY <1>3, <3>2, <4>1, <4>2 DEF Expiring
    <3> QED
      BY <3>2
  <2>3. LockIsEarned'
    BY <1>2, <1>5, <2>1, <2>2, LocksKept DEF Lockout
  <2> QED
    BY <1>5, <1>6, <2>3 DEF Lockout
<1> QED
  BY <1>7, <1>8

\* An attempt that counts its failure.
LEMMA CountLockout ==
  ASSUME TypeOK, BrokenIsOver, Lockout, NEW a \in Attempt, FailMemory(a) \/ FailIncr(a)
  PROVE  Lockout'
<1> DEFINE e == email(a)
           p == IF FailMemory(a) THEN home[a] ELSE Redis
<1>1. Next /\ p \in Place /\ e \in Email /\ Redis \in Place /\ home[a] \in Replica /\ Redis # home[a]
  BY Belongs, Places DEF Next, Serve
<1>2. /\ UNCHANGED <<home, key, late>>
      /\ \A b \in Attempt : email(b)' = email(b)
  BY DEF FailMemory, FailIncr, given, email
<1>3. /\ pc[a] = "wrong" /\ pc'[a] \in {"over", "expire_fails", "lock"}
      /\ \A b \in Attempt \ {a} : pc'[b] = pc[b]
      /\ FailMemory(a) => pc'[a] = "over"
  BY DEF FailMemory, FailIncr, AfterCount, GoTo, TypeOK
<1>4. p = IF InMemory THEN home[a] ELSE Redis
  BY DEF FailMemory, FailIncr
<1>5. /\ since'[p][e] = since[p][e] \cup {a}
      /\ \A q \in Place, g \in Email : q # p \/ g # e => since'[q][g] = since[q][g]
  <2>1. since' = [since EXCEPT ![p][e] = since[p][e] \cup {a}]
    <3>1. CASE FailMemory(a)
      BY <3>1 DEF FailMemory
    <3>2. CASE ~FailMemory(a)
      BY <3>2 DEF FailIncr
    <3> QED
      BY <3>1, <3>2
  <2> QED
    BY <1>1, <2>1 DEF TypeOK
<1>6. /\ \/ fails' = [fails EXCEPT ![p][e] = 0] /\ pc'[a] # "lock"
         \/ fails' = [fails EXCEPT ![p][e] = fails[p][e] + 1]
      /\ pc'[a] = "lock" => fails[p][e] + 1 >= MaxFailures
  <2>1. CASE FailMemory(a)
    <3>1. pc'[a] # "lock"
      BY <1>3, <2>1
    <3>2. CASE fails[p][e] + 1 < MaxFailures
      BY <2>1, <3>1, <3>2 DEF FailMemory
    <3>3. CASE ~(fails[p][e] + 1 < MaxFailures)
      BY <2>1, <3>1, <3>3 DEF FailMemory
    <3> QED
      BY <3>2, <3>3
  <2>2. CASE ~FailMemory(a)
    <3>1. fails' = [fails EXCEPT ![p][e] = fails[p][e] + 1]
      BY <2>2 DEF FailIncr
    <3>2. pc'[a] = "lock" => fails[p][e] + 1 >= MaxFailures
      BY <2>2 DEF FailIncr, GoTo, TypeOK, AfterCount
    <3> QED
      BY <3>1, <3>2
  <2> QED
    BY <2>1, <2>2
<1>7. lock' = lock \/ (lock' = [lock EXCEPT ![p][e] = LockFor] /\ fails[p][e] + 1 >= MaxFailures)
  <2>0. fails[p][e] \in Nat
    BY <1>1 DEF TypeOK
  <2>1. CASE FailMemory(a) /\ fails[p][e] + 1 < MaxFailures
    BY <2>1 DEF FailMemory
  <2>2. CASE FailMemory(a) /\ ~(fails[p][e] + 1 < MaxFailures)
    <3>1. lock' = [lock EXCEPT ![p][e] = LockFor]
      BY <2>2 DEF FailMemory
    <3> QED
      BY <2>0, <2>2, <3>1, Settings
  <2>3. CASE ~FailMemory(a)
    BY <2>3 DEF FailIncr
  <2> QED
    BY <2>1, <2>2, <2>3
<1> HIDE DEF p, e
<1>8. /\ fails'[p][e] \in {0, fails[p][e] + 1}
      /\ \A q \in Place, g \in Email : q # p \/ g # e => fails'[q][g] = fails[q][g]
      /\ fails[p][e] \in Nat
  BY <1>1, <1>6 DEF TypeOK
<1>9. /\ a \notin since[p][e] /\ IsFiniteSet(since[p][e])
      /\ fails[p][e] <= Cardinality(since[p][e])
  BY <1>1, <1>3 DEF Lockout, Failures
<1>10. /\ IsFiniteSet(since'[p][e])
       /\ Cardinality(since[p][e]) \in Nat /\ Cardinality(since'[p][e]) = Cardinality(since[p][e]) + 1
  <2>1. /\ IsFiniteSet(since[p][e] \cup {a}) /\ Cardinality(since[p][e]) \in Nat
        /\ Cardinality(since[p][e] \cup {a}) = Cardinality(since[p][e]) + 1
    BY <1>9, AddsOne
  <2>2. since'[p][e] = since[p][e] \cup {a}
    BY <1>5
  <2> QED
    BY <2>1, <2>2
<1>11. Failures'
  <2>1. ASSUME NEW q \in Place, NEW g \in Email
        PROVE  /\ IsFiniteSet(since'[q][g])
               /\ fails'[q][g] <= Cardinality(since'[q][g])
               /\ \A b \in since'[q][g] : pc'[b] \in {"over", "expire_fails", "lock"}
    <3>0. since[q][g] \subseteq Attempt /\ \A b \in since[q][g] : pc[b] \in {"over", "expire_fails", "lock"}
      BY DEF Lockout, Failures, TypeOK
    <3>1. CASE q = p /\ g = e
      <4>1. fails'[p][e] <= Cardinality(since'[p][e])
        BY <1>6, <1>8, <1>9, <1>10
      <4>2. \A b \in since'[p][e] : pc'[b] \in {"over", "expire_fails", "lock"}
        BY <1>3, <1>5, <3>0, <3>1
      <4> QED
        BY <1>8, <1>10, <3>1, <4>1, <4>2
    <3>2. CASE ~(q = p /\ g = e)
      <4>1. since'[q][g] = since[q][g] /\ fails'[q][g] = fails[q][g]
        BY <1>5, <1>8, <3>2
      <4> QED
        BY <1>3, <3>0, <4>1 DEF Lockout, Failures
    <3> QED
      BY <3>1, <3>2
  <2> QED
    BY <2>1 DEF Failures
<1>12. LockDue'
  <2>1. ASSUME NEW b \in Attempt, pc'[b] = "lock", b \in since'[Redis][email(b)]
        PROVE  Cardinality(since'[Redis][email(b)]) >= MaxFailures
    <3>0. email(b) \in Email
      BY Belongs
    <3>1. CASE b = a
      <4>1. p = Redis /\ e = email(b)
        BY <1>3, <2>1, <3>1 DEF p, e
      <4>2. Cardinality(since'[p][e]) >= MaxFailures
        BY <1>6, <1>8, <1>9, <1>10, <2>1, <3>1, Settings
      <4> QED
        BY <4>1, <4>2
    <3>2. CASE b # a
      <4>1. pc[b] = "lock"
        BY <1>3, <2>1, <3>2
      <4>2. CASE Redis = p /\ email(b) = e
        <5>1. b \in since[p][e]
          BY <1>5, <2>1, <3>2, <4>2
        <5>2. Cardinality(since[p][e]) >= MaxFailures
          BY <4>1, <4>2, <5>1 DEF Lockout, LockDue
        <5>3. Cardinality(since'[p][e]) >= MaxFailures
          BY <1>10, <5>2, Settings
        <5> QED
          BY <4>2, <5>3
      <4>3. CASE ~(Redis = p /\ email(b) = e)
        <5>1. since'[Redis][email(b)] = since[Redis][email(b)]
          BY <1>1, <1>5, <3>0, <4>3
        <5> QED
          BY <2>1, <4>1, <5>1 DEF Lockout, LockDue
      <4> QED
        BY <4>2, <4>3
    <3> QED
      BY <3>1, <3>2
  <2> QED
    BY <1>2, <2>1 DEF LockDue
<1>13. \A b \in Attempt : Expiring(b, "unlock") => Expiring(b, "unlock")'
  <2>1. ASSUME NEW b \in Attempt, Expiring(b, "unlock") PROVE Expiring(b, "unlock")'
    <3>1. UNCHANGED brokeAt
      BY ServeBreaks DEF Serve
    <3>2. b # a
      <4>1. brokeAt[a] = None
        BY <1>3 DEF BrokenIsOver
      <4> QED
        BY <1>3, <2>1, <4>1, NotNone DEF Expiring, Halfway
    <3> QED
      BY <1>3, <2>1, <3>1, <3>2 DEF Expiring
  <2> QED
    BY <2>1
<1>14. LockIsEarned'
  <2>1. ASSUME NEW q \in Place, NEW g \in Email, Locked(q, g)'
        PROVE  \/ Cardinality(since'[q][g]) >= MaxFailures
               \/ q = Redis /\ \E b \in late' : email(b) = g
               \/ q = Redis /\ \E b \in Attempt : email(b) = g /\ Expiring(b, "unlock")'
    <3>1. CASE Locked(q, g)
      <4>1. since[q][g] \subseteq since'[q][g] /\ IsFiniteSet(since'[q][g])
        BY <1>5, <1>11 DEF Failures
      <4> QED
        BY <1>2, <1>13, <3>1, <4>1, StillEarned DEF Lockout
    <3>2. CASE ~Locked(q, g)
      <4>1. q = p /\ g = e /\ fails[p][e] + 1 >= MaxFailures
        BY <1>1, <1>7, <2>1, <3>2 DEF Locked, TypeOK
      <4>2. Cardinality(since'[p][e]) >= MaxFailures
        BY <1>8, <1>9, <1>10, <4>1, Settings
      <4> QED
        BY <4>1, <4>2
    <3> QED
      BY <3>1, <3>2
  <2>2. \A b \in late' : email(b)' = email(b)
    BY <1>2 DEF email
  <2> QED
    BY <1>2, <2>1, <2>2 DEF LockIsEarned
<1> QED
  BY <1>11, <1>12, <1>14 DEF Lockout

LEMMA FailExpireLockout ==
  ASSUME TypeOK, BrokenIsOver, Lockout, NEW a \in Attempt, FailExpire(a)
  PROVE  Lockout'
<1>1. Next /\ Redis \in Place /\ email(a) \in Email
  BY Belongs, Places DEF Next, Serve
<1>2. /\ UNCHANGED <<home, key, late, fails, since, lock, brokeAt>>
      /\ \A b \in Attempt : email(b)' = email(b)
  BY DEF FailExpire, given, email
<1>3. /\ pc[a] = "expire_fails" /\ pc'[a] = AfterCount(1)
      /\ \A b \in Attempt \ {a} : pc'[b] = pc[b]
  BY DEF FailExpire, GoTo, TypeOK
<1>4. pc'[a] \in {"over", "lock"} /\ (pc'[a] = "lock" => MaxFailures <= 1)
  BY <1>3, Settings DEF AfterCount
<1>5. Failures'
  <2>1. \A q \in Place, g \in Email : \A b \in since[q][g] : pc'[b] \in {"over", "expire_fails", "lock"}
    <3>1. \A q \in Place, g \in Email : since[q][g] \subseteq Attempt
      BY DEF TypeOK
    <3> QED
      BY <1>3, <1>4, <3>1 DEF Lockout, Failures
  <2> QED
    BY <1>2, <2>1 DEF Lockout, Failures
<1>6. LockDue'
  <2>1. ASSUME NEW b \in Attempt, pc'[b] = "lock", b \in since[Redis][email(b)]
        PROVE  Cardinality(since[Redis][email(b)]) >= MaxFailures
    <3>1. CASE b = a
      <4>1. IsFiniteSet(since[Redis][email(a)]) /\ since[Redis][email(a)] # {}
        BY <1>1, <2>1, <3>1 DEF Lockout, Failures
      <4>2. Cardinality(since[Redis][email(a)]) \in Nat /\ Cardinality(since[Redis][email(a)]) # 0
        BY <4>1, FS_CardinalityType, FS_EmptySet
      <4> QED
        BY <1>4, <2>1, <3>1, <4>2, Settings
    <3>2. CASE b # a
      BY <1>3, <2>1, <3>2 DEF Lockout, LockDue
    <3> QED
      BY <3>1, <3>2
  <2> QED
    BY <1>2, <2>1 DEF LockDue
<1>7. \A b \in Attempt : Expiring(b, "unlock") => Expiring(b, "unlock")'
  <2>1. brokeAt[a] = None
    BY <1>3 DEF BrokenIsOver
  <2> QED
    BY <1>2, <1>3, <2>1, NotNone DEF Expiring, Halfway
<1>8. LockIsEarned'
  BY <1>2, <1>5, <1>7, LocksKept DEF Lockout, Locked
<1> QED
  BY <1>5, <1>6, <1>8 DEF Lockout

LEMMA LockLockout ==
  ASSUME TypeOK, BrokenIsOver, Lockout, NEW a \in Attempt, SetLock(a) \/ Unlock(a)
  PROVE  Lockout'
<1>1. Next /\ Redis \in Place /\ email(a) \in Email
  BY Belongs, Places DEF Next, Serve
<1>2. /\ UNCHANGED <<home, key, fails, since, brokeAt>> /\ late \subseteq late'
      /\ \A b \in Attempt : email(b)' = email(b)
  BY DEF SetLock, Unlock, given, email
<1>3. /\ pc[a] \in {"lock", "unlock"} /\ pc'[a] = "over"
      /\ \A b \in Attempt \ {a} : pc'[b] = pc[b]
  BY DEF SetLock, Unlock, GoTo, TypeOK
<1>4. Failures'
  <2>1. \A q \in Place, g \in Email : since[q][g] \subseteq Attempt
    BY DEF TypeOK
  <2> QED
    BY <1>2, <1>3, <2>1 DEF Lockout, Failures
<1>5. LockDue'
  BY <1>2, <1>3 DEF Lockout, LockDue
<1>6. CASE SetLock(a)
  <2>1. /\ lock' = [lock EXCEPT ![Redis][email(a)] = LockFor]
        /\ late' = IF a \in since[Redis][email(a)] THEN late ELSE late \cup {a}
        /\ pc[a] = "lock"
    BY <1>6 DEF SetLock, GoTo
  <2>2. \A b \in Attempt : Expiring(b, "unlock") => Expiring(b, "unlock")'
    <3>1. brokeAt[a] = None
      BY <1>3 DEF BrokenIsOver
    <3> QED
      BY <1>2, <1>3, <2>1, <3>1, NotNone DEF Expiring, Halfway
  <2>3. ASSUME NEW q \in Place, NEW g \in Email, Locked(q, g)'
        PROVE  \/ Cardinality(since'[q][g]) >= MaxFailures
               \/ q = Redis /\ \E b \in late' : email(b) = g
               \/ q = Redis /\ \E b \in Attempt : email(b) = g /\ Expiring(b, "unlock")'
    <3>1. CASE q = Redis /\ g = email(a)
      <4>1. CASE a \in since[Redis][email(a)]
        <5>1. Cardinality(since[Redis][email(a)]) >= MaxFailures
          BY <2>1, <4>1 DEF Lockout, LockDue
        <5> QED
          BY <1>2, <3>1, <5>1
      <4>2. CASE a \notin since[Redis][email(a)]
        BY <2>1, <3>1, <4>2
      <4> QED
        BY <4>1, <4>2
    <3>2. CASE ~(q = Redis /\ g = email(a))
      <4>1. Locked(q, g)
        BY <1>1, <2>1, <2>3, <3>2 DEF Locked, TypeOK
      <4>2. since[q][g] \subseteq since'[q][g] /\ IsFiniteSet(since'[q][g])
        BY <1>2, <1>4 DEF Failures
      <4> QED
        BY <1>2, <2>2, <4>1, <4>2, StillEarned DEF Lockout
    <3> QED
      BY <3>1, <3>2
  <2>4. \A b \in late' : email(b)' = email(b)
    BY <1>2 DEF email
  <2>5. LockIsEarned'
    BY <1>2, <2>3, <2>4 DEF LockIsEarned
  <2> QED
    BY <1>4, <1>5, <2>5 DEF Lockout
<1>7. CASE Unlock(a)
  <2>1. lock' = [lock EXCEPT ![Redis][email(a)] = None]
    BY <1>7 DEF Unlock
  <2>2. \A q \in Place, g \in Email : Locked(q, g)' => Locked(q, g) /\ since[q][g] \subseteq since'[q][g]
    BY <1>1, <1>2, <2>1 DEF Locked, TypeOK
  <2>3. ~Locked(Redis, email(a))'
    <3>1. lock'[Redis][email(a)] = None
      BY <1>1, <2>1 DEF TypeOK
    <3> QED
      BY <1>2, <3>1 DEF Locked
  <2>4. \A b \in Attempt : Expiring(b, "unlock") => Expiring(b, "unlock")' \/ ~Locked(Redis, email(b))'
    <3>1. \A b \in Attempt \ {a} : Expiring(b, "unlock") => Expiring(b, "unlock")'
      BY <1>2, <1>3 DEF Expiring
    <3> QED
      BY <2>3, <3>1
  <2>5. LockIsEarned'
    BY <1>2, <1>4, <2>2, <2>4, LocksKept DEF Lockout
  <2> QED
    BY <1>4, <1>5, <2>5 DEF Lockout
<1> QED
  BY <1>6, <1>7

LEMMA RestartLockout ==
  ASSUME TypeOK, BrokenIsOver, Lockout, NEW r \in Replica, Restart(r)
  PROVE  Lockout'
<1>1. Next /\ Redis \in Place /\ r # Redis /\ r \in Place
  BY Places DEF Next
<1>2. /\ UNCHANGED <<home, key, late>>
      /\ \A b \in Attempt : email(b)' = email(b)
  BY DEF Restart, given, email
<1>3. /\ \A e \in Email : fails'[r][e] = 0 /\ since'[r][e] = {} /\ lock'[r][e] = None
      /\ \A p \in Place \ {r} : fails'[p] = fails[p] /\ since'[p] = since[p] /\ lock'[p] = lock[p]
  BY <1>1 DEF Restart, TypeOK
<1>4. \A b \in Attempt : pc'[b] = pc[b] \/ pc'[b] = "over"
  BY DEF Restart
<1>5. Failures'
  <2>1. \A q \in Place, g \in Email : since[q][g] \subseteq Attempt
    BY DEF TypeOK
  <2>2. ASSUME NEW q \in Place, NEW g \in Email
        PROVE  /\ IsFiniteSet(since'[q][g])
               /\ fails'[q][g] <= Cardinality(since'[q][g])
               /\ \A b \in since'[q][g] : pc'[b] \in {"over", "expire_fails", "lock"}
    <3>1. CASE q = r
      BY <1>3, <3>1, FS_EmptySet
    <3>2. CASE q # r
      BY <1>3, <1>4, <2>1, <3>2 DEF Lockout, Failures
    <3> QED
      BY <3>1, <3>2
  <2> QED
    BY <2>2 DEF Failures
<1>6. LockDue'
  BY <1>1, <1>2, <1>3, <1>4 DEF Lockout, LockDue
<1>7. \A b \in Attempt : Expiring(b, "unlock") => Expiring(b, "unlock")'
  <2>1. ASSUME NEW b \in Attempt, Expiring(b, "unlock") PROVE Expiring(b, "unlock")'
    <3>1. CASE pc[b] = "unlock"
      BY <3>1 DEF Restart, Expiring, InFlight, Broken, Halfway
    <3>2. CASE pc[b] # "unlock"
      <4>1. brokeAt[b] = "unlock" /\ pc[b] = "over"
        BY <2>1, <3>2, NotNone DEF Expiring, BrokenIsOver, Halfway
      <4> QED
        BY <4>1 DEF Restart, Expiring, InFlight
    <3> QED
      BY <3>1, <3>2
  <2> QED
    BY <2>1
<1>8. \A q \in Place, g \in Email : Locked(q, g)' => Locked(q, g) /\ since[q][g] \subseteq since'[q][g]
  BY <1>3 DEF Locked
<1>9. LockIsEarned'
  BY <1>2, <1>5, <1>7, <1>8, LocksKept DEF Lockout
<1> QED
  BY <1>5, <1>6, <1>9 DEF Lockout

LEMMA TickLockout ==
  ASSUME TypeOK, BrokenIsOver, Lockout, Tick
  PROVE  Lockout'
<1>1. /\ UNCHANGED <<home, key, late, since, pc, brokeAt>>
      /\ \A b \in Attempt : email(b)' = email(b)
  BY DEF Tick, given, email
<1>2. /\ \A p \in Place, e \in Email : fails'[p][e] = fails[p][e] \/ fails'[p][e] = 0
      /\ \A p \in Place, e \in Email : fails[p][e] \in Nat
  BY DEF Tick, TypeOK
<1>3. Failures'
  <2>1. \A p \in Place, e \in Email : Cardinality(since[p][e]) \in Nat
    BY FS_CardinalityType DEF Lockout, Failures
  <2> QED
    BY <1>1, <1>2, <2>1 DEF Lockout, Failures
<1>4. LockDue'
  BY <1>1 DEF Lockout, LockDue
<1>5. \A p \in Place, e \in Email : Locked(p, e)' => Locked(p, e)
  <2>1. ASSUME NEW p \in Place, NEW e \in Email, ~Locked(p, e) PROVE lock'[p][e] \in {None, 0}
    <3>1. lock[p][e] \in {None, 0}
      BY <2>1 DEF Locked
    <3>2. lock'[p][e] = IF p # Redis /\ lock[p][e] \in {0, 1} THEN 0 ELSE Left(lock[p][e])
      BY DEF Tick
    <3>3. Left(None) = None /\ Left(0) = None
      BY DEF Left
    <3> QED
      BY <3>1, <3>2, <3>3
  <2> QED
    BY <2>1 DEF Locked
<1>6. LockIsEarned'
  BY <1>1, <1>3, <1>5, LocksKept DEF Lockout, Expiring
<1> QED
  BY <1>3, <1>4, <1>6 DEF Lockout

LEMMA LockoutNext ==
  ASSUME TypeOK, BrokenIsOver, Lockout, Next
  PROVE  Lockout'
<1>1. ASSUME NEW a \in Attempt, AssertNotLocked(a) \/ ClearMemory(a) \/ ClearFails(a) PROVE Lockout'
  BY <1>1, AssertLockout
<1>2. ASSUME NEW a \in Attempt, FailMemory(a) \/ FailIncr(a) PROVE Lockout'
  BY <1>2, CountLockout
<1>3. ASSUME NEW a \in Attempt, FailExpire(a) PROVE Lockout'
  BY <1>3, FailExpireLockout
<1>4. ASSUME NEW a \in Attempt, SetLock(a) \/ Unlock(a) PROVE Lockout'
  BY <1>4, LockLockout
<1>5. ASSUME NEW r \in Replica, Restart(r) PROVE Lockout'
  BY <1>5, RestartLockout
<1>6. CASE Tick
  BY <1>6, TickLockout
<1>7. ASSUME NEW a \in Attempt, Dispatch(a) \/ CheckMemory(a) \/ Incr(a) \/ Expire(a) \/ Verify(a) \/ Fail(a)
      PROVE  UNCHANGED lockout
  BY <1>7 DEF Dispatch, CheckMemory, Incr, Expire, Verify, Fail
<1>8. Finished => UNCHANGED lockout
  BY DEF Finished, vars
<1> QED
  BY <1>1, <1>2, <1>3, <1>4, <1>5, <1>6, <1>7, <1>8, LockoutStays DEF Next, Serve
-----------------------------------------------------------------------------
LEMMA WindowsNext ==
  ASSUME TypeOK, IsFiniteSet(Begun), Windows, Next
  PROVE  Windows'
<1>1. ASSUME NEW a \in Attempt, Dispatch(a) PROVE Windows'
  BY <1>1, DispatchWindows
<1>2. ASSUME NEW a \in Attempt, CheckMemory(a) PROVE Windows'
  BY <1>2, CheckMemoryWindows
<1>3. ASSUME NEW a \in Attempt, Incr(a) PROVE Windows'
  BY <1>3, IncrWindows
<1>4. ASSUME NEW a \in Attempt, Expire(a) PROVE Windows'
  BY <1>4, ExpireWindows
<1>5. ASSUME NEW r \in Replica, Restart(r) PROVE Windows'
  BY <1>5, RestartWindows
<1>6. CASE Tick
  BY <1>6, TickWindows
<1>7. ASSUME NEW a \in Attempt, \/ AssertNotLocked(a) \/ Verify(a) \/ FailMemory(a) \/ FailIncr(a) \/ FailExpire(a)
                                \/ SetLock(a) \/ ClearMemory(a) \/ ClearFails(a) \/ Unlock(a) \/ Fail(a)
      PROVE  UNCHANGED <<bucket, counters, passed, admitted, forgotten>>
  BY <1>7 DEF AssertNotLocked, Verify, FailMemory, FailIncr, FailExpire, SetLock, ClearMemory,
              ClearFails, Unlock, Fail
<1>8. Finished => UNCHANGED <<bucket, counters, passed, admitted, forgotten>>
  BY DEF Finished, vars
<1> QED
  BY <1>1, <1>2, <1>3, <1>4, <1>5, <1>6, <1>7, <1>8, WindowsStay DEF Next, Serve

LEMMA InitIInv == Init => IInv
<1> SUFFICES ASSUME Init PROVE IInv
  OBVIOUS
<1>1. TypeOK
  <2>1. 0 \in Nat /\ Old(RequestWindow) \in 0..Old(RequestWindow) /\ Old(Window) \in 0..Old(Window)
    BY Settings DEF Old
  <2> QED
    BY <2>1 DEF Init, TypeOK, Steps
<1>2. IsFiniteSet(Begun) /\ Begun = {}
  <2>1. Begun = {}
    BY DEF Init, Begun
  <2> QED
    BY <2>1, FS_EmptySet
<1>3. \A a \in Attempt : ~(passed[a] <= RequestWindow) /\ ~(admitted[a] <= Window) /\ ~(admitted[a] <= Window - 1)
  BY Settings DEF Init, Old
<1>4. NotYet
  BY DEF Init, NotYet
<1>5. Tracked
  BY <1>1, <1>3 DEF Init, Tracked
<1>6. MemoryWindows
  <2>1. /\ \A r, h : {a \in FromHost(r, h) : passed[a] <= RequestWindow} = {}
        /\ \A r, k : {a \in WithKey(r, k) : admitted[a] <= Window} = {}
    BY <1>3 DEF FromHost, WithKey
  <2> QED
    BY <2>1, FS_EmptySet, Settings DEF MemoryWindows, Recent
<1>7. RedisWindow
  <2>1. \A k \in Key : hits[k] = 0 /\ hitsLeft[k] = None
    BY DEF Init
  <2>2. \A k \in Key : Young(k) = {}
    BY <1>3 DEF Young
  <2> QED
    BY <2>1, <2>2, FS_EmptySet, Settings DEF RedisWindow
<1>8. BrokenIsOver /\ CounterExpires
  BY Places DEF Init, BrokenIsOver, CounterExpires
<1>9. Failures /\ LockDue /\ LockIsEarned
  BY FS_EmptySet, NotNone DEF Init, Failures, LockDue, LockIsEarned, Locked
<1> QED
  BY <1>1, <1>2, <1>4, <1>5, <1>6, <1>7, <1>8, <1>9 DEF IInv, Windows

LEMMA NextIInv == IInv /\ [Next]_vars => IInv'
<1> SUFFICES ASSUME IInv, [Next]_vars PROVE IInv'
  OBVIOUS
<1>1. CASE Next
  <2>1. TypeOK' /\ IsFiniteSet(Begun)' /\ Windows'
    BY <1>1, TypeNext, Onward, WindowsNext DEF IInv
  <2>2. BrokenIsOver' /\ CounterExpires'
    BY <1>1, BrokenNext, CounterNext DEF IInv
  <2>3. Failures' /\ LockDue' /\ LockIsEarned'
    BY <1>1, LockoutNext DEF IInv, Lockout
  <2> QED
    BY <2>1, <2>2, <2>3 DEF IInv
<1>2. CASE UNCHANGED vars
  <2>0. /\ UNCHANGED <<backend, home, key, pc, bucket, hits, hitsLeft, fails, failsLeft>>
        /\ UNCHANGED <<lock, since, late, passed, admitted, forgotten, brokeAt>>
    BY <1>2 DEF vars, given, counters, lockout
  <2>1. TypeOK' /\ IsFiniteSet(Begun)'
    BY <2>0 DEF IInv, TypeOK, Begun
  <2>2. NotYet' /\ Tracked'
    BY <2>0 DEF IInv, Windows, NotYet, Tracked, Begun, Counted, host, InMemory
  <2>3. MemoryWindows'
    BY <2>0 DEF IInv, Windows, MemoryWindows, FromHost, WithKey, host, Recent, InMemory
  <2>4. RedisWindow'
    <3>1. Counted \subseteq Counted'
      BY <2>0 DEF Counted
    <3> QED
      BY <2>0, <3>1, RedisStays DEF IInv, Windows, given, counters
  <2>5. BrokenIsOver' /\ CounterExpires'
    BY <2>0 DEF IInv, BrokenIsOver, CounterExpires, Expiring, email
  <2>6. Failures' /\ LockDue' /\ LockIsEarned'
    BY <2>0 DEF IInv, Failures, LockDue, LockIsEarned, Locked, Expiring, email
  <2> QED
    BY <2>1, <2>2, <2>3, <2>4, <2>5, <2>6 DEF IInv, Windows
<1> QED
  BY <1>1, <1>2

LEMMA AlwaysIInv == Spec => []IInv
<1>1. Init => IInv
  BY InitIInv
<1>2. IInv /\ [Next]_vars => IInv'
  BY NextIInv
<1> QED
  BY <1>1, <1>2, PTL DEF Spec

\* All counters, windows and locks keep their types: a lock never lasts longer
\* than the setting, nor a key its window.
THEOREM TypeCorrect == Spec => []TypeOK
<1>1. IInv => TypeOK
  BY DEF IInv
<1> QED
  BY <1>1, AlwaysIInv, PTL

LEMMA WindowsHold == IInv => WindowHolds
<1> SUFFICES ASSUME IInv PROVE WindowHolds
  OBVIOUS
<1>1. TypeOK /\ IsFiniteSet(Begun) /\ Windows
  BY DEF IInv
<1>2. ASSUME NEW r \in Replica, NEW h \in Source
      PROVE  Recent({a \in Attempt \ forgotten : home[a] = r /\ host(a) = h}, passed, RequestWindow) <= RequestLimit
  BY <1>1 DEF Windows, MemoryWindows, FromHost
<1>3. ASSUME NEW k \in Key, InMemory, NEW r \in Replica
      PROVE  Recent({a \in Attempt \ forgotten : home[a] = r /\ key[a] = k}, admitted, Window) <= Limit
  BY <1>1, <1>3 DEF Windows, MemoryWindows, WithKey
<1>4. ASSUME NEW k \in Key, ~InMemory
      PROVE  Recent({a \in Attempt : key[a] = k}, admitted, Window - 1) <= 2 * Limit - 1
  <2>1. {a \in {b \in Attempt : key[b] = k} : admitted[a] <= Window - 1} = Young(k)
    BY DEF Young
  <2>2. IsFiniteSet(Young(k)) /\ Young(k) \subseteq Counted
    BY <1>1, RecentFinite
  <2>3. Cardinality(Young(k)) <= 2 * Limit - 1
    <3>1. CASE hits[k] = 0
      <4>1. Cardinality(Young(k)) <= Limit - 1 /\ Cardinality(Young(k)) \in Nat
        BY <1>1, <1>4, <2>2, <3>1, FS_CardinalityType DEF Windows, RedisWindow
      <4> QED
        BY <4>1, Settings
    <3>2. CASE hits[k] # 0
      <4>1. PICK T \in SUBSET Counted : \E f \in T : OpenWindow(k, T, f)
        BY <1>1, <1>4, <3>2 DEF Windows, RedisWindow
      <4>2. Cardinality(T) <= Limit /\ Cardinality(Young(k) \ T) <= Limit - 1
        BY <4>1 DEF OpenWindow
      <4>3. IsFiniteSet(T) /\ IsFiniteSet(Young(k) \ T)
        BY <1>1, <2>2, <4>1, RecentFinite, FS_Subset
      <4>4. /\ IsFiniteSet(T \cup (Young(k) \ T))
            /\ Cardinality(T \cup (Young(k) \ T)) = Cardinality(T) + Cardinality(Young(k) \ T) - Cardinality({})
        <5>1. T \cap (Young(k) \ T) = {}
          OBVIOUS
        <5> QED
          BY <4>3, <5>1, FS_Union
      <4>5. Cardinality(T) \in Nat /\ Cardinality(Young(k) \ T) \in Nat /\ Cardinality({}) = 0
        BY <4>3, FS_CardinalityType, FS_EmptySet
      <4>6. Cardinality(T \cup (Young(k) \ T)) <= 2 * Limit - 1 /\ 2 * Limit - 1 \in Nat
        BY <4>2, <4>4, <4>5, Settings
      <4>7. Young(k) \subseteq T \cup (Young(k) \ T)
        OBVIOUS
      <4> QED
        BY <4>4, <4>6, <4>7, Fewer
    <3> QED
      BY <3>1, <3>2
  <2> QED
    BY <2>1, <2>3 DEF Recent
<1> QED
  BY <1>2, <1>3, <1>4 DEF WindowHolds

\* The limits of the middleware and of the auth limiter hold in every window;
\* with Redis two windows together let through one less than twice the limit.
THEOREM WindowCorrect == Spec => []WindowHolds
BY AlwaysIInv, WindowsHold, PTL

\* A counter in Redis stays for ever only if its INCR was never followed by its
\* EXPIRE.
THEOREM CounterCorrect == Spec => []CounterExpires
<1>1. IInv => CounterExpires
  BY DEF IInv
<1> QED
  BY <1>1, AlwaysIInv, PTL

\* An account is locked for as many failures as the setting says since the last
\* clearing, or by one of the two crossings of Redis commands.
THEOREM LockCorrect == Spec => []LockIsEarned
<1>1. IInv => LockIsEarned
  BY DEF IInv
<1> QED
  BY <1>1, AlwaysIInv, PTL
=============================================================================
