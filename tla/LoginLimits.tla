----------------------------- MODULE LoginLimits -----------------------------
(***************************************************************************)
(* What bounds password logins: the sliding window over all requests of a  *)
(* client (middleware/rate_limit.py), the auth rate limiter and the        *)
(* lockout after failures (security/auth_limits.py), on the way of         *)
(* POST /login (api/auth.py, services/auth_service.py).                    *)
(*                                                                         *)
(* In memory, limiter and lockout belong to a replica and every method is  *)
(* one step.  With Redis they are keys with an expiry which all replicas   *)
(* share, and every command is one step.  A request may break off between  *)
(* any two steps, and time may pass.                                       *)
(***************************************************************************)
EXTENDS Naturals, FiniteSets

CONSTANTS Attempt,        \* login requests
          Source,         \* client hosts
          Email,
          Replica,
          RequestLimit,   \* RATE_LIMIT_REQUESTS
          RequestWindow,  \* RATE_LIMIT_WINDOW_SECONDS, in ticks
          Limit,          \* AUTH_RATE_LIMIT_REQUESTS
          Window,         \* AUTH_RATE_LIMIT_WINDOW_SECONDS, in ticks
          MaxFailures,    \* AUTH_LOGIN_MAX_FAILURES
          LockFor,        \* AUTH_LOCKOUT_SECONDS, in ticks
          Redis,          \* the place of the shared counters
          None

ASSUME LimitsAssumption ==
  /\ {RequestLimit, RequestWindow, Limit, Window, MaxFailures, LockFor} \subseteq Nat \ {0}
  /\ Redis \notin Replica
  /\ Source \cap (Source \X Email) = {}
  /\ None \notin Attempt \cup Nat \cup {"expire", "expire_fails", "unlock"}

Key == Source \X Email
Place == Replica \cup {Redis}
Old(window) == window + 1      \* an age that counts no more

VARIABLES
  backend,     \* SESSION_BACKEND
  home,        \* the replica an attempt reaches
  key,         \* its client host and address
  pc,
  bucket,      \* the requests in a replica's windows
  hits,        \* auth_rl:<key>
  hitsLeft,    \* its expiry: None when it has none, or there is no key
  fails,       \* failures by place and address
  failsLeft,   \* the expiry of auth_fail:<email>
  lock,        \* time left of a lock; in memory an expired one stays, as 0
  passed,      \* ages of the requests the middleware let through, old when it did not
  admitted,    \* ages of those the limiter let through
  \* History.
  forgotten,   \* attempts before the last restart of their replica
  since,       \* attempts counted as failures since they were last cleared
  late,        \* attempts that set a lock after their failure had been cleared
  brokeAt      \* where a request broke off, if between two commands that belong together

given == <<backend, home, key>>
counters == <<hits, hitsLeft>>
lockout == <<fails, failsLeft, lock, since, late>>
vars == <<given, pc, bucket, counters, lockout, passed, admitted, forgotten, brokeAt>>

Init == /\ backend \in {"memory", "redis"}
        /\ home \in [Attempt -> Replica]
        /\ key \in [Attempt -> Key]
        /\ pc = [a \in Attempt |-> "idle"]
        /\ bucket = [r \in Replica |-> [k \in Source \cup Key |-> {}]]
        /\ hits = [k \in Key |-> 0]
        /\ hitsLeft = [k \in Key |-> None]
        /\ fails = [p \in Place |-> [e \in Email |-> 0]]
        /\ failsLeft = [e \in Email |-> None]
        /\ lock = [p \in Place |-> [e \in Email |-> None]]
        /\ passed = [a \in Attempt |-> Old(RequestWindow)]
        /\ admitted = [a \in Attempt |-> Old(Window)]
        /\ forgotten = {}
        /\ since = [p \in Place |-> [e \in Email |-> {}]]
        /\ late = {}
        /\ brokeAt = [a \in Attempt |-> None]

InFlight(a) == pc[a] \notin {"idle", "over"}
GoTo(a, from, to) == pc[a] = from /\ pc' = [pc EXCEPT ![a] = to]

host(a) == key[a][1]
email(a) == key[a][2]
InMemory == backend = "memory"
At(a) == IF InMemory THEN home[a] ELSE Redis
-----------------------------------------------------------------------------
(* The windows. *)

\* Requests that are too old are dropped from the bucket; a full one refuses.
Kept(r, k, age, window) == {a \in bucket[r][k] : age[a] <= window}

MutSlide(a, k, age, window, limit, from, to) ==         \* mutant: one too many
  LET r == home[a]
      kept == Kept(r, k, age, window)
      full == Cardinality(kept) > limit
  IN  /\ GoTo(a, from, IF full THEN "over" ELSE to)
      /\ bucket' = [bucket EXCEPT ![r][k] = IF full THEN kept ELSE kept \cup {a}]

Slide(a, k, age, window, limit, from, to) ==
  LET r == home[a]
      kept == Kept(r, k, age, window)
      full == Cardinality(kept) >= limit
  IN  /\ GoTo(a, from, IF full THEN "over" ELSE to)
      /\ bucket' = [bucket EXCEPT ![r][k] = IF full THEN kept ELSE kept \cup {a}]

Stamped(ages, a, to) == [ages EXCEPT ![a] = IF pc'[a] = to THEN 0 ELSE @]

Dispatch(a) == /\ Slide(a, host(a), passed, RequestWindow, RequestLimit, "idle", "check")
               /\ passed' = Stamped(passed, a, "check")
               /\ UNCHANGED <<given, counters, lockout, admitted, forgotten, brokeAt>>

CheckMemory(a) == /\ InMemory
                  /\ Slide(a, key[a], admitted, Window, Limit, "check", "assert")
                  /\ admitted' = Stamped(admitted, a, "assert")
                  /\ UNCHANGED <<given, counters, lockout, passed, forgotten, brokeAt>>

MutIncr(a) ==                               \* mutant: the first refused sets the expiry
  LET n == hits[key[a]] + 1
  IN  /\ ~InMemory
      /\ GoTo(a, "check", CASE n = Limit + 1 -> "expire" [] n > Limit -> "over" [] OTHER -> "assert")
      /\ hits' = [hits EXCEPT ![key[a]] = n]
      /\ admitted' = [admitted EXCEPT ![a] = IF n <= Limit THEN 0 ELSE @]
      /\ UNCHANGED <<given, bucket, hitsLeft, lockout, passed, forgotten, brokeAt>>

\* INCR keeps the expiry of a key that is there; the first one goes on to set it.
Incr(a) == LET n == hits[key[a]] + 1
           IN  /\ ~InMemory
               /\ GoTo(a, "check", CASE n = 1 -> "expire" [] n > Limit -> "over" [] OTHER -> "assert")
               /\ hits' = [hits EXCEPT ![key[a]] = n]
               /\ admitted' = [admitted EXCEPT ![a] = IF n <= Limit THEN 0 ELSE @]
               /\ UNCHANGED <<given, bucket, hitsLeft, lockout, passed, forgotten, brokeAt>>

\* EXPIRE does nothing for a key that is gone.
Expire(a) == /\ GoTo(a, "expire", "assert")
             /\ hitsLeft' = [hitsLeft EXCEPT ![key[a]] = IF hits[key[a]] = 0 THEN None ELSE Window]
             /\ UNCHANGED <<given, bucket, hits, lockout, passed, admitted, forgotten, brokeAt>>
-----------------------------------------------------------------------------
(* AuthService.login and LoginLockoutStore. *)

Locked(p, e) == lock[p][e] \notin {None, 0}

Forget(p, e) == /\ fails' = [fails EXCEPT ![p][e] = 0]
                /\ since' = [since EXCEPT ![p][e] = {}]

\* assert_not_locked.  In memory a lock that is over goes with its failures.
AssertNotLocked(a) ==
  LET p == At(a)
      e == email(a)
  IN  /\ GoTo(a, "assert", IF Locked(p, e) THEN "over" ELSE "verify")
      /\ lock' = [lock EXCEPT ![p][e] = IF Locked(p, e) THEN @ ELSE None]
      /\ IF lock[p][e] = 0 THEN Forget(p, e) ELSE UNCHANGED <<fails, since>>
      /\ UNCHANGED <<given, bucket, counters, failsLeft, late, passed, admitted, forgotten, brokeAt>>

\* The password is wrong, or right, or right and the account disabled.
Verify(a) == /\ \E to \in {"wrong", "clear", "over"} : GoTo(a, "verify", to)
             /\ UNCHANGED <<given, bucket, counters, lockout, passed, admitted, forgotten, brokeAt>>

\* record_failure; the audit record and the refusal follow.
FailMemory(a) ==
  LET p == home[a]
      e == email(a)
      n == fails[p][e] + 1
  IN  /\ InMemory
      /\ GoTo(a, "wrong", "over")
      /\ since' = [since EXCEPT ![p][e] = @ \cup {a}]
      /\ IF n < MaxFailures
         THEN /\ fails' = [fails EXCEPT ![p][e] = n]
              /\ UNCHANGED lock
         ELSE /\ fails' = [fails EXCEPT ![p][e] = 0]
              /\ lock' = [lock EXCEPT ![p][e] = LockFor]
      /\ UNCHANGED <<given, bucket, counters, failsLeft, late, passed, admitted, forgotten, brokeAt>>

AfterCount(n) == IF n >= MaxFailures THEN "lock" ELSE "over"

FailIncr(a) ==
  LET e == email(a)
      n == fails[Redis][e] + 1
  IN  /\ ~InMemory
      /\ GoTo(a, "wrong", IF n = 1 THEN "expire_fails" ELSE AfterCount(n))
      /\ fails' = [fails EXCEPT ![Redis][e] = n]
      /\ since' = [since EXCEPT ![Redis][e] = @ \cup {a}]
      /\ UNCHANGED <<given, bucket, counters, failsLeft, lock, late, passed, admitted, forgotten, brokeAt>>

FailExpire(a) ==
  LET e == email(a)
  IN  /\ GoTo(a, "expire_fails", AfterCount(1))
      /\ failsLeft' = [failsLeft EXCEPT ![e] = IF fails[Redis][e] = 0 THEN None ELSE LockFor]
      /\ UNCHANGED <<given, bucket, counters, fails, lock, since, late, passed, admitted, forgotten, brokeAt>>

MutSetLock(a) == /\ GoTo(a, "lock", "over")       \* mutant: the lock lasts longer than the setting
                 /\ lock' = [lock EXCEPT ![Redis][email(a)] = LockFor + 1]
                 /\ late' = IF a \in since[Redis][email(a)] THEN late ELSE late \cup {a}
                 /\ UNCHANGED <<given, bucket, counters, fails, failsLeft, since, passed, admitted, forgotten, brokeAt>>

SetLock(a) == /\ GoTo(a, "lock", "over")
              /\ lock' = [lock EXCEPT ![Redis][email(a)] = LockFor]
              /\ late' = IF a \in since[Redis][email(a)] THEN late ELSE late \cup {a}
              /\ UNCHANGED <<given, bucket, counters, fails, failsLeft, since, passed, admitted, forgotten, brokeAt>>

MutClearMemory(a) == /\ InMemory              \* mutant: failures outlive a login
                     /\ GoTo(a, "clear", "over")
                     /\ since' = [since EXCEPT ![home[a]][email(a)] = {}]
                     /\ lock' = [lock EXCEPT ![home[a]][email(a)] = None]
                     /\ UNCHANGED <<given, bucket, counters, fails, failsLeft, late, passed, admitted, forgotten, brokeAt>>

\* clear_failures.  In Redis the two keys are deleted one after the other.
ClearMemory(a) == /\ InMemory
                  /\ GoTo(a, "clear", "over")
                  /\ Forget(home[a], email(a))
                  /\ lock' = [lock EXCEPT ![home[a]][email(a)] = None]
                  /\ UNCHANGED <<given, bucket, counters, failsLeft, late, passed, admitted, forgotten, brokeAt>>

ClearFails(a) == /\ ~InMemory
                 /\ GoTo(a, "clear", "unlock")
                 /\ Forget(Redis, email(a))
                 /\ failsLeft' = [failsLeft EXCEPT ![email(a)] = None]
                 /\ UNCHANGED <<given, bucket, counters, lock, late, passed, admitted, forgotten, brokeAt>>

Unlock(a) == /\ GoTo(a, "unlock", "over")
             /\ lock' = [lock EXCEPT ![Redis][email(a)] = None]
             /\ UNCHANGED <<given, bucket, counters, fails, failsLeft, since, late, passed, admitted, forgotten, brokeAt>>
-----------------------------------------------------------------------------
Halfway == {"expire", "expire_fails", "unlock"}
Broken(a) == IF pc[a] \in Halfway THEN pc[a] ELSE None

\* A call raised, or the client's connection ended.
Fail(a) == /\ InFlight(a)
           /\ pc' = [pc EXCEPT ![a] = "over"]
           /\ brokeAt' = [brokeAt EXCEPT ![a] = Broken(a)]
           /\ UNCHANGED <<given, bucket, counters, lockout, passed, admitted, forgotten>>

\* A replica starts over: its memory is empty, its requests are lost.
Restart(r) ==
  LET lost == {a \in Attempt : home[a] = r /\ InFlight(a)}
  IN  /\ \/ lost # {}
         \/ fails[r] # [e \in Email |-> 0]
         \/ lock[r] # [e \in Email |-> None]
         \/ bucket[r] # [k \in Source \cup Key |-> {}]
      /\ pc' = [a \in Attempt |-> IF a \in lost THEN "over" ELSE pc[a]]
      /\ brokeAt' = [a \in Attempt |-> IF a \in lost THEN Broken(a) ELSE brokeAt[a]]
      /\ bucket' = [bucket EXCEPT ![r] = [k \in Source \cup Key |-> {}]]
      /\ fails' = [fails EXCEPT ![r] = [e \in Email |-> 0]]
      /\ lock' = [lock EXCEPT ![r] = [e \in Email |-> None]]
      /\ since' = [since EXCEPT ![r] = [e \in Email |-> {}]]
      /\ forgotten' = forgotten \cup {a \in Attempt : home[a] = r /\ pc[a] # "idle"}
      /\ UNCHANGED <<given, counters, failsLeft, late, passed, admitted>>

Older(n, window) == IF n = Old(window) THEN n ELSE n + 1
Left(n) == IF n = None \/ n <= 1 THEN None ELSE n - 1

\* Time passes: requests grow older, and keys whose time is over are gone.
Tick ==
  /\ hitsLeft' = [k \in Key |-> Left(hitsLeft[k])]
  /\ hits' = [k \in Key |-> IF hitsLeft[k] = 1 THEN 0 ELSE hits[k]]
  /\ failsLeft' = [e \in Email |-> Left(failsLeft[e])]
  /\ fails' = [fails EXCEPT ![Redis] = [e \in Email |-> IF failsLeft[e] = 1 THEN 0 ELSE @[e]]]
  /\ lock' = [p \in Place |-> [e \in Email |->
                IF p # Redis /\ lock[p][e] \in {0, 1} THEN 0 ELSE Left(lock[p][e])]]
  /\ passed' = [a \in Attempt |-> Older(passed[a], RequestWindow)]
  /\ admitted' = [a \in Attempt |-> Older(admitted[a], Window)]
  /\ <<counters, fails, failsLeft, lock, passed, admitted>>'
        # <<counters, fails, failsLeft, lock, passed, admitted>>
  /\ UNCHANGED <<given, pc, bucket, since, late, forgotten, brokeAt>>

\* Nobody is on the way.
Finished == (\A a \in Attempt : pc[a] = "over") /\ UNCHANGED vars

Serve(a) == \/ Dispatch(a) \/ CheckMemory(a) \/ Incr(a) \/ Expire(a)
            \/ AssertNotLocked(a) \/ Verify(a)
            \/ FailMemory(a) \/ FailIncr(a) \/ FailExpire(a) \/ SetLock(a)
            \/ ClearMemory(a) \/ ClearFails(a) \/ Unlock(a)

Next == \/ \E a \in Attempt : Serve(a) \/ Fail(a)
        \/ \E r \in Replica : Restart(r)
        \/ Tick
        \/ Finished

Spec == Init /\ [][Next]_vars
-----------------------------------------------------------------------------
Steps == {"idle", "check", "expire", "assert", "verify", "wrong", "expire_fails", "lock",
          "clear", "unlock", "over"}

TypeOK ==
  /\ backend \in {"memory", "redis"}
  /\ home \in [Attempt -> Replica]
  /\ key \in [Attempt -> Key]
  /\ pc \in [Attempt -> Steps]
  /\ bucket \in [Replica -> [Source \cup Key -> SUBSET Attempt]]
  /\ hits \in [Key -> Nat]
  /\ hitsLeft \in [Key -> 1..Window \cup {None}]
  /\ fails \in [Place -> [Email -> Nat]]
  /\ failsLeft \in [Email -> 1..LockFor \cup {None}]
  /\ lock \in [Place -> [Email -> 0..LockFor \cup {None}]]
  /\ passed \in [Attempt -> 0..Old(RequestWindow)]
  /\ admitted \in [Attempt -> 0..Old(Window)]
  /\ forgotten \subseteq Attempt
  /\ since \in [Place -> [Email -> SUBSET Attempt]]
  /\ late \subseteq Attempt
  /\ brokeAt \in [Attempt -> Halfway \cup {None}]

Recent(S, age, n) == Cardinality({a \in S : age[a] <= n})

\* The limits hold in every window of that length, wherever it begins: for a
\* replica's sliding windows exactly, but for the requests that it forgot in a
\* restart, which let as many again through; for Redis, whose window begins with
\* the first request after the last one ended, up to one less than twice the
\* limit, whatever restarts.
WindowHolds ==
  /\ \A r \in Replica, h \in Source :
        Recent({a \in Attempt \ forgotten : home[a] = r /\ host(a) = h}, passed, RequestWindow) <= RequestLimit
  /\ InMemory => \A r \in Replica, k \in Key :
        Recent({a \in Attempt \ forgotten : home[a] = r /\ key[a] = k}, admitted, Window) <= Limit
  /\ ~InMemory => \A k \in Key :
        Recent({a \in Attempt : key[a] = k}, admitted, Window - 1) <= 2 * Limit - 1

\* Who is or broke off between counting and setting the expiry of the counter.
Expiring(a, step) == pc[a] = step \/ brokeAt[a] = step

\* A counter in Redis that is there for ever, so that it once locks its key out
\* for ever, comes only from a request that counted first and broke off before
\* it had set the expiry: INCR and EXPIRE are two commands.
CounterExpires ==
  /\ \A k \in Key : hits[k] > 0 /\ hitsLeft[k] = None =>
        \E a \in Attempt : key[a] = k /\ Expiring(a, "expire")
  /\ \A e \in Email : fails[Redis][e] > 0 /\ failsLeft[e] = None =>
        \E a \in Attempt : email(a) = e /\ Expiring(a, "expire_fails")

\* An account is locked only for as many failures as the setting says, and a
\* right password wipes the slate.  With Redis two requests may cross it: one
\* that has counted sets the lock after the failures were cleared, or the one
\* that clears has deleted the count and not the lock.
LockIsEarned ==
  \A p \in Place, e \in Email : Locked(p, e) =>
     \/ Cardinality(since[p][e]) >= MaxFailures
     \/ p = Redis /\ \E a \in late : email(a) = e
     \/ p = Redis /\ \E a \in Attempt : email(a) = e /\ Expiring(a, "unlock")
=============================================================================
