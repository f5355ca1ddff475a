------------------------------- MODULE Sessions -------------------------------
(***************************************************************************)
(* Login sessions (security/sessions.py) and the requests that use and     *)
(* revoke them (services/auth_service.py).                                 *)
(*                                                                         *)
(* A session is a key with an expiry; a set per user lists the user's      *)
(* sessions so that all can be revoked, and has an expiry of its own.      *)
(* In Redis every command is one action; a request may break off between   *)
(* any two.  Time is counted in fractions of SESSION_TTL_SECONDS (days),   *)
(* on which scale a request takes none.  The store in memory, of one       *)
(* process, takes the same steps, but a method once begun is finished      *)
(* before anybody else moves, and nothing ever expires.                    *)
(***************************************************************************)
EXTENDS Naturals

CONSTANTS User,
          Login,       \* login requests, password or OAuth; each names the session it creates
          Client,      \* other requests
          TTL          \* SESSION_TTL_SECONDS

ASSUME SessionsAssumption == TTL \in Nat \ {0} /\ Login \cap Client = {}

Request == Login \cup Client
Lasting == TTL + 1     \* the time left of a key that has no expiry

Revoking == {"logout_all", "reset"}

VARIABLES backend,   \* SESSION_BACKEND
          user,      \* the account of a login, or of a reset's token
          kind,      \* what a client asks for
          pc,
          sid,       \* the session a request is handling
          todo,      \* sessions a request has yet to delete
          entry,     \* time left of session:<id>, 0 when it is not there
          index,     \* members of session_user:<id>
          expiry,    \* time left of session_user:<id>
          older,     \* history: the user's logins verified before a revocation began
          covered,   \* history: members a revocation found in the index
          crossing,  \* history: those that had not been listed when it read the index
          revived,   \* history: sessions written back after their deletion
          lost       \* history: sessions that dropped out of the index but were not deleted

store == <<entry, index, expiry>>
given == <<backend, user, kind>>
history == <<older, covered, crossing, revived, lost>>
vars == <<given, pc, sid, todo, store, history>>

Init == /\ backend \in {"memory", "redis"}
        /\ user \in [Request -> User]
        /\ kind \in [Client -> {"use", "logout"} \cup Revoking]
        /\ pc = [r \in Request |-> "idle"]
        /\ sid \in [Client -> Login]
        /\ todo = [c \in Client |-> {}]
        /\ entry = [s \in Login |-> 0]
        /\ index = [u \in User |-> {}]
        /\ expiry = [u \in User |-> 0]
        /\ older = [c \in Client |-> {}]
        /\ covered = [c \in Client |-> {}]
        /\ crossing = [c \in Client |-> {}]
        /\ revived = {}
        /\ lost = {}

Ended == {"done", "denied", "failed", "unlisted"}
InFlight(r) == pc[r] \notin Ended \cup {"idle"}

GoTo(r, from, to) == pc[r] = from /\ pc' = [pc EXCEPT ![r] = to]

\* Who is in the middle of a method of the store.
Inside(r) == \/ pc[r] \in {"list", "expire", "write", "drop", "drop_gone", "unlist", "drop_index"}
             \/ pc[r] = "read" /\ kind[r] \in Revoking

\* Whose sessions a client's request is about.  (No code here disables or
\* removes an account, so a session that is found resolves.)
Account(c) == IF kind[c] = "reset" THEN user[c] ELSE user[sid[c]]
-----------------------------------------------------------------------------
(* AuthService.login, login_with_oauth; RedisSessionStore.create. *)

\* The password, or the provider, is right or not.
Verify(l) == /\ \E to \in {"create", "denied"} : GoTo(l, "idle", to)
             /\ UNCHANGED <<given, sid, todo, store, history>>

MutCreate(l) == /\ GoTo(l, "create", "expire")        \* mutant: not listed for its user
                /\ entry' = [entry EXCEPT ![l] = TTL]
                /\ UNCHANGED <<given, sid, todo, index, expiry, history>>

Create(l) == /\ GoTo(l, "create", "list")
             /\ entry' = [entry EXCEPT ![l] = TTL]
             /\ UNCHANGED <<given, sid, todo, index, expiry, history>>

\* A set that is made by its first member has no expiry yet.
List(l) == LET u == user[l]
           IN  /\ GoTo(l, "list", "expire")
               /\ index' = [index EXCEPT ![u] = @ \cup {l}]
               /\ expiry' = [expiry EXCEPT ![u] = IF index[u] = {} THEN Lasting ELSE @]
               /\ UNCHANGED <<given, sid, todo, entry, history>>

\* EXPIRE does nothing for a key that is gone.  The audit record that follows
\* may fail: the session is there and its cookie is never sent.
Expire(l) == LET u == user[l]
             IN  /\ \E to \in {"done", "failed"} : GoTo(l, "expire", to)
                 /\ expiry' = [expiry EXCEPT ![u] = IF index[u] = {} THEN 0 ELSE TTL]
                 /\ UNCHANGED <<given, sid, todo, entry, index, history>>
-----------------------------------------------------------------------------
(* AuthService.resolve_session, which every request with a cookie begins    *)
(* with: it reads the session and the user, then touches the session, which *)
(* is to read it again and write it back with a full expiry.                *)

Answered == {l \in Login : pc[l] = "done"}

\* What follows once the session is resolved.
Resolved(c) == CASE kind[c] = "use" -> "done"
                 [] kind[c] = "logout" -> "read"
                 [] OTHER -> "members"

Verified(u) == {l \in Login : user[l] = u /\ pc[l] \notin {"idle", "denied"}}
Remember(c) == older' = [older EXCEPT ![c] = IF kind[c] \in Revoking THEN Verified(Account(c)) ELSE @]

\* Logout deletes the session it was given whether it resolves or not.
Present(c) == /\ kind[c] # "reset"
              /\ sid[c] \in Answered
              /\ GoTo(c, "idle", IF entry[sid[c]] > 0 THEN "check"
                                 ELSE IF kind[c] = "logout" THEN "read" ELSE "denied")
              /\ todo' = [todo EXCEPT ![c] = IF kind[c] = "logout" THEN {sid[c]} ELSE {}]
              /\ Remember(c)
              /\ UNCHANGED <<given, sid, store, covered, crossing, revived, lost>>

TouchRead(c) == /\ GoTo(c, "check", IF entry[sid[c]] > 0 THEN "write" ELSE Resolved(c))
                /\ UNCHANGED <<given, sid, todo, store, history>>

TouchWrite(c) == /\ GoTo(c, "write", Resolved(c))
                 /\ entry' = [entry EXCEPT ![sid[c]] = TTL]
                 /\ revived' = revived \cup (IF entry[sid[c]] = 0 THEN {sid[c]} ELSE {})
                 /\ UNCHANGED <<given, sid, todo, index, expiry, older, covered, crossing, lost>>
-----------------------------------------------------------------------------
(* RedisSessionStore.delete and delete_all_for_user.                        *)

\* A reset whose token was accepted has set the password before it revokes.
Reset(c) == /\ kind[c] = "reset"
            /\ \E to \in {"members", "denied"} : GoTo(c, "idle", to)
            /\ Remember(c)
            /\ UNCHANGED <<given, sid, todo, store, covered, crossing, revived, lost>>

\* Where deleting goes on when ids are left to delete.
Deleting(c, ids) == IF ids # {} THEN "read" ELSE IF kind[c] = "logout" THEN "done" ELSE "drop_index"

Unlisted(c) == {l \in older[c] : pc[l] \in {"create", "list"}}

MutMembers(c) == /\ GoTo(c, "members", Deleting(c, {}))    \* mutant: only the index is dropped
                 /\ covered' = [covered EXCEPT ![c] = index[Account(c)]]
                 /\ crossing' = [crossing EXCEPT ![c] = Unlisted(c)]
                 /\ UNCHANGED <<given, sid, todo, store, older, revived, lost>>

Members(c) == LET found == index[Account(c)]
              IN  /\ GoTo(c, "members", Deleting(c, found))
                  /\ todo' = [todo EXCEPT ![c] = found]
                  /\ covered' = [covered EXCEPT ![c] = found]
                  /\ crossing' = [crossing EXCEPT ![c] = Unlisted(c)]
                  /\ UNCHANGED <<given, sid, store, older, revived, lost>>

\* The next session is read, to learn its user.
Read(c) == /\ pc[c] = "read"
           /\ \E s \in todo[c] :
                 /\ sid' = [sid EXCEPT ![c] = s]
                 /\ todo' = [todo EXCEPT ![c] = @ \ {s}]
                 /\ pc' = [pc EXCEPT ![c] = IF entry[s] > 0 THEN "drop" ELSE "drop_gone"]
           /\ UNCHANGED <<given, store, history>>

Drop(c) == /\ pc[c] \in {"drop", "drop_gone"}
           /\ entry' = [entry EXCEPT ![sid[c]] = 0]
           /\ pc' = [pc EXCEPT ![c] = IF pc[c] = "drop" THEN "unlist" ELSE Deleting(c, todo[c])]
           /\ UNCHANGED <<given, sid, todo, index, expiry, history>>

Unlist(c) == LET u == user[sid[c]]
             IN  /\ GoTo(c, "unlist", Deleting(c, todo[c]))
                 /\ index' = [index EXCEPT ![u] = @ \ {sid[c]}]
                 /\ expiry' = [expiry EXCEPT ![u] = IF index'[u] = {} THEN 0 ELSE @]
                 /\ UNCHANGED <<given, sid, todo, entry, history>>

DropIndex(c) == LET u == Account(c)
                IN  /\ GoTo(c, "drop_index", "done")
                    /\ index' = [index EXCEPT ![u] = {}]
                    /\ expiry' = [expiry EXCEPT ![u] = 0]
                    /\ lost' = lost \cup (index[u] \ covered[c])
                    /\ UNCHANGED <<given, sid, todo, entry, older, covered, crossing, revived>>
-----------------------------------------------------------------------------
\* A call raised, or a replica ended.  In memory no method raises.
Fail(r) == /\ InFlight(r)
           /\ backend = "memory" => ~Inside(r)
           /\ pc' = [pc EXCEPT ![r] = IF pc[r] = "list" THEN "unlisted" ELSE "failed"]
           /\ UNCHANGED <<given, sid, todo, store, history>>

\* The process that keeps the sessions in memory starts over.
Restart == /\ backend = "memory"
           /\ \A r \in Request : ~Inside(r)
           /\ entry # [s \in Login |-> 0]
           /\ pc' = [r \in Request |-> IF InFlight(r) THEN "failed" ELSE pc[r]]
           /\ entry' = [s \in Login |-> 0]
           /\ index' = [u \in User |-> {}]
           /\ expiry' = [u \in User |-> 0]
           /\ UNCHANGED <<given, sid, todo, history>>

Left(n) == IF n \in 1..TTL THEN n - 1 ELSE n

\* Keys whose time is over are gone.  (In memory the lifetime is kept with the
\* session and never looked at.)
Tick == /\ backend = "redis"
        /\ \A r \in Request : ~InFlight(r)
        /\ entry' = [s \in Login |-> Left(entry[s])]
        /\ expiry' = [u \in User |-> Left(expiry[u])]
        /\ index' = [u \in User |-> IF expiry'[u] = 0 THEN {} ELSE index[u]]
        /\ lost' = lost \cup UNION {index[u] \ index'[u] : u \in User}
        /\ <<entry, expiry>>' # <<entry, expiry>>
        /\ UNCHANGED <<given, pc, sid, todo, older, covered, crossing, revived>>

Step(r) == \/ r \in Login /\ (Verify(r) \/ Create(r) \/ List(r) \/ Expire(r))
           \/ r \in Client /\ (\/ Present(r) \/ Reset(r) \/ TouchRead(r) \/ TouchWrite(r)
                               \/ Members(r) \/ Read(r) \/ Drop(r) \/ Unlist(r) \/ DropIndex(r))

Undisturbed(r) == backend = "memory" => \A q \in Request \ {r} : ~Inside(q)

\* Nobody is on the way, and time changes nothing any more.
Finished == /\ \A r \in Request : ~InFlight(r)
            /\ backend = "memory" \/ \A s \in Login : entry[s] = 0
            /\ UNCHANGED vars

Next == \/ \E r \in Request : Undisturbed(r) /\ (Step(r) \/ Fail(r))
        \/ Restart
        \/ Tick
        \/ Finished

Spec == Init /\ [][Next]_vars
-----------------------------------------------------------------------------
TypeOK ==
  /\ backend \in {"memory", "redis"}
  /\ user \in [Request -> User]
  /\ kind \in [Client -> {"use", "logout"} \cup Revoking]
  /\ pc \in [Request -> Ended \cup {"idle", "create", "list", "expire", "check", "write",
                                    "members", "read", "drop", "drop_gone", "unlist", "drop_index"}]
  /\ sid \in [Client -> Login]
  /\ todo \in [Client -> SUBSET Login]
  /\ entry \in [Login -> 0..TTL]
  /\ index \in [User -> SUBSET Login]
  /\ expiry \in [User -> 0..Lasting]
  /\ older \in [Client -> SUBSET Login]
  /\ covered \in [Client -> SUBSET Login]
  /\ crossing \in [Client -> SUBSET Login]
  /\ revived \subseteq Login
  /\ lost \subseteq Login

\* A session that works is in its user's index, where a revocation will find
\* it, but for four windows: its login has not got to listing it, or broke off
\* before; a touch wrote it back after its deletion; the index expired first,
\* since touches extend the session and not the index; or a revocation that
\* had read the index before the session was listed deleted the index.  In
\* memory there is none but the first, which nobody sees.
Escaped(s) == /\ backend = "redis"
              /\ s \in revived \cup lost \/ pc[s] = "unlisted"

LiveIsListed ==
  \A s \in Login : entry[s] > 0 => s \in index[user[s]] \/ pc[s] = "list" \/ Escaped(s)

\* "Revoke every session for a user" (sessions.py:39), as far as it goes: when
\* logout-all or a password reset is done, what works of the sessions whose
\* login was verified before it began, for a reset by the old password, was
\* not listed yet when the index was read, or is one that can escape in
\* Redis.  No login, logout or revocation beside it, and no request breaking
\* off, adds to that.
RevokesListed ==
  \A c \in Client : kind[c] \in Revoking /\ pc[c] = "done" =>
     \A s \in older[c] : entry[s] > 0 => s \in crossing[c] \/ Escaped(s)

=============================================================================
