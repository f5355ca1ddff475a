------------------------------- MODULE Accounts -------------------------------
(***************************************************************************)
(* Accounts and what is good for one use: verification and reset tokens    *)
(* (repositories/user_repository.py) and OAuth states                      *)
(* (security/sessions.py), with the requests of services/auth_service.py   *)
(* that issue and present them.                                            *)
(*                                                                         *)
(* In PostgreSQL and Redis every query and every commit is one action, and *)
(* a request may break off between any two.  The tables forbid a second    *)
(* row with the same address or the same identity (db/models.py:74-76,     *)
(* 102-104); the insert raises.  A store in memory, of one process, takes  *)
(* the same steps but does not suspend: nobody else moves between them.    *)
(* (When that process ends, all accounts are gone.)                        *)
(***************************************************************************)
EXTENDS Naturals, FiniteSets

CONSTANTS Issuer,      \* requests that issue a token, named like the token
          Bearer,      \* requests that present one
          Email,
          Identity,    \* an account with an OAuth provider
          None

ASSUME AccountsAssumption == /\ Issuer \cap Bearer = {}
                             /\ None \notin Issuer \cup Bearer \cup Email \cup Identity

Request == Issuer \cup Bearer

VARIABLES
  memory,      \* which of the stores, "users" and "sessions", are kept in memory
  \* The requests.
  pc,
  kind,        \* what a token is for, once its request began
  email,       \* the address a request is about
  identity,    \* who came back from the provider
  vouched,     \* callbacks whose provider says the address is verified
  carried,     \* the token a bearer presents
  account,     \* the account a request works on
  \* The tables and the OAuth states.
  owner,       \* users by address; an account is named by the request that created it
  verified,    \* accounts with email_verified_at
  password,    \* the request that chose the account's password
  link,        \* oauth_accounts
  token,       \* issued tokens
  \* History.
  together,    \* who had found a token unused when it was first used
  used         \* bearers that marked their token used

request == <<kind, email, identity, vouched, carried>>
tables == <<owner, verified, password, link>>
history == <<together, used>>
vars == <<memory, pc, request, account, tables, token, history>>

Kind == {"register", "forgot", "start"}

Init == /\ memory \in SUBSET {"users", "sessions"}
        /\ pc = [r \in Request |-> "idle"]
        /\ kind = [i \in Issuer |-> None]
        /\ email = [r \in Request |-> None]
        /\ identity = [b \in Bearer |-> None]
        /\ vouched = {}
        /\ carried = [b \in Bearer |-> None]
        /\ account = [r \in Request |-> None]
        /\ owner = [e \in Email |-> None]
        /\ verified = {}
        /\ password = [r \in Request |-> None]
        /\ link = [x \in Identity |-> None]
        /\ token = [i \in Issuer |-> "none"]
        /\ together = [i \in Issuer |-> {}]
        /\ used = {}

Ended == {"done", "denied", "failed"}
GoTo(r, from, to) == pc[r] = from /\ pc' = [pc EXCEPT ![r] = to]
Purpose(b) == kind[carried[b]]

\* How a request can end whose last calls go to these stores.
Ends(stores) == IF stores \subseteq memory THEN {"done"} ELSE {"done", "failed"}

\* Where what is good for one use is kept.
Keeper(k) == IF k = "start" THEN "sessions" ELSE "users"

\* Who is between two calls to a store that does not suspend.
Inside(r) ==
  \/ "users" \in memory /\ pc[r] \in {"insert", "issue", "verify", "set", "find", "look", "vouch",
                                      "check_link", "link"}
  \/ pc[r] = "use" /\ Keeper(Purpose(r)) \in memory
-----------------------------------------------------------------------------
(* Issuing: AuthService.register, request_password_reset; oauth_start.      *)

Begin(i, k, e) == /\ kind' = [kind EXCEPT ![i] = k]
                  /\ email' = [email EXCEPT ![i] = e]
                  /\ UNCHANGED <<identity, vouched, carried>>

\* create_user looks whether the address is taken.
Register(i, e) == /\ GoTo(i, "idle", IF owner[e] = None THEN "insert" ELSE "denied")
                  /\ Begin(i, "register", e)
                  /\ UNCHANGED <<account, tables, token, history>>

Forget(i, e) == /\ GoTo(i, "idle", IF owner[e] = None THEN "denied" ELSE "issue")
                /\ Begin(i, "forgot", e)
                /\ account' = [account EXCEPT ![i] = owner[e]]
                /\ UNCHANGED <<tables, token, history>>

\* The state is the only thing stored.
StartFlow(i) == /\ GoTo(i, "idle", "done")
                /\ Begin(i, "start", None)
                /\ token' = [token EXCEPT ![i] = "fresh"]
                /\ UNCHANGED <<account, tables, history>>

\* The audit record that follows may fail.
Issue(i) == /\ \E to \in Ends({"users"}) : GoTo(i, "issue", to)
            /\ token' = [token EXCEPT ![i] = "fresh"]
            /\ UNCHANGED <<request, account, tables, history>>
-----------------------------------------------------------------------------
(* Presenting: consume_email_verification_token,                            *)
(* consume_password_reset_token, pop_oauth_state.                           *)

Task == [register |-> "verify", forgot |-> "set", start |-> "find_link"]

MutPresent(b, i) ==                             \* mutant: used_at is not looked at
  /\ token[i] # "none"
  /\ GoTo(b, "idle", IF token[i] # "expired" THEN "use" ELSE "denied")
  /\ carried' = [carried EXCEPT ![b] = i]
  /\ UNCHANGED <<kind, email, identity, vouched, account, tables, token, history>>

\* The token is read; a used or an expired one is refused.
Present(b, i) == /\ token[i] # "none"
                 /\ GoTo(b, "idle", IF token[i] = "fresh" THEN "use" ELSE "denied")
                 /\ carried' = [carried EXCEPT ![b] = i]
                 /\ UNCHANGED <<kind, email, identity, vouched, account, tables, token, history>>

\* It is marked used, or the state deleted, without looking again.
Use(b) == LET i == carried[b]
          IN  /\ GoTo(b, "use", Task[Purpose(b)])
              /\ token' = [token EXCEPT ![i] = "used"]
              /\ account' = [account EXCEPT ![b] = account[i]]
              /\ used' = used \cup {b}
              /\ together' = [together EXCEPT ![i] =
                   IF token[i] = "used" THEN @ ELSE {c \in Bearer : pc[c] = "use" /\ carried[c] = i}]
              /\ UNCHANGED <<request, tables>>

MutSetVerified(b) == /\ \E to \in Ends({"users"}) : GoTo(b, "verify", to)    \* mutant: nothing is set
                     /\ UNCHANGED <<request, account, tables, token, history>>

\* verify_email.
SetVerified(b) == /\ \E to \in Ends({"users"}) : GoTo(b, "verify", to)
                  /\ verified' = verified \cup {account[b]}
                  /\ UNCHANGED <<request, account, owner, password, link, token, history>>

\* reset_password; revoking the sessions and the audit record follow.
SetPassword(b) == /\ \E to \in Ends({"users", "sessions"}) : GoTo(b, "set", to)
                  /\ password' = [password EXCEPT ![account[b]] = b]
                  /\ UNCHANGED <<request, account, owner, verified, link, token, history>>
-----------------------------------------------------------------------------
(* Coming back from the provider: login_with_oauth.                         *)

\* The provider tells who it is, and the identity is looked up.  One that is
\* not linked needs an address.
FindLink(b, x) == /\ \E to \in IF link[x] # None THEN {"session"} ELSE {"find", "denied"} :
                        GoTo(b, "find_link", to)
                  /\ identity' = [identity EXCEPT ![b] = x]
                  /\ \E e \in Email : email' = [email EXCEPT ![b] = e]
                  /\ vouched' \in {vouched, vouched \cup {b}}
                  /\ account' = [account EXCEPT ![b] = link[x]]
                  /\ UNCHANGED <<kind, carried, tables, token, history>>

\* An address that is on record, and whether there is something to verify.
Find(b) == LET a == owner[email[b]]
           IN  /\ GoTo(b, "find", CASE a = None -> "look"
                                    [] a # None /\ b \in vouched /\ a \notin verified -> "vouch"
                                    [] OTHER -> "check_link")
               /\ account' = [account EXCEPT ![b] = a]
               /\ UNCHANGED <<request, tables, token, history>>

\* create_user looks again and raises when the address is taken by now.
Look(b) == /\ GoTo(b, "look", IF owner[email[b]] = None THEN "insert" ELSE "failed")
           /\ UNCHANGED <<request, account, tables, token, history>>

Vouch(b) == /\ GoTo(b, "vouch", "check_link")
            /\ verified' = verified \cup {account[b]}
            /\ UNCHANGED <<request, account, owner, password, link, token, history>>

MutCheckLink(b) == /\ GoTo(b, "check_link", "session")       \* mutant: the identity is never linked
                   /\ UNCHANGED <<request, account, tables, token, history>>

\* An identity that is linked by now is left as it is; in memory nothing is
\* looked up, and the entry is overwritten.
Overwrites == "users" \in memory

CheckLink(b) == /\ GoTo(b, "check_link",
                        IF link[identity[b]] = None \/ Overwrites THEN "link" ELSE "session")
                /\ UNCHANGED <<request, account, tables, token, history>>

Link(b) == LET x == identity[b]
               free == link[x] = None \/ Overwrites
           IN  /\ GoTo(b, "link", IF free THEN "session" ELSE "failed")
               /\ link' = [link EXCEPT ![x] = IF free THEN account[b] ELSE @]
               /\ UNCHANGED <<request, account, owner, verified, password, token, history>>

\* The session of Sessions, for the account found, created or linked.
Open(b) == /\ \E to \in Ends({"users", "sessions"}) : GoTo(b, "session", to)
           /\ UNCHANGED <<request, account, tables, token, history>>
-----------------------------------------------------------------------------
MutInsert(r) ==                                  \* mutant: a registration is verified at once
  LET e == email[r]
      free == owner[e] = None
  IN  /\ GoTo(r, "insert", IF ~free THEN "failed" ELSE IF r \in Issuer THEN "issue" ELSE "check_link")
      /\ owner' = [owner EXCEPT ![e] = IF free THEN r ELSE @]
      /\ verified' = verified \cup (IF free THEN {r} ELSE {})
      /\ password' = [password EXCEPT ![r] = IF free /\ r \in Issuer THEN r ELSE @]
      /\ account' = [account EXCEPT ![r] = IF free THEN r ELSE @]
      /\ UNCHANGED <<request, link, token, history>>

\* create_user's commit, for a registration or a callback.
Insert(r) ==
  LET e == email[r]
      free == owner[e] = None
  IN  /\ GoTo(r, "insert", IF ~free THEN "failed" ELSE IF r \in Issuer THEN "issue" ELSE "check_link")
      /\ owner' = [owner EXCEPT ![e] = IF free THEN r ELSE @]
      /\ verified' = verified \cup (IF free /\ r \in vouched THEN {r} ELSE {})
      /\ password' = [password EXCEPT ![r] = IF free /\ r \in Issuer THEN r ELSE @]
      /\ account' = [account EXCEPT ![r] = IF free THEN r ELSE @]
      /\ UNCHANGED <<request, link, token, history>>

\* A call raised, or a replica ended.  In memory no method raises.
Fail(r) == /\ pc[r] \notin Ended \cup {"idle"} /\ ~Inside(r)
           /\ pc' = [pc EXCEPT ![r] = "failed"]
           /\ UNCHANGED <<request, account, tables, token, history>>

\* In memory the lifetime of a state is never looked at.
Expire(i) == /\ token[i] = "fresh"
             /\ ~(kind[i] = "start" /\ "sessions" \in memory)
             /\ token' = [token EXCEPT ![i] = "expired"]
             /\ UNCHANGED <<pc, request, account, tables, history>>

Serve(b) == \/ Use(b) \/ SetVerified(b) \/ SetPassword(b)
            \/ \E x \in Identity : FindLink(b, x)
            \/ Find(b) \/ Look(b) \/ Vouch(b) \/ CheckLink(b) \/ Link(b) \/ Open(b)

\* Nobody is on the way.
Finished == (\A r \in Request : pc[r] \in Ended \cup {"idle"}) /\ UNCHANGED vars

Step(r) == \/ r \in Issuer /\ (\E e \in Email : Register(r, e) \/ Forget(r, e))
           \/ r \in Issuer /\ (StartFlow(r) \/ Issue(r))
           \/ r \in Bearer /\ (Serve(r) \/ \E i \in Issuer : Present(r, i))
           \/ Insert(r) \/ Fail(r)

Undisturbed(r) == \A q \in Request \ {r} : ~Inside(q)

Next == /\ UNCHANGED memory
        /\ \/ \E r \in Request : Undisturbed(r) /\ Step(r)
           \/ \E i \in Issuer : Expire(i)
           \/ Finished

Spec == Init /\ [][Next]_vars
-----------------------------------------------------------------------------
TypeOK ==
  /\ memory \subseteq {"users", "sessions"}
  /\ pc \in [Request -> Ended \cup {"idle", "insert", "issue", "use", "verify", "set", "find_link", "find",
                                    "look", "vouch", "check_link", "link", "session"}]
  /\ kind \in [Issuer -> Kind \cup {None}]
  /\ email \in [Request -> Email \cup {None}]
  /\ identity \in [Bearer -> Identity \cup {None}]
  /\ vouched \subseteq Bearer
  /\ carried \in [Bearer -> Issuer \cup {None}]
  /\ account \in [Request -> Request \cup {None}]
  /\ owner \in [Email -> Request \cup {None}]
  /\ verified \subseteq Request
  /\ password \in [Request -> Request \cup {None}]
  /\ link \in [Identity -> Request \cup {None}]
  /\ token \in [Issuer -> {"none", "fresh", "used", "expired"}]
  /\ together \in [Issuer -> SUBSET Bearer]
  /\ used \subseteq Bearer

\* A token is good for one use: who marks it used a second time had found it
\* unused before the first did, since consuming is a query and then a commit.
\* One that is kept in memory is used once.
OnceUnlessTogether ==
  \A b \in used : /\ b \in together[carried[b]]
                  /\ Keeper(Purpose(b)) \in memory => \A c \in used : carried[c] = carried[b] => c = b

\* An account counts as verified only when its own token came back or the
\* provider vouched for its address, whoever created it and whatever broke off.
VerifiedIsProven ==
  \A a \in verified : \E b \in Bearer :
     /\ account[b] = a
     /\ \/ b \in used /\ Purpose(b) = "register"
        \/ b \in vouched /\ owner[email[b]] = a

\* Who comes back from the provider gets a session of the account the identity
\* is linked to.  The exception: two first callbacks of one identity cross in
\* PostgreSQL and were told different addresses.
SessionIsLinked ==
  \A b \in used : Purpose(b) = "start" /\ pc[b] = "done" =>
     LET linked == link[identity[b]]
     IN  \/ linked = account[b]
         \/ /\ "users" \notin memory
            /\ \E c \in Bearer : identity[c] = identity[b] /\ account[c] = linked /\ email[c] # email[b]

\* No token is used up for nothing.  A registered account that is not verified
\* has a token for it, and a used reset token has changed the password, unless
\* a request is still at it or broke off half-way: nothing issues another
\* verification token.
NothingWasted ==
  \A i \in Issuer :
     /\ kind[i] = "register" /\ account[i] = i /\ i \notin verified =>
          \/ pc[i] \in {"issue", "failed"}
          \/ token[i] \in {"fresh", "expired"}
          \/ \E b \in used : carried[b] = i /\ pc[b] \in {"verify", "failed"}
     /\ kind[i] = "forgot" /\ token[i] = "used" =>
          \/ \E b \in used : carried[b] = i /\ pc[b] \in {"set", "failed"}
          \/ password[account[i]] \in {b \in used : Purpose(b) = "forgot" /\ account[b] = account[i]}
=============================================================================
