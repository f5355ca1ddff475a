---------------------------- MODULE AccountsProofs ----------------------------
(***************************************************************************)
(* Theorems about Accounts for any number of requests, addresses and       *)
(* identities.                                                             *)
(***************************************************************************)
EXTENDS Accounts, TLAPS

\* What is known of a request that issues a token, by where it is.
IssuerFits ==
  \A i \in Issuer :
     /\ pc[i] \in Ended \cup {"idle", "insert", "issue"}
     /\ pc[i] \in {"idle", "insert", "denied"} => account[i] = None
     /\ pc[i] = "idle" => kind[i] = None
     /\ pc[i] = "insert" => kind[i] = "register" /\ email[i] \in Email
     /\ pc[i] = "issue" => kind[i] \in {"register", "forgot"} /\ account[i] # None
     /\ pc[i] = "done" => token[i] # "none"
     /\ kind[i] = "register" => account[i] \in {i, None}
     /\ kind[i] = "start" => account[i] = None

\* A token exists once its request has ended, and is for something.
TokenFits ==
  \A i \in Issuer : token[i] # "none" => /\ pc[i] \in {"done", "failed"}
                                         /\ kind[i] \in Kind
                                         /\ kind[i] # "start" => account[i] # None

Resolving == {"find", "look", "insert"}
Matched == {"vouch", "check_link", "link"}
Callback == {"find_link", "session"} \cup Resolving \cup Matched

\* What is known of a request that presents a token, by where it is.
BearerFits ==
  \A b \in Bearer :
     /\ pc[b] # "issue"
     /\ pc[b] \in {"idle", "use"} => b \notin used
     /\ pc[b] \in {"idle", "use", "find_link"} => b \notin vouched
     /\ pc[b] \in {"idle", "use", "find_link"} \cup Resolving => account[b] = None
     /\ pc[b] = "use" => /\ carried[b] \in Issuer
                         /\ token[carried[b]] # "none"
                         /\ token[carried[b]] = "used" => b \in together[carried[b]]
     /\ pc[b] = "verify" => b \in used /\ Purpose(b) = "register"
     /\ pc[b] = "set" => b \in used /\ Purpose(b) = "forgot"
     /\ pc[b] \in Callback => b \in used /\ Purpose(b) = "start"
     /\ pc[b] \in Resolving \cup Matched \cup {"session"} => identity[b] \in Identity /\ email[b] \in Email
     /\ pc[b] \in Matched => account[b] # None /\ owner[email[b]] = account[b]
     /\ pc[b] = "vouch" => b \in vouched

\* What is known of a request that marked its token used.
UserFits ==
  \A b \in used :
     /\ carried[b] \in Issuer
     /\ token[carried[b]] = "used"
     /\ b \in together[carried[b]]
     /\ Purpose(b) # "start" => /\ account[b] = account[carried[b]]
                                /\ b \notin vouched
                                /\ pc[b] \in {"verify", "set", "done", "failed"}
     /\ Purpose(b) = "register" /\ pc[b] = "done" => account[b] \in verified
     /\ Purpose(b) = "register" => pc[b] # "set"
     /\ Purpose(b) = "forgot" => pc[b] # "verify"

UsedByOne == \A i \in Issuer : token[i] = "used" => \E b \in used : carried[b] = i

\* Accounts are rows, and rows are accounts of the requests that made them.
Rows == /\ \A e \in Email : owner[e] # None => account[owner[e]] = owner[e]
        /\ \A r \in Request : account[r] # None => \E e \in Email : owner[e] = account[r]

\* An identity is linked to the account that had the address it came with.
LinkFits ==
  \A x \in Identity : link[x] # None =>
     \E c \in Bearer : /\ identity[c] = x /\ account[c] = link[x]
                       /\ email[c] \in Email /\ owner[email[c]] = link[x]
                       /\ pc[c] \in {"session", "done", "failed"}

SessionFits ==
  \A b \in used : Purpose(b) = "start" /\ pc[b] \in {"session", "done"} =>
     /\ identity[b] \in Identity
     /\ account[b] # None
     /\ \/ link[identity[b]] = account[b]
        \/ \E c \in Bearer : /\ identity[c] = identity[b] /\ account[c] = link[identity[b]]
                             /\ email[c] # email[b] /\ account[c] # None

Proven(a) ==
  \E b \in Bearer : /\ account[b] = a
                    /\ \/ b \in used /\ Purpose(b) = "register"
                       \/ b \in vouched /\ email[b] \in Email /\ owner[email[b]] = a

\* A finished reset's password, or that of another reset of the account, is in force.
ResetHolds ==
  \A b \in used : Purpose(b) = "forgot" /\ pc[b] = "done" =>
     \E c \in used : Purpose(c) = "forgot" /\ account[c] = account[b] /\ password[account[b]] = c

IInv == /\ TypeOK
        /\ IssuerFits
        /\ TokenFits
        /\ BearerFits
        /\ UserFits
        /\ UsedByOne
        /\ Rows
        /\ LinkFits
        /\ SessionFits
        /\ \A a \in verified : Proven(a)
        /\ ResetHolds

\* What holds beside it of a store in memory: at most one request is between
\* two calls to it, what it keeps is used by one request, and an identity that
\* a callback is about to link stays free until it does.
OneInside == \A q, r \in Request : Inside(q) /\ Inside(r) => q = r

UsedOnce ==
  \A b \in used : Keeper(Purpose(b)) \in memory =>
     \A c \in Bearer \ {b} : carried[c] = carried[b] => c \notin used /\ pc[c] # "use"

LinkFree ==
  Overwrites => \A b \in Bearer : pc[b] \in Resolving \cup Matched => link[identity[b]] = None

LinkKept ==
  Overwrites => \A b \in used : Purpose(b) = "start" /\ pc[b] \in {"session", "done"} =>
                                  link[identity[b]] = account[b]

MInv == OneInside /\ UsedOnce /\ LinkFree /\ LinkKept
-----------------------------------------------------------------------------
LEMMA InitIInv == Init => IInv
<1> SUFFICES ASSUME Init PROVE IInv
  OBVIOUS
<1> USE AccountsAssumption DEF Init, Request, Ended, Kind
<1>1. TypeOK
  BY DEF TypeOK
<1>2. IssuerFits /\ TokenFits /\ UserFits /\ UsedByOne
  BY DEF IssuerFits, TokenFits, UserFits, UsedByOne
<1>3. BearerFits
  BY DEF BearerFits, Callback, Resolving, Matched
<1>4. Rows /\ LinkFits /\ SessionFits /\ ResetHolds /\ \A a \in verified : Proven(a)
  BY DEF Rows, LinkFits, SessionFits, ResetHolds
<1> QED
  BY <1>1, <1>2, <1>3, <1>4 DEF IInv

LEMMA RegisterIInv ==
  ASSUME IInv, NEW i \in Issuer, NEW e \in Email, Register(i, e), UNCHANGED memory
  PROVE  IInv'
<1> USE AccountsAssumption DEF Request, Ended, Kind, GoTo, Ends, Overwrites, request, tables, history, Purpose
<1>1. TypeOK'
  BY DEF IInv, TypeOK, Register, Begin, IssuerFits, TokenFits, BearerFits
<1>2. IssuerFits'
  BY <1>1 DEF IInv, TypeOK, Register, Begin, IssuerFits, TokenFits, Callback, Resolving, Matched
<1>3. TokenFits'
  BY <1>1 DEF IInv, TypeOK, Register, Begin, TokenFits, IssuerFits, Callback, Resolving, Matched
<1>4. BearerFits'
  <2>1. \A b \in Bearer : pc'[b] = pc[b] /\ email'[b] = email[b] /\ account'[b] = account[b]
    BY DEF IInv, TypeOK, Register, Begin
  <2>2. UNCHANGED <<identity, vouched, carried, used, together, owner>>
    BY DEF Register, Begin
  <2>3. pc[i] = "idle" /\ token[i] = "none"
    BY DEF IInv, TypeOK, TokenFits, Register
  <2>4. \A t \in Issuer \ {i} : kind'[t] = kind[t] /\ token'[t] = token[t]
    BY DEF IInv, TypeOK, Register, Begin
  <2>5. \A b \in Bearer : pc[b] = "use" \/ b \in used => carried[b] \in Issuer \ {i}
    BY <2>3 DEF IInv, BearerFits, UserFits
  <2> QED
    BY <2>1, <2>2, <2>4, <2>5 DEF IInv, BearerFits, Callback, Resolving, Matched
<1>5. UserFits'
  BY <1>1 DEF IInv, TypeOK, Register, Begin, UserFits, IssuerFits, TokenFits, BearerFits, Callback, Resolving, Matched
<1>6. UsedByOne'
  BY <1>1 DEF IInv, TypeOK, Register, Begin, UsedByOne, IssuerFits, TokenFits, BearerFits, UserFits, Callback, Resolving, Matched
<1>7. Rows'
  BY <1>1 DEF IInv, TypeOK, Register, Begin, Rows, IssuerFits, BearerFits, TokenFits, Callback, Resolving, Matched
<1>8. LinkFits'
  BY <1>1 DEF IInv, TypeOK, Register, Begin, LinkFits, BearerFits, Callback, Resolving, Matched
<1>9. SessionFits'
  BY <1>1 DEF IInv, TypeOK, Register, Begin, SessionFits, BearerFits, LinkFits, TokenFits, UserFits, Callback, Resolving, Matched
<1>10. (\A a \in verified : Proven(a))'
  BY <1>1 DEF IInv, TypeOK, Register, Begin, Proven, BearerFits, TokenFits, UserFits, IssuerFits, Callback, Resolving, Matched
<1>11. ResetHolds'
  BY <1>1 DEF IInv, TypeOK, Register, Begin, ResetHolds, BearerFits, TokenFits, UserFits, Rows, IssuerFits, Callback, Resolving, Matched
<1> QED
  BY <1>1, <1>2, <1>3, <1>4, <1>5, <1>6, <1>7, <1>8, <1>9, <1>10, <1>11 DEF IInv

LEMMA ForgetIInv ==
  ASSUME IInv, NEW i \in Issuer, NEW e \in Email, Forget(i, e), UNCHANGED memory
  PROVE  IInv'
<1> USE AccountsAssumption DEF Request, Ended, Kind, GoTo, Ends, Overwrites, request, tables, history, Purpose
<1>1. TypeOK'
  BY DEF IInv, TypeOK, Forget, Begin, IssuerFits, TokenFits, BearerFits
<1>2. IssuerFits'
  BY <1>1 DEF IInv, TypeOK, Forget, Begin, IssuerFits, TokenFits, Callback, Resolving, Matched
<1>3. TokenFits'
  BY <1>1 DEF IInv, TypeOK, Forget, Begin, TokenFits, IssuerFits, Callback, Resolving, Matched
<1>4. BearerFits'
  <2>1. \A b \in Bearer : pc'[b] = pc[b] /\ email'[b] = email[b] /\ account'[b] = account[b]
    BY DEF IInv, TypeOK, Forget, Begin
  <2>2. UNCHANGED <<identity, vouched, carried, used, together, owner>>
    BY DEF Forget, Begin
  <2>3. pc[i] = "idle" /\ token[i] = "none"
    BY DEF IInv, TypeOK, TokenFits, Forget
  <2>4. \A t \in Issuer \ {i} : kind'[t] = kind[t] /\ token'[t] = token[t]
    BY DEF IInv, TypeOK, Forget, Begin
  <2>5. \A b \in Bearer : pc[b] = "use" \/ b \in used => carried[b] \in Issuer \ {i}
    BY <2>3 DEF IInv, BearerFits, UserFits
  <2> QED
    BY <2>1, <2>2, <2>4, <2>5 DEF IInv, BearerFits, Callback, Resolving, Matched
<1>5. UserFits'
  BY <1>1 DEF IInv, TypeOK, Forget, Begin, UserFits, IssuerFits, TokenFits, BearerFits, Callback, Resolving, Matched
<1>6. UsedByOne'
  BY <1>1 DEF IInv, TypeOK, Forget, Begin, UsedByOne, IssuerFits, TokenFits, BearerFits, UserFits, Callback, Resolving, Matched
<1>7. Rows'
  BY <1>1 DEF IInv, TypeOK, Forget, Begin, Rows, IssuerFits, BearerFits, TokenFits, Callback, Resolving, Matched
<1>8. LinkFits'
  BY <1>1 DEF IInv, TypeOK, Forget, Begin, LinkFits, BearerFits, Callback, Resolving, Matched
<1>9. SessionFits'
  BY <1>1 DEF IInv, TypeOK, Forget, Begin, SessionFits, BearerFits, LinkFits, TokenFits, UserFits, Callback, Resolving, Matched
<1>10. (\A a \in verified : Proven(a))'
  BY <1>1 DEF IInv, TypeOK, Forget, Begin, Proven, BearerFits, TokenFits, UserFits, IssuerFits, Callback, Resolving, Matched
<1>11. ResetHolds'
  BY <1>1 DEF IInv, TypeOK, Forget, Begin, ResetHolds, BearerFits, TokenFits, UserFits, Rows, IssuerFits, Callback, Resolving, Matched
<1> QED
  BY <1>1, <1>2, <1>3, <1>4, <1>5, <1>6, <1>7, <1>8, <1>9, <1>10, <1>11 DEF IInv

LEMMA StartFlowIInv ==
  ASSUME IInv, NEW i \in Issuer, StartFlow(i), UNCHANGED memory
  PROVE  IInv'
<1> USE AccountsAssumption DEF Request, Ended, Kind, GoTo, Ends, Overwrites, request, tables, history, Purpose
<1>1. TypeOK'
  BY DEF IInv, TypeOK, StartFlow, Begin, IssuerFits, TokenFits, BearerFits
<1>2. IssuerFits'
  BY <1>1 DEF IInv, TypeOK, StartFlow, Begin, IssuerFits, TokenFits, Callback, Resolving, Matched
<1>3. TokenFits'
  BY <1>1 DEF IInv, TypeOK, StartFlow, Begin, TokenFits, IssuerFits, Callback, Resolving, Matched
<1>4. BearerFits'
  <2>1. \A b \in Bearer : pc'[b] = pc[b] /\ email'[b] = email[b] /\ account'[b] = account[b]
    BY DEF IInv, TypeOK, StartFlow, Begin
  <2>2. UNCHANGED <<identity, vouched, carried, used, together, owner>>
    BY DEF StartFlow, Begin
  <2>3. pc[i] = "idle" /\ token[i] = "none"
    BY DEF IInv, TypeOK, TokenFits, StartFlow
  <2>4. \A t \in Issuer \ {i} : kind'[t] = kind[t] /\ token'[t] = token[t]
    BY DEF IInv, TypeOK, StartFlow, Begin
  <2>5. \A b \in Bearer : pc[b] = "use" \/ b \in used => carried[b] \in Issuer \ {i}
    BY <2>3 DEF IInv, BearerFits, UserFits
  <2> QED
    BY <2>1, <2>2, <2>4, <2>5 DEF IInv, BearerFits, Callback, Resolving, Matched
<1>5. UserFits'
  BY <1>1 DEF IInv, TypeOK, StartFlow, Begin, UserFits, IssuerFits, TokenFits, BearerFits, Callback, Resolving, Matched
<1>6. UsedByOne'
  BY <1>1 DEF IInv, TypeOK, StartFlow, Begin, UsedByOne, IssuerFits, TokenFits, BearerFits, UserFits, Callback, Resolving, Matched
<1>7. Rows'
  BY <1>1 DEF IInv, TypeOK, StartFlow, Begin, Rows, IssuerFits, BearerFits, TokenFits, Callback, Resolving, Matched
<1>8. LinkFits'
  BY <1>1 DEF IInv, TypeOK, StartFlow, Begin, LinkFits, BearerFits, Callback, Resolving, Matched
<1>9. SessionFits'
  BY <1>1 DEF IInv, TypeOK, StartFlow, Begin, SessionFits, BearerFits, LinkFits, TokenFits, UserFits, Callback, Resolving, Matched
<1>10. (\A a \in verified : Proven(a))'
  BY <1>1 DEF IInv, TypeOK, StartFlow, Begin, Proven, BearerFits, TokenFits, UserFits, IssuerFits, Callback, Resolving, Matched
<1>11. ResetHolds'
  BY <1>1 DEF IInv, TypeOK, StartFlow, Begin, ResetHolds, BearerFits, TokenFits, UserFits, Rows, IssuerFits, Callback, Resolving, Matched
<1> QED
  BY <1>1, <1>2, <1>3, <1>4, <1>5, <1>6, <1>7, <1>8, <1>9, <1>10, <1>11 DEF IInv

LEMMA IssueIInv ==
  ASSUME IInv, NEW i \in Issuer, Issue(i), UNCHANGED memory
  PROVE  IInv'
<1> USE AccountsAssumption DEF Request, Ended, Kind, GoTo, Ends, Overwrites, request, tables, history, Purpose
<1>1. TypeOK'
  BY DEF IInv, TypeOK, Issue, IssuerFits, TokenFits, BearerFits
<1>2. IssuerFits'
  BY <1>1 DEF IInv, TypeOK, Issue, IssuerFits, TokenFits, Callback, Resolving, Matched
<1>3. TokenFits'
  BY <1>1 DEF IInv, TypeOK, Issue, TokenFits, IssuerFits, Callback, Resolving, Matched
<1>4. BearerFits'
  BY <1>1 DEF IInv, TypeOK, Issue, BearerFits, IssuerFits, TokenFits, Callback, Resolving, Matched
<1>5. UserFits'
  BY <1>1 DEF IInv, TypeOK, Issue, UserFits, IssuerFits, TokenFits, BearerFits, Callback, Resolving, Matched
<1>6. UsedByOne'
  BY <1>1 DEF IInv, TypeOK, Issue, UsedByOne, IssuerFits, TokenFits, BearerFits, UserFits, Callback, Resolving, Matched
<1>7. Rows'
  BY <1>1 DEF IInv, TypeOK, Issue, Rows, IssuerFits, BearerFits, TokenFits, Callback, Resolving, Matched
<1>8. LinkFits'
  BY <1>1 DEF IInv, TypeOK, Issue, LinkFits, BearerFits, Callback, Resolving, Matched
<1>9. SessionFits'
  BY <1>1 DEF IInv, TypeOK, Issue, SessionFits, BearerFits, LinkFits, TokenFits, UserFits, Callback, Resolving, Matched
<1>10. (\A a \in verified : Proven(a))'
  BY <1>1 DEF IInv, TypeOK, Issue, Proven, BearerFits, TokenFits, UserFits, IssuerFits, Callback, Resolving, Matched
<1>11. ResetHolds'
  BY <1>1 DEF IInv, TypeOK, Issue, ResetHolds, BearerFits, TokenFits, UserFits, Rows, IssuerFits, Callback, Resolving, Matched
<1> QED
  BY <1>1, <1>2, <1>3, <1>4, <1>5, <1>6, <1>7, <1>8, <1>9, <1>10, <1>11 DEF IInv

LEMMA PresentIInv ==
  ASSUME IInv, NEW b \in Bearer, NEW i \in Issuer, Present(b, i), UNCHANGED memory
  PROVE  IInv'
<1> USE AccountsAssumption DEF Request, Ended, Kind, GoTo, Ends, Overwrites, request, tables, history, Purpose
<1>1. TypeOK'
  BY DEF IInv, TypeOK, Present, IssuerFits, TokenFits, BearerFits
<1>2. IssuerFits'
  BY <1>1 DEF IInv, TypeOK, Present, IssuerFits, TokenFits, Callback, Resolving, Matched
<1>3. TokenFits'
  BY <1>1 DEF IInv, TypeOK, Present, TokenFits, IssuerFits, Callback, Resolving, Matched
<1>4. BearerFits'
  BY <1>1 DEF IInv, TypeOK, Present, BearerFits, IssuerFits, TokenFits, Callback, Resolving, Matched
<1>5. UserFits'
  BY <1>1 DEF IInv, TypeOK, Present, UserFits, IssuerFits, TokenFits, BearerFits, Callback, Resolving, Matched
<1>6. UsedByOne'
  BY <1>1 DEF IInv, TypeOK, Present, UsedByOne, IssuerFits, TokenFits, BearerFits, UserFits, Callback, Resolving, Matched
<1>7. Rows'
  BY <1>1 DEF IInv, TypeOK, Present, Rows, IssuerFits, BearerFits, TokenFits, Callback, Resolving, Matched
<1>8. LinkFits'
  BY <1>1 DEF IInv, TypeOK, Present, LinkFits, BearerFits, Callback, Resolving, Matched
<1>9. SessionFits'
  BY <1>1 DEF IInv, TypeOK, Present, SessionFits, BearerFits, LinkFits, TokenFits, UserFits, Callback, Resolving, Matched
<1>10. (\A a \in verified : Proven(a))'
  BY <1>1 DEF IInv, TypeOK, Present, Proven, BearerFits, TokenFits, UserFits, IssuerFits, Callback, Resolving, Matched
<1>11. ResetHolds'
  BY <1>1 DEF IInv, TypeOK, Present, ResetHolds, BearerFits, TokenFits, UserFits, Rows, IssuerFits, Callback, Resolving, Matched
<1> QED
  BY <1>1, <1>2, <1>3, <1>4, <1>5, <1>6, <1>7, <1>8, <1>9, <1>10, <1>11 DEF IInv

LEMMA UseIInv ==
  ASSUME IInv, NEW b \in Bearer, Use(b), UNCHANGED memory
  PROVE  IInv'
<1> USE AccountsAssumption DEF Request, Ended, Kind, GoTo, Ends, Overwrites, request, tables, history, Purpose
<1>1. TypeOK'
  BY DEF IInv, TypeOK, Use, Task, IssuerFits, TokenFits, BearerFits
<1>2. IssuerFits'
  BY <1>1 DEF IInv, TypeOK, Use, Task, IssuerFits, TokenFits, Callback, Resolving, Matched
<1>3. TokenFits'
  <2>1. carried[b] \in Issuer /\ token[carried[b]] # "none" /\ b \notin Issuer
    BY DEF IInv, BearerFits, Use
  <2>2. \A t \in Issuer : pc'[t] = pc[t] /\ account'[t] = account[t] /\ kind'[t] = kind[t]
    BY <2>1 DEF IInv, TypeOK, Use
  <2>3. \A t \in Issuer : token'[t] # "none" => token[t] # "none"
    BY <2>1 DEF IInv, TypeOK, Use
  <2> QED
    BY <2>2, <2>3 DEF IInv, TokenFits
<1>4. BearerFits'
  BY <1>1 DEF IInv, TypeOK, Use, Task, BearerFits, IssuerFits, TokenFits, Callback, Resolving, Matched
<1>5. UserFits'
  BY <1>1 DEF IInv, TypeOK, Use, Task, UserFits, IssuerFits, TokenFits, BearerFits, Callback, Resolving, Matched
<1>6. UsedByOne'
  BY <1>1 DEF IInv, TypeOK, Use, Task, UsedByOne, IssuerFits, TokenFits, BearerFits, UserFits, Callback, Resolving, Matched
<1>7. Rows'
  BY <1>1 DEF IInv, TypeOK, Use, Task, Rows, IssuerFits, BearerFits, TokenFits, Callback, Resolving, Matched
<1>8. LinkFits'
  BY <1>1 DEF IInv, TypeOK, Use, Task, LinkFits, BearerFits, Callback, Resolving, Matched
<1>9. SessionFits'
  BY <1>1 DEF IInv, TypeOK, Use, Task, SessionFits, BearerFits, LinkFits, TokenFits, UserFits, Callback, Resolving, Matched
<1>10. (\A a \in verified : Proven(a))'
  BY <1>1 DEF IInv, TypeOK, Use, Task, Proven, BearerFits, TokenFits, UserFits, IssuerFits, Callback, Resolving, Matched
<1>11. ResetHolds'
  BY <1>1 DEF IInv, TypeOK, Use, Task, ResetHolds, BearerFits, TokenFits, UserFits, Rows, IssuerFits, Callback, Resolving, Matched
<1> QED
  BY <1>1, <1>2, <1>3, <1>4, <1>5, <1>6, <1>7, <1>8, <1>9, <1>10, <1>11 DEF IInv

LEMMA SetVerifiedIInv ==
  ASSUME IInv, NEW b \in Bearer, SetVerified(b), UNCHANGED memory
  PROVE  IInv'
<1> USE AccountsAssumption DEF Request, Ended, Kind, GoTo, Ends, Overwrites, request, tables, history, Purpose
<1>1. TypeOK'
  <2>1. TypeOK /\ account[b] \in Request
    BY DEF IInv, TypeOK, BearerFits, UserFits, TokenFits, SetVerified
  <2>2. pc' \in [Request -> Ended \cup {"idle", "insert", "issue", "use", "verify", "set", "find_link", "find",
                                 "look", "vouch", "check_link", "link", "session"}]
    BY <2>1 DEF TypeOK, SetVerified
  <2> QED
    BY <2>1, <2>2 DEF TypeOK, SetVerified
<1>2. IssuerFits'
  BY <1>1 DEF IInv, TypeOK, SetVerified, IssuerFits, TokenFits, Callback, Resolving, Matched
<1>3. TokenFits'
  BY <1>1 DEF IInv, TypeOK, SetVerified, TokenFits, IssuerFits, Callback, Resolving, Matched
<1>4. BearerFits'
  BY <1>1 DEF IInv, TypeOK, SetVerified, BearerFits, IssuerFits, TokenFits, Callback, Resolving, Matched
<1>5. UserFits'
  BY <1>1 DEF IInv, TypeOK, SetVerified, UserFits, IssuerFits, TokenFits, BearerFits, Callback, Resolving, Matched
<1>6. UsedByOne'
  BY <1>1 DEF IInv, TypeOK, SetVerified, UsedByOne, IssuerFits, TokenFits, BearerFits, UserFits, Callback, Resolving, Matched
<1>7. Rows'
  BY <1>1 DEF IInv, TypeOK, SetVerified, Rows, IssuerFits, BearerFits, TokenFits, Callback, Resolving, Matched
<1>8. LinkFits'
  BY <1>1 DEF IInv, TypeOK, SetVerified, LinkFits, BearerFits, Callback, Resolving, Matched
<1>9. SessionFits'
  BY <1>1 DEF IInv, TypeOK, SetVerified, SessionFits, BearerFits, LinkFits, TokenFits, UserFits, Callback, Resolving, Matched
<1>10. (\A a \in verified : Proven(a))'
  BY <1>1 DEF IInv, TypeOK, SetVerified, Proven, BearerFits, TokenFits, UserFits, IssuerFits, Callback, Resolving, Matched
<1>11. ResetHolds'
  BY <1>1 DEF IInv, TypeOK, SetVerified, ResetHolds, BearerFits, TokenFits, UserFits, Rows, IssuerFits, Callback, Resolving, Matched
<1> QED
  BY <1>1, <1>2, <1>3, <1>4, <1>5, <1>6, <1>7, <1>8, <1>9, <1>10, <1>11 DEF IInv

LEMMA SetPasswordIInv ==
  ASSUME IInv, NEW b \in Bearer, SetPassword(b), UNCHANGED memory
  PROVE  IInv'
<1> USE AccountsAssumption DEF Request, Ended, Kind, GoTo, Ends, Overwrites, request, tables, history, Purpose
<1>1. TypeOK'
  <2>1. TypeOK /\ account[b] \in Request
    BY DEF IInv, TypeOK, BearerFits, UserFits, TokenFits, SetPassword
  <2>2. pc' \in [Request -> Ended \cup {"idle", "insert", "issue", "use", "verify", "set", "find_link", "find",
                                 "look", "vouch", "check_link", "link", "session"}]
    BY <2>1 DEF TypeOK, SetPassword
  <2> QED
    BY <2>1, <2>2 DEF TypeOK, SetPassword
<1>2. IssuerFits'
  BY <1>1 DEF IInv, TypeOK, SetPassword, IssuerFits, TokenFits, Callback, Resolving, Matched
<1>3. TokenFits'
  BY <1>1 DEF IInv, TypeOK, SetPassword, TokenFits, IssuerFits, Callback, Resolving, Matched
<1>4. BearerFits'
  BY <1>1 DEF IInv, TypeOK, SetPassword, BearerFits, IssuerFits, TokenFits, Callback, Resolving, Matched
<1>5. UserFits'
  BY <1>1 DEF IInv, TypeOK, SetPassword, UserFits, IssuerFits, TokenFits, BearerFits, Callback, Resolving, Matched
<1>6. UsedByOne'
  BY <1>1 DEF IInv, TypeOK, SetPassword, UsedByOne, IssuerFits, TokenFits, BearerFits, UserFits, Callback, Resolving, Matched
<1>7. Rows'
  BY <1>1 DEF IInv, TypeOK, SetPassword, Rows, IssuerFits, BearerFits, TokenFits, Callback, Resolving, Matched
<1>8. LinkFits'
  BY <1>1 DEF IInv, TypeOK, SetPassword, LinkFits, BearerFits, Callback, Resolving, Matched
<1>9. SessionFits'
  BY <1>1 DEF IInv, TypeOK, SetPassword, SessionFits, BearerFits, LinkFits, TokenFits, UserFits, Callback, Resolving, Matched
<1>10. (\A a \in verified : Proven(a))'
  BY <1>1 DEF IInv, TypeOK, SetPassword, Proven, BearerFits, TokenFits, UserFits, IssuerFits, Callback, Resolving, Matched
<1>11. ResetHolds'
  BY <1>1 DEF IInv, TypeOK, SetPassword, ResetHolds, BearerFits, TokenFits, UserFits, Rows, IssuerFits, Callback, Resolving, Matched
<1> QED
  BY <1>1, <1>2, <1>3, <1>4, <1>5, <1>6, <1>7, <1>8, <1>9, <1>10, <1>11 DEF IInv

LEMMA FindLinkIInv ==
  ASSUME IInv, NEW b \in Bearer, NEW x \in Identity, FindLink(b, x), UNCHANGED memory
  PROVE  IInv'
<1> USE AccountsAssumption DEF Request, Ended, Kind, GoTo, Ends, Overwrites, request, tables, history, Purpose
<1>1. TypeOK'
  BY DEF IInv, TypeOK, FindLink, IssuerFits, TokenFits, BearerFits
<1>2. IssuerFits'
  BY <1>1 DEF IInv, TypeOK, FindLink, IssuerFits, TokenFits, Callback, Resolving, Matched
<1>3. TokenFits'
  BY <1>1 DEF IInv, TypeOK, FindLink, TokenFits, IssuerFits, Callback, Resolving, Matched
<1>4. BearerFits'
  BY <1>1 DEF IInv, TypeOK, FindLink, BearerFits, IssuerFits, TokenFits, Callback, Resolving, Matched
<1>5. UserFits'
  BY <1>1 DEF IInv, TypeOK, FindLink, UserFits, IssuerFits, TokenFits, BearerFits, Callback, Resolving, Matched
<1>6. UsedByOne'
  BY <1>1 DEF IInv, TypeOK, FindLink, UsedByOne, IssuerFits, TokenFits, BearerFits, UserFits, Callback, Resolving, Matched
<1>7. Rows'
  <2>1. TypeOK /\ UNCHANGED owner
    BY DEF IInv, FindLink
  <2>2. \A e \in Email : owner[e] # b
    BY DEF IInv, Rows, BearerFits, FindLink, TypeOK
  <2>3. \A r \in Request \ {b} : account'[r] = account[r]
    BY <2>1 DEF TypeOK, FindLink
  <2>4. account'[b] = link[x] /\ link[x] # None => \E e \in Email : owner[e] = link[x]
    BY <2>1 DEF IInv, TypeOK, LinkFits, FindLink
  <2>5. account'[b] = link[x]
    BY <2>1 DEF TypeOK, FindLink
  <2>6. \A e \in Email : owner[e] # None => account'[owner[e]] = owner[e]
    BY <2>1, <2>2, <2>3 DEF IInv, Rows, TypeOK
  <2>7. \A r \in Request : account'[r] # None => \E e \in Email : owner[e] = account'[r]
    BY <2>3, <2>4, <2>5 DEF IInv, Rows
  <2> QED
    BY <2>1, <2>6, <2>7 DEF Rows
<1>8. LinkFits'
  BY <1>1 DEF IInv, TypeOK, FindLink, LinkFits, BearerFits, Callback, Resolving, Matched
<1>9. SessionFits'
  BY <1>1 DEF IInv, TypeOK, FindLink, SessionFits, BearerFits, LinkFits, TokenFits, UserFits, Callback, Resolving, Matched
<1>10. (\A a \in verified : Proven(a))'
  BY <1>1 DEF IInv, TypeOK, FindLink, Proven, BearerFits, TokenFits, UserFits, IssuerFits, Callback, Resolving, Matched
<1>11. ResetHolds'
  BY <1>1 DEF IInv, TypeOK, FindLink, ResetHolds, BearerFits, TokenFits, UserFits, Rows, IssuerFits, Callback, Resolving, Matched
<1> QED
  BY <1>1, <1>2, <1>3, <1>4, <1>5, <1>6, <1>7, <1>8, <1>9, <1>10, <1>11 DEF IInv

LEMMA FindIInv ==
  ASSUME IInv, NEW b \in Bearer, Find(b), UNCHANGED memory
  PROVE  IInv'
<1> USE AccountsAssumption DEF Request, Ended, Kind, GoTo, Ends, Overwrites, request, tables, history, Purpose
<1>1. TypeOK'
  <2>1. TypeOK /\ owner[email[b]] \in Request \cup {None}
    BY DEF IInv, TypeOK, BearerFits, Resolving, Find
  <2>2. pc' \in [Request -> Ended \cup {"idle", "insert", "issue", "use", "verify", "set", "find_link", "find",
                                 "look", "vouch", "check_link", "link", "session"}]
    BY <2>1 DEF TypeOK, Find
  <2> QED
    BY <2>1, <2>2 DEF TypeOK, Find
<1>2. IssuerFits'
  BY <1>1 DEF IInv, TypeOK, Find, IssuerFits, TokenFits, Callback, Resolving, Matched
<1>3. TokenFits'
  BY <1>1 DEF IInv, TypeOK, Find, TokenFits, IssuerFits, Callback, Resolving, Matched
<1>4. BearerFits'
  BY <1>1 DEF IInv, TypeOK, Find, BearerFits, IssuerFits, TokenFits, Callback, Resolving, Matched
<1>5. UserFits'
  BY <1>1 DEF IInv, TypeOK, Find, UserFits, IssuerFits, TokenFits, BearerFits, Callback, Resolving, Matched
<1>6. UsedByOne'
  BY <1>1 DEF IInv, TypeOK, Find, UsedByOne, IssuerFits, TokenFits, BearerFits, UserFits, Callback, Resolving, Matched
<1>7. Rows'
  BY <1>1 DEF IInv, TypeOK, Find, Rows, IssuerFits, BearerFits, TokenFits, Callback, Resolving, Matched
<1>8. LinkFits'
  BY <1>1 DEF IInv, TypeOK, Find, LinkFits, BearerFits, Callback, Resolving, Matched
<1>9. SessionFits'
  BY <1>1 DEF IInv, TypeOK, Find, SessionFits, BearerFits, LinkFits, TokenFits, UserFits, Callback, Resolving, Matched
<1>10. (\A a \in verified : Proven(a))'
  BY <1>1 DEF IInv, TypeOK, Find, Proven, BearerFits, TokenFits, UserFits, IssuerFits, Callback, Resolving, Matched
<1>11. ResetHolds'
  BY <1>1 DEF IInv, TypeOK, Find, ResetHolds, BearerFits, TokenFits, UserFits, Rows, IssuerFits, Callback, Resolving, Matched
<1> QED
  BY <1>1, <1>2, <1>3, <1>4, <1>5, <1>6, <1>7, <1>8, <1>9, <1>10, <1>11 DEF IInv

LEMMA LookIInv ==
  ASSUME IInv, NEW b \in Bearer, Look(b), UNCHANGED memory
  PROVE  IInv'
<1> USE AccountsAssumption DEF Request, Ended, Kind, GoTo, Ends, Overwrites, request, tables, history, Purpose
<1>1. TypeOK'
  BY DEF IInv, TypeOK, Look, IssuerFits, TokenFits, BearerFits
<1>2. IssuerFits'
  BY <1>1 DEF IInv, TypeOK, Look, IssuerFits, TokenFits, Callback, Resolving, Matched
<1>3. TokenFits'
  BY <1>1 DEF IInv, TypeOK, Look, TokenFits, IssuerFits, Callback, Resolving, Matched
<1>4. BearerFits'
  BY <1>1 DEF IInv, TypeOK, Look, BearerFits, IssuerFits, TokenFits, Callback, Resolving, Matched
<1>5. UserFits'
  BY <1>1 DEF IInv, TypeOK, Look, UserFits, IssuerFits, TokenFits, BearerFits, Callback, Resolving, Matched
<1>6. UsedByOne'
  BY <1>1 DEF IInv, TypeOK, Look, UsedByOne, IssuerFits, TokenFits, BearerFits, UserFits, Callback, Resolving, Matched
<1>7. Rows'
  BY <1>1 DEF IInv, TypeOK, Look, Rows, IssuerFits, BearerFits, TokenFits, Callback, Resolving, Matched
<1>8. LinkFits'
  BY <1>1 DEF IInv, TypeOK, Look, LinkFits, BearerFits, Callback, Resolving, Matched
<1>9. SessionFits'
  BY <1>1 DEF IInv, TypeOK, Look, SessionFits, BearerFits, LinkFits, TokenFits, UserFits, Callback, Resolving, Matched
<1>10. (\A a \in verified : Proven(a))'
  BY <1>1 DEF IInv, TypeOK, Look, Proven, BearerFits, TokenFits, UserFits, IssuerFits, Callback, Resolving, Matched
<1>11. ResetHolds'
  BY <1>1 DEF IInv, TypeOK, Look, ResetHolds, BearerFits, TokenFits, UserFits, Rows, IssuerFits, Callback, Resolving, Matched
<1> QED
  BY <1>1, <1>2, <1>3, <1>4, <1>5, <1>6, <1>7, <1>8, <1>9, <1>10, <1>11 DEF IInv

LEMMA VouchIInv ==
  ASSUME IInv, NEW b \in Bearer, Vouch(b), UNCHANGED memory
  PROVE  IInv'
<1> USE AccountsAssumption DEF Request, Ended, Kind, GoTo, Ends, Overwrites, request, tables, history, Purpose
<1>1. TypeOK'
  <2>1. TypeOK /\ account[b] \in Request
    BY DEF IInv, TypeOK, BearerFits, Matched, Vouch
  <2>2. pc' \in [Request -> Ended \cup {"idle", "insert", "issue", "use", "verify", "set", "find_link", "find",
                                 "look", "vouch", "check_link", "link", "session"}]
    BY <2>1 DEF TypeOK, Vouch
  <2> QED
    BY <2>1, <2>2 DEF TypeOK, Vouch
<1>2. IssuerFits'
  BY <1>1 DEF IInv, TypeOK, Vouch, IssuerFits, TokenFits, Callback, Resolving, Matched
<1>3. TokenFits'
  BY <1>1 DEF IInv, TypeOK, Vouch, TokenFits, IssuerFits, Callback, Resolving, Matched
<1>4. BearerFits'
  BY <1>1 DEF IInv, TypeOK, Vouch, BearerFits, IssuerFits, TokenFits, Callback, Resolving, Matched
<1>5. UserFits'
  BY <1>1 DEF IInv, TypeOK, Vouch, UserFits, IssuerFits, TokenFits, BearerFits, Callback, Resolving, Matched
<1>6. UsedByOne'
  BY <1>1 DEF IInv, TypeOK, Vouch, UsedByOne, IssuerFits, TokenFits, BearerFits, UserFits, Callback, Resolving, Matched
<1>7. Rows'
  BY <1>1 DEF IInv, TypeOK, Vouch, Rows, IssuerFits, BearerFits, TokenFits, Callback, Resolving, Matched
<1>8. LinkFits'
  BY <1>1 DEF IInv, TypeOK, Vouch, LinkFits, BearerFits, Callback, Resolving, Matched
<1>9. SessionFits'
  BY <1>1 DEF IInv, TypeOK, Vouch, SessionFits, BearerFits, LinkFits, TokenFits, UserFits, Callback, Resolving, Matched
<1>10. (\A a \in verified : Proven(a))'
  BY <1>1 DEF IInv, TypeOK, Vouch, Proven, BearerFits, TokenFits, UserFits, IssuerFits, Callback, Resolving, Matched
<1>11. ResetHolds'
  BY <1>1 DEF IInv, TypeOK, Vouch, ResetHolds, BearerFits, TokenFits, UserFits, Rows, IssuerFits, Callback, Resolving, Matched
<1> QED
  BY <1>1, <1>2, <1>3, <1>4, <1>5, <1>6, <1>7, <1>8, <1>9, <1>10, <1>11 DEF IInv

LEMMA CheckLinkIInv ==
  ASSUME IInv, NEW b \in Bearer, CheckLink(b), UNCHANGED memory
  PROVE  IInv'
<1> USE AccountsAssumption DEF Request, Ended, Kind, GoTo, Ends, Overwrites, request, tables, history, Purpose
<1>1. TypeOK'
  BY DEF IInv, TypeOK, CheckLink, IssuerFits, TokenFits, BearerFits
<1>2. IssuerFits'
  BY <1>1 DEF IInv, TypeOK, CheckLink, IssuerFits, TokenFits, Callback, Resolving, Matched
<1>3. TokenFits'
  BY <1>1 DEF IInv, TypeOK, CheckLink, TokenFits, IssuerFits, Callback, Resolving, Matched
<1>4. BearerFits'
  BY <1>1 DEF IInv, TypeOK, CheckLink, BearerFits, IssuerFits, TokenFits, Callback, Resolving, Matched
<1>5. UserFits'
  BY <1>1 DEF IInv, TypeOK, CheckLink, UserFits, IssuerFits, TokenFits, BearerFits, Callback, Resolving, Matched
<1>6. UsedByOne'
  BY <1>1 DEF IInv, TypeOK, CheckLink, UsedByOne, IssuerFits, TokenFits, BearerFits, UserFits, Callback, Resolving, Matched
<1>7. Rows'
  BY <1>1 DEF IInv, TypeOK, CheckLink, Rows, IssuerFits, BearerFits, TokenFits, Callback, Resolving, Matched
<1>8. LinkFits'
  BY <1>1 DEF IInv, TypeOK, CheckLink, LinkFits, BearerFits, Callback, Resolving, Matched
<1>9. SessionFits'
  BY <1>1 DEF IInv, TypeOK, CheckLink, SessionFits, BearerFits, LinkFits, TokenFits, UserFits, Callback, Resolving, Matched
<1>10. (\A a \in verified : Proven(a))'
  BY <1>1 DEF IInv, TypeOK, CheckLink, Proven, BearerFits, TokenFits, UserFits, IssuerFits, Callback, Resolving, Matched
<1>11. ResetHolds'
  BY <1>1 DEF IInv, TypeOK, CheckLink, ResetHolds, BearerFits, TokenFits, UserFits, Rows, IssuerFits, Callback, Resolving, Matched
<1> QED
  BY <1>1, <1>2, <1>3, <1>4, <1>5, <1>6, <1>7, <1>8, <1>9, <1>10, <1>11 DEF IInv

LEMMA LinkIInv ==
  ASSUME IInv, LinkFree, NEW b \in Bearer, Link(b), UNCHANGED memory
  PROVE  IInv'
<1> USE AccountsAssumption DEF Request, Ended, Kind, GoTo, Ends, Overwrites, request, tables, history, Purpose
<1>1. TypeOK'
  <2>1. TypeOK /\ UNCHANGED <<request, account, owner, verified, password, token, history, memory>>
    BY DEF IInv, Link
  <2>2. pc' = [pc EXCEPT ![b] = "session"] \/ pc' = [pc EXCEPT ![b] = "failed"]
    BY DEF Link
  <2>3. pc' \in [Request -> Ended \cup {"idle", "insert", "issue", "use", "verify", "set", "find_link", "find",
                                 "look", "vouch", "check_link", "link", "session"}]
    BY <2>1, <2>2 DEF TypeOK
  <2>4. account[b] \in Request \cup {None} /\ link \in [Identity -> Request \cup {None}]
    BY <2>1 DEF TypeOK
  <2>5. link' = [link EXCEPT ![identity[b]] = account[b]] \/ link' = [link EXCEPT ![identity[b]] = link[identity[b]]]
    BY DEF Link
  <2>6. link' \in [Identity -> Request \cup {None}]
    BY <2>4, <2>5
  <2> QED
    BY <2>1, <2>3, <2>6 DEF TypeOK
<1>2. IssuerFits'
  BY <1>1 DEF IInv, TypeOK, Link, IssuerFits, TokenFits, Callback, Resolving, Matched
<1>3. TokenFits'
  BY <1>1 DEF IInv, TypeOK, Link, TokenFits, IssuerFits, Callback, Resolving, Matched
<1>4. BearerFits'
  BY <1>1 DEF IInv, TypeOK, Link, BearerFits, IssuerFits, TokenFits, Callback, Resolving, Matched
<1>5. UserFits'
  BY <1>1 DEF IInv, TypeOK, Link, UserFits, IssuerFits, TokenFits, BearerFits, Callback, Resolving, Matched
<1>6. UsedByOne'
  BY <1>1 DEF IInv, TypeOK, Link, UsedByOne, IssuerFits, TokenFits, BearerFits, UserFits, Callback, Resolving, Matched
<1>7. Rows'
  BY <1>1 DEF IInv, TypeOK, Link, Rows, IssuerFits, BearerFits, TokenFits, Callback, Resolving, Matched
<1>8. LinkFits'
  BY <1>1 DEF IInv, TypeOK, Link, LinkFits, BearerFits, Callback, Resolving, Matched
<1>9. SessionFits'
  <2>1. TypeOK /\ b \in used /\ Purpose(b) = "start" /\ identity[b] \in Identity
    BY DEF IInv, BearerFits, Callback, Matched, Link
  <2>2. \A c \in Bearer \ {b} : pc'[c] = pc[c]
    BY <2>1 DEF TypeOK, Link
  <2>3. UNCHANGED <<kind, email, identity, carried, account, used>>
    BY DEF Link
  <2>4. \A y \in Identity : link[y] # None => link'[y] = link[y]
    BY <2>1 DEF TypeOK, Link, LinkFree, Matched
  <2>5. pc'[b] = "session" => link'[identity[b]] = account[b]
    BY <2>1 DEF TypeOK, Link
  <2>6. pc'[b] # "done"
    BY <2>1 DEF TypeOK, Link
  <2>7. \A c \in used : Purpose(c) = "start" /\ pc[c] \in {"session", "done"} =>
           identity[c] \in Identity /\ link[identity[c]] # None
    BY DEF IInv, SessionFits
  <2>8. ASSUME NEW c \in used, Purpose(c) = "start", pc'[c] \in {"session", "done"}, c # b
        PROVE  /\ identity[c] \in Identity /\ account[c] # None
               /\ \/ link'[identity[c]] = account[c]
                  \/ \E d \in Bearer : /\ identity[d] = identity[c] /\ account[d] = link'[identity[c]]
                                       /\ email[d] # email[c] /\ account[d] # None
    <3>1. pc[c] \in {"session", "done"}
      BY <2>1, <2>2, <2>8 DEF TypeOK
    <3>2. link'[identity[c]] = link[identity[c]]
      BY <2>4, <2>7, <2>8, <3>1
    <3> QED
      BY <2>8, <3>1, <3>2 DEF IInv, SessionFits
  <2>9. account[b] # None
    BY DEF IInv, BearerFits, Matched, Link
  <2> QED
    BY <2>1, <2>3, <2>5, <2>6, <2>8, <2>9 DEF SessionFits
<1>10. (\A a \in verified : Proven(a))'
  BY <1>1 DEF IInv, TypeOK, Link, Proven, BearerFits, TokenFits, UserFits, IssuerFits, Callback, Resolving, Matched
<1>11. ResetHolds'
  BY <1>1 DEF IInv, TypeOK, Link, ResetHolds, BearerFits, TokenFits, UserFits, Rows, IssuerFits, Callback, Resolving, Matched
<1> QED
  BY <1>1, <1>2, <1>3, <1>4, <1>5, <1>6, <1>7, <1>8, <1>9, <1>10, <1>11 DEF IInv

LEMMA OpenIInv ==
  ASSUME IInv, NEW b \in Bearer, Open(b), UNCHANGED memory
  PROVE  IInv'
<1> USE AccountsAssumption DEF Request, Ended, Kind, GoTo, Ends, Overwrites, request, tables, history, Purpose
<1>1. TypeOK'
  BY DEF IInv, TypeOK, Open, IssuerFits, TokenFits, BearerFits
<1>2. IssuerFits'
  BY <1>1 DEF IInv, TypeOK, Open, IssuerFits, TokenFits, Callback, Resolving, Matched
<1>3. TokenFits'
  BY <1>1 DEF IInv, TypeOK, Open, TokenFits, IssuerFits, Callback, Resolving, Matched
<1>4. BearerFits'
  BY <1>1 DEF IInv, TypeOK, Open, BearerFits, IssuerFits, TokenFits, Callback, Resolving, Matched
<1>5. UserFits'
  BY <1>1 DEF IInv, TypeOK, Open, UserFits, IssuerFits, TokenFits, BearerFits, Callback, Resolving, Matched
<1>6. UsedByOne'
  BY <1>1 DEF IInv, TypeOK, Open, UsedByOne, IssuerFits, TokenFits, BearerFits, UserFits, Callback, Resolving, Matched
<1>7. Rows'
  BY <1>1 DEF IInv, TypeOK, Open, Rows, IssuerFits, BearerFits, TokenFits, Callback, Resolving, Matched
<1>8. LinkFits'
  BY <1>1 DEF IInv, TypeOK, Open, LinkFits, BearerFits, Callback, Resolving, Matched
<1>9. SessionFits'
  BY <1>1 DEF IInv, TypeOK, Open, SessionFits, BearerFits, LinkFits, TokenFits, UserFits, Callback, Resolving, Matched
<1>10. (\A a \in verified : Proven(a))'
  BY <1>1 DEF IInv, TypeOK, Open, Proven, BearerFits, TokenFits, UserFits, IssuerFits, Callback, Resolving, Matched
<1>11. ResetHolds'
  BY <1>1 DEF IInv, TypeOK, Open, ResetHolds, BearerFits, TokenFits, UserFits, Rows, IssuerFits, Callback, Resolving, Matched
<1> QED
  BY <1>1, <1>2, <1>3, <1>4, <1>5, <1>6, <1>7, <1>8, <1>9, <1>10, <1>11 DEF IInv

LEMMA InsertIInv ==
  ASSUME IInv, NEW r \in Request, Insert(r), UNCHANGED memory
  PROVE  IInv'
<1> USE AccountsAssumption DEF Request, Ended, Kind, GoTo, Ends, Overwrites, request, tables, history, Purpose
<1>1. TypeOK'
  <2>1. TypeOK
    BY DEF IInv
  <2>2. pc' \in [Request -> Ended \cup {"idle", "insert", "issue", "use", "verify", "set", "find_link", "find",
                                 "look", "vouch", "check_link", "link", "session"}]
    BY <2>1 DEF TypeOK, Insert
  <2>3. owner' \in [Email -> Request \cup {None}]
    BY <2>1 DEF TypeOK, Insert
  <2>4. password' \in [Request -> Request \cup {None}] /\ account' \in [Request -> Request \cup {None}]
    BY <2>1 DEF TypeOK, Insert
  <2> QED
    BY <2>1, <2>2, <2>3, <2>4 DEF TypeOK, Insert
<1>2. IssuerFits'
  BY <1>1 DEF IInv, TypeOK, Insert, IssuerFits, TokenFits, Callback, Resolving, Matched
<1>3. TokenFits'
  BY <1>1 DEF IInv, TypeOK, Insert, TokenFits, IssuerFits, Callback, Resolving, Matched
<1>4. BearerFits'
  BY <1>1 DEF IInv, TypeOK, Insert, BearerFits, IssuerFits, TokenFits, Callback, Resolving, Matched
<1>5. UserFits'
  BY <1>1 DEF IInv, TypeOK, Insert, UserFits, IssuerFits, TokenFits, BearerFits, Callback, Resolving, Matched
<1>6. UsedByOne'
  BY <1>1 DEF IInv, TypeOK, Insert, UsedByOne, IssuerFits, TokenFits, BearerFits, UserFits, Callback, Resolving, Matched
<1>7. Rows'
  BY <1>1 DEF IInv, TypeOK, Insert, Rows, IssuerFits, BearerFits, TokenFits, Callback, Resolving, Matched
<1>8. LinkFits'
  BY <1>1 DEF IInv, TypeOK, Insert, LinkFits, BearerFits, Callback, Resolving, Matched
<1>9. SessionFits'
  <2>1. /\ account[r] = None
        /\ \A c \in Request \ {r} : account'[c] = account[c] /\ pc'[c] = pc[c]
        /\ pc'[r] \notin {"session", "done"}
        /\ UNCHANGED <<used, kind, carried, identity, email, link>>
    BY DEF IInv, TypeOK, Insert, BearerFits, IssuerFits, Callback, Resolving, Matched
  <2>2. \A b \in used : Purpose(b)' = Purpose(b)
    BY <2>1
  <2>3. \A c \in Request : account[c] # None => account'[c] = account[c]
    BY <2>1
  <2>4. used \subseteq Bearer /\ SessionFits
    BY DEF IInv, TypeOK
  <2> QED
    BY <2>1, <2>2, <2>3, <2>4 DEF SessionFits
<1>10. (\A a \in verified : Proven(a))'
  BY <1>1 DEF IInv, TypeOK, Insert, Proven, BearerFits, TokenFits, UserFits, IssuerFits, Callback, Resolving, Matched
<1>11. ResetHolds'
  BY <1>1 DEF IInv, TypeOK, Insert, ResetHolds, BearerFits, TokenFits, UserFits, Rows, IssuerFits, Callback, Resolving, Matched
<1> QED
  BY <1>1, <1>2, <1>3, <1>4, <1>5, <1>6, <1>7, <1>8, <1>9, <1>10, <1>11 DEF IInv

LEMMA FailIInv ==
  ASSUME IInv, NEW r \in Request, Fail(r), UNCHANGED memory
  PROVE  IInv'
<1> USE AccountsAssumption DEF Request, Ended, Kind, GoTo, Ends, Overwrites, request, tables, history, Purpose
<1>1. TypeOK'
  BY DEF IInv, TypeOK, Fail, IssuerFits, TokenFits, BearerFits
<1>2. IssuerFits'
  BY <1>1 DEF IInv, TypeOK, Fail, IssuerFits, TokenFits, Callback, Resolving, Matched
<1>3. TokenFits'
  BY <1>1 DEF IInv, TypeOK, Fail, TokenFits, IssuerFits, Callback, Resolving, Matched
<1>4. BearerFits'
  BY <1>1 DEF IInv, TypeOK, Fail, BearerFits, IssuerFits, TokenFits, Callback, Resolving, Matched
<1>5. UserFits'
  BY <1>1 DEF IInv, TypeOK, Fail, UserFits, IssuerFits, TokenFits, BearerFits, Callback, Resolving, Matched
<1>6. UsedByOne'
  BY <1>1 DEF IInv, TypeOK, Fail, UsedByOne, IssuerFits, TokenFits, BearerFits, UserFits, Callback, Resolving, Matched
<1>7. Rows'
  BY <1>1 DEF IInv, TypeOK, Fail, Rows, IssuerFits, BearerFits, TokenFits, Callback, Resolving, Matched
<1>8. LinkFits'
  BY <1>1 DEF IInv, TypeOK, Fail, LinkFits, BearerFits, Callback, Resolving, Matched
<1>9. SessionFits'
  BY <1>1 DEF IInv, TypeOK, Fail, SessionFits, BearerFits, LinkFits, TokenFits, UserFits, Callback, Resolving, Matched
<1>10. (\A a \in verified : Proven(a))'
  BY <1>1 DEF IInv, TypeOK, Fail, Proven, BearerFits, TokenFits, UserFits, IssuerFits, Callback, Resolving, Matched
<1>11. ResetHolds'
  BY <1>1 DEF IInv, TypeOK, Fail, ResetHolds, BearerFits, TokenFits, UserFits, Rows, IssuerFits, Callback, Resolving, Matched
<1> QED
  BY <1>1, <1>2, <1>3, <1>4, <1>5, <1>6, <1>7, <1>8, <1>9, <1>10, <1>11 DEF IInv

LEMMA ExpireIInv ==
  ASSUME IInv, NEW i \in Issuer, Expire(i), UNCHANGED memory
  PROVE  IInv'
<1> USE AccountsAssumption DEF Request, Ended, Kind, GoTo, Ends, Overwrites, request, tables, history, Purpose
<1>1. TypeOK'
  BY DEF IInv, TypeOK, Expire, IssuerFits, TokenFits, BearerFits
<1>2. IssuerFits'
  BY <1>1 DEF IInv, TypeOK, Expire, IssuerFits, TokenFits, Callback, Resolving, Matched
<1>3. TokenFits'
  BY <1>1 DEF IInv, TypeOK, Expire, TokenFits, IssuerFits, Callback, Resolving, Matched
<1>4. BearerFits'
  BY <1>1 DEF IInv, TypeOK, Expire, BearerFits, IssuerFits, TokenFits, Callback, Resolving, Matched
<1>5. UserFits'
  BY <1>1 DEF IInv, TypeOK, Expire, UserFits, IssuerFits, TokenFits, BearerFits, Callback, Resolving, Matched
<1>6. UsedByOne'
  BY <1>1 DEF IInv, TypeOK, Expire, UsedByOne, IssuerFits, TokenFits, BearerFits, UserFits, Callback, Resolving, Matched
<1>7. Rows'
  BY <1>1 DEF IInv, TypeOK, Expire, Rows, IssuerFits, BearerFits, TokenFits, Callback, Resolving, Matched
<1>8. LinkFits'
  BY <1>1 DEF IInv, TypeOK, Expire, LinkFits, BearerFits, Callback, Resolving, Matched
<1>9. SessionFits'
  BY <1>1 DEF IInv, TypeOK, Expire, SessionFits, BearerFits, LinkFits, TokenFits, UserFits, Callback, Resolving, Matched
<1>10. (\A a \in verified : Proven(a))'
  BY <1>1 DEF IInv, TypeOK, Expire, Proven, BearerFits, TokenFits, UserFits, IssuerFits, Callback, Resolving, Matched
<1>11. ResetHolds'
  BY <1>1 DEF IInv, TypeOK, Expire, ResetHolds, BearerFits, TokenFits, UserFits, Rows, IssuerFits, Callback, Resolving, Matched
<1> QED
  BY <1>1, <1>2, <1>3, <1>4, <1>5, <1>6, <1>7, <1>8, <1>9, <1>10, <1>11 DEF IInv

LEMMA StutterIInv ==
  ASSUME IInv, UNCHANGED vars
  PROVE  IInv'
<1> USE DEF vars, request, tables, history, Purpose
<1>1. TypeOK' /\ IssuerFits' /\ TokenFits' /\ UserFits' /\ UsedByOne'
  BY DEF IInv, TypeOK, IssuerFits, TokenFits, UserFits, UsedByOne
<1>2. BearerFits' /\ Rows' /\ LinkFits'
  BY DEF IInv, BearerFits, Rows, LinkFits
<1>3. SessionFits' /\ ResetHolds' /\ (\A a \in verified : Proven(a))'
  BY DEF IInv, SessionFits, ResetHolds, Proven
<1> QED
  BY <1>1, <1>2, <1>3 DEF IInv

\* The steps of a request one by one, for the two lemmas about Next.
LEMMA StepPreserves ==
  ASSUME IInv, LinkFree, NEW r \in Request, Step(r), UNCHANGED memory
  PROVE  IInv'
<1>1. CASE r \in Issuer /\ \E e \in Email : Register(r, e) \/ Forget(r, e)
  BY <1>1, RegisterIInv, ForgetIInv
<1>2. CASE r \in Issuer /\ (StartFlow(r) \/ Issue(r))
  BY <1>2, StartFlowIInv, IssueIInv
<1>3. CASE r \in Bearer /\ \E i \in Issuer : Present(r, i)
  BY <1>3, PresentIInv
<1>4. CASE r \in Bearer /\ Serve(r)
  <2>1. CASE Use(r) \/ SetVerified(r) \/ SetPassword(r)
    BY <1>4, <2>1, UseIInv, SetVerifiedIInv, SetPasswordIInv
  <2>2. CASE \E x \in Identity : FindLink(r, x)
    BY <1>4, <2>2, FindLinkIInv
  <2>3. CASE Find(r) \/ Look(r) \/ Vouch(r)
    BY <1>4, <2>3, FindIInv, LookIInv, VouchIInv
  <2>4. CASE CheckLink(r) \/ Link(r) \/ Open(r)
    BY <1>4, <2>4, CheckLinkIInv, LinkIInv, OpenIInv
  <2> QED
    BY <1>4, <2>1, <2>2, <2>3, <2>4 DEF Serve
<1>5. CASE Insert(r) \/ Fail(r)
  BY <1>5, InsertIInv, FailIInv
<1> QED
  BY <1>1, <1>2, <1>3, <1>4, <1>5 DEF Step

-----------------------------------------------------------------------------
\* A step of one request leaves the others where they are, and puts none of
\* them between two calls.
LEMMA OthersStay ==
  ASSUME IInv, NEW r \in Request, Step(r), UNCHANGED memory, NEW q \in Request, q # r
  PROVE  pc'[q] = pc[q] /\ (Inside(q)' => Inside(q))
<1>1. pc'[q] = pc[q]
  <2> USE DEF IInv, TypeOK, GoTo
  <2>1. CASE r \in Issuer /\ \E e \in Email : Register(r, e) \/ Forget(r, e)
    BY <2>1 DEF Register, Forget
  <2>2. CASE r \in Issuer /\ (StartFlow(r) \/ Issue(r))
    BY <2>2 DEF StartFlow, Issue
  <2>3. CASE r \in Bearer /\ \E i \in Issuer : Present(r, i)
    BY <2>3 DEF Present
  <2>4. CASE r \in Bearer /\ Serve(r)
    BY <2>4 DEF Serve, Use, SetVerified, SetPassword, FindLink, Find, Look, Vouch, CheckLink, Link, Open
  <2>5. CASE Insert(r) \/ Fail(r)
    BY <2>5 DEF Insert, Fail
  <2> QED
    BY <2>1, <2>2, <2>3, <2>4, <2>5 DEF Step
<1>2. ASSUME pc[q] = "use" PROVE Purpose(q)' = Purpose(q)
  <2>1. q \in Bearer /\ carried[q] \in Issuer /\ pc[carried[q]] \in {"done", "failed"}
    BY <1>2 DEF IInv, IssuerFits, BearerFits, TokenFits, Request, Ended
  <2> USE DEF IInv, TypeOK, GoTo, Purpose, request
  <2>2. CASE r \in Issuer /\ \E e \in Email : Register(r, e) \/ Forget(r, e)
    BY <2>1, <2>2 DEF Register, Forget, Begin
  <2>3. CASE r \in Issuer /\ (StartFlow(r) \/ Issue(r))
    BY <2>1, <2>3 DEF StartFlow, Issue, Begin
  <2>4. CASE r \in Bearer /\ \E i \in Issuer : Present(r, i)
    BY <2>1, <2>4 DEF Present
  <2>5. CASE r \in Bearer /\ Serve(r)
    BY <2>1, <2>5 DEF Serve, Use, SetVerified, SetPassword, FindLink, Find, Look, Vouch, CheckLink, Link, Open
  <2>6. CASE Insert(r) \/ Fail(r)
    BY <2>1, <2>6 DEF Insert, Fail
  <2> QED
    BY <2>2, <2>3, <2>4, <2>5, <2>6 DEF Step
<1> QED
  BY <1>1, <1>2 DEF Inside

\* What a step may do to who carries and uses which token.
LEMMA TokensStay ==
  ASSUME IInv, NEW r \in Request, Step(r), UNCHANGED memory
  PROVE  /\ used' = used \/ (r \in Bearer /\ Use(r))
         /\ \A b \in used : carried'[b] = carried[b] /\ Purpose(b)' = Purpose(b)
         /\ \A c \in Bearer : carried'[c] = carried[c] \/ token[carried'[c]] = "fresh" \/ pc'[c] # "use"
         /\ \A c \in Bearer : pc'[c] = "use" => pc[c] = "use" \/ token[carried'[c]] = "fresh"
         /\ \A c \in Bearer \ used : c \in used' => c = r
<1> USE DEF IInv, TypeOK, GoTo, Purpose, request, history
<1>1. \A b \in used : /\ b \in Bearer /\ carried[b] \in Issuer
                      /\ pc[b] # "idle" /\ pc[carried[b]] # "idle"
  BY DEF UserFits, TokenFits, BearerFits
<1>2. CASE r \in Issuer /\ ((\E e \in Email : Register(r, e) \/ Forget(r, e)) \/ StartFlow(r) \/ Issue(r))
  <2>1. UNCHANGED <<used, carried>>
    BY <1>2 DEF Register, Forget, StartFlow, Issue, Begin
  <2>2. \A t \in Issuer : pc[t] # "idle" => kind'[t] = kind[t]
    BY <1>2 DEF Register, Forget, StartFlow, Issue, Begin
  <2>3. \A c \in Bearer : pc'[c] = pc[c]
    BY <1>2, OthersStay, AccountsAssumption DEF Request
  <2> QED
    BY <1>1, <2>1, <2>2, <2>3
<1>3. CASE r \in Bearer /\ \E i \in Issuer : Present(r, i)
  <2>1. UNCHANGED <<used, kind>> /\ pc[r] = "idle"
    BY <1>3 DEF Present
  <2>2. \A c \in Bearer \ {r} : carried'[c] = carried[c]
    BY <1>3 DEF Present
  <2>3. \A c \in Bearer \ {r} : pc'[c] = pc[c]
    BY OthersStay DEF Request
  <2>4. pc'[r] = "use" => token[carried'[r]] = "fresh"
    BY <1>3 DEF Present, Request
  <2> QED
    BY <1>1, <2>1, <2>2, <2>3, <2>4
<1>4. CASE (r \in Bearer /\ Serve(r)) \/ Insert(r) \/ Fail(r)
  <2>1. UNCHANGED <<carried, kind>>
    BY <1>4 DEF Serve, Use, SetVerified, SetPassword, FindLink, Find, Look, Vouch, CheckLink, Link, Open,
                Insert, Fail
  <2>4. pc'[r] # "use"
    <3>1. CASE r \in Bearer /\ Use(r)
      <4>1. Purpose(r) \in Kind
        BY <3>1 DEF Use, BearerFits, TokenFits
      <4> QED
        BY <3>1, <4>1 DEF Use, Task, Kind, Request
    <3>2. CASE r \in Bearer /\ \/ SetVerified(r) \/ SetPassword(r) \/ (\E x \in Identity : FindLink(r, x))
                               \/ Find(r) \/ Look(r) \/ Vouch(r) \/ CheckLink(r) \/ Link(r) \/ Open(r)
      BY <3>2 DEF SetVerified, SetPassword, FindLink, Find, Look, Vouch, CheckLink, Link, Open, Ends
    <3>3. CASE Insert(r) \/ Fail(r)
      BY <3>3 DEF Insert, Fail
    <3> QED
      BY <1>4, <3>1, <3>2, <3>3 DEF Serve
  <2>2. \A c \in Bearer \ {r} : pc'[c] = pc[c]
    BY OthersStay DEF Request
  <2>3. used' = used \/ (r \in Bearer /\ Use(r) /\ used' = used \cup {r})
    BY <1>4 DEF Serve, Use, SetVerified, SetPassword, FindLink, Find, Look, Vouch, CheckLink, Link, Open,
                Insert, Fail
  <2> QED
    BY <1>1, <2>1, <2>2, <2>3, <2>4
<1> QED
  BY <1>2, <1>3, <1>4 DEF Step

LEMMA OneInsideStep ==
  ASSUME IInv, NEW r \in Request, Undisturbed(r), Step(r), UNCHANGED memory
  PROVE  OneInside'
<1>1. \A q \in Request : Inside(q)' => q = r
  BY OthersStay DEF Undisturbed
<1> QED
  BY <1>1 DEF OneInside

LEMMA UsedOnceStep ==
  ASSUME IInv, MInv, NEW r \in Request, Undisturbed(r), Step(r), UNCHANGED memory
  PROVE  UsedOnce'
<1> SUFFICES ASSUME NEW b \in used', (Keeper(Purpose(b)) \in memory)',
                    NEW c \in Bearer, c # b, carried'[c] = carried'[b]
             PROVE  c \notin used' /\ pc'[c] # "use"
  BY DEF UsedOnce
<1>1. b \in Bearer /\ carried'[b] \in Issuer
  BY StepPreserves DEF IInv, UserFits, TypeOK, MInv
<1>2. CASE b \in used
  <2>1. carried'[b] = carried[b] /\ Purpose(b)' = Purpose(b) /\ token[carried[b]] = "used"
    BY <1>2, TokensStay DEF IInv, UserFits
  <2>2. Keeper(Purpose(b)) \in memory
    BY <2>1 DEF Keeper
  <2>3. ASSUME carried[c] = carried[b] PROVE c \notin used' /\ pc'[c] # "use"
    <3>1. c \notin used /\ pc[c] # "use"
      BY <1>2, <2>2, <2>3 DEF MInv, UsedOnce
    <3> QED
      BY <2>1, <3>1, TokensStay DEF Use, GoTo
  <2>4. ASSUME carried[c] # carried[b] PROVE c \notin used' /\ pc'[c] # "use"
    <3>1. pc'[c] # "use"
      BY <2>1, <2>4, TokensStay
    <3>2. c \notin used
      BY <2>1, <2>4, TokensStay
    <3>3. c \in used' => Use(c) /\ UNCHANGED carried
      BY <3>2, TokensStay DEF Use, request
    <3> QED
      BY <2>1, <2>4, <3>1, <3>3
  <2> QED
    BY <2>3, <2>4
<1>3. CASE b \notin used
  <2>1. b = r /\ r \in Bearer /\ Use(r)
    BY <1>1, <1>3, TokensStay
  <2>2. /\ UNCHANGED <<carried, kind>> /\ pc[b] = "use"
        /\ Keeper(Purpose(b)) \in memory
    BY <2>1 DEF Use, GoTo, request, Keeper, Purpose
  <2>3. ~Inside(c) /\ pc'[c] = pc[c]
    BY <2>1, OthersStay DEF Undisturbed, Request
  <2>4. pc'[c] # "use"
    BY <2>2, <2>3 DEF Inside, Purpose
  <2>5. c \notin used
    BY <1>1, <2>2 DEF MInv, UsedOnce, Purpose
  <2> QED
    BY <2>1, <2>4, <2>5, TokensStay
<1> QED
  BY <1>2, <1>3

\* While a callback is between its calls to a repository in memory nobody
\* else links, and what the others found or linked is not overwritten.
LEMMA LinksStep ==
  ASSUME IInv, MInv, NEW r \in Request, Undisturbed(r), Step(r), UNCHANGED memory
  PROVE  LinkFree' /\ LinkKept'
<1> SUFFICES ASSUME Overwrites
             PROVE  LinkFree' /\ LinkKept'
  BY DEF LinkFree, LinkKept, Overwrites
<1> USE AccountsAssumption DEF GoTo, request, tables, history
<1>1. \A b \in Bearer \ {r} : pc'[b] = pc[b] /\ pc[b] \notin Resolving \cup Matched
  BY OthersStay DEF Undisturbed, Inside, Overwrites, Resolving, Matched, Request
<1>2. \A b \in used : carried'[b] = carried[b] /\ Purpose(b)' = Purpose(b)
  BY TokensStay
<1>3. CASE r \in Bearer /\ \E x \in Identity : FindLink(r, x)
  <2>1. PICK x \in Identity : FindLink(r, x)
    BY <1>3
  <2>2. /\ identity' = [identity EXCEPT ![r] = x] /\ account' = [account EXCEPT ![r] = link[x]]
        /\ UNCHANGED <<link, used>>
        /\ pc'[r] \in {"session", "find", "denied"} /\ (pc'[r] = "find" => link[x] = None)
    BY <2>1 DEF FindLink, IInv, TypeOK
  <2>3. identity'[r] = x /\ account'[r] = link[x]
    BY <1>3, <2>2 DEF IInv, TypeOK
  <2>4. \A b \in Bearer \ {r} : identity'[b] = identity[b] /\ account'[b] = account[b]
    BY <2>2 DEF IInv, TypeOK, Request
  <2>5. LinkFree'
    BY <1>1, <2>2, <2>3 DEF LinkFree, Resolving, Matched
  <2> QED
    BY <1>1, <1>2, <2>2, <2>3, <2>4, <2>5 DEF LinkKept, MInv, IInv, TypeOK
<1>4. CASE r \in Bearer /\ Link(r)
  <2>1. pc[r] = "link" /\ UNCHANGED <<identity, account, used>> /\ r \in used
    BY <1>4 DEF Link, IInv, BearerFits, Callback, Matched
  <2>2. identity[r] \in Identity /\ link[identity[r]] = None
    BY <1>4, <2>1 DEF MInv, LinkFree, Matched, IInv, BearerFits
  <2>3. pc'[r] = "session" /\ link' = [link EXCEPT ![identity[r]] = account[r]]
    BY <1>4, <2>2 DEF Link, IInv, TypeOK
  <2>4. LinkFree'
    BY <1>1, <2>3 DEF LinkFree, Resolving, Matched
  <2>5. \A b \in used : Purpose(b) = "start" /\ pc[b] \in {"session", "done"} =>
           link'[identity[b]] = account[b]
    <3> SUFFICES ASSUME NEW b \in used, Purpose(b) = "start", pc[b] \in {"session", "done"}
                 PROVE  link'[identity[b]] = account[b]
      OBVIOUS
    <3>1. identity[b] \in Identity /\ account[b] # None /\ link[identity[b]] = account[b]
      BY DEF IInv, SessionFits, MInv, LinkKept
    <3> QED
      BY <2>2, <2>3, <3>1 DEF IInv, TypeOK
  <2>6. link'[identity[r]] = account[r]
    BY <2>2, <2>3 DEF IInv, TypeOK
  <2> QED
    BY <1>1, <1>2, <2>1, <2>4, <2>5, <2>6 DEF LinkKept, IInv, TypeOK
<1>5. CASE r \in Bearer /\ (Find(r) \/ Look(r) \/ Vouch(r) \/ CheckLink(r) \/ Insert(r))
  <2>1. /\ pc[r] \in Resolving \cup Matched /\ pc'[r] \notin {"session", "done"}
        /\ UNCHANGED <<identity, link, used>>
        /\ \A b \in Bearer \ {r} : account'[b] = account[b]
    BY <1>5 DEF Find, Look, Vouch, CheckLink, Insert, IInv, TypeOK, Resolving, Matched, Overwrites, Request
  <2>2. LinkFree'
    BY <1>1, <1>5, <2>1 DEF MInv, LinkFree, Overwrites
  <2> QED
    BY <1>1, <1>2, <2>1, <2>2 DEF LinkKept, MInv, IInv, TypeOK
<1>6. CASE r \in Bearer /\ (Use(r) \/ SetVerified(r) \/ SetPassword(r) \/ Open(r) \/ Fail(r) \/ \E i \in Issuer : Present(r, i))
  <2>1. UNCHANGED <<identity, link>> /\ \A b \in Bearer \ {r} : account'[b] = account[b]
    BY <1>6 DEF Use, SetVerified, SetPassword, Open, Fail, Present, IInv, TypeOK, Request
  <2>6. pc'[r] \notin Resolving \cup Matched \cup {"session"}
    <3>1. CASE Use(r)
      <4>1. Purpose(r) \in Kind
        BY <1>6, <3>1 DEF Use, IInv, BearerFits, TokenFits, Purpose
      <4> QED
        BY <1>6, <3>1, <4>1 DEF Use, IInv, TypeOK, Task, Kind, Resolving, Matched, Request
    <3>2. CASE ~Use(r)
      BY <1>6, <3>2 DEF SetVerified, SetPassword, Open, Fail, Present, IInv, TypeOK, Resolving, Matched,
                        Ends, Request
    <3> QED
      BY <3>1, <3>2
  <2>2. LinkFree'
    BY <1>1, <2>1, <2>6 DEF LinkFree
  <2>3. pc'[r] = "done" /\ r \in used' => Open(r) \/ (r \in used /\ Purpose(r) # "start")
    <3>1. CASE Use(r)
      <4>1. Purpose(r) \in Kind
        BY <1>6, <3>1 DEF Use, IInv, BearerFits, TokenFits, Purpose
      <4> QED
        BY <1>6, <3>1, <4>1 DEF Use, IInv, TypeOK, Task, Kind, Request
    <3>2. CASE SetVerified(r) \/ SetPassword(r)
      BY <1>6, <3>2 DEF SetVerified, SetPassword, IInv, BearerFits
    <3>3. CASE Fail(r) \/ \E i \in Issuer : Present(r, i)
      BY <1>6, <3>3 DEF Fail, Present, IInv, TypeOK, Request
    <3> QED
      BY <1>6, <3>1, <3>2, <3>3
  <2>4. Open(r) => pc[r] = "session" /\ UNCHANGED <<account, used>>
    BY DEF Open
  <2>5. used' = used \/ used' = used \cup {r}
    BY <1>6 DEF Use, SetVerified, SetPassword, Open, Fail, Present
  <2> QED
    BY <1>1, <1>2, <2>1, <2>2, <2>3, <2>4, <2>5, <2>6 DEF LinkKept, MInv, IInv, TypeOK
<1>7. CASE r \in Issuer
  <2>1. /\ UNCHANGED <<identity, link, used>>
        /\ \A b \in Bearer : account'[b] = account[b] /\ pc'[b] = pc[b]
    BY <1>7 DEF Step, Register, Forget, StartFlow, Issue, Insert, Fail, Begin, IInv, TypeOK, Request
  <2> QED
    BY <1>2, <2>1 DEF LinkFree, LinkKept, MInv, IInv, TypeOK
<1> QED
  BY <1>3, <1>4, <1>5, <1>6, <1>7 DEF Step, Serve, Request

LEMMA ExpireMInv ==
  ASSUME MInv, NEW i \in Issuer, Expire(i), UNCHANGED memory
  PROVE  MInv'
BY DEF Expire, MInv, OneInside, UsedOnce, LinkFree, LinkKept, Inside, Keeper, Overwrites, Purpose,
       request, tables, history

LEMMA StutterMInv ==
  ASSUME MInv, UNCHANGED vars
  PROVE  MInv'
BY DEF vars, MInv, OneInside, UsedOnce, LinkFree, LinkKept, Inside, Keeper, Overwrites, Purpose,
       request, tables, history

LEMMA InitMInv == Init => MInv
BY AccountsAssumption DEF Init, MInv, OneInside, UsedOnce, LinkFree, LinkKept, Inside, Request,
                          Resolving, Matched
-----------------------------------------------------------------------------
LEMMA NextPreserves == IInv /\ MInv /\ [Next]_vars => IInv' /\ MInv'
<1> SUFFICES ASSUME IInv, MInv, [Next]_vars PROVE IInv' /\ MInv'
  OBVIOUS
<1>1. ASSUME NEW r \in Request, Undisturbed(r), Step(r), UNCHANGED memory PROVE IInv' /\ MInv'
  BY <1>1, StepPreserves, OneInsideStep, UsedOnceStep, LinksStep DEF MInv
<1>2. ASSUME NEW i \in Issuer, Expire(i), UNCHANGED memory PROVE IInv' /\ MInv'
  BY <1>2, ExpireIInv, ExpireMInv
<1>3. CASE Finished \/ UNCHANGED vars
  BY <1>3, StutterIInv, StutterMInv DEF Finished
<1> QED
  BY <1>1, <1>2, <1>3 DEF Next

THEOREM Invariance == Spec => [](IInv /\ MInv)
<1> QED
  BY InitIInv, InitMInv, NextPreserves, PTL DEF Spec
-----------------------------------------------------------------------------
\* Every table and every request keeps its type: in particular no request
\* reaches a write of set_email_verified or set_password
\* (repositories/user_repository.py:307-328) without an account.
THEOREM TypeCorrect == Spec => []TypeOK
<1>1. IInv => TypeOK
  BY DEF IInv
<1> QED
  BY <1>1, Invariance, PTL

\* Of the requests that consume one token (consume_* in
\* repositories/user_repository.py:385-423, pop_oauth_state in
\* security/sessions.py:170-173) all but the first had read it before the
\* first marked it used; of what is kept in memory (:206-211, 225-230,
\* security/sessions.py:107-111) there is no other.
THEOREM OneUseUnlessTogether == Spec => []OnceUnlessTogether
<1>1. IInv /\ MInv => OnceUnlessTogether
  BY DEF IInv, MInv, TypeOK, UserFits, UsedOnce, OnceUnlessTogether
<1> QED
  BY <1>1, Invariance, PTL

\* An account is marked verified by its own token or by a provider that vouched
\* for its address (services/auth_service.py:158-168, 217-226) and by nothing else.
THEOREM VerifiedMeansProven == Spec => []VerifiedIsProven
<1>1. IInv => VerifiedIsProven
  BY DEF IInv, Proven, VerifiedIsProven
<1> QED
  BY <1>1, Invariance, PTL

\* login_with_oauth (services/auth_service.py:197-243) opens a session of the
\* account the identity is linked to, unless two first callbacks cross in
\* PostgreSQL.
THEOREM LinkedSession == Spec => []SessionIsLinked
<1>1. IInv /\ MInv => SessionIsLinked
  BY DEF IInv, MInv, SessionFits, LinkKept, Overwrites, SessionIsLinked
<1> QED
  BY <1>1, Invariance, PTL

\* A token that is used up did its work, or a request broke off half-way
\* (verify_email, reset_password: services/auth_service.py:158-195).
THEOREM TokensDoTheirWork == Spec => []NothingWasted
<1>1. ASSUME IInv, NEW i \in Issuer, kind[i] = "register", account[i] = i, i \notin verified
      PROVE  \/ pc[i] \in {"issue", "failed"}
             \/ token[i] \in {"fresh", "expired"}
             \/ \E b \in used : carried[b] = i /\ pc[b] \in {"verify", "failed"}
  <2>1. i # None /\ i \in Request
    BY AccountsAssumption DEF Request
  <2>2. token[i] \in {"none", "fresh", "used", "expired"}
    BY <1>1 DEF IInv, TypeOK
  <2>3. pc[i] \in {"issue", "done", "denied", "failed"}
    BY <1>1, <2>1 DEF IInv, IssuerFits, Ended
  <2>4. CASE token[i] = "used"
    <3>1. PICK b \in used : carried[b] = i
      BY <1>1, <2>4 DEF IInv, UsedByOne
    <3>2. pc[b] \in {"verify", "done", "failed"} /\ account[b] = i
      BY <1>1, <3>1 DEF IInv, UserFits, Purpose
    <3> QED
      BY <1>1, <3>1, <3>2 DEF IInv, UserFits, Purpose
  <2>5. CASE token[i] = "none"
    BY <1>1, <2>1, <2>3, <2>5 DEF IInv, IssuerFits
  <2> QED
    BY <2>2, <2>4, <2>5
<1>2. ASSUME IInv, NEW i \in Issuer, kind[i] = "forgot", token[i] = "used"
      PROVE  \/ \E b \in used : carried[b] = i /\ pc[b] \in {"set", "failed"}
             \/ password[account[i]] \in {b \in used : Purpose(b) = "forgot" /\ account[b] = account[i]}
  <2>1. PICK b \in used : carried[b] = i
    BY <1>2 DEF IInv, UsedByOne
  <2>2. pc[b] \in {"set", "done", "failed"} /\ account[b] = account[i] /\ Purpose(b) = "forgot"
    BY <1>2, <2>1 DEF IInv, UserFits, Purpose
  <2> QED
    BY <1>2, <2>1, <2>2 DEF IInv, ResetHolds
<1>3. IInv => NothingWasted
  BY <1>1, <1>2 DEF NothingWasted
<1> QED
  BY <1>3, Invariance, PTL
=============================================================================
