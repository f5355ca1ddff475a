---------------------------- MODULE SessionsProofs ----------------------------
(***************************************************************************)
(* Theorems about Sessions for any users, logins, other requests and any   *)
(* session lifetime.                                                       *)
(***************************************************************************)
EXTENDS Sessions, TLAPS

\* A session that does not work or is one that can escape.
Out(s) == entry[s] > 0 => Escaped(s)

\* Nothing is known of a session before its login has created it.
Unborn == {s \in Login : pc[s] \in {"idle", "create"}}
Holding == {"check", "write", "drop", "drop_gone", "unlist"}
BornFirst ==
  /\ \A s \in Unborn : entry[s] = 0 /\ \A u \in User : s \notin index[u]
  /\ \A c \in Client : /\ todo[c] \cap Unborn = {}
                       /\ covered[c] \cap Unborn = {}
                       /\ pc[c] \in Holding => sid[c] \notin Unborn
  /\ \A c \in Client : \A s \in older[c] : pc[s] \notin {"idle", "denied"} /\ user[s] = Account(c)

\* The index of a user lists that user's sessions.
IndexOwn == \A u \in User : \A s \in index[u] : user[s] = u

Sweeping == {"read", "drop", "drop_gone", "unlist", "drop_index", "done"}

\* Where a request is fits what it was asked for.
KindFits ==
  \A c \in Client : /\ pc[c] \in {"members", "drop_index"} => kind[c] \in Revoking
                    /\ pc[c] \in {"read", "drop", "drop_gone", "unlist"} => kind[c] # "use"
                    /\ pc[c] \in {"drop_index", "done"} /\ kind[c] \in Revoking => todo[c] = {}

\* A request deletes sessions of one user.
TodoOwn == \A c \in Client : \A s \in todo[c] : user[s] = Account(c)

\* A session about to be taken off the index is deleted, unless a touch
\* brought it back.
Gone == \A c \in Client : pc[c] = "unlist" => Out(sid[c])

\* Each session a revocation found is still to be deleted, or was.
Swept(c) == \A s \in covered[c] : \/ s \in todo[c]
                                  \/ pc[c] \in {"drop", "drop_gone"} /\ s = sid[c]
                                  \/ Out(s)

\* A revocation found all that was listed.
FoundAll(c) == \A s \in older[c] \ crossing[c] : /\ pc[s] \notin {"create", "list"}
                                                 /\ s \in covered[c] \/ Out(s)

Revocation == \A c \in Client : kind[c] \in Revoking /\ pc[c] \in Sweeping => Swept(c) /\ FoundAll(c)

\* In memory one request at a time is inside a method of the store; a touch
\* writes back what is there, and what is listed while a revocation is at work
\* is what it found.
OneInside == backend = "memory" => \A q, r \in Request : Inside(q) /\ Inside(r) => q = r

Kept == backend = "memory" =>
  \A c \in Client :
     /\ pc[c] = "write" => entry[sid[c]] > 0
     /\ kind[c] \in Revoking /\ pc[c] \in Sweeping \ {"done"} => index[Account(c)] \subseteq covered[c]

IInv == /\ TypeOK
        /\ LiveIsListed
        /\ BornFirst
        /\ IndexOwn
        /\ KindFits
        /\ TodoOwn
        /\ Gone
        /\ Revocation
        /\ OneInside
        /\ Kept
-----------------------------------------------------------------------------
LEMMA AccountOfType == ASSUME TypeOK, NEW c \in Client PROVE Account(c) \in User
BY DEF TypeOK, Account, Request

LEMMA InitIInv == Init => IInv
<1> SUFFICES ASSUME Init PROVE IInv
  OBVIOUS
<1>1. TypeOK
  <2>1. 0 \in 0..TTL /\ 0 \in 0..Lasting
    BY SessionsAssumption DEF Lasting
  <2>2. /\ pc \in [Request -> {"idle"}]
        /\ entry \in [Login -> {0}]
        /\ expiry \in [User -> {0}]
    BY DEF Init
  <2> QED
    BY <2>1, <2>2 DEF Init, TypeOK
<1>2. LiveIsListed /\ BornFirst /\ IndexOwn
  BY SessionsAssumption DEF Init, LiveIsListed, BornFirst, IndexOwn, Unborn, Holding, Request
<1>3. KindFits /\ TodoOwn /\ Gone /\ Revocation /\ OneInside /\ Kept
  BY SessionsAssumption DEF Init, OneInside, Kept, Inside, KindFits, TodoOwn, Gone, Revocation, Sweeping, Request
<1> QED
  BY <1>1, <1>2, <1>3 DEF IInv

LEMMA VerifyIInv ==
  ASSUME IInv, NEW l \in Login, Undisturbed(l), Verify(l)
  PROVE  IInv'
<1> USE SessionsAssumption DEF Request, Ended, GoTo, given, store, history
<1>1. TypeOK'
  BY DEF IInv, TypeOK, Verify, Revoking
<1>2. LiveIsListed'
  BY <1>1 DEF IInv, TypeOK, BornFirst, Unborn, Holding, Verify, LiveIsListed, Escaped
<1>3. BornFirst'
  BY <1>1 DEF IInv, TypeOK, Verify, BornFirst, Unborn, Holding, Account
<1>4. IndexOwn'
  BY <1>1 DEF IInv, TypeOK, Verify, IndexOwn
<1>5. KindFits'
  BY <1>1 DEF IInv, TypeOK, Verify, KindFits, Revoking
<1>6. TodoOwn'
  BY <1>1 DEF IInv, TypeOK, Verify, TodoOwn, Account
<1>7. Gone'
  BY <1>1 DEF IInv, TypeOK, BornFirst, Unborn, Holding, Verify, Gone, Out, Escaped
<1>8. Revocation'
  BY <1>1 DEF IInv, TypeOK, BornFirst, Unborn, Holding, Verify, Revocation, Sweeping, Swept, FoundAll, Out, Escaped, Account, Revoking
<1>9. OneInside'
  BY <1>1 DEF IInv, TypeOK, Verify, OneInside, Inside, Undisturbed, Revoking
<1>10. Kept'
  BY <1>1 DEF IInv, TypeOK, BornFirst, Unborn, Holding, Verify, Kept, OneInside, Inside, Undisturbed, Account, Sweeping, Revoking
<1> QED
  BY <1>1, <1>2, <1>3, <1>4, <1>5, <1>6, <1>7, <1>8, <1>9, <1>10 DEF IInv

LEMMA CreateIInv ==
  ASSUME IInv, NEW l \in Login, Undisturbed(l), Create(l)
  PROVE  IInv'
<1> USE SessionsAssumption DEF Request, Ended, GoTo, given, store, history
<1>1. TypeOK'
  BY DEF IInv, TypeOK, Create, Revoking
<1>2. LiveIsListed'
  BY <1>1 DEF IInv, TypeOK, BornFirst, Unborn, Holding, Create, LiveIsListed, Escaped
<1>3. BornFirst'
  BY <1>1 DEF IInv, TypeOK, Create, BornFirst, Unborn, Holding, Account
<1>4. IndexOwn'
  BY <1>1 DEF IInv, TypeOK, Create, IndexOwn
<1>5. KindFits'
  BY <1>1 DEF IInv, TypeOK, Create, KindFits, Revoking
<1>6. TodoOwn'
  BY <1>1 DEF IInv, TypeOK, Create, TodoOwn, Account
<1>7. Gone'
  BY <1>1 DEF IInv, TypeOK, BornFirst, Unborn, Holding, Create, Gone, Out, Escaped
<1>8. Revocation'
  <2> SUFFICES ASSUME NEW d \in Client, kind[d] \in Revoking, pc'[d] \in Sweeping
               PROVE  Swept(d)' /\ FoundAll(d)'
    BY DEF Create, Revocation, Sweeping
  <2>1. pc[d] = pc'[d] /\ Swept(d) /\ FoundAll(d)
    BY DEF IInv, TypeOK, Create, Revocation
  <2>2. \A s \in Login : s # l /\ Out(s) => Out(s)'
    BY DEF IInv, TypeOK, Create, Out, Escaped
  <2>3. l \notin covered[d] /\ covered[d] \subseteq Login /\ older[d] \subseteq Login
    BY DEF IInv, TypeOK, Create, BornFirst, Unborn
  <2>4. l \in older[d] => l \in crossing[d]
    <3>1. pc[l] = "create"
      BY DEF Create
    <3> QED
      BY <2>1, <3>1 DEF FoundAll
  <2>5. /\ \A s \in Login \ {l} : pc'[s] = pc[s]
        /\ UNCHANGED <<kind, sid, todo, older, covered, crossing>>
    BY DEF IInv, TypeOK, Create
  <2>6. Swept(d)'
    BY <2>1, <2>2, <2>3, <2>5 DEF Swept
  <2>7. FoundAll(d)'
    BY <2>1, <2>2, <2>3, <2>4, <2>5 DEF FoundAll
  <2> QED
    BY <2>6, <2>7
<1>9. OneInside'
  BY <1>1 DEF IInv, TypeOK, Create, OneInside, Inside, Undisturbed, Revoking
<1>10. Kept'
  BY <1>1 DEF IInv, TypeOK, BornFirst, Unborn, Holding, Create, Kept, OneInside, Inside, Undisturbed, Account, Sweeping, Revoking
<1> QED
  BY <1>1, <1>2, <1>3, <1>4, <1>5, <1>6, <1>7, <1>8, <1>9, <1>10 DEF IInv

LEMMA ListIInv ==
  ASSUME IInv, NEW l \in Login, Undisturbed(l), List(l)
  PROVE  IInv'
<1> USE SessionsAssumption DEF Request, Ended, GoTo, given, store, history
<1>1. TypeOK'
  <2>1. TypeOK /\ user[l] \in User /\ Lasting \in 0..Lasting
    BY DEF IInv, TypeOK, Lasting
  <2>2. expiry' \in [User -> 0..Lasting]
    BY <2>1 DEF TypeOK, List
  <2> QED
    BY <2>1, <2>2 DEF TypeOK, List
<1>2. LiveIsListed'
  BY <1>1 DEF IInv, TypeOK, BornFirst, Unborn, Holding, List, LiveIsListed, Escaped
<1>3. BornFirst'
  BY <1>1 DEF IInv, TypeOK, List, BornFirst, Unborn, Holding, Account
<1>4. IndexOwn'
  BY <1>1 DEF IInv, TypeOK, List, IndexOwn
<1>5. KindFits'
  BY <1>1 DEF IInv, TypeOK, List, KindFits, Revoking
<1>6. TodoOwn'
  BY <1>1 DEF IInv, TypeOK, List, TodoOwn, Account
<1>7. Gone'
  BY <1>1 DEF IInv, TypeOK, BornFirst, Unborn, Holding, List, Gone, Out, Escaped
<1>8. Revocation'
  BY <1>1 DEF IInv, TypeOK, BornFirst, Unborn, Holding, List, Revocation, Sweeping, Swept, FoundAll, Out, Escaped, Account, Revoking
<1>9. OneInside'
  BY <1>1 DEF IInv, TypeOK, List, OneInside, Inside, Undisturbed, Revoking
<1>10. Kept'
  BY <1>1 DEF IInv, TypeOK, BornFirst, Unborn, Holding, List, Kept, OneInside, Inside, Undisturbed, Account, Sweeping, Revoking
<1> QED
  BY <1>1, <1>2, <1>3, <1>4, <1>5, <1>6, <1>7, <1>8, <1>9, <1>10 DEF IInv

LEMMA ExpireIInv ==
  ASSUME IInv, NEW l \in Login, Undisturbed(l), Expire(l)
  PROVE  IInv'
<1> USE SessionsAssumption DEF Request, Ended, GoTo, given, store, history
<1>1. TypeOK'
  <2>1. TypeOK /\ user[l] \in User /\ {0, TTL} \subseteq 0..Lasting
    BY DEF IInv, TypeOK, Lasting
  <2>2. expiry' \in [User -> 0..Lasting]
    BY <2>1 DEF TypeOK, Expire
  <2> QED
    BY <2>1, <2>2 DEF TypeOK, Expire
<1>2. LiveIsListed'
  BY <1>1 DEF IInv, TypeOK, BornFirst, Unborn, Holding, Expire, LiveIsListed, Escaped
<1>3. BornFirst'
  BY <1>1 DEF IInv, TypeOK, Expire, BornFirst, Unborn, Holding, Account
<1>4. IndexOwn'
  BY <1>1 DEF IInv, TypeOK, Expire, IndexOwn
<1>5. KindFits'
  BY <1>1 DEF IInv, TypeOK, Expire, KindFits, Revoking
<1>6. TodoOwn'
  BY <1>1 DEF IInv, TypeOK, Expire, TodoOwn, Account
<1>7. Gone'
  BY <1>1 DEF IInv, TypeOK, BornFirst, Unborn, Holding, Expire, Gone, Out, Escaped
<1>8. Revocation'
  BY <1>1 DEF IInv, TypeOK, BornFirst, Unborn, Holding, Expire, Revocation, Sweeping, Swept, FoundAll, Out, Escaped, Account, Revoking
<1>9. OneInside'
  BY <1>1 DEF IInv, TypeOK, Expire, OneInside, Inside, Undisturbed, Revoking
<1>10. Kept'
  BY <1>1 DEF IInv, TypeOK, BornFirst, Unborn, Holding, Expire, Kept, OneInside, Inside, Undisturbed, Account, Sweeping, Revoking
<1> QED
  BY <1>1, <1>2, <1>3, <1>4, <1>5, <1>6, <1>7, <1>8, <1>9, <1>10 DEF IInv

LEMMA PresentIInv ==
  ASSUME IInv, NEW c \in Client, Undisturbed(c), Present(c)
  PROVE  IInv'
<1> USE SessionsAssumption DEF Request, Ended, GoTo, given, store, history
<1>1. TypeOK'
  BY DEF IInv, TypeOK, Present, Revoking, Resolved, Remember, Verified, Answered
<1>2. LiveIsListed'
  BY <1>1 DEF IInv, TypeOK, BornFirst, Unborn, Holding, Present, Resolved, Remember, Verified, Answered, LiveIsListed, Escaped
<1>3. BornFirst'
  BY <1>1 DEF IInv, TypeOK, Present, Resolved, Remember, Verified, Answered, BornFirst, Unborn, Holding, Account
<1>4. IndexOwn'
  BY <1>1 DEF IInv, TypeOK, Present, Resolved, Remember, Verified, Answered, IndexOwn
<1>5. KindFits'
  BY <1>1 DEF IInv, TypeOK, Present, Resolved, Remember, Verified, Answered, KindFits, Revoking
<1>6. TodoOwn'
  BY <1>1 DEF IInv, TypeOK, Present, Resolved, Remember, Verified, Answered, TodoOwn, Account
<1>7. Gone'
  BY <1>1 DEF IInv, TypeOK, BornFirst, Unborn, Holding, Present, Resolved, Remember, Verified, Answered, Gone, Out, Escaped
<1>8. Revocation'
  BY <1>1 DEF IInv, TypeOK, BornFirst, Unborn, Holding, Present, Resolved, Remember, Verified, Answered, Revocation, Sweeping, Swept, FoundAll, Out, Escaped, Account, Revoking
<1>9. OneInside'
  BY <1>1 DEF IInv, TypeOK, Present, Resolved, Remember, Verified, Answered, OneInside, Inside, Undisturbed, Revoking
<1>10. Kept'
  BY <1>1 DEF IInv, TypeOK, BornFirst, Unborn, Holding, Present, Resolved, Remember, Verified, Answered, Kept, OneInside, Inside, Undisturbed, Account, Sweeping, Revoking
<1> QED
  BY <1>1, <1>2, <1>3, <1>4, <1>5, <1>6, <1>7, <1>8, <1>9, <1>10 DEF IInv

LEMMA TouchReadIInv ==
  ASSUME IInv, NEW c \in Client, Undisturbed(c), TouchRead(c)
  PROVE  IInv'
<1> USE SessionsAssumption DEF Request, Ended, GoTo, given, store, history
<1>1. TypeOK'
  BY DEF IInv, TypeOK, TouchRead, Revoking, Resolved
<1>2. LiveIsListed'
  BY <1>1 DEF IInv, TypeOK, BornFirst, Unborn, Holding, TouchRead, Resolved, LiveIsListed, Escaped
<1>3. BornFirst'
  BY <1>1 DEF IInv, TypeOK, TouchRead, Resolved, BornFirst, Unborn, Holding, Account
<1>4. IndexOwn'
  BY <1>1 DEF IInv, TypeOK, TouchRead, Resolved, IndexOwn
<1>5. KindFits'
  BY <1>1 DEF IInv, TypeOK, TouchRead, Resolved, KindFits, Revoking
<1>6. TodoOwn'
  BY <1>1 DEF IInv, TypeOK, TouchRead, Resolved, TodoOwn, Account
<1>7. Gone'
  BY <1>1 DEF IInv, TypeOK, BornFirst, Unborn, Holding, TouchRead, Resolved, Gone, Out, Escaped
<1>8. Revocation'
  BY <1>1 DEF IInv, TypeOK, BornFirst, Unborn, Holding, TouchRead, Resolved, Revocation, Sweeping, Swept, FoundAll, Out, Escaped, Account, Revoking
<1>9. OneInside'
  BY <1>1 DEF IInv, TypeOK, TouchRead, Resolved, OneInside, Inside, Undisturbed, Revoking
<1>10. Kept'
  BY <1>1 DEF IInv, TypeOK, BornFirst, Unborn, Holding, TouchRead, Resolved, Kept, OneInside, Inside, Undisturbed, Account, Sweeping, Revoking
<1> QED
  BY <1>1, <1>2, <1>3, <1>4, <1>5, <1>6, <1>7, <1>8, <1>9, <1>10 DEF IInv

LEMMA TouchWriteIInv ==
  ASSUME IInv, NEW c \in Client, Undisturbed(c), TouchWrite(c)
  PROVE  IInv'
<1> USE SessionsAssumption DEF Request, Ended, GoTo, given, store, history
<1>1. TypeOK'
  BY DEF IInv, TypeOK, TouchWrite, Revoking, Resolved
<1>2. LiveIsListed'
  <2>1. \A s \in Login : entry'[s] > 0 /\ entry[s] = 0 => Escaped(s)'
    BY DEF IInv, TypeOK, Kept, TouchWrite, Escaped, Resolved
  <2>2. \A s \in Login : Escaped(s) => Escaped(s)'
    BY DEF IInv, TypeOK, TouchWrite, Escaped, Resolved
  <2>3. \A s \in Login : pc'[s] = pc[s] /\ entry[s] \in Nat
    BY DEF IInv, TypeOK, TouchWrite
  <2> QED
    BY <2>1, <2>2, <2>3 DEF IInv, TouchWrite, LiveIsListed
<1>3. BornFirst'
  BY <1>1 DEF IInv, TypeOK, TouchWrite, Resolved, BornFirst, Unborn, Holding, Account
<1>4. IndexOwn'
  BY <1>1 DEF IInv, TypeOK, TouchWrite, Resolved, IndexOwn
<1>5. KindFits'
  BY <1>1 DEF IInv, TypeOK, TouchWrite, Resolved, KindFits, Revoking
<1>6. TodoOwn'
  BY <1>1 DEF IInv, TypeOK, TouchWrite, Resolved, TodoOwn, Account
<1>b. \A s \in Login : Out(s) => Out(s)'
  BY DEF IInv, TypeOK, Kept, TouchWrite, Out, Escaped, Resolved
<1>7. Gone'
  <2>1. \A d \in Client : pc'[d] = "unlist" => pc[d] = "unlist" /\ sid[d] \in Login
    BY DEF IInv, TypeOK, TouchWrite, Resolved
  <2> QED
    BY <2>1, <1>b DEF IInv, TouchWrite, Gone
<1>8. Revocation'
  <2> SUFFICES ASSUME NEW d \in Client, kind[d] \in Revoking, pc'[d] \in Sweeping
               PROVE  Swept(d)' /\ FoundAll(d)'
    BY DEF TouchWrite, Revocation, Sweeping
  <2>1. d # c
    BY DEF IInv, TypeOK, TouchWrite, Resolved, Sweeping, Revoking
  <2>2. pc[d] = pc'[d] /\ Swept(d) /\ FoundAll(d)
    BY <2>1 DEF IInv, TypeOK, TouchWrite, Revocation
  <2>3. covered[d] \subseteq Login /\ older[d] \subseteq Login /\ \A s \in Login : pc'[s] = pc[s]
    BY DEF IInv, TypeOK, TouchWrite
  <2> QED
    BY <2>2, <2>3, <1>b DEF TouchWrite, Swept, FoundAll
<1>9. OneInside'
  BY <1>1 DEF IInv, TypeOK, TouchWrite, Resolved, OneInside, Inside, Undisturbed, Revoking
<1>10. Kept'
  BY <1>1 DEF IInv, TypeOK, BornFirst, Unborn, Holding, TouchWrite, Resolved, Kept, OneInside, Inside, Undisturbed, Account, Sweeping, Revoking
<1> QED
  BY <1>1, <1>2, <1>3, <1>4, <1>5, <1>6, <1>7, <1>8, <1>9, <1>10 DEF IInv

LEMMA ResetIInv ==
  ASSUME IInv, NEW c \in Client, Undisturbed(c), Reset(c)
  PROVE  IInv'
<1> USE SessionsAssumption DEF Request, Ended, GoTo, given, store, history
<1>1. TypeOK'
  BY DEF IInv, TypeOK, Reset, Revoking, Remember, Verified, Answered
<1>2. LiveIsListed'
  BY <1>1 DEF IInv, TypeOK, BornFirst, Unborn, Holding, Reset, Remember, Verified, Answered, LiveIsListed, Escaped
<1>3. BornFirst'
  BY <1>1 DEF IInv, TypeOK, Reset, Remember, Verified, Answered, BornFirst, Unborn, Holding, Account
<1>4. IndexOwn'
  BY <1>1 DEF IInv, TypeOK, Reset, Remember, Verified, Answered, IndexOwn
<1>5. KindFits'
  BY <1>1 DEF IInv, TypeOK, Reset, Remember, Verified, Answered, KindFits, Revoking
<1>6. TodoOwn'
  BY <1>1 DEF IInv, TypeOK, Reset, Remember, Verified, Answered, TodoOwn, Account
<1>7. Gone'
  BY <1>1 DEF IInv, TypeOK, BornFirst, Unborn, Holding, Reset, Remember, Verified, Answered, Gone, Out, Escaped
<1>8. Revocation'
  BY <1>1 DEF IInv, TypeOK, BornFirst, Unborn, Holding, Reset, Remember, Verified, Answered, Revocation, Sweeping, Swept, FoundAll, Out, Escaped, Account, Revoking
<1>9. OneInside'
  BY <1>1 DEF IInv, TypeOK, Reset, Remember, Verified, Answered, OneInside, Inside, Undisturbed, Revoking
<1>10. Kept'
  BY <1>1 DEF IInv, TypeOK, BornFirst, Unborn, Holding, Reset, Remember, Verified, Answered, Kept, OneInside, Inside, Undisturbed, Account, Sweeping, Revoking
<1> QED
  BY <1>1, <1>2, <1>3, <1>4, <1>5, <1>6, <1>7, <1>8, <1>9, <1>10 DEF IInv

LEMMA MembersIInv ==
  ASSUME IInv, NEW c \in Client, Undisturbed(c), Members(c)
  PROVE  IInv'
<1> USE SessionsAssumption DEF Request, Ended, GoTo, given, store, history
<1>a. TypeOK /\ Account(c) \in User
  BY AccountOfType DEF IInv
<1>1. TypeOK'
  BY <1>a DEF TypeOK, Members, Unlisted, Revoking, Deleting
<1>2. LiveIsListed'
  BY <1>1 DEF IInv, TypeOK, BornFirst, Unborn, Holding, Members, Unlisted, Deleting, LiveIsListed, Escaped
<1>3. BornFirst'
  BY <1>1, <1>a DEF IInv, TypeOK, LiveIsListed, Members, Unlisted, Deleting, BornFirst, Unborn, Holding, Account
<1>4. IndexOwn'
  BY <1>1 DEF IInv, TypeOK, Members, Unlisted, Deleting, IndexOwn
<1>5. KindFits'
  BY <1>1 DEF IInv, TypeOK, Members, Unlisted, Deleting, KindFits, Revoking
<1>6. TodoOwn'
  BY <1>1, <1>a DEF IInv, TypeOK, Members, Unlisted, Deleting, TodoOwn, Account, IndexOwn
<1>7. Gone'
  BY <1>1 DEF IInv, TypeOK, BornFirst, Unborn, Holding, LiveIsListed, Members, Unlisted, Deleting, Gone, Out, Escaped
<1>8. Revocation'
  <2> SUFFICES ASSUME NEW d \in Client, kind[d] \in Revoking, pc'[d] \in Sweeping
               PROVE  Swept(d)' /\ FoundAll(d)'
    BY DEF Members, Revocation, Sweeping
  <2>1. /\ \A s \in Login : pc'[s] = pc[s] /\ (Out(s) <=> Out(s)')
        /\ covered[d] \subseteq Login /\ older[d] \subseteq Login
    BY DEF IInv, TypeOK, Members, Unlisted, Out, Escaped
  <2>2. CASE d # c
    <3>1. pc[d] = pc'[d] /\ Swept(d) /\ FoundAll(d)
      BY <2>2 DEF IInv, TypeOK, Members, Revocation
    <3> QED
      BY <2>1, <2>2, <3>1 DEF IInv, TypeOK, Members, Swept, FoundAll
  <2>3. CASE d = c
    <3>1. /\ todo'[c] = index[Account(c)] /\ covered'[c] = index[Account(c)]
          /\ crossing'[c] = Unlisted(c)
      BY <1>a DEF TypeOK, Members
    <3>2. \A s \in older[c] : user[s] = Account(c)
      BY DEF IInv, BornFirst
    <3>3. FoundAll(c)'
      BY <1>a, <2>1, <2>3, <3>1, <3>2 DEF IInv, Members, FoundAll, Unlisted, LiveIsListed, Out
    <3> QED
      BY <2>3, <3>1, <3>3 DEF Swept
  <2> QED
    BY <2>2, <2>3
<1>9. OneInside'
  BY <1>1 DEF IInv, TypeOK, Members, Unlisted, Deleting, OneInside, Inside, Undisturbed, Revoking
<1>10. Kept'
  BY <1>1 DEF IInv, TypeOK, BornFirst, Unborn, Holding, Members, Unlisted, Deleting, Kept, OneInside, Inside, Undisturbed, Account, Sweeping, Revoking
<1> QED
  BY <1>1, <1>2, <1>3, <1>4, <1>5, <1>6, <1>7, <1>8, <1>9, <1>10 DEF IInv

LEMMA ReadIInv ==
  ASSUME IInv, NEW c \in Client, Undisturbed(c), Read(c)
  PROVE  IInv'
<1> USE SessionsAssumption DEF Request, Ended, GoTo, given, store, history
<1>b. \A d \in Client : Account(d)' = Account(d)
  BY DEF IInv, TypeOK, Read, TodoOwn, Account
<1>1. TypeOK'
  BY DEF IInv, TypeOK, Read, Revoking
<1>2. LiveIsListed'
  BY <1>1 DEF IInv, TypeOK, BornFirst, Unborn, Holding, Read, LiveIsListed, Escaped
<1>3. BornFirst'
  <2>1. \A d \in Client : Account(d)' = Account(d) /\ older'[d] = older[d]
    BY <1>b DEF Read
  <2> QED
    BY <1>1, <2>1 DEF IInv, TypeOK, Read, BornFirst, Unborn, Holding
<1>4. IndexOwn'
  BY <1>1 DEF IInv, TypeOK, Read, IndexOwn
<1>5. KindFits'
  BY <1>1 DEF IInv, TypeOK, Read, KindFits, Revoking
<1>6. TodoOwn'
  BY <1>1 DEF IInv, TypeOK, Read, TodoOwn, Account
<1>7. Gone'
  BY <1>1 DEF IInv, TypeOK, BornFirst, Unborn, Holding, Read, Gone, Out, Escaped
<1>8. Revocation'
  <2> SUFFICES ASSUME NEW d \in Client, kind'[d] \in Revoking, pc'[d] \in Sweeping'
               PROVE  Swept(d)' /\ FoundAll(d)'
    BY DEF Revocation
  <2>1. CASE d # c
    BY <1>1, <2>1 DEF IInv, TypeOK, Read, Revocation, Sweeping, Swept, FoundAll, Out, Escaped, Account
  <2>2. CASE d = c
    <3>1. Swept(c) /\ FoundAll(c)
      BY <2>2 DEF IInv, Read, Revocation, Sweeping
    <3>2. PICK s \in todo[c] : /\ sid' = [sid EXCEPT ![c] = s]
                               /\ todo' = [todo EXCEPT ![c] = @ \ {s}]
                               /\ pc' = [pc EXCEPT ![c] = IF entry[s] > 0 THEN "drop" ELSE "drop_gone"]
      BY DEF Read
    <3>3. sid'[c] = s /\ todo'[c] = todo[c] \ {s} /\ pc'[c] \in {"drop", "drop_gone"}
      BY <3>2 DEF IInv, TypeOK
    <3>4. Swept(c)'
      <4>1. \A x \in Login : pc'[x] = pc[x]
        BY DEF IInv, TypeOK, Read
      <4>2. pc[c] = "read" /\ covered[c] \subseteq Login
        BY DEF IInv, TypeOK, Read
      <4> QED
        BY <3>1, <3>3, <4>1, <4>2 DEF Swept, Out, Escaped, Read
    <3>5. Account(c)' = Account(c)
      BY <3>3, <2>2 DEF IInv, TodoOwn, Account, Read
    <3> QED
      BY <2>2, <3>1, <3>4, <3>5 DEF FoundAll, Out, Escaped, Read
  <2> QED
    BY <2>1, <2>2
<1>9. OneInside'
  BY <1>1 DEF IInv, TypeOK, Read, OneInside, Inside, Undisturbed, Revoking
<1>10. Kept'
  <2> SUFFICES ASSUME backend = "memory", NEW d \in Client
               PROVE  /\ pc'[d] = "write" => entry[sid'[d]] > 0
                      /\ kind[d] \in Revoking /\ pc'[d] \in Sweeping \ {"done"} =>
                            index[Account(d)] \subseteq covered[d]
    BY <1>b DEF Read, Kept, Sweeping
  <2>1. CASE d = c
    BY <2>1 DEF IInv, TypeOK, Read, Kept, Sweeping
  <2>2. CASE d # c
    BY <2>2 DEF IInv, TypeOK, Read, Kept, Sweeping
  <2> QED
    BY <2>1, <2>2
<1> QED
  BY <1>1, <1>2, <1>3, <1>4, <1>5, <1>6, <1>7, <1>8, <1>9, <1>10 DEF IInv

LEMMA DropIInv ==
  ASSUME IInv, NEW c \in Client, Undisturbed(c), Drop(c)
  PROVE  IInv'
<1> USE SessionsAssumption DEF Request, Ended, GoTo, given, store, history
<1>1. TypeOK'
  BY DEF IInv, TypeOK, Drop, Revoking, Deleting
<1>2. LiveIsListed'
  BY <1>1 DEF IInv, TypeOK, BornFirst, Unborn, Holding, Drop, Deleting, LiveIsListed, Escaped
<1>3. BornFirst'
  BY <1>1 DEF IInv, TypeOK, Drop, Deleting, BornFirst, Unborn, Holding, Account
<1>4. IndexOwn'
  BY <1>1 DEF IInv, TypeOK, Drop, Deleting, IndexOwn
<1>5. KindFits'
  BY <1>1 DEF IInv, TypeOK, Drop, Deleting, KindFits, Revoking
<1>6. TodoOwn'
  BY <1>1 DEF IInv, TypeOK, Drop, Deleting, TodoOwn, Account
<1>7. Gone'
  BY <1>1 DEF IInv, TypeOK, BornFirst, Unborn, Holding, Drop, Deleting, Gone, Out, Escaped
<1>8. Revocation'
  BY <1>1 DEF IInv, TypeOK, BornFirst, Unborn, Holding, Drop, Deleting, Revocation, Sweeping, Swept, FoundAll, Out, Escaped, Account, Revoking
<1>9. OneInside'
  BY <1>1 DEF IInv, TypeOK, Drop, Deleting, OneInside, Inside, Undisturbed, Revoking
<1>10. Kept'
  BY <1>1 DEF IInv, TypeOK, BornFirst, Unborn, Holding, Drop, Deleting, Kept, OneInside, Inside, Undisturbed, Account, Sweeping, Revoking
<1> QED
  BY <1>1, <1>2, <1>3, <1>4, <1>5, <1>6, <1>7, <1>8, <1>9, <1>10 DEF IInv

LEMMA UnlistIInv ==
  ASSUME IInv, NEW c \in Client, Undisturbed(c), Unlist(c)
  PROVE  IInv'
<1> USE SessionsAssumption DEF Request, Ended, GoTo, given, store, history
<1>a. TypeOK /\ user[sid[c]] \in User /\ 0 \in 0..Lasting
  BY DEF IInv, TypeOK, Lasting
<1>1. TypeOK'
  <2>1. index' \in [User -> SUBSET Login]
    BY <1>a DEF TypeOK, Unlist
  <2>2. expiry' \in [User -> 0..Lasting]
    BY <1>a DEF TypeOK, Unlist
  <2> QED
    BY <1>a, <2>1, <2>2 DEF TypeOK, Unlist, Deleting
<1>2. LiveIsListed'
  BY <1>1, <1>a DEF IInv, TypeOK, Unlist, Deleting, LiveIsListed, Gone, Out, Escaped
<1>3. BornFirst'
  BY <1>1 DEF IInv, TypeOK, Unlist, Deleting, BornFirst, Unborn, Holding, Account
<1>4. IndexOwn'
  BY <1>1 DEF IInv, TypeOK, Unlist, Deleting, IndexOwn
<1>5. KindFits'
  BY <1>1 DEF IInv, TypeOK, Unlist, Deleting, KindFits, Revoking
<1>6. TodoOwn'
  BY <1>1 DEF IInv, TypeOK, Unlist, Deleting, TodoOwn, Account
<1>7. Gone'
  BY <1>1 DEF IInv, TypeOK, BornFirst, Unborn, Holding, Unlist, Deleting, Gone, Out, Escaped
<1>8. Revocation'
  BY <1>1 DEF IInv, TypeOK, BornFirst, Unborn, Holding, Unlist, Deleting, Revocation, Sweeping, Swept, FoundAll, Out, Escaped, Account, Revoking
<1>9. OneInside'
  BY <1>1 DEF IInv, TypeOK, Unlist, Deleting, OneInside, Inside, Undisturbed, Revoking
<1>10. Kept'
  BY <1>1 DEF IInv, TypeOK, BornFirst, Unborn, Holding, Unlist, Deleting, Kept, OneInside, Inside, Undisturbed, Account, Sweeping, Revoking
<1> QED
  BY <1>1, <1>2, <1>3, <1>4, <1>5, <1>6, <1>7, <1>8, <1>9, <1>10 DEF IInv

LEMMA DropIndexIInv ==
  ASSUME IInv, NEW c \in Client, Undisturbed(c), DropIndex(c)
  PROVE  IInv'
<1> USE SessionsAssumption DEF Request, Ended, GoTo, given, store, history
<1>a. TypeOK /\ Account(c) \in User /\ 0 \in 0..Lasting
  BY AccountOfType DEF IInv, Lasting
<1>1. TypeOK'
  BY <1>a DEF TypeOK, DropIndex
<1>2. LiveIsListed'
  <2> SUFFICES ASSUME NEW s \in Login, entry[s] > 0
               PROVE  s \in index'[user[s]] \/ pc'[s] = "list" \/ Escaped(s)'
    BY DEF DropIndex, LiveIsListed
  <2>1. pc'[s] = pc[s] /\ (Escaped(s) => Escaped(s)')
    BY DEF IInv, TypeOK, DropIndex, Escaped
  <2>2. CASE s \in index[user[s]] /\ user[s] = Account(c)
    <3>1. CASE s \in covered[c]
      BY <1>a, <2>1, <3>1 DEF IInv, DropIndex, KindFits, Revocation, Sweeping, Swept, Out
    <3>2. CASE s \notin covered[c]
      BY <1>a, <2>2, <3>2 DEF IInv, DropIndex, KindFits, Kept, Sweeping, Escaped, TypeOK
    <3> QED
      BY <3>1, <3>2
  <2>3. CASE s \in index[user[s]] /\ user[s] # Account(c)
    BY <1>a, <2>3 DEF TypeOK, DropIndex
  <2> QED
    BY <2>1, <2>2, <2>3 DEF IInv, LiveIsListed
<1>3. BornFirst'
  BY <1>1 DEF IInv, TypeOK, DropIndex, BornFirst, Unborn, Holding, Account
<1>4. IndexOwn'
  BY <1>1 DEF IInv, TypeOK, DropIndex, IndexOwn
<1>5. KindFits'
  BY <1>1 DEF IInv, TypeOK, DropIndex, KindFits, Revoking
<1>6. TodoOwn'
  BY <1>1 DEF IInv, TypeOK, DropIndex, TodoOwn, Account
<1>7. Gone'
  BY <1>1 DEF IInv, TypeOK, BornFirst, Unborn, Holding, DropIndex, Gone, Out, Escaped
<1>8. Revocation'
  BY <1>1 DEF IInv, TypeOK, BornFirst, Unborn, Holding, DropIndex, Revocation, Sweeping, Swept, FoundAll, Out, Escaped, Account, Revoking
<1>9. OneInside'
  BY <1>1 DEF IInv, TypeOK, DropIndex, OneInside, Inside, Undisturbed, Revoking
<1>10. Kept'
  BY <1>1 DEF IInv, TypeOK, BornFirst, Unborn, Holding, DropIndex, Kept, OneInside, Inside, Undisturbed, Account, Sweeping, Revoking
<1> QED
  BY <1>1, <1>2, <1>3, <1>4, <1>5, <1>6, <1>7, <1>8, <1>9, <1>10 DEF IInv

LEMMA FailIInv ==
  ASSUME IInv, NEW r \in Request, Undisturbed(r), Fail(r)
  PROVE  IInv'
<1> USE SessionsAssumption DEF Request, Ended, GoTo, given, store, history
<1>1. TypeOK'
  BY DEF IInv, TypeOK, Fail, Revoking, InFlight
<1>2. LiveIsListed'
  <2>1. \A s \in Login : Escaped(s) => Escaped(s)'
    BY DEF IInv, TypeOK, Fail, InFlight, Escaped
  <2>2. \A s \in Login : pc[s] = "list" => pc'[s] = "list" \/ Escaped(s)'
    BY DEF IInv, TypeOK, Fail, InFlight, Inside, Escaped
  <2> QED
    BY <2>1, <2>2 DEF IInv, Fail, LiveIsListed
<1>3. BornFirst'
  BY <1>1 DEF IInv, TypeOK, Fail, InFlight, BornFirst, Unborn, Holding, Account
<1>4. IndexOwn'
  BY <1>1 DEF IInv, TypeOK, Fail, InFlight, IndexOwn
<1>5. KindFits'
  BY <1>1 DEF IInv, TypeOK, Fail, InFlight, KindFits, Revoking
<1>6. TodoOwn'
  BY <1>1 DEF IInv, TypeOK, Fail, InFlight, TodoOwn, Account
<1>7. Gone'
  BY <1>1 DEF IInv, TypeOK, BornFirst, Unborn, Holding, Fail, InFlight, Gone, Out, Escaped
<1>8. Revocation'
  BY <1>1 DEF IInv, TypeOK, BornFirst, Unborn, Holding, Fail, InFlight, Revocation, Sweeping, Swept, FoundAll, Out, Escaped, Account, Revoking
<1>9. OneInside'
  BY <1>1 DEF IInv, TypeOK, Fail, InFlight, OneInside, Inside, Undisturbed, Revoking
<1>10. Kept'
  BY <1>1 DEF IInv, TypeOK, BornFirst, Unborn, Holding, Fail, InFlight, Kept, OneInside, Inside, Undisturbed, Account, Sweeping, Revoking
<1> QED
  BY <1>1, <1>2, <1>3, <1>4, <1>5, <1>6, <1>7, <1>8, <1>9, <1>10 DEF IInv

\* Sessions may go, and drop out of the index in Redis, when nobody is at work
\* on them; only requests on their way may come to an end.
Empties ==
  /\ UNCHANGED <<given, sid, todo, older, covered, crossing, revived>>
  /\ \A r \in Request : ~InFlight(r) \/ (backend = "memory" /\ pc'[r] = "failed" /\ ~Inside(r))
  /\ \A r \in Request : pc'[r] = pc[r] \/ (InFlight(r) /\ pc'[r] = "failed")
  /\ entry' \in [Login -> 0..TTL]
  /\ \A s \in Login : entry'[s] > 0 => entry[s] > 0 /\ backend = "redis"
  /\ index' \in [User -> SUBSET Login]
  /\ \A u \in User : index'[u] \subseteq index[u]
  /\ \A u \in User : \A s \in index[u] : s \in index'[u] \/ s \in lost' \/ entry'[s] = 0
  /\ lost \subseteq lost'

LEMMA EmptiesIInv ==
  ASSUME IInv, Empties, TypeOK'
  PROVE  IInv'
<1> USE SessionsAssumption DEF Request, given
<1>1. TypeOK /\ UNCHANGED <<backend, user, kind, sid, todo, older, covered, crossing, revived>>
  BY DEF IInv, Empties
<1>2. /\ \A r \in Request : ~InFlight(r) \/ (backend = "memory" /\ pc'[r] = "failed" /\ ~Inside(r))
      /\ \A r \in Request : pc'[r] = pc[r] \/ (InFlight(r) /\ pc'[r] = "failed")
      /\ \A s \in Login : entry'[s] > 0 => entry[s] > 0 /\ backend = "redis"
      /\ \A u \in User : index'[u] \subseteq index[u]
      /\ \A u \in User : \A s \in index[u] : s \in index'[u] \/ s \in lost' \/ entry'[s] = 0
      /\ lost \subseteq lost'
  BY DEF Empties
<1>3. \A r \in Request : ~Inside(r) /\ ~Inside(r)' /\ ~InFlight(r)'
  BY <1>1, <1>2 DEF InFlight, Inside, Ended, TypeOK
<1>4. \A s \in Login : entry[s] > 0 /\ Escaped(s) /\ entry'[s] > 0 => Escaped(s)'
  BY <1>1, <1>2 DEF Escaped, InFlight, Ended
<1>5. \A s \in Login : Out(s) => Out(s)'
  BY <1>2, <1>4 DEF Out
<1>6. LiveIsListed'
  <2> SUFFICES ASSUME NEW s \in Login, entry'[s] > 0
               PROVE  s \in index'[user[s]] \/ pc'[s] = "list" \/ Escaped(s)'
    BY <1>1 DEF LiveIsListed
  <2>1. entry[s] > 0 /\ backend = "redis" /\ user[s] \in User
    BY <1>1, <1>2 DEF TypeOK
  <2>2. pc[s] # "list"
    BY <1>3 DEF Inside
  <2>3. s \in index[user[s]] \/ Escaped(s)
    BY <2>1, <2>2 DEF IInv, LiveIsListed
  <2> QED
    BY <1>1, <1>2, <1>4, <2>1, <2>3 DEF Escaped
<1>7. BornFirst'
  <2>1. BornFirst
    BY DEF IInv
  <2>2. Unborn' \subseteq Unborn
    BY <1>2 DEF Unborn
  <2>3. \A s \in Unborn' : entry'[s] = 0
    BY <1>1, <1>2, <2>1, <2>2 DEF BornFirst, Empties, Unborn
  <2>4. \A c \in Client : pc'[c] \in Holding => pc'[c] = pc[c]
    BY <1>2 DEF Holding
  <2>5. \A c \in Client : older[c] \subseteq Login
    BY <1>1 DEF TypeOK
  <2>6. \A c \in Client : \A s \in older[c] : pc'[s] \notin {"idle", "denied"} /\ user[s] = Account(c)
    BY <1>2, <2>1, <2>5 DEF BornFirst
  <2> QED
    BY <1>1, <1>2, <2>1, <2>2, <2>3, <2>4, <2>6 DEF BornFirst, Account, Holding
<1>8. IndexOwn' /\ TodoOwn'
  BY <1>1, <1>2 DEF IInv, IndexOwn, TodoOwn, Account
<1>9. KindFits' /\ Gone'
  BY <1>1, <1>2, <1>3, <1>5 DEF IInv, KindFits, Gone, InFlight, Ended, Inside
<1>10. Revocation'
  <2> SUFFICES ASSUME NEW c \in Client, kind[c] \in Revoking, pc'[c] \in Sweeping
               PROVE  Swept(c)' /\ FoundAll(c)'
    BY <1>1 DEF Revocation, Sweeping
  <2>1. pc[c] = pc'[c] /\ pc[c] \in Sweeping
    BY <1>2 DEF Sweeping
  <2>2. Swept(c) /\ FoundAll(c)
    BY <2>1 DEF IInv, Revocation
  <2>3. covered[c] \subseteq Login /\ older[c] \subseteq Login
    BY <1>1 DEF TypeOK
  <2>4. Swept(c)'
    BY <1>1, <1>5, <2>1, <2>2, <2>3 DEF Swept
  <2>5. FoundAll(c)'
    BY <1>1, <1>2, <1>5, <2>2, <2>3 DEF FoundAll
  <2> QED
    BY <2>4, <2>5
<1>11. OneInside' /\ Kept'
  BY <1>1, <1>3 DEF IInv, TypeOK, OneInside, Kept, Inside, InFlight, Sweeping, Ended
<1> QED
  BY <1>6, <1>7, <1>8, <1>9, <1>10, <1>11 DEF IInv

LEMMA TickIInv ==
  ASSUME IInv, Tick
  PROVE  IInv'
<1> USE DEF given
<1>1. TypeOK
  BY DEF IInv
<1>2. /\ \A s \in Login : entry'[s] > 0 => entry[s] > 0
      /\ entry' \in [Login -> 0..TTL]
  BY <1>1, SessionsAssumption DEF TypeOK, Tick, Left
<1>3. /\ \A u \in User : index'[u] \subseteq index[u]
      /\ index' \in [User -> SUBSET Login]
  BY <1>1 DEF TypeOK, Tick
<1>4. expiry' \in [User -> 0..Lasting]
  BY <1>1, SessionsAssumption DEF TypeOK, Tick, Left, Lasting
<1>5. /\ lost \subseteq lost' /\ lost' \subseteq Login
      /\ \A u \in User : \A s \in index[u] : s \in index'[u] \/ s \in lost'
  BY <1>1, <1>3 DEF TypeOK, Tick
<1>6. TypeOK'
  BY <1>1, <1>2, <1>3, <1>4, <1>5 DEF TypeOK, Tick
<1>7. Empties
  BY <1>2, <1>3, <1>5 DEF Empties, Tick
<1> QED
  BY <1>6, <1>7, EmptiesIInv

LEMMA RestartIInv ==
  ASSUME IInv, Restart
  PROVE  IInv'
<1> USE DEF given, history, Request
<1>1. TypeOK
  BY DEF IInv
<1>2. 0 \in 0..TTL /\ 0 \in 0..Lasting
  BY SessionsAssumption DEF Lasting
<1>3. pc' \in [Request -> Ended \cup {"idle", "create", "list", "expire", "check", "write",
                                    "members", "read", "drop", "drop_gone", "unlist", "drop_index"}]
  BY <1>1 DEF TypeOK, Restart, Ended
<1>4. TypeOK'
  BY <1>1, <1>2, <1>3 DEF TypeOK, Restart
<1>5. Empties
  BY <1>1, <1>2 DEF TypeOK, Empties, Restart
<1> QED
  BY <1>4, <1>5, EmptiesIInv

LEMMA StutterIInv ==
  ASSUME IInv, UNCHANGED vars
  PROVE  IInv'
BY DEF IInv, vars, given, store, history, TypeOK, LiveIsListed, BornFirst, Unborn, Holding, IndexOwn, KindFits,
       TodoOwn, Gone, Revocation, Sweeping, Swept, FoundAll, Out, Escaped, Account, OneInside, Kept, Inside

LEMMA StepIInv == IInv /\ [Next]_vars => IInv'
<1> SUFFICES ASSUME IInv, [Next]_vars PROVE IInv'
  OBVIOUS
<1>1. ASSUME NEW r \in Request, Undisturbed(r), Step(r) PROVE IInv'
  <2>1. CASE r \in Login /\ (Verify(r) \/ Create(r) \/ List(r) \/ Expire(r))
    BY <1>1, <2>1, VerifyIInv, CreateIInv, ListIInv, ExpireIInv
  <2>2. CASE r \in Client /\ (Present(r) \/ Reset(r) \/ TouchRead(r) \/ TouchWrite(r) \/ Members(r))
    BY <1>1, <2>2, PresentIInv, ResetIInv, TouchReadIInv, TouchWriteIInv, MembersIInv
  <2>3. CASE r \in Client /\ (Read(r) \/ Drop(r) \/ Unlist(r) \/ DropIndex(r))
    BY <1>1, <2>3, ReadIInv, DropIInv, UnlistIInv, DropIndexIInv
  <2> QED
    BY <1>1, <2>1, <2>2, <2>3 DEF Step
<1>2. ASSUME NEW r \in Request, Undisturbed(r), Fail(r) PROVE IInv'
  BY <1>2, FailIInv
<1>3. CASE Restart
  BY <1>3, RestartIInv
<1>4. CASE Tick
  BY <1>4, TickIInv
<1>5. CASE Finished \/ UNCHANGED vars
  BY <1>5, StutterIInv DEF Finished
<1> QED
  BY <1>1, <1>2, <1>3, <1>4, <1>5 DEF Next

THEOREM Invariance == Spec => []IInv
<1> QED
  BY InitIInv, StepIInv, PTL DEF Spec
-----------------------------------------------------------------------------
\* Every variable of the session path keeps its type: in particular no session
\* in Redis is ever without an expiry (security/sessions.py:132, 147).
THEOREM TypeCorrect == Spec => []TypeOK
<1>1. IInv => TypeOK
  BY DEF IInv
<1> QED
  BY <1>1, Invariance, PTL

\* A session that works is in its user's index, except through the four windows
\* LiveIsListed names, whatever logins, touches, logouts and revocations
\* interleave and wherever they break off.
THEOREM WorkingIsListed == Spec => []LiveIsListed
<1>1. IInv => LiveIsListed
  BY DEF IInv
<1> QED
  BY <1>1, Invariance, PTL

\* What survives a finished logout-all or password reset
\* (delete_all_for_user, security/sessions.py:155-162) of the logins verified
\* before it began was not listed yet, or was written back by a touch, had
\* dropped out of the index or never got into it.
THEOREM RevocationReachesListed == Spec => []RevokesListed
<1>1. IInv => RevokesListed
  <2> SUFFICES ASSUME IInv, NEW c \in Client, kind[c] \in Revoking, pc[c] = "done"
               PROVE  \A s \in older[c] : entry[s] > 0 => s \in crossing[c] \/ Escaped(s)
    BY DEF RevokesListed
  <2>1. Swept(c) /\ FoundAll(c) /\ todo[c] = {}
    BY DEF IInv, Revocation, Sweeping, KindFits
  <2> QED
    BY <2>1 DEF Swept, FoundAll, Out
<1> QED
  BY <1>1, Invariance, PTL
=============================================================================
