----------------------------- MODULE Conversation -----------------------------
(***************************************************************************)
(* Chat exchanges (services/chat_service.py) over conversation memory      *)
(* (memory/), in a list per replica or in PostgreSQL.                      *)
(*                                                                         *)
(* An exchange reads the history of its session, retrieves, asks the model *)
(* and then saves question and answer.  In memory nothing suspends between *)
(* the answer and the two appends.  In PostgreSQL each append is a query   *)
(* and a commit, and the messages are read in the order of created_at,     *)
(* which is set when the rows are sent (db/models.py:63-65); the clocks of *)
(* the replicas are taken to agree.  The pool of connections only delays   *)
(* and is left out.                                                        *)
(***************************************************************************)
EXTENDS Naturals, FiniteSets, SequencesExt

CONSTANTS Exchange,       \* requests to /chat and /chat/stream
          Session,        \* their session ids
          Replica,
          MaxMessages,    \* MEMORY_MAX_MESSAGES, at most the query's 100
          MaxChars,       \* MEMORY_MAX_CHARS
          Database        \* the place of what replicas share

ASSUME ConversationAssumption ==
  /\ {MaxMessages, MaxChars} \subseteq Nat \ {0}
  /\ Database \notin Replica

Place == Replica \cup {Database}
Role == {"user", "assistant"}
Message == Exchange \X Role

VARIABLES
  backend,     \* USE_POSTGRES
  home,        \* the replica an exchange reaches
  session,
  remembers,   \* exchanges with use_memory
  long,        \* those whose answer alone exceeds MaxChars
  pc,
  role,        \* whose message an exchange is saving
  unknown,     \* those that found no row of their session
  seen,        \* the history in an exchange's prompt
  log,         \* the messages of a session, by place, in the order they are read in
  rows,        \* chat_sessions
  \* History.
  met,         \* exchanges whose saving overlapped
  forgotten    \* exchanges whose messages a restart took

given == <<backend, home, session, remembers, long>>
history == <<met, forgotten>>
vars == <<given, pc, role, unknown, seen, log, rows, history>>

Init == /\ backend \in {"memory", "postgres"}
        /\ home \in [Exchange -> Replica]
        /\ session \in [Exchange -> Session]
        /\ remembers \in SUBSET Exchange
        /\ long \in SUBSET remembers
        /\ pc = [e \in Exchange |-> "idle"]
        /\ role = [e \in Exchange |-> "user"]
        /\ unknown = {}
        /\ seen = [e \in Exchange |-> <<>>]
        /\ log = [p \in Place |-> [s \in Session |-> <<>>]]
        /\ rows = {}
        /\ met = [e \in Exchange |-> {}]
        /\ forgotten = {}

Ended == {"done", "failed"}
InFlight(e) == pc[e] \notin Ended \cup {"idle"}
GoTo(e, from, to) == pc[e] = from /\ pc' = [pc EXCEPT ![e] = to]

InMemory == backend = "memory"
At(e) == IF InMemory THEN home[e] ELSE Database

Saving(e) == pc[e] \in {"look", "send", "commit"}

Sent(m) == pc[m[1]] = "commit" /\ role[m[1]] = m[2]       \* not committed yet

Visible(p, s) ==
  LET ms == log[p][s]
      upTo[n \in 0..Len(ms)] == CASE n = 0 -> <<>>
                                   [] n > 0 /\ Sent(ms[n]) -> upTo[n - 1]
                                   [] OTHER -> Append(upTo[n - 1], ms[n])
  IN  upTo[Len(ms)]
-----------------------------------------------------------------------------
(* ConversationMemoryStore._apply_limits and _trim_by_chars. *)

Length(m) == IF m[1] \in long /\ m[2] = "assistant" THEN MaxChars + 1 ELSE 1
Newest(ms, n) == SubSeq(ms, Len(ms) - n + 1, Len(ms))

\* Of the newest n, for each n.
Chars(ms) == LET sum[n \in 0..Len(ms)] == IF n = 0 THEN 0 ELSE sum[n - 1] + Length(ms[Len(ms) - n + 1])
             IN  sum

MutTrim(ms) == Newest(ms, CHOOSE n \in 0..Len(ms) :      \* mutant: the newest may be dropped too
                            /\ Chars(ms)[n] <= MaxChars
                            /\ \A k \in n + 1..Len(ms) : Chars(ms)[k] > MaxChars)

\* From the newest message on, until one does not fit.
Trim(ms) ==
  LET kept[n \in 0..Len(ms)] ==
        IF n = Len(ms) \/ (n > 0 /\ Chars(ms)[n + 1] > MaxChars) THEN n ELSE kept[n + 1]
  IN  Newest(ms, kept[0])

History(e) ==
  LET ms == Visible(At(e), session[e])
  IN  Trim(Newest(ms, IF Len(ms) < MaxMessages THEN Len(ms) ELSE MaxMessages))
-----------------------------------------------------------------------------
(* ChatService.chat and stream_events. *)

\* The guardrails may refuse the question.
Refuse(e) == /\ GoTo(e, "idle", "failed")
             /\ UNCHANGED <<given, role, unknown, seen, log, rows, history>>

Stored(e, ms) == log' = [log EXCEPT ![At(e)][session[e]] = @ \o ms]

MutReadHistory(e) == /\ GoTo(e, "idle", "retrieve")      \* mutant: the question is stored as it comes
                     /\ seen' = [seen EXCEPT ![e] = IF e \in remembers THEN History(e) ELSE <<>>]
                     /\ IF e \in remembers THEN Stored(e, <<<<e, "user">>>>) ELSE UNCHANGED log
                     /\ UNCHANGED <<given, role, unknown, rows, history>>

ReadHistory(e) == /\ GoTo(e, "idle", "retrieve")
                  /\ seen' = [seen EXCEPT ![e] = IF e \in remembers THEN History(e) ELSE <<>>]
                  /\ UNCHANGED <<given, role, unknown, log, rows, history>>

\* The embedding and the search, when the request or its words ask for them.
Retrieve(e) == /\ GoTo(e, "retrieve", "generate")
               /\ UNCHANGED <<given, role, unknown, seen, log, rows, history>>

\* The answer is there, or the stream has come to its end.
AnswerUnsaved(e) == /\ e \notin remembers
                    /\ GoTo(e, "generate", "done")
                    /\ UNCHANGED <<given, role, unknown, seen, log, rows, history>>

AnswerInMemory(e) == /\ e \in remembers /\ InMemory
                     /\ GoTo(e, "generate", "done")
                     /\ Stored(e, <<<<e, "user">>, <<e, "assistant">>>>)
                     /\ UNCHANGED <<given, role, unknown, seen, rows, history>>

Answer(e) == LET others == {f \in Exchange : Saving(f)}
             IN  /\ e \in remembers /\ ~InMemory
                 /\ GoTo(e, "generate", "look")
                 /\ met' = [f \in Exchange |-> CASE f = e -> others
                                                 [] f \in others -> met[f] \cup {e}
                                                 [] OTHER -> met[f]]
                 /\ UNCHANGED <<given, role, unknown, seen, log, rows, forgotten>>
-----------------------------------------------------------------------------
(* PostgresConversationMemory.append. *)

MutLook(e) == /\ GoTo(e, "look", "send")      \* mutant: takes every session for a new one
              /\ unknown' = unknown \cup {e}
              /\ UNCHANGED <<given, role, seen, log, rows, history>>

Look(e) == /\ GoTo(e, "look", "send")
           /\ unknown' = IF session[e] \in rows THEN unknown \ {e} ELSE unknown \cup {e}
           /\ UNCHANGED <<given, role, seen, log, rows, history>>

\* Two that insert the row of one session: the second waits for the first.
Blocked(e) == \E f \in unknown : pc[f] = "commit" /\ session[f] = session[e]

MutSend(e) == LET clash == e \in unknown /\ session[e] \in rows      \* mutant: the answer first
                  other == IF role[e] = "user" THEN "assistant" ELSE "user"
              IN  /\ ~(e \in unknown /\ Blocked(e))
                  /\ GoTo(e, "send", IF clash THEN "failed" ELSE "commit")
                  /\ IF clash THEN UNCHANGED log ELSE Stored(e, <<<<e, other>>>>)
                  /\ UNCHANGED <<given, role, unknown, seen, rows, history>>

\* The rows are sent; a session's row that is there by now raises.
Send(e) == LET clash == e \in unknown /\ session[e] \in rows
           IN  /\ ~(e \in unknown /\ Blocked(e))
               /\ GoTo(e, "send", IF clash THEN "failed" ELSE "commit")
               /\ IF clash THEN UNCHANGED log ELSE Stored(e, <<<<e, role[e]>>>>)
               /\ UNCHANGED <<given, role, unknown, seen, rows, history>>

MutCommit(e) == /\ GoTo(e, "commit", "done")      \* mutant: the answer is not saved
                /\ rows' = rows \cup {session[e]}
                /\ UNCHANGED <<given, role, unknown, seen, log, history>>

Commit(e) == /\ GoTo(e, "commit", IF role[e] = "user" THEN "look" ELSE "done")
             /\ rows' = rows \cup {session[e]}
             /\ role' = [role EXCEPT ![e] = "assistant"]
             /\ UNCHANGED <<given, unknown, seen, log, history>>
-----------------------------------------------------------------------------
RollBack(e) == LET ms == log[Database][session[e]]
               IN  \E i \in DOMAIN ms :
                      /\ ms[i] = <<e, role[e]>>
                      /\ log' = [log EXCEPT ![Database][session[e]] = RemoveAt(ms, i)]

\* A call raised, the client went away or the process ended.  What was sent
\* and not committed is rolled back, unless only the reply was lost.
Fail(e) == /\ InFlight(e)
           /\ pc' = [pc EXCEPT ![e] = "failed"]
           /\ \/ UNCHANGED <<log, rows>> /\ pc[e] # "commit"
              \/ UNCHANGED log /\ pc[e] = "commit" /\ rows' = rows \cup {session[e]}
              \/ UNCHANGED rows /\ pc[e] = "commit" /\ RollBack(e)
           /\ UNCHANGED <<given, role, unknown, seen, history>>

\* A replica starts over: its memory is empty, its exchanges are lost.
Restart(r) ==
  LET mine == {e \in Exchange : home[e] = r}
  IN  /\ InMemory
      /\ log[r] # [s \in Session |-> <<>>]
      /\ log' = [log EXCEPT ![r] = [s \in Session |-> <<>>]]
      /\ forgotten' = forgotten \cup {e \in mine : pc[e] = "done"}
      /\ pc' = [e \in Exchange |-> IF e \in mine /\ InFlight(e) THEN "failed" ELSE pc[e]]
      /\ UNCHANGED <<given, role, unknown, seen, rows, met>>

\* Nobody is on the way.
Finished == (\A e \in Exchange : pc[e] \in Ended) /\ UNCHANGED vars

Serve(e) == \/ ReadHistory(e) \/ Retrieve(e)
            \/ AnswerUnsaved(e) \/ AnswerInMemory(e) \/ Answer(e)
            \/ Look(e) \/ Send(e) \/ Commit(e)

Next == \/ \E e \in Exchange : Refuse(e) \/ Serve(e) \/ Fail(e)
        \/ \E r \in Replica : Restart(r)
        \/ Finished

Spec == Init /\ [][Next]_vars
-----------------------------------------------------------------------------
TypeOK ==
  /\ backend \in {"memory", "postgres"}
  /\ home \in [Exchange -> Replica]
  /\ session \in [Exchange -> Session]
  /\ remembers \subseteq Exchange
  /\ long \subseteq Exchange
  /\ pc \in [Exchange -> Ended \cup {"idle", "retrieve", "generate", "look", "send", "commit"}]
  /\ role \in [Exchange -> Role]
  /\ unknown \subseteq Exchange
  /\ seen \in [Exchange -> Seq(Message)]
  /\ log \in [Place -> [Session -> Seq(Message)]]
  /\ rows \subseteq Session
  /\ met \in [Exchange -> SUBSET Exchange]
  /\ forgotten \subseteq Exchange

LogOf(e) == log[At(e)][session[e]]

\* Between a question and its answer stand only messages of exchanges that were
\* being saved at the same time, however long the models took and in whatever
\* order they answered.
PairsTogether ==
  \A e \in Exchange : \A i, j \in DOMAIN LogOf(e) :
     LogOf(e)[i] = <<e, "user">> /\ LogOf(e)[j] = <<e, "assistant">> =>
        i < j /\ \A k \in i + 1..j - 1 : LogOf(e)[k][1] \in met[e]

Has(e, r) == \E i \in DOMAIN LogOf(e) : LogOf(e)[i] = <<e, r>>

\* What a session remembers are questions with their answers.  A question is
\* alone only while its exchange is still saving or broke off between the two
\* commits; an answer never is, and an exchange that broke off before it was
\* answered left nothing.
QuestionHasAnswer ==
  \A e \in Exchange :
     /\ Has(e, "assistant") => Has(e, "user")
     /\ Has(e, "user") /\ ~Has(e, "assistant") =>
           pc[e] \in {"look", "send", "commit", "failed"} /\ ~InMemory

\* Who was told that all is done finds question and answer in the history of
\* the session, unless the replica that kept it has restarted since.
AnsweredIsRemembered ==
  \A e \in Exchange : pc[e] = "done" =>
     IF e \in remembers \ forgotten THEN Has(e, "user") /\ Has(e, "assistant")
                                    ELSE ~Has(e, "user") /\ ~Has(e, "assistant")

\* Two first exchanges of one session cross, and one of them fails after the
\* model has answered it: both would insert the session's row.  No other does.
ClashNeedsCrossing ==
  \A e \in unknown : pc[e] = "send" /\ session[e] \in rows =>
     \E f \in met[e] : session[f] = session[e]

\* The history in a prompt is the longest tail of what is on record that keeps
\* both limits, or else the newest message alone.
Fits(ms, n) == n <= MaxMessages /\ (n <= 1 \/ Chars(ms)[n] <= MaxChars)

HistoryIsTail ==
  [][\A e \in remembers : pc[e] = "idle" /\ pc'[e] = "retrieve" =>
       LET ms == Visible(At(e), session[e])
           n == Len(seen'[e])
       IN  /\ n <= Len(ms) /\ seen'[e] = Newest(ms, n)
           /\ Fits(ms, n)
           /\ \A k \in n + 1..Len(ms) : ~Fits(ms, k)]_vars
=============================================================================
