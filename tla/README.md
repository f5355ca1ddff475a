# TLA+ models of the Enterprise LLM Assistant

This directory holds TLA+ models of the application under `src/app`, TLC
configurations that model-check them on small instances, and theorems about them
checked by TLAPS for every value of the constants. Paths below are relative to
`src/app` unless they start with `src/`.

    tlc -config ops_alerts.cfg MCOpsDiagnosis.tla    # a run
    tlapm OpsDiagnosisProofs.tla                     # the proofs of a module

## 1. Inventory

The application is one FastAPI process per replica (asyncio, one thread), two
replicas behind one service (`src/k8s/deployment.yaml`). Shared by all replicas are
Redis, PostgreSQL, Qdrant, the LLM provider, Slack and the Kubernetes API; each is
reached by awaited calls. Objects cached by `lru_cache` in `dependencies.py` are shared by
the requests of one replica and lost when it restarts. Within a replica, code between two
`await`s that really suspend is atomic; everything else interleaves.

| Component | State it keeps | Operations | What is hard | What makes it correct |
|---|---|---|---|---|
| Alert diagnosis (`services/ops_diagnosis_service.py`, `api/ops.py`, `repositories/finding_repository.py`, `services/ops_notifier.py`) | `FindingStore`: two dictionaries, by id and by fingerprint, per replica | ingest a batch of alerts, ingest one alert, diagnose, upsert, notify, mark | test and mark of `notified` on two sides of the Slack post; scan before the hypothesis call; per-replica store | one finding per fingerprint; announced once; nothing left unannounced |
| Agent and approvals (`agents/`, `tools/k8s_playbook_tool.py`, `ApprovalStore`) | pending cards and approved ids, per replica | run, plan/execute loop, leave a card, approve, run listed cards | planner output is arbitrary; approval and card meet in a per-replica store; repeated execution | nothing reaches the cluster but an agreed card, unaltered |
| Document ingestion and deletion (`services/ingestion_service.py`, `services/document_service.py`, `clients/qdrant_client.py`, both repositories) | Qdrant points, repository rows, no common transaction | ingest, delete document, delete a session's documents | half-done deletes and ingestions, interleaved; filters of two stores that differ | a row and its chunks go together; unrelated documents stay |
| Text splitter (`services/ingestion_service.py`) | loop variables | split | overlap as large as the chunk; last chunk | no character lost; as many turns as the slide needs |
| LLM service (`services/llm_service.py`, `policies/retry.py`, `cache/`) | breaker count and stamp, cached answers | generate, stream | late failures of admitted calls; nested retries and timeouts; whose breaker it is | a breaker resets; calls end, in bounded time, with the answer if there is one; what a breaker of one request can stop |
| Session store (`security/sessions.py`) | sessions and an index per user in Redis or memory | create, get, touch, delete, delete all, OAuth state | touch racing delete; index and entries updated by separate calls | a revoked session stays revoked |
| Accounts, one-time tokens (`services/auth_service.py`, `repositories/user_repository.py`) | users, identities, tokens in PostgreSQL or memory | register, verify, reset, OAuth link, login | check-then-set over commits | a token is consumed once; one account per address |
| Lockout and rate limits (`security/auth_limits.py`, `middleware/rate_limit.py`) | sliding windows per replica; in Redis, counters with an expiry | let a request through, count a failed login, lock, clear | INCR and EXPIRE are two commands, so a break between them leaves a counter for ever; failures counted while another login clears them; windows that begin at the first request | the limits hold in any window; counters end; a lock is earned |
| Chat and conversation memory (`services/chat_service.py`, `memory/`) | messages per session, in PostgreSQL or in the replica | chat, stream, append, trim | exchanges of one session whose models answer in any order; two appends with a commit each; the first exchanges both insert the session | question and answer pairs stay together; an answer is remembered; trimming keeps what it promises |
| Retrieval (`retrieval/`) | none | hybrid search, rerank | two limits (TOP_K, TOP_N) and a score order | sources listed are the chunks in the prompt |
| Kubernetes client and tools (`clients/kubernetes_client.py`, `tools/kubernetes_tool.py`, `tools/k8s_playbook_tool.py`, `_collect_evidence`) | what the client became at its first use | parse, read, propose, patch, collect evidence | one language, two parsers, words that are optional; silent fallback to a mock; evidence that breaks off; a patch whose answer is lost | a documented form means what it says; answers are true or marked; only a playbook changes the cluster, in range |
| Providers, extraction, prompts, RBAC/CSRF plumbing, metrics, browser client | none that other parts depend on | | | wrappers, formatting or wiring |

How they interact: `api/ops.py` calls the diagnosis service, which calls the LLM
service (hypothesis), the finding store and the notifier. `api/agents.py` calls the
agent service, whose planner calls the LLM service and whose tools call Kubernetes,
retrieval and HTTP; cards go to the approval store and come back through
`/agents/approve` or `approved_action_ids`. `api/documents.py` and `api/chat.py` call
ingestion and deletion. Authentication middleware reads sessions for every request.

## 2. Plan

1. **Done:** OpsDiagnosis with its abstract specification FindingLog, AgentApproval,
   Documents, TextSplitter, LLMService, Sessions, Accounts, LoginLimits, Conversation and
   Kubernetes, each with a run; every invariant and action property that holds is proved.
2. **Left:** a module that composes Accounts and Sessions (a reset and the logins it must
   end); scrolls of several pages; the two limits of the retriever.
3. **Left to prove:** that composition, once it is there. `FlagTellsNew` with the
   hypothesis call does not hold and stays an observation; the liveness properties are out of
   TLAPS's reach (section 5).

## 3. Modules

### OpsDiagnosis, FindingLog (MCOpsDiagnosis, OpsDiagnosisProofs)

A `Task` is one request to `/alerts` (`kind = "webhook"`) or `/alerts/simple`, at a
replica (`home`) with a batch of alerts, all chosen in `Init`. `byId`, `byFp` are
`FindingStore._by_id` and `_by_fingerprint`; `finding` holds the `OpsFinding` objects,
named by the request and position that built them in place of a uuid; `posts` counts
`OpsNotifier.notify` calls. An alert is its fingerprint: severity, evidence and the time
are refreshed by `upsert` but decide nothing. The two settings that add a suspension,
`slack` and `useLlm`, are chosen in `Init` too, so a run covers all four combinations.

`Receive`, `Return` begin and end a request. With the hypothesis call
(`useLlm`), `AskLlm` is everything up to the call (the scan for an existing finding
included) and `LlmAnswer` everything after it; without, `Diagnose` is both. `Record` is
`upsert`, the test of `stored.notified` and, without Slack, the immediate
`mark_notified`; with Slack the request is suspended and `SlackReturn` marks and
answers. `Restart` empties a replica's store and loses its requests.

FindingLog is what one replica promises: a fingerprint goes on record once, and is
announced once if that takes no time; while an announcement is on its way it may be
repeated, and afterwards it is not as long as the record is kept. `ImplementsLog` is the
refinement (`recorded` is "the fingerprint index has an entry", `marked` is `notified` of the
finding it leads to, `announced` is `posts`).

### AgentApproval (MCAgentApproval, AgentApprovalProofs)

A `Run` is one call of `/agents/run`. `pc`, `left`, `listed` are where its loop is, the
iterations it may still make and its `approved_action_ids`; `card` is the
`PendingApproval` it left. `pending`, `approved` are `ApprovalStore._pending` and
`_approved` of each replica. A `Payload` is what `K8sPlaybookTool._parse` extracts: the
planner may come up with any of a set. Because nothing suspends between the planner's
answer and the Kubernetes call, one answer is handled by one action: `RunListed` (a
listed id with an item is taken, `_prepare_playbook_input`), `LeaveCard`, `UseOtherTool`,
`FinishStep`, `Fail`. `Approve` is `/agents/approve`; `Execute` is the tool's
validation and the cluster call, which may fail with or without having been applied.
`listed` is a sequence because the code iterates over a Python `set`: any order may occur.

### Documents (MCDocuments, IngestionProofs)

`points` and `rows` are the documents with chunks in Qdrant and with a row in the
repository; `collections` those that exist. `Doc` names ingestion requests with their
metadata (`attr`), `Eraser` delete requests. Every call to a store is an action,
`FailIngest` and `FailErase` let it raise with or without effect. `backend` is the
repository wired in: the in-memory dictionary does not suspend and deletes;
`PostgresDocumentRepository.delete_document` and `delete_documents_by_session` call
`self._session.delete(record)` without `await`, so `Without` leaves the rows in place. `OrphanChunks`
and `OrphanRows` list every way in which one store keeps what the other does not have.

### TextSplitter (IngestionProofs)

One action is one turn of `RecursiveTextSplitter.split`; a text is its length and a chunk
an interval of it. `Or` is Python's `x or default`, which also replaces 0. `TurnsBounded` says
that the loop takes the turns the slide needs and never more than there are characters, which
is termination with a number; `start + 1` is what it rests on when the overlap is as large as
the chunk.

### LLMService (MCLLMService, ChatProofs)

A `Call` is a client that sends request after request. `Start` begins a call of `generate`:
with `first` it is the first call of a request, for which `dependencies.get_llm_service` has built
an `LLMService` and with it a `CircuitBreaker`; without, a later call of the same request (a batch
of alerts asks for one hypothesis each), which meets the same breaker. `failures`, `age` are the
breaker's count and the ticks since its stamp; `attempt`, `timer` those of the retry and
timeout policies. Redis is external: a lookup hits, misses or raises, and a raise is handled as
a miss. `Tick` is the passage of time, which waits for timers that are due. `streak` and
`quiet` are history: failures in a row and the time since the last one, in the whole process.

### Sessions (MCSessions, SessionsProofs)

`entry` and `expiry` are the time left of `session:<id>` and `session_user:<id>`, `index`
the members of the latter. A `Login` (password or OAuth) makes the session of its name:
`Create`, `List`, `Expire` are the three commands of `RedisSessionStore.create`. A `Client`
is a request with a cookie or a reset token: `Present` is the lookup of
`resolve_session`, `TouchRead` and `TouchWrite` are `touch`; `Read`, `Drop`, `Unlist` are `delete`,
`Members` and `DropIndex` the rest of `delete_all_for_user`. Every command is an action
because each is awaited and replicas share Redis; `Fail` lets a request break off at any.
`Tick` lets time pass when no request is on its way, since a lifetime is days long.
`backend` chooses the store. `InMemorySessionStore` takes the same steps, but none of its
methods suspends: a request that is `Inside` one goes on `Undisturbed`, and does not break
off there. Nothing expires in memory, and `Restart` loses all. `older`, `covered`,
`crossing`, `revived` and `lost` are history; `older` begins at the check of the password,
so that a login which had the old one right is among those a reset should end.

### Accounts (MCAccounts, AccountsProofs)

Everything that is issued for one use goes the same way: an `Issuer` is a registration, a
reset request or an OAuth start and names the `token` it issues; a `Bearer` presents one. `Present`
and `Use` are the query and the commit of `consume_email_verification_token` and
`consume_password_reset_token`, and the read and the deletion of `pop_oauth_state`. Then
the bearer does what the token is for (`Task`): `SetVerified`, `SetPassword`, or the
steps of `login_with_oauth`, `FindLink` to `Open`. `owner`, `verified`, `password` and `link` are the
columns of the PostgreSQL tables the requests work on; an account is named by the request
that created it (`Insert`), and the two unique constraints of `db/models.py` decide in
`Insert` and `Link`. The provider is external: it may return any identity, address and
"verified". `memory` says which of the two stores, users and sessions, are kept in memory: the
repository and the store of `dependencies.py` are chosen apart. There a request between two
calls is `Inside` and nobody else moves (`Undisturbed`), linking overwrites without looking (`Overwrites`),
and a state does not expire. `together` and `used` are history.

### LoginLimits (MCLoginLimits, LoginLimitsProofs)

An `Attempt` is one `POST /login`: the middleware, the auth limiter of its client host and
address, the lockout of its address, the password. `bucket` are the windows of
`RateLimitMiddleware` (of length `RequestWindow`) and of the limiter in memory (of length
`Window`), as the attempts let through; `passed` and `admitted` are the ages of these. With Redis, `hits` and `hitsLeft` are `auth_rl:<key>` and
its expiry, and every command is an action: `Incr` and `Expire`; `FailIncr`, `FailExpire`
and `SetLock` of `record_failure`; `ClearFails` and `Unlock` of `clear_failures`. In memory
each method is one action (`CheckMemory`, `FailMemory`, `ClearMemory`). `fails`, `failsLeft`
and `lock` are the lockout by place: a replica, or Redis. `Verify` leaves
open whether the password is right. `Fail` breaks a request off between any two commands,
`Restart` empties a replica's memory, `Tick` lets time pass at any moment. `forgotten`, `since`, `late`
and `brokeAt` are history. What was let through stays on record over a restart; `forgotten` are the
attempts of before it, and `WindowHolds` says that they, and only they, do not count in
a window kept in memory. In Redis they do. `since` is emptied by a clearing and not when
the count in Redis expires: a lock may outlive the count it came from, so the lock is held
against all failures since the slate was last wiped.

### Conversation (MCConversation, ChatProofs)

An `Exchange` is one `/chat` or `/chat/stream`: `ReadHistory`, `Retrieve`, and, when the
model has answered (or the stream has ended), the two appends. In memory both are one step
(`AnswerInMemory`); in PostgreSQL each append is `Look` (is the session's row there),
`Send` (the inserts reach the database, which refuses a second row of a session and lets
the second of two that are open wait) and `Commit`. `log` is what is on record by place,
in the order of its ids, `rows` the sessions with a row, `seen` the history an exchange put
into its prompt. `Trim` and `History` are `_trim_by_chars` and `_apply_limits`; a message is its
exchange and role, and its length is 1 or past `MaxChars`. `met` and `forgotten` are history:
who was saving at the same time, and what a restart took. Clocks of replicas
agree, and the connection pool is taken to suffice (see the hazard in `PROJECT.json`).

### Kubernetes (MCKubernetes, KubernetesProofs)

A text query is its sequence of words; `parse_k8s_query` and `_parse` work word by word as
the code does and also stand for the JSON form, which names every field. `execute` is
`KubernetesTool.execute`, with one operator per client method. The playbook tool is
`ProposeText`, `ProposeJson`, `Refuse`, `Pretend` (the mock), `Apply` and `ApplyFails`; `Diagnose`,
`Collect` and `Store` are `_collect_evidence`, which ends at the first read that raises.
`InitClients` is the first use, which makes the client a real one or, when the
configuration cannot be loaded or names an unknown mode, a mock. `cluster` (pods, sizes, rollouts) is external
and `Others` is everybody else who works on it. The client's calls do not suspend, so a query is one step.

### Mutants

Definitions whose name begins with `Mut` are not part of any specification. Each is a
plausible bug in the definition that follows it; a property listed with it in
`PROJECT.json` fails when it takes that definition's place, which shows that the
property depends on the code.

## 4. Runs

| Run | Instance | What it shows |
|---|---|---|
| `ops_alerts` | 2 replicas, 2 requests of up to 2 alerts over 2 fingerprints, with and without Slack, with and without the hypothesis call, 1 restart | dictionaries inverse, nothing forgotten, repeats only while a post is in flight, `deduplicated` is exact without the call, each replica implements FindingLog, every stored finding ends up marked although a post may fail |
| `agent_cards` | 2 replicas, 3 runs of up to 2 iterations listing up to 2 ids, an accepted and a refused request, 1 approval, 1 restart | only agreed cards reach the cluster; ask or act; only another replica or a restart loses a card |
| `docs_both` | 2 ingestions and 2 deletes over 2 collections and 2 sessions, both repositories, failing calls | how far rows and chunks stay together, and that nothing unrelated is deleted |
| `docs_row_stays` | 1 ingestion, 1 delete, PostgreSQL, no failures | violation of "Delete a document and all its vector chunks" (below) |
| `llm_requests` | 2 clients, each request 1 or more calls, 3 attempts, timeout 2, threshold 2, reset 3 | an open breaker ends; calls end in bounded time although the provider hangs; an answer the provider gave is returned |
| `llm_hammering` | the same | violation of "stops hammering a dead dependency" (below) |
| `sessions` | 2 users, 2 logins, 2 other requests of any kind, a lifetime of 2 ticks, Redis or memory | which sessions are not in the index, and that these and a login that crosses it alone survive a revocation; in memory only the latter |
| `accounts` | 3 issuing requests of any kind, 2 bearers, 2 addresses, 2 identities, each store in memory or not | a token is good once unless two had read it; verified, linked and usable mean what they say; in memory once, and linked, without exception |
| `login_limits` | 3 attempts, 2 hosts, 1 address, 1 replica and Redis, 2 requests per window of 1 tick, 1 login per window of 2 ticks, 2 failures, a lock of 2 ticks, restarts | limits hold in any window, but for what a restart made a replica forget, and up to one less than twice for Redis; which counters never expire; a lock was earned |
| `conversation` | 3 exchanges of 2 sessions at 2 replicas, both memories, 3 messages and 2 characters of history | pairs stay together, answers are remembered, which exchanges fail, the history is the longest tail that fits |
| `kubernetes` | 1 name, 2 namespaces, sizes up to 1, texts of up to 4 words over the language, JSON of every shape, every alert | documented forms are understood, evidence fits, answers are true or marked, changes are as told |
| `splitter` | texts of 0 to 9 characters, sizes 0 to 5, overlaps 0 to 6 (0 is replaced by the default) | nothing lost, as many turns as the slide needs |

**Why the bounds are enough.** Two requests are needed for every race in the alert path, and
the alerts of a batch come one after another, so that one arrives before, between and
after those of the other request; two fingerprints tell "this finding" from
"another"; two alerts per batch let a batch meet its own finding; one restart lets a
request be cut off and its replica start over. An agent run interacts with others only
through cards of its replica, and three runs are two cards and one that lists both. Two
deletes and two ingestions cover every pair that interleaves; two collections and two
sessions tell what a filter matches from what it does not. With a threshold of 2 the
breaker opens within one request of several calls, and two clients that fail once each
are as many failures as should open it. The splitter's sizes and overlaps lie on both sides of each
other and of the text's length. Two logins and two other requests are every pair of
commands on a session or an index, of one user or of two; two ticks let a touch extend a
session beyond the index. In Accounts two bearers cross on one token, one address or one
identity, and a third issuer lets a registration, a reset and an OAuth flow meet. In
LoginLimits three attempts are one past each limit, with one to spare that clears or
breaks off while two others count; two hosts give one address two keys; one tick
less, equal and more than each window all occur within an age of 3. A limit of 1 makes the bound for
Redis 1 as well: the doubling needs a limit of 2 and so a fourth attempt, which is out of reach here, and
rests on the theorem (`WindowCorrect`). Three exchanges are two that
are saved together and one before or after, or between, them; two sessions tell "this
session" from "another"; three messages are a pair and a half, so both limits cut. The language of
Kubernetes has at most four words that matter, and an argument is a word of the
language, a name, a number, or a compound with "pod". `ListLimit` is 200 as in the code and is never reached by
an instance; past it `FlagTellsNew` does not hold by design of the scan. The theorems of section 5
need none of these bounds.

**Symmetry** is used in runs without liveness properties only. **Deadlock** is checked
in every run: a state in which a request can neither go on nor has been answered would
be reported (`Finished`, `Returned` mark the intended ends).

**Fairness.** OpsDiagnosis: `WF(Serve(t))`: a suspended request resumes, because the LLM
call is under `TimeoutPolicy`, its failure is caught in `_build_advisory`, and the Slack client
has a timeout and its failure is caught in `OpsNotifier.notify`. LLMService: `WF(Tick)` and
`WF` for a lookup, a cache write and a timer that is due; the provider is never assumed
to answer. `CallEnds` thereby rests on Redis answering or raising: `clients/redis_client.py` sets no
timeout of its own. A call that failed has ended; that a failed look-up or cache write does not end
it is the second half of `CallEnds` and the absence of a failing step from `lookup`. No other module states liveness:
the turns of the splitter are counted (`TurnsBounded`), the iterations of an agent run are bounded by `left`, and the requests of the other modules are straight lines of calls
that answer or raise, with no loop, wait or retry of their own.

### What the violation runs show

`docs_row_stays`: `AsyncSession.delete` is a coroutine function; without `await` the row is
not deleted although the client reads "Document deleted successfully".

`llm_hammering`: `src/docs/INTERVIEW_GUIDE.md:190` and :194 say that the breaker opens after N
failures and stops hammering a dead dependency. Every request builds its own `LLMService`
and breaker (`dependencies.py:166`), so failures of different requests never add up: after as many failed
operations as the threshold, the next request's call goes to the provider at once. What
the breaker does do is stop the later calls of one request, and let them through again
after the timeout (`OpenEnds`).

### Divergences the models contain without a run of their own

* *Alerts.* A second alert of a fingerprint that arrives while the first is being posted is
  posted too, against "Only notify on first insert" (`services/ops_diagnosis_service.py:56`);
  `PostsOverlap` says this is the only way to a repeat.
* *LLM.* "Exponential backoff" (`policies/retry.py:13`) grows linearly (`RetryLater`).
* *Sessions.* "Revoke every session for a user" (`security/sessions.py:39`): a login listed while
  a revocation is between reading the index and deleting it drops out of the index and
  stays. `RevokesListed` says what else can survive: a session that outlived the
  index because touches extend the one and not the other, and one a touch wrote back. With
  either store, a login that checked the old password before a reset gets its session after it
  (`crossing`). In memory "sliding expiry" (`security/sessions.py:31`) is kept as `_ttl` (:66, :82)
  and never looked at: sessions and OAuth states stay until they are deleted.
* *Accounts.* A "one-time token" (`api/auth.py:187`) is accepted from two requests that both
  read it in time; `OnceUnlessTogether` says these are the only ones.
* *Limits.* `security/auth_limits.py` compares `SESSION_BACKEND == "redis"` as it is written, the
  dependencies compare it in lower case: with "Redis" the sessions are shared and the
  limits are not (both are instances of `backend`). A request that breaks off between INCR and
  EXPIRE leaves a counter without end (`CounterExpires` says this is the only way). A restart
  lets a client through again that had used up its windows in memory (`forgotten`).
* *Chat.* The first exchanges of a session can clash on its row, and one fails after the model has
  answered (`ClashNeedsCrossing`). A newest message longer than `MEMORY_MAX_CHARS` is
  kept, against "that fit within a character budget" (`memory/memory_store.py:34`; `Fits`).
  `clear` and `summary` of the memories are never called.
* *Kubernetes.* `_init_clients` turns an unknown `K8S_AUTH_MODE`, and any failure to load the
  configuration, into a mock (`InitClients`; answers are marked). "logs pod" reads a pod of that
  name and "list deploy" is answered with an error; text queries never carry a namespace, so the
  form "ns/foo pods" of `describe_from_query` is unreachable.
* *Agents.* A run that lists two cards may execute one whose request is not the planned one
  although the other is (`RunListed`; compare "Match against previously approved pending
  items", `agents/agent_service.py:157`). An approval that reaches the other replica finds
  nothing (`FoundAtHome`).
* *Documents.* `delete_session_documents` drops the rows of all collections but the chunks
  of the one the request names (a disjunct of `OrphanChunks`); `delete_by_session_id` has no
  `ephemeral` filter, so chunks of permanent documents of the session go while their rows stay
  (compare `ChunksLeaveOnRequest` with `RowsLeaveOnRequest`). Two first ingestions into a collection both try to
  create it and one fails (`CreateCollection`; the list is stale, `clients/qdrant_client.py:26`). A delete
  that failed at the row leaves one that no retry reaches, since the retry finds no chunks and
  answers 404 (`services/document_service.py:53`; a disjunct of `OrphanRows`).

Seen in the code and in no model: `Retriever.retrieve` passes `top_n or limit_k`, so the
sources of an answer are up to TOP_K chunks while the prompt holds TOP_N
(`prompt/prompt_builder.py:31`); a scroll of several pages is no snapshot
(`clients/qdrant_client.py:94`); a slow hypothesis call lets an older alert's evidence
overwrite a newer one's (`services/ops_diagnosis_service.py:55`).

## 5. Theorems

All are about `Spec` (`LLMSpec` and `SplitSpec` where a module of proofs is about two
components: ChatProofs, IngestionProofs), for every value of the constants that satisfies the module's
named assumption (`OpsAssumption`, `AgentAssumption`, `SplitterAssumption`, `LLMAssumption`,
`SessionsAssumption`, `AccountsAssumption`, `DocumentsAssumption`, `KubernetesAssumption`,
`LimitsAssumption`, `ConversationAssumption`: settings are naturals, some positive; markers
for "none" are not among the values; a client's host is no pair of host and address; names are
no words of the query language). Where a theorem says more than a run checks, TLC had
checked it too: the type invariants, and `ChunksFit`, `Slide`, `NoneRedundant`, `StampedAtThreshold`,
`AnnouncedOnce`, `ApprovedHasItem` and `CardsStay`.

* **OpsDiagnosisProofs.** The named invariants are not inductive alone. `IInv` adds: a
  suspended request stands at an alert of its batch (`AtAlert`); the ids in a store belong
  to alerts already passed, so a new finding never takes an id in use (`IdsPassed`); a
  fingerprint without entry was not posted (`SilentUnlessKnown`); a request that waits for
  Slack holds a finding of its alert that is still in the store (`StoredFits`); without Slack
  nobody waits for it (`NobodyPosts`). From `IInv`: `TypeCorrect`,
  `StoreConsistent`, `NothingForgotten`, `RepeatsOverlap`, `AnnouncedOnceWithoutSlack` and, with either
  setting, the refinement `LogImplemented` (every step of the detailed specification is a
  `Record`, `Repeat`, `Mark`, `Forget` or stutter of FindingLog).
  `FlagsAreExact` needs two assumptions that TLC's instance meets: no hypothesis call, and no more
  findings than `ListLimit`, past which the scan does not see them all. Its invariant
  `Promised` says that a request that waits for Slack knows whether its alert made the finding.
* **AgentApprovalProofs.** `IInv` adds: a running run has an iteration left (`BudgetLeft`);
  an item in a store is a card of a run of that replica (`HeldCards`); a run that changed
  the cluster and goes on still finds a listed card (`ActedOnHits`), so it cannot leave a card
  later. From it: `TypeCorrect`, `MutationsAreAgreed`, `RunsAskOrAct`,
  `ApprovedItemsExist`, `CardsAreFinal`; with `CardsKept` (until a restart every card is in
  its replica's store), `HomeKnowsItsCards`.
* **IngestionProofs.** *TextSplitter:* `IInv` relates `start` to the end of the last chunk.
  From it: `SplitLosesNothing`, `SplitTurns`, `SplitFits`, `SplitSlides`, `SplitNoneRedundant` for every text
  length, size and overlap. *Documents:* `IInv` adds: an ingestion writes its points before
  its row, and points that are missing were asked to go (`Placed`); where a delete of each
  kind can be and what it knows there (`OnItsWay`); a delete about to remove points found all
  it is for (`FoundAll`), the rows it dropped stay away (`RowsDropped`), and chunks that were
  written and are missing were taken by a delete that is past them (`Taken`). From it all seven
  properties of the run: `TypeCorrect`, `ChunksKept`, `RowsKept`, `OrphansExplained`,
  `OrphanRowsExplained`, `DeletedIsOut`, `SessionIsSwept`.
* **ChatProofs.** *LLMService:* `LLMIInv` adds: a call that waits has an attempt left
  (`AttemptLeft`). From it: `LLMTypeCorrect` and `CountAndStampAgree`, for every breaker. For `CallsStayWithinBudget`, `Spending` bounds the time spent by what
  the attempts made so far may take (`Allowed`, which grows with the attempts and stays below
  `Budget`). *Conversation:* the four invariants of the run are not inductive alone.
  `ChatIInv` adds which of its two messages an exchange has on record at each step of the two
  commits (`Stages`); that nothing is on its way to be stored in memory (`StoresLate`); that
  exchanges being saved at one time know of one another (`HaveMet`); and that while an exchange
  is being saved, what follows its question is its answer or comes from one it has met
  (`Following`), without which an append of another exchange could part a pair later. An append
  goes to the end and concerns only the exchange it is of (`OwnOrder`, `OthersOrder`); a rollback takes a
  message out of the middle and keeps the order of the rest (`Rest`, `RestOrder`). From it:
  `PairsStayTogether`, `QuestionsHaveAnswers`, `AnswersAreRemembered`, `ClashesNeedCrossing`; with
  the remaining types (`OtherTypes`), `ConversationTypeCorrect`.
  *The history in a prompt:* `Visible`, `Chars` and `Trim` are recursive functions on the positions
  of a history, so what they return has to be shown by induction. It is shown from the least position
  where it would fail (`Least`, which rests on `<` being well-founded on the naturals): they are
  functions of their recursion equations (`CharsDef`, `TrimDef`), and the characters only grow from
  the newest message on (`CharsGrow`) and are those of the whole history when it was cut by messages
  first (`CharsNewest`). Hence cutting by messages and then by characters gives the longest tail that
  keeps both limits (`LongestThatFits`); only `ReadHistory` fills a prompt
  (`OnlyReadHistoryReads`); so every history is such a tail: `HistoriesAreTails`, for histories of
  any length and any two limits.
* **SessionsProofs.** `IInv` adds: nothing is known of a session before it is created
  (`BornFirst`); an index lists its user's sessions (`IndexOwn`) and a request deletes
  sessions of one user (`TodoOwn`); what a revocation found is still to be deleted or
  was (`Swept`), and it found all that was listed (`FoundAll`); a session about to be taken off the
  index is deleted (`Gone`). In memory at most one request is inside a method (`OneInside`), so
  that a touch writes back what is there and an index about to be dropped holds what was found
  (`Kept`). From it: `TypeCorrect`, `WorkingIsListed`, `RevocationReachesListed`.
* **AccountsProofs.** `IInv` says what is known of a request at each step (`IssuerFits`,
  `BearerFits`, `UserFits`), that a token exists once its request ended (`TokenFits`) and is used
  by somebody (`UsedByOne`), that rows are accounts and accounts rows (`Rows`), that an
  identity is linked to the account that had its address (`LinkFits`, `SessionFits`), and that
  a reset stays in force (`ResetHolds`). Beside it, `MInv` is about stores in memory: one request
  is between two calls (`OneInside`), what was used is at nobody's hands (`UsedOnce`), and an identity about
  to be linked is free until it is (`LinkFree`, `LinkKept`), which is why overwriting does no harm. From them all five properties of the run:
  `TypeCorrect`, `OneUseUnlessTogether`, `VerifiedMeansProven`, `LinkedSession`, `TokensDoTheirWork`.
* **LoginLimitsProofs.** `IInv` adds: an attempt has no age in a window it has not come to
  (`NotYet`), and what still counts in a sliding window is in its bucket (`Tracked`), so the code's
  count is never short; finitely many attempts have begun, so that counting by cardinality
  means something. The lemmas on windows are stated for either length. For Redis, `RedisWindow` says what one counter knows: the attempts of its open
  window are at most its hits, began with one that is as old as the window has run, and what is
  younger than a window but from before is one short of the limit, because the window's first
  came too; that gives the bound of one less than twice the limit. A broken-off counter
  belongs to a request that is over (`BrokenIsOver`); failures counted since the last clearing
  come from attempts of their own (`Failures`), and who is about to lock has counted enough or was
  overtaken by a clearing (`LockDue`). From it all four properties of the run: `TypeCorrect`,
  `WindowCorrect`, `CounterCorrect`, `LockCorrect`.
* **KubernetesProofs.** `IInv` is the types, what a diagnosis that collects has collected
  (`Collecting`, `Pieces`) and `Understood`, a statement about the last query. The cases of the
  parser are taken apart by lemmas, one for each form. From it: `TypeCorrect`, `FormsUnderstood`,
  `EvidenceIsFitting`, `AnswersTrue`, `ChangedAsTold`, for every language, cluster and bound.

**Model-checked only:** the liveness properties (`EventuallyNotified`, `OpenEnds`, `CallEnds`): they rest on fairness, hence on when an action is enabled, which TLAPS cannot
reason about here.

## 6. Not modelled

* Planned (section 2): the limits of the retriever, scrolls of several pages.
* Left out: provider SDK wrappers, extraction, prompt building and output parsing, RBAC, CSRF
  and cookies, metrics and logging, the browser client, the retriever (whose search and
  scores are the stores'). They keep no state that others depend on; their results are
  inputs of the modules.
* Abstracted: message texts, evidence beyond what it is about, embeddings, scores; time
  other than the ticks of LLMService, Sessions and LoginLimits; the number of chunks of a
  document; the pools of database connections, so that a request that waits for one
  (`services/chat_service.py:107`) is not seen to wait.
* A card that was approved stays so (`repositories/finding_repository.py:92`): the model
  has it as the code does, and no property says it should be used once, since nothing in the
  repository promises it.
