# TLA+ models of the AI37 agent SDK

The repository holds an SDK for agents of the AI37 platform, twice: in TypeScript
(`packages/ts`, `packages/ts-host`) and in Python (`packages/python`, `packages/python-host`).
The SDK half verifies who sends a request and asks the billing service whether the user may run
the agent. The host half turns an agent's handler into an A2A server, an AG-UI stream and an MCP
server, keeps tasks in Postgres or Redis, relays turns to remote agents, publishes artifacts,
gives a turn its files and the history of chats, and manages a shared child process (the "harness"
of `dsh/`).

This directory models the parts whose correctness depends on the order of events: TLA+ modules,
TLC configurations that check them on small instances, and proofs that TLAPS checks for every
instance. Paths below are relative to `packages/ts-host/src` unless they say otherwise. All
TypeScript here runs on one event loop, so an action of a module is what runs between two
suspension points (two `await`s) of one call; several replicas, several requests, timers and the
network interleave freely.

## 1. Inventory

### 1.1 Parts that are modelled

| part | state | operations | talks to | what is hard | what makes it correct |
|---|---|---|---|---|---|
| shared harness runtime (`dsh/harness-runtime.ts`) | `harness`, `starting`, `invalidating`, `closing`, `closed`, `active`, `drained` | `use`, `invalidateIfIdle`, `close` | factory and `close()` of a child; every session of the host | calls, failed starts, failed closes and shutdown in any order; promise chains that outlive the call that made them | one child at a time; no operation on a child that is not up; no process forgotten; everything settles |
| session scheduler (`dsh/session-scheduler.ts`) | map session → last promise | `run` | callers' operations | the tail of a session is replaced while an earlier job finishes | FIFO within a session, independence between sessions, no leak in the map |
| concurrency limiter (same file) | `active`, `waiters` | `run`, `acquire` | callers' operations | a slot is handed to a waiter that has not resumed yet | no slot lost or minted; FIFO; nobody waits beside a free slot |
| scoped request bridge (`dsh/request-bridge.ts`) | map session → binding (nonce, timer, abort), server, `closed` | `start`, `bind`, `release`, `handle`, `close` | the harness child over loopback HTTP; credential and tool dispatchers | state is read before the body and before the dispatch, used after it; late or repeated `release`; timers | only the live turn of a nonce is served; one live turn to a session; nothing survives `close` |
| turn execution (`a2a-executor.ts`, `a2a-progress.ts`, `build-task.ts`) | `running`, per turn: abort signal, progress flags, keepalive timer | `execute`, `cancelTask`, `text`, `progress`, `flush`, `finalTaskEvents` | A2A SDK (event bus, task store), the agent's handler | cancellation at every point, late progress, crash and resumption, events merged into what earlier turns left | well-formed stream that ends; cancel *or* result; the task shows the last turn only |
| turn execution on Python (`packages/python-host`: `a2a_executor.py`, `a2a_progress.py`, state of `agui.py`) | queue and task of `A2aProgress`, context variable of the request, artifacts of the task | `execute`, `cancel`, `emit`, `finish`, `_finalize`, `_load_prior_state`, `_save_state` | a2a-sdk (one producer for the turns of a task, merge by artifact id), the agent's handler | asyncio cancels at any `await`; the producer outlives the request that made it; artifacts pile up | each turn acts for its own request, on the last state; the answer is whole before the outcome |
| what a turn says (`parse.ts`, `output-modes.ts`, `build-task.ts`, `relay/extract.ts`) | the stored task; the task the relay assembles | `buildParams`, `parseA2AMessage`, `negotiateOutput`, `toTask`, `finalTaskEvents`, `drainStream`, `collectTaskText`, `extractA2ui` | the orchestrator's relay on one side, the handler on the other | one thing is sent in up to three places and merged into what an earlier turn left; two ways to receive it | shown once, whole and to a client that understands it, streamed or not |
| task store (`task-store/store.ts`, `task-state.ts`) | rows of the task table | `save`, `load`, `cleanup`, `saveTaskState` | Postgres; several replicas | read-then-write across replicas, batches of the retention | an ended task stays; retention deletes what it should, no more, and ends |
| schema and migration (`task-store/migrate.ts`, `schema.ts`, `cli/task-store.ts`) | the table, the width of its ids, the journal | `migrate`, `check`, `cleanup`, the start of a pod | Postgres, `a2a-db` | commands next to each other, stopped between two queries; a foreign table of the same name | ready means ready; what is foreign is left alone |
| Redis task store (`packages/python-host`, `redis_task_store.py`) | a key per task, an index per owner | `save`, `get`, `delete`, `list` | Redis | a list is many commands; pages are asked for one after the other | stored tasks are listed; a page skips none that stayed as it was |
| Postgres task store (`packages/python-host`, `postgres_task_store.py`) | rows by id, with an owner | `save`, `cleanup`, `migrate`, `assert_ready` | the SDK's store, Postgres or SQLite | the check of the owner and the merge are two transactions | a task stays with its owner; ready means ready |
| relay (`relay/execute.ts`) | per call: task id, forwarded text, watchdog (signal, deadline, idle timer) | `executeRemoteA2a`, `executeRemoteA2aStreaming`, watchdog | a remote A2A agent, which is not trusted | retry without a stale task, abort at every point, two protocols for one refusal | executed once; the right task cancelled; calls with a limit end |
| service token cache (`project-knowledge/service-token.ts`) | `tokens`, `pending`, `tokenEndpoints` | `serviceToken` | OIDC provider, which is not trusted | shared promises and the microtasks that settle them; lifetimes | one request per client; no failure remembered; no expired token |
| AG-UI stream (`agui.ts`) | per turn: open blocks, abort controller; per thread: state in the task store | the route | task store, agent, the browser | client leaves at any moment; turns of a thread overlap; the store fails | one well-formed run per stream; success means saved |
| request admission (`packages/ts/src/context.ts`, `auth/*`, `auth-guard.ts`, `mcp/challenge-guard.ts`) | cache of introspected keys, memo of verifiers | `jwtGuard`, `mcpChallengeGuard`, `fromRequest`, `verify` | the issuer, which is not trusted to answer | a positive answer cached after a revocation; errors of three kinds; verifiers by the look of the token | whatever passes bears the identity of its own token; everybody is answered |
| billing (`packages/ts/src/billing/*`) | LRU cache of the runtime state, one pending fetch, the state kept in the context | `assertExecutionAllowed`, `reportUsage`, `hasRequiredAccess`, `explainDenial` | the billing service | an account that changes behind cache and fetch; a decision and its explanation computed apart | decisions are recent; a denial names what fails |
| MCP endpoint (`mcp/mcp-server.ts`, `mcp/bridge.ts`) | resources of a request, its transport, the tool that runs | a request, a tool call, `release` | resolver and handler of the agent | the response may close before anybody listens, or under a tool | taken once, given back once |
| skills (`skills/*`) | registry; marker of the owner in the state of the thread | start, dispatch | the skills | states that carry another skill's marker; questions without a state; errors, which the two protocols treat differently; restarts with other skills | an answer goes to the skill that asked, if it asked with a state, and else to no earlier owner |
| tracing (`observability/langfuse.ts`) | slot of the handle in the process | `withTurnObservability`, `withRemoteA2aObservability` | OpenTelemetry, Langfuse | first turns start the SDK at once; the handle is replaced under a turn, and between the looks of a call | a turn runs as it would without tracing; a call carries its identity |
| files of a turn (`attachments/*`, `store-backend/*`) | scope, shelves, budget of characters | `attachmentScope`, `artifactScope`, `grepShelves`, `readAttachmentContents` | chat-backend | shelves know more than the turn may see; windows and budgets at their boundaries | only the files of the turn; texts exact within the budget |
| history of chats (`store-backend/chat-store-backend.ts`) | none of its own | `ls`, `read`, `glob`, `grep` | chat-backend | paths made of names that users choose | a path that is shown opens what it stands for |
| artifact publishing (`artifacts/publish-artifact.ts`) | idempotency key | `publishArtifact` | chat-backend | lost answers, late requests, repetition | one artifact for one result |
| project pool (`project-knowledge/project-pool.ts`) | none of its own | upload, find by title, list | document-service | repeated uploads; documents that come and go between pages | answers agree with the pool |

### 1.2 Parts that are not modelled

| part | why |
|---|---|
| Python twins of AG-UI (but for its state), relay, token cache, admission, billing, backends, MCP and tracing (`packages/python-host`, `packages/python`) | they follow the TypeScript parts above; where asyncio makes them different (cancellation at an `await`, a lock in place of a shared promise, a queue under the stream) they would need modules of their own. The two task stores and the execution of turns, which differ most, have them |
| masking of contents before the export of spans (`observability/langfuse.ts` 74–170), counters (`metrics.ts`) | pure functions of one record; counters nobody reads back |
| bridge of project knowledge (`project-knowledge/index-to-project.ts`), client factory and in-memory store of the relay | one request, one constructor, one map: no order of steps |
| harness sessions (`dsh/session-lifecycle.ts`, `scoped-stream.ts`, `environment.ts`) | `closeHarnessSession` waits for a creation and takes the session out of the caller's map once; the maps and the creations belong to the caller |
| text routing, forwarding, cards, log redaction (`packages/ts/src/a2a/*`, `log-redaction.ts`) | pure functions of one message |
| host assembly, request scope, agent card, mounting | wiring and static data |
| capture contract, DOCX rendering, CLI of the SDK, fixtures | validation of single records, formatting, test doubles |

How they interact: an A2A, AG-UI or MCP request passes **admission** and **billing**, opens a request
scope and starts a **turn** inside an observation of the **tracing**; the turn is given what the
request **says**, is dispatched to a **skill**, and its handler may read the **files of the turn**
and the **history**, take a slot of the **limiter**, queue in its session's **scheduler**, borrow
the **harness**, which calls back through the **bridge**, or call a remote agent through the
**relay**; what the turn publishes is merged into the **task store** and results go to the shelf of
**artifacts**; background indexing takes a **service token** and writes to the **project pool**.
Interaction is by function call and callback inside a process, by HTTP with remote agents and
services, and through the rows of the store between replicas.

## 2. Modules

Every module names in its header the code it translates and what of its surroundings is external.
Operators that start with a comment "Mutant" are plausible bugs, each of which the checks must
notice; they are used by nothing. Variables called observations or history in a comment are read
by properties only.

### 2.1 The harness

* **`HarnessRuntime`** — `SingleHarnessRuntime`. The variables are the fields of the class, the
  locals of suspended calls (`chain` of an invalidation, `instance` of the shutdown, `call` and
  `ref` of each `use()`), and the processes. `Use` to `OperationSettles` are `use()` up to each
  of its awaits (the wait for an invalidation, the recheck, the start it makes or shares, the
  operation, the `finally`); `Invalidate` and the three `Invalidation…` actions are
  `invalidateIfIdle()` and its chain; `Close`, `Drained`, `TakeChild`, `ShutdownSettles` are
  `close()`. A failed close leaves a "broken" child: a process that may still exist.
  **`SharedChild`** is the promise to the callers (launch, borrow, return, retire, end), which
  `HarnessRuntime` implements under a refinement mapping from children to leases.
* **`SessionScheduler`**, **`ConcurrencyLimiter`** — the two classes of `session-scheduler.ts`, with
  the microtask between a hand-over and the resumption of the waiter as a state of its own
  (`ready`). `before` and `arrivals` are history variables for the order of arrival.
* **`RequestBridge`** — `ScopedRequestBridge`. `bindings` is the map; `turn[b]` is the binding object
  with what has happened to its signal, its expiry and its timer; a request goes through `reading`
  (its body), `dispatching` and an answer. A nonce is the identity of its binding.

### 2.2 Turns

* **`TurnExecution`** — `HostExecutor.execute` from its start (`Begin`) through the handler
  (`EmitText`, `EmitProgress`, `HandlerEnds`), the `finally` (`Finally`) and the publication of the
  result (`Conclude`); `cancelTask` (`Cancel`); the keepalive of `A2aProgress`; a crash of the
  process. The A2A SDK is external: it merges events into the stored task while the bus is open,
  and cancels a task without a bus by itself (`CancelIdle`). Contents (form, answer, state) are
  named by the turn they come from.
* **`PythonTurn`** — a turn of the Python host: `HostExecutor.execute` (`Execute`, `HandlerReturns`),
  `_finalize` as its two publications (`AddArtifact`, `Finalize`), `A2aProgress` with the task that
  drains its queue (`Drain`, `Keepalive`, `DrainEnds`), and `cancel`, which follows the cancellation
  of the producer by the SDK (`CancelProducer`, `Unwound`, `Cancel`). Between the turns of A2A there
  may be some of AG-UI, of which only the loading and saving of the state matters here.
* **`TaskExchange`** — the same turn seen from both ends of the wire: the message an orchestrator
  builds, what `parseA2AMessage` and the negotiation make of it, the task `toTask` builds, its
  publication event by event, the merge by the SDK, and what `drainStream` and `extract.ts` of the
  relay read from it, streamed or not. Texts and surfaces are named by their turn; a catalog is a
  model value. Turns follow each other; one may be cut before its final events.
* **`TurnTracing`** — `ensureOtel` up to each of its awaits, the slot it fills, the span of a turn, the
  flush, and a call to another agent in the turn. The call looks at the slot when it is opened
  (`OpenCall`), and each of its messages, the first and the retry, looks again for the identity to carry
  (`Send`, `Carrier`), in the bundle of the relay and with requests to the network in between. One call
  of a turn is modelled; `run()` awaits it.
* **`TurnFiles`** — the scope of a turn (`Load`, `Readers`), the search (`Grep`), and the reading of all
  texts window by window (`ReadWindow`, `Fails`) while attachments expire and artifacts appear. A text is
  given by the places where its lines end; its characters are those places themselves.
* **`Selection`** — what a filter of an array keeps, by the ranks of its positions, so that it can be
  reasoned about without recursion.
* **`ChatHistory`** — `parsePath` and the paths that `ls`, `glob`, `grep` and the rendering of a chat put
  together; a path is a sequence of names. Every operation is one step, since the class keeps nothing.
* **`SkillDispatch`** — the registry a process starts with, `selectSkill`, the requirement of a skill, the
  state that an answer leaves with or without a marker, and what the two protocols make of an error: over
  A2A it is a failed answer, which ends the task and its state with it (`a2a-executor.ts:110-114`,
  `build-task.ts:199-202`), over AG-UI nothing is stored and the state stays. A completed A2A task ends too,
  while an AG-UI thread goes on with the state that was answered, if any. The turns of a thread follow
  each other on one protocol, and the handlers write no state by themselves (`task-state.ts`).

### 2.3 Requests

* **`Admission`** — a request at a guard: the token it bears, the verifier its settings call for, the
  question to the issuer, the cache with its lifetime, the refusal or the context. A key may be
  revoked between any two steps; time goes in ticks.
* **`Billing`** — the cache of the runtime state with its lifetime, the pending fetch that calls share,
  the state kept in the context, the decision and its explanation, the report of usage.
* **`McpEndpoint`** — a request from `resolveTools` to the close of its response, with a tool that may
  still run. The client may close the connection between any two steps.
* **`AguiTurn`** — the route: load, run, save, end, with the client closing the stream anywhere and the
  store failing anywhere. The state of a thread is the set of turns whose effect is in it.

### 2.4 Stores and services

* **`TaskStore`** — the rows, `save` as its two statements (`CheckStored`, `Write`), `saveTaskState`
  with its load before them, and `cleanup` batch by batch with the clock moving between batches.
* **`TaskMigration`** — the commands of the operator and the start of a pod, query by query, over every
  schema they may find; a command may stop anywhere and another one be given.
* **`RedisTaskStore`** — the keys and the index; `list` as its commands (`Members`, one `LookUp` per
  task, `Answer`), page by page, among saves, deletions and keys that Redis loses.
* **`PostgresTaskStore`** — `save` as its two transactions (`Check`, `Merge`), the retention, and the
  jobs and pods that make or check the table, on Postgres or SQLite.
* **`RelayCall`** — one call, blocking or streaming, with the retry without a stale task, and
  `RelayWatchdog`. The agent may report, answer, fall silent; the connection delivers in order and
  may break. A client of protocol 0.3 knows a stale task by its code alone.
* **`ServiceToken`** — `serviceToken`, its three maps, and the promises they hold. A request, the
  reaction that clears `pending`, and the reactions of the calls that waited are separate actions;
  the network and the clock move only when no microtask is due (`Quiet`).
* **`ArtifactPublishing`** — a publication, its key (`DefaultIdempotencyKey`), its request on the way,
  which may arrive after the caller gave up, and the shelf.
* **`ProjectPool`** — an upload and its repetition, a look-up page by page, a list by ids, while others
  add and remove documents.

### 2.5 Modules for TLC

Parts of the system that share no state are checked in one run each group: `MCHarness`
(`HarnessRuntime`, `SessionScheduler`, `ConcurrencyLimiter`), `MCTurns` (`TurnExecution`,
`PythonTurn`, `TurnTracing`, `TurnFiles`, `ChatHistory`), `MCTaskStore` (`TaskStore`, `TaskMigration`,
`RedisTaskStore`, `PostgresTaskStore`), `MCOutgoingCalls` (`RelayCall`, `ServiceToken`),
`MCDelivery` (`AguiTurn`, `ArtifactPublishing`, `ProjectPool`, `TaskExchange`), `MCHostRequests`
(`Admission`, `Billing`, `McpEndpoint`, `SkillDispatch`). A variable `part`, chosen in the initial
state, says which one moves; the others stand still in one initial state. So the reachable states
are the sum of those of the parts, not their product, and nothing is lost, because no action of a
part reads or writes a variable of another.

## 3. Runs

All runs allow stopping (`CHECK_DEADLOCK FALSE`) because the systems may really stop: all jobs are
done, the runtime is closed, the bounded clock has ended. What must not stop early is stated as a
liveness property instead. Where a run checks liveness no symmetry is used.

| run | instance | what it shows |
|---|---|---|
| `harness` | 3 concurrent calls (slots are reused), 3 child identities; 4 jobs, 2 sessions; 5 operations, limit 2 | `ChildOwned` (one child, operations on a child that is up, no process forgotten), `TurnsSerialized` (order, one at a time, the map holds exactly the live tails), `LimiterExact`, `ImplementsSharedChild`, `EverythingEnds` |
| `request_bridge` | 2 sessions, 3 turns, 1 request | `TurnsExclusive`, `OnlyLiveTurnsAreServed`, `OnlyOwnReleaseUnbinds`, `TurnsAndRequestsEnd` |
| `turns` | 1 task, 2 turns, 3 published events before progress stops; 3 traced turns, 1 call with 2 messages each; 4 inputs of a turn, budgets 0, 2, 5 and 12 characters, windows of 2 lines, at most 2 windows of a file; 2 projects, 2 threads, some called like the anchors of the paths; 3 turns of a Python task, 2 events each | `TurnWellFormed`, `CancelOrResult`, `OnlyLastTurnShown`, `StreamsEnd`, `TracingIsTransparent`, `FilesAreExact`, `ShownPathsOpen`, `EachTurnItsOwn`, `AnswerIsWhole` |
| `turn_execution_first_event` | 1 task, 2 turns, 2 events | finding 1 |
| `python_agui_state` | 3 turns of a Python task, no events | finding 5 |
| `task_store` | 2 rows, 2 writers, batches of 1, 4 days; 2 commands over any schema; 3 Redis tasks, pages of 1, 3 ticks; 1 id with 2 owners, 2 saves, 2 jobs, batches of 1 | `EndedTaskKept`, `RetentionExact`, `CleanupEnds`, `SchemaIsReady`, `ListingExact`, `OwnedTasksKept` |
| `task_store_state` | 1 row, 3 writers | finding 2 |
| `outgoing_calls` | 1 call of an agent in all its variants, 2 events of the agent; 3 calls for tokens, 2 clients, lifetime 2, margin 2, delay 1 | `ExecutedOnce`, `CancelsWhenAborted`, `CallsEnd`, `RequestsAreShared`, `NeverExpired`; that a call that ended leaves no timer and no listener is part of the types of `RelayCall` |
| `delivery` | 2 AG-UI turns of 3 events together; 3 publications of one turn; a pool of 3 documents, pages of 1, 2 uploads; 2 turns told to a relay, 3 kinds of requests, 6 outcomes, 2 deltas; symmetric | `StreamsWellFormed`, `TurnsBuildOnEachOther`, `FinishedMeansSaved`, `OneArtifactEach`, `AnswersAreExact`, `AnswersArriveOnce` |
| `agui_turn_closed` | 2 turns, without symmetry | finding 3 |
| `host_requests` | 2 requests, 1 key, lifetime 2, timeout 1, 7 settings; 2 calls of billing, lifetime 1, timeout 1, 5 accounts; 2 MCP requests; a thread on either protocol, 3 skills, one gated | `AdmittedMeansVerified`, `EveryRequestIsAnswered`, `DecisionsAreRight`, `ServedRequestsRelease`, `AnswersReachTheirSkill` |
| `mcp_release` | 2 MCP requests | finding 4 |

Why the bounds are enough:

* harness: an identity is needed for a child as long as something remembers it. At most one child
  exists, and the calls that shared a failed start remember at most two others, so three
  identities never run out with three calls, and a call slot and an identity are reused, so runs
  are unbounded in length.
* scheduler: four jobs give a session a finished, a running and two queued jobs, or two sessions
  two each. Limiter: five jobs on two slots give hand-over while a waiter and a newcomer compete.
* bridge: two turns of one session in succession and a third of another; a request may carry any
  session and the nonce of any turn that was ever bound, so also of one that has ended. Requests
  do not interact with each other, so one is enough.
* turns: two turns give "an earlier turn" in every form: finished, paused, cut by a crash,
  overlapping. Three events allow the first text, an append, and a status between them. Two traced
  turns suffice for a start within a start and for a handle that is replaced under a turn.
* turns on Python: the third turn is the first that can confuse the last state with the oldest, and two
  events are a text and another event in either order, or two texts.
* files: the files have one to five lines of zero to two characters, so that a budget ends before,
  in and after a line, a window, and the last window that is allowed; empty files and empty lines
  are among them. Budget 0 asks for nothing and 12 for more than there is.
* history: two projects and two threads, each with its slug or without and in any project or none; the
  slugs `threads` and `projects` are where a path may be read in two ways.
* store: the retention compares ages only; four days separate "not yet terminal", "terminal and
  old", "stale". A batch of one makes every number of old rows a multiple of the batch.
* migration: the table a command finds is any combination of what the code looks at. Two commands
  are one that looks and another that changes the table before the first acts on what it saw.
* Redis: three tasks on pages of one give a page before, at and after a change; three ticks order any
  two of them either way or make them equal.
* Postgres of the Python host: two saves are all that the check and the merge of one of them can be
  separated by; rows do not touch each other, so one id is enough.
* relay: two events let a task be named and its answer be established, then appended to or replaced.
* token: a lifetime of twice the delay is the shortest that is promised anything (section 5), so the
  refresh and the expiry are within reach of the clock; three calls are a request, a call that joins it, and a
  third that arrives between the end of the request and the storing of the token.
* publications: two results that differ only in the order of their files and one with the same text
  without files, under a key of the caller or the derived one; three publications let a repetition
  meet a request that is late and another result.
* pool: the series ids of one request are limited to two, and pages of one make every step of a
  document from page to page visible.
* exchange: two turns are the present one and the one whose remains it is merged into. The requests
  and the outcomes are chosen so that surfaces are accepted, downgraded to another catalog or
  refused, tagged with a catalog or not, and held in a status, an artifact or both.
* guards: one key that is revoked between any two steps, by two requests so that one finds what the
  other left in the cache; the settings are the complete ones and each with one part missing.
* billing: a call that shares a fetch and the one that started it, over every kind of account.
* skills: a thread goes on for ever; its state is finite.
* tracing: three turns, since a call that was opened untraced in a traced turn can find the slot filled
  again only when one turn fails to start and a third one starts.

### Fairness and why the code justifies it

The event loop runs every continuation that is ready, and timers fire: these are weak fairness of
the actions that stand for a continuation or a timer. Beyond that each module trusts only what its
code relies on:

* `HarnessRuntime`: the factory, the operation and the child's `close()` settle; the class has no
  timeouts and leaves cancelling to its caller. Calls of `use`, `invalidateIfIdle` and `close` are
  never forced to happen.
* `SessionScheduler`, `ConcurrencyLimiter`: operations settle (`finally` runs).
* `RequestBridge`: a body that has begun is read to its end (Node's request timeout); a dispatcher is
  trusted to settle only after its signal fired; the timer of a turn fires.
* `TurnExecution`: a handler settles; nothing is assumed of cancellation.
* `TaskStore`: the statements of a running `cleanup` are answered.
* `RelayCall`: neither the agent nor the transport is trusted; only the relay's own continuations
  and its armed timers run.
* `ServiceToken`: the provider is not trusted; the request timeout fires.
* `Admission`: the issuer is not trusted to answer an introspection; time passes while a request waits, its
  timer fires, and the library that fetches the keys of a JWT settles (it has a timeout of its own).

The other modules state safety only. Whether an agent that ignores its signal ever returns is not for the
route of AG-UI or the MCP endpoint to decide, and the callers of the stores are not made to go on.

### Findings

1. **First event of an execution** (`turn_execution_first_event`). `a2a-progress.ts:107` says that the
   first event of an execution has to be a task or a message. `cancelTask` (`a2a-executor.ts:153`)
   publishes a status update without looking whether the turn has published its task. When a
   task left by an earlier turn is resumed and cancelled before its first progress, the stream
   starts with that update.
2. **An answer of `true` for a write that was skipped** (`task_store_state`). `task-state.ts:34` says
   that `false` means nothing was written because the task has ended. When the task ends between
   the load and the save, the store skips the write and the caller gets `true`.
3. **A client that leaves early** (`agui_turn_closed`). The listener for `close` is registered after
   the state of the thread was loaded; a client that leaves while it loads is not noticed, and the
   agent runs to the end, which the comment at `agui.ts:269` rules out.
4. **Resources of an MCP request** (`mcp_release`). `mcp/types.ts:60` says the host gives them back when
   the response closes. `mcp-server.ts:94` registers for the close only after the tools are resolved
   and the server is built: a client that leaves before, or a list of tools that the server
   refuses, leaves them taken.
5. **The oldest state** (`python_agui_state`). In the Python host a thread of AG-UI is the task of the same id
   (`agui.py:251`), and `agui.py:209` speaks of the state of the previous turn. It reads the artifacts
   from the front, while A2A turns append theirs: with two of them it gets the older one.
   `a2a_executor.py:294-300` tells of the incident that the same order caused there and reads from the end.

Observations without a finding, where the code promises nothing or the model says what it leaves out:

* The entry of a task in `HostExecutor.running` is replaced by a second turn of the same task and
  deleted by whichever ends first, so the other turn is no longer found by `tasks/cancel`; whether
  turns of a task may overlap is the SDK's decision, and the model lets them overlap.
* `langfuse.ts:179` says that the SDK is started once per process. `ensureOtel` fills the slot only after its
  imports, and nothing marks that they are under way, so turns that come first together all start it.
  `RunsAsWithout`, one part of `TracingIsTransparent`, holds all the same. When one of them fails to start
  after another has succeeded (`langfuse.ts:255`), the slot is emptied for both: a call of the traced turn that
  comes then has no span, and one that was opened before sends its next message without an identity,
  also when only its retry comes after. A turn whose own start failed can likewise find the slot
  filled by another, and its call then starts a trace of its own. `CallsKeepTheirTrace`, the other part,
  states that nothing else parts a call from its trace.
* A skill that asks without a state gets no marker (`dispatch.ts:56`), so the answer to its question is routed
  by the matchers, like any first message. `AnswersReachTheirSkill` says so: the owner is promised for
  questions with a state only, which is how `dispatch.ts:6-10` describes the marker.
* Over AG-UI, an answer that completes and hands back the state it was given leaves the marker of
  the last question in it, so the next message still goes to that skill. The property is about open
  questions and says nothing of it.
* The Python host saves the state of an AG-UI turn in a new task, so the status and the history of a task
  that A2A turns left are gone; a store that fails while the state is loaded makes the turn a first
  one, whose state then replaces the stored one. Both are as `agui.py` says (best effort).
* `tests/test_prior_state.py:11-12` says that states are written under a permanent artifact id;
  `a2a_executor.py:232-237` explains why the code does not, and the mutant `Pinned` shows that it must not.
* In `serviceToken`, a call that comes between the end of a request and the moment the waiting calls
  store its token starts a second request; it is harmless and is allowed by `OneRequest`, which is
  about requests at the provider at one time.
* A hit of `grep` in a thread whose project has no slug is shown under `/threads/`, while `ls` shows the thread
  under `/projects/<id>/`. Both paths open it, which is all that `ShownPathsOpen` asks.
* `project-pool.ts:227-228` says that a document without a row in the answer is not in the pool. An
  older service, which ignores the ids, sends its first page only (lines 246-248 drop the other
  rows), so a document may lack its row all the same. The model has both services, and
  `AnswersAreExact` asks only that nothing else is in the answer.
* Two first saves of one id by different owners, in the Postgres store of the Python host, both pass the
  check of the owner before either writes; the later one takes the task, although
  `postgres_task_store.py:10-12` promises an error. `OwnedTasksKept` is about the saves that did
  not race in this way (`passed`).
* `list` of the Redis store removes ids from the index whose tasks it found gone; a task that was saved
  again meanwhile leaves the index too and is not listed until its next save (`overtaken`).
* The Redis store compares timestamps as strings: one of a whole second is written without a
  fraction and sorts after the fractions of that second, so that a page may skip a task.
  `ListingExact` is about tasks that were not moved behind the page (`steady.moved`).
* A host that goes down while the final events of a turn are merged leaves a task that is half of
  that turn and half of an earlier one. What the next turn is then given and shows of it is
  left open by `AnswersArriveOnce` (`kept.cut`).

## 4. Hazards

`PROJECT.json` lists what is hard to test in this code, at its lines, with the properties that cover it.
Two have none: the replaced entry of `running` (above), and a store that fails before the `try` of
the AG-UI route (`agui.ts:163`), where no document says what the client is to be told.

## 5. Proofs

The proofs hold for every value of the constants under the assumptions of the
module: finite sets where cardinalities are taken, `None`-like values outside the sets they
complete, positive limits. All follow one scheme: an inductive invariant in named parts (`IInv`, or
the name given below), `Init => IInv`, `IInv /\ [Next]_vars => IInv'` with one lemma or step per action,
and each property from `IInv`. The invariant is stated in the component's module or at the head of its
part of the proofs. Theorems about a part that has no run of its own are about `MCSpec` of its group:
they say the same of the part, since a step of the group is a step of the part or leaves it alone.

* **`HarnessProofs`**
  * The runtime: `IInv` adds to the
    types: `active` counts the calls inside; at most one field leads to a process, except while a
    failed invalidation puts its child back; every call knows whether its child is still that of a
    field; one call starts; the chain's state and the child's agree; the shutdown takes the child
    only when nobody is inside. `AtMostOneChild` alone is not inductive because the code never looks
    at processes: it looks at its fields, and the invariant is what ties the two. Theorems:
    `Invariance`, `TypeCorrect`, `SingleChild`, `OperationsSafe`, `NoProcessForgotten`, `OwnedSafely`,
    and `Refinement`: every step is a step of `SharedChild` or a stutter.
  * The scheduler (`SessionInv`): the tail of a session came after all its other unfinished jobs; what
    came before a job is released, or is the job it waits for, or came before that one; two unfinished
    jobs of a session are ordered. This turns a chain of single waits into the set `before`. Theorems
    `InOrder`, `MutualExclusion`, `TailsAndWaiting`, `Serialized`.
  * The limiter (`LimiterInv`): the slots in use are the jobs that are ready or running, waiters exist
    only when all slots are in use, and `ready \o waiters` is the order of arrival. Theorems
    `LimiterTypeCorrect`, `SlotsSafe`, `Fair`, `Exact`.
* **`RequestBridgeProofs`** — the map holds exactly the live turns, each under its session, and a request
  that is being dispatched keeps to the turn it was let in for. Theorems `TypeCorrect`,
  `TurnsSafe`, `ServedSafe`, `ReleaseSafe`.
* **`TurnExecutionProofs`** — a turn that is under way and was not cancelled has published no outcome
  (`EventsInv`); a bus is open only for turns under way, and for none of a task whose present turn
  was cancelled (`BusInv`); a turn that was alone since its beginning is the only one to have
  changed its task (`AloneInv`), which is what makes the last turn's content the one that is shown.
  For the form of a stream (`StreamInv`), a turn either has published nothing that ends it and
  `A2aProgress` knows what it has published, or its first "finished" stands after a well-formed stream,
  which nothing published later can change. Theorems `TypeCorrect`, `KeepaliveSafe`, `OneOutcome`,
  `LastTurnSafe`, `StreamsSafe`.
* **`TurnPartsProofs`**
  * Tracing (`TracingInv`): where a turn is tells how often its handler ran, whether its span is open and
    what was flushed; without keys the slot is never filled. The slot itself tells what has happened
    to others (`SlotInv`): with keys it is off only when somebody's start failed, on only when somebody holds
    a handle, and never unset again once a turn runs; so a call that lost its trace, or an
    untraced turn whose call has one, tells of two starts with different outcomes (`Excused`). Theorem
    `TracingSafe`.
  * History (`HistoryInv`): what was shown opens now, with the chats where they are and the slugs they
    have, which never change; that this is so when a path is shown is a lemma for every form of path
    (`NamesAssumption`, below). Theorem `PathsSafe`.
  * Files (`FilesInv`): the files of a turn are distinct and come from its request or its lists
    (`ScopeInv`); what was read ends the files before the present one, each with its text or a failure
    (`ReadInv`); what has been read of the present file is its text up to the end of the line that
    the next window begins after, and that line is not its last (`WindowInv`); every finished text
    satisfies the property, and the budget is what the texts have left (`TextsInv`). The heart is lemma
    `WindowRead`: a break and the lines of a window continue what was read without a gap. What filters
    keep is known from ranks (`RanksAreOnto`, `PickFacts`), without induction. Theorem `FilesSafe`.
  * The turns of the Python host. `EachTurnItsOwn` rests on `OwnInv`: the ids of the artifacts name
    turns that have been, so that an artifact is put at the end of the list unless its turn is
    completed, and then the task has ended for good; hence the last state in the list is the one saved
    last as long as the task goes on. `AnswerIsWhole` rests on `WholeInv`: while the drain works, what
    it has published is exactly the first `n` events, and what waits in the queue is exactly the rest,
    with the end behind it once the handler has returned; so the drain ends with everything published
    and the answer closed, and only then does the turn add its artifact. Theorems `TurnsOwnSafe`,
    `AnswerSafe`.
* **`TaskStoreProofs`**
  * Rows: the writers that may still overwrite an ended row are those whose check came
    before its end (part of `EndedTaskKept`), the cutoffs of a running cleanup lie as far back as its
    settings say (`CutoffInv`), and what is about to be saved is a row. Theorems `TypeCorrect`,
    `EndedTaskSafe`, `RetentionSafe`.
  * Schema (`SchemaInv`): a table that is somebody else's stays as it was found, and one that the service
    keeps gets no ledger (`TableInv`); how far a command is tells what the table is like, through
    every change that another command makes meanwhile (`Fits`). Theorem `SchemaSafe`.
  * The store of the Python host: that an owner keeps its tasks is inductive with the types (`OwnersInv`);
    a job that is past its look at the columns has found or made the table (`RelationInv`). Theorem
    `OwnedSafe`.
  * The lists in Redis (`ListInv`): a task that stayed as it was is in the index and not among the ids found
    gone (`SteadyInv`); it is on a page already or not before the task that the next page starts
    with, by the time that task has now and by the one the list has read, since no task has sorted down
    (`MovedInv`); and while nothing changes, what was given is in order and before the token
    (`QuietInv`). That a list of any tasks can be sorted is proved without induction: the place of a task
    is the number of those that are not behind it (lemma `SortedExists`). Theorem `ListingSafe`.
* **`OutgoingCallsProofs`**
  * The relay (`RelayInv`): the message names one task and is run once, on that task (`MessageInv`), and
    every answer on its way tells what the agent has done (`WireInv`), so that "no such task" is only
    ever received when nothing was run, and the retry is the first execution. Theorems
    `ExecutedOnceSafe`, `CancelsSafe`.
  * Tokens: a request that was started and not cleared is the pending one of its key,
    so two cannot be under way (`FlightInv`, `PendingInv`); what is cached has succeeded
    (`TokensInv`); who waits, waits for a request of its key (`CallerInv`); and a token has not
    expired while its request is pending or somebody still waits for it (`ClockInv`). Theorems
    `RequestsShared`, `NeverExpiredSafe`.
* **`HostRequestsProofs`**
  * Admission: a positive answer was true when its question was sent (`RequestInv`), so an
    entry of the cache ends at most a timeout and a lifetime after the key was revoked (`KeyInv`).
    Theorems `TypeCorrect`, `AdmissionSafe`.
  * Billing: what a fetch brings was the state of the account at some time since it was sent
    (`FetchInv`), so what the cache holds was so at most a timeout before it was stored (`CacheInv`);
    decisions and denials follow. Theorem `DecisionsSafe`.
  * MCP and skills: where a request is tells what it holds (`ReleaseInv`); while a question is open
    the stored marker names the skill that asked, or there is no state if it asked without one
    (`MarkerInv`), through errors on either protocol. Theorems `ReleasesSafe`, `AnswersSafe`.
* **`DeliveryProofs`**
  * The stream of an AG-UI turn (`StreamInv`): what the route remembers of a turn (what it has opened,
    whether it has ended) describes what it has written (`WellFormed`), event by event. For the state of a
    thread, what a turn has loaded and what others saved since is kept apart for turns that
    overlap (`ApartInv`). Theorems `StreamsSafe`, `FinishedSafe`, `TurnsBuildSafe`.
  * Artifacts (`ArtifactsInv`): a key that nobody chose names its turn and its bytes, in every request that
    was sent and on the shelf, so what a repetition is told is the artifact of the first one.
    Theorem `OneArtifactSafe`.
  * The pool (`PoolInv`): the service keeps one document of a content and one of a series
    (`DocumentsInv`), the series that uploads of a file have made have its content, so a repetition
    finds the one that is left (`UploadInv`), and no document that stayed in the pool and has the title is
    behind the cursor of a search (`LookupInv`). The last needs that a page that is followed by
    another holds all documents up to its last one (lemma `Pages`). Theorem `PoolSafe`.
  * What is said arrives (`ExchangeInv`): `Leads(x, b, y)` says that the events `b`, taken in one by one,
    bring the store and the caller from `x` to `y`. In a running turn the events on the bus lead from
    what both know now to the turn so far (`Now`), in a concluded one to its end (`End`): the task
    that `toTask` built, with what it clears, over what the turn streamed, over what the task held
    before (`OnTheWay`). The caller who streams sees the same without the last part, which is why
    both must find the same text and surfaces. The input is that of the task as it was (`GivenInput`),
    and between turns the store holds the state of the last complete turn and, until it is completed,
    no result (`KeptState`). That a filter or a concatenation of pieces yields what it should is known
    from ranks and from there being at most one piece that is not empty (`PickFacts`, `FlattenAt`),
    without induction. Theorem `AnswersArriveSafe`.

Assumptions that say more than which set a value lies in:

* `TokenAssumption`: a token lives at least twice as long as the request for it may take and
  the margin covers that time. With the 15 s timeout of the code this is every lifetime
  of 30 s or more; for a shorter one `NeverExpired` is not promised by the code either, as the
  lifetime counts from when the provider issued the token.
* `NamesAssumption`: the slug of a project is not the id or slug of another one, nor that of a chat
  of another chat, and an id of a chat is not one of the three anchors. The ids are UUIDs of the chat
  backend, which also keeps slugs unique; nothing keeps a slug from being an anchor, and the
  assumption does not either.
* `FilesAssumption`: a text has at least one line, if an empty one, its lines end one after the other,
  and more than one line is read of a file: the code reads up to 1000 windows of 200 lines.
* `TasksAssumption`: the ids of tasks are numbers in the order of the ids, and none is the number that
  stands for a request without a page token; a page has room for a task.
* `ResultsAssumption`: a result is its text and its files.
* `PagesAssumption`: a page of the pool is not empty while documents are left.
* `ExchangeAssumption`: the numbers of turns are not `None`; requests and outcomes have the shapes that
  the types of the code give them; and a handler that asks for input gives no id twice in a form, nor
  one of those that the host makes. The code checks neither (`ensureEnvelopeSurfaceIds` only fills
  in what is missing), and without it the ids of a form need not differ.
* `IdsAssumption`: the default skill is registered, which `registry.ts:58` enforces, and the model's words for
  no owner are no ids of skills.
* `StatesAssumption`: a state, named by its turn, is not the absence of one.

The greatest and the least element of a set of numbers (`LastState`, `FirstState`, `NextCursor`) come from the
well-foundedness of the numbers (lemmas `Least`, `Greatest`), without induction.

Only model-checked:

* everything about liveness and fairness, and what rests on ENABLED, which the prover does not handle.

## 6. What the modules leave out

Wording, logging, wire formats, A2UI and tool events of AG-UI, the checks
that refuse a request of the bridge before any state is read, the trimming of task history, replies
of remote agents that are a bare message, the ping of a silent stream, and the attributes of spans. None of them changes the
state that the properties are about. The parts of 1.2 are not modelled, for the reasons given there.
