# Formal models of microservices-ml-pipeline

TLA+ models of the services in this repository, TLC configurations that check
them on small instances, and TLAPS proofs of what holds for instances of any
size. Every definition is a translation of the source; `PROJECT.json` names the
lines ("map"), the runs, the mutants that show each property can fail, the
hazards the properties are for, and the theorems.

    tlc -config PipelineFaults.cfg MCPipeline.tla     # any run below
    tlapm PipelineProofs.tla                          # and the other *Proofs.tla

Sections 3 to 10 are the modules, 11 the proofs, 12 what is left out.

## 1. Inventory

| Component | State it keeps | Operations | Talks to |
|---|---|---|---|
| Query intake (`orchestrator/services/query_service.py`, `api/v1/run.py`) | a row of `queries` per request | `create_and_enqueue_task`: commit a PENDING row, build a task, push it, answer 202 | Postgres, Redis list `task_queue` |
| Redis queues and channels (`shared/messaging`) | lists `task_queue`, `result_queue`; channels `results:<user>` | `enqueue` (RPUSH), `dequeue` (BLPOP), `publish` (swallows exceptions), `QueueConsumer.run`, `RedisPubSub.publish`/`listen` | all services |
| ml_worker (`ml_worker/services/task_processor.py`, `worker/runner.py`) | the task it has popped | run the graph, push a result; exceptions become FAILED results | both lists |
| Result processing (`orchestrator/services/result_processor.py`) | the result it has popped, a session, an entity | fetch the row, check it is PENDING, `handle_result`, commit, publish to the owner's channel | Postgres, `result_queue`, channels |
| Postgres access (`shared/db`, `shared/repositories`) | sessions | `get_by_id`, `save` (select, then insert or update), commit, rollback | Postgres |
| Token service (`auth/services/auth_service.py`) | users, refresh tokens in lineages | register, authenticate, issue, rotate, logout | Postgres |
| Gateway (`gateway`, `shared/middlewares`, `shared/utils/proxy_helper.py`) | rate-limit buckets in Redis, HTTP clients | identify the caller, proxy to a service, limit rates | orchestrator, auth |
| Results WebSocket (`gateway/api/v1/websocket.py`) | one subscription per socket | subscribe, forward, stop | channels, browser |
| Browser (`frontend/static/app.js`) | chats, current chat, tokens, socket | send, switch, load histories and lists, log in and out, refresh tokens, reconnect | gateway |
| RAG graph and vector store (`ml_worker/services/rag_graph.py`, `infra/vector_store.py`) | graph state, collection | route, retrieve, generate; retry a node | Gemini, Chroma |
| Gemini adapter (`ml_worker/infra/gemini_adapter.py`) | chat history in Redis | read history, generate, write history | Redis, Gemini |
| Chat history (`orchestrator/repositories/query_repository.py`) | none | list chats, list messages, page | Postgres |
| Logging, configuration, error mapping, migrations | none a property could be about | | |

Behaviours that are hard to get right, and the properties that make each part
correct:

* **Pipeline** (intake, queues, worker, results). The same query is touched by
  a handler, a worker and a result consumer in three processes without a common
  transaction; each await can fail, be executed without the caller knowing, or
  never return because the process stopped; BLPOP forgets a message when it
  hands it out; the publisher hides failures; the consumer writes an entity it
  read several awaits before. Correct means: a message never outruns its row,
  one outcome per query, the owner hears what the database says, a query is
  stuck only when a failure dropped a message about it, and in the absence of
  failures every accepted request is answered.
* **Tokens**. Rotation and logout read and write a lineage without locks.
  Correct means: the links a logout follows are sound whatever overlaps, a
  lineage whose requests do not overlap has one usable token and none after a
  logout, nothing is un-revoked, one account per email.
* **WebSocket**. Publishing is fire and forget: what is published while nobody
  is subscribed is gone; the handler never reads the socket; the Redis client
  reconnects by itself. Correct means: nobody receives another user's results,
  the order of one user's results is kept, a subscription misses nothing but
  what went down with a connection, a dead socket does not stay for ever.
* **Browser**. Lists, histories, answers and results arrive in any order while
  the user switches chats, and a new list replaces the objects that callbacks
  still hold, while the sidebar keeps the old ids. Correct means: a message is
  shown in the chat it belongs to, a chat that is not loaded again shows all that
  came for it.
* **Gateway**. It gives up on requests that a service goes on with, shares few
  connections among all, counts in Redis. Correct means: its answers are never
  wrong about what the service did, a resend is not done twice, quotas hold,
  every request ends and can be traced.
* **Graph**. Two layers of retries and state that outlives a task. Correct
  means: bounded cost, sources that are the context of the text, an end.
* **Gemini history**. Read, extended and written back without a lock. Correct
  means: always a conversation that Gemini accepts, and nothing lost as long as
  the runs of a chat do not overlap.
* **Paging**. A list is several requests, a page several statements. Correct
  means: nothing that was there is skipped, and responses belong to states.

## 2. Plan

1. `QueryLifecycle` (what a query may ever do), `Pipeline` (how the services do
   it), `MCPipeline`, `PipelineProofs`. *Present.*
2. `TokenService` (registration, login, rotation, logout as concurrent
   requests), `MCTokenService`, `TokenServiceProofs`. *Present.*
3. `WebSocketBridge`, `MCWebSocketBridge`, `WebSocketBridgeProofs`, and
   `ResultDelivery`, which composes it with `Pipeline` and is proved about in
   `PipelineProofs`. *Present.*
4. `RagGraph`, `MCRagGraph`, `RagGraphProofs`; `InteractionHistory`,
   `MCInteractionHistory`, `InteractionHistoryProofs`. *Present.*
5. `ChatHistory`, `MCChatHistory`, `ChatHistoryProofs`. *Present.*
6. `RequestContract` (what an answer of a proxy may say), `GatewayProxy` (how
   the gateway keeps it), `MCGatewayProxy`, `GatewayProxyProofs`. *Present.*
7. `ChatView`, `MCChatView`, `ChatViewProofs`. *Present.*

Every safety invariant and every action property of the passing runs has its
theorem; what the prover cannot do is at the end of section 11.

## 3. Module Pipeline

### State and code

| Variable | Code |
|---|---|
| `handler[r]` | position of `create_and_enqueue_task` for request `r`: `new`, `committed` (line 77), `published` (line 94), then `accepted` (202), `error` (500), or `dead` with its process |
| `state`, `chat` | columns `state`, `interaction_id` of the row of `queries`; `absent` is no row |
| `responses`, `logs` | numbers of rows of `responses` and `logs` that refer to it |
| `taskQueue`, `resultQueue` | the two Redis lists, oldest first |
| `job[w]`, `produced[w]` | the local variables of `QueueConsumer.run` and `TaskProcessor.process` in worker `w` |
| `step[o]`, `inbox[o]` | the position of `ResultProcessor.process` in orchestrator `o`, and its argument |
| `published` | every result ever published to a channel |
| `lost`, `faults` | history: where a message about a request was dropped; how many faults there were |

A query is named after the request that creates it. A result carries the
query, user and chat of its task, a status, and whether its text (or error) is
non-empty, which decides if a response (or log) row is written.

### Actions

One action per await whose effect another process can see. The handler:
`CommitQuery` (the insert, the flush and the commit; `CommitQueryConflict` when
the unique index on `correlation_id` refuses it), `BuildTaskInvalid` (the
constructor of `TaskMessage` raises for an empty message, after the commit),
`EnqueueTask`, `Respond`. The worker: `TakeTask`, `RunTask` (any result the
runners can return), `PublishResult`. The consumer: `TakeResult`, `FetchQuery`
or `IgnoreResult`, `SettleQuery` (`handle_result` on the entity read before,
and the commit), `PublishToUser`. `FetchQuery` and `SettleQuery` are separate
because the session holds no lock in between: another consumer may settle the
row, and the write does not look at it again.

Failures, each charged to the budget `MaxFaults`:

| Action | Failure |
|---|---|
| `CommitQueryFails`, `ProcessResultFails` | Postgres fails; a COMMIT may have been executed although it raised |
| `EnqueueTaskFails`, `PublishResultFails` | RPUSH raises, executed or not, and `QueuePublisher.publish` hides it |
| `EnqueueTaskReplyLost`, `PublishResultReplyLost` | RPUSH is executed and resent by the client: two copies |
| `TakeTaskReplyLost`, `TakeResultReplyLost` | BLPOP pops the element and its reply does not arrive |
| `RunTaskRaises` | an exception leaves `process`; `task_wrapper` returns a FAILED result that the consumer loop drops |
| `PublishToUserFails` | PUBLISH raises after the commit, executed or not |
| `WorkerCrash`, `OrchestratorCrash` | the process stops between any two awaits (a kill, or the reload that `uvicorn.run(reload=True)` does) and is started again |

`RedisRetries` says whether the Redis client resends commands: this is decided
by the installed version of redis-py and its defaults, not by this repository,
so it is a constant and the runs use both values. Redis and Postgres keep what
they executed; a loss of Redis's memory is not modelled.

`Idle` lets the finished system stand still, so TLC's deadlock check remains
meaningful: a state where a handler, worker or consumer is stuck half-way is an
error.

### Properties

* `MessagesMatchRows`: no message outruns the commit of its row, and each
  carries that row's user and chat. This is why line 77 precedes line 94.
* `OneOutcomePerQuery`: duplicated tasks and results leave one response or log.
* `PublishedAgreesWithRow`: what an owner is told is what the row says, and one
  thing only.
* `NoSilentLoss`: a PENDING row has something on its way that can settle it, or
  `lost` names the failure; a settled row was or is about to be announced, or
  `lost` has `notify`.
* `SettledRowsFrozen` (action property): `transition_to` checks only the
  consumer's copy of the entity; this is what it means to ensure on the row.
* `LifecycleSpec`: refinement of `QueryLifecycle`, with `told` mapped from
  `published`.
* `AcceptedIsAnsweredOrLost` (liveness): an accepted request is settled and its
  owner told, unless a message about that very request was dropped by a failure;
  without failures nothing is ever dropped.

### Runs

| Run | Instance | Shows |
|---|---|---|
| `faults` | 3 requests, 2 workers, 1 orchestrator, client resends, 2 faults (1.4 million states) | all safety properties and the refinement in the deployment of `docker-compose.yml` |
| `replicas` | 2 requests, 2 workers, 2 orchestrators, no resends, 2 faults, fairness (43,000 states) | the unlocked read and write is safe with several consumers as long as nothing is duplicated; the loops survive failures, and only requests whose message was dropped stay unanswered |
| `enqueue_failure` | 2 requests, 1 fault | violation: a failed push is answered 202 |

Bounds. Three requests are two of one user in one chat, and one of another user
that repeats a correlation id and has an empty message: each special request
meets an ordinary one. Two workers suffice for every overtaking of tasks and
results, as they are interchangeable (`WorkerSymmetry`, used where only safety
is checked). A duplicate takes one fault, and so does what can go wrong with
each copy, so two faults reach all pairs: a duplicate whose second copy is lost,
a crash after a hidden failure, two duplicates. With two orchestrators *and*
resends, `OneOutcomePerQuery` does not hold (two consumers find the row
PENDING); this is not the deployment, and the theorems of section 11 assume that
there is one consumer or that nothing is resent, which are the two runs.

Fairness (`FairSpec`). Clients need not send anything and nothing has to fail,
so `CommitQuery`, crashes and their like have none. A handler, a worker or a
consumer that can take a step takes one: each is a coroutine that its event
loop resumes when its await is done, BLPOP with timeout 0 returns when the list
has an element, and after an exception the loop goes on after one second. Weak
fairness per process, on the disjunction of what its next await may do, is all
that is assumed; nothing is assumed about which of success and failure occurs.

### Finding

*A failed push is accepted.* `test_query_service.py:69` says a failure to
publish raises `TaskEnqueueFailed`; the test mocks `QueuePublisher`, and the
real one (`publisher.py:19`) logs and returns. Run `enqueue_failure`.

Also met: the docstring of `create_and_enqueue_task` lists enqueue before commit
(`query_service.py:61`); the code commits first, and is right: with the other
order a worker can answer before the row exists, which `MessagesMatchRows` is
about.

Also met, without a text that says otherwise: an empty message leaves a row
PENDING for ever (`BuildTaskInvalid`); nothing ever retries a PENDING row; a
FAILED result made by `task_wrapper` is never pushed.

## 4. Module TokenService

### State and code

| Variable | Code |
|---|---|
| `email[u]` | column `email` of row `u` of `users`; `None`: no row |
| `owner[t]`, `revoked`, `replacedBy[t]`, `expired` | columns `user_id`, `revoked_at`, `replaced_by`, `expires_at` of the row of `refresh_tokens` whose `jti` is `t` |
| `rejected` | the tokens whose claim `exp` has passed for `jwt.decode` |
| `issued` | the tokens that a client has received |
| `pc[h]`, `arg[h]` | how far request `h` is, and the email, user or token it works on |
| `cursor[h]`, `marked[h]` | `current_jti` and the dirty rows of `revoke_lineage` |
| `root[t]` | history: the token of the login from which `t` stems; the tokens with one root are a lineage |
| `loggedOut`, `overlapped` | history: lineages of which a logout committed; lineages that had two requests at a time |

### Actions

`RegisterCheck` and `RegisterCommit` are apart because the password is hashed
in between; the unique index decides. A login is `Authenticate`, `IssueTokens`
and `Reply`. A refresh is `Refresh` (decoding), `ReadToken` or `RefuseToken`,
`CheckExpiry`, then `RotateToken` (the new row, the revocation and the link in
one transaction) and `Reply`, or `ReloadExpired` and `RevokeExpired`. A logout is `Logout`, one
`VisitToken` per row of the walk, and `LogoutCommit`. `BreakOff` ends a request
at any await: before its commit nothing has happened, after it only the reply
is missing. `ExpireRow` and `ExpireClaim` let time pass; which comes first
depends on `JWT_LEEWAY_SECONDS`, as `exp` is `expires_at` cut to whole seconds.

Two details of the code carry weight. `get_by_jti` makes an entity of the row and
keeps nothing of it, and a session refers to unchanged objects weakly: so
`save` of an expired token reads the row again (`ReloadExpired`) and copies the
entity, whose `replaced_by` is `None`, over it (`RevokeExpired`). If a rotation
has committed a link since, the UPDATE cuts it, and a later logout with the old
token does not reach the new one. And the walk can run into a row that is being
rotated; the UPDATE of a dirty row comes last, so locks only order the commits.

### Properties

* `OneAccountPerEmail`: concurrent registrations.
* `ChainsAreSound`: links stay in one lineage of one user, start at revoked
  tokens, never join, never form a cycle, so the walk of a logout ends. This
  holds although concurrent rotations of a token overwrite each other's link.
* `RevocationIsForever` (action property): no revocation is undone, and a link
  once set changes only in a lineage of which two requests overlapped: written
  over by another rotation, or cut, if its token has expired.
* `OneLiveToken`, `LogoutEndsLineage`: a lineage has at most one usable token,
  and none after a logout with any of its tokens, an old one whose rotation
  was never answered included. Both are stated for lineages without
  `overlapped`: the rows are read without a lock, so two rotations of one token
  that run side by side each add a token, only one of which is linked; the code
  does not claim otherwise, and this is the exact condition under which it
  holds. Requests for other lineages, of the same user too, may overlap freely.

### Run

`tokens`: two requests of any kind at a time, one email, two rows for users,
three tokens, positive leeway, one broken-off request (959,000 states up to the
symmetry of handlers, users and tokens). Three tokens are a login and two
rotations, or two lineages; two requests are every pairwise overlap; two user
rows let a second registration of the email succeed if nothing prevents it. The
positive leeway is the case in which a row can expire while its token is still
accepted; the theorems cover both. Liveness is not stated: a request is a
finite sequence of awaits, and that the walk ends is `ChainsAreSound`.
Time may pass in every state, so the deadlock check says nothing here.

## 5. Modules WebSocketBridge and ResultDelivery

### State and code

| Variable | Code |
|---|---|
| `phase[s]` | position of `results_socket` for socket `s`: accepted, subscribed, waiting for Redis again, returned |
| `wire[s]` | the connection itself; `leaving` is closed by the browser and not yet noticed by the gateway's server |
| `user[s]` | what `validate_jwt` returned: the decoded user, or `anonymous` |
| `log` | history: every PUBLISH in the order Redis executed it |
| `pending[s]` | what Redis has pushed to the subscription and `listen` has not yielded |
| `received[s]` | what the browser got |
| `since[s]`, `dropped[s]`, `breaks` | history: when `s` subscribed, what went down with a connection to Redis, number of faults |

Messages are positions in `log`, so that two publications of one result differ.

### Actions

`Connect` and `ConnectRefused` (an invalid token is accepted and closed with
1008) also close the socket the page had before, as `connectWebSocket` does.
`Subscribe` comes later than the accept: what is published in between is not
heard. `Publish` pushes to the subscribers of that moment, `Forward` is one turn
of the loop, `SendFails` its end. `Leave` and `CloseArrives` are the browser's
side. Faults: `ListenFails` (an exception of the Redis client ends the handler),
`LoseRedis` and `Resubscribe` (the client reconnects by itself and goes on
without what it missed), `GatewayRestart`.

`ResultDelivery` is the product of this module and `Pipeline`: each executed
PUBLISH of a consumer is a `Publish` here, everything else interleaves.

### Properties

* `OnlyOwnResults`: on its way or arrived, a result in a socket is for the user
  whose token opened it.
* `OrderKept`: results arrive in the order of publication, each at most once,
  across reconnections to Redis.
* `NothingMissed`: from its SUBSCRIBE on an open socket has, or is about to
  send, all that its user is owed but what a fault dropped.
* `DeadSocketIsReleased` (liveness): a handler whose browser is gone, and that
  holds a result, returns. It cannot be said without that condition: the
  handler never reads its socket, so without results it stays for ever.
* `ShownAgreesWithRow`, of the composition: what a page is shown about a query is
  the state of its row, and the page is its owner's.
* `StoredIsShown` (liveness), of the composition: a page that goes on listening
  is shown the answer to a request that is stored, unless a message about it
  was dropped.

### Runs

| Run | Instance | Shows |
|---|---|---|
| `bridge` | two sockets of one page, a valid, an invalid and an anonymous token, 3 publications for 2 users, 2 faults (491,000 states) | the four properties of the bridge |
| `delivery` | 1 request, 1 worker, 1 orchestrator, resends, 1 fault of the pipeline, 1 of the gateway, 1 socket with either token, 2 publications (22,000 states) | the two of the composition |

Two sockets are a reconnection with a different token, that is, a login or a
refresh, while the old handler still runs. Three publications are two results
for one user with another's between them, or a result missed between two that
are not. Two faults are a lost subscription and a failure while resubscribing.
The other requests of the composition are independent of the one it has, and
`ShownIsRight` (section 11) covers any number. Either system may come to rest, so the
deadlock check is off.

Fairness: a handler that can go on does so, as a coroutine whose await is done;
a closed connection is reported some time, by its close frame, a reset, or the
server's pings. Nobody needs to publish, connect or leave.

## 6. Module RagGraph

### State and code

`dryRun` is chosen in `Init` (no key, or the setting); `store` is the collection
of the process, in memory; `todo`, `task` are the tasks of this worker; `node`,
`attempt` say which node LangGraph runs next and how often it has failed;
`graph` is `GraphState` without its texts, of which only "empty or not" remains;
`context`, `calls` are history: what was in the prompt, and requests to the
provider; `result` is the last result message.

### Actions

`SeedStore` (which may fail, is logged, and leaves the collection empty for
good), `StartTask`, one action per node (`RouteQuery`, `Retrieve`,
`GenerateGroundedAnswer`, `DirectChat`), `RetryNode` and `FailNode` for the
exceptions that leave a node, `Restart`. The router and the retriever catch
their exceptions, so only the answering nodes are retried. `Calls` is the other
layer: the model's client repeats a request by itself, up to `MaxRetries` times
each time a node runs.

### Properties and run

* `CallsBounded`: the layers multiply, and still a task costs at most
  `MaxRetries + MaxRetries^2` requests, and none in a dry run.
* `SourcesMatchContext`: the sources a result names are the documents in the
  prompt of its text: nothing from an earlier attempt, route or task.
* `EveryTaskEnds` (liveness).

Run `rag`: 3 tasks of which some are about the project, one document (the
repository has one), `MaxRetries` 3, 1 restart (18,000 states). Three tasks
let something be left over from one that failed and one that succeeded. Fairness
is that the event loop runs the node that is due (`WF(Work)`); the provider may
fail each time.

Also met: with a failed seeding or search the graph goes on along the `retrieve`
route and gives a "grounded" answer without context and sources
(`vector_store.py:90` and `:124`).

## 7. Module InteractionHistory

The conversation that `GeminiTextGenerator` keeps in Redis. `ml_worker/main.py`
does not use it at this commit (it runs the graph); the module is of the code as
it is written, for several workers.

`stored[c]` is the value under the key of chat `c`, a sequence of entries with
role and task; `phase`, `task`, `contents` are the local state of a run;
`status` is the result. `StartRun`, `ReadHistory` (GET, and the prompt
appended), `Ask` (Gemini), `WriteHistory` (SET with its expiry), `MockRun`;
`RunFails` is any exception that `InferenceRunner` turns into a FAILED result,
or the end of the process, with a SET that may have been executed all the same;
`ExpireHistory` is the key's expiry.

* `HistoryIsConversation`: whatever overlaps, fails or expires, the stored
  contents are whole exchanges of this chat, a prompt and then its own answer:
  what Gemini accepts.
* `SerialRunsAreKept`: read, extend and write back without a lock lose an
  exchange when two runs overlap; as long as none did, every completed run of
  the chat is in it, or expired with it. This is the exact condition under
  which nothing is lost, and the code makes no attempt to ensure it.
* `RecordedIsCompleted`: a failed run leaves no trace, unless what failed is
  the SET after Redis had executed it.

Run `history`: 5 tasks (one of them mocked), 2 workers, 2 chats, 2 faults
(62,000 states up to the symmetry of the workers). It takes three runs of a
chat to lose one by overlap and have another after it, and one of another chat
to see that it does not matter. No liveness: a run is three awaits. All tasks
may be over, so the deadlock check is off.

## 8. Module ChatHistory

`GET /api/chats` and `GET /api/chats/<id>/messages`: a request is several
statements (the count, the page, and for messages the responses of the page),
each of which sees what is committed when it runs. `rows`, `completed` and
`responses` are the tables; `CommitQuery` and `Settle` write them, rows in any
order, as `created_at` is the start of a transaction and not its commit.
`CountRows`, `ReadPage` and `LoadResponses` are the statements, `FirstTimes` and
`ChatRows` the sub-select and join of `get_chats_paginated`, `EffectiveLimit`
and `ReportedLimit` what `QueryService` and `PaginatedResponse` do with a limit.
The client that reads a list from page to page (`StartReading`, `NextPage`) is
external: `app.js` asks for the first page only.

* `NothingSkipped`: with OFFSET paging over a list that grows, what was there at
  the start is seen. Two exceptions are in the formula: an older first message
  can turn up and move a chat back, and a client that asks for more than the
  maximum and then advances by the `limit` of the answer skips rows, as that is
  its own parameter and not the one applied.
* `QuietReadIsExact`: when nothing changes, the pages are the list, once each
  and in order, and `total` is its length. The outer select of the chats does
  not look at the user; this is where that could go wrong.
* `CompletedHasResponse`: states and responses are read by different
  statements, and still no message is shown as completed without the response
  it has. It depends on the order of the two.

Run `chats`: 4 messages of 2 users in 2 chats, two of one user in one chat
around one of the other, limits none, at the maximum and above it, one reading
(422,000 states). Liveness is not stated: the client may stop anywhere.

## 9. Modules RequestContract and GatewayProxy

`RequestContract` is what a client may conclude from an answer: a success says
that the work is done, a refusal that it never will be, a failure says nothing,
and it is done at most once. `GatewayProxy` is how a request passes the gateway:

| Variable | Code |
|---|---|
| `stage[r]` | in the middlewares, before the global limiter, before that of the route, admitted, waiting for a connection, sent on, answered |
| `correlation[r]`, `traced[r]`, `sentAs[r]` | `scope.state.correlation_id`, and the header of the answer and of the request sent on |
| `used[b]` | the counter under key `b` in Redis |
| `open[b]`, `closed[b]` | history: the requests counted in the window of `b` that is open, and in each that is over |
| `connections` | the connections of the pool that are in use |
| `upstream[r]`, `done` | what the service is doing, and the work it has done |
| `answer[r]` | the status the client got |

`Arrive` is the middlewares in their order. `Count` and `OverLimit` are the two
limiters, `LimiterFails` a Redis that does not answer, `WindowEnds` an expiry.
The key of a counter (`BucketOf`) is fastapi-limiter's: what the identifier
returns, the place in `app.routes` of the route whose path *is* the path of the
request, and the limiter's place in that route; 0 where the route's path has a
parameter, as it is compared with the path of the request. So the global limiter
counts the routes without a parameter each for itself and the others together
(`PlaceOf`), and the limiter of runs, with the default identifier, counts the
runs of each pipeline for itself (`PathOf`). The script lets the first request
of a window through whatever the limit (`Allowed`).

`Validate` is the body, of the routes that have one (the framework parses it
before the limiters and the endpoint validates it; the model does both here,
which changes no counter a client could tell). `Send`, `NoConnection`, `Forward`
and `GiveUp` are `proxy_request` with its timeouts. `Respond` is the service,
which goes on after the gateway has given up, and which for runs refuses a
second row with the same correlation id (`Conflicts`). `Restart` cuts off
everything in progress.

* `ContractKept`: the refinement of `RequestContract`. A timeout or a restart is a
  failure and never a refusal.
* `AnswersAreTraceable`: an answer names the correlation id the service worked
  under; only an unhandled exception is answered without one, since Starlette
  answers it outside of all middlewares.
* `ResendIsNotRepeated`: a client that sends a run again with its correlation id,
  not knowing what became of it, does not get it done twice.
* `QuotaHolds`: what a service gets has been counted by each limiter of its
  route, and of the requests counted in one window of a counter it gets no more
  than the limit, though they wait for the other limiter and for a connection
  and may be sent on when the window is over.
* `EveryRequestEnds` (liveness): with services that never answer.

Run `gateway`: a run request, its resend, and a request for messages, each with
any of three tokens; one address, global limit and limit of runs 1, one
connection, 1 fault (191,000 states). All three requests have a parameter in
their path and share the global counter, so every limit is less than what is
asked for. (With a global limit of 2 it passes too, with half a million states;
`QuotaAlwaysHolds` covers every limit.) `JWT_PUBLIC_PATHS` contains "/", a
prefix of every path, so all routes are public. Fairness: a request goes on when
its await is done, and its timeouts pass; services, windows and faults have
none. All requests may be answered, so the deadlock check is off.

Run `shared_quota` (finding): the third request is for the list of chats, whose
path has no parameter. `rate_limiter.py:14` says that all routes share the key
of an address; two runs and the list are let through at one time although the
global limit is 2, as the key has the place of the route in it.

Also met: `status_error_map` and its default turn 500, 502, 503 and 504 of a
service into 502 (`proxy_helper.py:62`), where `gateway/README.md:95` says that
answers are passed on as they are.

## 10. Module ChatView

A page of `app.js`. Callbacks run to completion between two awaits, so a step is
what a click, an answer or a message of the socket runs.

| Variable | Code |
|---|---|
| `obj`, `made`, `chats`, `current` | the chat objects ever made, and the array `chats` and `currentChatId`; `loadChats` makes new objects while callbacks hold old ones |
| `sidebar` | the ids in the `onclick` closures of the list that `renderChatList` made last |
| `obj[o].cache`, `dom` | `cleanHtml` of a chat, and what `cleanOutput` shows, as sets of messages |
| `load` | the history request of `historyAbortController` |
| `list[k]` | the calls of `loadChats` |
| `target[q]` | the chat captured by `btnRun` before its await, or 0 if there was none |
| `home`, `status` | the `interaction_id` a request was sent with or was given, and what the services did about it; `failed` is a result without a text, which `logToClean` does not show |
| `loggedIn` | is there a token? |
| `due` | history: results the page got and should still show |
| `astray` | history: a dropped chat was chosen, and none has been shown since |

`SwitchChat`, `SwitchToDropped`, `CreateChat`, `Run`, `Clear`, `Login`, `Logout`
and `LoadChats` are clicks and the inactivity timer; `Show` is the part of
`switchChat` that runs before its await, and what calls it. `HistoryArrives`,
`HistoryFails`, `ListArrives`, `ListEmpty`, `RunArrives` and `Push` are what
comes back. Histories and lists are one page each (`FirstPages`): `app.js` sends
no limit, so the services give the 20 oldest messages and the 20 newest chats;
which ones these are is a choice.

What the code does here that one would not expect, and the model therefore does:

* `loadChats` replaces `chats` at once, but the sidebar is rendered only at the
  end of a `switchChat` (`app.js:324`), after its await, and not at all when that
  returns early. Until then a click on a chat that was dropped makes its id
  current and returns at `app.js:263`: the former chat stays on the page under
  the new id (`SwitchToDropped`, `astray`).
* A request sent while no chat has the current id, before the first list or
  after such a click, is not of any chat, and its answer is logged to the chat
  that is current when it comes (`"stray"`).
* A history that arrives makes the chat count as loaded, though it is one page
  and what is not on it is never asked for.

The properties say what holds all the same:

* `ChatsDoNotMix`: while no dropped chat has been chosen, the page shows only
  messages of the chat chosen, whatever answer comes when; and a chat that counts
  as loaded, whose view is shown again without being asked for, keeps only its
  own even then. Only stray answers may be anywhere.
* `LoadingEnds`: a chat counts as loading, so that its view is not saved,
  exactly while its history is on the way, however requests are aborted.
* `LoadedIsComplete`: a chat that is not asked for again shows every result with
  a text that came for it. The exceptions are in `due`: the user cleared it; it
  came while an older history was on its way, which then replaces it; or the
  history that came after it is a full page without it (`BeyondPage`).

Run `view`: 2 queries, one of them older than the page, 3 conversations, 4 chat
objects, 2 lists, and pages of 1, so that a history can leave out a query and a
list a chat (2.0 million states). Four objects are a list, two created chats, and
the second list. That a list brings the chosen dropped chat back takes a third
list and is only proved. No liveness: the user need do nothing, and requests may
fail.

Also met: a list of chats asked for before a logout arrives after it and brings
the chats of the former user back (`app.js:506` clears the memory); a `GET
/chats` that fails replaces all chats by an empty one; a result that comes after
a load of its chat may be shown twice; the page never refreshes its tokens by
itself.

## 11. Proofs

`PipelineProofs` proves, for any sets of requests, workers and orchestrators
and any number of faults, from `PipelineAssumption` (the types of the
constants) alone:

| Theorem | Statement | Argument |
|---|---|---|
| `TypeCorrect` | `Spec => []TypeOK` | each process separately, from lemmas (`HandlerEffects`, `WorkerEffects`, `ConsumerEffects`) that say what its steps do to each variable |
| `MessagesAlwaysMatchRows` | `Spec => []MessagesMatchRows` | inductive with the conjunct that a handler about to enqueue has a row (`MessageInv`); rows are never removed |
| `NothingIsLostSilently` | `Spec => []NoSilentLoss` | each step hands a message on, settles its query or records the loss; needs `OneAtATime`: a worker never holds a task and a result at once, or `RunTask` would overwrite a result |

and under the assumption `SingleConsumer \/ ~RedisRetries`: at most one process
consumes results, which is what `docker-compose.yml` deploys, or the Redis
client never resends a command, however many consumers there are:

| Theorem | Statement |
|---|---|
| `OneOutcome` | `Spec => []OneOutcomePerQuery` |
| `OwnersHearTheOutcome` | `Spec => []PublishedAgreesWithRow` |
| `SettledRowsStayFrozen` | `Spec => SettledRowsFrozen` |
| `ImplementsLifecycle` | `Spec => LifecycleSpec` |
| `ShownIsRight` | `DeliverySpec => []ShownAgreesWithRow`, of `ResultDelivery` |

The first four share the invariant `OutcomeInv`. Neither property is inductive:
`SettleQuery` writes without looking, so one must know that a fetched entity is
still as the database has it, and that a committed result is the first one for
its query to be published (`ConsumerInv`). The assumption is needed there, as
another consumer could settle the row in between: `NoRivals` says that no two
consumers are about to settle or announce the same query. With one consumer
that is obvious; without resends it follows from `OnePlaceInvariant`: a request
has at most one message, and that is in one of six places (a handler that is
about to push, the task list, a worker's job, a worker's result, the result
list, a consumer), as every step takes it out of one place before it puts it
into the next. Every step is then one of four (`RowStep`: none, insert, settle,
announce), and each of these maps to a step of `QueryLifecycle`.

For `ShownIsRight`, the composition is a behaviour of each of its parts, so the
theorems above and, through INSTANCE, those of `WebSocketBridgeProofs` apply;
what links them is that everything in the log was published by a consumer.

`TokenServiceProofs` proves, for any numbers of handlers, users, tokens and
faults, from `TokenAssumption` alone:

| Theorem | Statement | Argument |
|---|---|---|
| `TokenTypeCorrect` | `Spec => []TypeOK` | together with `RowInv`: what a request refers to has a row, and its walk stays in its lineage |
| `AccountsAreUnique` | `Spec => []OneAccountPerEmail` | only `RegisterCommit` writes `users` |
| `LinksAreSound` | `Spec => []ChainsAreSound` | a rotation links to a token that is new, hence is linked to by none and links to none |
| `RevocationLasts` | `Spec => RevocationIsForever` | `RowEffects`: every step keeps the rows, opens a lineage, rotates a token or cuts a link; without overlap a rotated token has no link yet, and none is cut (`CutIsOverlapped`) |
| `OneUsableToken` | `Spec => []OneLiveToken` | `SerialInv` |
| `LogoutIsFinal` | `Spec => []LogoutEndsLineage` | `SerialInv` |

`SerialInv` is about lineages without overlap and joins six facts none of
which is inductive alone: one request at a time, what a request has read is
still so, no link is about to be cut, the lineage has one unlinked token, a walk
that is over has seen every usable token, and the goal. A usable token is unlinked because a link
starts at a revoked token (`LinkInv`); a rotation replaces exactly the unlinked
token because what it read is still so.

`WebSocketBridgeProofs`, for any sockets, pages, tokens, results and numbers of
publications and faults, from `BridgeAssumption`:

| Theorem | Statement |
|---|---|
| `BridgeTypeCorrect` | `Spec => []TypeOK` |
| `SocketsCarryOwnResults` | `Spec => []OnlyOwnResults` |
| `OrderIsKept` | `Spec => []OrderKept` |
| `NothingIsMissed` | `Spec => []NothingMissed` |

The three share `BridgeInv`: what a socket holds is owed to it, increasing, and
below the next position of the log, and what a subscription is owed is in one of
the three places. None is inductive alone: order rests on positions being in the
log, ownership on the user not changing after the subscription.

`RagGraphProofs`, for any tasks, documents, retries and restarts, from
`RagAssumption`:

| Theorem | Statement | Argument |
|---|---|---|
| `RagTypeCorrect` | `Spec => []TypeOK` | with `BusyInv`: there is a task exactly while a node is due |
| `RetriesAreBounded` | `Spec => []CallsBounded` | `CallsInv`: while answering, calls are at most `MaxRetries` for the route and `MaxRetries` for each attempt so far |
| `SourcesAreTheContext` | `Spec => []SourcesMatchContext` | `SourceInv`: between the nodes, documents and sources agree |

`InteractionHistoryProofs`, for any workers, tasks, chats and faults, from
`HistoryAssumption`:

| Theorem | Statement | Argument |
|---|---|---|
| `HistoryTypeCorrect` | `Spec => []TypeOK` | |
| `HistoryStaysConversation` | `Spec => []HistoryIsConversation` | the local list of a run is a conversation, followed by its prompt or whole exchange, at each of its awaits |
| `RecordedHasCompleted` | `Spec => []RecordedIsCompleted` | what a run has read besides its own task was in a history, hence completed; completed stays completed |
| `SerialRunsStay` | `Spec => []SerialRunsAreKept` | in a chat without overlap one run is under way, and it still holds what is stored |

`ChatHistoryProofs`, for any queries, users, chats and limits, from
`HistoryAssumption` (of which it needs that no two rows have the same
`created_at`: the order of two such rows is Postgres's choice, for each
statement anew):

| Theorem | Statement | Argument |
|---|---|---|
| `ChatHistoryTypeCorrect` | `Spec => []TypeOK` | the tables are finite, `TypeInv` |
| `CompletedComesWithResponse` | `Spec => []CompletedHasResponse` | a response, once committed, stays, and is committed with the state (`ResponseInv`) |
| `NothingIsSkipped` | `Spec => []NothingSkipped` | `AheadInv` |
| `QuietReadsAreExact` | `Spec => []QuietReadIsExact` | `ExactInv`: the pages so far are the first elements of the list |

A list is a set sorted by a key (`SortedBy`); `SortedElements`, `SortedOrder`
and `SortedGrows` say that it has each element of the set once, in the order of
the keys, and that an element only moves back when the set grows. They rest on
ranks: that each of 1 to n is the rank of an element (`RankIsTaken`) is an
injection between finite sets of the same size, not an induction. `AheadInv`
says that what was there at the start and is not yet seen is, in the list as it
is now, behind all that was passed over. A row that turns up can push it further
back and never to the front of `skip`, except in the list of chats, where an
older first message replaces a chat's row (`"moved"`).

`GatewayProxyProofs`, for any requests, addresses, limits and faults, from
`GatewayAssumption`:

| Theorem | Statement | Argument |
|---|---|---|
| `GatewayTypeCorrect` | `Spec => []TypeOK` | |
| `AnswersStayTraceable` | `Spec => []AnswersAreTraceable` | a request is sent on with the id it keeps |
| `PoolIsNeverLeaked` | `Spec => []NoConnectionLeaks` | also what bounds the requests in progress |
| `ResendsAreNotRepeated` | `Spec => []ResendIsNotRepeated` | runs done have different correlation ids (`UniqueRuns`), and a request is sent on under its header's |
| `KeepsTheContract` | `Spec => ContractKept` | a refusal is given before a request is sent or repeats one by the service, a success only repeats one |
| `QuotaAlwaysHolds` | `Spec => []QuotaHolds` | a window has at most as many requests as its counter says (`WindowInv`), and what has passed a limiter stays in one of its windows (`PassedInv`, `CounterStep`) |

`ChatViewProofs`, for any conversations, queries, objects and lists, from
`ViewAssumption`:

| Theorem | Statement | Argument |
|---|---|---|
| `ViewTypeCorrect` | `Spec => []TypeOK` | together with the next two |
| `ChatsNeverMix` | `Spec => []ChatsDoNotMix` | objects not made yet are blank, a history on its way and a captured object belong to their conversation, ids are those of objects made, and while the page is astray no loaded chat is chosen and no history on its way (`MixInv`); `ShowKeeps` says it of `switchChat`, for whoever calls it |
| `LoadingAlwaysEnds` | `Spec => []LoadingEnds` | inductive with the types |
| `LoadedAlwaysComplete` | `Spec => []LoadedIsComplete` | `FullInv` |

`FullInv` joins to `LoadedIsComplete` what keeps it when the chat shown changes,
when a list makes new objects and when a history replaces a view: the chats of
the page are of different conversations, so a result is put into the one it is
due in; while a history is on its way no chat of its conversation counts as
loaded; a due result is in the history on its way, once that is answered, or
beyond its full page; and nothing is due to a page without a token, as the
memory is cleared.

Only model-checked: liveness under fairness, which the prover cannot do (it has
no rules for `ENABLED`): `AcceptedIsAnsweredOrLost`, `DeadSocketIsReleased`,
`StoredIsShown`, `EveryTaskEnds`, `EveryRequestEnds`. That two consumers and
resends together break `OneOutcomePerQuery` is why the assumption cannot be
dropped.

## 12. Not modelled

* What texts say: prompts, answers and documents are their identity, or empty or
  not; what the router and the search decide about them is a choice.
* Serialisation of messages: both ends use the same schema, so the branch
  `ValidationError` of the loop is not reachable from this code's own messages,
  nor are the branches for a missing or malformed `query_id`.
* Loss of data by Redis and Postgres, and the connection pool of the latter.
* In the gateway: CORS preflights, the health check, clients that disconnect.
* In the browser: the raw view, toasts, `/auth/me` and the button that refreshes
  tokens, which log to the chat shown; requests of anonymous users; styling and
  the server of its files.
* Logging, configuration, error mapping other than the gateway's, migrations:
  there is no state in them that a property could be about.

`PROJECT.json` has the status of each component.
