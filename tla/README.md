# Codebase RAG in TLA+

Codebase RAG ingests a git repository (clone, chunk, embed, store in Qdrant)
through Celery workers and answers questions about it through an agent with a
retrieval tool and a semantic answer cache.  This directory holds TLA+ modules of
its core logic, TLC configurations that model-check them on small instances, and
proofs for TLAPS.  Paths below are relative to `src/src/backend/` unless they
start with `src/`.

    tlc -workers 2 -config ingest_core.cfg MCIngestion.tla
    tlapm ChatProofs.tla

Which run uses which module is in `PROJECT.json`, as is the source line of every
definition that models code ("map").

## 1. The system

| Part | State it keeps | Operations | Talks to |
| --- | --- | --- | --- |
| Status store (`storage/`) | one record per repo: status, attempt id, error, progress, `updated_at`, TTL | `get`, `create_if_absent`, `update`, `update_if_attempt`, `iter_records` | every part below |
| Ingestion requests (`api/routes`, `api/core/dependencies.py`) | none of its own | `create_repo` (`start_ingestion`, `enqueue_ingestion`), `get_repo` (`get_status`) | store, broker, cache, admission limiter |
| Queue and workers (`worker/`) | queued and unacknowledged messages, the task in progress | `ingest_repo_task`, `on_ingest_task_failure`, delivery, acknowledgement, redelivery | store, pipeline |
| Pipeline (`ingestion/ingest_pipeline.py`) | the run's chunks and batches | clone, chunk, embed-and-store stages, progress reports | cloner, loader, chunker, embeddings, Qdrant, `on_progress` callback |
| Vector store (`embeddings/qdrant_store.py`) | the repo's points | `upsert`, `delete_repo`, `ensure_collection`, search | pipeline, retrieval |
| Chat (`RagWorkflowFacade.chat`) | requests in progress | admission by status, session, cache lookup, agent run, cache store | store, registry, cache, limiter |
| Agent registry | runners per repo, sessions per runner | `get`, `expire_idle_sessions`, eviction | chat |
| Semantic cache (`caching/`) | answers in two scopes per repo | `lookup`, `store`, `invalidate` | chat, `start_ingestion` |
| Limits (`api/core/concurrency.py`, `rate_limit.py`, `utils/rate_limiter.py`) | free LLM slots; request windows; one Redis counter per second for OpenAI | `slot`, `hit`, `acquire`, `acquire_async`, retry with backoff | chat, requests, embeddings |
| Chunker (`chunking/chunker.py`) | the batch, the worker pool, what is recorded and failed | `chunk` with its fallbacks and heartbeats | loader, pipeline, a subprocess |
| Tracing (`codebase_rag_agent/tracing.py`) | a bounded table of open runs | six callbacks of the agent framework | LangSmith |
| Retrieval, evaluation, loader | none | reads and pure transformations | pipeline, agent |
| Frontend (`src/src/frontend`) | the view, the active repo, the record shown, chains of polls | submit, poll, retry, start over, ask | the API |

How they interact: a POST creates or resets the status record under a fresh
*attempt id*, drops the repo's cached answers when it was a reset, and publishes a
message carrying that id.  A worker takes the message, runs the pipeline, and
writes progress through `update_if_attempt`, so that a record that has moved on
to another attempt stops the run.  Readers poll the record; chat is allowed while
it is `ready`.  A record that is in flight and has not been written for too long
is given up on by whichever reader notices.

What is hard here:

* several processes (API threads, prefork children, whole workers) read a record,
  do something slow, and write it later; the attempt id is the only thing that
  connects a run to its record, and nothing connects it to its points in Qdrant;
* messages are redelivered, processes die between any two steps, a publish or an
  EXEC may succeed and still raise;
* chat reads the status once and then awaits five times, while the repo may be
  reset, cleared and re-ingested;
* the key of a cached answer is computed from a session that other requests and
  the idle sweep change; the session's events outlive a re-ingestion of the repo;
* the chunker's parser may hang, die or raise in a subprocess, and the soft time
  limit may strike in the middle of a handler that catches everything;
* every process counts its OpenAI calls in one Redis key per second, over a Redis
  that may be slow or gone;
* several workers may find the shared collection missing at the same time;
* a browser's answers may arrive after what they were asked for is gone.

What makes each part correct: a store call takes effect in one step; one
submission in a race starts one ingestion; a record never stays in flight for
ever, a final one changes only by resubmission, and `ready` means the index holds
this attempt's complete code; no cached answer is older than what its question
was admitted under, and first turns share no conversation; every slot comes back;
a chunk stage that returns has lost no file and left no process; no second
admits more calls than its share, and no call waits for ever; a store writes only
into a configured collection with its tenant index; a session is found by the next
turn; no traced run is forgotten; the browser opens the chat of the repo that is
ready, and no other.  Not all of that is kept: section 3 lists what the runs refute.
`PROJECT.json` ("hazards") lists, at their lines, the places where these can go
wrong and the properties aimed at each.

## 2. The modules

    StatusStore  <--implements--  RedisStatusStore
        (atomic store, the assumption of Ingestion)

    RepoLifecycle  <--implements--  Ingestion
        ^ used by                       | its stages in detail
      Chat                              v
        | in detail                 Chunking, RequestBudget, QdrantCollection
        v                           (MCIndexing, with Frontend, which polls
    AgentRegistry, Tracing           the record)
    (MCAgents)

| Module | What it is |
| --- | --- |
| `StatusStore` | abstract: one key, each operation one step between call and answer (`InMemoryStatusStore`, and the promise of the interface) |
| `RedisStatusStore` | the same calls as Redis commands: GET, SET NX, WATCH, GET, MULTI/SET/EXEC; expiry; a lost EXEC reply |
| `RedisStatusStoreProofs` | its invariants and the refinement, proved |
| `Chunking`, `ChunkingProofs` | the chunk stage of one ingestion: selection of files, batches, worker pools, retries, heartbeats, the time limit |
| `RequestBudget`, `RequestBudgetProofs` | the OpenAI budget shared by processes, and the backoff around the calls |
| `QdrantCollection` | several stores create and configure the one collection |
| `AgentRegistry` | the runners kept per repo and the sessions inside them |
| `Tracing` | the callbacks of an agent run and the bounded table of open runs |
| `Frontend` | the browser from the form to the chat |
| `RepoLifecycle` | abstract: the record's life and whose points are in the index |
| `Ingestion` | requests, queue, workers, pipeline, vector store, time |
| `IngestionProofs` | its type correctness and six safety properties, proved |
| `IndexProofs` | the index of a ready repo proved complete, final records proved to stay, and the refinement of `RepoLifecycle` |
| `Chat` | concurrent chat turns on one repo with sessions, cache, slots, and the invalidation, over `RepoLifecycle` |
| `ChatProofs` | its type correctness and safety properties, proved |
| `MCStore`, `MCIngestion`, `MCChat` | instances for TLC: the calls made, symmetry |
| `MCIndexing`, `MCAgents` | instances of several modules without common state: a variable `part` chooses at the start which one a behaviour follows, and the others rest. A step of one changes nothing another reads, so interleaving them would add states and no behaviours of any one of them |
| `IndexingProofs` | the collection's and the browser's properties, and that `MCIndexing` is its four parts side by side, proved |
| `AgentProofs` | the registry's and the table's properties, proved, after lemmas on bounded sequences with one entry for each key |

An operator introduced by the comment `Faulty:` is no part of any specification.
It is the neighbouring definition with a plausible mistake in it; replacing the
one by the other must break the property `PROJECT.json` pairs it with
("mutants"), which shows that the property depends on that code.

### RedisStatusStore

`record` is the key's value, `phase[c]` the next command of caller `c`, `seen[c]`
the record its last GET returned, `dirty[c]` the flag Redis keeps for a watching
connection: raised by any write or expiry of the key, it makes EXEC fail.
`SetNX`/`GetExisting` are `create_if_absent` with its loop, `Watch`, `GetWatched`,
`Exec`, `ExecAborted` are `update_if_attempt` with its retry, `GetToUpdate`,
`SetUpdated` the unguarded `update`.  `ExecReplyLost` is what redis-py does when
the connection drops after EXEC ran: the pipeline was watching, so it raises
`WatchError`, and the loop tries again.

The refinement maps every unfinished phase to "called" and leaves the rest alone;
the operation takes effect at SET NX, EXEC, or the GET that ended the call.

### Ingestion

`record` is the status record without its text; `stale` says whether it has aged
past the threshold of `is_abandoned`.  Attempt ids are numbered as drawn, which
gives "fresh" a meaning; 0 is none.  `client[r].pc` names the next store or broker
call of a request, `run[w].pc` the next status write, slow stage or Qdrant call of
a task.  `points[b]` is the attempt whose upsert last wrote batch `b`: point ids
depend on the chunk and not on the attempt.

One action is one call between two awaits or two remote operations:
`Submit` / `CreateIfAbsent` / `Reset` / `Enqueue` (or `EnqueueRaises`,
`FailUnqueued`) are `create_repo`; `Poll` / `MarkAbandoned` are `get_status`;
`Check` to `Leave` are the task and the stages it runs; `WriteFailed`,
`TaskFailure` and `FailCrashed` are its three ways to report a failure.

Which faults an instance allows is the constant `Faults` (see `FaultKinds`); dying
workers are always possible, up to `MaxCrashes`.  Without "slow step" the model
assumes what `utils/config.py:285-313` sets the timeouts for: an unacknowledged
message does not come back while its run is alive, and a record that somebody
still owns does not age past its threshold.  `Owned` writes that down.

### Chat

Each `pc` of a request is an await of `RagWorkflowFacade.chat`: `Ask` (status
read), `OpenSession` (idle sweep, then get or create the session, and the previous
question that keys the turn), the lookup, the slot, the agent run with any
number of retrievals, the store.  An answer is not text but what it depends on:
`sources`, the attempts whose code it is drawn from, and `context`, the
questions the agent saw.  A session keeps its questions (`history`) and the code
its events hold (`code`): what its turns retrieved, and what cached answers
appended to it were drawn from.  An agent run starts from all of it
(`StartAgent`), and nothing but the end of the session takes it away; in
particular no re-ingestion does.  `admitted` and `stored` are history fields for
the properties.  `Clear` runs once per scope, as `invalidate` does; between `Reset` and
the end of clearing no task of the new attempt can run, because nothing is
published yet.  `SharedSessions` says whether two requests may name one session at
the same time.

### Chunking

`stage` is the next step of `ASTCodeChunker.chunk` under `chunk_stage`; a batch goes
to the pool as one job (`BatchDone`, `BatchFails`), and what its files do to the
native parser (`parse`: clean, empty, crash, hang, raise) decides how the job ends
(`Endings`, `JobEnds`).  `RetryFile` is one file of a failed batch, on a replaced
pool after a hang or a crash.  `recorded` and `failed` count what is added to
`run.chunks` and to `stats.failed_files`; `silent` counts time without a report in
units of the per-file timeout.

Two clocks may end the stage, and neither says anything of the other.  `TimeUp` sets
`late`, after which `check_timeout` raises at the next report.  Celery's soft time
limit, which only a prefork pool enforces, counts from the acceptance of the task
and is raised once (`struck`), wherever the stage is: `SoftLimitRaised` ends it, while
a limit that strikes inside a `try` with `except Exception` (`chunker.py:394, 475`) is
taken for an error of the parser.  The worker is then not replaced and may be
working on the `interrupted` files still; the next job waits behind them
(`QueuedEndings`).

### RequestBudget

`at[c]` is where a caller is between `acquire` and the end of its call.  A second's
Redis key is known by its age; `Tick` ages the keys, expires them and runs timers
down, and a timer that has run out is served before the next tick.  A Redis call
counts against the second in which it was begun, may reach Redis up to `RedisTime`
later, and may lose its answer; `handed[k]` counts the slots given of the second k
seconds ago, whichever key counted them.  A failed Redis call makes its process skip the
budget for `DownTime`.  `used` saturates above `per_second`, from where all counts
read alike.  `Refusal` is `execute`'s handling of a rate limit error.

### QdrantCollection

One step per call of `ensure_collection` and `sync_hnsw_config` to Qdrant, each of
which may fail, or be done and fail its caller all the same.  An error answer
(`UnexpectedResponse`) to one of the two creating calls sends the store to ask
whether the collection exists; anything else leaves the method.

### AgentRegistry and Tracing

In `AgentRegistry`, a turn holds a runner between `get_runner` and the end of its
run; a miss builds outside the lock, and `SetDefault` is the second half under it.
The in-memory session service never suspends, so the sweep and the session that
a turn opens are one step (`OpenSession`).  In `Tracing`, the agent framework calls the
callbacks in its order, skips the "after" ones of what raised, and runs the tool
calls of one answer concurrently; `run[r]` is what LangSmith knows.

### Frontend

`poll[n]` is the chain of polls that the n-th run of the panel's effect started:
asking, answered (the answer is on its way), waiting for its timer, ended; a
cleanup sets `cancelled` and stops a timer, but not a request.  React commits a new
view and cleans up the old component's effects in one step.  The server is
`RepoLifecycle` reduced to absent, running, ready and failed, with a count of
changes that tells an older record from a newer one.  The double effect of
StrictMode is left out (development only), as are forced re-ingestion and expiry
of a record under a browser that has seen it.

## 3. What the runs check

Passing runs (each property has a mutant that breaks it):

| Run | Instance | Shows |
| --- | --- | --- |
| `store_atomic` | 2 callers, 3 attempt ids, expiry | the Redis store implements the atomic one; of two concurrent retries one wins; a lost create returns a record |
| `store_progress` | 2 callers, all calls incl. `update`, lost replies, expiry, fairness | an intact WATCH means the read record is still stored; the two retry loops never livelock the store |
| `ingest_core` | 2 requests, 2 workers, 3 submissions, 2 deaths, 2 batches, forced re-ingestion, prefork | ready means complete; one run per attempt; one starter per record; a pending record has an owner; final records stay; the record follows `RepoLifecycle` |
| `ingest_settles` | 2 requests, 1 worker, 2 deaths, API crashes, store and late errors, ambiguous publishes, slow requests, expiry, fairness | every ingestion ends; a record given up on stays failed; progress stays within its total |
| `chat_core` | 2 requests, 2 sessions, 2 questions, 3 turns, 2 attempts, 1 slot, failing cache | nothing cached before a reset is left when the retry may run; a turn retrieves no code older than its admission; first turns are context-free; slots add up |
| `index_stages` | chunks: 3 files in batches of 2, two languages, every way to fail, both time limits; budget: 1 worker and 1 turn in two processes, one slot per second, Redis calls of up to 2 s; collection: 3 writers; browser: 2 repos, 3 runs of the effect, 2 status changes per repo | the chunk stage doubles and leaks nothing, loses at most two files and those only to the soft limit, reports in time and ends; the budget hands out one share of a second, and one more for every two seconds that its calls are late; waits for it are bounded and every call ends; the collection is configured before it is written; the browser shows the newest record, follows it, and chats when ready |
| `agent_turns` | 2 clients, 3 repos, 2 runners kept, 4 built; 2 invocations with 2 model calls and 2 tool calls each, 1 entry in the table | sessions are found, the runners used last are kept; no run is lost, ended twice or left open, and results are mixed up only where calls overlap |

Runs that refute what the code's own text says (kind `violation`; the findings
quote the lines):

| Run | Claim | What happens instead |
| --- | --- | --- |
| `doc_survives` | no answer from old code survives a re-ingestion | a chat admitted before the reset caches its answer after `invalidate()`; it is served while the new code is ready |
| `doc_admission` | the global cap bounds all ingestions that start | the cap is decided on a read before the create; a request that saw the repo in flight may still start one |
| `doc_history` | no answer grounded in the old code survives a re-ingestion | a turn retrieves attempt-1 code into its session; the repo is ingested again and the cache is dropped; the question is asked again in that session under attempt 2, answered from the session's events without a new retrieval, and cached for first turns |
| `doc_budget` | a second's counter is capped | an INCR that arrives two seconds late or more finds its second's key expired and counts from zero; the client's timeouts allow four (two for a pooled connection, one to connect, one to read: `utils/rate_limiter.py:49, 65-71`) |
| `store_reply_lost` | False means not updated | EXEC applied, reply lost: the retry meets its own attempt id and answers False |

Further claims that a small change to one of these configurations refutes.  The
properties are stated in the modules beside the ones that hold:

| Claim | Refuted in | What happens |
| --- | --- | --- |
| `GapNeverRead`: "the gap is never read" (`ingestion/ingest_pipeline.py:123-125`), which rests on "a running task is never redelivered" (`utils/config.py:289-292`) | `ingest_core` with `Faults = {"slow step"}` | a step outlasts the visibility timeout and the message comes back under the same attempt; the second worker passes the status check, since the record is in flight and the id its own; of the two one makes the repo ready, and the other's `delete_repo` then empties the index under it |
| `FinalUntilResubmitted`: a run must not "silently flip" a failed record back (`worker/tasks.py:107-108`) | `ingest_core` with `Faults = {"ambiguous publish"}` | a publish raises although the broker took the message; the worker passes its one check before the request fails the record under the same id, and its next report writes "cloning" over "failed" |
| `FirstTurnsAreContextFree`: "first-turn lookups never see follow-up answers" (`caching/semantic_cache_service.py:164-165`) | `chat_core` with `SharedSessions = TRUE` | two requests on one session: a repeat of the first question gets the first-turn key, the other's question joins the history before its agent starts, and the answer is cached for everybody's first turns |
| `ReturnsAllGoodFiles`: "Chunk every supported document", failed are "files that crash or hang the parser" (`chunking/chunker.py:492-495`) | `index_stages` with this invariant | under a prefork pool, whose soft limit counts from the acceptance of the task, the limit strikes during the last batch and is taken for a parser's error; a good file waits its time out behind the busy worker and is counted as failed; `check_timeout` counts from a later start and lets the stage return |
| `TenantIndexBuilt`: "Create the collection and its tenant index if they don't exist yet" (`embeddings/qdrant_store.py:138`) | `index_stages` with this invariant | an error answer to a call that creates the collection or its index is taken for a lost race; the store counts as synced, and no later one creates the index |

What holds in place of a refuted claim is checked and proved where there is
something to say: `RetrievesSinceAdmission` beside `doc_history`, `SlotsPerSecond`
beside `doc_budget`, `LosesFewFiles` beside `ReturnsAllGoodFiles`, the others under the
conditions of their theorems.

One more thing to know, which is no disagreement: the per-second cap is
`requests_per_minute` divided by 60 and rounded up (`utils/rate_limiter.py:26-29` says
so), so a full minute admits up to 59 calls more than the minute's budget: 10
become 60.  `SlotsPerSecond` is about the second.

### Bounds, and why they are enough

Two actors of each kind are the smallest number that races; the code has no
construct that counts actors, and the proofs remove the bound for the properties
they cover.  Three submissions let a repo be ingested, fail or be forced again,
and be submitted by both requests at once; two deaths let the redelivered run
die too.  Two batches make "some but not all batches stored" exist, and let two
runs of one attempt see different chunk counts.  Three attempt ids in
`store_atomic` let both callers retry after one create.  `MaxTurns = 3` gives a
session a first turn, a follow-up and a concurrent request; `MaxAttempts = 2` one
re-ingestion; one slot makes `Busy` happen.  In `index_stages` a tick is a second.
A call there takes up to two, which is when a key may expire under it and the cap
alone no longer holds; the client's timeouts add up to four, as in `doc_budget`, and
`SlotsPerSecondHolds` is proved for any `RedisTime`.

Three files make a full batch and a rest, with a bad file before, between and
after good ones; three writers let one create, one lose the race and one come
later; two kept runners of three repos make evictions happen under a turn; a table
of one entry evicts at every change between two invocations; three runs of the
effect are one per repo and a retry.  The browser's two repos start in one state
each kind: one failed before, the other new or running.

`MaxSubmits`, `MaxCrashes`, `MaxAttempts`, `MaxTurns` and the set `Attempts` are
bounds of the model, not of the code, which is why most runs set CHECK_DEADLOCK
FALSE: a model that has used its requests up stops.  Symmetry
is used in runs without liveness only.

### Fairness

* `RequestStep(r)`: weak, a request goes on unless its process dies, which is an
  action of its own (`RequestLost`).
* `Poll`: weak over all clients; the frontend polls while a repo is in flight
  (`StatusPanel.tsx`), and giving up is done by whoever reads.
* `Deliver`, `TaskStep`, `Redeliver`: weak; a worker that lives takes messages and
  goes on, and the broker's visibility timeout expires.  Nothing assumes that a
  stage succeeds or that a worker does not die.
* `ChunkingDone`: strong; chunking alternates with progress reports, so its end is
  not continuously enabled, but each batch checks the time limit, hence it ends.
* `Age`: weak; clocks advance.
* `ChunkStep`: weak, with `TimeUp` left to chance: nothing assumes that the time limit
  strikes, since a hung job is given up by its own timeout.
* `Tick` and every caller's step of `RequestBudget`: weak; a caller goes on when its
  timer or call is due.
* The browser: weak for the timer, strong for the server's answer and its arrival,
  because any of them may fail any number of times, only not all of them.
* In the store: weak for every command, strong for `Exec`, so that the connection is
  not dropped at every EXEC for ever.  Strong fairness of `Exec` does not force a
  caller past `dirty`: other writers may abort it again and again, and what is
  claimed is only that somebody is answered.

## 4. What is proved

For every value of the constants that meets the modules' assumptions:

| Theorem | Says | Along |
| --- | --- | --- |
| `RedisStatusStoreProofs!TypeCorrect`, `WatchCorrect` | `TypeOK`, `WatchInv` | `IInv`: type, `PhaseMatchesCall` (a phase belongs to the operation called), `WatchInv`. Every write raises `dirty` of the other watchers |
| `RedisStatusStoreProofs!Implements` | the Redis store implements `StatusStore` | `Simulation`: each command is a stutter or the atomic operation, by `IInv`; needs `AppAssumption`: no `update` calls, no lost replies |
| `RedisStatusStoreProofs!OneRetry` | `OneRetryWins` | `RetryInv`: ids are not reused, so a stored id that was replaced never comes back; needs `AppAssumption` |
| `RedisStatusStoreProofs!LostCreates` | `LostCreateSeesRecord` | from `IInv`: only the GET that read a record ends a create that lost |
| `IngestionProofs!TypeCorrect` | `TypeOK` | with `RunShape`: batches are stored one by one, so the index of the next batch is in range |
| `IngestionProofs!GivenUpStaysFailed` | `AbandonedStaysFailed`, with every fault | `CutOff`: the id that gave up is in no message, run or publishing request |
| `IngestionProofs!OneRunPerAttempt` | `IngestedOnce` | `OneMessage`: a run holds its message unacknowledged and no message is in two places; needs no "slow step" |
| `IngestionProofs!ErrorsMatchStatus` | `ErrorOnlyWhenFailed` | `ErrorInv` with `Unpublished`: a request about to fail its record has nothing in the queue; needs in addition no "ambiguous publish" |
| `IngestionProofs!ProgressWithinTotal` | `EmbeddedWithinTotal`, with every fault | type correctness and `RunShape`: every report that writes one of the two counts writes both |
| `IngestionProofs!OneStarter` | `StarterOwnsRecord` | `OwnedByStarter` with `OneMessage`: no other request and no run has the attempt of a request about to publish, so none can write its record; needs no "slow step" and no "expiry" |
| `IngestionProofs!PendingNotForgotten` | `PendingHasOwner` | `PendingInHand`: no run acknowledges the message of a pending record, which is there unless a request will publish it or fail the record; needs no "api crash" and no "store error" (a request that dies before it publishes, or a run that cannot report, leaves a pending record to the staleness check) |
| `IndexProofs!ReadyComplete` | `ReadyIsComplete` | `BuildInv`: a run that has cloned under its own record keeps it fresh, so no request is about to replace it (`Unchallenged`), and a run past its deletion has stored a prefix of its batches and nothing else is in the index (`Filled`); needs `Undisturbed`: no "slow step", "slow request", "ambiguous publish" or "expiry"; any deaths, store errors and late errors |
| `IndexProofs!FinalStays` | `FinalUntilResubmitted` | `LifeInv` in `StateInv`: the record of a run's attempt is in the stage the run has reported, so no report, failure or give-up meets a final one; needs `InTime`: no "slow step", "slow request", "ambiguous publish" or "late error" |
| `IndexProofs!LifecycleImplemented` | `ImplementsLifecycle`: `Ingestion` implements `RepoLifecycle` | each step is a stutter or an action of `RepoLifecycle`, by `StateInv`, `BuildInv` and `NumberedFromOne`; needs `Undisturbed` and no "late error" |
| `ChatProofs!TypeCorrect`, `SlotsKept` | `TypeOK`, `SlotsAccountedFor` | `TypeInv`; `HoldersStep` counts the slot holders over a step |
| `ChatProofs!SinceAdmission` | `RetrievesSinceAdmission` | `SourceInv`: the index of a ready repo is its attempt's alone, and under a running turn it only gets newer |
| `ChatProofs!DroppedByReset` | `OnlyStoredSinceReset` | `ResetInv`: between the two clears the first scope is already clean |
| `ChatProofs!FirstTurns` | `FirstTurnsAreContextFree` without shared sessions | `FirstInv`: a request owns its session, and a turn keyed as first finds only its own question there |
| `ChunkingProofs!EachFileOnceHolds`, `LosesFewFilesHolds`, `NoPoolLeftHolds` | the same names without `Holds` | `ChunkInv`: a file is waiting, to be retried, or accounted for, and nothing is recorded of the first two (`FilesInv`); no file is lost before the soft limit strikes, one at most while the worker may be busy with what was interrupted, and two at most ever (`LostInv`) |
| `ChunkingProofs!ReportsInTimeHolds` | `ReportsInTime` | `TimeInv`: how long the stage may have been silent, by what it does next; `BatchFits` bounds the files of a batch |
| `RequestBudgetProofs!WaitsItsTimeHolds` | `WaitsItsTime` | `WaitingInv`: what was waited and what is left of a sleep stay within `MaxWait` together |
| `RequestBudgetProofs!SlotsPerSecondHolds` | `SlotsPerSecond`, however late Redis is | `CountsInv`: each life of a second's key that is over took two seconds at least (`Lives`) and handed out one share at most, and so does the one that is going on |
| `IndexingProofs!WritesIntoConfiguredHolds` | `WritesIntoConfigured` | `CollectionInv`: who is on the creating branch saw no collection, and who corrects settings saw one |
| `IndexingProofs!PartsImplemented`, `IndexingTyped` | a behaviour of `MCIndexing` is one of each part; `TypeOK` | each step moves one part and leaves the others' variables alone.  The types of the budget need `CallsTyped`: the age of a request's second and what is left of its time stay within `RedisTime` together, so no key older than `Age` is counted |
| `AgentProofs!SessionsFound`, `MostRecentKept` | `SessionsAreFound`, `KeepsMostRecent` | `RegistryInv`: one entry for each repo, no more than the bound, in the order of their use (`RunnersInv`); a turn under way has a runner that was built (`TurnsInv`) |
| `AgentProofs!RunsNotLost` | `NoRunLost` | `RunsInv`: the runs in the entries are the open ones, each once; a run that was not begun is in none (`FreshInv`) |
| `AgentProofs!ResultsMatched` | `ResultsMatch` | `TopsInv`: in an invocation where nothing overlapped and every run was posted, the last run of an entry is the one whose result arrives; `OneTool` |
| `AgentProofs!AgentsTyped` | `TypeOK` | `RegistryInv` and `TracingInv` |
| `IndexingProofs!ChatsWhenReadyHolds`, `ShowsLatestHolds` | the same names without `Holds` | `Typed`: the only chain whose answers count is the last one, for the active repo; `Honest`: what the browser holds is never ahead of the server, nor an answer behind the record shown |

The invariants above are needed because the properties are not inductive: from an
arbitrary state with `IngestedOnce`, say, a second copy of a message could be
delivered.  `Greatest` (a bounded nonempty set of naturals has a greatest
element, from the well-foundedness of <) makes `previous_question` usable in the
proofs although `Max` is a CHOOSE.

Every invariant and every action property that a passing run checks is thus a
theorem, under the conditions the table names.  Those of the ingestion are about `Faults`,
and the theorems of `IngestionProofs` and `IndexProofs` cover more than the runs do:
`ingest_core` allows deaths, redelivery and resubmission only, and `PendingHasOwner`,
say, is proved for slow steps and requests, ambiguous publishes, late errors and
expiry as well.

Only model-checked: liveness (`Settles`, `StoreMakesProgress`, `WaitsEnd`,
`PanelFollows`), which needs ENABLED and fairness.

`Chat` stands on `RepoLifecycle`, so what is shown of it holds where `Ingestion`
implements that module: under the conditions of `LifecycleImplemented`.  `GapNeverRead`
names what a second run of the same attempt may do to the index of a ready repo.

## 5. What is not modelled

* The repo id, URL validation, prompts, text of errors and logs, span contents:
  strings nothing above depends on.  One repo is modelled; records, points,
  sessions and cached answers of two repos never meet.
* Similarity: any cached first turn may match a first turn (`Matching`).  PII
  patterns and normalisation appear as lookups and stores that do nothing.  The
  cache's TTL only removes answers, which a miss covers.
* Whether an agent retrieves again or answers from what its session holds is the
  language model's choice: `Retrieve` may be taken any number of times, none included,
  and every answer counts all code in its session among its sources.
* A session with an agent run in progress is taken not to be idle: `Chat`'s sweep
  spares it.
* A create after the record expired leaves the old cache in place; `Chat` has no
  expiry.
* What a chunk contains: splitting is chonkie's and tree-sitter's, and a file's
  lines are numbered from zero by the model class (`chunk_models.py:24-25`) and from
  one by its builder (`chunker.py:255`).  The statistics that `chunk` returns are
  discarded by `chunk_stage`.
* The cloner's limits and its temporary directory; the walk of the loader.
* `RunTree.patch` is taken not to raise: it queues its work.  If it did, `close_runs`
  would leave the runs behind it open (`tracing.py:63-72`).
* A soft limit between the creation of the pool and the `try` that terminates it
  (`chunker.py:533-535`): creating the pool and entering the `try` are one step, so
  `NoPoolLeft` says nothing of it.  Nor does `ReportsInTime` count the time the loader
  takes before the first batch.
* `_last_swept` gets an entry again when a turn sweeps a repo whose runner was evicted
  in between; it is a number per repo.
* The slot semaphore and its timeout are asyncio's; `Chat` takes the two outcomes.
* `ChatPanel`: one request at a time (its `sending` guard), which is what
  `SharedSessions = FALSE` assumes of a session; rendering; the retry button after an
  accepted POST whose reply was lost, which shows the failure until the next click.
* Evaluation, configuration, schemas: offline tools and declarations.

## 6. Plan

Done, in this order: `StatusStore`, `RedisStatusStore` (what everything else
rests on), `Ingestion` (the heart of the system), `RepoLifecycle`, `Chat`; then the
stages of an ingestion (`Chunking`, `RequestBudget`, `QdrantCollection`), what a chat
turn rests on (`AgentRegistry`, `Tracing`), and the `Frontend`.

Next: the cloner's limits and cleanup as steps of their own; the ranking metrics of
`evaluation/metrics.py` as operators checked against their definitions.

To prove next: the part of the liveness properties that needs no ENABLED, as
variants: every step of a chunk stage leaves fewer files or comes nearer to the
next batch, every step of a call uses up its waiting time or an attempt, and
every step of a run brings it nearer to its last report.
