----------------------------- MODULE Ingestion -----------------------------
(***************************************************************************)
(* One repo's ingestion, from the submitted URL to the "ready" record:     *)
(*                                                                         *)
(*   - the status record, in a store whose operations are atomic (what     *)
(*     RedisStatusStore implements, see there);                            *)
(*   - API requests: create_repo (start_ingestion, enqueue_ingestion) and  *)
(*     get_repo (get_status), one step per store or broker call;           *)
(*   - the Celery queue: acks_late delivery with redelivery;               *)
(*   - workers: ingest_repo_task and the pipeline under it, one step per   *)
(*     status write, per slow stage and per vector-store call;             *)
(*   - the repo's points in Qdrant.                                        *)
(*                                                                         *)
(* Attempt ids are numbered in the order they are drawn; 0 is no attempt.  *)
(* Time is abstracted to one fact, whether the record has aged past its    *)
(* staleness threshold (is_abandoned).  Chunks are counted in batches.     *)
(***************************************************************************)
EXTENDS Naturals, FiniteSets

CONSTANTS
  Clients,     \* API requests that may be in progress at once
  Workers,     \* Celery workers
  MaxSubmits,  \* bound: POST /repos requests made
  MaxCrashes,  \* bound: processes killed
  MaxBatches,  \* bound: embedding batches a clone can yield
  Forced,       \* TRUE: submissions re-ingest a ready repo (force=True)
  Prefork,     \* TRUE: prefork pool; FALSE: --pool=solo, as docker-compose runs
  Faults       \* the faults this instance allows, out of FaultKinds

FaultKinds ==
  {"slow step",          \* one step outlasts the staleness or visibility timeout
   "slow request",       \* a request stalls between its read and its write
   "ambiguous publish",  \* the broker takes a message and the publish raises
   "api crash",          \* an API process dies, or an error ends its request
   "store error",        \* a status-store call in the worker raises
   "late error",         \* an error surfaces after the "ready" write applied
   "expiry"}             \* REPO_STATUS_TTL_SECONDS expires the record

ASSUME IngestionAssumption ==
  /\ MaxSubmits \in Nat /\ MaxCrashes \in Nat
  /\ MaxBatches \in Nat \ {0}
  /\ Forced \in BOOLEAN /\ Prefork \in BOOLEAN
  /\ Faults \subseteq FaultKinds

VARIABLES
  record,     \* the repo's status record
  drawn,      \* number of attempt ids drawn so far
  abandoned,  \* history: the ids get_status put on records it gave up on
  queued,     \* attempts whose message waits in the queue
  unacked,    \* attempts whose message was delivered and not acknowledged
  client,     \* client[r]: progress of an API request
  run,        \* run[w]: progress of a worker's task
  points,     \* points[b]: attempt that stored batch b's points, 0 if none
  submits,    \* submissions made (bounded by MaxSubmits)
  crashes     \* processes killed (bounded by MaxCrashes)

vars == <<record, drawn, abandoned, queued, unacked, client, run, points,
          submits, crashes>>

InFlight == {"pending", "cloning", "chunking", "embedding"}
Final == {"ready", "failed"}
Batch == 1..MaxBatches

\* total and embedded are 0 where the code has None: a clone without chunks
\* is an error, so a set chunks_total is positive.
Record ==
  [status : InFlight \cup Final \cup {"absent"}, attempt : Nat, error : BOOLEAN,
   total : 0..MaxBatches, embedded : 0..MaxBatches, stale : BOOLEAN]

Absent == [status |-> "absent", attempt |-> 0, error |-> FALSE,
           total |-> 0, embedded |-> 0, stale |-> FALSE]

new_pending(a) == [Absent EXCEPT !.status = "pending", !.attempt = a]

\* Faulty: only a record some worker has touched can be abandoned.
is_abandoned_started(rec) == rec.status \in InFlight \ {"pending"} /\ rec.stale

is_abandoned(rec) == rec.status \in InFlight /\ rec.stale

needs_work(rec) ==
  \/ rec.status \in {"absent", "failed"}
  \/ Forced /\ rec.status = "ready"
  \/ is_abandoned(rec)

\* update_if_attempt matches: the record exists and is still attempt a's.
Matches(a) == record.status # "absent" /\ record.attempt = a

\* Every write makes the record fresh again (updated_at).
Write(rec) == record' = [rec EXCEPT !.stale = FALSE]

\* Faulty: the abandoned run keeps its claim on the record.
GivenUp_same_attempt(rec, a) == [rec EXCEPT !.status = "failed", !.error = TRUE]
\* Faulty: a retry shows the last failure's reason.
Restarted_with_error(rec, a) == [rec EXCEPT !.status = "pending", !.attempt = a]
\* Faulty: a retry goes on under the old id.
Restarted_same_attempt(rec, a) == [rec EXCEPT !.status = "pending", !.error = FALSE]

Failed(rec) == [rec EXCEPT !.status = "failed", !.error = TRUE]
GivenUp(rec, a) == [rec EXCEPT !.status = "failed", !.error = TRUE, !.attempt = a]
Restarted(rec, a) ==
  [rec EXCEPT !.status = "pending", !.error = FALSE, !.attempt = a]

NoRequest == [pc |-> "idle", attempt |-> 0, admitted |-> FALSE]
Idle == [pc |-> "idle", attempt |-> 0, total |-> 0, stored |-> 0]

Init ==
  /\ record = Absent
  /\ drawn = 0
  /\ abandoned = {}
  /\ queued = {} /\ unacked = {}
  /\ client = [r \in Clients |-> NoRequest]
  /\ run = [w \in Workers |-> Idle]
  /\ points = [b \in Batch |-> 0]
  /\ submits = 0 /\ crashes = 0

----------------------------------------------------------------------------
(* API requests *)

At(r, pc) == client[r].pc = pc
Goto(r, pc, a) == client' = [client EXCEPT ![r].pc = pc, ![r].attempt = a]
Return(r) == client' = [client EXCEPT ![r] = NoRequest]

\* start_ingestion's first read: a request that would start an ingestion is
\* counted against the global cap.  (A refused request changes nothing.)
Submit(r) ==
  /\ At(r, "idle")
  /\ submits < MaxSubmits
  /\ submits' = submits + 1
  /\ client' = [client EXCEPT ![r].pc = "create", ![r].admitted = needs_work(record)]
  /\ UNCHANGED <<record, drawn, abandoned, queued, unacked, run, points, crashes>>

CreateIfAbsent(r) ==
  /\ At(r, "create")
  /\ IF record.status = "absent"
       THEN /\ record' = new_pending(drawn + 1)
            /\ drawn' = drawn + 1
            /\ Goto(r, "enqueue", drawn + 1)
       ELSE /\ IF needs_work(record)
                 THEN Goto(r, "reset", record.attempt)
                 ELSE Return(r)
            /\ UNCHANGED <<record, drawn>>
  /\ UNCHANGED <<abandoned, queued, unacked, run, points, submits, crashes>>

\* Faulty: the reset does not compare.
Reset_unconditional(r) ==
  /\ At(r, "reset")
  /\ Write(Restarted(record, drawn + 1))
  /\ drawn' = drawn + 1
  /\ Goto(r, "enqueue", drawn + 1)
  /\ UNCHANGED <<abandoned, queued, unacked, run, points, submits, crashes>>

\* The compare-and-set that starts a retry; losing it means another request
\* reset the record first.  (The cache invalidation that follows is part of
\* module Chat.)
Reset(r) ==
  /\ At(r, "reset")
  /\ IF Matches(client[r].attempt)
       THEN /\ Write(Restarted(record, drawn + 1))
            /\ drawn' = drawn + 1
            /\ Goto(r, "enqueue", drawn + 1)
       ELSE /\ Return(r)
            /\ UNCHANGED <<record, drawn>>
  /\ UNCHANGED <<abandoned, queued, unacked, run, points, submits, crashes>>

\* enqueue_ingestion: ingest_repo_task.delay returns ...
Enqueue(r) ==
  /\ At(r, "enqueue")
  /\ queued' = queued \cup {client[r].attempt}
  /\ Return(r)
  /\ UNCHANGED <<record, drawn, abandoned, unacked, run, points, submits, crashes>>

\* Faulty: the record is left pending.
EnqueueRaises_unhandled(r) ==
  /\ At(r, "enqueue")
  /\ Return(r)
  /\ UNCHANGED <<record, drawn, abandoned, queued, unacked, run, points, submits, crashes>>

\* ... or raises, and the broker may have taken the message all the same.
EnqueueRaises(r) ==
  /\ At(r, "enqueue")
  /\ \/ UNCHANGED queued
     \/ /\ "ambiguous publish" \in Faults
        /\ queued' = queued \cup {client[r].attempt}
  /\ Goto(r, "enqueue failed", client[r].attempt)
  /\ UNCHANGED <<record, drawn, abandoned, unacked, run, points, submits, crashes>>

\* The record is failed under its own attempt id.
FailUnqueued(r) ==
  /\ At(r, "enqueue failed")
  /\ IF Matches(client[r].attempt) THEN Write(Failed(record)) ELSE UNCHANGED record
  /\ Return(r)
  /\ UNCHANGED <<drawn, abandoned, queued, unacked, run, points, submits, crashes>>

\* get_status on a record that looks abandoned; any other read changes nothing.
Poll(r) ==
  /\ At(r, "idle")
  /\ is_abandoned(record)
  /\ Goto(r, "mark", record.attempt)
  /\ UNCHANGED <<record, drawn, abandoned, queued, unacked, run, points, submits, crashes>>

\* The record is failed under a fresh attempt id, which cuts off a run that
\* is in fact still alive.
MarkAbandoned(r) ==
  /\ At(r, "mark")
  /\ IF Matches(client[r].attempt)
       THEN /\ Write(GivenUp(record, drawn + 1))
            /\ drawn' = drawn + 1
            /\ abandoned' = abandoned \cup {record'.attempt}
       ELSE UNCHANGED <<record, drawn, abandoned>>
  /\ Return(r)
  /\ UNCHANGED <<queued, unacked, run, points, submits, crashes>>

RequestLost(r) ==
  /\ "api crash" \in Faults
  /\ crashes < MaxCrashes
  /\ ~At(r, "idle")
  /\ crashes' = crashes + 1
  /\ Return(r)
  /\ UNCHANGED <<record, drawn, abandoned, queued, unacked, run, points, submits>>

RequestStep(r) ==
  \/ CreateIfAbsent(r) \/ Reset(r) \/ Enqueue(r) \/ EnqueueRaises(r)
  \/ FailUnqueued(r) \/ MarkAbandoned(r)

----------------------------------------------------------------------------
(* The queue *)

Running(w) == run[w].pc # "idle"

Deliver(w) ==
  /\ ~Running(w)
  /\ \E a \in queued :
       /\ queued' = queued \ {a}
       /\ unacked' = unacked \cup {a}
       /\ run' = [run EXCEPT ![w] = [Idle EXCEPT !.pc = "check", !.attempt = a]]
  /\ UNCHANGED <<record, drawn, abandoned, client, points, submits, crashes>>

\* Faulty: the visibility timeout is shorter than a run.
Redeliver_early(a) ==
  /\ a \in unacked
  /\ unacked' = unacked \ {a}
  /\ queued' = queued \cup {a}
  /\ UNCHANGED <<record, drawn, abandoned, client, run, points, submits, crashes>>

\* The visibility timeout of an unacknowledged message runs out.  It is set to
\* outlast any run, so only a dead worker's message comes back.
Redeliver(a) ==
  /\ a \in unacked
  /\ "slow step" \in Faults \/ \A w \in Workers : Running(w) => run[w].attempt # a
  /\ unacked' = unacked \ {a}
  /\ queued' = queued \cup {a}
  /\ UNCHANGED <<record, drawn, abandoned, client, run, points, submits, crashes>>

\* acks_late: the message is acknowledged when the task function is left.
Ack(w) ==
  /\ run[w].pc = "ack"
  /\ unacked' = unacked \ {run[w].attempt}
  /\ run' = [run EXCEPT ![w] = Idle]
  /\ UNCHANGED <<record, drawn, abandoned, queued, client, points, submits, crashes>>

----------------------------------------------------------------------------
(* The worker's task: pc names the step that comes next *)

On(w, pc) == run[w].pc = pc
Continue(w, pc) == run' = [run EXCEPT ![w].pc = pc]

outsideWorker == <<drawn, abandoned, queued, unacked, client, submits, crashes>>

\* ingest_repo_task skips a record that is finished or another attempt's.
Check(w) ==
  /\ On(w, "check")
  /\ IF record.status \in InFlight /\ record.attempt = run[w].attempt
       THEN Continue(w, "report cloning")
       ELSE Continue(w, "ack")
  /\ UNCHANGED <<record, points, outsideWorker>>

\* on_progress: write the fields while the record is this attempt's, else
\* stop the run (AttemptSupersededError).
Report(w, rec, next) ==
  /\ IF Matches(run[w].attempt)
       THEN Write(rec) /\ Continue(w, next)
       ELSE UNCHANGED record /\ Continue(w, "ack")
  /\ UNCHANGED <<points, outsideWorker>>

ReportCloning(w) ==
  /\ On(w, "report cloning")
  /\ Report(w, [record EXCEPT !.status = "cloning"], "clone")

\* clone_repo.  A request between its read and its write is quicker than a
\* clone, unless requests may stall.
Clone(w) ==
  /\ On(w, "clone")
  /\ "slow request" \in Faults \/ \A r \in Clients : ~At(r, "mark") /\ ~At(r, "reset")
  /\ Continue(w, "report chunking")
  /\ UNCHANGED <<record, points, outsideWorker>>

ReportChunking(w) ==
  /\ On(w, "report chunking")
  /\ Report(w, [record EXCEPT !.status = "chunking"], "chunk")

\* A chunking batch is done: its after_batch reports "chunking" again.
ChunkBatch(w) ==
  /\ On(w, "chunk")
  /\ Continue(w, "report chunking")
  /\ UNCHANGED <<record, points, outsideWorker>>

\* All files are chunked, into some number of embedding batches.
ChunkingDone(w) ==
  /\ On(w, "chunk")
  /\ \E n \in Batch :
       run' = [run EXCEPT ![w].pc = "report embedding", ![w].total = n]
  /\ UNCHANGED <<record, points, outsideWorker>>

\* Faulty: the count of an earlier run stays.
ReportEmbedding_keeps_embedded(w) ==
  /\ On(w, "report embedding")
  /\ Report(w, [record EXCEPT !.status = "embedding", !.total = run[w].total],
            "delete")

ReportEmbedding(w) ==
  /\ On(w, "report embedding")
  /\ Report(w, [record EXCEPT !.status = "embedding", !.total = run[w].total,
                              !.embedded = 0], "delete")

\* Faulty: the new points are upserted over the old ones.
DeleteRepo_skipped(w) ==
  /\ On(w, "delete")
  /\ Continue(w, "store")
  /\ UNCHANGED <<record, points, outsideWorker>>

\* delete_repo: every point of the repo, whichever attempt stored it.
DeleteRepo(w) ==
  /\ On(w, "delete")
  /\ points' = [b \in Batch |-> 0]
  /\ Continue(w, "store")
  /\ UNCHANGED <<record, outsideWorker>>

\* Embed one batch and upsert it; point ids depend on the chunk, not on the
\* attempt, so the upsert overwrites.
StoreBatch(w) ==
  /\ On(w, "store")
  /\ points' = [points EXCEPT ![run[w].stored + 1] = run[w].attempt]
  /\ run' = [run EXCEPT ![w].pc = "report stored", ![w].stored = @ + 1]
  /\ UNCHANGED <<record, outsideWorker>>

\* Faulty: one batch too many.
ReportStored_one_more(w) ==
  /\ On(w, "report stored")
  /\ Report(w, [record EXCEPT !.status = "embedding", !.total = run[w].total,
                              !.embedded = run[w].stored],
            IF run[w].stored <= run[w].total THEN "store" ELSE "ready")

ReportStored(w) ==
  /\ On(w, "report stored")
  /\ Report(w, [record EXCEPT !.status = "embedding", !.total = run[w].total,
                              !.embedded = run[w].stored],
            IF run[w].stored < run[w].total THEN "store" ELSE "ready")

\* The last write of a run that got through; its result is not looked at.
WriteReady(w) ==
  /\ On(w, "ready")
  /\ IF Matches(run[w].attempt)
       THEN Write([record EXCEPT !.status = "ready", !.error = FALSE])
       ELSE UNCHANGED record
  /\ Continue(w, "leave")
  /\ UNCHANGED <<points, outsideWorker>>

Leave(w) ==
  /\ On(w, "leave")
  /\ Continue(w, "ack")
  /\ UNCHANGED <<record, points, outsideWorker>>

\* A stage raises: a failed clone, the time limit, a repo without chunks or
\* too large, an embedding or Qdrant error.
StageRaises(w) ==
  /\ run[w].pc \in {"clone", "chunk", "delete", "store"}
  /\ Continue(w, "write failed")
  /\ UNCHANGED <<record, points, outsideWorker>>

\* The status store raises inside the task's try block.
ReportRaises(w) ==
  /\ "store error" \in Faults
  /\ run[w].pc \in {"report cloning", "report chunking", "report embedding",
                    "report stored", "ready"}
  /\ Continue(w, "write failed")
  /\ UNCHANGED <<record, points, outsideWorker>>

\* An error that surfaces after the "ready" write was applied, still inside
\* the try block (the soft time limit's exception, a lost reply).
LateRaises(w) ==
  /\ "late error" \in Faults
  /\ On(w, "leave")
  /\ Continue(w, "write failed")
  /\ UNCHANGED <<record, points, outsideWorker>>

WriteFailed(w) ==
  /\ On(w, "write failed")
  /\ IF Matches(run[w].attempt) THEN Write(Failed(record)) ELSE UNCHANGED record
  /\ Continue(w, "ack")
  /\ UNCHANGED <<points, outsideWorker>>

\* The status store raises outside it: the task fails, task_failure fires.
TaskFails(w) ==
  /\ "store error" \in Faults
  /\ run[w].pc \in {"check", "write failed"}
  /\ Continue(w, "task failure")
  /\ UNCHANGED <<record, points, outsideWorker>>

\* Faulty: the handler fails a finished record.
TaskFailure_any_status(w) ==
  /\ On(w, "task failure")
  /\ Continue(w, "fail crashed")
  /\ UNCHANGED <<record, points, outsideWorker>>

\* on_ingest_task_failure reads the record, and fails it if it is in flight,
\* whoever's it is ...
TaskFailure(w) ==
  /\ On(w, "task failure")
  /\ Continue(w, IF record.status \in InFlight THEN "fail crashed" ELSE "ack")
  /\ UNCHANGED <<record, points, outsideWorker>>

\* ... by a write that goes through only if it is this message's attempt's.
FailCrashed(w) ==
  /\ On(w, "fail crashed")
  /\ IF Matches(run[w].attempt) THEN Write(Failed(record)) ELSE UNCHANGED record
  /\ Continue(w, "ack")
  /\ UNCHANGED <<points, outsideWorker>>

\* The handler itself cannot reach the store.
TaskFailureRaises(w) ==
  /\ "store error" \in Faults
  /\ run[w].pc \in {"task failure", "fail crashed"}
  /\ Continue(w, "ack")
  /\ UNCHANGED <<record, points, outsideWorker>>

\* A prefork child dies or is killed by the hard limit: its parent runs the
\* task_failure handler and acknowledges the message.
ChildKilled(w) ==
  /\ Prefork
  /\ crashes < MaxCrashes
  /\ run[w].pc \notin {"idle", "ack", "task failure", "fail crashed"}
  /\ crashes' = crashes + 1
  /\ Continue(w, "task failure")
  /\ UNCHANGED <<record, drawn, abandoned, queued, unacked, client, points, submits>>

\* The whole worker dies: nobody acknowledges its message.
WorkerLost(w) ==
  /\ crashes < MaxCrashes
  /\ Running(w)
  /\ crashes' = crashes + 1
  /\ run' = [run EXCEPT ![w] = Idle]
  /\ UNCHANGED <<record, drawn, abandoned, queued, unacked, client, points, submits>>

----------------------------------------------------------------------------
(* Time *)

\* Someone will still write the record of the current attempt: a task that
\* runs, or for a pending record its message or the request about to send it.
Owned ==
  \/ \E w \in Workers : Running(w) /\ run[w].attempt = record.attempt
  \/ /\ record.status = "pending"
     /\ \/ record.attempt \in queued \cup unacked
        \/ \E r \in Clients : /\ client[r].pc \in {"enqueue", "enqueue failed"}
                              /\ client[r].attempt = record.attempt

\* The record ages past its threshold.  The thresholds are chosen so that no
\* owned record does, as long as no single step outlasts them.
Age ==
  /\ record.status \in InFlight
  /\ ~record.stale
  /\ "slow step" \in Faults \/ ~Owned
  /\ record' = [record EXCEPT !.stale = TRUE]
  /\ UNCHANGED <<drawn, abandoned, queued, unacked, client, run, points, submits, crashes>>

Expire ==
  /\ "expiry" \in Faults
  /\ record.status # "absent"
  /\ record' = Absent
  /\ UNCHANGED <<drawn, abandoned, queued, unacked, client, run, points, submits, crashes>>

----------------------------------------------------------------------------
\* The steps a live worker takes by itself.
TaskStep(w) ==
  \/ Check(w) \/ ReportCloning(w) \/ Clone(w) \/ ReportChunking(w)
  \/ ChunkingDone(w) \/ ReportEmbedding(w) \/ DeleteRepo(w) \/ StoreBatch(w)
  \/ ReportStored(w) \/ WriteReady(w) \/ Leave(w) \/ WriteFailed(w)
  \/ TaskFailure(w) \/ FailCrashed(w) \/ Ack(w)

TaskFault(w) ==
  \/ StageRaises(w) \/ ReportRaises(w) \/ LateRaises(w) \/ TaskFails(w)
  \/ TaskFailureRaises(w) \/ ChildKilled(w) \/ WorkerLost(w)

Next ==
  \/ \E r \in Clients : Submit(r) \/ Poll(r) \/ RequestStep(r) \/ RequestLost(r)
  \/ \E w \in Workers : Deliver(w) \/ TaskStep(w) \/ ChunkBatch(w) \/ TaskFault(w)
  \/ \E a \in unacked : Redeliver(a)
  \/ Age
  \/ Expire

Spec == Init /\ [][Next]_vars

\* The frontend polls until the record is final, requests and workers keep
\* running, the clock advances, the broker delivers; chunking ends because
\* every batch checks the time limit.
Fairness ==
  /\ \A r \in Clients : WF_vars(RequestStep(r))
  /\ WF_vars(\E r \in Clients : Poll(r))
  /\ \A w \in Workers : /\ WF_vars(Deliver(w)) /\ WF_vars(TaskStep(w))
                        /\ SF_vars(ChunkingDone(w))
  /\ WF_vars(\E a \in unacked : Redeliver(a))
  /\ WF_vars(Age)

FairSpec == Spec /\ Fairness

----------------------------------------------------------------------------
(* Properties *)

RequestPcs == {"idle", "create", "reset", "enqueue", "enqueue failed", "mark"}
Stages == {"report cloning", "clone", "report chunking", "chunk", "report embedding",
           "delete", "store", "report stored", "ready"}
RunPcs == Stages \cup {"idle", "check", "leave", "write failed", "task failure",
                       "fail crashed", "ack"}

ClientType(n) == [Clients -> [pc : RequestPcs, attempt : 0..n, admitted : BOOLEAN]]
RunType(n) == [Workers -> [pc : RunPcs, attempt : 0..n,
                           total : 0..MaxBatches, stored : 0..MaxBatches]]

TypeOK ==
  /\ record \in Record /\ record.attempt \in 0..drawn
  /\ drawn \in Nat
  /\ abandoned \subseteq 1..drawn
  /\ queued \subseteq 0..drawn /\ unacked \subseteq 0..drawn
  /\ client \in ClientType(drawn)
  /\ run \in RunType(drawn)
  /\ points \in [Batch -> 0..drawn]
  /\ submits \in 0..MaxSubmits /\ crashes \in 0..MaxCrashes

\* How far a run has come by its step: batches are stored one by one, and
\* "ready" comes after the last.
Shape(x) ==
  /\ x.pc \in {"check", "report cloning", "clone", "report chunking", "chunk"}
       => x.stored = 0
  /\ x.pc \in {"report embedding", "delete"} => x.stored = 0 /\ x.total > 0
  /\ x.pc = "store" => x.stored < x.total
  /\ x.pc = "report stored" => x.stored \in 1..x.total
  /\ x.pc = "ready" => x.stored = x.total /\ x.total > 0
RunShape == \A w \in Workers : Shape(run[w])

\* A record given up on stays failed until somebody submits the repo again,
\* even if its run is still alive: the run works under the old attempt id
\* (dependencies.py:336-337).
AbandonedStaysFailed ==
  record.attempt \in abandoned => record.status = "failed"

\* The progress bar never runs past its end, whichever runs write it.
EmbeddedWithinTotal == record.embedded <= record.total

\* A failure reason is there only while the record is failed
\* (status_store.py:44 "set only when status is failed").
ErrorOnlyWhenFailed == record.error => record.status = "failed"

\* A ready repo can be searched completely and holds nothing else: its points
\* are the ones its own attempt stored, as many as the record says, and the
\* deletion gap of another run is not in them (ingest_pipeline.py:123-125).
ReadyIsComplete ==
  record.status = "ready" =>
    /\ record.total > 0
    /\ record.embedded = record.total
    /\ \A b \in Batch : points[b] = IF b <= record.total THEN record.attempt ELSE 0

\* No two workers run the stages of one attempt, whatever was redelivered
\* (tasks.py:94-96 "can't ingest a repo twice").
IngestedOnce ==
  \A v, w \in Workers :
    run[v].pc \in Stages /\ run[w].pc \in Stages /\ run[v].attempt = run[w].attempt => v = w

\* A request that started an ingestion owns the record until it has published
\* the message: of two concurrent submissions or retries only one starts
\* (dependencies.py:212-216).
StarterOwnsRecord ==
  \A r \in Clients : At(r, "enqueue") =>
    /\ record.status = "pending"
    /\ record.attempt = client[r].attempt
    /\ \A q \in Clients : At(q, "enqueue") => q = r

\* A submitted repo is not forgotten: while its record is pending, there is a
\* message for it, or a request that is about to publish or fail it.
PendingHasOwner == record.status = "pending" => Owned

\* A final record changes only by a new submission, under a fresh attempt id:
\* a failed one is never flipped back to running (tasks.py:107-108), a ready
\* one never fails (dependencies.py:335).  A failed one may be failed again, and
\* either may expire.
FinalUntilResubmitted ==
  [][record.status \in Final =>
       \/ record'.status = record.status /\ (record.status = "failed" \/ record' = record)
       \/ record'.status = "pending" /\ record'.attempt > drawn
       \/ record' = Absent /\ "expiry" \in Faults]_vars

\* What the abstract specification RepoLifecycle says of the same record.
Lifecycle == INSTANCE RepoLifecycle WITH
  status <- record.status, attempt <- record.attempt,
  index <- {points[b] : b \in Batch} \ {0}
ImplementsLifecycle == Lifecycle!Spec

\* Every ingestion ends: the record does not stay in flight for ever, whatever
\* crashed or got lost on the way.
Settles == record.status \in InFlight ~> record.status \notin InFlight

(* Claims of the code's documentation that the code does not keep.           *)

\* While the repo is ready its chunks are in the index: the gap between a
\* run's deletion and its upserts is never read (ingest_pipeline.py:123-125).
\* TLC refutes it with "slow step": two workers may run one attempt then.
GapNeverRead ==
  record.status = "ready" => \A b \in 1..record.total : points[b] # 0

\* Every ingestion that starts was admitted under the global cap
\* (status_routes.py:45-48).
StartsAreAdmitted == \A r \in Clients : At(r, "enqueue") => client[r].admitted

=============================================================================
