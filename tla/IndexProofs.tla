---------------------------- MODULE IndexProofs ----------------------------
(***************************************************************************)
(* Proofs about what readers of a record rely on, for any number of        *)
(* requests, workers, batches, deaths and resubmissions.                   *)
(*                                                                         *)
(* A ready repo can be searched completely: the points in the index are    *)
(* those of the attempt that became ready, all of them and no others.  A   *)
(* final record stays until the repo is submitted again.  Together these   *)
(* are RepoLifecycle, which requests, queue and workers implement.         *)
(***************************************************************************)
EXTENDS IngestionProofs

\* What the timeouts are set for: no step outlasts them, no request stalls
\* between its read and its write for as long as a clone takes, a publish that
\* raises has published nothing, and records outlive their runs.
Undisturbed ==
  Faults \cap {"slow step", "slow request", "ambiguous publish", "expiry"} = {}

\* The stages after the clone are reached only under the run's own record.
Holding == {"chunk", "report embedding", "delete", "store", "report stored", "ready"}
Live == {"clone", "report chunking"} \cup Holding

Own(w) == run[w].attempt = record.attempt
Unchallenged ==
  \A r \in Clients : client[r].pc \in {"mark", "reset"} => client[r].attempt # record.attempt
Filled(w) == \A b \in Batch : points[b] = IF b <= run[w].stored THEN run[w].attempt ELSE 0

\* A run that has cloned under its own record keeps that record fresh, so no
\* request gives it up or resets it; and a run that has deleted the points is
\* the only one to write them.
Build(w) ==
  /\ run[w].pc \in Live /\ Own(w) =>
       record.status \in {"cloning", "chunking", "embedding"} /\ ~record.stale
  /\ run[w].pc \in Live \ {"clone"} /\ Own(w) => Unchallenged
  /\ run[w].pc \in Holding => Own(w)
  /\ run[w].pc \in {"delete", "store", "report stored", "ready"} =>
       record.total = run[w].total
  /\ run[w].pc \in {"store", "report stored", "ready"} => Filled(w)
  /\ run[w].pc = "ready" => record.embedded = run[w].stored
BuildInv == (\A w \in Workers : Build(w)) /\ ReadyIsComplete

\* Where nobody works on the record's attempt, nothing is claimed of the index.
LEMMA NobodyBuilds ==
  ASSUME UNCHANGED run, record'.status # "ready",
         \A w \in Workers : run[w].pc \notin Holding,
         \A w \in Workers : run[w].pc \in Live => run[w].attempt # record'.attempt
  PROVE  BuildInv'
<1>1. ReadyIsComplete'
  BY DEF ReadyIsComplete
<1>2. ASSUME NEW w \in Workers PROVE Build(w)'
  <2>1. run'[w].pc \notin Holding /\ ~(run'[w].pc \in Live /\ Own(w)')
    BY DEF Own
  <2>2. QED
    BY <2>1 DEF Build, Holding
<1>3. QED
  BY <1>1, <1>2 DEF BuildInv

\* A request's step that leaves the record alone cannot challenge a run.
LEMMA RequestReads ==
  ASSUME BuildInv, UNCHANGED <<record, run, points>>,
         (\E w \in Workers : run[w].pc \in Live /\ Own(w)) /\ Unchallenged => Unchallenged'
  PROVE  BuildInv'
<1>1. ReadyIsComplete'
  BY DEF BuildInv, ReadyIsComplete
<1>2. ASSUME NEW w \in Workers PROVE Build(w)'
  <2>1. Build(w) /\ (Own(w)' <=> Own(w)) /\ (Filled(w)' <=> Filled(w))
    BY DEF BuildInv, Own, Filled
  <2>2. QED
    BY <2>1 DEF Build, Live
<1>3. QED
  BY <1>1, <1>2 DEF BuildInv

LEMMA BuildRequests ==
  ASSUME Undisturbed, TypeOK, OneMessage, Unpublished, BuildInv, NEW r \in Clients,
         Submit(r) \/ Poll(r) \/ RequestStep(r) \/ RequestLost(r)
  PROVE  BuildInv'
<1>1. UNCHANGED <<run, points>>
  BY DEF Submit, Poll, RequestStep, RequestLost, CreateIfAbsent, Reset, Enqueue,
         EnqueueRaises, FailUnqueued, MarkAbandoned
\* The step does not bring r to a write that would challenge a run.
<1>2. ASSUME UNCHANGED record, client'[r].pc \notin {"mark", "reset"},
             \A q \in Clients : q # r => client'[q] = client[q]
      PROVE  BuildInv'
  <2>1. Unchallenged => Unchallenged'
    BY <1>2 DEF Unchallenged
  <2>2. QED
    BY <1>1, <1>2, <2>1, RequestReads
\* It does, but then no run is at work on the record.
<1>3. ASSUME UNCHANGED record,
             record.stale \/ record.status \in {"absent", "failed", "ready"}
      PROVE  BuildInv'
  <2>1. ~(\E w \in Workers : run[w].pc \in Live /\ Own(w))
    BY <1>3 DEF BuildInv, Build
  <2>2. QED
    BY <1>1, <1>3, <2>1, RequestReads
\* A new attempt begins, and no run was at work on the old one.
<1>4. ASSUME record'.attempt = drawn + 1, record'.status # "ready",
             \A w \in Workers : ~(run[w].pc \in Holding /\ Own(w))
      PROVE  BuildInv'
  <2>1. \A w \in Workers : run[w].pc \notin Holding
    BY <1>4 DEF BuildInv, Build
  <2>2. \A w \in Workers : run[w].attempt # record'.attempt
    BY <1>4, FreshId
  <2>3. QED
    BY <1>1, <1>4, <2>1, <2>2, NobodyBuilds
<1>5. CASE CreateIfAbsent(r)
  <2>1. CASE record.status = "absent"
    <3>1. record'.attempt = drawn + 1 /\ record'.status = "pending"
      BY <1>5, <2>1, FreshId, NewPendingFacts DEF CreateIfAbsent
    <3>2. \A w \in Workers : ~(run[w].pc \in Holding /\ Own(w))
      BY <2>1 DEF BuildInv, Build, Live
    <3>3. QED
      BY <1>4, <3>1, <3>2
  <2>2. CASE record.status # "absent" /\ needs_work(record)
    <3>1. UNCHANGED record
      BY <1>5, <2>2 DEF CreateIfAbsent
    <3>2. record.stale \/ record.status \in {"absent", "failed", "ready"}
      BY <2>2 DEF needs_work, is_abandoned
    <3>3. QED
      BY <1>3, <3>1, <3>2
  <2>3. CASE record.status # "absent" /\ ~needs_work(record)
    <3>1. UNCHANGED record /\ Return(r)
      BY <1>5, <2>3 DEF CreateIfAbsent
    <3>2. QED
      BY <1>2, <3>1, GotoFacts
  <2>4. QED
    BY <2>1, <2>2, <2>3
<1>6. CASE (Reset(r) \/ MarkAbandoned(r)) /\ Matches(client[r].attempt)
  <2>1. client[r].pc \in {"mark", "reset"} /\ client[r].attempt = record.attempt
    BY <1>6 DEF Reset, MarkAbandoned, At, Matches
  <2>2. \A w \in Workers : ~(run[w].pc \in Holding /\ Own(w))
    BY <2>1 DEF BuildInv, Build, Unchallenged, Live, Holding
  <2>3. record'.attempt = drawn + 1 /\ record'.status # "ready"
    <3>1. record \in Record /\ drawn + 1 \in Nat
      BY DEF TypeOK
    <3>2. CASE Reset(r)
      <4>1. Write(Restarted(record, drawn + 1))
        BY <1>6, <3>2 DEF Reset
      <4>2. QED
        BY <3>1, <4>1, RestartedWritten
    <3>3. CASE MarkAbandoned(r)
      <4>1. Write(GivenUp(record, drawn + 1))
        BY <1>6, <3>3 DEF MarkAbandoned
      <4>2. QED
        BY <3>1, <4>1, GivenUpWritten
    <3>4. QED
      BY <1>6, <3>2, <3>3
  <2>4. QED
    BY <1>4, <2>2, <2>3
<1>7. CASE (Reset(r) \/ MarkAbandoned(r) \/ FailUnqueued(r)) /\ ~Matches(client[r].attempt)
  <2>1. UNCHANGED record /\ Return(r)
    BY <1>7 DEF Reset, MarkAbandoned, FailUnqueued
  <2>2. QED
    BY <1>2, <2>1, GotoFacts
<1>8. CASE FailUnqueued(r) /\ Matches(client[r].attempt)
  <2>1. client[r].attempt = record.attempt /\ client[r].attempt \notin unacked
    BY <1>8 DEF FailUnqueued, At, Matches, Unpublished, Published
  <2>2. \A w \in Workers : run[w].pc # "idle" => run[w].attempt # record.attempt
    BY <2>1 DEF OneMessage, Running
  <2>3. record'.attempt = record.attempt /\ record'.status = "failed"
    <3>1. record \in Record /\ Write(Failed(record))
      BY <1>8 DEF TypeOK, FailUnqueued
    <3>2. Failed(record).attempt = record.attempt
      BY <3>1 DEF Failed, Record
    <3>3. QED
      BY <3>1, <3>2, FailedType, WriteType
  <2>4. \A w \in Workers : run[w].pc \notin Holding
    BY <2>2 DEF BuildInv, Build, Own, Holding
  <2>5. \A w \in Workers : run[w].pc \in Live => run[w].attempt # record'.attempt
    BY <2>2, <2>3 DEF Live, Holding
  <2>6. QED
    BY <1>1, <2>3, <2>4, <2>5, NobodyBuilds
<1>9. CASE Poll(r)
  <2>1. UNCHANGED record /\ record.stale
    BY <1>9 DEF Poll, is_abandoned
  <2>2. QED
    BY <1>3, <2>1
<1>10. CASE Submit(r) \/ Enqueue(r) \/ EnqueueRaises(r) \/ RequestLost(r)
  <2>1. UNCHANGED record
    BY <1>10 DEF Submit, Enqueue, EnqueueRaises, RequestLost
  <2>2. client'[r].pc \in {"create", "idle", "enqueue failed"}
          /\ \A q \in Clients : q # r => client'[q] = client[q]
    <3>1. CASE Submit(r)
      BY <3>1 DEF Submit, TypeOK, ClientType
    <3>2. CASE Enqueue(r) \/ RequestLost(r)
      BY <3>2, GotoFacts DEF Enqueue, RequestLost
    <3>3. CASE EnqueueRaises(r)
      BY <3>3, GotoFacts DEF EnqueueRaises
    <3>4. QED
      BY <1>10, <3>1, <3>2, <3>3
  <2>3. QED
    BY <1>2, <2>1, <2>2
<1>11. QED
  BY <1>5, <1>6, <1>7, <1>8, <1>9, <1>10 DEF RequestStep

\* A task's step leaves another worker's build alone: who still works on the
\* record's attempt is its only run, and nobody else writes the index.
LEMMA BuildOther ==
  ASSUME TypeOK, OneMessage, BuildInv, NEW w \in Workers,
         TaskStep(w) \/ ChunkBatch(w) \/ TaskFault(w), NEW v \in Workers, v # w
  PROVE  Build(v)'
<1>1. Running(w) /\ run'[v] = run[v] /\ UNCHANGED client
  BY TaskMoves DEF Moves, Ends
<1>2. (Own(v)' <=> Own(v)) /\ (Unchallenged' <=> Unchallenged)
  BY <1>1, TaskWrites DEF Own, Unchallenged
<1>3. UNCHANGED points \/ run[w].pc \in {"delete", "store"}
  BY DEF TaskStep, Check, ReportCloning, Clone, ReportChunking, ChunkingDone, ReportEmbedding,
         DeleteRepo, StoreBatch, ReportStored, WriteReady, Leave, WriteFailed, TaskFailure,
         FailCrashed, Ack, ChunkBatch, TaskFault, StageRaises, ReportRaises, LateRaises,
         TaskFails, TaskFailureRaises, ChildKilled, WorkerLost, Report, On
<1>4. ASSUME run[v].pc \in Live, Own(v)
      PROVE  UNCHANGED <<record, points>>
  <2>1. run[w].attempt # record.attempt
    BY <1>1, <1>4 DEF OneMessage, Running, Own, Live, Holding
  <2>2. UNCHANGED record
    BY <2>1, TaskWrites DEF Matches
  <2>3. run[w].pc \notin {"delete", "store"}
    BY <2>1 DEF BuildInv, Build, Own, Holding
  <2>4. QED
    BY <1>3, <2>2, <2>3
<1>5. Build(v)
  BY DEF BuildInv
<1>6. CASE run[v].pc \in Live /\ Own(v)
  <2>1. UNCHANGED <<record, points>>
    BY <1>4, <1>6
  <2>2. Filled(v)' <=> Filled(v)
    BY <1>1, <2>1 DEF Filled
  <2>3. QED
    BY <1>1, <1>2, <1>5, <2>1, <2>2 DEF Build
<1>7. CASE ~(run[v].pc \in Live /\ Own(v))
  <2>1. run[v].pc \notin Holding
    BY <1>5, <1>7 DEF Build, Live
  <2>2. QED
    BY <1>1, <1>2, <1>7, <2>1 DEF Build, Holding
<1>8. QED
  BY <1>6, <1>7

\* A report of a run at work: either the run is stopped, or the record is its
\* own, and fresh.
LEMMA BuildReport ==
  ASSUME TypeOK, BuildInv, NEW w \in Workers,
         NEW rec \in Record, rec.attempt = record.attempt,
         rec.status \in {"cloning", "chunking", "embedding"},
         NEW next \in Live, Report(w, rec, next),
         next # "clone" => run[w].pc \in Live \ {"clone"},
         next \in {"delete", "store", "report stored", "ready"} => rec.total = run[w].total,
         next \in {"store", "report stored", "ready"} => Filled(w),
         next = "ready" => rec.embedded = run[w].stored
  PROVE  Build(w)' /\ ReadyIsComplete'
<1>1. UNCHANGED <<points, client>> /\ run \in RunType(drawn)
  BY DEF Report, outsideWorker, TypeOK
<1>2. CASE Matches(run[w].attempt)
  <2>1. Write(rec) /\ Continue(w, next)
    BY <1>2 DEF Report
  <2>2. /\ record'.status = rec.status /\ record'.attempt = rec.attempt
        /\ record'.total = rec.total /\ record'.embedded = rec.embedded
    BY <2>1, WriteType
  <2>3. ~record'.stale
    BY <2>1 DEF Write, Record
  <2>4. /\ run'[w].pc = next /\ run'[w].attempt = run[w].attempt
        /\ run'[w].total = run[w].total /\ run'[w].stored = run[w].stored
    BY <1>1, <2>1, ContinueFacts
  <2>5. Own(w) /\ Own(w)'
    BY <1>2, <2>2, <2>4 DEF Matches, Own
  <2>6. next # "clone" => Unchallenged'
    <3>1. ASSUME next # "clone" PROVE Unchallenged
      BY <2>5, <3>1 DEF BuildInv, Build
    <3>2. Unchallenged => Unchallenged'
      BY <1>1, <2>2 DEF Unchallenged
    <3>3. QED
      BY <3>1, <3>2
  <2>7. Filled(w) => Filled(w)'
    BY <1>1, <2>4 DEF Filled
  <2>8. Build(w)'
    BY <2>2, <2>3, <2>4, <2>5, <2>6, <2>7 DEF Build
  <2>9. ReadyIsComplete'
    BY <2>2 DEF ReadyIsComplete
  <2>10. QED
    BY <2>8, <2>9
<1>3. CASE ~Matches(run[w].attempt)
  <2>1. UNCHANGED record /\ Continue(w, "ack")
    BY <1>3 DEF Report
  <2>2. run'[w].pc = "ack"
    BY <1>1, <2>1, ContinueFacts
  <2>3. Build(w)'
    BY <2>2 DEF Build, Live, Holding
  <2>4. ReadyIsComplete'
    BY <1>1, <2>1 DEF BuildInv, ReadyIsComplete
  <2>5. QED
    BY <2>3, <2>4
<1>4. QED
  BY <1>2, <1>3

LEMMA BuildSelf ==
  ASSUME Undisturbed, TypeOK, RunShape, BuildInv, NEW w \in Workers,
         TaskStep(w) \/ ChunkBatch(w) \/ TaskFault(w)
  PROVE  Build(w)' /\ ReadyIsComplete'
<1>1. /\ run \in RunType(drawn) /\ record \in Record /\ Build(w) /\ Shape(run[w])
      /\ ReadyIsComplete
  BY DEF TypeOK, BuildInv, RunShape
<1>2. /\ run[w].total \in 0..MaxBatches /\ run[w].stored \in 0..MaxBatches
      /\ 0 \in 0..MaxBatches
  BY <1>1, IngestionAssumption, RunTypeFacts DEF TypeOK
\* The step ends the run's claim and leaves record and points alone.
<1>3. ASSUME run'[w].pc \notin Live, UNCHANGED <<record, points>>
      PROVE  Build(w)' /\ ReadyIsComplete'
  <2>1. Build(w)'
    BY <1>3 DEF Build, Live, Holding
  <2>2. ReadyIsComplete'
    BY <1>1, <1>3 DEF ReadyIsComplete
  <2>3. QED
    BY <2>1, <2>2
<1>4. CASE ReportCloning(w)
  <2> DEFINE rec == [record EXCEPT !.status = "cloning"]
  <2>1. rec \in Record /\ rec.attempt = record.attempt /\ rec.status = "cloning"
    BY <1>1 DEF Record, InFlight
  <2>2. Report(w, rec, "clone")
    BY <1>4 DEF ReportCloning
  <2>3. QED
    BY <2>1, <2>2, BuildReport DEF Live
<1>5. CASE ReportChunking(w)
  <2> DEFINE rec == [record EXCEPT !.status = "chunking"]
  <2>1. rec \in Record /\ rec.attempt = record.attempt /\ rec.status = "chunking"
    BY <1>1 DEF Record, InFlight
  <2>2. Report(w, rec, "chunk") /\ run[w].pc = "report chunking"
    BY <1>5 DEF ReportChunking, On
  <2>3. QED
    BY <2>1, <2>2, BuildReport DEF Live, Holding
<1>6. CASE ReportEmbedding(w)
  <2> DEFINE rec == [record EXCEPT !.status = "embedding", !.total = run[w].total,
                                   !.embedded = 0]
  <2>1. /\ rec \in Record /\ rec.attempt = record.attempt /\ rec.status = "embedding"
        /\ rec.total = run[w].total
    BY <1>1, <1>2 DEF Record, InFlight
  <2>2. Report(w, rec, "delete") /\ run[w].pc = "report embedding"
    BY <1>6 DEF ReportEmbedding, On
  <2> HIDE DEF rec
  <2>3. QED
    BY <2>1, <2>2, BuildReport DEF Live, Holding
<1>7. CASE ReportStored(w)
  <2> DEFINE rec == [record EXCEPT !.status = "embedding", !.total = run[w].total,
                                   !.embedded = run[w].stored]
             next == IF run[w].stored < run[w].total THEN "store" ELSE "ready"
  <2>1. /\ rec \in Record /\ rec.attempt = record.attempt /\ rec.status = "embedding"
        /\ rec.total = run[w].total /\ rec.embedded = run[w].stored
    BY <1>1, <1>2 DEF Record, InFlight
  <2>2. Report(w, rec, next) /\ run[w].pc = "report stored"
    BY <1>7 DEF ReportStored, On
  <2>3. next \in {"store", "ready"} /\ Filled(w)
    BY <1>1, <2>2 DEF Build
  <2> HIDE DEF rec, next
  <2>4. QED
    BY <2>1, <2>2, <2>3, BuildReport DEF Live, Holding
<1>8. CASE Clone(w) \/ ChunkBatch(w)
  <2>1. Continue(w, "report chunking") /\ UNCHANGED <<record, points, client>>
    BY <1>8 DEF Clone, ChunkBatch, outsideWorker
  <2>2. run'[w].pc = "report chunking" /\ run'[w].attempt = run[w].attempt
    BY <1>1, <2>1, ContinueFacts
  <2>3. run[w].pc \in Live
    BY <1>8 DEF Clone, ChunkBatch, On, Live, Holding
  <2>4. Own(w)' <=> Own(w)
    BY <2>1, <2>2 DEF Own
  <2>5. Own(w) => Unchallenged'
    <3>1. CASE Clone(w)
      BY <2>1, <3>1 DEF Clone, Unchallenged, At, Undisturbed
    <3>2. CASE ChunkBatch(w)
      <4>1. run[w].pc = "chunk"
        BY <3>2 DEF ChunkBatch, On
      <4>2. Own(w) => Unchallenged
        BY <1>1, <4>1 DEF Build, Live, Holding
      <4>3. QED
        BY <2>1, <4>2 DEF Unchallenged
    <3>3. QED
      BY <1>8, <3>1, <3>2
  <2>6. Build(w)'
    BY <1>1, <2>1, <2>2, <2>3, <2>4, <2>5 DEF Build, Holding
  <2>7. QED
    BY <1>1, <2>1, <2>6 DEF ReadyIsComplete
<1>9. CASE ChunkingDone(w)
  <2>1. PICK n \in Batch :
          run' = [run EXCEPT ![w].pc = "report embedding", ![w].total = n]
    BY <1>9 DEF ChunkingDone
  <2>2. run'[w].pc = "report embedding" /\ run'[w].attempt = run[w].attempt
    BY <1>1, <2>1 DEF RunType
  <2>3. run[w].pc = "chunk" /\ UNCHANGED <<record, points, client>>
    BY <1>9 DEF ChunkingDone, On, outsideWorker
  <2>4. (Own(w)' <=> Own(w)) /\ (Unchallenged' <=> Unchallenged)
    BY <2>2, <2>3 DEF Own, Unchallenged
  <2>5. Build(w)'
    BY <1>1, <2>2, <2>3, <2>4 DEF Build, Live, Holding
  <2>6. QED
    BY <1>1, <2>3, <2>5 DEF ReadyIsComplete
<1>10. CASE DeleteRepo(w) \/ StoreBatch(w)
  <2>1. run[w].pc \in {"delete", "store"} /\ UNCHANGED <<record, client>>
    BY <1>10 DEF DeleteRepo, StoreBatch, On, outsideWorker
  <2>2. /\ Own(w) /\ Unchallenged /\ record.total = run[w].total
        /\ record.status \in {"cloning", "chunking", "embedding"} /\ ~record.stale
    BY <1>1, <2>1 DEF Build, Live, Holding
  <2>3. /\ run'[w].pc \in {"store", "report stored"}
        /\ run'[w].attempt = run[w].attempt /\ run'[w].total = run[w].total
    <3>1. CASE DeleteRepo(w)
      BY <1>1, <3>1, ContinueFacts DEF DeleteRepo
    <3>2. CASE StoreBatch(w)
      BY <1>1, <3>2 DEF StoreBatch, RunType
    <3>3. QED
      BY <1>10, <3>1, <3>2
  <2>4. Filled(w)'
    <3>1. CASE DeleteRepo(w)
      <4>1. run'[w].stored = 0
        <5>1. Continue(w, "store") /\ run[w].stored = 0
          BY <1>1, <3>1 DEF DeleteRepo, On, Shape
        <5>2. QED
          BY <1>1, <5>1, ContinueFacts
      <4>2. \A b \in Batch : points'[b] = 0 /\ ~(b <= 0)
        BY <3>1, IngestionAssumption DEF DeleteRepo, Batch
      <4>3. QED
        BY <4>1, <4>2 DEF Filled
    <3>2. CASE StoreBatch(w)
      <4>1. Filled(w) /\ points \in [Batch -> 0..drawn]
        BY <1>1, <3>2 DEF StoreBatch, On, Build, TypeOK
      <4>2. /\ points' = [points EXCEPT ![run[w].stored + 1] = run[w].attempt]
            /\ run' = [run EXCEPT ![w].pc = "report stored", ![w].stored = @ + 1]
        BY <3>2 DEF StoreBatch
      <4>3. run'[w].stored = run[w].stored + 1 /\ run[w].stored \in Nat
        <5>1. run'[w].stored = run[w].stored + 1
          BY <1>1, <4>2 DEF RunType
        <5>2. run[w].stored \in Nat
          BY <1>2, IngestionAssumption
        <5>3. QED
          BY <5>1, <5>2
      <4>4. ASSUME NEW b \in Batch
            PROVE  points'[b] = IF b <= run[w].stored + 1 THEN run[w].attempt ELSE 0
        <5>1. b \in Nat /\ (b <= run[w].stored + 1 <=> b <= run[w].stored \/ b = run[w].stored + 1)
          BY <4>3, IngestionAssumption DEF Batch
        <5>2. points'[b] = IF b = run[w].stored + 1 THEN run[w].attempt ELSE points[b]
          BY <4>1, <4>2
        <5>3. points[b] = IF b <= run[w].stored THEN run[w].attempt ELSE 0
          BY <4>1 DEF Filled
        <5>4. QED
          BY <5>1, <5>2, <5>3
      <4>5. QED
        BY <2>3, <4>3, <4>4 DEF Filled
    <3>3. QED
      BY <1>10, <3>1, <3>2
  <2>5. Own(w)' /\ Unchallenged'
    BY <2>1, <2>2, <2>3 DEF Own, Unchallenged
  <2>6. Build(w)'
    BY <2>1, <2>2, <2>3, <2>4, <2>5 DEF Build
  <2>7. QED
    BY <2>1, <2>2, <2>6 DEF ReadyIsComplete
<1>11. CASE WriteReady(w)
  <2>1. run[w].pc = "ready" /\ UNCHANGED points /\ Continue(w, "leave")
    BY <1>11 DEF WriteReady, On
  <2>2. run'[w].pc = "leave"
    BY <1>1, <2>1, ContinueFacts
  <2>3. CASE ~Matches(run[w].attempt)
    BY <1>3, <1>11, <2>1, <2>2, <2>3 DEF WriteReady, Live, Holding
  <2>4. CASE Matches(run[w].attempt)
    <3>1. /\ record.total = run[w].total /\ record.embedded = run[w].stored
          /\ Filled(w) /\ Own(w)
      BY <1>1, <2>1 DEF Build, Holding
    <3>2. run[w].stored = run[w].total /\ run[w].total > 0
      BY <1>1, <2>1 DEF Shape
    <3>3. record' = [[record EXCEPT !.status = "ready", !.error = FALSE] EXCEPT !.stale = FALSE]
      BY <1>11, <2>4 DEF WriteReady, Write
    <3>4. /\ record'.total = record.total /\ record'.embedded = record.embedded
          /\ record'.attempt = record.attempt
      BY <1>1, <3>3 DEF Record
    <3>5. ReadyIsComplete'
      BY <2>1, <3>1, <3>2, <3>4 DEF ReadyIsComplete, Filled, Own
    <3>6. Build(w)'
      BY <2>2 DEF Build, Live, Holding
    <3>7. QED
      BY <3>5, <3>6
  <2>5. QED
    BY <2>3, <2>4
<1>12. CASE WriteFailed(w) \/ FailCrashed(w)
  <2>1. Continue(w, "ack") /\ UNCHANGED points
    BY <1>12 DEF WriteFailed, FailCrashed
  <2>2. run'[w].pc = "ack"
    BY <1>1, <2>1, ContinueFacts
  <2>3. CASE UNCHANGED record
    BY <1>3, <2>1, <2>2, <2>3 DEF Live, Holding
  <2>4. CASE Write(Failed(record))
    <3>1. record'.status = "failed"
      BY <1>1, <2>4, FailedType, WriteType
    <3>2. QED
      BY <2>2, <3>1 DEF Build, Live, Holding, ReadyIsComplete
  <2>5. QED
    BY <1>12, <2>3, <2>4 DEF WriteFailed, FailCrashed
<1>13. CASE Check(w) \/ Leave(w) \/ TaskFailure(w) \/ TaskFault(w)
  <2>1. UNCHANGED <<record, points>>
    BY <1>13 DEF Check, Leave, TaskFailure, TaskFault, StageRaises, ReportRaises, LateRaises,
         TaskFails, TaskFailureRaises, ChildKilled, WorkerLost
  <2>2. \/ \E pc \in {"report cloning", "write failed", "task failure", "fail crashed", "ack"} :
             Continue(w, pc)
        \/ run' = [run EXCEPT ![w] = Idle]
    BY <1>13 DEF Check, Leave, TaskFailure, TaskFault, StageRaises, ReportRaises, LateRaises,
         TaskFails, TaskFailureRaises, ChildKilled, WorkerLost
  <2>3. run'[w].pc \in {"report cloning", "write failed", "task failure", "fail crashed",
                        "ack", "idle"}
    <3>1. \A pc : Continue(w, pc) => run'[w].pc = pc
      BY <1>1, ContinueFacts
    <3>2. run' = [run EXCEPT ![w] = Idle] => run'[w].pc = "idle"
      BY <1>1 DEF RunType, Idle
    <3>3. QED
      BY <2>2, <3>1, <3>2
  <2>4. QED
    BY <1>3, <2>1, <2>3 DEF Live, Holding
<1>14. CASE Ack(w)
  <2>1. run'[w].pc = "idle" /\ UNCHANGED <<record, points>>
    BY <1>1, <1>14 DEF Ack, RunType, Idle
  <2>2. QED
    BY <1>3, <2>1 DEF Live, Holding
<1>15. QED
  BY <1>4, <1>5, <1>6, <1>7, <1>8, <1>9, <1>10, <1>11, <1>12, <1>13, <1>14 DEF TaskStep

LEMMA BuildInductive ==
  ASSUME Undisturbed
  PROVE  TypeOK /\ RunShape /\ OneMessage /\ Unpublished /\ BuildInv /\ [Next]_vars => BuildInv'
<1> SUFFICES ASSUME TypeOK, RunShape, OneMessage, Unpublished, BuildInv, [Next]_vars
             PROVE  BuildInv'
  OBVIOUS
\* A step that changes neither the record, nor points or requests, nor what
\* runs are at work.
<1>1. ASSUME UNCHANGED <<record, points, client>>,
             \A v \in Workers : run'[v] = run[v] \/ run'[v].pc \notin Live
      PROVE  BuildInv'
  <2>1. (Unchallenged' <=> Unchallenged) /\ ReadyIsComplete'
    BY <1>1 DEF Unchallenged, BuildInv, ReadyIsComplete
  <2>2. ASSUME NEW v \in Workers PROVE Build(v)'
    <3>1. CASE run'[v] = run[v]
      <4>1. Build(v) /\ (Own(v)' <=> Own(v)) /\ (Filled(v)' <=> Filled(v))
        BY <1>1, <3>1 DEF BuildInv, Own, Filled
      <4>2. QED
        BY <1>1, <2>1, <3>1, <4>1 DEF Build
    <3>2. CASE run'[v].pc \notin Live
      BY <3>2 DEF Build, Live, Holding
    <3>3. QED
      BY <1>1, <3>1, <3>2
  <2>3. QED
    BY <2>1, <2>2 DEF BuildInv
<1>2. ASSUME NEW w \in Workers, Deliver(w)
      PROVE  BuildInv'
  <2>1. \A v \in Workers : run'[v] = run[v] \/ run'[v].pc = "check"
    BY <1>2 DEF Deliver, TypeOK, RunType, Idle
  <2>2. QED
    BY <1>1, <1>2, <2>1 DEF Deliver, Live, Holding
<1>3. CASE (\E a \in unacked : Redeliver(a)) \/ UNCHANGED vars
  BY <1>1, <1>3 DEF Redeliver, vars
<1>4. CASE Age
  <2>1. ~Owned /\ record.status \in InFlight /\ UNCHANGED run
    BY <1>4 DEF Age, Undisturbed
  <2>2. record'.status = record.status /\ record'.attempt = record.attempt
    BY <1>4 DEF Age, TypeOK, Record
  <2>3. \A w \in Workers : run[w].pc \in Live => run[w].attempt # record.attempt
    BY <2>1 DEF Owned, Running, Live, Holding
  <2>4. \A w \in Workers : run[w].pc \notin Holding
    BY <2>3 DEF BuildInv, Build, Own, Live
  <2>5. QED
    BY <2>1, <2>2, <2>3, <2>4, NobodyBuilds DEF InFlight
<1>5. ~Expire
  BY DEF Expire, Undisturbed
<1>6. ASSUME NEW w \in Workers, TaskStep(w) \/ ChunkBatch(w) \/ TaskFault(w)
      PROVE  BuildInv'
  BY <1>6, BuildSelf, BuildOther DEF BuildInv
<1>7. QED
  BY <1>2, <1>3, <1>4, <1>5, <1>6, BuildRequests DEF Next

\* A ready repo can be searched completely: its index holds all the batches of
\* the attempt that became ready and nothing of any other, whatever was
\* resubmitted, killed or redelivered, as long as the timeouts hold what they
\* are set for.
THEOREM ReadyComplete == ASSUME Undisturbed PROVE Spec => []ReadyIsComplete
<1> DEFINE Inv == TypeOK /\ RunShape /\ OneMessage /\ Unpublished /\ BuildInv
<1>1. ASSUME Init
      PROVE  OneMessage /\ Unpublished /\ BuildInv
  <2>1. /\ \A w \in Workers : run[w].pc = "idle"
        /\ \A r \in Clients : client[r].pc = "idle"
        /\ queued = {} /\ unacked = {} /\ record.status = "absent"
    BY <1>1, AbsentFacts DEF Init, Idle, NoRequest
  <2>2. OneMessage /\ Unpublished
    BY <2>1 DEF OneMessage, Unpublished, Published, Running, At
  <2>3. BuildInv
    BY <2>1 DEF BuildInv, Build, ReadyIsComplete, Live, Holding
  <2>4. QED
    BY <2>2, <2>3
<1>2. Init => Inv
  BY <1>1, InitialState
<1>3. Inv /\ [Next]_vars => Inv'
  BY TypeInductive, ShapeInductive, OneMessageInductive, UnpublishedInductive,
     BuildInductive DEF Undisturbed
<1>4. Inv => ReadyIsComplete
  BY DEF BuildInv
<1>5. QED
  BY <1>2, <1>3, <1>4, PTL DEF Spec

----------------------------------------------------------------------------
(* A run and the record it works under *)

\* What else the timeouts are set for: no error surfaces after "ready".
\* Requests and workers may still die, the store may fail a worker, and records
\* may expire.
InTime ==
  Faults \cap {"slow step", "slow request", "ambiguous publish", "late error"} = {}

\* The status its own reports have given the record.
StageStatus(w) ==
  /\ On(w, "clone") => record.status = "cloning"
  /\ On(w, "report chunking") => record.status \in {"cloning", "chunking"}
  /\ run[w].pc \in {"chunk", "report embedding"} => record.status = "chunking"
  /\ run[w].pc \in {"delete", "store", "report stored", "ready"} => record.status = "embedding"

\* While its record is there and its own, a run keeps it fresh and in the stage
\* it is at; and once it has cloned, no request is about to write the record.
Guarded(w) ==
  run[w].pc \in Live /\ Matches(run[w].attempt) =>
    /\ StageStatus(w) /\ ~record.stale
    /\ run[w].pc # "clone" => Unchallenged

\* Nobody is about to fail a ready record, nor, without force, to reset it.
ReadySettled ==
  record.status = "ready" =>
    /\ \A r \in Clients : client[r].attempt = record.attempt =>
         /\ client[r].pc \notin {"mark", "enqueue", "enqueue failed"}
         /\ client[r].pc = "reset" => Forced
    /\ \A w \in Workers : run[w].attempt = record.attempt =>
         run[w].pc \notin {"write failed", "fail crashed"}

LifeInv == (\A w \in Workers : Guarded(w)) /\ ReadySettled

LEMMA LifeRequests ==
  ASSUME TypeOK, OneMessage, Unpublished, LifeInv, NEW r \in Clients,
         Submit(r) \/ Poll(r) \/ RequestStep(r) \/ RequestLost(r)
  PROVE  LifeInv'
<1>1. /\ UNCHANGED run
      /\ \A q \in Clients : q # r => client'[q] = client[q]
  BY RequestEffect
<1>2. CASE Quiet(r) \/ Publishes(r)
  <2>1. UNCHANGED record /\ client'[r].pc \in {"idle", "create", "enqueue failed"}
    BY <1>2 DEF Quiet, Publishes
  <2>2. client'[r].pc = "enqueue failed" => At(r, "enqueue") /\ client'[r].attempt = client[r].attempt
    BY <1>2 DEF Quiet, Publishes
  <2>3. Unchallenged => Unchallenged'
    BY <1>1, <2>1 DEF Unchallenged
  <2>4. ReadySettled'
    BY <1>1, <2>1, <2>2 DEF LifeInv, ReadySettled, At
  <2>5. ASSUME NEW w \in Workers PROVE Guarded(w)'
    BY <1>1, <2>1, <2>3 DEF LifeInv, Guarded, StageStatus, Matches, On
  <2>6. QED
    BY <2>4, <2>5 DEF LifeInv
<1>3. CASE Looks(r)
  <2>1. UNCHANGED record
    BY <1>3 DEF Looks
  <2>2. ASSUME NEW w \in Workers, run[w].pc \in Live
        PROVE  ~Matches(run[w].attempt)
    <3>1. SUFFICES ASSUME Matches(run[w].attempt) PROVE FALSE
      OBVIOUS
    <3>2. StageStatus(w) /\ ~record.stale
      BY <2>2, <3>1 DEF LifeInv, Guarded
    <3>3. record.status \in {"cloning", "chunking", "embedding"}
      BY <2>2, <3>2 DEF StageStatus, Live, Holding, On
    <3>4. QED
      BY <1>3, <3>2, <3>3 DEF Looks, needs_work, is_abandoned
  <2>3. ASSUME NEW w \in Workers PROVE Guarded(w)'
    BY <1>1, <2>1, <2>2 DEF Guarded, Matches
  <2>4. record.status = "ready" => client'[r].pc = "reset" /\ Forced
    BY <1>3 DEF Looks, needs_work, is_abandoned, InFlight
  <2>5. ReadySettled'
    BY <1>1, <2>1, <2>4 DEF LifeInv, ReadySettled
  <2>6. QED
    BY <2>3, <2>5 DEF LifeInv
\* The record changes hands, or fails when no run has the attempt yet.
<1>4. CASE Starts(r) \/ Fails(r)
  <2>1. record'.status # "ready"
    BY <1>4 DEF Starts, Fails
  <2>2. ASSUME NEW w \in Workers, run[w].pc \in Live
        PROVE  run[w].attempt # record'.attempt
    <3>1. CASE record'.attempt = drawn + 1
      BY <3>1, FreshId
    <3>2. CASE At(r, "enqueue failed") /\ record'.attempt = record.attempt /\ Fails(r)
      <4>1. client[r].attempt = record.attempt /\ client[r].attempt \notin unacked
        BY <3>2 DEF Fails, Matches, Unpublished, Published, At
      <4>2. run[w].attempt \in unacked
        BY <2>2 DEF OneMessage, Running, Live, Holding
      <4>3. QED
        BY <3>2, <4>1, <4>2
    <3>3. QED
      BY <1>4, <3>1, <3>2 DEF Starts, Fails
  <2>3. ASSUME NEW w \in Workers PROVE Guarded(w)'
    BY <1>1, <2>2 DEF Guarded, Matches
  <2>4. QED
    BY <2>1, <2>3 DEF LifeInv, ReadySettled
<1>5. QED
  BY <1>2, <1>3, <1>4, RequestEffect

LEMMA GuardedTask ==
  ASSUME InTime, TypeOK, OneMessage, LifeInv, NEW w \in Workers,
         TaskStep(w) \/ ChunkBatch(w) \/ TaskFault(w), NEW v \in Workers
  PROVE  Guarded(v)'
<1>1. /\ Running(w) /\ UNCHANGED client
      /\ \A u \in Workers : u # w => run'[u] = run[u]
      /\ run'[w].attempt = run[w].attempt \/ run'[w].pc = "idle"
  BY TaskMoves DEF Moves, Ends
<1>2. /\ record'.attempt = record.attempt
      /\ record' # record => Matches(run[w].attempt)
      /\ Unchallenged => Unchallenged'
  BY <1>1, TaskWrites DEF Unchallenged
<1>3. Guarded(w) /\ Guarded(v)
  BY DEF LifeInv
<1>4. CASE v # w
  <2>1. CASE record' = record
    BY <1>1, <1>2, <1>3, <1>4, <2>1 DEF Guarded, StageStatus, Matches, On
  <2>2. CASE record' # record
    <3>1. run[v].pc \in Live => run[v].attempt # record.attempt
      BY <1>1, <1>2, <1>4, <2>2 DEF OneMessage, Running, Matches, Live, Holding
    <3>2. QED
      BY <1>1, <1>2, <1>4, <3>1 DEF Guarded, Matches
  <2>3. QED
    BY <2>1, <2>2
<1>5. CASE v = w
  <2>1. CASE Reports(w)
    <3>1. CASE On(w, "report cloning")
      BY <1>5, <2>1, <3>1 DEF Reports, Guarded, StageStatus, On
    <3>2. CASE ~On(w, "report cloning")
      <4>1. run[w].pc \in Live \ {"clone"}
        BY <2>1, <3>2 DEF Reports, On, Live, Holding
      <4>2. Unchallenged
        BY <1>3, <2>1, <4>1 DEF Guarded, Reports
      <4>3. StageStatus(w)' /\ ~record'.stale
        BY <2>1 DEF Reports, StageStatus, On
      <4>4. QED
        BY <1>2, <1>5, <4>2, <4>3 DEF Guarded
    <3>3. QED
      BY <3>1, <3>2
  <2>2. CASE Advances(w)
    <3>1. UNCHANGED record /\ run'[w].attempt = run[w].attempt
      BY <1>1, <2>2 DEF Advances, On
    <3>2. CASE On(w, "report cloning")'
      BY <1>5, <3>2 DEF Guarded, On, Live, Holding
    <3>3. CASE On(w, "clone") /\ On(w, "report chunking")'
      <4>1. Unchallenged
        BY <2>2, <3>3 DEF Advances, InTime, Unchallenged, On, At
      <4>2. Matches(run[w].attempt) => StageStatus(w)' /\ ~record.stale
        BY <1>3, <3>1, <3>3 DEF Guarded, StageStatus, On, Live
      <4>3. QED
        BY <1>2, <1>5, <3>1, <4>1, <4>2 DEF Guarded, Matches
    <3>4. CASE run[w].pc \in {"chunk", "delete", "store"}
      <4>1. Matches(run[w].attempt) => StageStatus(w) /\ ~record.stale /\ Unchallenged
        BY <1>3, <3>4 DEF Guarded, Live, Holding
      <4>2. StageStatus(w) => StageStatus(w)'
        BY <2>2, <3>1, <3>4 DEF Advances, StageStatus, On
      <4>3. QED
        BY <1>2, <1>5, <3>1, <4>1, <4>2 DEF Guarded, Matches
    <3>5. QED
      BY <2>2, <3>2, <3>3, <3>4 DEF Advances, On
  <2>3. CASE ~Reports(w) /\ ~Advances(w)
    <3>1. run'[w].pc \notin Live
      BY <2>3, TaskEffect
         DEF Finishes, Yields, Leaves, Raises, Stops, On, Running, Live, Holding
    <3>2. QED
      BY <1>5, <3>1 DEF Guarded
  <2>4. QED
    BY <2>1, <2>2, <2>3
<1>6. QED
  BY <1>4, <1>5

LEMMA SettledTask ==
  ASSUME InTime, TypeOK, OneMessage, Unpublished, ErrorInv, LifeInv, NEW w \in Workers,
         TaskStep(w) \/ ChunkBatch(w) \/ TaskFault(w)
  PROVE  ReadySettled'
<1> SUFFICES ASSUME record'.status = "ready"
             PROVE  ReadySettled'
  BY DEF ReadySettled
<1>1. /\ Running(w) /\ UNCHANGED client
      /\ \A v \in Workers : v # w => run'[v] = run[v]
      /\ run'[w].attempt = run[w].attempt \/ run'[w].pc = "idle"
  BY TaskMoves DEF Moves, Ends
<1>2. CASE UNCHANGED record
  <2>1. run'[w].pc \in {"write failed", "fail crashed"} => run[w].attempt # record.attempt
    <3>1. SUFFICES ASSUME run'[w].pc \in {"write failed", "fail crashed"},
                          run[w].attempt = record.attempt
                   PROVE  FALSE
      OBVIOUS
    <3>2. Raises(w)
      BY <1>2, <3>1, TaskEffect
         DEF Reports, Advances, Finishes, Yields, Leaves, Stops, On, Running
    <3>3. run[w].pc \in Stages
      BY <1>2, <3>1, <3>2 DEF Raises, InTime, On, InFlight
    <3>4. QED
      BY <1>2, <3>1, <3>3 DEF ErrorInv, RunsInFlight, InFlight
  <2>2. ReadySettled
    BY DEF LifeInv
  <2>3. \A v \in Workers : run'[v].attempt = record.attempt =>
          run'[v].pc \notin {"write failed", "fail crashed"}
    BY <1>1, <1>2, <2>1, <2>2 DEF ReadySettled
  <2>4. QED
    BY <1>1, <1>2, <2>2, <2>3 DEF ReadySettled
<1>3. CASE ~UNCHANGED record
  <2>1. On(w, "ready") /\ On(w, "leave")' /\ Matches(run[w].attempt)
          /\ record'.attempt = record.attempt
    BY <1>3, TaskEffect DEF Reports, Advances, Finishes, Yields, Leaves, Raises, Stops
  <2>2. Unchallenged
    BY <2>1 DEF LifeInv, Guarded, Live, Holding, On
  <2>3. run[w].attempt = record.attempt /\ run[w].attempt \in unacked
    BY <1>1, <2>1 DEF Matches, OneMessage
  <2>4. \A r \in Clients : client[r].attempt = record.attempt =>
          client[r].pc \notin {"mark", "reset", "enqueue", "enqueue failed"}
    BY <2>2, <2>3 DEF Unchallenged, Unpublished, Published
  <2>5. \A v \in Workers : v # w /\ run[v].attempt = record.attempt => ~Running(v)
    BY <1>1, <2>3 DEF OneMessage
  <2>6. \A v \in Workers : run'[v].attempt = record.attempt =>
          run'[v].pc \notin {"write failed", "fail crashed"}
    BY <1>1, <2>1, <2>5 DEF Running, On
  <2>7. QED
    BY <1>1, <2>1, <2>4, <2>6 DEF ReadySettled
<1>4. QED
  BY <1>2, <1>3

LEMMA LifeInductive ==
  ASSUME InTime
  PROVE  TypeOK /\ OneMessage /\ Unpublished /\ ErrorInv /\ LifeInv /\ [Next]_vars => LifeInv'
<1> SUFFICES ASSUME TypeOK, OneMessage, Unpublished, ErrorInv, LifeInv, [Next]_vars
             PROVE  LifeInv'
  OBVIOUS
\* A step that leaves records and requests alone, and every run but those that
\* start.
<1>1. ASSUME UNCHANGED <<record, client>>,
             \A v \in Workers : run'[v] = run[v] \/ run'[v].pc = "check"
      PROVE  LifeInv'
  <2>1. Unchallenged => Unchallenged'
    BY <1>1 DEF Unchallenged
  <2>2. ASSUME NEW v \in Workers PROVE Guarded(v)'
    <3>1. CASE run'[v].pc = "check"
      BY <3>1 DEF Guarded, Live, Holding
    <3>2. CASE run'[v] = run[v]
      BY <1>1, <2>1, <3>2 DEF LifeInv, Guarded, StageStatus, Matches, On
    <3>3. QED
      BY <1>1, <3>1, <3>2
  <2>3. ReadySettled'
    <3>1. ReadySettled
      BY DEF LifeInv
    <3>2. \A v \in Workers : run'[v].pc \in {"write failed", "fail crashed"} => run'[v] = run[v]
      BY <1>1
    <3>3. QED
      BY <1>1, <3>1, <3>2 DEF ReadySettled
  <2>4. QED
    BY <2>2, <2>3 DEF LifeInv
<1>2. ASSUME NEW w \in Workers, Deliver(w)
      PROVE  LifeInv'
  <2>1. \A v \in Workers : run'[v] = run[v] \/ run'[v].pc = "check"
    BY <1>2 DEF Deliver, TypeOK, RunType, Idle
  <2>2. QED
    BY <1>1, <1>2, <2>1 DEF Deliver
<1>3. CASE (\E a \in unacked : Redeliver(a)) \/ UNCHANGED vars
  BY <1>1, <1>3 DEF Redeliver, vars
<1>4. CASE Age
  <2>1. ~Owned /\ record.status \in InFlight /\ UNCHANGED run
    BY <1>4 DEF Age, InTime
  <2>2. record'.status = record.status /\ record'.attempt = record.attempt
    BY <1>4 DEF Age, TypeOK, Record
  <2>3. \A w \in Workers : run[w].pc \in Live => run[w].attempt # record.attempt
    BY <2>1 DEF Owned, Running, Live, Holding
  <2>4. QED
    BY <2>1, <2>2, <2>3 DEF LifeInv, Guarded, Matches, ReadySettled, InFlight
<1>5. CASE Expire
  <2>1. record'.status = "absent"
    BY <1>5, AbsentFacts DEF Expire
  <2>2. QED
    BY <2>1 DEF LifeInv, Guarded, Matches, ReadySettled
<1>6. ASSUME NEW w \in Workers, TaskStep(w) \/ ChunkBatch(w) \/ TaskFault(w)
      PROVE  LifeInv'
  BY <1>6, GuardedTask, SettledTask DEF LifeInv
<1>7. QED
  BY <1>2, <1>3, <1>4, <1>5, <1>6, LifeRequests DEF Next

\* Everything that the proofs below know of a state.
StateInv == TypeOK /\ RunShape /\ OneMessage /\ Unpublished /\ ErrorInv /\ LifeInv

LEMMA StateInvariant == ASSUME InTime PROVE Spec => []StateInv
<1>1. ASSUME Init
      PROVE  OneMessage /\ Unpublished /\ ErrorInv /\ LifeInv
  <2>1. /\ \A w \in Workers : run[w].pc = "idle"
        /\ \A r \in Clients : client[r].pc = "idle"
        /\ queued = {} /\ record = Absent
    BY <1>1 DEF Init, Idle, NoRequest
  <2>2. OneMessage /\ Unpublished
    BY <2>1 DEF OneMessage, Unpublished, Published, Running, At
  <2>3. ErrorInv
    BY <2>1, AbsentFacts DEF ErrorInv, RunsInFlight, ErrorOnlyWhenFailed, Stages
  <2>4. LifeInv
    BY <2>1, AbsentFacts DEF LifeInv, Guarded, ReadySettled, Live, Holding
  <2>5. QED
    BY <2>2, <2>3, <2>4
<1>2. Init => StateInv
  BY <1>1, InitialState DEF StateInv
<1>3. StateInv /\ [Next]_vars => StateInv'
  BY TypeInductive, ShapeInductive, OneMessageInductive, UnpublishedInductive,
     ErrorInductive, LifeInductive DEF StateInv, InTime
<1>4. QED
  BY <1>2, <1>3, PTL DEF Spec

\* Final records stay as they are until the repo is submitted again: a failed
\* one is never flipped back to running, and a ready one never fails, whatever
\* dies, as long as the timeouts hold what they are set for (tasks.py:107-108,
\* dependencies.py:335).
THEOREM FinalStays == ASSUME InTime PROVE Spec => FinalUntilResubmitted
<1> DEFINE Kept == record'.status = record.status /\ (record.status = "failed" \/ record' = record)
           Resubmitted == record'.status = "pending" /\ record'.attempt > drawn
           Expired == record' = Absent /\ "expiry" \in Faults
           Settled == record.status \in Final => Kept \/ Resubmitted \/ Expired
<1>1. StateInv /\ [Next]_vars => Settled
  <2> SUFFICES ASSUME StateInv, [Next]_vars, record.status \in Final
               PROVE  Kept \/ Resubmitted \/ Expired
    OBVIOUS
  <2> USE DEF StateInv
  <2>1. CASE UNCHANGED record
    BY <2>1 DEF Final
  <2>2. record.status \in {"ready", "failed"} /\ record.status \notin InFlight \cup {"absent"}
    BY DEF Final, InFlight
  <2>3. ASSUME NEW r \in Clients, Submit(r) \/ Poll(r) \/ RequestStep(r) \/ RequestLost(r)
        PROVE  Kept \/ Resubmitted \/ Expired
    <3>1. CASE Quiet(r) \/ Looks(r) \/ Publishes(r)
      BY <2>1, <3>1 DEF Quiet, Looks, Publishes
    <3>2. CASE Starts(r)
      <4>1. drawn + 1 > drawn
        BY DEF TypeOK
      <4>2. QED
        BY <3>2, <4>1 DEF Starts
    <3>3. CASE Fails(r)
      <4>1. record.status # "ready"
        BY <3>3 DEF Fails, Matches, LifeInv, ReadySettled, At
      <4>2. QED
        BY <2>2, <3>3, <4>1 DEF Fails
    <3>4. QED
      BY <2>3, <3>1, <3>2, <3>3, RequestEffect
  <2>4. ASSUME NEW w \in Workers, TaskStep(w) \/ ChunkBatch(w) \/ TaskFault(w)
        PROVE  Kept \/ Resubmitted \/ Expired
    <3>1. ASSUME run[w].pc \in Stages PROVE ~Matches(run[w].attempt)
      BY <2>2, <3>1 DEF ErrorInv, RunsInFlight, Matches
    <3>2. ~Reports(w)
      BY <3>1 DEF Reports, On, Stages
    <3>3. CASE Finishes(w)
      <4>1. On(w, "write failed") \/ On(w, "fail crashed")
        BY <3>1, <3>3 DEF Finishes, On, Stages
      <4>2. record.status # "ready"
        BY <3>3, <4>1 DEF Finishes, Matches, LifeInv, ReadySettled, On
      <4>3. QED
        BY <2>2, <3>1, <3>3, <4>2 DEF Finishes, On, Stages
    <3>4. CASE ~Finishes(w)
      BY <2>1, <2>4, <3>2, <3>4, TaskEffect DEF Advances, Yields, Leaves, Raises, Stops
    <3>5. QED
      BY <3>3, <3>4
  <2>5. CASE (\E w \in Workers : Deliver(w)) \/ (\E a \in unacked : Redeliver(a))
               \/ UNCHANGED vars
    BY <2>1, <2>5 DEF Deliver, Redeliver, vars
  <2>6. CASE Age \/ Expire
    BY <2>2, <2>6 DEF Age, Expire
  <2>7. QED
    BY <2>3, <2>4, <2>5, <2>6 DEF Next
<1>2. Settled => (record.status \in Final =>
         \/ record'.status = record.status /\ (record.status = "failed" \/ record' = record)
         \/ record'.status = "pending" /\ record'.attempt > drawn
         \/ record' = Absent /\ "expiry" \in Faults)
  OBVIOUS
<1>3. QED
  BY <1>1, <1>2, StateInvariant, PTL DEF Spec, FinalUntilResubmitted

----------------------------------------------------------------------------
(* The lifecycle its readers see is implemented *)

\* Attempt ids of records are positive, so they are told from "no point".
NumberedFromOne == record.status # "absent" => record.attempt > 0

LEMMA NumberedInductive ==
  TypeOK /\ NumberedFromOne /\ [Next]_vars => NumberedFromOne'
<1> SUFFICES ASSUME TypeOK, NumberedFromOne, [Next]_vars
             PROVE  NumberedFromOne'
  OBVIOUS
<1> USE DEF NumberedFromOne
<1>1. CASE UNCHANGED record
  BY <1>1
<1>2. ASSUME NEW r \in Clients, Submit(r) \/ Poll(r) \/ RequestStep(r) \/ RequestLost(r)
      PROVE  NumberedFromOne'
  <2>1. drawn + 1 > 0
    BY DEF TypeOK
  <2>2. CASE Quiet(r) \/ Looks(r) \/ Publishes(r)
    BY <1>1, <2>2 DEF Quiet, Looks, Publishes
  <2>3. CASE Starts(r)
    BY <2>1, <2>3 DEF Starts
  <2>4. CASE Fails(r)
    <3>1. record.status # "absent"
      BY <2>4 DEF Fails, Matches
    <3>2. record'.attempt \in {drawn + 1, record.attempt}
      BY <2>4 DEF Fails
    <3>3. QED
      BY <2>1, <3>1, <3>2
  <2>5. QED
    BY <1>2, <2>2, <2>3, <2>4, RequestEffect
<1>3. ASSUME NEW w \in Workers, TaskStep(w) \/ ChunkBatch(w) \/ TaskFault(w)
      PROVE  NumberedFromOne'
  BY <1>1, <1>3, TaskWrites DEF Matches
<1>4. CASE (\E w \in Workers : Deliver(w)) \/ (\E a \in unacked : Redeliver(a))
             \/ UNCHANGED vars
  BY <1>1, <1>4 DEF Deliver, Redeliver, vars
<1>5. CASE Age
  BY <1>5 DEF Age, TypeOK, Record, InFlight
<1>6. CASE Expire
  BY <1>6, AbsentFacts DEF Expire
<1>7. QED
  BY <1>2, <1>3, <1>4, <1>5, <1>6 DEF Next

\* The index of RepoLifecycle.
Indexed == {points[b] : b \in Batch} \ {0}

\* Only the steps of a run that deletes and stores change the points.
LEMMA IndexSteps ==
  ASSUME TypeOK, NEW w \in Workers, TaskStep(w) \/ ChunkBatch(w) \/ TaskFault(w)
  PROVE  \/ UNCHANGED points
         \/ /\ run[w].pc \in {"delete", "store"} /\ UNCHANGED record
            /\ Indexed' \in SUBSET (Indexed \cup {run[w].attempt})
<1>1. CASE DeleteRepo(w)
  <2>1. \A b \in Batch : points'[b] = 0
    BY <1>1 DEF DeleteRepo
  <2>2. Indexed' = {}
    BY <2>1 DEF Indexed
  <2>3. QED
    BY <1>1, <2>2 DEF DeleteRepo, On
<1>2. CASE StoreBatch(w)
  <2>1. \A b \in Batch : points'[b] \in {points[b], run[w].attempt}
    BY <1>2 DEF StoreBatch, TypeOK
  <2>2. Indexed' \in SUBSET (Indexed \cup {run[w].attempt})
    BY <2>1 DEF Indexed
  <2>3. QED
    BY <1>2, <2>2 DEF StoreBatch, On
<1>3. CASE ~DeleteRepo(w) /\ ~StoreBatch(w)
  BY <1>3 DEF TaskStep, Check, ReportCloning, Clone, ReportChunking, ChunkingDone,
         ReportEmbedding, ReportStored, WriteReady, Leave, WriteFailed, TaskFailure,
         FailCrashed, Ack, ChunkBatch, TaskFault, StageRaises, ReportRaises, LateRaises,
         TaskFails, TaskFailureRaises, ChildKilled, WorkerLost, Report
<1>4. QED
  BY <1>1, <1>2, <1>3

\* A run about to write "ready" has stored its points and nobody else's.
LEMMA IndexAtReady ==
  ASSUME TypeOK, RunShape, BuildInv, NumberedFromOne, NEW w \in Workers,
         On(w, "ready"), Matches(run[w].attempt)
  PROVE  Indexed = {record.attempt}
<1>1. Filled(w) /\ run[w].attempt = record.attempt /\ record.attempt > 0
  BY DEF BuildInv, Build, On, Matches, NumberedFromOne
<1>2. /\ run[w].stored \in Nat /\ run[w].stored > 0
      /\ record.attempt \in Nat
  <2>1. run[w].stored \in 0..MaxBatches /\ run[w].total > 0 /\ run[w].stored = run[w].total
    BY RunTypeFacts DEF TypeOK, RunShape, Shape, On
  <2>2. QED
    BY <2>1, IngestionAssumption DEF TypeOK
<1>3. \A b \in Batch : points[b] \in {record.attempt, 0}
  BY <1>1 DEF Filled
<1>4. 1 \in Batch /\ points[1] = record.attempt
  <2>1. 1 \in Batch
    BY IngestionAssumption DEF Batch
  <2>2. 1 <= run[w].stored
    BY <1>2
  <2>3. QED
    BY <1>1, <2>1, <2>2 DEF Filled
<1>5. record.attempt # 0
  BY <1>1, <1>2
<1>6. QED
  BY <1>3, <1>4, <1>5 DEF Indexed

LifecycleStep == [Lifecycle!Next]_(Lifecycle!lifecycleVars)

LEMMA LifecycleRequests ==
  ASSUME StateInv, NEW r \in Clients,
         Submit(r) \/ Poll(r) \/ RequestStep(r) \/ RequestLost(r)
  PROVE  LifecycleStep
<1> USE DEF StateInv
<1>1. Indexed' = Indexed
  BY RequestEffect DEF Indexed
<1>2. /\ record.status \in InFlight \cup Final \cup {"absent"}
      /\ record.attempt \in Nat /\ drawn \in Nat /\ drawn + 1 > record.attempt
  <2>1. record.attempt \in 0..drawn /\ drawn \in Nat
    BY DEF TypeOK
  <2>2. QED
    BY <2>1 DEF TypeOK, Record
<1>3. CASE Quiet(r) \/ Looks(r) \/ Publishes(r)
  <2>1. UNCHANGED record
    BY <1>3 DEF Quiet, Looks, Publishes
  <2>2. QED
    BY <1>1, <2>1 DEF LifecycleStep, Lifecycle!lifecycleVars, Indexed
<1>4. CASE Starts(r)
  <2>1. record.status = "ready" => Forced
    BY <1>4 DEF Starts, Matches, LifeInv, ReadySettled, At
  <2>2. Lifecycle!Submit
    BY <1>1, <1>2, <1>4, <2>1
       DEF Starts, Lifecycle!Submit, Lifecycle!Running, InFlight, Final, Indexed
  <2>3. QED
    BY <2>2 DEF LifecycleStep, Lifecycle!Next
<1>5. CASE Fails(r)
  <2>1. record.status \notin {"ready", "absent"}
    BY <1>5 DEF Fails, Matches, LifeInv, ReadySettled, At
  <2>2. record'.attempt \in Nat /\ record'.attempt >= record.attempt
    <3>1. record'.attempt \in {drawn + 1, record.attempt}
      BY <1>5 DEF Fails
    <3>2. QED
      BY <1>2, <3>1
  <2>3. Lifecycle!Fail
    BY <1>1, <1>2, <1>5, <2>1, <2>2
       DEF Fails, Lifecycle!Fail, Lifecycle!Running, InFlight, Final, Indexed
  <2>4. QED
    BY <2>3 DEF LifecycleStep, Lifecycle!Next
<1>6. QED
  BY <1>3, <1>4, <1>5, RequestEffect

LEMMA LifecycleTask ==
  ASSUME StateInv, BuildInv, NumberedFromOne, NEW w \in Workers,
         TaskStep(w) \/ ChunkBatch(w) \/ TaskFault(w)
  PROVE  LifecycleStep
<1> USE DEF StateInv
<1>1. /\ record.status \in InFlight \cup Final \cup {"absent"}
      /\ record.attempt \in Nat
      /\ record'.attempt = record.attempt
      /\ UNCHANGED points => Indexed' = Indexed
  BY TaskWrites DEF TypeOK, Record, Indexed
<1>2. CASE run[w].pc \in {"delete", "store"} /\ UNCHANGED record
             /\ Indexed' \in SUBSET (Indexed \cup {run[w].attempt})
  <2>1. run[w].attempt = record.attempt /\ record.status # "absent"
    BY <1>2 DEF BuildInv, Build, Own, Live, Holding
  <2>2. record.status = "embedding"
    BY <1>2, <2>1 DEF LifeInv, Guarded, StageStatus, Matches, Live, Holding
  <2>3. Lifecycle!Reindex
    BY <1>2, <2>1, <2>2 DEF Lifecycle!Reindex, Indexed
  <2>4. QED
    BY <2>3 DEF LifecycleStep, Lifecycle!Next
<1>3. CASE UNCHANGED <<points, record>>
  BY <1>1, <1>3 DEF LifecycleStep, Lifecycle!lifecycleVars, Indexed
<1>4. CASE Reports(w) /\ UNCHANGED points
  <2>1. record.status \in InFlight
    BY <1>4 DEF Reports, ErrorInv, RunsInFlight, Matches, On, Stages
  <2>2. run[w].pc \in Live => StageStatus(w)
    BY <1>4 DEF Reports, LifeInv, Guarded
  <2>3. \/ record'.status = "cloning"
        \/ record'.status = "chunking" /\ record.status \in {"cloning", "chunking"}
        \/ record'.status = "embedding" /\ record.status \in {"chunking", "embedding"}
    BY <1>4, <2>2 DEF Reports, StageStatus, On, Live, Holding
  <2>4. Lifecycle!Report
    BY <1>1, <1>4, <2>1, <2>3 DEF Lifecycle!Report, Lifecycle!Running, InFlight, Indexed
  <2>5. QED
    BY <2>4 DEF LifecycleStep, Lifecycle!Next
<1>5. CASE Finishes(w) /\ UNCHANGED points
  <2>1. CASE On(w, "ready")
    <3>1. record.status = "embedding"
      BY <1>5, <2>1 DEF Finishes, LifeInv, Guarded, StageStatus, On, Live, Holding
    <3>2. Indexed = {record.attempt}
      BY <1>5, <2>1, IndexAtReady DEF Finishes
    <3>3. record'.status = "ready"
      BY <1>5, <2>1 DEF Finishes, On
    <3>4. Lifecycle!Finish
      BY <1>1, <1>5, <3>1, <3>2, <3>3 DEF Lifecycle!Finish, Indexed
    <3>5. QED
      BY <3>4 DEF LifecycleStep, Lifecycle!Next
  <2>2. CASE On(w, "write failed") \/ On(w, "fail crashed")
    <3>1. record.status \notin {"ready", "absent"} /\ record'.status = "failed"
      BY <1>5, <2>2 DEF Finishes, Matches, LifeInv, ReadySettled, On
    <3>2. Lifecycle!Fail
      BY <1>1, <1>5, <3>1 DEF Lifecycle!Fail, Lifecycle!Running, InFlight, Final, Indexed
    <3>3. QED
      BY <3>2 DEF LifecycleStep, Lifecycle!Next
  <2>3. QED
    BY <1>5, <2>1, <2>2 DEF Finishes
<1>6. UNCHANGED record \/ Reports(w) \/ Finishes(w)
  BY TaskEffect DEF Advances, Yields, Leaves, Raises, Stops
<1>7. UNCHANGED points \/ (run[w].pc \in {"delete", "store"} /\ UNCHANGED record
                             /\ Indexed' \in SUBSET (Indexed \cup {run[w].attempt}))
  BY IndexSteps
<1>8. QED
  BY <1>2, <1>3, <1>4, <1>5, <1>6, <1>7

\* What chat and frontend rely on when they read a record or search the index
\* (RepoLifecycle) is what requests, queue and workers together do, whatever
\* dies or is redelivered, as long as the timeouts hold what they are set for
\* and no record expires.
THEOREM LifecycleImplemented ==
  ASSUME Undisturbed, "late error" \notin Faults
  PROVE  Spec => ImplementsLifecycle
<1> DEFINE Inv == StateInv /\ BuildInv /\ NumberedFromOne
<1>1. InTime
  BY DEF Undisturbed, InTime
<1>2. ASSUME Init
      PROVE  BuildInv /\ NumberedFromOne /\ Lifecycle!Init
  <2>1. /\ \A w \in Workers : run[w].pc = "idle"
        /\ record.status = "absent" /\ record.attempt = 0
    BY <1>2, AbsentFacts DEF Init, Idle
  <2>2. BuildInv /\ NumberedFromOne
    BY <2>1 DEF BuildInv, Build, ReadyIsComplete, NumberedFromOne, Live, Holding
  <2>3. Lifecycle!Init
    BY <1>2, <2>1 DEF Init, Lifecycle!Init
  <2>4. QED
    BY <2>2, <2>3
<1>3. StateInv /\ BuildInv /\ NumberedFromOne /\ [Next]_vars => (BuildInv /\ NumberedFromOne)'
  BY BuildInductive, NumberedInductive DEF StateInv
<1>4. StateInv /\ BuildInv /\ NumberedFromOne /\ [Next]_vars => LifecycleStep
  <2> SUFFICES ASSUME StateInv, BuildInv, NumberedFromOne, [Next]_vars
               PROVE  LifecycleStep
    OBVIOUS
  <2>1. ASSUME UNCHANGED points, record'.status = record.status,
               record'.attempt = record.attempt
        PROVE  LifecycleStep
    BY <2>1 DEF LifecycleStep, Lifecycle!lifecycleVars
  <2>2. CASE (\E w \in Workers : Deliver(w)) \/ (\E a \in unacked : Redeliver(a))
               \/ UNCHANGED vars
    BY <2>1, <2>2 DEF Deliver, Redeliver, vars
  <2>3. CASE Age
    <3>1. record'.status = record.status /\ record'.attempt = record.attempt
      BY <2>3 DEF Age, StateInv, TypeOK, Record
    <3>2. QED
      BY <2>1, <2>3, <3>1 DEF Age
  <2>4. ~Expire
    BY DEF Expire, Undisturbed
  <2>5. QED
    BY <2>2, <2>3, <2>4, LifecycleRequests, LifecycleTask DEF Next
<1>5. QED
  BY <1>1, <1>2, <1>3, <1>4, StateInvariant, PTL
     DEF Spec, ImplementsLifecycle, Lifecycle!Spec, LifecycleStep

=============================================================================
