--------------------------- MODULE IngestionProofs ---------------------------
(***************************************************************************)
(* Proofs about Ingestion, for any number of clients, workers, submissions *)
(* and crashes.                                                            *)
(***************************************************************************)
EXTENDS Ingestion, TLAPS

----------------------------------------------------------------------------
(* Types *)

LEMMA AbsentFacts ==
  Absent \in Record /\ Absent.status = "absent" /\ Absent.attempt = 0 /\ ~Absent.error
<1>1. 0 \in 0..MaxBatches
  BY IngestionAssumption
<1>2. QED
  BY <1>1 DEF Absent, Record

LEMMA NewPendingFacts ==
  ASSUME NEW a \in Nat
  PROVE  /\ new_pending(a) \in Record
         /\ new_pending(a).status = "pending"
         /\ new_pending(a).attempt = a
         /\ ~new_pending(a).error
<1>1. 0 \in 0..MaxBatches
  BY IngestionAssumption
<1>2. QED
  BY <1>1 DEF new_pending, Absent, Record, InFlight

\* What drawing an id does to the ranges of TypeOK.
LEMMA DrawnGrows ==
  ASSUME drawn \in Nat
  PROVE  /\ 1..drawn \subseteq 1..(drawn + 1)
         /\ 0..drawn \subseteq 0..(drawn + 1)
         /\ 1..drawn \subseteq 0..drawn
         /\ drawn + 1 \in 1..(drawn + 1)
         /\ drawn + 1 \in 0..(drawn + 1)
         /\ drawn + 1 \notin 0..drawn
         /\ drawn + 1 \in Nat
OBVIOUS

LEMMA ClientTypeFacts ==
  ASSUME NEW n \in Nat, client \in ClientType(n), NEW r \in Clients
  PROVE  /\ client[r].attempt \in 0..n
         /\ \A m \in Nat : n <= m => client \in ClientType(m)
         /\ Return(r) => client' \in ClientType(n)
         /\ \A pc \in RequestPcs, a \in 0..n : Goto(r, pc, a) => client' \in ClientType(n)
<1>1. client[r].attempt \in 0..n
  BY DEF ClientType
<1>2. ASSUME NEW m \in Nat, n <= m
      PROVE  client \in ClientType(m)
  <2>1. 0..n \subseteq 0..m
    BY <1>2
  <2>2. QED
    BY <2>1 DEF ClientType
<1>3. ASSUME Return(r)
      PROVE  client' \in ClientType(n)
  <2>1. NoRequest \in [pc : RequestPcs, attempt : 0..n, admitted : BOOLEAN]
    BY DEF NoRequest, RequestPcs
  <2>2. QED
    BY <1>3, <2>1 DEF ClientType, Return
<1>4. ASSUME NEW pc \in RequestPcs, NEW a \in 0..n, Goto(r, pc, a)
      PROVE  client' \in ClientType(n)
  BY <1>4 DEF ClientType, Goto
<1>5. QED
  BY <1>1, <1>2, <1>3, <1>4

LEMMA RunTypeFacts ==
  ASSUME NEW n \in Nat, run \in RunType(n), NEW w \in Workers
  PROVE  /\ run[w].attempt \in 0..n
         /\ run[w].total \in 0..MaxBatches /\ run[w].stored \in 0..MaxBatches
         /\ \A m \in Nat : n <= m => run \in RunType(m)
         /\ \A pc \in RunPcs : Continue(w, pc) => run' \in RunType(n)
         /\ run' = [run EXCEPT ![w] = Idle] => run' \in RunType(n)
<1>1. /\ run[w].attempt \in 0..n
      /\ run[w].total \in 0..MaxBatches /\ run[w].stored \in 0..MaxBatches
  BY DEF RunType
<1>2. ASSUME NEW m \in Nat, n <= m
      PROVE  run \in RunType(m)
  <2>1. 0..n \subseteq 0..m
    BY <1>2
  <2>2. QED
    BY <2>1 DEF RunType
<1>3. ASSUME NEW pc \in RunPcs, Continue(w, pc)
      PROVE  run' \in RunType(n)
  BY <1>3 DEF RunType, Continue
<1>4. Idle \in [pc : RunPcs, attempt : 0..n, total : 0..MaxBatches, stored : 0..MaxBatches]
  BY IngestionAssumption DEF Idle, RunPcs
<1>5. QED
  BY <1>1, <1>2, <1>3, <1>4 DEF RunType

\* A write stores the record it is given, aged zero.
LEMMA WriteType ==
  ASSUME NEW rec \in Record, Write(rec)
  PROVE  /\ record' \in Record
         /\ record'.status = rec.status /\ record'.attempt = rec.attempt
         /\ record'.error = rec.error
         /\ record'.total = rec.total /\ record'.embedded = rec.embedded
BY DEF Write, Record

LEMMA FailedType ==
  ASSUME NEW rec \in Record
  PROVE  /\ Failed(rec) \in Record
         /\ Failed(rec).status = "failed" /\ Failed(rec).error
         /\ Failed(rec).attempt = rec.attempt
BY DEF Failed, Record, Final

LEMMA GivenUpType ==
  ASSUME NEW rec \in Record, NEW a \in Nat
  PROVE  /\ GivenUp(rec, a) \in Record
         /\ GivenUp(rec, a).status = "failed" /\ GivenUp(rec, a).error
         /\ GivenUp(rec, a).attempt = a
BY DEF GivenUp, Record, Final

LEMMA RestartedType ==
  ASSUME NEW rec \in Record, NEW a \in Nat
  PROVE  /\ Restarted(rec, a) \in Record
         /\ Restarted(rec, a).status = "pending" /\ ~Restarted(rec, a).error
         /\ Restarted(rec, a).attempt = a
BY DEF Restarted, Record, InFlight

\* What is written of a record that is given up, and of one that is retried.
LEMMA GivenUpWritten ==
  ASSUME record \in Record, NEW a \in Nat, Write(GivenUp(record, a))
  PROVE  record' \in Record /\ record'.status = "failed" /\ record'.attempt = a
<1>1. PICK rec : rec = GivenUp(record, a)
  OBVIOUS
<1>2. rec \in Record /\ rec.status = "failed" /\ rec.attempt = a
  BY <1>1, GivenUpType
<1>3. Write(rec)
  BY <1>1
<1>4. QED
  BY <1>2, <1>3, WriteType

LEMMA RestartedWritten ==
  ASSUME record \in Record, NEW a \in Nat, Write(Restarted(record, a))
  PROVE  record' \in Record /\ record'.status = "pending" /\ record'.attempt = a
<1>1. PICK rec : rec = Restarted(record, a)
  OBVIOUS
<1>2. rec \in Record /\ rec.status = "pending" /\ rec.attempt = a
  BY <1>1, RestartedType
<1>3. Write(rec)
  BY <1>1
<1>4. QED
  BY <1>2, <1>3, WriteType

\* Drawing an attempt id widens every range.
LEMMA Widened ==
  ASSUME TypeOK, drawn' = drawn + 1
  PROVE  /\ drawn' \in Nat
         /\ abandoned \subseteq 1..drawn' /\ queued \subseteq 0..drawn'
         /\ unacked \subseteq 0..drawn'
         /\ client \in ClientType(drawn')
         /\ run \in RunType(drawn')
         /\ points \in [Batch -> 0..drawn']
         /\ drawn + 1 \in 1..drawn' /\ drawn + 1 \in 0..drawn' /\ drawn + 1 \in Nat
<1>1. drawn \in Nat /\ drawn + 1 \in Nat /\ drawn <= drawn + 1
  BY DEF TypeOK
<1>2. /\ 1..drawn \subseteq 1..(drawn + 1)
      /\ 0..drawn \subseteq 0..(drawn + 1)
  BY <1>1
<1>3. client \in ClientType(drawn') /\ run \in RunType(drawn')
  BY <1>1, <1>2 DEF TypeOK, ClientType, RunType
<1>4. points \in [Batch -> 0..drawn']
  BY <1>2 DEF TypeOK
<1>5. QED
  BY <1>1, <1>2, <1>3, <1>4 DEF TypeOK

LEMMA CounterStep ==
  ASSUME NEW n \in Nat, NEW i \in 0..n, i < n
  PROVE  i + 1 \in 0..n
OBVIOUS

LEMMA ClientStepType ==
  ASSUME TypeOK, NEW r \in Clients,
         Submit(r) \/ Poll(r) \/ RequestStep(r) \/ RequestLost(r)
  PROVE  TypeOK'
<1> USE DEF TypeOK
<1>1. CASE Submit(r)
  <2>1. needs_work(record) \in BOOLEAN
    BY IngestionAssumption DEF needs_work, is_abandoned, Record
  <2>2. client' \in ClientType(drawn)
    BY <1>1, <2>1 DEF Submit, ClientType, RequestPcs
  <2>3. submits' \in 0..MaxSubmits
    BY <1>1, IngestionAssumption DEF Submit
  <2>4. QED
    BY <1>1, <2>2, <2>3 DEF Submit
<1>2. CASE CreateIfAbsent(r)
  <2>1. CASE record.status = "absent"
    <3>1. client' \in ClientType(drawn')
      BY <1>2, <2>1, Widened, ClientTypeFacts DEF CreateIfAbsent, Goto, RequestPcs, ClientType
    <3>2. record' \in Record /\ record'.attempt \in 0..drawn'
      BY <1>2, <2>1, NewPendingFacts, Widened DEF CreateIfAbsent
    <3>3. QED
      BY <1>2, <2>1, <3>1, <3>2, Widened DEF CreateIfAbsent
  <2>2. CASE record.status # "absent"
    <3>1. client' \in ClientType(drawn)
      BY <1>2, <2>2, ClientTypeFacts DEF CreateIfAbsent, RequestPcs
    <3>2. QED
      BY <1>2, <2>2, <3>1 DEF CreateIfAbsent
  <2>3. QED
    BY <2>1, <2>2
<1>3. CASE Reset(r)
  <2>1. CASE Matches(client[r].attempt)
    <3>1. record' \in Record /\ record'.attempt = drawn + 1
      <4>1. Write(Restarted(record, drawn + 1))
        BY <1>3, <2>1 DEF Reset
      <4>2. drawn + 1 \in Nat
        OBVIOUS
      <4>3. /\ Restarted(record, drawn + 1) \in Record
            /\ Restarted(record, drawn + 1).attempt = drawn + 1
        BY <4>2, RestartedType
      <4>4. QED
        BY <4>1, <4>3, WriteType
    <3>2. client' \in ClientType(drawn')
      BY <1>3, <2>1, Widened, ClientTypeFacts DEF Reset, Goto, RequestPcs, ClientType
    <3>3. QED
      BY <1>3, <2>1, <3>1, <3>2, Widened DEF Reset
  <2>2. CASE ~Matches(client[r].attempt)
    BY <1>3, <2>2, ClientTypeFacts DEF Reset
  <2>3. QED
    BY <2>1, <2>2
<1>4. CASE Enqueue(r)
  BY <1>4, ClientTypeFacts DEF Enqueue, RequestPcs
<1>5. CASE EnqueueRaises(r)
  BY <1>5, ClientTypeFacts DEF EnqueueRaises, RequestPcs
<1>6. CASE FailUnqueued(r)
  <2>1. record' \in Record /\ record'.attempt = record.attempt
    BY <1>6, FailedType, WriteType DEF FailUnqueued
  <2>2. QED
    BY <1>6, <2>1, ClientTypeFacts DEF FailUnqueued
<1>7. CASE Poll(r)
  BY <1>7, ClientTypeFacts DEF Poll, RequestPcs
<1>8. CASE MarkAbandoned(r)
  <2>1. CASE Matches(client[r].attempt)
    <3>1. record' \in Record /\ record'.attempt = drawn + 1
      <4>1. record \in Record /\ drawn + 1 \in Nat
        OBVIOUS
      <4>2. QED
        BY <1>8, <2>1, <4>1, GivenUpWritten DEF MarkAbandoned
    <3>2. client' \in ClientType(drawn')
      <4>1. drawn' \in Nat /\ client \in ClientType(drawn')
        BY <1>8, <2>1, Widened DEF MarkAbandoned
      <4>2. QED
        BY <1>8, <4>1, ClientTypeFacts DEF MarkAbandoned
    <3>3. QED
      BY <1>8, <2>1, <3>1, <3>2, Widened DEF MarkAbandoned
  <2>2. CASE ~Matches(client[r].attempt)
    BY <1>8, <2>2, ClientTypeFacts DEF MarkAbandoned
  <2>3. QED
    BY <2>1, <2>2
<1>9. CASE RequestLost(r)
  <2>1. crashes' \in 0..MaxCrashes
    BY <1>9, IngestionAssumption, CounterStep DEF RequestLost
  <2>2. QED
    BY <1>9, <2>1, ClientTypeFacts DEF RequestLost
<1>10. QED
  BY <1>1, <1>2, <1>3, <1>4, <1>5, <1>6, <1>7, <1>8, <1>9 DEF RequestStep

LEMMA WorkerWriteType ==
  ASSUME TypeOK, NEW w \in Workers, NEW rec \in Record, rec.attempt = record.attempt,
         NEW next \in RunPcs, Report(w, rec, next)
  PROVE  TypeOK'
<1>1. record' \in Record /\ record'.attempt = record.attempt
  BY WriteType DEF Report, TypeOK
<1>2. run' \in RunType(drawn)
  BY RunTypeFacts DEF Report, TypeOK, RunPcs
<1>3. QED
  BY <1>1, <1>2 DEF Report, outsideWorker, TypeOK

LEMMA TaskType ==
  ASSUME TypeOK, RunShape, NEW w \in Workers,
         Deliver(w) \/ TaskStep(w) \/ ChunkBatch(w) \/ TaskFault(w)
  PROVE  TypeOK'
<1> USE DEF TypeOK
<1>1. CASE Deliver(w)
  <2>1. PICK a \in queued :
          run' = [run EXCEPT ![w] = [Idle EXCEPT !.pc = "check", !.attempt = a]]
    BY <1>1 DEF Deliver
  <2> DEFINE new == [Idle EXCEPT !.pc = "check", !.attempt = a]
  <2>2. 0 \in 0..MaxBatches /\ a \in 0..drawn
    BY IngestionAssumption
  <2>3. new \in [pc : RunPcs, attempt : 0..drawn, total : 0..MaxBatches,
                 stored : 0..MaxBatches]
    BY <2>2 DEF Idle, RunPcs
  <2>4. run' \in RunType(drawn)
    BY <2>1, <2>3 DEF RunType
  <2>5. unacked' \subseteq 0..drawn /\ queued' \subseteq 0..drawn
    BY <1>1 DEF Deliver
  <2>6. QED
    BY <1>1, <2>4, <2>5 DEF Deliver
<1>2. CASE Check(w) \/ Clone(w) \/ ChunkBatch(w) \/ Leave(w) \/ TaskFailure(w)
  <2>1. run' \in RunType(drawn)
    BY <1>2, RunTypeFacts DEF Check, Clone, ChunkBatch, Leave, TaskFailure, RunPcs, Stages
  <2>2. QED
    BY <1>2, <2>1 DEF Check, Clone, ChunkBatch, Leave, TaskFailure, outsideWorker
<1>3. CASE ReportCloning(w)
  <2>1. [record EXCEPT !.status = "cloning"] \in Record
    BY DEF Record, InFlight
  <2>2. QED
    BY <1>3, <2>1, WorkerWriteType DEF ReportCloning, Record, RunPcs, Stages
<1>4. CASE ReportChunking(w)
  <2>1. [record EXCEPT !.status = "chunking"] \in Record
    BY DEF Record, InFlight
  <2>2. QED
    BY <1>4, <2>1, WorkerWriteType DEF ReportChunking, Record, RunPcs, Stages
<1>5. CASE ChunkingDone(w)
  <2>1. run' \in RunType(drawn)
    <3>1. PICK n \in Batch :
            run' = [run EXCEPT ![w].pc = "report embedding", ![w].total = n]
      BY <1>5 DEF ChunkingDone
    <3>2. n \in 0..MaxBatches
      BY IngestionAssumption DEF Batch
    <3>3. PICK after : after = [run[w] EXCEPT !.pc = "report embedding", !.total = n]
      OBVIOUS
    <3>4. after \in [pc : RunPcs, attempt : 0..drawn, total : 0..MaxBatches,
                     stored : 0..MaxBatches]
      BY <3>2, <3>3 DEF RunType, RunPcs, Stages
    <3>5. run' = [run EXCEPT ![w] = after]
      BY <3>1, <3>3 DEF RunType
    <3>6. QED
      BY <3>4, <3>5 DEF RunType
  <2>2. QED
    BY <1>5, <2>1 DEF ChunkingDone, outsideWorker
<1>6. CASE ReportEmbedding(w)
  <2>1. /\ run[w].total \in 0..MaxBatches
        /\ 0 \in 0..MaxBatches
    BY RunTypeFacts, IngestionAssumption
  <2>2. [record EXCEPT !.status = "embedding", !.total = run[w].total, !.embedded = 0]
          \in Record
    BY <2>1 DEF Record, InFlight
  <2>3. QED
    BY <1>6, <2>2, WorkerWriteType DEF ReportEmbedding, Record, RunPcs, Stages
<1>7. CASE DeleteRepo(w)
  <2>1. run' \in RunType(drawn)
    BY <1>7, RunTypeFacts DEF DeleteRepo, RunPcs, Stages
  <2>2. QED
    BY <1>7, <2>1 DEF DeleteRepo, outsideWorker
<1>8. CASE StoreBatch(w)
  <2>1. /\ run[w].stored + 1 \in 0..MaxBatches
        /\ run[w].attempt \in 0..drawn
    <3>1. /\ run[w].stored \in 0..MaxBatches /\ run[w].total \in 0..MaxBatches
          /\ run[w].attempt \in 0..drawn
      BY RunTypeFacts
    <3>2. run[w].stored < run[w].total
      BY <1>8 DEF StoreBatch, RunShape, Shape, On
    <3>3. QED
      BY <3>1, <3>2, IngestionAssumption
  <2>2. run' \in RunType(drawn)
    <3>1. PICK n : n = run[w].stored + 1
      OBVIOUS
    <3>2. PICK after : after = [run[w] EXCEPT !.pc = "report stored", !.stored = n]
      OBVIOUS
    <3>3. after \in [pc : RunPcs, attempt : 0..drawn, total : 0..MaxBatches,
                     stored : 0..MaxBatches]
      BY <2>1, <3>1, <3>2 DEF RunType, RunPcs, Stages
    <3>4. run' = [run EXCEPT ![w] = after]
      BY <1>8, <3>1, <3>2 DEF StoreBatch, RunType
    <3>5. QED
      BY <3>3, <3>4 DEF RunType
  <2>3. points' \in [Batch -> 0..drawn]
    BY <1>8, <2>1 DEF StoreBatch
  <2>4. QED
    BY <1>8, <2>2, <2>3 DEF StoreBatch, outsideWorker
<1>9. CASE ReportStored(w)
  <2>1. /\ run[w].total \in 0..MaxBatches
        /\ run[w].stored \in 0..MaxBatches
    BY RunTypeFacts
  <2>2. [record EXCEPT !.status = "embedding", !.total = run[w].total,
                       !.embedded = run[w].stored] \in Record
    BY <2>1 DEF Record, InFlight
  <2>3. QED
    BY <1>9, <2>2, WorkerWriteType DEF ReportStored, Record, RunPcs, Stages
<1>10. CASE WriteReady(w)
  <2>1. [record EXCEPT !.status = "ready", !.error = FALSE] \in Record
    BY DEF Record, Final
  <2>2. record' \in Record /\ record'.attempt = record.attempt
    BY <1>10, <2>1, WriteType DEF WriteReady, Record
  <2>3. run' \in RunType(drawn)
    BY <1>10, RunTypeFacts DEF WriteReady, RunPcs
  <2>4. QED
    BY <1>10, <2>2, <2>3 DEF WriteReady, outsideWorker
<1>11. CASE WriteFailed(w) \/ FailCrashed(w)
  <2>1. record' \in Record /\ record'.attempt = record.attempt
    BY <1>11, FailedType, WriteType DEF WriteFailed, FailCrashed
  <2>2. run' \in RunType(drawn)
    BY <1>11, RunTypeFacts DEF WriteFailed, FailCrashed, RunPcs
  <2>3. QED
    BY <1>11, <2>1, <2>2 DEF WriteFailed, FailCrashed, outsideWorker
<1>12. CASE Ack(w)
  BY <1>12, RunTypeFacts DEF Ack
<1>13. CASE StageRaises(w) \/ ReportRaises(w) \/ LateRaises(w) \/ TaskFails(w)
              \/ TaskFailureRaises(w)
  <2>1. run' \in RunType(drawn)
    BY <1>13, RunTypeFacts
       DEF StageRaises, ReportRaises, LateRaises, TaskFails, TaskFailureRaises, RunPcs
  <2>2. QED
    BY <1>13, <2>1
       DEF StageRaises, ReportRaises, LateRaises, TaskFails, TaskFailureRaises, outsideWorker
<1>14. CASE ChildKilled(w) \/ WorkerLost(w)
  <2>1. run' \in RunType(drawn)
    BY <1>14, RunTypeFacts DEF ChildKilled, WorkerLost, RunPcs
  <2>2. crashes' \in 0..MaxCrashes
    BY <1>14, IngestionAssumption, CounterStep DEF ChildKilled, WorkerLost
  <2>3. QED
    BY <1>14, <2>1, <2>2 DEF ChildKilled, WorkerLost
<1>15. QED
  BY <1>1, <1>2, <1>3, <1>4, <1>5, <1>6, <1>7, <1>8, <1>9, <1>10, <1>11, <1>12,
     <1>13, <1>14 DEF TaskStep, TaskFault

\* What moving a run to its next step does to it and to the other runs.
LEMMA ContinueFacts ==
  ASSUME run \in RunType(drawn), NEW w \in Workers, NEW pc, Continue(w, pc)
  PROVE  /\ run'[w].pc = pc
         /\ run'[w].attempt = run[w].attempt
         /\ run'[w].total = run[w].total /\ run'[w].stored = run[w].stored
         /\ \A v \in Workers : v # w => run'[v] = run[v]
BY DEF RunType, Continue

LEMMA ShapeStep ==
  ASSUME RunShape, NEW w \in Workers, Shape(run'[w]),
         \A v \in Workers : v # w => run'[v] = run[v]
  PROVE  RunShape'
BY DEF RunShape

LEMMA ShapeInductive == TypeOK /\ RunShape /\ [Next]_vars => RunShape'
<1> SUFFICES ASSUME TypeOK, RunShape, [Next]_vars
             PROVE  RunShape'
  OBVIOUS
<1>1. ASSUME NEW r \in Clients, Submit(r) \/ Poll(r) \/ RequestStep(r) \/ RequestLost(r)
      PROVE  RunShape'
  <2>1. UNCHANGED run
    BY <1>1 DEF Submit, Poll, RequestStep, RequestLost, CreateIfAbsent, Reset,
                Enqueue, EnqueueRaises, FailUnqueued, MarkAbandoned
  <2>2. QED
    BY <2>1 DEF RunShape
<1>2. ASSUME NEW w \in Workers, Deliver(w) \/ TaskStep(w) \/ ChunkBatch(w) \/ TaskFault(w)
      PROVE  RunShape'
  <2> DEFINE Others == \A v \in Workers : v # w => run'[v] = run[v]
  <2>1. run \in RunType(drawn) /\ run[w].stored \in Nat /\ run[w].total \in Nat
    BY RunTypeFacts DEF TypeOK
  <2>2. Shape(run[w])
    BY DEF RunShape
  <2>3. CASE Deliver(w)
    <3>1. PICK a \in queued :
            run' = [run EXCEPT ![w] = [Idle EXCEPT !.pc = "check", !.attempt = a]]
      BY <2>3 DEF Deliver
    <3>2. run'[w].pc = "check" /\ run'[w].stored = 0 /\ Others
      BY <2>1, <3>1 DEF RunType, Idle
    <3>3. QED
      BY <3>2, ShapeStep DEF Shape
  <2>4. ASSUME NEW pc, Continue(w, pc),
               pc \in RunPcs \ (Stages \cup {"check"})
        PROVE  RunShape'
    <3>1. Shape(run'[w])
      BY <2>1, <2>4, ContinueFacts DEF Shape, RunPcs, Stages
    <3>2. QED
      BY <2>1, <2>4, <3>1, ContinueFacts, ShapeStep
  <2>5. CASE Check(w) \/ Clone(w) \/ ChunkBatch(w)
    <3>1. /\ run[w].stored = 0
          /\ \E pc \in {"report cloning", "report chunking", "ack"} : Continue(w, pc)
      BY <2>2, <2>5 DEF Check, Clone, ChunkBatch, On, Shape
    <3>2. PICK pc \in {"report cloning", "report chunking", "ack"} : Continue(w, pc)
      BY <3>1
    <3>3. Shape(run'[w])
      BY <2>1, <3>1, <3>2, ContinueFacts DEF Shape
    <3>4. QED
      BY <2>1, <3>2, <3>3, ContinueFacts, ShapeStep
  <2>6. CASE Leave(w) \/ TaskFailure(w) \/ WriteReady(w) \/ WriteFailed(w) \/ FailCrashed(w)
    <3>1. \E pc \in {"ack", "fail crashed", "leave"} : Continue(w, pc)
      BY <2>6 DEF Leave, TaskFailure, WriteReady, WriteFailed, FailCrashed
    <3>2. QED
      BY <2>4, <3>1 DEF RunPcs, Stages
  <2>7. CASE ReportCloning(w) \/ ReportChunking(w)
    <3>1. /\ run[w].stored = 0
          /\ \E pc \in {"clone", "chunk", "ack"} : Continue(w, pc)
      BY <2>2, <2>7 DEF ReportCloning, ReportChunking, Report, On, Shape
    <3>2. PICK pc \in {"clone", "chunk", "ack"} : Continue(w, pc)
      BY <3>1
    <3>3. Shape(run'[w])
      BY <2>1, <3>1, <3>2, ContinueFacts DEF Shape
    <3>4. QED
      BY <2>1, <3>2, <3>3, ContinueFacts, ShapeStep
  <2>8. CASE ReportEmbedding(w) \/ DeleteRepo(w)
    <3>1. /\ run[w].stored = 0 /\ run[w].total > 0
          /\ \E pc \in {"delete", "store", "ack"} : Continue(w, pc)
      BY <2>2, <2>8 DEF ReportEmbedding, DeleteRepo, Report, On, Shape
    <3>2. PICK pc \in {"delete", "store", "ack"} : Continue(w, pc)
      BY <3>1
    <3>3. Shape(run'[w])
      BY <2>1, <3>1, <3>2, ContinueFacts DEF Shape
    <3>4. QED
      BY <2>1, <3>2, <3>3, ContinueFacts, ShapeStep
  <2>9. CASE ReportStored(w)
    <3>1. run[w].stored \in 1..run[w].total
      BY <2>2, <2>9 DEF ReportStored, On, Shape
    <3>2. CASE Continue(w, "ack")
      BY <2>4, <3>2 DEF RunPcs, Stages
    <3>3. CASE run[w].stored < run[w].total /\ Continue(w, "store")
      <4>1. run'[w].pc = "store" /\ run'[w].stored < run'[w].total
        BY <2>1, <3>3, ContinueFacts
      <4>2. Shape(run'[w])
        BY <4>1 DEF Shape
      <4>3. QED
        BY <2>1, <3>3, <4>2, ContinueFacts, ShapeStep
    <3>4. CASE ~(run[w].stored < run[w].total) /\ Continue(w, "ready")
      <4>1. run[w].stored = run[w].total /\ run[w].total > 0
        BY <2>1, <3>1, <3>4
      <4>2. run'[w].pc = "ready" /\ run'[w].stored = run'[w].total /\ run'[w].total > 0
        BY <2>1, <3>4, <4>1, ContinueFacts
      <4>3. Shape(run'[w])
        BY <4>2 DEF Shape
      <4>4. QED
        BY <2>1, <3>4, <4>3, ContinueFacts, ShapeStep
    <3>5. QED
      BY <2>9, <3>2, <3>3, <3>4 DEF ReportStored, Report
  <2>10. CASE ChunkingDone(w)
    <3>1. PICK n \in Batch :
            run' = [run EXCEPT ![w].pc = "report embedding", ![w].total = n]
      BY <2>10 DEF ChunkingDone
    <3>2. run[w].stored = 0 /\ n > 0
      <4>1. run[w].stored = 0
        BY <2>2, <2>10 DEF ChunkingDone, On, Shape
      <4>2. n > 0
        BY IngestionAssumption DEF Batch
      <4>3. QED
        BY <4>1, <4>2
    <3>3. /\ run'[w].pc = "report embedding" /\ run'[w].stored = 0 /\ run'[w].total = n
          /\ Others
      BY <2>1, <3>1, <3>2 DEF RunType
    <3>4. QED
      BY <3>2, <3>3, ShapeStep DEF Shape
  <2>11. CASE StoreBatch(w)
    <3>1. run[w].stored < run[w].total
      BY <2>2, <2>11 DEF StoreBatch, On, Shape
    <3>2. /\ run'[w].pc = "report stored" /\ run'[w].stored = run[w].stored + 1
          /\ run'[w].total = run[w].total /\ Others
      BY <2>1, <2>11 DEF StoreBatch, RunType
    <3>3. run'[w].stored \in 1..run'[w].total
      <4> DEFINE stored == run[w].stored
                 total == run[w].total
      <4>1. stored \in Nat /\ total \in Nat /\ stored < total
        BY <2>1, <3>1
      <4> HIDE DEF stored, total
      <4>2. stored + 1 \in 1..total
        BY <4>1
      <4>3. QED
        BY <3>2, <4>2 DEF stored, total
    <3>4. QED
      BY <3>2, <3>3, ShapeStep DEF Shape
  <2>12. CASE Ack(w) \/ WorkerLost(w)
    <3>1. run'[w].pc = "idle" /\ Others
      BY <2>1, <2>12 DEF Ack, WorkerLost, RunType, Idle
    <3>2. QED
      BY <3>1, ShapeStep DEF Shape
  <2>13. CASE StageRaises(w) \/ ReportRaises(w) \/ LateRaises(w) \/ TaskFails(w)
                \/ TaskFailureRaises(w) \/ ChildKilled(w)
    <3>1. \E pc \in {"write failed", "task failure", "ack"} : Continue(w, pc)
      BY <2>13 DEF StageRaises, ReportRaises, LateRaises, TaskFails, TaskFailureRaises,
                   ChildKilled
    <3>2. QED
      BY <2>4, <3>1 DEF RunPcs, Stages
  <2>14. QED
    BY <1>2, <2>3, <2>5, <2>6, <2>7, <2>8, <2>9, <2>10, <2>11, <2>12, <2>13
       DEF TaskStep, TaskFault
<1>3. CASE (\E a \in unacked : Redeliver(a)) \/ Age \/ Expire \/ UNCHANGED vars
  BY <1>3 DEF RunShape, Redeliver, Age, Expire, vars
<1>4. QED
  BY <1>1, <1>2, <1>3 DEF Next

LEMMA TypeInductive == TypeOK /\ RunShape /\ [Next]_vars => TypeOK'
<1> SUFFICES ASSUME TypeOK, RunShape, [Next]_vars
             PROVE  TypeOK'
  OBVIOUS
<1>1. CASE \E a \in unacked : Redeliver(a)
  BY <1>1 DEF Redeliver, TypeOK
<1>2. CASE Age
  BY <1>2 DEF Age, TypeOK, Record
<1>3. CASE Expire
  BY <1>3, AbsentFacts DEF Expire, TypeOK
<1>4. CASE UNCHANGED vars
  BY <1>4 DEF vars, TypeOK, RunType, ClientType
<1>5. QED
  BY <1>1, <1>2, <1>3, <1>4, ClientStepType, TaskType DEF Next

LEMMA InitialState == Init => TypeOK /\ RunShape
<1>1. ASSUME Init
      PROVE  TypeOK
  <2>1. NoRequest \in [pc : RequestPcs, attempt : 0..0, admitted : BOOLEAN]
    BY DEF NoRequest, RequestPcs
  <2>2. Idle \in [pc : RunPcs, attempt : 0..0, total : 0..MaxBatches, stored : 0..MaxBatches]
    BY IngestionAssumption DEF Idle, RunPcs
  <2>3. QED
    BY <1>1, <2>1, <2>2, AbsentFacts, IngestionAssumption
       DEF Init, TypeOK, ClientType, RunType
<1>2. ASSUME Init
      PROVE  RunShape
  <2>1. ASSUME NEW w \in Workers
        PROVE  run[w].pc = "idle"
    BY <1>2, <2>1 DEF Init, Idle
  <2>2. QED
    BY <2>1 DEF RunShape, Shape
<1>3. QED
  BY <1>1, <1>2

\* Every reachable state is well typed: in particular no id that was never
\* drawn is in the record, in a message, in a request or on a point.
THEOREM TypeCorrect == Spec => [](TypeOK /\ RunShape)
<1>1. TypeOK /\ RunShape /\ [Next]_vars => (TypeOK /\ RunShape)'
  BY TypeInductive, ShapeInductive
<1>2. QED
  BY <1>1, InitialState, PTL DEF Spec

----------------------------------------------------------------------------
(* What a task's step may change *)

\* Inside a run: it keeps its attempt, and its message stays unacknowledged.
Moves(w) ==
  /\ Running(w) /\ run'[w].pc # "idle" /\ run'[w].attempt = run[w].attempt
  /\ unacked' = unacked
\* The run is over, acknowledged or not.
Ends(w) ==
  /\ Running(w) /\ run'[w].pc = "idle"
  /\ unacked' = unacked \/ unacked' = unacked \ {run[w].attempt}

LEMMA MovesBy ==
  ASSUME TypeOK, NEW w \in Workers, Running(w), NEW pc \in RunPcs \ {"idle"},
         Continue(w, pc), UNCHANGED unacked
  PROVE  Moves(w) /\ \A v \in Workers : v # w => run'[v] = run[v]
BY ContinueFacts DEF Moves, TypeOK

LEMMA TaskMoves ==
  ASSUME TypeOK, NEW w \in Workers, TaskStep(w) \/ ChunkBatch(w) \/ TaskFault(w)
  PROVE  /\ Moves(w) \/ Ends(w)
         /\ \A v \in Workers : v # w => run'[v] = run[v]
         /\ UNCHANGED <<drawn, abandoned, queued, client>>
<1> DEFINE Others == \A v \in Workers : v # w => run'[v] = run[v]
           Next0 == RunPcs \ {"idle"}
<1>1. CASE Ack(w) \/ WorkerLost(w)
  <2>1. run' = [run EXCEPT ![w] = Idle] /\ Running(w)
    BY <1>1 DEF Ack, WorkerLost, Running
  <2>2. run'[w].pc = "idle" /\ Others
    BY <2>1 DEF TypeOK, RunType, Idle
  <2>3. Ends(w)
    BY <1>1, <2>1, <2>2 DEF Ack, WorkerLost, Ends
  <2>4. QED
    BY <1>1, <2>2, <2>3 DEF Ack, WorkerLost
<1>2. CASE ChunkingDone(w)
  <2>1. PICK n \in Batch :
          run' = [run EXCEPT ![w].pc = "report embedding", ![w].total = n]
    BY <1>2 DEF ChunkingDone
  <2>2. run'[w].pc # "idle" /\ run'[w].attempt = run[w].attempt /\ Others
    BY <2>1 DEF TypeOK, RunType
  <2>3. QED
    BY <1>2, <2>2 DEF ChunkingDone, outsideWorker, Moves, Running, On
<1>3. CASE StoreBatch(w)
  <2>1. run'[w].pc # "idle" /\ run'[w].attempt = run[w].attempt /\ Others
    BY <1>3 DEF StoreBatch, TypeOK, RunType
  <2>2. QED
    BY <1>3, <2>1 DEF StoreBatch, outsideWorker, Moves, Running, On
<1>4. ASSUME NEW pc \in Next0, Continue(w, pc), Running(w),
             UNCHANGED <<drawn, abandoned, queued, unacked, client>>
      PROVE  Moves(w) /\ Others /\ UNCHANGED <<drawn, abandoned, queued, client>>
  BY <1>4, MovesBy
<1>5. ASSUME Check(w) \/ Clone(w) \/ ChunkBatch(w) \/ Leave(w) \/ TaskFailure(w)
               \/ WriteReady(w) \/ WriteFailed(w) \/ FailCrashed(w) \/ DeleteRepo(w)
      PROVE  /\ Running(w) /\ UNCHANGED <<drawn, abandoned, queued, unacked, client>>
             /\ \E pc \in Next0 : Continue(w, pc)
  BY <1>5 DEF Check, Clone, ChunkBatch, Leave, TaskFailure, WriteReady, WriteFailed,
              FailCrashed, DeleteRepo, outsideWorker, Running, On, RunPcs, Stages
<1>6. ASSUME ReportCloning(w) \/ ReportChunking(w) \/ ReportEmbedding(w) \/ ReportStored(w)
      PROVE  /\ Running(w) /\ UNCHANGED <<drawn, abandoned, queued, unacked, client>>
             /\ \E pc \in Next0 : Continue(w, pc)
  BY <1>6 DEF ReportCloning, ReportChunking, ReportEmbedding, ReportStored, Report,
              outsideWorker, Running, On, RunPcs, Stages
<1>7. ASSUME StageRaises(w) \/ ReportRaises(w) \/ LateRaises(w) \/ TaskFails(w)
               \/ TaskFailureRaises(w) \/ ChildKilled(w)
      PROVE  /\ Running(w) /\ UNCHANGED <<drawn, abandoned, queued, unacked, client>>
             /\ \E pc \in Next0 : Continue(w, pc)
  BY <1>7 DEF StageRaises, ReportRaises, LateRaises, TaskFails, TaskFailureRaises,
              ChildKilled, outsideWorker, Running, On, RunPcs, Stages
<1>8. QED
  BY <1>1, <1>2, <1>3, <1>4, <1>5, <1>6, <1>7 DEF TaskStep, TaskFault

\* A task writes the record only while that is its own attempt's, and never
\* its attempt id.
LEMMA TaskWrites ==
  ASSUME TypeOK, NEW w \in Workers, TaskStep(w) \/ ChunkBatch(w) \/ TaskFault(w)
  PROVE  /\ record'.attempt = record.attempt
         /\ record' # record => Matches(run[w].attempt)
<1> DEFINE Goal == record'.attempt = record.attempt
                     /\ (record' # record => Matches(run[w].attempt))
<1>2. CASE ReportCloning(w) \/ ReportChunking(w)
  BY <1>2 DEF ReportCloning, ReportChunking, Report, Write, TypeOK, Record
<1>3. CASE ReportEmbedding(w) \/ ReportStored(w)
  BY <1>3 DEF ReportEmbedding, ReportStored, Report, Write, TypeOK, Record
<1>4. CASE WriteReady(w) \/ WriteFailed(w) \/ FailCrashed(w)
  BY <1>4 DEF WriteReady, WriteFailed, FailCrashed, Failed, Write, TypeOK, Record
<1>5. CASE Check(w) \/ Clone(w) \/ ChunkBatch(w) \/ Leave(w) \/ TaskFailure(w)
             \/ DeleteRepo(w) \/ ChunkingDone(w) \/ StoreBatch(w) \/ Ack(w)
  BY <1>5 DEF Check, Clone, ChunkBatch, Leave, TaskFailure, DeleteRepo, ChunkingDone,
              StoreBatch, Ack
<1>6. CASE TaskFault(w)
  BY <1>6 DEF TaskFault, StageRaises, ReportRaises, LateRaises, TaskFails,
              TaskFailureRaises, ChildKilled, WorkerLost
<1>7. QED
  BY <1>2, <1>3, <1>4, <1>5, <1>6 DEF TaskStep

----------------------------------------------------------------------------
(* A record given up on stays failed *)

\* Nobody works for an id that get_status drew to give a record up: it is in
\* no message, no run and no request that would publish or fail it.
Published(r) == client[r].pc \in {"enqueue", "enqueue failed"}
CutOff ==
  /\ \A a \in abandoned : a \notin queued /\ a \notin unacked
  /\ \A w \in Workers : Running(w) => run[w].attempt \notin abandoned
  /\ \A r \in Clients : Published(r) => client[r].attempt \notin abandoned
  /\ AbandonedStaysFailed

\* An id drawn now is in nothing that was there before.
LEMMA FreshId ==
  ASSUME TypeOK
  PROVE  /\ drawn + 1 \notin abandoned /\ drawn + 1 \notin queued /\ drawn + 1 \notin unacked
         /\ \A r \in Clients : client[r].attempt # drawn + 1
         /\ \A w \in Workers : run[w].attempt # drawn + 1
         /\ record.attempt # drawn + 1
         /\ drawn + 1 \in Nat
<1>1. drawn + 1 \notin 0..drawn /\ drawn + 1 \notin 1..drawn
  BY DEF TypeOK
<1>2. /\ \A r \in Clients : client[r].attempt \in 0..drawn
      /\ \A w \in Workers : run[w].attempt \in 0..drawn
  BY DEF TypeOK, ClientType, RunType
<1>3. QED
  BY <1>1, <1>2 DEF TypeOK

\* The requests' steps that change neither a record nor an attempt id, and the
\* effect of a step on the client that takes it.
LEMMA GotoFacts ==
  ASSUME TypeOK, NEW r \in Clients
  PROVE  /\ \A pc, a : Goto(r, pc, a) =>
              /\ client'[r].pc = pc /\ client'[r].attempt = a
              /\ \A q \in Clients : q # r => client'[q] = client[q]
         /\ Return(r) =>
              /\ client'[r].pc = "idle"
              /\ \A q \in Clients : q # r => client'[q] = client[q]
BY DEF Goto, Return, NoRequest, TypeOK, ClientType

LEMMA GotoStep ==
  ASSUME TypeOK, NEW r \in Clients, NEW pc, NEW a, Goto(r, pc, a)
  PROVE  /\ client'[r].pc = pc /\ client'[r].attempt = a
         /\ \A q \in Clients : q # r => client'[q] = client[q]
BY GotoFacts

\* Id 0 is never drawn.
LEMMA NoAttemptZero ==
  ASSUME NEW n \in Nat
  PROVE  0 \notin 1..n
OBVIOUS

LEMMA CutOffClient ==
  ASSUME TypeOK, CutOff, NEW r \in Clients,
         Submit(r) \/ Poll(r) \/ RequestStep(r) \/ RequestLost(r)
  PROVE  CutOff'
<1> USE DEF CutOff, Published, Running, AbandonedStaysFailed
<1>1. CASE Submit(r)
  <2>1. \A q \in Clients : client'[q] = client[q] \/ client'[q].pc = "create"
    BY <1>1 DEF Submit, TypeOK, ClientType
  <2>2. UNCHANGED <<record, abandoned, queued, unacked, run>>
    BY <1>1 DEF Submit
  <2>3. QED
    BY <2>1, <2>2
<1>2. CASE Poll(r)
  <2>1. UNCHANGED <<record, abandoned, queued, unacked, run>> /\ Goto(r, "mark", record.attempt)
    BY <1>2 DEF Poll
  <2>2. \A q \in Clients : client'[q] = client[q] \/ client'[q].pc = "mark"
    BY <2>1, GotoFacts
  <2>3. QED
    BY <2>1, <2>2
<1>3. CASE CreateIfAbsent(r)
  <2>1. CASE record.status = "absent"
    <3>1. record'.attempt = drawn + 1
      BY <1>3, <2>1, FreshId, NewPendingFacts DEF CreateIfAbsent
    <3>2. client'[r].attempt = drawn + 1 /\ \A q \in Clients : q # r => client'[q] = client[q]
      BY <1>3, <2>1, GotoFacts DEF CreateIfAbsent
    <3>3. QED
      BY <1>3, <3>1, <3>2, FreshId DEF CreateIfAbsent
  <2>2. CASE record.status # "absent"
    <3>1. \A q \in Clients : client'[q] = client[q] \/ client'[q].pc \in {"idle", "reset"}
      BY <1>3, <2>2, GotoFacts DEF CreateIfAbsent
    <3>2. QED
      BY <1>3, <2>2, <3>1 DEF CreateIfAbsent
  <2>3. QED
    BY <2>1, <2>2
<1>4. CASE Reset(r)
  <2>1. CASE Matches(client[r].attempt)
    <3>1. record'.attempt = drawn + 1
      <4>1. record \in Record /\ Write(Restarted(record, drawn + 1))
        BY <1>4, <2>1 DEF Reset, TypeOK
      <4>2. /\ Restarted(record, drawn + 1) \in Record
            /\ Restarted(record, drawn + 1).attempt = drawn + 1
        BY <4>1, FreshId, RestartedType
      <4>3. QED
        BY <4>1, <4>2, WriteType
    <3>2. client'[r].attempt = drawn + 1 /\ \A q \in Clients : q # r => client'[q] = client[q]
      BY <1>4, <2>1, GotoFacts DEF Reset
    <3>3. QED
      BY <1>4, <3>1, <3>2, FreshId DEF Reset
  <2>2. CASE ~Matches(client[r].attempt)
    BY <1>4, <2>2, GotoFacts DEF Reset
  <2>3. QED
    BY <2>1, <2>2
<1>5. CASE Enqueue(r)
  <2>1. \A q \in Clients : client'[q] = client[q] \/ client'[q].pc = "idle"
    BY <1>5, GotoFacts DEF Enqueue
  <2>2. queued' = queued \cup {client[r].attempt} /\ client[r].attempt \notin abandoned
    BY <1>5 DEF Enqueue, At
  <2>3. UNCHANGED <<record, abandoned, unacked, run>>
    BY <1>5 DEF Enqueue
  <2>4. QED
    BY <2>1, <2>2, <2>3
<1>6. CASE EnqueueRaises(r)
  <2>1. \A q \in Clients : \/ client'[q] = client[q]
                           \/ client'[q].attempt = client[r].attempt
    BY <1>6, GotoFacts DEF EnqueueRaises
  <2>2. queued' \subseteq queued \cup {client[r].attempt} /\ client[r].attempt \notin abandoned
    BY <1>6 DEF EnqueueRaises, At
  <2>3. UNCHANGED <<record, abandoned, unacked, run>>
    BY <1>6 DEF EnqueueRaises
  <2>4. QED
    BY <2>1, <2>2, <2>3
<1>7. CASE FailUnqueued(r)
  <2>1. record' = record \/ record'.status = "failed"
    BY <1>7, FailedType, WriteType DEF FailUnqueued, TypeOK
  <2>2. QED
    BY <1>7, <2>1, GotoFacts DEF FailUnqueued
<1>8. CASE MarkAbandoned(r)
  <2>1. \A q \in Clients : client'[q] = client[q] \/ client'[q].pc = "idle"
    BY <1>8, GotoFacts DEF MarkAbandoned
  <2>2. CASE Matches(client[r].attempt)
    <3>1. record'.status = "failed" /\ record'.attempt = drawn + 1
      <4>1. record \in Record /\ Write(GivenUp(record, drawn + 1))
        BY <1>8, <2>2 DEF MarkAbandoned, TypeOK
      <4>2. /\ GivenUp(record, drawn + 1) \in Record
            /\ GivenUp(record, drawn + 1).status = "failed"
            /\ GivenUp(record, drawn + 1).attempt = drawn + 1
        BY <4>1, FreshId, GivenUpType
      <4>3. QED
        BY <4>1, <4>2, WriteType
    <3>2. abandoned' = abandoned \cup {drawn + 1} /\ UNCHANGED <<queued, unacked, run>>
      BY <1>8, <2>2, <3>1 DEF MarkAbandoned
    <3>3. QED
      BY <2>1, <3>1, <3>2, FreshId
  <2>3. CASE ~Matches(client[r].attempt)
    <3>1. UNCHANGED <<record, abandoned, queued, unacked, run>>
      BY <1>8, <2>3 DEF MarkAbandoned
    <3>2. QED
      BY <2>1, <3>1
  <2>4. QED
    BY <2>2, <2>3
<1>9. CASE RequestLost(r)
  BY <1>9, GotoFacts DEF RequestLost
<1>10. QED
  BY <1>1, <1>2, <1>3, <1>4, <1>5, <1>6, <1>7, <1>8, <1>9 DEF RequestStep

LEMMA CutOffInductive == TypeOK /\ CutOff /\ [Next]_vars => CutOff'
<1> SUFFICES ASSUME TypeOK, CutOff, [Next]_vars
             PROVE  CutOff'
  OBVIOUS
<1> USE DEF CutOff, Published, Running, AbandonedStaysFailed
<1>1. ASSUME NEW w \in Workers, Deliver(w)
      PROVE  CutOff'
  <2>1. PICK a \in queued :
          /\ queued' = queued \ {a} /\ unacked' = unacked \cup {a}
          /\ run' = [run EXCEPT ![w] = [Idle EXCEPT !.pc = "check", !.attempt = a]]
    BY <1>1 DEF Deliver
  <2>2. \A v \in Workers : run'[v] = run[v] \/ run'[v].attempt = a
    BY <2>1 DEF TypeOK, RunType, Idle
  <2>3. UNCHANGED <<record, abandoned, client>> /\ a \notin abandoned
    BY <1>1 DEF Deliver
  <2>4. \A v \in Workers : Running(v)' => run'[v].attempt \notin abandoned'
    BY <2>2, <2>3
  <2>5. \A b \in abandoned' : b \notin queued' /\ b \notin unacked'
    BY <2>1, <2>3
  <2>6. QED
    BY <2>3, <2>4, <2>5
<1>2. ASSUME NEW w \in Workers, TaskStep(w) \/ ChunkBatch(w) \/ TaskFault(w)
      PROVE  CutOff'
  <2>1. \A v \in Workers : Running(v)' => Running(v) /\ run'[v].attempt = run[v].attempt
    BY <1>2, TaskMoves DEF Moves, Ends
  <2>2. unacked' \subseteq unacked /\ UNCHANGED <<drawn, abandoned, queued, client>>
    BY <1>2, TaskMoves DEF Moves, Ends
  <2>3. record'.attempt \in abandoned' => record'.status = "failed"
    <3>1. CASE record' = record
      BY <2>2, <3>1
    <3>2. CASE record' # record
      <4>1. Running(w) /\ record.attempt = run[w].attempt
        BY <1>2, <3>2, TaskMoves, TaskWrites DEF Moves, Ends, Matches
      <4>2. QED
        BY <1>2, <2>2, <4>1, TaskWrites
    <3>3. QED
      BY <3>1, <3>2
  <2>4. QED
    BY <2>1, <2>2, <2>3
<1>3. CASE \E a \in unacked : Redeliver(a)
  BY <1>3 DEF Redeliver
<1>4. CASE Age
  <2>1. record'.attempt = record.attempt /\ record.status # "failed"
    BY <1>4 DEF Age, TypeOK, Record, InFlight
  <2>2. UNCHANGED <<abandoned, queued, unacked, client, run>>
    BY <1>4 DEF Age
  <2>3. QED
    BY <2>1, <2>2
<1>5. CASE Expire
  <2>1. 0 \notin abandoned
    <3>1. abandoned \subseteq 1..drawn /\ drawn \in Nat
      BY DEF TypeOK
    <3>2. QED
      BY <3>1, NoAttemptZero
  <2>2. QED
    BY <1>5, <2>1, AbsentFacts DEF Expire
<1>6. CASE UNCHANGED vars
  BY <1>6 DEF vars
<1>7. QED
  BY <1>1, <1>2, <1>3, <1>4, <1>5, <1>6, CutOffClient DEF Next

\* What get_status gives up on stays failed until the repo is submitted again:
\* a run that was only slow cannot write the record any more, whatever faults
\* occur (dependencies.py:336-337).
THEOREM GivenUpStaysFailed == Spec => []AbandonedStaysFailed
<1>1. Init => CutOff
  BY DEF Init, CutOff, Published, Running, Idle, NoRequest, AbandonedStaysFailed
<1>2. CutOff => AbandonedStaysFailed
  BY DEF CutOff
<1>3. QED
  BY <1>1, <1>2, CutOffInductive, TypeCorrect, PTL DEF Spec

----------------------------------------------------------------------------
(* One run per attempt *)

\* An attempt has one message, and a run only while that is unacknowledged.
OneMessage ==
  /\ queued \cap unacked = {}
  /\ \A w \in Workers : Running(w) => run[w].attempt \in unacked
  /\ \A v, w \in Workers :
       Running(v) /\ Running(w) /\ run[v].attempt = run[w].attempt => v = w
  /\ \A r \in Clients : At(r, "enqueue") =>
       client[r].attempt \notin queued /\ client[r].attempt \notin unacked
  /\ \A q, r \in Clients :
       At(q, "enqueue") /\ At(r, "enqueue") /\ client[q].attempt = client[r].attempt => q = r

LEMMA OneMessageClient ==
  ASSUME TypeOK, OneMessage, NEW r \in Clients,
         Submit(r) \/ Poll(r) \/ RequestStep(r) \/ RequestLost(r)
  PROVE  OneMessage'
<1> USE DEF OneMessage, Running, At
<1> DEFINE Others == \A q \in Clients : q # r => client'[q] = client[q]
           Rest == UNCHANGED <<queued, unacked, run>>
\* A step that leaves messages and runs alone and does not bring r to "enqueue".
<1>1. ASSUME Others, client'[r].pc # "enqueue", Rest
      PROVE  OneMessage'
  BY <1>1
\* One that brings r there with the id it has just drawn.
<1>2. ASSUME Others, client'[r].attempt = drawn + 1, Rest
      PROVE  OneMessage'
  BY <1>2, FreshId
\* One that publishes r's message.
<1>3. ASSUME Others, At(r, "enqueue"), client'[r].pc # "enqueue",
             queued' \in {queued, queued \cup {client[r].attempt}}, UNCHANGED <<unacked, run>>
      PROVE  OneMessage'
  BY <1>3
<1>4. CASE Submit(r)
  <2>1. Others /\ client'[r].pc = "create"
    BY <1>4 DEF Submit, TypeOK, ClientType
  <2>2. QED
    BY <1>1, <1>4, <2>1 DEF Submit
<1>5. CASE CreateIfAbsent(r)
  <2>1. Rest
    BY <1>5 DEF CreateIfAbsent
  <2>2. CASE record.status = "absent"
    <3>1. Others /\ client'[r].attempt = drawn + 1
      BY <1>5, <2>2, GotoFacts DEF CreateIfAbsent
    <3>2. QED
      BY <1>2, <2>1, <3>1
  <2>3. CASE record.status # "absent"
    <3>1. Others /\ client'[r].pc # "enqueue"
      BY <1>5, <2>3, GotoFacts DEF CreateIfAbsent
    <3>2. QED
      BY <1>1, <2>1, <3>1
  <2>4. QED
    BY <2>2, <2>3
<1>6. CASE Reset(r)
  <2>1. Rest
    BY <1>6 DEF Reset
  <2>2. CASE Matches(client[r].attempt)
    <3>1. Others /\ client'[r].attempt = drawn + 1
      BY <1>6, <2>2, GotoFacts DEF Reset
    <3>2. QED
      BY <1>2, <2>1, <3>1
  <2>3. CASE ~Matches(client[r].attempt)
    <3>1. Others /\ client'[r].pc # "enqueue"
      BY <1>6, <2>3, GotoFacts DEF Reset
    <3>2. QED
      BY <1>1, <2>1, <3>1
  <2>4. QED
    BY <2>2, <2>3
<1>7. CASE Enqueue(r) \/ EnqueueRaises(r)
  <2>1. Others /\ client'[r].pc # "enqueue"
    <3>1. Return(r) \/ Goto(r, "enqueue failed", client[r].attempt)
      BY <1>7 DEF Enqueue, EnqueueRaises
    <3>2. CASE Return(r)
      BY <3>2, GotoFacts
    <3>3. CASE Goto(r, "enqueue failed", client[r].attempt)
      <4>1. Others /\ client'[r].pc = "enqueue failed"
        BY <3>3, GotoStep
      <4>2. QED
        BY <4>1
    <3>4. QED
      BY <3>1, <3>2, <3>3
  <2>2. /\ At(r, "enqueue") /\ UNCHANGED <<unacked, run>>
        /\ queued' \in {queued, queued \cup {client[r].attempt}}
    BY <1>7 DEF Enqueue, EnqueueRaises
  <2>3. QED
    BY <1>3, <2>1, <2>2
<1>8. CASE FailUnqueued(r) \/ Poll(r) \/ MarkAbandoned(r) \/ RequestLost(r)
  <2>1. Return(r) \/ Goto(r, "mark", record.attempt)
    BY <1>8 DEF FailUnqueued, Poll, MarkAbandoned, RequestLost
  <2>2. Rest
    BY <1>8 DEF FailUnqueued, Poll, MarkAbandoned, RequestLost
  <2>3. Others /\ client'[r].pc # "enqueue"
    BY <2>1, GotoFacts
  <2>4. QED
    BY <1>1, <2>2, <2>3
<1>9. QED
  BY <1>4, <1>5, <1>6, <1>7, <1>8 DEF RequestStep

LEMMA OneMessageInductive ==
  ASSUME "slow step" \notin Faults
  PROVE  TypeOK /\ OneMessage /\ [Next]_vars => OneMessage'
<1> SUFFICES ASSUME TypeOK, OneMessage, [Next]_vars
             PROVE  OneMessage'
  OBVIOUS
<1> USE DEF OneMessage, Running, At
<1>1. ASSUME NEW w \in Workers, Deliver(w)
      PROVE  OneMessage'
  <2>1. PICK a \in queued :
          /\ queued' = queued \ {a} /\ unacked' = unacked \cup {a}
          /\ run' = [run EXCEPT ![w] = [Idle EXCEPT !.pc = "check", !.attempt = a]]
    BY <1>1 DEF Deliver
  <2>2. /\ run'[w].pc = "check" /\ run'[w].attempt = a
        /\ \A v \in Workers : v # w => run'[v] = run[v]
    BY <2>1 DEF TypeOK, RunType, Idle
  <2>3. a \notin unacked /\ UNCHANGED client
    BY <1>1 DEF Deliver
  <2>4. ASSUME NEW v \in Workers, Running(v)'
        PROVE  run'[v].attempt \in unacked'
    <3>1. a \in unacked' /\ unacked \subseteq unacked'
      BY <2>1
    <3>2. CASE v = w
      BY <2>2, <3>1, <3>2
    <3>3. CASE v # w
      BY <2>2, <2>4, <3>1, <3>3
    <3>4. QED
      BY <3>2, <3>3
  <2>5. ASSUME NEW u \in Workers, NEW v \in Workers, Running(u)', Running(v)',
               run'[u].attempt = run'[v].attempt
        PROVE  u = v
    <3>1. \A x \in Workers : x # w /\ Running(x) => run[x].attempt # a
      BY <2>3
    <3>2. CASE u # w /\ v # w
      <4>1. run'[u] = run[u] /\ run'[v] = run[v]
        BY <2>2, <3>2
      <4>2. Running(u) /\ Running(v) /\ run[u].attempt = run[v].attempt
        BY <2>5, <4>1
      <4>3. \A x, y \in Workers :
              Running(x) /\ Running(y) /\ run[x].attempt = run[y].attempt => x = y
        OBVIOUS
      <4> QED
        BY ONLY <4>2, <4>3, u \in Workers, v \in Workers
    <3>3. CASE u = w \/ v = w
      BY <2>2, <2>5, <3>1, <3>3
    <3>4. QED
      BY <3>2, <3>3
  <2>6. QED
    BY <2>1, <2>3, <2>4, <2>5
<1>2. ASSUME NEW w \in Workers, TaskStep(w) \/ ChunkBatch(w) \/ TaskFault(w)
      PROVE  OneMessage'
  <2>1. /\ \A v \in Workers : v # w => run'[v] = run[v]
        /\ UNCHANGED <<queued, client>>
        /\ Moves(w) \/ Ends(w)
    BY <1>2, TaskMoves
  <2>2. CASE Moves(w)
    <3>1. \A v \in Workers : Running(v)' => Running(v) /\ run'[v].attempt = run[v].attempt
      BY <2>1, <2>2 DEF Moves
    <3>2. UNCHANGED <<queued, unacked, client>>
      BY <2>1, <2>2 DEF Moves
    <3>3. QED
      BY <3>1, <3>2
  <2>3. CASE Ends(w)
    <3>1. \A v \in Workers : Running(v)' => v # w /\ Running(v) /\ run'[v] = run[v]
      BY <2>1, <2>3 DEF Ends
    <3>2. \A v \in Workers : Running(v)' => run'[v].attempt \in unacked'
      BY <2>3, <3>1 DEF Ends
    <3>3. unacked' \subseteq unacked
      BY <2>3 DEF Ends
    <3>4. queued' \cap unacked' = {}
      BY <2>1, <3>3
    <3>5. \A u, v \in Workers :
            Running(u)' /\ Running(v)' /\ run'[u].attempt = run'[v].attempt => u = v
      BY <3>1
    <3>6. QED
      BY <2>1, <3>2, <3>3, <3>4, <3>5
  <2>4. QED
    BY <2>1, <2>2, <2>3
<1>3. ASSUME NEW a \in unacked, Redeliver(a)
      PROVE  OneMessage'
  BY <1>3 DEF Redeliver
<1>4. CASE Age \/ Expire \/ UNCHANGED vars
  BY <1>4 DEF Age, Expire, vars
<1>5. QED
  BY <1>1, <1>2, <1>3, <1>4, OneMessageClient DEF Next

\* As long as the visibility timeout outlasts every run, as celery_app.py sets
\* it up to (67-72), no attempt is ever run by two workers at once, whichever
\* requests, workers and messages are lost.
THEOREM OneRunPerAttempt ==
  ASSUME "slow step" \notin Faults
  PROVE  Spec => []IngestedOnce
<1>1. ASSUME Init
      PROVE  OneMessage
  <2>1. /\ \A w \in Workers : run[w].pc = "idle"
        /\ \A r \in Clients : client[r].pc = "idle"
        /\ queued = {}
    BY <1>1 DEF Init, Idle, NoRequest
  <2>2. QED
    BY <2>1 DEF OneMessage, Running, At
<1>2. TypeOK /\ OneMessage /\ [Next]_vars => OneMessage'
  BY OneMessageInductive
<1>3. OneMessage => IngestedOnce
  BY DEF OneMessage, IngestedOnce, Running, Stages
<1>4. QED
  BY <1>1, <1>2, <1>3, TypeCorrect, PTL DEF Spec

----------------------------------------------------------------------------
(* An error only on a failed record *)

\* A request that is about to publish its message, or to fail its record
\* because that raised, has published nothing.
Unpublished ==
  /\ \A r \in Clients : Published(r) =>
       client[r].attempt \notin queued /\ client[r].attempt \notin unacked
  /\ \A q, r \in Clients :
       Published(q) /\ Published(r) /\ client[q].attempt = client[r].attempt => q = r

LEMMA UnpublishedClient ==
  ASSUME "ambiguous publish" \notin Faults,
         TypeOK, Unpublished, NEW r \in Clients,
         Submit(r) \/ Poll(r) \/ RequestStep(r) \/ RequestLost(r)
  PROVE  Unpublished'
<1> USE DEF Unpublished, Published
<1> DEFINE Others == \A q \in Clients : q # r => client'[q] = client[q]
           Rest == UNCHANGED <<queued, unacked>>
\* A step that leaves messages alone and does not bring r near to publishing.
<1>1. ASSUME Others, client'[r].pc \notin {"enqueue", "enqueue failed"}, Rest
      PROVE  Unpublished'
  BY <1>1
\* One that brings r there with the id it has just drawn.
<1>2. ASSUME Others, client'[r].attempt = drawn + 1, Rest
      PROVE  Unpublished'
  <2>1. /\ drawn + 1 \notin queued /\ drawn + 1 \notin unacked
        /\ \A q \in Clients : client[q].attempt # drawn + 1
    BY FreshId
  <2>2. \A q \in Clients : q # r => client'[q].attempt # client'[r].attempt
    BY <1>2, <2>1
  <2>3. QED
    BY <1>2, <2>1, <2>2
<1>3. CASE Submit(r)
  <2>1. Others /\ client'[r].pc = "create"
    BY <1>3 DEF Submit, TypeOK, ClientType
  <2>2. QED
    BY <1>1, <1>3, <2>1 DEF Submit
<1>4. CASE CreateIfAbsent(r)
  <2>1. Rest
    BY <1>4 DEF CreateIfAbsent
  <2>2. CASE record.status = "absent"
    <3>1. Others /\ client'[r].attempt = drawn + 1
      <4>1. PICK a : a = drawn + 1
        OBVIOUS
      <4>2. Goto(r, "enqueue", a)
        BY <1>4, <2>2, <4>1 DEF CreateIfAbsent
      <4>3. client'[r].attempt = a /\ Others
        BY ONLY <4>2, GotoStep, TypeOK, r \in Clients
      <4>4. QED
        BY <4>1, <4>3
    <3>2. QED
      BY <1>2, <2>1, <3>1
  <2>3. CASE record.status # "absent"
    <3>1. Others /\ client'[r].pc \in {"idle", "reset"}
      BY <1>4, <2>3, GotoFacts DEF CreateIfAbsent
    <3>2. QED
      BY <1>1, <2>1, <3>1
  <2>4. QED
    BY <2>2, <2>3
<1>5. CASE Reset(r)
  <2>1. Rest
    BY <1>5 DEF Reset
  <2>2. CASE Matches(client[r].attempt)
    <3>1. Others /\ client'[r].attempt = drawn + 1
      <4>1. Goto(r, "enqueue", drawn + 1)
        BY <1>5, <2>2 DEF Reset
      <4>2. client'[r].attempt = drawn + 1 /\ \A q \in Clients : q # r => client'[q] = client[q]
        BY ONLY <4>1, GotoFacts, TypeOK
      <4>3. QED
        BY <4>2
    <3>2. QED
      BY <1>2, <2>1, <3>1
  <2>3. CASE ~Matches(client[r].attempt)
    <3>1. Others /\ client'[r].pc = "idle"
      BY <1>5, <2>3, GotoFacts DEF Reset
    <3>2. QED
      BY <1>1, <2>1, <3>1
  <2>4. QED
    BY <2>2, <2>3
<1>6. CASE Enqueue(r)
  <2>1. Others /\ client'[r].pc = "idle"
    BY <1>6, GotoFacts DEF Enqueue
  <2>2. Published(r) /\ queued' = queued \cup {client[r].attempt} /\ UNCHANGED unacked
    BY <1>6 DEF Enqueue, At
  <2>3. QED
    BY <2>1, <2>2
<1>7. CASE EnqueueRaises(r)
  <2>1. Others /\ client'[r].attempt = client[r].attempt /\ Rest /\ Published(r)
    BY <1>7, GotoFacts DEF EnqueueRaises, At
  <2>2. \A q \in Clients :
          client'[q].attempt = client[q].attempt /\ (Published(q)' => Published(q))
    BY <2>1
  <2>3. QED
    BY <2>1, <2>2
<1>8. CASE FailUnqueued(r) \/ Poll(r) \/ MarkAbandoned(r) \/ RequestLost(r)
  <2>1. Return(r) \/ Goto(r, "mark", record.attempt)
    BY <1>8 DEF FailUnqueued, Poll, MarkAbandoned, RequestLost
  <2>2. Rest
    BY <1>8 DEF FailUnqueued, Poll, MarkAbandoned, RequestLost
  <2>3. Others /\ client'[r].pc \in {"idle", "mark"}
    BY <2>1, GotoFacts
  <2>4. QED
    BY <1>1, <2>2, <2>3
<1>9. QED
  BY <1>3, <1>4, <1>5, <1>6, <1>7, <1>8 DEF RequestStep

LEMMA UnpublishedInductive ==
  ASSUME "ambiguous publish" \notin Faults
  PROVE  TypeOK /\ Unpublished /\ [Next]_vars => Unpublished'
<1> SUFFICES ASSUME TypeOK, Unpublished, [Next]_vars
             PROVE  Unpublished'
  OBVIOUS
<1>1. ASSUME UNCHANGED client, queued' \cup unacked' \subseteq queued \cup unacked
      PROVE  Unpublished'
  BY <1>1 DEF Unpublished, Published
<1>2. ASSUME NEW w \in Workers, Deliver(w)
      PROVE  Unpublished'
  BY <1>1, <1>2 DEF Deliver
<1>3. ASSUME NEW w \in Workers, TaskStep(w) \/ ChunkBatch(w) \/ TaskFault(w)
      PROVE  Unpublished'
  BY <1>1, <1>3, TaskMoves DEF Moves, Ends
<1>4. CASE \E a \in unacked : Redeliver(a)
  BY <1>1, <1>4 DEF Redeliver
<1>5. CASE Age \/ Expire \/ UNCHANGED vars
  BY <1>1, <1>5 DEF Age, Expire, vars
<1>6. QED
  BY <1>2, <1>3, <1>4, <1>5, UnpublishedClient DEF Next

\* The record is in flight while a run of its attempt goes through the stages.
RunsInFlight ==
  \A w \in Workers : run[w].pc \in Stages /\ run[w].attempt = record.attempt =>
    record.status \in InFlight \cup {"absent"}

ErrorInv == RunsInFlight /\ ErrorOnlyWhenFailed

LEMMA ErrorClient ==
  ASSUME TypeOK, OneMessage, Unpublished, ErrorInv, NEW r \in Clients,
         Submit(r) \/ Poll(r) \/ RequestStep(r) \/ RequestLost(r)
  PROVE  ErrorInv'
<1> USE DEF ErrorInv, RunsInFlight, ErrorOnlyWhenFailed
<1>1. UNCHANGED run /\ record \in Record
  BY DEF TypeOK, Submit, Poll, RequestStep, RequestLost, CreateIfAbsent, Reset, Enqueue,
         EnqueueRaises, FailUnqueued, MarkAbandoned
<1>2. ASSUME UNCHANGED record
      PROVE  ErrorInv'
  BY <1>1, <1>2
\* A new attempt has no run yet.
<1>3. ASSUME record'.attempt = drawn + 1, record'.error => record'.status = "failed"
      PROVE  ErrorInv'
  BY <1>1, <1>3, FreshId
<1>4. CASE CreateIfAbsent(r)
  <2>1. CASE record.status = "absent"
    <3>1. record' = new_pending(drawn + 1)
      BY <1>4, <2>1 DEF CreateIfAbsent
    <3>2. record'.attempt = drawn + 1 /\ ~record'.error
      BY <3>1, FreshId, NewPendingFacts
    <3>3. QED
      BY <1>3, <3>2
  <2>2. CASE record.status # "absent"
    BY <1>2, <1>4, <2>2 DEF CreateIfAbsent
  <2>3. QED
    BY <2>1, <2>2
<1>5. CASE Reset(r)
  <2>1. CASE Matches(client[r].attempt)
    <3>1. Write(Restarted(record, drawn + 1))
      BY <1>5, <2>1 DEF Reset
    <3>2. /\ Restarted(record, drawn + 1) \in Record
          /\ Restarted(record, drawn + 1).attempt = drawn + 1
          /\ ~Restarted(record, drawn + 1).error
      BY <1>1, FreshId, RestartedType
    <3>3. QED
      BY <1>3, <3>1, <3>2, WriteType
  <2>2. CASE ~Matches(client[r].attempt)
    BY <1>2, <1>5, <2>2 DEF Reset
  <2>3. QED
    BY <2>1, <2>2
<1>6. CASE MarkAbandoned(r)
  <2>1. CASE Matches(client[r].attempt)
    <3>1. Write(GivenUp(record, drawn + 1))
      BY <1>6, <2>1 DEF MarkAbandoned
    <3>2. /\ GivenUp(record, drawn + 1) \in Record
          /\ GivenUp(record, drawn + 1).attempt = drawn + 1
          /\ GivenUp(record, drawn + 1).status = "failed"
      BY <1>1, FreshId, GivenUpType
    <3>3. QED
      BY <1>3, <3>1, <3>2, WriteType
  <2>2. CASE ~Matches(client[r].attempt)
    BY <1>2, <1>6, <2>2 DEF MarkAbandoned
  <2>3. QED
    BY <2>1, <2>2
<1>7. CASE FailUnqueued(r)
  <2>1. CASE Matches(client[r].attempt)
    <3>1. \A w \in Workers : Running(w) => run[w].attempt # record.attempt
      BY <1>7, <2>1 DEF FailUnqueued, At, Matches, OneMessage, Unpublished, Published
    <3>2. /\ Failed(record) \in Record
          /\ Failed(record).attempt = record.attempt /\ Failed(record).status = "failed"
      BY <1>1, FailedType
    <3>3. record'.attempt = record.attempt /\ record'.status = "failed"
      BY <1>7, <2>1, <3>2, WriteType DEF FailUnqueued
    <3>4. QED
      BY <1>1, <3>1, <3>3 DEF Running, Stages
  <2>2. CASE ~Matches(client[r].attempt)
    BY <1>2, <1>7, <2>2 DEF FailUnqueued
  <2>3. QED
    BY <2>1, <2>2
<1>8. CASE Submit(r) \/ Poll(r) \/ Enqueue(r) \/ EnqueueRaises(r) \/ RequestLost(r)
  BY <1>2, <1>8 DEF Submit, Poll, Enqueue, EnqueueRaises, RequestLost
<1>9. QED
  BY <1>4, <1>5, <1>6, <1>7, <1>8 DEF RequestStep

LEMMA ErrorTask ==
  ASSUME TypeOK, OneMessage, ErrorInv, NEW w \in Workers,
         TaskStep(w) \/ ChunkBatch(w) \/ TaskFault(w)
  PROVE  ErrorInv'
<1> DEFINE Mine == run'[w].pc \in Stages /\ run'[w].attempt = record'.attempt =>
                     record'.status \in InFlight \cup {"absent"}
           Error == record'.error => record'.status = "failed"
           OnStage(v) == run[v].pc \in Stages /\ run[v].attempt = record.attempt
\* Another run cannot be this attempt's, if this one may write the record.
<1>1. ASSUME NEW v \in Workers, v # w, run'[v].pc \in Stages, run'[v].attempt = record'.attempt
      PROVE  record'.status \in InFlight \cup {"absent"}
  <2>1. run'[v] = run[v] /\ Running(w)
    BY <1>1, TaskMoves DEF Moves, Ends
  <2>2. record'.attempt = record.attempt /\ OnStage(v)
    BY <1>1, <2>1, TaskWrites
  <2>3. record' = record
    <3>1. SUFFICES ASSUME record' # record
                   PROVE  FALSE
      OBVIOUS
    <3>2. record.attempt = run[w].attempt
      BY <3>1, TaskWrites DEF Matches
    <3>3. QED
      BY <1>1, <2>1, <2>2, <3>2 DEF OneMessage, Running, Stages
  <2>4. QED
    BY <2>2, <2>3 DEF ErrorInv, RunsInFlight
<1>2. Mine /\ Error => ErrorInv'
  BY <1>1 DEF ErrorInv, RunsInFlight, ErrorOnlyWhenFailed
<1>3. OnStage(w) => record.status \in InFlight \cup {"absent"}
  BY DEF ErrorInv, RunsInFlight
<1>4. record \in Record /\ (record.error => record.status = "failed")
  BY DEF TypeOK, ErrorInv, ErrorOnlyWhenFailed
<1>5. run \in RunType(drawn)
  BY DEF TypeOK
<1>6. ASSUME NEW rec \in Record, rec.status \in InFlight, rec.error = record.error,
             NEW pc, Report(w, rec, pc), run[w].pc \in Stages
      PROVE  ErrorInv'
  <2>1. CASE Matches(run[w].attempt)
    <3>1. Write(rec)
      BY <1>6, <2>1 DEF Report
    <3>2. record'.status \in InFlight /\ record'.error = record.error
      BY <1>6, <3>1, WriteType
    <3>3. record.status # "failed"
      BY <1>3, <1>6, <2>1 DEF Matches, InFlight
    <3>4. QED
      BY <1>2, <1>4, <3>2, <3>3
  <2>2. CASE ~Matches(run[w].attempt)
    <3>1. UNCHANGED record /\ Continue(w, "ack")
      BY <1>6, <2>2 DEF Report
    <3>2. run'[w].pc = "ack"
      BY <1>5, <3>1, ContinueFacts
    <3>3. QED
      BY <1>2, <1>4, <3>1, <3>2 DEF Stages
  <2>3. QED
    BY <2>1, <2>2
<1>7. CASE ReportCloning(w) \/ ReportChunking(w)
  <2>1. PICK st \in InFlight, pc \in {"clone", "chunk"} :
          Report(w, [record EXCEPT !.status = st], pc)
    BY <1>7 DEF ReportCloning, ReportChunking, InFlight
  <2>2. run[w].pc \in Stages
    BY <1>7 DEF ReportCloning, ReportChunking, On, Stages
  <2>3. QED
    BY <1>4, <1>6, <2>1, <2>2 DEF Record
<1>8. CASE ReportEmbedding(w) \/ ReportStored(w)
  <2>1. PICK n \in 0..MaxBatches, pc \in {"delete", "store", "ready"} :
          Report(w, [record EXCEPT !.status = "embedding", !.total = run[w].total,
                                   !.embedded = n], pc)
    <3>1. 0 \in 0..MaxBatches /\ run[w].stored \in 0..MaxBatches
      BY <1>5, IngestionAssumption, RunTypeFacts DEF TypeOK
    <3>2. QED
      BY <1>8, <3>1 DEF ReportEmbedding, ReportStored
  <2>2. run[w].pc \in Stages
    BY <1>8 DEF ReportEmbedding, ReportStored, On, Stages
  <2>3. run[w].total \in 0..MaxBatches
    BY RunTypeFacts DEF TypeOK
  <2>4. QED
    BY <1>4, <1>6, <2>1, <2>2, <2>3 DEF Record, InFlight
<1>9. CASE Check(w) \/ Clone(w) \/ ChunkBatch(w) \/ Leave(w) \/ TaskFailure(w)
              \/ DeleteRepo(w) \/ ChunkingDone(w) \/ StoreBatch(w) \/ Ack(w)
  <2>1. UNCHANGED record
    BY <1>9 DEF Check, Clone, ChunkBatch, Leave, TaskFailure, DeleteRepo, ChunkingDone,
                 StoreBatch, Ack
  <2>2. run'[w].attempt = run[w].attempt \/ run'[w].pc = "idle"
    BY TaskMoves DEF Moves, Ends
  <2>3. CASE Clone(w) \/ ChunkBatch(w) \/ DeleteRepo(w) \/ ChunkingDone(w) \/ StoreBatch(w)
    <3>1. run[w].pc \in Stages
      BY <2>3 DEF Clone, ChunkBatch, DeleteRepo, ChunkingDone, StoreBatch, On, Stages
    <3>2. QED
      BY <1>2, <1>3, <1>4, <2>1, <2>2, <3>1 DEF Stages
  <2>4. CASE Check(w)
    <3>1. record.status \in InFlight \/ Continue(w, "ack")
      BY <2>4 DEF Check
    <3>2. Continue(w, "ack") => run'[w].pc = "ack"
      BY <1>5, ContinueFacts
    <3>3. QED
      BY <1>2, <1>4, <2>1, <3>1, <3>2 DEF Stages
  <2>5. CASE Leave(w) \/ TaskFailure(w)
    <3>1. Continue(w, "ack") \/ Continue(w, "fail crashed")
      BY <2>5 DEF Leave, TaskFailure
    <3>2. run'[w].pc \in {"ack", "fail crashed"}
      BY <1>5, <3>1, ContinueFacts
    <3>3. QED
      BY <1>2, <1>4, <2>1, <3>2 DEF Stages
  <2>6. CASE Ack(w)
    <3>1. run'[w].pc = "idle"
      BY <1>5, <2>6 DEF Ack, RunType, Idle
    <3>2. QED
      BY <1>2, <1>4, <2>1, <3>1 DEF Stages
  <2>7. QED
    BY <1>9, <2>3, <2>4, <2>5, <2>6
<1>10. CASE WriteReady(w)
  <2>1. run'[w].pc = "leave"
    BY <1>5, <1>10, ContinueFacts DEF WriteReady
  <2>2. record'.error => record'.status = "failed"
    BY <1>4, <1>10 DEF WriteReady, Write, Record
  <2>3. QED
    BY <1>2, <2>1, <2>2 DEF Stages
<1>11. CASE WriteFailed(w) \/ FailCrashed(w)
  <2>1. run'[w].pc = "ack"
    BY <1>5, <1>11, ContinueFacts DEF WriteFailed, FailCrashed
  <2>2. record'.error => record'.status = "failed"
    BY <1>4, <1>11, FailedType, WriteType DEF WriteFailed, FailCrashed
  <2>3. QED
    BY <1>2, <2>1, <2>2 DEF Stages
<1>12. CASE TaskFault(w)
  <2>1. UNCHANGED record
    BY <1>12 DEF TaskFault, StageRaises, ReportRaises, LateRaises, TaskFails,
                 TaskFailureRaises, ChildKilled, WorkerLost
  <2>2. \/ \E pc \in {"write failed", "task failure", "ack"} : Continue(w, pc)
        \/ run' = [run EXCEPT ![w] = Idle]
    BY <1>12 DEF TaskFault, StageRaises, ReportRaises, LateRaises, TaskFails,
                 TaskFailureRaises, ChildKilled, WorkerLost
  <2>3. run'[w].pc \in {"write failed", "task failure", "ack", "idle"}
    <3>1. ASSUME NEW pc \in {"write failed", "task failure", "ack"}, Continue(w, pc)
          PROVE  run'[w].pc = pc
      BY <1>5, <3>1, ContinueFacts
    <3>2. run' = [run EXCEPT ![w] = Idle] => run'[w].pc = "idle"
      BY <1>5 DEF RunType, Idle
    <3>3. QED
      BY <2>2, <3>1, <3>2
  <2>4. QED
    BY <1>2, <1>4, <2>1, <2>3 DEF Stages
<1>13. QED
  BY <1>7, <1>8, <1>9, <1>10, <1>11, <1>12 DEF TaskStep

LEMMA ErrorInductive ==
  TypeOK /\ OneMessage /\ Unpublished /\ ErrorInv /\ [Next]_vars => ErrorInv'
<1> SUFFICES ASSUME TypeOK, OneMessage, Unpublished, ErrorInv, [Next]_vars
             PROVE  ErrorInv'
  OBVIOUS
<1> USE DEF ErrorInv, RunsInFlight, ErrorOnlyWhenFailed
<1>1. ASSUME NEW w \in Workers, Deliver(w)
      PROVE  ErrorInv'
  <2>1. \A v \in Workers : run'[v] = run[v] \/ run'[v].pc = "check"
    BY <1>1 DEF Deliver, TypeOK, RunType, Idle
  <2>2. QED
    BY <1>1, <2>1 DEF Deliver, Stages
<1>2. CASE \E a \in unacked : Redeliver(a)
  BY <1>2 DEF Redeliver
<1>3. CASE Age
  BY <1>3 DEF Age, TypeOK, Record
<1>4. CASE Expire
  BY <1>4, AbsentFacts DEF Expire
<1>5. CASE UNCHANGED vars
  BY <1>5 DEF vars
<1>6. QED
  BY <1>1, <1>2, <1>3, <1>4, <1>5, ErrorClient, ErrorTask DEF Next

\* A failure reason is shown only on a failed repo, provided the visibility
\* timeout outlasts every run and a publish that raises has published nothing.
\* (Otherwise a run goes on under a record that was failed in its own attempt.)
THEOREM ErrorsMatchStatus ==
  ASSUME "slow step" \notin Faults, "ambiguous publish" \notin Faults
  PROVE  Spec => []ErrorOnlyWhenFailed
<1> DEFINE Inv == TypeOK /\ RunShape /\ OneMessage /\ Unpublished /\ ErrorInv
<1>1. ASSUME Init
      PROVE  OneMessage /\ Unpublished /\ ErrorInv
  <2>1. /\ \A w \in Workers : run[w].pc = "idle"
        /\ \A r \in Clients : client[r].pc = "idle"
        /\ queued = {} /\ record = Absent
    BY <1>1 DEF Init, Idle, NoRequest
  <2>2. QED
    BY <2>1, AbsentFacts DEF OneMessage, Unpublished, Published, ErrorInv, RunsInFlight,
                             ErrorOnlyWhenFailed, Running, At, Stages
<1>2. Init => Inv
  BY <1>1, InitialState
<1>3. Inv /\ [Next]_vars => Inv'
  BY TypeInductive, ShapeInductive, OneMessageInductive, UnpublishedInductive,
     ErrorInductive
<1>4. Inv => ErrorOnlyWhenFailed
  BY DEF ErrorInv
<1>5. QED
  BY <1>2, <1>3, <1>4, PTL DEF Spec

----------------------------------------------------------------------------
(* What a request's step may do *)

\* It ends or begins a request, and is lost to the record it started only by a
\* crash.
Quiet(r) ==
  /\ UNCHANGED <<record, queued>> /\ client'[r].pc \in {"idle", "create"}
  /\ Published(r) => ~Matches(client[r].attempt) \/ "api crash" \in Faults
\* It has read a record that may be reset, or given up.
Looks(r) ==
  /\ UNCHANGED <<record, queued>> /\ ~Published(r)
  /\ client'[r].attempt = record.attempt /\ record.status # "absent"
  /\ \/ client'[r].pc = "reset" /\ needs_work(record)
     \/ client'[r].pc = "mark" /\ is_abandoned(record)
\* It starts an attempt, of a new record or by a compare-and-set.
Starts(r) ==
  /\ \/ record.status = "absent"
     \/ At(r, "reset") /\ Matches(client[r].attempt)
  /\ record'.status = "pending" /\ record'.attempt = drawn + 1 /\ ~record'.stale
  /\ client'[r].pc = "enqueue" /\ client'[r].attempt = drawn + 1
  /\ UNCHANGED queued
\* It publishes the attempt's message, as far as it knows, or knows it did not.
Publishes(r) ==
  /\ At(r, "enqueue") /\ UNCHANGED record
  /\ \/ client'[r].pc = "idle" /\ queued' = queued \cup {client[r].attempt}
     \/ /\ client'[r].pc = "enqueue failed" /\ client'[r].attempt = client[r].attempt
        /\ queued' \in {queued, queued \cup {client[r].attempt}}
\* It fails the record it started, or gives up one that looks abandoned.
Fails(r) ==
  /\ Matches(client[r].attempt) /\ record'.status = "failed"
  /\ \/ At(r, "enqueue failed") /\ record'.attempt = record.attempt
     \/ At(r, "mark") /\ record'.attempt = drawn + 1
  /\ client'[r].pc = "idle" /\ UNCHANGED queued

\* Every step of a request is one of these, and leaves the rest alone.
LEMMA RequestEffect ==
  ASSUME TypeOK, NEW r \in Clients,
         Submit(r) \/ Poll(r) \/ RequestStep(r) \/ RequestLost(r)
  PROVE  /\ UNCHANGED <<run, unacked, points>>
         /\ \A q \in Clients : q # r => client'[q] = client[q]
         /\ Quiet(r) \/ Looks(r) \/ Starts(r) \/ Publishes(r) \/ Fails(r)
<1> DEFINE Rest == UNCHANGED <<run, unacked, points>>
           Others == \A q \in Clients : q # r => client'[q] = client[q]
           Effect == Quiet(r) \/ Looks(r) \/ Starts(r) \/ Publishes(r) \/ Fails(r)
<1>1. Rest
  BY DEF Submit, Poll, RequestStep, RequestLost, CreateIfAbsent, Reset, Enqueue,
         EnqueueRaises, FailUnqueued, MarkAbandoned
<1>2. record \in Record /\ drawn + 1 \in Nat
  BY DEF TypeOK
<1>3. CASE Submit(r)
  <2>1. Others /\ client'[r].pc = "create"
    BY <1>3 DEF Submit, TypeOK, ClientType
  <2>2. UNCHANGED <<record, queued>> /\ ~Published(r)
    BY <1>3 DEF Submit, At, Published
  <2>3. QED
    BY <1>1, <2>1, <2>2 DEF Quiet
<1>4. CASE Poll(r)
  <2>1. Goto(r, "mark", record.attempt)
    BY <1>4 DEF Poll
  <2>2. Others /\ client'[r].pc = "mark" /\ client'[r].attempt = record.attempt
    BY <2>1, GotoFacts
  <2>3. /\ UNCHANGED <<record, queued>> /\ is_abandoned(record) /\ ~Published(r)
        /\ record.status # "absent"
    BY <1>4 DEF Poll, At, Published, is_abandoned, InFlight
  <2>4. QED
    BY <1>1, <2>2, <2>3 DEF Looks
<1>5. CASE CreateIfAbsent(r) /\ record.status = "absent"
  <2>1. /\ record' = new_pending(drawn + 1) /\ UNCHANGED queued
        /\ Goto(r, "enqueue", drawn + 1)
    BY <1>5 DEF CreateIfAbsent
  <2>2. Others /\ client'[r].pc = "enqueue" /\ client'[r].attempt = drawn + 1
    BY <2>1, GotoFacts
  <2>3. record'.status = "pending" /\ record'.attempt = drawn + 1
    BY <1>2, <2>1, NewPendingFacts
  <2>4. ~record'.stale
    BY <2>1 DEF new_pending, Absent
  <2>5. QED
    BY <1>1, <1>5, <2>1, <2>2, <2>3, <2>4 DEF Starts
<1>6. CASE CreateIfAbsent(r) /\ record.status # "absent"
  <2>1. UNCHANGED <<record, queued>> /\ ~Published(r)
    BY <1>6 DEF CreateIfAbsent, At, Published
  <2>2. CASE needs_work(record)
    <3>1. Goto(r, "reset", record.attempt)
      BY <1>6, <2>2 DEF CreateIfAbsent
    <3>2. Others /\ client'[r].pc = "reset" /\ client'[r].attempt = record.attempt
      BY <3>1, GotoFacts
    <3>3. QED
      BY <1>1, <1>6, <2>1, <2>2, <3>2 DEF Looks
  <2>3. CASE ~needs_work(record)
    <3>1. Others /\ client'[r].pc = "idle"
      BY <1>6, <2>3, GotoFacts DEF CreateIfAbsent
    <3>2. QED
      BY <1>1, <2>1, <3>1 DEF Quiet
  <2>4. QED
    BY <2>2, <2>3
<1>7. CASE Reset(r) /\ Matches(client[r].attempt)
  <2>1. /\ Write(Restarted(record, drawn + 1)) /\ UNCHANGED queued /\ At(r, "reset")
        /\ Goto(r, "enqueue", drawn + 1)
    BY <1>7 DEF Reset
  <2>2. Others /\ client'[r].pc = "enqueue" /\ client'[r].attempt = drawn + 1
    BY <2>1, GotoFacts
  <2>3. record'.status = "pending" /\ record'.attempt = drawn + 1
    BY <1>2, <2>1, RestartedType, WriteType
  <2>4. ~record'.stale
    BY <1>2, <2>1, RestartedType DEF Write, Record
  <2>5. QED
    BY <1>1, <1>7, <2>1, <2>2, <2>3, <2>4 DEF Starts
<1>8. CASE (Reset(r) \/ MarkAbandoned(r) \/ FailUnqueued(r)) /\ ~Matches(client[r].attempt)
  <2>1. UNCHANGED <<record, queued>> /\ Return(r)
    BY <1>8 DEF Reset, MarkAbandoned, FailUnqueued
  <2>2. Others /\ client'[r].pc = "idle"
    BY <2>1, GotoFacts
  <2>3. QED
    BY <1>1, <1>8, <2>1, <2>2 DEF Quiet
<1>9. CASE Enqueue(r)
  <2>1. At(r, "enqueue") /\ UNCHANGED record /\ queued' = queued \cup {client[r].attempt}
    BY <1>9 DEF Enqueue
  <2>2. Others /\ client'[r].pc = "idle"
    BY <1>9, GotoFacts DEF Enqueue
  <2>3. QED
    BY <1>1, <2>1, <2>2 DEF Publishes
<1>10. CASE EnqueueRaises(r)
  <2>1. /\ At(r, "enqueue") /\ UNCHANGED record
        /\ queued' \in {queued, queued \cup {client[r].attempt}}
        /\ Goto(r, "enqueue failed", client[r].attempt)
    BY <1>10 DEF EnqueueRaises
  <2>2. Others /\ client'[r].pc = "enqueue failed" /\ client'[r].attempt = client[r].attempt
    BY <2>1, GotoFacts
  <2>3. QED
    BY <1>1, <2>1, <2>2 DEF Publishes
<1>11. CASE FailUnqueued(r) /\ Matches(client[r].attempt)
  <2>1. At(r, "enqueue failed") /\ Write(Failed(record)) /\ UNCHANGED queued /\ Return(r)
    BY <1>11 DEF FailUnqueued
  <2>2. Others /\ client'[r].pc = "idle"
    BY <2>1, GotoFacts
  <2>3. record'.status = "failed" /\ record'.attempt = record.attempt
    BY <1>2, <2>1, FailedType, WriteType
  <2>4. QED
    BY <1>1, <1>11, <2>1, <2>2, <2>3 DEF Fails
<1>12. CASE MarkAbandoned(r) /\ Matches(client[r].attempt)
  <2>1. At(r, "mark") /\ Write(GivenUp(record, drawn + 1)) /\ UNCHANGED queued /\ Return(r)
    BY <1>12 DEF MarkAbandoned
  <2>2. Others /\ client'[r].pc = "idle"
    BY <2>1, GotoFacts
  <2>3. record'.status = "failed" /\ record'.attempt = drawn + 1
    BY <1>2, <2>1, GivenUpWritten
  <2>4. QED
    BY <1>1, <1>12, <2>1, <2>2, <2>3 DEF Fails
<1>13. CASE RequestLost(r)
  <2>1. UNCHANGED <<record, queued>> /\ Return(r) /\ "api crash" \in Faults
    BY <1>13 DEF RequestLost
  <2>2. Others /\ client'[r].pc = "idle"
    BY <2>1, GotoFacts
  <2>3. QED
    BY <1>1, <2>1, <2>2 DEF Quiet
<1>14. QED
  BY <1>3, <1>4, <1>5, <1>6, <1>7, <1>8, <1>9, <1>10, <1>11, <1>12, <1>13 DEF RequestStep

----------------------------------------------------------------------------
(* Who starts an ingestion owns its record until the message is out *)

\* Nobody else has the starter's attempt: no message and no run (OneMessage),
\* and no request that publishes, fails, resets or gives up the record, since
\* the record is in flight and fresh.
OwnedByStarter ==
  \A r \in Clients : At(r, "enqueue") =>
    /\ record.status = "pending" /\ ~record.stale
    /\ record.attempt = client[r].attempt
    /\ \A q \in Clients : q # r /\ client[q].pc \in {"enqueue", "enqueue failed", "mark", "reset"} =>
         client[q].attempt # client[r].attempt

\* A request that is not about to start, reset or give up an attempt leaves the
\* others' claims as they were.
LEMMA OthersStart ==
  ASSUME OwnedByStarter, UNCHANGED record, NEW r \in Clients,
         \A q \in Clients : q # r => client'[q] = client[q],
         client'[r].pc \notin {"enqueue", "mark", "reset"},
         client'[r].pc = "enqueue failed" =>
           At(r, "enqueue") /\ client'[r].attempt = client[r].attempt
  PROVE  OwnedByStarter'
<1> DEFINE writers == {"enqueue", "enqueue failed", "mark", "reset"}
<1> SUFFICES ASSUME NEW p \in Clients, client'[p].pc = "enqueue"
             PROVE  /\ record'.status = "pending" /\ ~record'.stale
                    /\ record'.attempt = client'[p].attempt
                    /\ \A q \in Clients : q # p /\ client'[q].pc \in writers =>
                         client'[q].attempt # client'[p].attempt
  BY DEF OwnedByStarter, At
<1>1. p # r /\ client'[p] = client[p] /\ client[p].pc = "enqueue"
  OBVIOUS
<1>2. /\ record.status = "pending" /\ ~record.stale /\ record.attempt = client[p].attempt
      /\ \A q \in Clients : q # p /\ client[q].pc \in writers =>
           client[q].attempt # client[p].attempt
  BY <1>1 DEF OwnedByStarter, At
<1>3. ASSUME NEW q \in Clients, q # p, client'[q].pc \in writers
      PROVE  client'[q].attempt # client'[p].attempt
  <2>1. CASE q = r
    <3>1. client[q].pc = "enqueue" /\ client'[q].attempt = client[q].attempt
      BY <1>3, <2>1 DEF At
    <3>2. QED
      BY <1>1, <1>2, <1>3, <3>1
  <2>2. CASE q # r
    BY <1>1, <1>2, <1>3, <2>2
  <2>3. QED
    BY <2>1, <2>2
<1>4. QED
  BY <1>1, <1>2, <1>3

LEMMA StarterRequests ==
  ASSUME TypeOK, OwnedByStarter, NEW r \in Clients,
         Submit(r) \/ Poll(r) \/ RequestStep(r) \/ RequestLost(r)
  PROVE  OwnedByStarter'
<1> USE DEF OwnedByStarter, At
<1>1. \A q \in Clients : q # r => client'[q] = client[q]
  BY RequestEffect
<1>2. CASE Quiet(r)
  <2>1. UNCHANGED record /\ client'[r].pc \in {"idle", "create"}
    BY <1>2 DEF Quiet
  <2>2. QED
    BY <1>1, <2>1, OthersStart
<1>3. CASE Looks(r)
  <2>1. \A s \in Clients : ~At(s, "enqueue")
    BY <1>3 DEF Looks, needs_work, is_abandoned, InFlight
  <2>2. client'[r].pc # "enqueue"
    BY <1>3 DEF Looks
  <2>3. QED
    BY <1>1, <2>1, <2>2
<1>4. CASE Starts(r)
  <2>1. \A s \in Clients : ~At(s, "enqueue")
    BY <1>4 DEF Starts, Matches
  <2>2. \A q \in Clients : q # r => client'[q].attempt # drawn + 1
    BY <1>1, FreshId
  <2>3. \A p \in Clients : client'[p].pc = "enqueue" => p = r
    BY <1>1, <2>1
  <2>4. /\ record'.status = "pending" /\ ~record'.stale
        /\ record'.attempt = client'[r].attempt /\ client'[r].attempt = drawn + 1
    BY <1>4 DEF Starts
  <2>5. QED
    BY <2>2, <2>3, <2>4
<1>5. CASE Publishes(r)
  <2>1. /\ UNCHANGED record /\ At(r, "enqueue") /\ client'[r].pc \in {"idle", "enqueue failed"}
        /\ client'[r].pc = "enqueue failed" => client'[r].attempt = client[r].attempt
    BY <1>5 DEF Publishes
  <2>2. QED
    BY <1>1, <2>1, OthersStart
<1>6. CASE Fails(r)
  <2>1. \A s \in Clients : s # r => ~At(s, "enqueue")
    BY <1>6 DEF Fails, Matches
  <2>2. client'[r].pc # "enqueue"
    BY <1>6 DEF Fails
  <2>3. QED
    BY <1>1, <2>1, <2>2
<1>7. QED
  BY <1>2, <1>3, <1>4, <1>5, <1>6, RequestEffect

LEMMA StarterInductive ==
  ASSUME "slow step" \notin Faults, "expiry" \notin Faults
  PROVE  TypeOK /\ OneMessage /\ OwnedByStarter /\ [Next]_vars => OwnedByStarter'
<1> SUFFICES ASSUME TypeOK, OneMessage, OwnedByStarter, [Next]_vars
             PROVE  OwnedByStarter'
  OBVIOUS
<1>1. CASE UNCHANGED <<record, client>>
  BY <1>1 DEF OwnedByStarter, At
\* A task that writes the record has its message, so no starter is left.
<1>2. ASSUME NEW w \in Workers, TaskStep(w) \/ ChunkBatch(w) \/ TaskFault(w)
      PROVE  OwnedByStarter'
  <2>1. UNCHANGED client /\ Running(w)
    BY <1>2, TaskMoves DEF Moves, Ends
  <2>2. CASE record' = record
    BY <1>1, <2>1, <2>2
  <2>3. CASE record' # record
    <3>1. record.attempt = run[w].attempt
      BY <1>2, <2>3, TaskWrites DEF Matches
    <3>2. \A r \in Clients : ~At(r, "enqueue")
      BY <2>1, <3>1 DEF OneMessage, OwnedByStarter
    <3>3. QED
      BY <2>1, <3>2 DEF OwnedByStarter, At
  <2>4. QED
    BY <2>2, <2>3
<1>3. CASE (\E w \in Workers : Deliver(w)) \/ (\E a \in unacked : Redeliver(a))
             \/ UNCHANGED vars
  BY <1>1, <1>3 DEF Deliver, Redeliver, vars
<1>4. CASE Age
  <2>1. ~Owned /\ UNCHANGED client
    BY <1>4 DEF Age
  <2>2. \A r \in Clients : ~At(r, "enqueue")
    BY <2>1 DEF Owned, OwnedByStarter, At
  <2>3. QED
    BY <2>1, <2>2 DEF OwnedByStarter, At
<1>5. CASE Expire
  BY <1>5 DEF Expire
<1>6. QED
  BY <1>2, <1>3, <1>4, <1>5, StarterRequests DEF Next

\* Of several submissions or retries of a repo at most one starts an ingestion
\* at a time, and until its message is out the record is pending under its
\* attempt: provided the staleness thresholds outlast every step and the record
\* outlives the request (dependencies.py:212-216).
THEOREM OneStarter ==
  ASSUME "slow step" \notin Faults, "expiry" \notin Faults
  PROVE  Spec => []StarterOwnsRecord
<1>1. ASSUME Init
      PROVE  OneMessage /\ OwnedByStarter
  <2>1. /\ \A w \in Workers : run[w].pc = "idle"
        /\ \A r \in Clients : client[r].pc = "idle"
        /\ queued = {}
    BY <1>1 DEF Init, Idle, NoRequest
  <2>2. QED
    BY <2>1 DEF OneMessage, OwnedByStarter, Running, At
<1>2. TypeOK /\ OneMessage /\ OwnedByStarter /\ [Next]_vars => (OneMessage /\ OwnedByStarter)'
  BY OneMessageInductive, StarterInductive
<1>3. OwnedByStarter => StarterOwnsRecord
  BY DEF OwnedByStarter, StarterOwnsRecord, At
<1>4. QED
  BY <1>1, <1>2, <1>3, TypeCorrect, PTL DEF Spec

----------------------------------------------------------------------------
(* What a task's step may do to its record and to its place in the run *)

\* It reports a stage of its own attempt.
Reports(w) ==
  /\ Matches(run[w].attempt)
  /\ record'.attempt = record.attempt /\ ~record'.stale
  /\ \/ On(w, "report cloning") /\ record'.status = "cloning" /\ On(w, "clone")'
     \/ On(w, "report chunking") /\ record'.status = "chunking" /\ On(w, "chunk")'
     \/ On(w, "report embedding") /\ record'.status = "embedding" /\ On(w, "delete")'
     \/ /\ On(w, "report stored") /\ record'.status = "embedding"
        /\ On(w, "store")' \/ On(w, "ready")'
\* It goes on to the next step; a clone takes longer than a request.
Advances(w) ==
  /\ UNCHANGED record
  /\ \/ /\ On(w, "check") /\ On(w, "report cloning")'
        /\ record.status \in InFlight /\ run[w].attempt = record.attempt
     \/ /\ On(w, "clone") /\ On(w, "report chunking")'
        /\ \/ "slow request" \in Faults
           \/ \A r \in Clients : ~At(r, "mark") /\ ~At(r, "reset")
     \/ On(w, "chunk") /\ (On(w, "report chunking")' \/ On(w, "report embedding")')
     \/ On(w, "delete") /\ On(w, "store")'
     \/ On(w, "store") /\ On(w, "report stored")'
\* It ends its attempt, for good or bad.
Finishes(w) ==
  /\ Matches(run[w].attempt) /\ record'.attempt = record.attempt
  /\ \/ On(w, "ready") /\ record'.status = "ready" /\ On(w, "leave")'
     \/ /\ On(w, "write failed") \/ On(w, "fail crashed")
        /\ record'.status = "failed" /\ On(w, "ack")'
\* It finds the record finished or another attempt's, and leaves it alone.
Yields(w) ==
  /\ UNCHANGED record /\ (On(w, "leave")' \/ On(w, "ack")')
  /\ record.status \in InFlight => run[w].attempt # record.attempt
\* It leaves the task function after its last write.
Leaves(w) == UNCHANGED record /\ On(w, "leave") /\ On(w, "ack")'
\* An exception or a death in the task function brings it to a handler.
Raises(w) ==
  /\ UNCHANGED record
  /\ \/ /\ On(w, "write failed")'
        /\ \/ run[w].pc \in Stages
           \/ On(w, "leave") /\ "late error" \in Faults
     \/ On(w, "task failure")'
     \/ On(w, "fail crashed")' /\ record.status \in InFlight
     \/ On(w, "ack")' /\ "store error" \in Faults
\* It is over, acknowledged or not.
Stops(w) ==
  /\ UNCHANGED record /\ ~Running(w)'
  /\ \/ On(w, "ack") /\ unacked' = unacked \ {run[w].attempt}
     \/ UNCHANGED unacked

\* A report either goes through or finds another attempt's record.
LEMMA ReportEffect ==
  ASSUME TypeOK, NEW w \in Workers, NEW rec \in Record, rec.attempt = record.attempt,
         NEW next, Report(w, rec, next)
  PROVE  \/ Yields(w)
         \/ /\ Matches(run[w].attempt) /\ record'.status = rec.status
            /\ record'.attempt = record.attempt /\ ~record'.stale
            /\ On(w, next)'
<1>1. run \in RunType(drawn)
  BY DEF TypeOK
<1>2. CASE Matches(run[w].attempt)
  <2>1. Write(rec) /\ Continue(w, next)
    BY <1>2 DEF Report
  <2>2. record'.status = rec.status /\ record'.attempt = record.attempt
    BY <2>1, WriteType
  <2>3. ~record'.stale
    BY <2>1 DEF Write, Record
  <2>4. run'[w].pc = next
    BY <1>1, <2>1, ContinueFacts
  <2>5. QED
    BY <1>2, <2>2, <2>3, <2>4 DEF On
<1>3. CASE ~Matches(run[w].attempt)
  <2>1. UNCHANGED record /\ Continue(w, "ack")
    BY <1>3 DEF Report
  <2>2. run'[w].pc = "ack"
    BY <1>1, <2>1, ContinueFacts
  <2>3. record.status \in InFlight => run[w].attempt # record.attempt
    BY <1>3 DEF Matches, InFlight
  <2>4. QED
    BY <2>1, <2>2, <2>3 DEF Yields, On
<1>4. QED
  BY <1>2, <1>3

LEMMA TaskEffect ==
  ASSUME TypeOK, NEW w \in Workers, TaskStep(w) \/ ChunkBatch(w) \/ TaskFault(w)
  PROVE  \/ Reports(w) \/ Advances(w) \/ Finishes(w) \/ Yields(w) \/ Leaves(w)
         \/ Raises(w) \/ Stops(w)
<1> DEFINE Effect == \/ Reports(w) \/ Advances(w) \/ Finishes(w) \/ Yields(w) \/ Leaves(w)
                     \/ Raises(w) \/ Stops(w)
<1>1. /\ record \in Record /\ run \in RunType(drawn)
      /\ \A pc : Continue(w, pc) => run'[w].pc = pc
  BY ContinueFacts DEF TypeOK
<1>2. /\ run[w].total \in 0..MaxBatches /\ run[w].stored \in 0..MaxBatches
      /\ 0 \in 0..MaxBatches
  BY <1>1, IngestionAssumption, RunTypeFacts DEF TypeOK
<1>3. CASE ReportCloning(w)
  <2> DEFINE rec == [record EXCEPT !.status = "cloning"]
  <2>1. rec \in Record /\ rec.attempt = record.attempt /\ rec.status = "cloning"
    BY <1>1 DEF Record, InFlight
  <2>2. Report(w, rec, "clone") /\ On(w, "report cloning")
    BY <1>3 DEF ReportCloning
  <2> HIDE DEF rec
  <2>3. QED
    BY <2>1, <2>2, ReportEffect DEF Reports
<1>4. CASE ReportChunking(w)
  <2> DEFINE rec == [record EXCEPT !.status = "chunking"]
  <2>1. rec \in Record /\ rec.attempt = record.attempt /\ rec.status = "chunking"
    BY <1>1 DEF Record, InFlight
  <2>2. Report(w, rec, "chunk") /\ On(w, "report chunking")
    BY <1>4 DEF ReportChunking
  <2> HIDE DEF rec
  <2>3. QED
    BY <2>1, <2>2, ReportEffect DEF Reports
<1>5. CASE ReportEmbedding(w)
  <2> DEFINE rec == [record EXCEPT !.status = "embedding", !.total = run[w].total,
                                   !.embedded = 0]
  <2>1. rec \in Record /\ rec.attempt = record.attempt /\ rec.status = "embedding"
    BY <1>1, <1>2 DEF Record, InFlight
  <2>2. Report(w, rec, "delete") /\ On(w, "report embedding")
    BY <1>5 DEF ReportEmbedding
  <2> HIDE DEF rec
  <2>3. QED
    BY <2>1, <2>2, ReportEffect DEF Reports
<1>6. CASE ReportStored(w)
  <2> DEFINE rec == [record EXCEPT !.status = "embedding", !.total = run[w].total,
                                   !.embedded = run[w].stored]
  <2>1. rec \in Record /\ rec.attempt = record.attempt /\ rec.status = "embedding"
    BY <1>1, <1>2 DEF Record, InFlight
  <2>2. On(w, "report stored") /\ \E next \in {"store", "ready"} : Report(w, rec, next)
    BY <1>6 DEF ReportStored
  <2> HIDE DEF rec
  <2>3. PICK next \in {"store", "ready"} : Report(w, rec, next)
    BY <2>2
  <2>4. QED
    BY <2>1, <2>2, <2>3, ReportEffect DEF Reports, On
<1>7. CASE Check(w)
  <2>1. On(w, "check") /\ UNCHANGED record
    BY <1>7 DEF Check
  <2>2. CASE record.status \in InFlight /\ record.attempt = run[w].attempt
    BY <1>1, <1>7, <2>1, <2>2 DEF Check, Advances, On
  <2>3. CASE ~(record.status \in InFlight /\ record.attempt = run[w].attempt)
    BY <1>1, <1>7, <2>1, <2>3 DEF Check, Yields, On
  <2>4. QED
    BY <2>2, <2>3
<1>8. CASE Clone(w) \/ ChunkBatch(w) \/ DeleteRepo(w)
  BY <1>1, <1>8 DEF Clone, ChunkBatch, DeleteRepo, Advances, On
<1>9. CASE ChunkingDone(w)
  <2>1. run'[w].pc = "report embedding"
    BY <1>1, <1>9 DEF ChunkingDone, RunType
  <2>2. QED
    BY <1>9, <2>1 DEF ChunkingDone, Advances, On
<1>10. CASE StoreBatch(w)
  <2>1. run'[w].pc = "report stored"
    BY <1>1, <1>10 DEF StoreBatch, RunType
  <2>2. QED
    BY <1>10, <2>1 DEF StoreBatch, Advances, On
<1>11. CASE (WriteReady(w) \/ WriteFailed(w) \/ FailCrashed(w)) /\ ~Matches(run[w].attempt)
  <2>1. UNCHANGED record /\ (Continue(w, "leave") \/ Continue(w, "ack"))
    BY <1>11 DEF WriteReady, WriteFailed, FailCrashed
  <2>2. record.status \in InFlight => run[w].attempt # record.attempt
    BY <1>11 DEF Matches, InFlight
  <2>3. QED
    BY <1>1, <2>1, <2>2 DEF Yields, On
<1>12. CASE WriteReady(w) /\ Matches(run[w].attempt)
  <2>1. [record EXCEPT !.status = "ready", !.error = FALSE] \in Record
    BY <1>1 DEF Record, Final
  <2>2. record'.status = "ready" /\ record'.attempt = record.attempt
    BY <1>1, <1>12, <2>1, WriteType DEF WriteReady, Record
  <2>3. On(w, "ready") /\ Continue(w, "leave")
    BY <1>12 DEF WriteReady
  <2>4. QED
    BY <1>1, <1>12, <2>2, <2>3 DEF Finishes, On
<1>13. CASE (WriteFailed(w) \/ FailCrashed(w)) /\ Matches(run[w].attempt)
  <2>1. /\ Write(Failed(record)) /\ Continue(w, "ack")
        /\ On(w, "write failed") \/ On(w, "fail crashed")
    BY <1>13 DEF WriteFailed, FailCrashed
  <2>2. record'.status = "failed" /\ record'.attempt = record.attempt
    BY <1>1, <2>1, FailedType, WriteType
  <2>3. QED
    BY <1>1, <1>13, <2>1, <2>2 DEF Finishes, On
<1>14. CASE Leave(w)
  BY <1>1, <1>14 DEF Leave, Leaves, On
<1>15. CASE TaskFailure(w)
  <2>1. UNCHANGED record
    BY <1>15 DEF TaskFailure
  <2>2. CASE record.status \in InFlight
    <3>1. run'[w].pc = "fail crashed"
      BY <1>1, <1>15, <2>2 DEF TaskFailure
    <3>2. QED
      BY <2>1, <2>2, <3>1 DEF Raises, On
  <2>3. CASE record.status \notin InFlight
    <3>1. run'[w].pc = "ack"
      BY <1>1, <1>15, <2>3 DEF TaskFailure
    <3>2. QED
      BY <2>1, <2>3, <3>1 DEF Yields, On
  <2>4. QED
    BY <2>2, <2>3
<1>16. CASE StageRaises(w) \/ ReportRaises(w) \/ LateRaises(w)
  <2>1. UNCHANGED record /\ Continue(w, "write failed")
    BY <1>16 DEF StageRaises, ReportRaises, LateRaises
  <2>2. run[w].pc \in Stages \/ (On(w, "leave") /\ "late error" \in Faults)
    BY <1>16 DEF StageRaises, ReportRaises, LateRaises, Stages, On
  <2>3. QED
    BY <1>1, <2>1, <2>2 DEF Raises, On
<1>17. CASE TaskFails(w) \/ TaskFailureRaises(w) \/ ChildKilled(w)
  BY <1>1, <1>17 DEF TaskFails, TaskFailureRaises, ChildKilled, Raises, On
<1>18. CASE Ack(w) \/ WorkerLost(w)
  <2>1. run' = [run EXCEPT ![w] = Idle] /\ UNCHANGED record
    BY <1>18 DEF Ack, WorkerLost
  <2>2. run'[w].pc = "idle"
    BY <1>1, <2>1 DEF RunType, Idle
  <2>3. QED
    BY <1>18, <2>1, <2>2 DEF Ack, WorkerLost, Stops, Running, On
<1>19. QED
  BY <1>3, <1>4, <1>5, <1>6, <1>7, <1>8, <1>9, <1>10, <1>11, <1>12, <1>13, <1>14, <1>15,
     <1>16, <1>17, <1>18 DEF TaskStep, TaskFault

----------------------------------------------------------------------------
(* A pending record has somebody to go on with it *)

\* The attempt's message is there, or a request that will publish it or fail
\* the record; and no run acknowledges the message of a pending record.
PendingInHand ==
  /\ record.status = "pending" =>
       \/ record.attempt \in queued \cup unacked
       \/ \E r \in Clients : Published(r) /\ client[r].attempt = record.attempt
  /\ \A w \in Workers :
       run[w].pc \in {"leave", "ack"} /\ run[w].attempt = record.attempt =>
         record.status # "pending"

LEMMA PendingRequests ==
  ASSUME "api crash" \notin Faults,
         TypeOK, PendingInHand, NEW r \in Clients,
         Submit(r) \/ Poll(r) \/ RequestStep(r) \/ RequestLost(r)
  PROVE  PendingInHand'
<1> USE DEF PendingInHand, Published
<1>1. /\ UNCHANGED <<run, unacked>>
      /\ \A q \in Clients : q # r => client'[q] = client[q]
  BY RequestEffect
\* A step that leaves the record alone, and is not r's last word on it.
<1>2. ASSUME UNCHANGED record, queued \subseteq queued',
             Published(r) =>
               \/ ~Matches(client[r].attempt)
               \/ client[r].attempt \in queued'
               \/ Published(r)' /\ client'[r].attempt = client[r].attempt
      PROVE  PendingInHand'
  <2>1. ASSUME record.status = "pending"
        PROVE  \/ record.attempt \in queued' \cup unacked'
               \/ \E q \in Clients : Published(q)' /\ client'[q].attempt = record.attempt
    <3>1. CASE record.attempt \in queued \cup unacked
      BY <1>1, <1>2, <3>1
    <3>2. ASSUME NEW q \in Clients, Published(q), client[q].attempt = record.attempt
          PROVE  \/ record.attempt \in queued' \cup unacked'
                 \/ \E s \in Clients : Published(s)' /\ client'[s].attempt = record.attempt
      BY <1>1, <1>2, <2>1, <3>2 DEF Matches
    <3>3. QED
      BY <2>1, <3>1, <3>2
  <2>2. QED
    BY <1>1, <1>2, <2>1
<1>3. CASE Quiet(r)
  BY <1>2, <1>3 DEF Quiet
<1>4. CASE Looks(r)
  BY <1>2, <1>4 DEF Looks
<1>5. CASE Starts(r)
  <2>1. Published(r)' /\ client'[r].attempt = record'.attempt
    BY <1>5 DEF Starts
  <2>2. \A w \in Workers : run'[w].attempt # record'.attempt
    BY <1>1, <1>5, FreshId DEF Starts
  <2>3. QED
    BY <2>1, <2>2
<1>6. CASE Publishes(r)
  <2>1. UNCHANGED record /\ queued \subseteq queued'
    BY <1>6 DEF Publishes
  <2>2. \/ client[r].attempt \in queued'
        \/ Published(r)' /\ client'[r].attempt = client[r].attempt
    BY <1>6 DEF Publishes
  <2>3. QED
    BY <1>2, <2>1, <2>2
<1>7. CASE Fails(r)
  BY <1>7 DEF Fails
<1>8. QED
  BY <1>3, <1>4, <1>5, <1>6, <1>7, RequestEffect

LEMMA PendingTask ==
  ASSUME "store error" \notin Faults,
         TypeOK, PendingInHand, NEW w \in Workers,
         TaskStep(w) \/ ChunkBatch(w) \/ TaskFault(w)
  PROVE  PendingInHand'
<1> SUFFICES ASSUME record'.status = "pending"
             PROVE  PendingInHand'
  BY DEF PendingInHand
<1>1. UNCHANGED record
  BY TaskEffect DEF Reports, Advances, Finishes, Yields, Leaves, Raises, Stops
<1>2. /\ \A v \in Workers : v # w => run'[v] = run[v]
      /\ UNCHANGED <<queued, client>>
      /\ run'[w].attempt = run[w].attempt \/ run'[w].pc = "idle"
  BY TaskMoves DEF Moves, Ends
<1>3. record.status = "pending" /\ record.status \in InFlight
  BY <1>1 DEF InFlight
<1>4. record.attempt \in unacked => record.attempt \in unacked'
  <2>1. CASE On(w, "ack")
    <3>1. run[w].attempt # record.attempt
      BY <1>3, <2>1 DEF PendingInHand, On
    <3>2. unacked' = unacked \/ unacked' = unacked \ {run[w].attempt}
      BY TaskMoves DEF Moves, Ends
    <3>3. QED
      BY <3>1, <3>2
  <2>2. CASE ~On(w, "ack")
    <3>1. CASE Stops(w)
      BY <2>2, <3>1 DEF Stops
    <3>2. CASE ~Stops(w)
      <4>1. Running(w)'
        BY <3>2, TaskEffect DEF Reports, Advances, Finishes, Yields, Leaves, Raises, On, Running
      <4>2. UNCHANGED unacked
        BY <4>1, TaskMoves DEF Moves, Ends, Running
      <4>3. QED
        BY <4>2
    <3>3. QED
      BY <3>1, <3>2
  <2>3. QED
    BY <2>1, <2>2
<1>5. ~(run'[w].pc \in {"leave", "ack"} /\ run'[w].attempt = record.attempt)
  <2> SUFFICES ASSUME run'[w].pc \in {"leave", "ack"}, run[w].attempt = record.attempt
               PROVE  FALSE
    BY <1>2
  <2>1. CASE Leaves(w)
    BY <1>3, <2>1 DEF Leaves, On, PendingInHand
  <2>2. CASE Yields(w)
    BY <1>3, <2>2 DEF Yields
  <2>3. CASE Reports(w) \/ Advances(w) \/ Raises(w) \/ Stops(w)
    BY <2>3 DEF Reports, Advances, Raises, Stops, On, Running
  <2>4. CASE Finishes(w)
    BY <1>1, <1>3, <2>4 DEF Finishes
  <2>5. QED
    BY <2>1, <2>2, <2>3, <2>4, TaskEffect
<1>6. \/ record.attempt \in queued' \cup unacked'
      \/ \E r \in Clients : Published(r)' /\ client'[r].attempt = record.attempt
  BY <1>2, <1>3, <1>4 DEF PendingInHand, Published
<1>7. \A v \in Workers : ~(run'[v].pc \in {"leave", "ack"} /\ run'[v].attempt = record.attempt)
  BY <1>2, <1>3, <1>5 DEF PendingInHand
<1>8. QED
  BY <1>1, <1>6, <1>7 DEF PendingInHand

LEMMA PendingInductive ==
  ASSUME "api crash" \notin Faults, "store error" \notin Faults
  PROVE  TypeOK /\ PendingInHand /\ [Next]_vars => PendingInHand'
<1> SUFFICES ASSUME TypeOK, PendingInHand, [Next]_vars
             PROVE  PendingInHand'
  OBVIOUS
<1> USE DEF PendingInHand, Published
<1>1. ASSUME NEW w \in Workers, Deliver(w)
      PROVE  PendingInHand'
  <2>1. PICK a \in queued :
          /\ queued' = queued \ {a} /\ unacked' = unacked \cup {a}
          /\ run' = [run EXCEPT ![w] = [Idle EXCEPT !.pc = "check", !.attempt = a]]
    BY <1>1 DEF Deliver
  <2>2. \A v \in Workers : run'[v] = run[v] \/ run'[v].pc = "check"
    BY <2>1 DEF TypeOK, RunType, Idle
  <2>3. UNCHANGED <<record, client>>
    BY <1>1 DEF Deliver
  <2>4. queued' \cup unacked' = queued \cup unacked
    BY <2>1
  <2>5. QED
    BY <2>2, <2>3, <2>4
<1>2. ASSUME NEW a \in unacked, Redeliver(a)
      PROVE  PendingInHand'
  <2>1. queued' \cup unacked' = queued \cup unacked
    BY <1>2 DEF Redeliver
  <2>2. UNCHANGED <<record, client, run>>
    BY <1>2 DEF Redeliver
  <2>3. QED
    BY <2>1, <2>2
<1>3. CASE Age
  <2>1. record'.status = record.status /\ record'.attempt = record.attempt
    BY <1>3 DEF Age, TypeOK, Record
  <2>2. UNCHANGED <<queued, unacked, client, run>>
    BY <1>3 DEF Age
  <2>3. QED
    BY <2>1, <2>2
<1>4. CASE Expire
  BY <1>4, AbsentFacts DEF Expire
<1>5. CASE UNCHANGED vars
  BY <1>5 DEF vars
<1>6. QED
  BY <1>1, <1>2, <1>3, <1>4, <1>5, PendingRequests, PendingTask DEF Next

\* A submitted repo is not forgotten: as long as its record is pending there is
\* a message for it or a request about to publish or fail it, whichever workers
\* die, messages come again or records expire.  Only a request that dies
\* between its write and its publish leaves a record to itself, or a worker
\* that can reach the broker but not the store.
THEOREM PendingNotForgotten ==
  ASSUME "api crash" \notin Faults, "store error" \notin Faults
  PROVE  Spec => []PendingHasOwner
<1>1. ASSUME Init
      PROVE  PendingInHand
  <2>1. record.status = "absent"
    BY <1>1, AbsentFacts DEF Init
  <2>2. QED
    BY <2>1 DEF PendingInHand
<1>2. PendingInHand => PendingHasOwner
  BY DEF PendingInHand, PendingHasOwner, Owned, Published
<1>3. QED
  BY <1>1, <1>2, PendingInductive, TypeCorrect, PTL DEF Spec

----------------------------------------------------------------------------
(* Progress stays within its total *)

\* Most writes of the record leave its progress alone.
SameProgress == record'.total = record.total /\ record'.embedded = record.embedded

LEMMA KeepsProgress ==
  ASSUME NEW rec \in Record, rec.total = record.total, rec.embedded = record.embedded,
         Write(rec)
  PROVE  SameProgress
BY DEF Write, Record, SameProgress

LEMMA EndingsKeepProgress ==
  ASSUME record \in Record, NEW a \in Nat
  PROVE  /\ Write(Failed(record)) => SameProgress
         /\ Write(GivenUp(record, a)) => SameProgress
         /\ Write(Restarted(record, a)) => SameProgress
<1>1. /\ Failed(record).total = record.total /\ Failed(record).embedded = record.embedded
      /\ GivenUp(record, a).total = record.total /\ GivenUp(record, a).embedded = record.embedded
      /\ Restarted(record, a).total = record.total
      /\ Restarted(record, a).embedded = record.embedded
  BY DEF Failed, GivenUp, Restarted, Record
<1>2. Failed(record) \in Record /\ GivenUp(record, a) \in Record /\ Restarted(record, a) \in Record
  BY FailedType, GivenUpType, RestartedType
<1>3. QED
  BY <1>1, <1>2, KeepsProgress

LEMMA ProgressOfRequests ==
  ASSUME TypeOK, EmbeddedWithinTotal, NEW r \in Clients,
         Submit(r) \/ Poll(r) \/ RequestStep(r) \/ RequestLost(r)
  PROVE  EmbeddedWithinTotal'
<1>1. record \in Record /\ drawn + 1 \in Nat
  BY DEF TypeOK
<1>2. CASE SameProgress
  BY <1>2 DEF SameProgress, EmbeddedWithinTotal
<1>3. CASE UNCHANGED record
  BY <1>3 DEF EmbeddedWithinTotal
<1>4. CASE CreateIfAbsent(r)
  <2>1. CASE record.status = "absent"
    <3>1. record' = new_pending(drawn + 1)
      BY <1>4, <2>1 DEF CreateIfAbsent
    <3>2. record'.embedded = 0 /\ record'.total = 0
      BY <3>1 DEF new_pending, Absent
    <3>3. QED
      BY <3>2 DEF EmbeddedWithinTotal
  <2>2. QED
    BY <1>3, <1>4, <2>1 DEF CreateIfAbsent
<1>5. CASE Reset(r) \/ FailUnqueued(r) \/ MarkAbandoned(r)
  <2>1. UNCHANGED record \/ Write(Restarted(record, drawn + 1)) \/ Write(Failed(record))
          \/ Write(GivenUp(record, drawn + 1))
    BY <1>5 DEF Reset, FailUnqueued, MarkAbandoned
  <2>2. QED
    BY <1>1, <1>2, <1>3, <2>1, EndingsKeepProgress
<1>6. CASE Submit(r) \/ Poll(r) \/ Enqueue(r) \/ EnqueueRaises(r) \/ RequestLost(r)
  BY <1>3, <1>6 DEF Submit, Poll, Enqueue, EnqueueRaises, RequestLost
<1>7. QED
  BY <1>4, <1>5, <1>6 DEF RequestStep

LEMMA ProgressOfTasks ==
  ASSUME TypeOK, RunShape, EmbeddedWithinTotal, NEW w \in Workers,
         TaskStep(w) \/ ChunkBatch(w) \/ TaskFault(w)
  PROVE  EmbeddedWithinTotal'
<1>1. /\ record \in Record /\ run \in RunType(drawn) /\ Shape(run[w])
      /\ run[w].stored \in Nat /\ run[w].total \in Nat
      /\ record.embedded \in Nat /\ record.total \in Nat
  <2>1. run[w].stored \in 0..MaxBatches /\ run[w].total \in 0..MaxBatches
    BY RunTypeFacts DEF TypeOK
  <2>2. record.embedded \in 0..MaxBatches /\ record.total \in 0..MaxBatches
    BY DEF TypeOK, Record
  <2>3. QED
    BY <2>1, <2>2, IngestionAssumption DEF TypeOK, RunShape
<1>2. CASE SameProgress
  BY <1>2 DEF SameProgress, EmbeddedWithinTotal
<1>3. CASE UNCHANGED record
  BY <1>3 DEF EmbeddedWithinTotal
<1>4. CASE ReportCloning(w) \/ ReportChunking(w) \/ WriteReady(w)
  <2>1. UNCHANGED record \/ SameProgress
    BY <1>1, <1>4 DEF ReportCloning, ReportChunking, WriteReady, Report, Write, SameProgress,
                      Record
  <2>2. QED
    BY <1>2, <1>3, <2>1
<1>5. CASE ReportEmbedding(w)
  <2>1. UNCHANGED record \/ (record'.embedded = 0 /\ record'.total = run[w].total)
    BY <1>1, <1>5 DEF ReportEmbedding, Report, Write, Record
  <2>2. QED
    BY <1>1, <1>3, <2>1 DEF EmbeddedWithinTotal
<1>6. CASE ReportStored(w)
  <2>1. UNCHANGED record \/ (record'.embedded = run[w].stored /\ record'.total = run[w].total)
    BY <1>1, <1>6 DEF ReportStored, Report, Write, Record
  <2>2. run[w].stored <= run[w].total
    <3>1. run[w].pc = "report stored"
      BY <1>6 DEF ReportStored, On
    <3>2. run[w].stored \in 1..run[w].total
      BY <1>1, <3>1 DEF Shape
    <3>3. QED
      BY <1>1, <3>2
  <2>3. QED
    BY <1>3, <2>1, <2>2 DEF EmbeddedWithinTotal
<1>7. CASE WriteFailed(w) \/ FailCrashed(w)
  <2>1. UNCHANGED record \/ Write(Failed(record))
    BY <1>7 DEF WriteFailed, FailCrashed
  <2>2. QED
    BY <1>1, <1>2, <1>3, <2>1, EndingsKeepProgress
<1>8. CASE Check(w) \/ Clone(w) \/ ChunkBatch(w) \/ Leave(w) \/ TaskFailure(w)
             \/ DeleteRepo(w) \/ ChunkingDone(w) \/ StoreBatch(w) \/ Ack(w) \/ TaskFault(w)
  <2>1. UNCHANGED record
    BY <1>8 DEF Check, Clone, ChunkBatch, Leave, TaskFailure, DeleteRepo, ChunkingDone,
         StoreBatch, Ack, TaskFault, StageRaises, ReportRaises, LateRaises, TaskFails,
         TaskFailureRaises, ChildKilled, WorkerLost
  <2>2. QED
    BY <1>3, <2>1
<1>9. QED
  BY <1>4, <1>5, <1>6, <1>7, <1>8 DEF TaskStep

\* Whatever is redelivered, stalls, expires or dies, a reader never sees more
\* chunks embedded than there are.
THEOREM ProgressWithinTotal == Spec => []EmbeddedWithinTotal
<1>1. Init => EmbeddedWithinTotal
  BY DEF Init, EmbeddedWithinTotal, Absent
<1>2. TypeOK /\ RunShape /\ EmbeddedWithinTotal /\ [Next]_vars => EmbeddedWithinTotal'
  <2> SUFFICES ASSUME TypeOK, RunShape, EmbeddedWithinTotal, [Next]_vars
               PROVE  EmbeddedWithinTotal'
    OBVIOUS
  <2>1. CASE \E r \in Clients : Submit(r) \/ Poll(r) \/ RequestStep(r) \/ RequestLost(r)
    BY <2>1, ProgressOfRequests
  <2>2. CASE \E w \in Workers : TaskStep(w) \/ ChunkBatch(w) \/ TaskFault(w)
    BY <2>2, ProgressOfTasks
  <2>3. CASE (\E w \in Workers : Deliver(w)) \/ (\E a \in unacked : Redeliver(a))
               \/ UNCHANGED vars
    BY <2>3 DEF Deliver, Redeliver, vars, EmbeddedWithinTotal
  <2>4. CASE Age
    <3>1. record'.embedded = record.embedded /\ record'.total = record.total
      BY <2>4 DEF Age, TypeOK, Record
    <3>2. QED
      BY <3>1 DEF EmbeddedWithinTotal
  <2>5. CASE Expire
    BY <2>5 DEF Expire, Absent, EmbeddedWithinTotal
  <2>6. QED
    BY <2>1, <2>2, <2>3, <2>4, <2>5 DEF Next
<1>3. QED
  BY <1>1, <1>2, TypeCorrect, PTL DEF Spec

=============================================================================
