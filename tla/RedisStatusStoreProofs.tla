----------------------- MODULE RedisStatusStoreProofs -----------------------
(***************************************************************************)
(* Proofs about RedisStatusStore: type correctness, the WATCH invariant,   *)
(* and that it implements the atomic StatusStore for any set of callers,   *)
(* attempts, fields and values.                                            *)
(***************************************************************************)
EXTENDS RedisStatusStore, TLAPS

LEMMA RecordFacts ==
  /\ Absent \in Record
  /\ NoCall \in Request
  /\ NoAnswer \in [ok : BOOLEAN, rec : Record]
  /\ \A a \in Attempts \cup {NoAttempt} : new_pending(a) \in Record
  /\ \A rec \in Record, q \in Request : with_updates(rec, q) \in Record
<1>1. Absent \in Record
  BY StoreAssumption DEF Absent, Record
<1>2. NoCall \in Request
  BY DEF NoCall, Request, Patch
<1>3. NoAnswer \in [ok : BOOLEAN, rec : Record]
  BY <1>1 DEF NoAnswer
<1>4. \A a \in Attempts \cup {NoAttempt} : new_pending(a) \in Record
  BY StoreAssumption DEF new_pending, Record
<1>5. ASSUME NEW rec \in Record, NEW q \in Request
      PROVE  with_updates(rec, q) \in Record
  <2>1. q.attempt \in Attempts \cup {NoAttempt} /\ q.patch \in [Fields -> Values \cup {Keep}]
    BY DEF Request, Patch
  <2>2. \A f \in Fields :
          (IF q.patch[f] = Keep THEN rec.data[f] ELSE q.patch[f]) \in Values
    BY <2>1 DEF Record
  <2>3. QED
    BY <2>1, <2>2 DEF with_updates, Record
<1>6. QED
  BY <1>1, <1>2, <1>3, <1>4, <1>5

\* A request's first command is one of the phases between call and answer.
LEMMA StartFacts ==
  ASSUME NEW q \in Request
  PROVE  /\ Start(q.op) \in Phases \ {"idle", "done"}
         /\ Start(q.op) = "GET" <=> q.op = "get"
         /\ Start(q.op) = "SET NX" <=> q.op = "create"
         /\ Start(q.op) = "GET to update" <=> q.op = "update"
         /\ Start(q.op) = "WATCH" <=> q.op = "update_if_attempt"
         /\ Start(q.op) \notin {"GET existing", "GET watched", "EXEC", "SET"}
<1>1. q.op \in {"get", "create", "update", "update_if_attempt"}
  BY DEF Request
<1>2. QED
  BY <1>1 DEF Start, Phases

LEMMA AnswerType ==
  ASSUME TypeOK, NEW c \in Callers, NEW ok \in BOOLEAN, NEW rec \in Record,
         Answer(c, ok, rec)
  PROVE  /\ answer' \in [Callers -> [ok : BOOLEAN, rec : Record]]
         /\ phase' \in [Callers -> Phases]
         /\ UNCHANGED <<used, call>>
<1>1. "done" \in Phases
  BY DEF Phases
<1>2. [ok |-> ok, rec |-> rec] \in [ok : BOOLEAN, rec : Record]
  OBVIOUS
<1>3. QED
  BY <1>1, <1>2 DEF Answer, TypeOK

LEMMA GotoType ==
  ASSUME TypeOK, NEW c \in Callers, NEW p \in Phases, Goto(c, p)
  PROVE  phase' \in [Callers -> Phases]
BY DEF Goto, TypeOK

LEMMA TouchType ==
  ASSUME NEW rec \in Record, NEW writers, Touch(rec, writers)
  PROVE  record' \in Record /\ dirty' \in [Callers -> BOOLEAN]
BY DEF Touch, Watching

LEMMA TypeInductive == TypeOK /\ [RedisNext]_redisVars => TypeOK'
<1> SUFFICES ASSUME TypeOK, [RedisNext]_redisVars
             PROVE  TypeOK'
  OBVIOUS
<1> USE RecordFacts DEF TypeOK
<1>1. ASSUME NEW c \in Callers, NEW q \in Requests, RedisInvoke(c, q)
      PROVE  TypeOK'
  <2>1. q \in Request
    BY StoreAssumption
  <2>2. Start(q.op) \in Phases
    BY <2>1, StartFacts
  <2>3. q.attempt \in Attempts \cup {NoAttempt}
    BY <2>1 DEF Request
  <2>4. QED
    BY <1>1, <2>1, <2>2, <2>3 DEF RedisInvoke
<1>2. ASSUME NEW c \in Callers, Get(c)
      PROVE  TypeOK'
  BY <1>2, AnswerType DEF Get
<1>3. ASSUME NEW c \in Callers, SetNX(c)
      PROVE  TypeOK'
  <2>1. new_pending(call[c].attempt) \in Record
    BY DEF Request
  <2>2. CASE record = Absent
    BY <1>3, <2>1, <2>2, AnswerType, TouchType DEF SetNX
  <2>3. CASE record # Absent
    BY <1>3, <2>3, GotoType DEF SetNX, Phases
  <2>4. QED
    BY <2>2, <2>3
<1>4. ASSUME NEW c \in Callers, GetExisting(c)
      PROVE  TypeOK'
  <2>1. CASE record = Absent
    BY <1>4, <2>1, GotoType DEF GetExisting, Phases
  <2>2. CASE record # Absent
    BY <1>4, <2>2, AnswerType DEF GetExisting
  <2>3. QED
    BY <2>1, <2>2
<1>5. ASSUME NEW c \in Callers, Watch(c)
      PROVE  TypeOK'
  BY <1>5, GotoType DEF Watch, Phases
<1>6. ASSUME NEW c \in Callers, GetWatched(c)
      PROVE  TypeOK'
  <2>1. CASE record = Absent \/ record.attempt # call[c].expected
    BY <1>6, <2>1, AnswerType DEF GetWatched
  <2>2. CASE ~(record = Absent \/ record.attempt # call[c].expected)
    BY <1>6, <2>2, GotoType DEF GetWatched, Phases
  <2>3. QED
    BY <2>1, <2>2
<1>7. ASSUME NEW c \in Callers, Exec(c)
      PROVE  TypeOK'
  <2>1. with_updates(seen[c], call[c]) \in Record
    OBVIOUS
  <2>2. record' \in Record /\ dirty' \in [Callers -> BOOLEAN]
    BY <1>7, <2>1, TouchType DEF Exec
  <2>3. QED
    BY <1>7, RecordFacts, AnswerType, <2>2 DEF Exec, Forget
<1>8. ASSUME NEW c \in Callers, ExecAborted(c)
      PROVE  TypeOK'
  BY <1>8, GotoType DEF ExecAborted, Forget, Phases
<1>9. ASSUME NEW c \in Callers, ExecReplyLost(c)
      PROVE  TypeOK'
  <2>1. with_updates(seen[c], call[c]) \in Record
    OBVIOUS
  <2>2. record' \in Record /\ dirty' \in [Callers -> BOOLEAN]
    BY <1>9, <2>1, TouchType DEF ExecReplyLost
  <2>3. QED
    BY <1>9, RecordFacts, GotoType, <2>2 DEF ExecReplyLost, Forget, Phases
<1>10. ASSUME NEW c \in Callers, GetToUpdate(c)
       PROVE  TypeOK'
  <2>1. CASE record = Absent
    BY <1>10, <2>1, AnswerType DEF GetToUpdate
  <2>2. CASE record # Absent
    BY <1>10, <2>2, GotoType DEF GetToUpdate, Phases
  <2>3. QED
    BY <2>1, <2>2
<1>11. ASSUME NEW c \in Callers, SetUpdated(c)
       PROVE  TypeOK'
  <2>1. with_updates(seen[c], call[c]) \in Record
    OBVIOUS
  <2>2. record' \in Record /\ dirty' \in [Callers -> BOOLEAN]
    BY <1>11, <2>1, TouchType DEF SetUpdated
  <2>3. QED
    BY <1>11, RecordFacts, AnswerType, <2>2 DEF SetUpdated, Forget
<1>12. CASE KeyExpires
  BY <1>12, TouchType DEF KeyExpires
<1>13. CASE UNCHANGED redisVars
  BY <1>13 DEF redisVars
<1>14. QED
  BY <1>1, <1>2, <1>3, <1>4, <1>5, <1>6, <1>7, <1>8, <1>9, <1>10, <1>11,
     <1>12, <1>13 DEF RedisNext, Command

\* Every reachable state of the Redis store has its variables' types.
THEOREM TypeCorrect == RedisSpec => []TypeOK
<1>1. RedisInit => TypeOK
  BY RecordFacts DEF RedisInit, Init, TypeOK, Phases
<1>2. QED
  BY <1>1, TypeInductive, PTL DEF RedisSpec

----------------------------------------------------------------------------
(***************************************************************************)
(* The atomic store is implemented.  update() is left out: its GET and SET *)
(* are not one step, and the application never calls it.  ReplyLost is     *)
(* FALSE: a lost EXEC reply applies one call twice.                        *)
(***************************************************************************)
AppAssumption ==
  /\ ~ReplyLost
  /\ \A q \in Requests : q.op # "update"

IInv == TypeOK /\ PhaseMatchesCall /\ WatchInv

LEMMA PhaseInductive ==
  TypeOK /\ PhaseMatchesCall /\ [RedisNext]_redisVars => PhaseMatchesCall'
<1> SUFFICES ASSUME TypeOK, PhaseMatchesCall, [RedisNext]_redisVars
             PROVE  PhaseMatchesCall'
  OBVIOUS
<1> USE DEF TypeOK, PhaseMatchesCall
<1>1. ASSUME NEW c \in Callers, NEW q \in Requests, RedisInvoke(c, q)
      PROVE  PhaseMatchesCall'
  <2>1. q \in Request
    BY StoreAssumption
  <2>2. QED
    BY <1>1, <2>1, StartFacts DEF RedisInvoke
<1>2. ASSUME NEW c \in Callers, Command(c) \/ ExecReplyLost(c)
      PROVE  PhaseMatchesCall'
  <2>1. Get(c) => PhaseMatchesCall'
    BY DEF Get, Answer
  <2>2. SetNX(c) => PhaseMatchesCall'
    BY DEF SetNX, Answer, Goto
  <2>3. GetExisting(c) => PhaseMatchesCall'
    BY DEF GetExisting, Answer, Goto
  <2>4. Watch(c) => PhaseMatchesCall'
    BY DEF Watch, Goto
  <2>5. GetWatched(c) => PhaseMatchesCall'
    <3>1. GetWatched(c) => /\ phase' \in {[phase EXCEPT ![c] = "done"], [phase EXCEPT ![c] = "EXEC"]}
                            /\ phase[c] = "GET watched" /\ UNCHANGED call
      BY DEF GetWatched, Answer, Goto
    <3>2. QED
      BY <3>1
  <2>6. Exec(c) => PhaseMatchesCall'
    BY DEF Exec, Answer
  <2>7. ExecAborted(c) => PhaseMatchesCall'
    BY DEF ExecAborted, Goto
  <2>8. ExecReplyLost(c) => PhaseMatchesCall'
    BY DEF ExecReplyLost, Goto
  <2>9. GetToUpdate(c) => PhaseMatchesCall'
    BY DEF GetToUpdate, Answer, Goto
  <2>10. SetUpdated(c) => PhaseMatchesCall'
    BY DEF SetUpdated, Answer
  <2>11. QED
    BY <1>2, <2>1, <2>2, <2>3, <2>4, <2>5, <2>6, <2>7, <2>8, <2>9, <2>10 DEF Command
<1>3. CASE KeyExpires \/ UNCHANGED redisVars
  BY <1>3 DEF KeyExpires, redisVars
<1>4. QED
  BY <1>1, <1>2, <1>3 DEF RedisNext

\* A write of the key leaves no other caller with an intact watch.
LEMMA WatchInductive ==
  IInv /\ [RedisNext]_redisVars => WatchInv'
<1> SUFFICES ASSUME TypeOK, PhaseMatchesCall, WatchInv, [RedisNext]_redisVars,
                    NEW d \in Callers, phase'[d] = "EXEC", ~dirty'[d]
             PROVE  /\ seen'[d] = record'
                    /\ record' # Absent
                    /\ record'.attempt = call'[d].expected
  BY DEF WatchInv, IInv, Absent
<1> USE DEF TypeOK, WatchInv
<1> DEFINE Goal == /\ seen'[d] = record'
                   /\ record' # Absent
                   /\ record'.attempt = call'[d].expected
<1>1. ASSUME NEW c \in Callers, NEW q \in Requests, RedisInvoke(c, q)
      PROVE  Goal
  <2>1. q \in Request
    BY StoreAssumption
  <2>2. c # d
    BY <1>1, <2>1, StartFacts DEF RedisInvoke
  <2>3. QED
    BY <1>1, <2>2 DEF RedisInvoke
<1>2. ASSUME NEW c \in Callers, NEW rec, Touch(rec, {c}), phase'[c] # "EXEC",
             \A e \in Callers : e # c => phase'[e] = phase[e]
      PROVE  FALSE
  BY <1>2 DEF Touch, Watching
<1>3. ASSUME NEW c \in Callers, Get(c)
      PROVE  Goal
  BY <1>3 DEF Get, Answer
<1>4. ASSUME NEW c \in Callers, SetNX(c)
      PROVE  Goal
  <2>1. CASE record = Absent
    BY <1>2, <1>4, <2>1 DEF SetNX, Answer
  <2>2. CASE record # Absent
    BY <1>4, <2>2 DEF SetNX, Goto
  <2>3. QED
    BY <2>1, <2>2
<1>5. ASSUME NEW c \in Callers, GetExisting(c)
      PROVE  Goal
  BY <1>5 DEF GetExisting, Answer, Goto
<1>6. ASSUME NEW c \in Callers, Watch(c)
      PROVE  Goal
  BY <1>6 DEF Watch, Goto
<1>7. ASSUME NEW c \in Callers, GetWatched(c)
      PROVE  Goal
  BY <1>7 DEF GetWatched, Answer, Goto
<1>8. ASSUME NEW c \in Callers, Exec(c) \/ ExecReplyLost(c)
      PROVE  Goal
  BY <1>2, <1>8 DEF Exec, ExecReplyLost, Answer, Goto
<1>9. ASSUME NEW c \in Callers, ExecAborted(c)
      PROVE  Goal
  BY <1>9 DEF ExecAborted, Goto, Forget
<1>10. ASSUME NEW c \in Callers, GetToUpdate(c)
       PROVE  Goal
  BY <1>10 DEF GetToUpdate, Answer, Goto, PhaseMatchesCall
<1>11. ASSUME NEW c \in Callers, SetUpdated(c)
       PROVE  Goal
  BY <1>2, <1>11 DEF SetUpdated, Answer
<1>12. CASE KeyExpires
  BY <1>12 DEF KeyExpires, Touch, Watching
<1>13. CASE UNCHANGED redisVars
  BY <1>13 DEF redisVars
<1>14. QED
  BY <1>1, <1>3, <1>4, <1>5, <1>6, <1>7, <1>8, <1>9, <1>10, <1>11, <1>12,
     <1>13 DEF RedisNext, Command

\* A caller about to EXEC with an intact watch read the stored record.
LEMMA Invariance == RedisSpec => []IInv
<1>1. RedisInit => IInv
  BY RecordFacts DEF RedisInit, Init, IInv, TypeOK, Phases, PhaseMatchesCall, WatchInv
<1>2. IInv /\ [RedisNext]_redisVars => IInv'
  BY TypeInductive, PhaseInductive, WatchInductive DEF IInv
<1>3. QED
  BY <1>1, <1>2, PTL DEF RedisSpec

\* What a caller is about to EXEC on is the record that is still stored, for
\* any callers, calls, expiry and lost replies: WATCH misses no write.
THEOREM WatchCorrect == RedisSpec => []WatchInv
<1>1. IInv => WatchInv
  BY DEF IInv
<1>2. QED
  BY <1>1, Invariance, PTL

\* Answering is the abstract answer; moving between commands is invisible.
LEMMA AtomicAnswer ==
  ASSUME TypeOK, NEW c \in Callers, phase[c] \notin {"idle", "done"},
         NEW ok, NEW rec, Answer(c, ok, rec)
  PROVE  AtomicPhase[c] = "called" /\ Atomic!Answer(c, ok, rec)
BY DEF TypeOK, Answer, AtomicPhase, Atomic!Answer

LEMMA AtomicGoto ==
  ASSUME TypeOK, NEW c \in Callers, phase[c] \notin {"idle", "done"},
         NEW p \in Phases \ {"idle", "done"}, Goto(c, p)
  PROVE  AtomicPhase' = AtomicPhase
BY DEF TypeOK, Goto, AtomicPhase

LEMMA AtomicConstants ==
  /\ Atomic!Absent = Absent
  /\ Atomic!NoCall = NoCall
  /\ Atomic!NoAnswer = NoAnswer
  /\ \A a : Atomic!new_pending(a) = new_pending(a)
  /\ \A rec, q : Atomic!with_updates(rec, q) = with_updates(rec, q)
BY DEF Atomic!Absent, Absent, Atomic!NoCall, NoCall, Atomic!NoAnswer, NoAnswer,
       Atomic!new_pending, new_pending, Atomic!with_updates, with_updates

LEMMA Simulation ==
  ASSUME AppAssumption
  PROVE  IInv /\ [RedisNext]_redisVars => [Atomic!Next]_(Atomic!vars)
<1> SUFFICES ASSUME IInv, [RedisNext]_redisVars
             PROVE  [Atomic!Next]_(Atomic!vars)
  OBVIOUS
<1> USE AtomicConstants DEF IInv
<1>1. ASSUME NEW c \in Callers, NEW q \in Requests, RedisInvoke(c, q)
      PROVE  Atomic!Invoke(c, q)
  <2>1. q \in Request
    BY StoreAssumption
  <2>2. AtomicPhase[c] \in {"idle", "done"}
    BY <1>1 DEF RedisInvoke, AtomicPhase
  <2>3. AtomicPhase' = [AtomicPhase EXCEPT ![c] = "called"]
    BY <1>1, <2>1, StartFacts DEF RedisInvoke, AtomicPhase, TypeOK
  <2>4. QED
    BY <1>1, <2>2, <2>3 DEF RedisInvoke, Atomic!Invoke
<1>2. ASSUME NEW c \in Callers, Get(c)
      PROVE  Atomic!get(c)
  BY <1>2, AtomicAnswer DEF Get, Atomic!get, PhaseMatchesCall
<1>3. ASSUME NEW c \in Callers, SetNX(c)
      PROVE  Atomic!create_if_absent(c) \/ UNCHANGED Atomic!vars
  <2>1. CASE record = Absent
    BY <1>3, <2>1, AtomicAnswer
       DEF SetNX, Touch, Atomic!create_if_absent, PhaseMatchesCall
  <2>2. CASE record # Absent
    <3>1. AtomicPhase' = AtomicPhase
      BY <1>3, <2>2, AtomicGoto DEF SetNX, Phases
    <3>2. QED
      BY <1>3, <2>2, <3>1 DEF SetNX, Atomic!vars
  <2>3. QED
    BY <2>1, <2>2
<1>4. ASSUME NEW c \in Callers, GetExisting(c)
      PROVE  Atomic!create_if_absent(c) \/ UNCHANGED Atomic!vars
  <2>1. CASE record = Absent
    <3>1. AtomicPhase' = AtomicPhase
      BY <1>4, <2>1, AtomicGoto DEF GetExisting, Phases
    <3>2. QED
      BY <1>4, <2>1, <3>1 DEF GetExisting, Atomic!vars
  <2>2. CASE record # Absent
    BY <1>4, <2>2, AtomicAnswer
       DEF GetExisting, Atomic!create_if_absent, PhaseMatchesCall
  <2>3. QED
    BY <2>1, <2>2
<1>5. ASSUME NEW c \in Callers, Watch(c)
      PROVE  UNCHANGED Atomic!vars
  <2>1. AtomicPhase' = AtomicPhase
    BY <1>5, AtomicGoto DEF Watch, Phases
  <2>2. QED
    BY <1>5, <2>1 DEF Watch, Atomic!vars
<1>6. ASSUME NEW c \in Callers, GetWatched(c)
      PROVE  Atomic!update_if_attempt(c) \/ UNCHANGED Atomic!vars
  <2>1. CASE record = Absent \/ record.attempt # call[c].expected
    BY <1>6, <2>1, AtomicAnswer
       DEF GetWatched, Atomic!update_if_attempt, PhaseMatchesCall
  <2>2. CASE ~(record = Absent \/ record.attempt # call[c].expected)
    <3>1. AtomicPhase' = AtomicPhase
      BY <1>6, <2>2, AtomicGoto DEF GetWatched, Phases
    <3>2. QED
      BY <1>6, <2>2, <3>1 DEF GetWatched, Atomic!vars
  <2>3. QED
    BY <2>1, <2>2
<1>7. ASSUME NEW c \in Callers, Exec(c)
      PROVE  Atomic!update_if_attempt(c)
  <2>1. /\ seen[c] = record
        /\ record # Absent
        /\ record.attempt = call[c].expected
    BY <1>7 DEF Exec, WatchInv
  <2>2. record' = with_updates(record, call[c])
    BY <1>7, <2>1 DEF Exec, Touch
  <2>3. Atomic!Answer(c, TRUE, Absent) /\ AtomicPhase[c] = "called"
    BY <1>7, AtomicAnswer DEF Exec
  <2>4. call[c].op = "update_if_attempt"
    BY <1>7 DEF Exec, PhaseMatchesCall
  <2>5. QED
    BY <2>1, <2>2, <2>3, <2>4 DEF Atomic!update_if_attempt
<1>8. ASSUME NEW c \in Callers, ExecAborted(c)
      PROVE  UNCHANGED Atomic!vars
  <2>1. AtomicPhase' = AtomicPhase
    BY <1>8, AtomicGoto DEF ExecAborted, Phases
  <2>2. QED
    BY <1>8, <2>1 DEF ExecAborted, Atomic!vars
<1>9. ASSUME NEW c \in Callers
      PROVE  ~ExecReplyLost(c) /\ ~GetToUpdate(c) /\ ~SetUpdated(c)
  BY AppAssumption DEF AppAssumption, ExecReplyLost, GetToUpdate, SetUpdated,
                       PhaseMatchesCall
<1>10. CASE KeyExpires
  <2>1. AtomicPhase' = AtomicPhase
    BY <1>10 DEF KeyExpires, AtomicPhase
  <2>2. QED
    BY <1>10, <2>1 DEF KeyExpires, Touch, Atomic!Expire, Atomic!Next
<1>11. CASE UNCHANGED redisVars
  BY <1>11 DEF redisVars, Atomic!vars, AtomicPhase
<1>12. QED
  BY <1>1, <1>2, <1>3, <1>4, <1>5, <1>6, <1>7, <1>8, <1>9, <1>10, <1>11
     DEF RedisNext, Command, Atomic!Next, Atomic!Operation

\* With the calls the application makes and no lost replies, every behaviour
\* of the Redis store is one of the atomic store: each operation takes effect
\* at one command between its call and its answer.
THEOREM Implements ==
  ASSUME AppAssumption
  PROVE  RedisSpec => ImplementsAtomicStore
<1>1. RedisInit => Atomic!Init
  BY AtomicConstants DEF RedisInit, Init, Atomic!Init, AtomicPhase
<1>2. IInv /\ [RedisNext]_redisVars => [Atomic!Next]_(Atomic!vars)
  BY Simulation
<1>3. QED
  BY <1>1, <1>2, Invariance, PTL
     DEF RedisSpec, ImplementsAtomicStore, Atomic!Spec

----------------------------------------------------------------------------
(* One of two concurrent retries wins *)

\* A call that still has to put its fresh id into the record, and one that was
\* told it did.
Pending(c) == phase[c] \notin {"idle", "done"} /\ call[c].attempt # NoAttempt
Won(c) == Done(c, "update_if_attempt") /\ answer[c].ok /\ call[c].attempt # NoAttempt

\* An id enters the record once, and once replaced it is in the record of
\* nobody and in no call that could bring it back.
RetryInv ==
  /\ record.attempt \in used \cup {NoAttempt}
  /\ \A c \in Callers : Pending(c) =>
       call[c].attempt \in used /\ record.attempt # call[c].attempt
  /\ \A c, d \in Callers :
       Pending(c) /\ Pending(d) /\ call[c].attempt = call[d].attempt => c = d
  /\ \A c \in Callers : Won(c) =>
       call[c].expected \in used /\ record.attempt # call[c].expected
  /\ \A c, d \in Callers : Won(c) /\ Pending(d) => call[d].attempt # call[c].expected
  /\ OneRetryWins

\* A command that writes nothing and wins nothing.
LEMMA QuietCommand ==
  ASSUME TypeOK, RetryInv, record'.attempt \in {record.attempt, NoAttempt}, UNCHANGED <<used, call>>,
         \A c \in Callers : Pending(c)' => Pending(c),
         \A c \in Callers : Won(c)' => Won(c)
  PROVE  RetryInv'
<1>1. NoAttempt \notin used
  BY StoreAssumption DEF TypeOK
<1>2. OneRetryWins'
  <2> SUFFICES ASSUME NEW c \in Callers, NEW d \in Callers, c # d, Won(c)', Won(d)'
               PROVE  call[c].expected # call[d].expected
    BY DEF OneRetryWins, Won
  <2> QED BY DEF RetryInv, OneRetryWins, Won
<1> HIDE DEF Pending, Won
<1> QED BY <1>1, <1>2 DEF RetryInv

LEMMA RetryInductive ==
  ASSUME AppAssumption
  PROVE  IInv /\ RetryInv /\ [RedisNext]_redisVars => RetryInv'
<1> SUFFICES ASSUME TypeOK, PhaseMatchesCall, WatchInv, RetryInv, [RedisNext]_redisVars
             PROVE  RetryInv'
  BY DEF IInv
<1>0. NoAttempt \notin used /\ Absent.attempt = NoAttempt
  BY StoreAssumption DEF TypeOK, Absent
<1>1. ASSUME NEW c \in Callers, NEW q \in Requests, RedisInvoke(c, q)
      PROVE  RetryInv'
  <2>1. /\ record' = record /\ q.attempt \notin used
        /\ used' = IF q.attempt = NoAttempt THEN used ELSE used \cup {q.attempt}
        /\ call'[c] = q /\ phase'[c] \notin {"idle", "done"}
        /\ \A d \in Callers : d # c =>
              call'[d] = call[d] /\ phase'[d] = phase[d] /\ answer'[d] = answer[d]
    BY <1>1, StartFacts, StoreAssumption DEF RedisInvoke, TypeOK
  <2>2. /\ \A d \in Callers : Won(d)' => d # c /\ Won(d)
        /\ \A d \in Callers : d # c => (Pending(d)' <=> Pending(d))
        /\ Pending(c)' => q.attempt \in used' \ used
    BY <2>1 DEF Won, Pending, Done
  <2>3. OneRetryWins'
    <3> SUFFICES ASSUME NEW d \in Callers, NEW e \in Callers, d # e, Won(d)', Won(e)'
                 PROVE  call'[d].expected # call'[e].expected
      BY DEF OneRetryWins, Won
    <3>1. call'[d] = call[d] /\ call'[e] = call[e] /\ Won(d) /\ Won(e)
      BY <2>1, <2>2
    <3> QED BY <3>1 DEF RetryInv, OneRetryWins, Won
  <2> HIDE DEF Won, Pending
  <2> QED BY <1>0, <2>1, <2>2, <2>3 DEF RetryInv
<1>2. ASSUME NEW c \in Callers,
             Get(c) \/ GetExisting(c) \/ Watch(c) \/ GetWatched(c) \/ ExecAborted(c)
               \/ (SetNX(c) /\ record # Absent)
      PROVE  RetryInv'
  <2>1. record' = record /\ UNCHANGED <<used, call>>
    BY <1>2 DEF Get, GetExisting, Watch, GetWatched, ExecAborted, SetNX, Answer, Goto
  <2>2. /\ phase[c] \notin {"idle", "done"}
        /\ phase'[c] = "done" => ~(call[c].op = "update_if_attempt" /\ answer'[c].ok)
        /\ \A d \in Callers : d # c => phase'[d] = phase[d] /\ answer'[d] = answer[d]
    <3>1. CASE Get(c)
      BY <3>1 DEF Get, Answer, PhaseMatchesCall, TypeOK
    <3>2. CASE GetExisting(c)
      BY <3>2 DEF GetExisting, Answer, Goto, PhaseMatchesCall, TypeOK
    <3>3. CASE GetWatched(c)
      <4>1. /\ phase[c] = "GET watched"
            /\ (Goto(c, "EXEC") /\ UNCHANGED answer) \/ Answer(c, FALSE, Absent)
        BY <3>3 DEF GetWatched
      <4>2. CASE Goto(c, "EXEC") /\ UNCHANGED answer
        BY <4>1, <4>2 DEF Goto, TypeOK
      <4>3. CASE Answer(c, FALSE, Absent)
        <5>1. phase'[c] = "done" /\ answer'[c] = [ok |-> FALSE, rec |-> Absent]
              /\ \A d \in Callers : d # c => phase'[d] = phase[d] /\ answer'[d] = answer[d]
          BY <4>3 DEF Answer, TypeOK
        <5>2. ~answer'[c].ok
          BY <5>1
        <5> QED BY <4>1, <5>1, <5>2
      <4> QED BY <4>1, <4>2, <4>3
    <3>4. CASE Watch(c) \/ ExecAborted(c)
      BY <3>4 DEF Watch, ExecAborted, Goto, TypeOK
    <3>5. CASE SetNX(c) /\ record # Absent
      BY <3>5 DEF SetNX, Goto, TypeOK
    <3> QED BY <1>2, <3>1, <3>2, <3>3, <3>4, <3>5
  <2>3. /\ \A d \in Callers : Pending(d)' => Pending(d)
        /\ \A d \in Callers : Won(d)' => Won(d)
    BY <2>1, <2>2 DEF Pending, Won, Done
  <2> QED BY <2>1, <2>3, QuietCommand
\* The two commands that put a caller's id into the record.
<1>3. ASSUME NEW c \in Callers, UNCHANGED <<used, call>>,
             phase[c] \notin {"idle", "done"}, phase'[c] = "done",
             \A d \in Callers : d # c => phase'[d] = phase[d] /\ answer'[d] = answer[d],
             record'.attempt = IF call[c].attempt = NoAttempt THEN record.attempt
                                                              ELSE call[c].attempt,
             Won(c)' => call[c].expected \in used /\ record.attempt = call[c].expected
      PROVE  RetryInv'
  <2>1. /\ \A d \in Callers : d # c => (Pending(d)' <=> Pending(d)) /\ (Won(d)' <=> Won(d))
        /\ ~Pending(c)' /\ ~Won(c)
        /\ Pending(c) <=> call[c].attempt # NoAttempt
        /\ Won(c)' => Pending(c)
    BY <1>3 DEF Pending, Won, Done
  <2>2. OneRetryWins'
    <3> SUFFICES ASSUME NEW d \in Callers, NEW e \in Callers, d # e, Won(d)', Won(e)'
                 PROVE  call[d].expected # call[e].expected
      BY <1>3 DEF OneRetryWins, Won
    <3>1. CASE d # c /\ e # c
      <4>1. Won(d) /\ Won(e)
        BY <2>1, <3>1
      <4> QED BY <4>1 DEF RetryInv, OneRetryWins, Won
    <3>2. CASE d = c \/ e = c
      BY <1>3, <2>1, <3>2 DEF RetryInv
    <3> QED BY <3>1, <3>2
  <2> HIDE DEF Won, Pending
  <2>3. \A d \in Callers : Won(d)' =>
          call[d].expected \in used /\ record'.attempt # call[d].expected
    BY <1>3, <2>1 DEF RetryInv
  <2>4. \A d, e \in Callers : Won(d)' /\ Pending(e)' => call[e].attempt # call[d].expected
    BY <1>3, <2>1 DEF RetryInv
  <2>5. \A d \in Callers : Pending(d)' =>
          call[d].attempt \in used /\ record'.attempt # call[d].attempt
    BY <1>3, <2>1 DEF RetryInv
  <2>6. record'.attempt \in used \cup {NoAttempt}
    BY <1>3, <2>1 DEF RetryInv
  <2>7. \A d, e \in Callers :
          Pending(d)' /\ Pending(e)' /\ call[d].attempt = call[e].attempt => d = e
    BY <1>3, <2>1 DEF RetryInv
  <2> QED BY <1>3, <2>2, <2>3, <2>4, <2>5, <2>6, <2>7 DEF RetryInv
<1>4. ASSUME NEW c \in Callers, SetNX(c), record = Absent
      PROVE  RetryInv'
  <2>1. call[c] \in Requests /\ call[c].op = "create" /\ call[c].attempt # NoAttempt
    BY <1>4, StoreAssumption DEF SetNX, PhaseMatchesCall
  <2>2. /\ UNCHANGED <<used, call>> /\ phase[c] = "SET NX" /\ phase'[c] = "done"
        /\ \A d \in Callers : d # c => phase'[d] = phase[d] /\ answer'[d] = answer[d]
        /\ record'.attempt = call[c].attempt
    <3>1. /\ phase[c] = "SET NX" /\ Answer(c, TRUE, new_pending(call[c].attempt))
          /\ record' = new_pending(call[c].attempt)
      BY <1>4 DEF SetNX, Touch
    <3> QED BY <3>1 DEF Answer, new_pending, TypeOK
  <2>3. ~Won(c)'
    BY <2>1, <2>2 DEF Won, Done
  <2> QED BY <1>3, <2>1, <2>2, <2>3
<1>5. ASSUME NEW c \in Callers, Exec(c)
      PROVE  RetryInv'
  <2>1. call[c] \in Requests /\ call[c].op = "update_if_attempt" /\ call[c].expected # NoAttempt
    BY <1>5, StoreAssumption DEF Exec, PhaseMatchesCall
  <2>2. seen[c] = record /\ record.attempt = call[c].expected
    BY <1>5 DEF Exec, WatchInv
  <2>3. /\ UNCHANGED <<used, call>> /\ phase[c] = "EXEC" /\ phase'[c] = "done"
        /\ \A d \in Callers : d # c => phase'[d] = phase[d] /\ answer'[d] = answer[d]
        /\ record' = with_updates(seen[c], call[c])
    BY <1>5 DEF Exec, Answer, Touch, TypeOK
  <2>4. record'.attempt = IF call[c].attempt = NoAttempt THEN record.attempt
                                                         ELSE call[c].attempt
    BY <2>2, <2>3 DEF with_updates
  <2>5. call[c].expected \in used
    BY <2>1, <2>2 DEF RetryInv
  <2> QED BY <1>3, <2>2, <2>3, <2>4, <2>5
<1>6. CASE KeyExpires
  <2>1. /\ record'.attempt = NoAttempt /\ UNCHANGED <<used, call, phase, answer>>
    BY <1>0, <1>6 DEF KeyExpires, Touch
  <2> QED BY <2>1, QuietCommand DEF Pending, Won, Done
<1>7. CASE UNCHANGED redisVars
  <2>1. UNCHANGED <<record, used, call, phase, answer>>
    BY <1>7 DEF redisVars
  <2> QED BY <2>1, QuietCommand DEF Pending, Won, Done
<1>8. ASSUME NEW c \in Callers
      PROVE  ~ExecReplyLost(c) /\ ~GetToUpdate(c) /\ ~SetUpdated(c)
  BY AppAssumption DEF AppAssumption, ExecReplyLost, GetToUpdate, SetUpdated,
                       PhaseMatchesCall
<1> QED BY <1>1, <1>2, <1>4, <1>5, <1>6, <1>7, <1>8 DEF RedisNext, Command

\* Of the callers that were told they replaced an attempt, no two replaced the
\* same one: two clients retrying one failed repo start one ingestion.
THEOREM OneRetry ==
  ASSUME AppAssumption
  PROVE  RedisSpec => []OneRetryWins
<1>1. RedisInit => RetryInv
  BY DEF RedisInit, Init, RetryInv, Pending, Won, Done, OneRetryWins, Absent
<1>2. IInv /\ RetryInv /\ [RedisNext]_redisVars => RetryInv'
  BY RetryInductive
<1>3. RetryInv => OneRetryWins
  BY DEF RetryInv
<1>4. QED
  BY <1>1, <1>2, <1>3, Invariance, PTL DEF RedisSpec

----------------------------------------------------------------------------
(* The record a lost create hands back *)

\* An answer that tells a creator it lost comes with a record.
LEMMA LostAnswer ==
  ASSUME TypeOK, LostCreateSeesRecord, NEW c \in Callers, NEW ok, NEW rec,
         Answer(c, ok, rec),
         call[c].op = "create" /\ ~ok => rec # Absent
  PROVE  LostCreateSeesRecord'
<1> SUFFICES ASSUME NEW d \in Callers, Done(d, "create")', ~answer'[d].ok
             PROVE  answer'[d].rec # Absent
  BY DEF LostCreateSeesRecord, Absent
<1>1. /\ answer' = [answer EXCEPT ![c] = [ok |-> ok, rec |-> rec]]
      /\ phase' = [phase EXCEPT ![c] = "done"] /\ call' = call
  BY DEF Answer
<1>2. phase'[d] = "done" /\ call[d].op = "create"
  BY <1>1 DEF Done
<1>3. CASE d = c
  <2>1. answer'[c] = [ok |-> ok, rec |-> rec]
    BY <1>1 DEF TypeOK
  <2> QED BY <1>2, <1>3, <2>1
<1>4. CASE d # c
  <2>1. answer'[d] = answer[d] /\ phase[d] = "done"
    BY <1>1, <1>2, <1>4 DEF TypeOK
  <2> QED BY <1>2, <2>1 DEF LostCreateSeesRecord, Done
<1> QED BY <1>3, <1>4

\* A step of c that answers nobody, with c on the way.
LEMMA LostQuiet ==
  ASSUME TypeOK, LostCreateSeesRecord, NEW c \in Callers, NEW p, p # "done",
         phase' = [phase EXCEPT ![c] = p], answer' = answer,
         NEW q, call' = [call EXCEPT ![c] = q]
  PROVE  LostCreateSeesRecord'
<1> SUFFICES ASSUME NEW d \in Callers, Done(d, "create")', ~answer'[d].ok
             PROVE  answer'[d].rec # Absent
  BY DEF LostCreateSeesRecord, Absent
<1>1. d # c
  BY DEF Done, TypeOK
<1>2. Done(d, "create")
  BY <1>1 DEF Done, TypeOK
<1> QED BY <1>2 DEF LostCreateSeesRecord

\* A create that lost never hands back the absence of a record, for any callers
\* and calls, expiry and lost replies (redis_status_store.py:87-103).
THEOREM LostCreates == RedisSpec => []LostCreateSeesRecord
<1>1. RedisInit => LostCreateSeesRecord
  BY DEF RedisInit, Init, LostCreateSeesRecord, Done
<1>2. IInv /\ LostCreateSeesRecord /\ [RedisNext]_redisVars => LostCreateSeesRecord'
  <2> SUFFICES ASSUME TypeOK, PhaseMatchesCall, LostCreateSeesRecord,
                      [RedisNext]_redisVars
               PROVE  LostCreateSeesRecord'
    BY DEF IInv
  <2>0. \A c \in Callers : call = [call EXCEPT ![c] = call[c]]
    BY DEF TypeOK
  <2>1. ASSUME NEW c \in Callers, NEW q \in Requests, RedisInvoke(c, q)
        PROVE  LostCreateSeesRecord'
    <3>1. Start(q.op) # "done"
      BY StoreAssumption, StartFacts
    <3> QED BY <2>1, <3>1, LostQuiet DEF RedisInvoke
  <2>2. ASSUME NEW c \in Callers,
               \/ GetExisting(c) /\ record = Absent
               \/ SetNX(c) /\ record # Absent
               \/ Watch(c) \/ ExecAborted(c) \/ ExecReplyLost(c)
               \/ GetWatched(c) /\ phase'[c] # "done"
               \/ GetToUpdate(c) /\ record # Absent
        PROVE  LostCreateSeesRecord'
    <3>1. PICK p : /\ p # "done" /\ phase' = [phase EXCEPT ![c] = p]
                   /\ answer' = answer /\ call' = call
      <4>1. CASE GetWatched(c) /\ phase'[c] # "done"
        <5>1. ~ Answer(c, FALSE, Absent)
          BY <4>1 DEF Answer, TypeOK
        <5> QED BY <4>1, <5>1 DEF GetWatched, Goto
      <4>2. CASE \/ GetExisting(c) /\ record = Absent
                 \/ SetNX(c) /\ record # Absent
                 \/ Watch(c) \/ ExecAborted(c) \/ ExecReplyLost(c)
                 \/ GetToUpdate(c) /\ record # Absent
        BY <4>2 DEF GetExisting, SetNX, Watch, ExecAborted, ExecReplyLost,
                    GetToUpdate, Goto
      <4> QED BY <2>2, <4>1, <4>2
    <3> QED BY <2>0, <3>1, LostQuiet
  <2>3. ASSUME NEW c \in Callers,
               \/ Get(c) \/ Exec(c) \/ SetUpdated(c)
               \/ GetExisting(c) /\ record # Absent
               \/ SetNX(c) /\ record = Absent
               \/ GetWatched(c) /\ phase'[c] = "done"
               \/ GetToUpdate(c) /\ record = Absent
        PROVE  LostCreateSeesRecord'
    <3>1. \/ Answer(c, FALSE, record) /\ record # Absent
          \/ \E rec : Answer(c, TRUE, rec)
          \/ Answer(c, FALSE, Absent) /\ call[c].op # "create"
      <4>1. CASE GetWatched(c) /\ phase'[c] = "done"
        <5>1. call[c].op # "create"
          BY <4>1 DEF GetWatched, PhaseMatchesCall
        <5>2. Answer(c, FALSE, Absent)
          BY <4>1 DEF GetWatched, Goto, TypeOK
        <5> QED BY <5>1, <5>2
      <4>2. CASE GetExisting(c) /\ record # Absent
        <5>1. Answer(c, FALSE, record)
          BY <4>2 DEF GetExisting
        <5> QED BY ONLY <4>2, <5>1
      <4>3. CASE \/ Get(c) \/ Exec(c) \/ SetUpdated(c)
                 \/ SetNX(c) /\ record = Absent
                 \/ GetToUpdate(c) /\ record = Absent
        BY <4>3 DEF Get, SetNX, Exec, GetToUpdate, SetUpdated
      <4> QED BY <2>3, <4>1, <4>2, <4>3
    <3>2. CASE Answer(c, FALSE, record) /\ record # Absent
      BY <3>2, LostAnswer
    <3>3. ASSUME NEW rec, Answer(c, TRUE, rec) PROVE LostCreateSeesRecord'
      BY <3>3, LostAnswer
    <3>4. CASE Answer(c, FALSE, Absent) /\ call[c].op # "create"
      BY <3>4, LostAnswer
    <3> QED BY <3>1, <3>2, <3>3, <3>4
  <2>4. CASE KeyExpires \/ UNCHANGED redisVars
    <3>1. UNCHANGED <<call, phase, answer>>
      BY <2>4 DEF KeyExpires, redisVars
    <3> QED BY <3>1 DEF LostCreateSeesRecord, Done, Absent
  <2>5. ASSUME NEW c \in Callers, Command(c) \/ ExecReplyLost(c)
        PROVE  LostCreateSeesRecord'
    BY <2>2, <2>3, <2>5 DEF Command
  <2> QED BY <2>1, <2>4, <2>5 DEF RedisNext
<1>3. QED
  BY <1>1, <1>2, Invariance, PTL DEF RedisSpec

=============================================================================
