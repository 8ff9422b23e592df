--------------------------- MODULE IndexingProofs ---------------------------
(***************************************************************************)
(* Proofs about QdrantCollection and Frontend, and the types of MCIndexing,*)
(* which puts them together with the chunk stage and the request budget.   *)
(*                                                                         *)
(* Collection: who is on the way through the creating branch saw it absent,*)
(* and it has been created since with the configured settings if at all;   *)
(* so a call to correct settings finds it there (CollectionInv).           *)
(*                                                                         *)
(* Browser: its state is well typed, the chat opens only for the active    *)
(* repo once that is ready, and a panel's record never goes back, for any  *)
(* repos and any number of polls (Typed, Honest).                          *)
(*                                                                         *)
(* The parts of MCIndexing share no variable: each step of the composition *)
(* is a step of one part and leaves the others alone, so a behaviour of it *)
(* is one of every part, and what is proved of a part holds in it.         *)
(***************************************************************************)
EXTENDS MCIndexing, ChunkingProofs, RequestBudgetProofs

----------------------------------------------------------------------------
(* The shared collection *)

Creating == {"create", "create index", "exists again"}

CreatorsSeeNoOldCollection ==
  \A w \in Writers : call[w] \in Creating => collection # "old"

IndexingMeansCreated ==
  \A w \in Writers : call[w] = "create index" => collection = "configured"

SyncingMeansPresent ==
  \A w \in Writers : call[w] \in {"get config", "update"} => collection # "absent"

CollectionInv ==
  /\ CollectionTypeOK
  /\ CreatorsSeeNoOldCollection
  /\ IndexingMeansCreated
  /\ SyncingMeansPresent
  /\ WritesIntoConfigured

LEMMA CollectionInitInv == CollectionInit => CollectionInv
  BY DEF CollectionInit, CollectionInv, CollectionTypeOK, WritesIntoConfigured,
         CreatorsSeeNoOldCollection, IndexingMeansCreated, SyncingMeansPresent,
         Creating

\* The typing of a step.
LEMMA CollectionTypeStep ==
  ASSUME CollectionTypeOK, NEW w \in Writers,
         NewStore(w) \/ Upsert(w) \/ StoreStep(w)
  PROVE  CollectionTypeOK'
<1>1. CASE NewStore(w)
  BY <1>1 DEF NewStore, CollectionTypeOK
<1>2. CASE Upsert(w)
  BY <1>2 DEF Upsert, Then, CollectionTypeOK
<1>3. CASE CollectionExists(w)
  BY <1>3 DEF CollectionExists, Then, CollectionTypeOK
<1>4. CASE CreateCollection(w)
  BY <1>4 DEF CreateCollection, Then, CollectionTypeOK
<1>5. CASE CreateIndex(w)
  BY <1>5 DEF CreateIndex, Synced, Then, CollectionTypeOK
<1>6. CASE ExistsAgain(w)
  BY <1>6 DEF ExistsAgain, Synced, Raise, Then, CollectionTypeOK
<1>7. CASE GetConfig(w)
  BY <1>7 DEF GetConfig, Synced, Raise, Then, CollectionTypeOK
<1>8. CASE UpdateCollection(w)
  BY <1>8 DEF UpdateCollection, Synced, Raise, Then, CollectionTypeOK
<1>9. CASE Write(w)
  BY <1>9 DEF Write, Then, CollectionTypeOK
<1> QED
  BY <1>1, <1>2, <1>3, <1>4, <1>5, <1>6, <1>7, <1>8, <1>9 DEF StoreStep

LEMMA CollectionStepInv ==
  ASSUME CollectionInv, NEW w \in Writers,
         NewStore(w) \/ Upsert(w) \/ StoreStep(w)
  PROVE  CollectionInv'
<1> USE DEF Creating
<1>t. CollectionTypeOK /\ CollectionTypeOK'
  BY CollectionTypeStep DEF CollectionInv
<1>i. /\ CreatorsSeeNoOldCollection /\ IndexingMeansCreated /\ SyncingMeansPresent
      /\ WritesIntoConfigured
  BY DEF CollectionInv
<1> USE DEF CreatorsSeeNoOldCollection, IndexingMeansCreated, SyncingMeansPresent,
            WritesIntoConfigured, CollectionTypeOK
<1>g. SUFFICES /\ CreatorsSeeNoOldCollection' /\ IndexingMeansCreated' /\ SyncingMeansPresent'
               /\ WritesIntoConfigured'
  BY <1>t DEF CollectionInv
<1>1. CASE NewStore(w)
  BY <1>1, <1>t, <1>i DEF NewStore
<1>2. CASE Upsert(w)
  BY <1>2, <1>t, <1>i DEF Upsert, Then
<1>3. CASE CollectionExists(w)
  BY <1>3, <1>t, <1>i DEF CollectionExists, Then
<1>4. CASE CreateCollection(w)
  BY <1>4, <1>t, <1>i DEF CreateCollection, Then
<1>5. CASE CreateIndex(w)
  BY <1>5, <1>t, <1>i DEF CreateIndex, Synced, Then
<1>6. CASE ExistsAgain(w)
  BY <1>6, <1>t, <1>i DEF ExistsAgain, Synced, Raise, Then
<1>7. CASE GetConfig(w)
  BY <1>7, <1>t, <1>i DEF GetConfig, Synced, Raise, Then
<1>8. CASE UpdateCollection(w)
  BY <1>8, <1>t, <1>i DEF UpdateCollection, Synced, Raise, Then
<1>9. CASE Write(w)
  BY <1>9, <1>t, <1>i DEF Write, Then
<1> QED
  BY <1>1, <1>2, <1>3, <1>4, <1>5, <1>6, <1>7, <1>8, <1>9 DEF StoreStep

\* The invariant holds throughout.
THEOREM CollectionInvariant == CollectionSpec => []CollectionInv
<1>1. CollectionInv /\ [CollectionNext]_collectionVars => CollectionInv'
  <2> SUFFICES ASSUME CollectionInv, [CollectionNext]_collectionVars
               PROVE  CollectionInv'
    OBVIOUS
  <2>1. CASE CollectionNext
    BY <2>1, CollectionStepInv DEF CollectionNext
  <2>2. CASE UNCHANGED collectionVars
    BY <2>2 DEF collectionVars, CollectionInv, CollectionTypeOK, Creating,
       CreatorsSeeNoOldCollection, IndexingMeansCreated, SyncingMeansPresent,
       WritesIntoConfigured
  <2> QED
    BY <2>1, <2>2
<1> QED
  BY CollectionInitInv, <1>1, PTL DEF CollectionSpec

\* Points are only written into a collection with the configured settings.
THEOREM WritesIntoConfiguredHolds == CollectionSpec => []WritesIntoConfigured
<1>1. CollectionInv => WritesIntoConfigured
  BY DEF CollectionInv
<1> QED
  BY <1>1, CollectionInvariant, PTL

----------------------------------------------------------------------------
(* The browser *)

LEMMA NoRecordType == NoRecord \in Record
  BY FrontendAssumption DEF NoRecord, Record, Status

\* What is left of a chain that was cleaned up.
Cancelled(c, old) ==
  /\ c.cancelled = TRUE /\ c.repo = old.repo /\ c.answer = old.answer
  /\ c.phase # "ended" => c.phase = old.phase

LEMMA CleanUpType ==
  ASSUME NEW p \in [Chain -> ChainState]
  PROVE  /\ CleanUp(p) \in [Chain -> ChainState]
         /\ \A n \in Chain : Cancelled(CleanUp(p)[n], p[n])
<1> DEFINE Phase(n) == IF p[n].phase = "waiting" THEN "ended" ELSE p[n].phase
           c(n) == [p[n] EXCEPT !.cancelled = TRUE, !.phase = Phase(n)]
<1>1. ASSUME NEW n \in Chain PROVE c(n) \in ChainState /\ Cancelled(c(n), p[n])
  <2>1. p[n] \in ChainState
    OBVIOUS
  <2>2. Phase(n) \in {"asking", "answered", "waiting", "ended"}
        /\ (Phase(n) # "ended" => Phase(n) = p[n].phase)
    BY <2>1 DEF ChainState
  <2> HIDE DEF Phase
  <2>3. /\ c(n).cancelled = TRUE /\ c(n).phase = Phase(n)
        /\ c(n).repo = p[n].repo /\ c(n).answer = p[n].answer
    BY <2>1 DEF ChainState
  <2>4. c(n) \in ChainState
    BY <2>1, <2>2 DEF ChainState
  <2> QED
    BY <2>2, <2>3, <2>4 DEF Cancelled
<1>2. CleanUp(p) = [n \in Chain |-> c(n)]
  BY DEF CleanUp
<1> HIDE DEF c
<1> QED
  BY <1>1, <1>2

\* What an action does with a chain, with its type.
LEMMA MovedType ==
  ASSUME NEW p \in [Chain -> ChainState], NEW n \in Chain,
         NEW next \in {"asking", "answered", "waiting", "ended"},
         NEW answer \in Record
  PROVE  /\ Moved(p, n, next, answer) \in [Chain -> ChainState]
         /\ Moved(p, n, next, answer)[n].phase = next
         /\ Moved(p, n, next, answer)[n].answer = answer
         /\ Moved(p, n, next, answer)[n].cancelled = p[n].cancelled
         /\ Moved(p, n, next, answer)[n].repo = p[n].repo
         /\ \A m \in Chain : m # n => Moved(p, n, next, answer)[m] = p[m]
<1> DEFINE c == [p[n] EXCEPT !.phase = next, !.answer = answer]
<1>1. p[n] \in ChainState
  OBVIOUS
<1>2. c \in ChainState
  BY <1>1 DEF ChainState
<1>3. /\ c.phase = next /\ c.answer = answer
      /\ c.cancelled = p[n].cancelled /\ c.repo = p[n].repo
  BY <1>1 DEF ChainState
<1>4. Moved(p, n, next, answer) = [p EXCEPT ![n] = c]
  BY DEF Moved
<1> HIDE DEF c
<1> QED
  BY <1>2, <1>3, <1>4

\* A request keeps its repo, and no cancelled chain starts again.
Keeps(new, old) ==
  /\ new.repo = old.repo
  /\ old.cancelled => new.cancelled
  /\ new.phase # "ended" => old.phase # "ended"

LEMMA ContinueType ==
  ASSUME FrontendTypeOK, NEW n \in Chain, poll[n].phase # "ended",
         NEW next \in {"asking", "answered", "waiting", "ended"},
         NEW answer \in Record, poll' = Moved(poll, n, next, answer)
  PROVE  /\ poll' \in [Chain -> ChainState]
         /\ \A m \in Chain : Keeps(poll'[m], poll[m])
         /\ \A m \in Chain : m # n => poll'[m] = poll[m]
         /\ poll'[n].phase = next /\ poll'[n].answer = answer
<1>1. poll \in [Chain -> ChainState]
  BY DEF FrontendTypeOK
<1>2. /\ poll' \in [Chain -> ChainState]
      /\ poll'[n].phase = next /\ poll'[n].answer = answer
      /\ poll'[n].cancelled = poll[n].cancelled /\ poll'[n].repo = poll[n].repo
      /\ \A m \in Chain : m # n => poll'[m] = poll[m]
  BY <1>1, MovedType
<1>3. ASSUME NEW m \in Chain PROVE Keeps(poll'[m], poll[m])
  <2>1. CASE m = n
    BY <1>2, <2>1 DEF Keeps
  <2>2. CASE m # n
    BY <1>2, <2>2 DEF Keeps
  <2> QED
    BY <2>1, <2>2
<1> QED
  BY <1>2, <1>3

LEMMA RunEffectType ==
  ASSUME FrontendTypeOK, NEW r \in Repos, RunEffect(r)
  PROVE  /\ effects' \in 0..MaxPolls /\ effects' \in Chain
         /\ poll' \in [Chain -> ChainState]
         /\ poll'[effects'].phase = "asking" /\ poll'[effects'].repo = r
         /\ \A n \in Chain : n # effects' => Cancelled(poll'[n], poll[n])
<1> DEFINE first ==
      [phase |-> "asking", cancelled |-> FALSE, repo |-> r, answer |-> NoRecord]
<1>1. effects' = effects + 1 /\ effects' \in 1..MaxPolls
  BY FrontendAssumption DEF RunEffect, FrontendTypeOK
<1>2. poll' = [CleanUp(poll) EXCEPT ![effects'] = first]
  BY <1>1 DEF RunEffect
<1>3. first \in ChainState
  BY NoRecordType DEF ChainState
<1>4. effects' \in Chain /\ effects' \in 0..MaxPolls
  BY <1>1, FrontendAssumption DEF Chain
<1>5. poll \in [Chain -> ChainState]
  BY DEF FrontendTypeOK
<1>6. first.phase = "asking" /\ first.repo = r
  OBVIOUS
<1> HIDE DEF first
<1>7. /\ poll' \in [Chain -> ChainState]
      /\ poll'[effects'] = first
      /\ \A n \in Chain : n # effects' => poll'[n] = CleanUp(poll)[n]
  BY <1>2, <1>3, <1>4, <1>5, CleanUpType
<1>8. \A n \in Chain : n # effects' => Cancelled(poll'[n], poll[n])
  BY <1>5, <1>7, CleanUpType
<1> QED
  BY <1>4, <1>6, <1>7, <1>8

LEMMA ChangeType ==
  ASSUME FrontendTypeOK, NEW r \in Repos, NEW status \in Status, Change(r, status)
  PROVE  /\ server' \in [Repos -> Record]
         /\ server'[r].changes = server[r].changes + 1 /\ server'[r].status = status
         /\ \A q \in Repos \ {r} : server'[q] = server[q]
<1>1. server[r].changes + 1 \in 0..MaxChanges
  BY FrontendAssumption DEF Change, FrontendTypeOK, Record
<1> QED
  BY <1>1 DEF Change, FrontendTypeOK, Record

LEMMA NoPostType ==
  NoPost \in [phase : {"none", "sent", "done"}, repo : Repos \cup {NoRepo}, status : Status]
  BY DEF NoPost, Status

\* A chain whose answers still count.
Alive(c) == c.phase # "ended" /\ ~c.cancelled

\* Every request is about a repo, and the only chain whose answers count is the
\* one that the panel's effect started last, for the repo the panel shows.
Named ==
  /\ \A n \in Chain : poll[n].phase # "ended" => poll[n].repo \in Repos
  /\ post.phase # "none" => post.repo \in Repos
  /\ view # "ingest" => active \in Repos
  /\ \A n \in Chain : Alive(poll[n]) =>
       view = "status" /\ n = effects /\ poll[n].repo = active

Typed == FrontendTypeOK /\ Named

LEMMA TypeInit == FrontendInit => Typed
<1> SUFFICES ASSUME FrontendInit PROVE Typed
  OBVIOUS
<1>1. server \in [Repos -> Record]
  <2>1. \A q \in [status : Status, changes : {0}] : q \in Record
    BY FrontendAssumption DEF Record
  <2> QED
    BY <2>1 DEF FrontendInit
<1>2. poll \in [Chain -> ChainState]
  BY NoRecordType DEF FrontendInit, NoChain, ChainState
<1>3. FrontendTypeOK
  BY <1>1, <1>2, NoRecordType, FrontendAssumption
  DEF FrontendInit, FrontendTypeOK, NoPost, Status
<1>4. Named
  BY DEF FrontendInit, Named, NoChain, NoPost, Alive
<1> QED
  BY <1>3, <1>4 DEF Typed

\* The actions that only move chain n, to a phase and an answer.
LEMMA ChainMoves ==
  ASSUME Typed, NEW n \in Chain,
         PollFails(n) \/ PollIgnored(n) \/ TimerFires(n) \/ ServerReads(n)
  PROVE  \E next \in {"asking", "answered", "waiting", "ended"}, answer \in Record :
           /\ poll' = Moved(poll, n, next, answer)
           /\ poll[n].phase # "ended" /\ poll[n].repo \in Repos
           /\ next = "answered" => answer = server[poll[n].repo]
           /\ UNCHANGED <<server, view, active, post, record, effects>>
<1>1. poll[n].phase # "ended" /\ poll[n].repo \in Repos
  BY DEF Typed, Named, PollFails, PollIgnored, TimerFires, ServerReads
<1>2. CASE PollFails(n) \/ PollIgnored(n) \/ TimerFires(n)
  BY <1>1, <1>2, NoRecordType DEF PollFails, PollIgnored, TimerFires, Continue
<1>3. CASE ServerReads(n)
  <2>1. server[poll[n].repo] \in Record
    BY <1>1 DEF Typed, FrontendTypeOK
  <2> QED
    BY <1>1, <1>3, <2>1 DEF ServerReads
<1> QED
  BY <1>2, <1>3

\* An answer that opens the chat, and one that does not.
LEMMA Arrives ==
  ASSUME Typed, NEW n \in Chain, PollArrives(n)
  PROVE  /\ poll[n].phase = "answered" /\ ~poll[n].cancelled /\ poll[n].repo \in Repos
         /\ record' = poll[n].answer /\ record' \in Record
         /\ UNCHANGED <<server, active, effects>>
         /\ poll' \in [Chain -> ChainState]
         /\ \A m \in Chain : Keeps(poll'[m], poll[m])
         /\ \A m \in Chain : poll'[m].phase = "answered" =>
              poll[m].phase = "answered" /\ poll'[m].answer = poll[m].answer
         /\ \/ /\ poll[n].answer.status = "ready" /\ view' = "chat" /\ post' = NoPost
               /\ \A m \in Chain : poll'[m].phase = "ended" \/ poll'[m].cancelled
            \/ /\ poll[n].answer.status # "ready" /\ UNCHANGED <<view, post>>
               /\ poll'[n].phase # "answered"
<1>1. poll \in [Chain -> ChainState]
  BY DEF Typed, FrontendTypeOK
<1>2. /\ poll[n].phase = "answered" /\ ~poll[n].cancelled /\ poll[n].repo \in Repos
      /\ record' = poll[n].answer /\ record' \in Record
      /\ UNCHANGED <<server, active, effects>>
  BY <1>1 DEF PollArrives, Typed, Named, ChainState
<1>3. CASE poll[n].answer.status = "ready"
  <2>1. poll' = Moved(CleanUp(poll), n, "ended", NoRecord) /\ view' = "chat" /\ post' = NoPost
    BY <1>3 DEF PollArrives
  <2>2. /\ CleanUp(poll) \in [Chain -> ChainState]
        /\ \A m \in Chain : Cancelled(CleanUp(poll)[m], poll[m])
    BY <1>1, CleanUpType
  <2>3. /\ poll' \in [Chain -> ChainState]
        /\ poll'[n].phase = "ended" /\ poll'[n].repo = CleanUp(poll)[n].repo
        /\ poll'[n].cancelled = CleanUp(poll)[n].cancelled
        /\ \A m \in Chain : m # n => poll'[m] = CleanUp(poll)[m]
    BY <2>1, <2>2, MovedType, NoRecordType
  <2>4. ASSUME NEW m \in Chain
        PROVE  /\ Keeps(poll'[m], poll[m])
               /\ poll'[m].phase = "ended" \/ poll'[m].cancelled
               /\ poll'[m].phase = "answered" =>
                    poll[m].phase = "answered" /\ poll'[m].answer = poll[m].answer
    <3>1. CASE m = n
      BY <2>2, <2>3, <3>1 DEF Keeps, Cancelled
    <3>2. CASE m # n
      BY <2>2, <2>3, <3>2 DEF Keeps, Cancelled
    <3> QED
      BY <3>1, <3>2
  <2> QED
    BY <1>2, <1>3, <2>1, <2>3, <2>4
<1>4. CASE poll[n].answer.status # "ready"
  <2>1. PICK next \in {"ended", "waiting"} : poll' = Moved(poll, n, next, NoRecord)
    BY <1>4 DEF PollArrives, Continue
  <2>2. UNCHANGED <<view, post>>
    BY <1>4 DEF PollArrives
  <2>3. /\ poll' \in [Chain -> ChainState] /\ poll'[n].phase = next
        /\ \A m \in Chain : Keeps(poll'[m], poll[m])
        /\ \A m \in Chain : m # n => poll'[m] = poll[m]
    BY <1>2, <2>1, ContinueType, NoRecordType DEF Typed
  <2> QED
    BY <1>2, <1>4, <2>1, <2>2, <2>3
<1> QED
  BY <1>3, <1>4

LEMMA TypeInductive == Typed /\ [FrontendNext]_frontendVars => Typed'
<1> SUFFICES ASSUME Typed, [FrontendNext]_frontendVars PROVE Typed'
  OBVIOUS
<1> USE NoRecordType, NoPostType DEF Typed
<1>1. ASSUME NEW r \in Repos, ServerMoves(r) PROVE Typed'
  <2>1. server' \in [Repos -> Record]
    BY <1>1, ChangeType DEF ServerMoves, Status
  <2> QED
    BY <1>1, <2>1 DEF ServerMoves, FrontendTypeOK, Named
<1>2. ASSUME NEW r \in Repos, SendPost(r) PROVE Typed'
  BY <1>2 DEF SendPost, FrontendTypeOK, Status, Named
<1>3. ASSUME NEW n \in Chain, PollArrives(n) PROVE Typed'
  <2>1. FrontendTypeOK'
    BY <1>3, Arrives DEF FrontendTypeOK
  <2>2. /\ \A m \in Chain : Keeps(poll'[m], poll[m])
        /\ UNCHANGED active /\ poll[n].repo \in Repos
        /\ \/ post' = NoPost /\ view' = "chat"
           \/ UNCHANGED <<view, post>>
    BY <1>3, Arrives
  <2>3. \A m \in Chain : poll'[m].phase # "ended" => poll'[m].repo \in Repos
    BY <2>2 DEF Keeps, Named
  <2>4. view = "status" /\ active \in Repos
    BY <1>3 DEF PollArrives, Named, Alive
  <2>5. \A m \in Chain : Alive(poll'[m]) => view' = "status" /\ m = effects' /\ poll'[m].repo = active'
    BY <1>3, <2>2, <2>4, Arrives DEF Keeps, Named, Alive
  <2> QED
    BY <2>1, <2>2, <2>3, <2>4, <2>5 DEF Named, NoPost
<1>4. ASSUME NEW n \in Chain,
             PollFails(n) \/ PollIgnored(n) \/ TimerFires(n) \/ ServerReads(n)
      PROVE  Typed'
  <2>1. /\ poll' \in [Chain -> ChainState]
        /\ \A m \in Chain : Keeps(poll'[m], poll[m])
        /\ UNCHANGED <<server, view, active, post, record, effects>>
    BY <1>4, ChainMoves, ContinueType
  <2> QED
    BY <2>1 DEF FrontendTypeOK, Named, Keeps, Alive
<1>6. ASSUME ServerCreates PROVE Typed'
  <2>1. post.repo \in Repos /\ server[post.repo].status \in Status
    BY <1>6 DEF ServerCreates, Named, FrontendTypeOK, Record
  <2>2. PICK status \in Status : post' = [post EXCEPT !.phase = "done", !.status = status]
    BY <1>6, <2>1 DEF ServerCreates, Status
  <2>3. server' \in [Repos -> Record]
    BY <1>6, <2>1, ChangeType DEF ServerCreates, FrontendTypeOK, Status
  <2>4. UNCHANGED <<view, active, record, effects, poll>>
    BY <1>6 DEF ServerCreates
  <2> QED
    BY <2>1, <2>2, <2>3, <2>4 DEF FrontendTypeOK, Named
<1>7. ASSUME Started PROVE Typed'
  <2>1. /\ post.repo \in Repos /\ post' = NoPost /\ active' = post.repo
        /\ record' = NoRecord /\ UNCHANGED server
    BY <1>7 DEF Started, Named
  <2>2. CASE view' = "chat" /\ UNCHANGED <<effects, poll>>
    BY <1>7, <2>1, <2>2 DEF FrontendTypeOK, Named, NoPost, Started
  <2>3. CASE view' = "status" /\ RunEffect(post.repo)
    <3>1. FrontendTypeOK'
      BY <2>1, <2>3, RunEffectType DEF FrontendTypeOK
    <3>2. \A m \in Chain : poll'[m].phase # "ended" => poll'[m].repo \in Repos
      BY <2>1, <2>3, RunEffectType DEF Named, Cancelled
    <3>3. \A m \in Chain : Alive(poll'[m]) => m = effects' /\ poll'[m].repo = active'
      BY <2>1, <2>3, RunEffectType DEF Alive, Cancelled
    <3> QED
      BY <2>1, <2>3, <3>1, <3>2, <3>3 DEF Named, NoPost
  <2> QED
    BY <1>7, <2>2, <2>3 DEF Started
<1>8. ASSUME Retried PROVE Typed'
  <2>1. active \in Repos /\ RunEffect(active) /\ post' = NoPost
        /\ UNCHANGED <<server, view, active, record>>
    BY <1>8 DEF Retried, Named
  <2>2. /\ effects' \in Chain /\ poll'[effects'].repo \in Repos
        /\ \A m \in Chain : m # effects' => Cancelled(poll'[m], poll[m])
    BY <2>1, RunEffectType
  <2>3. FrontendTypeOK'
    BY <2>1, RunEffectType DEF FrontendTypeOK
  <2>4. \A m \in Chain : poll'[m].phase # "ended" => poll'[m].repo \in Repos
    BY <2>2 DEF Named, Cancelled
  <2>5. \A m \in Chain : Alive(poll'[m]) => m = effects' /\ poll'[m].repo = active'
    BY <2>1, RunEffectType DEF Alive, Cancelled
  <2>6. view' = "status"
    BY <1>8 DEF Retried
  <2> QED
    BY <2>1, <2>3, <2>4, <2>5, <2>6 DEF Named, NoPost
<1>9. ASSUME PostFails PROVE Typed'
  BY <1>9 DEF PostFails, FrontendTypeOK, Named, NoPost
<1>10. ASSUME StartOver PROVE Typed'
  <2>1. poll \in [Chain -> ChainState] /\ poll' = CleanUp(poll)
    BY <1>10 DEF StartOver, FrontendTypeOK
  <2>2. /\ poll' \in [Chain -> ChainState]
        /\ \A m \in Chain : Cancelled(poll'[m], poll[m])
    BY <2>1, CleanUpType
  <2>3. /\ view' = "ingest" /\ active' = NoRepo /\ record' = NoRecord /\ post' = NoPost
        /\ UNCHANGED <<server, effects>>
    BY <1>10 DEF StartOver
  <2> QED
    BY <2>2, <2>3 DEF FrontendTypeOK, Named, NoPost, Cancelled, Alive
<1>11. CASE UNCHANGED frontendVars
  BY <1>11 DEF frontendVars, FrontendTypeOK, Named
<1> QED
  BY <1>1, <1>2, <1>3, <1>4, <1>6, <1>7, <1>8, <1>9, <1>10, <1>11
  DEF FrontendNext, PollStep

LEMMA TypeCorrect == FrontendSpec => []Typed
<1> QED
  BY TypeInit, TypeInductive, PTL DEF FrontendSpec

\* The state is well typed, whatever the server and the user do (App.tsx,
\* StatusPanel.tsx).
THEOREM FrontendTypeCorrect == FrontendSpec => []FrontendTypeOK
<1>1. Typed => FrontendTypeOK
  BY DEF Typed
<1> QED
  BY <1>1, TypeCorrect, PTL

----------------------------------------------------------------------------
(* What the browser holds is never ahead of the server *)

\* A record as the browser knows it, and the server's.
Behind(known, r) ==
  /\ known.changes <= server[r].changes
  /\ known.status = "ready" => server[r].status = "ready"

Answers ==
  \A n \in Chain : poll[n].phase = "answered" =>
    /\ Behind(poll[n].answer, poll[n].repo)
    /\ Alive(poll[n]) => record.changes <= poll[n].answer.changes

Shown == view = "status" => record.changes <= server[active].changes

Posted == post.phase = "done" /\ post.status = "ready" => server[post.repo].status = "ready"

Honest == Answers /\ Shown /\ Posted /\ ChatsWhenReady

\* A record's status changes forwards, and a ready one stays.
Grows ==
  \A r \in Repos : /\ server[r].changes <= server'[r].changes
                   /\ server[r].status = "ready" => server'[r].status = "ready"

LEMMA Counts == ASSUME NEW r \in Record PROVE r.changes \in Nat
  BY FrontendAssumption DEF Record

LEMMA ChangeGrows ==
  ASSUME Typed, NEW r \in Repos, NEW status \in Status, Change(r, status),
         server[r].status # "ready"
  PROVE  Grows
<1>1. /\ server'[r].changes = server[r].changes + 1
      /\ \A q \in Repos \ {r} : server'[q] = server[q]
  BY ChangeType DEF Typed
<1>2. \A q \in Repos : server[q].changes \in Nat
  BY Counts DEF Typed, FrontendTypeOK
<1> QED
  BY <1>1, <1>2 DEF Grows

LEMMA HonestInit == FrontendInit => Honest
  BY DEF FrontendInit, Honest, Answers, Shown, Posted, ChatsWhenReady, NoChain, NoPost

\* A chain holds an answer that it held before, or one that it was just given.
ChainStep ==
  \A n \in Chain : poll'[n].phase = "answered" =>
    /\ poll'[n].repo = poll[n].repo /\ poll[n].repo \in Repos
    /\ Alive(poll'[n]) => Alive(poll[n])
    /\ \/ poll[n].phase = "answered" /\ poll'[n].answer = poll[n].answer
       \/ poll'[n].answer = server[poll[n].repo]

\* Answers that are no newer than the record stay so while the record stays.
LEMMA AnswersKept ==
  ASSUME Typed, Typed', Honest, ChainStep, Grows,
         \/ record' = record
         \/ \A n \in Chain : Alive(poll'[n]) => poll'[n].phase # "answered"
  PROVE  Answers'
<1> SUFFICES ASSUME NEW n \in Chain, poll'[n].phase = "answered"
             PROVE  /\ Behind(poll[n].answer, poll[n].repo)'
                    /\ Alive(poll'[n]) => record'.changes <= poll'[n].answer.changes
  BY DEF Answers
<1>1. /\ poll'[n].repo = poll[n].repo /\ poll[n].repo \in Repos
      /\ Alive(poll'[n]) => Alive(poll[n])
      /\ \/ poll[n].phase = "answered" /\ poll'[n].answer = poll[n].answer
         \/ poll'[n].answer = server[poll[n].repo]
  BY DEF ChainStep
<1> DEFINE r == poll[n].repo
<1>2. /\ server[r].changes \in Nat /\ server'[r].changes \in Nat
      /\ poll[n].answer.changes \in Nat /\ record.changes \in Nat
  BY <1>1, Counts DEF Typed, FrontendTypeOK, ChainState
<1>3. /\ server[r].changes <= server'[r].changes
      /\ server[r].status = "ready" => server'[r].status = "ready"
  BY <1>1 DEF Grows
<1>4. poll[n].phase = "answered" =>
        /\ poll[n].answer.changes <= server[r].changes
        /\ poll[n].answer.status = "ready" => server[r].status = "ready"
        /\ Alive(poll[n]) => record.changes <= poll[n].answer.changes
  BY DEF Honest, Answers, Behind
<1>5. Alive(poll[n]) => record.changes <= server[r].changes
  BY DEF Typed, Named, Honest, Shown
<1> HIDE DEF r
<1>6. /\ poll'[n].answer.changes <= server'[r].changes
      /\ poll'[n].answer.status = "ready" => server'[r].status = "ready"
      /\ Alive(poll[n]) => record.changes <= poll'[n].answer.changes
  BY <1>1, <1>2, <1>3, <1>4, <1>5 DEF r
<1>7. Behind(poll[n].answer, poll[n].repo)'
  BY <1>1, <1>6 DEF Behind, r
<1> QED
  BY <1>1, <1>6, <1>7

LEMMA PostedKept ==
  ASSUME Typed, Honest, Grows, UNCHANGED post
  PROVE  Posted'
  BY DEF Typed, Named, Honest, Posted, Grows

\* An action that leaves the view and what it shows.
LEMMA HonestKept ==
  ASSUME Typed, Typed', Honest, Grows, ChainStep, UNCHANGED <<view, active, record>>, Posted'
  PROVE  Honest'
<1>1. Answers'
  BY AnswersKept
<1>2. Shown'
  <2> SUFFICES ASSUME view = "status" PROVE record.changes <= server'[active].changes
    BY DEF Shown
  <2>1. active \in Repos
    BY DEF Typed, Named
  <2>2. /\ record.changes \in Nat
        /\ server[active].changes \in Nat /\ server'[active].changes \in Nat
    BY <2>1, Counts DEF Typed, FrontendTypeOK
  <2>3. record.changes <= server[active].changes
    BY DEF Honest, Shown
  <2>4. server[active].changes <= server'[active].changes
    BY <2>1 DEF Grows
  <2> QED
    BY <2>2, <2>3, <2>4
<1>3. ChatsWhenReady'
  BY DEF Honest, ChatsWhenReady, Grows
<1> QED
  BY <1>1, <1>2, <1>3 DEF Honest

\* The server rests, and so do the chains.
LEMMA Rests == ASSUME Typed, UNCHANGED server PROVE Grows
  BY Counts DEF Grows, Typed, FrontendTypeOK

LEMMA ChainsRest == ASSUME Typed, UNCHANGED poll PROVE ChainStep
  BY DEF ChainStep, Typed, Named

\* The effect runs, and no chain but the new one counts.
LEMMA ChainsRun ==
  ASSUME Typed, Typed', Honest, NEW r \in Repos, RunEffect(r), UNCHANGED server
  PROVE  Answers'
<1>1. /\ poll'[effects'].phase = "asking"
      /\ \A n \in Chain : n # effects' => Cancelled(poll'[n], poll[n])
  BY RunEffectType DEF Typed
<1>2. ChainStep
  BY <1>1 DEF ChainStep, Typed, Named, Cancelled, Alive
<1>3. \A n \in Chain : Alive(poll'[n]) => poll'[n].phase # "answered"
  BY <1>1 DEF Cancelled, Alive
<1> QED
  BY <1>2, <1>3, Rests, AnswersKept

LEMMA HonestInductive ==
  Typed /\ Typed' /\ Honest /\ [FrontendNext]_frontendVars => Honest'
<1> SUFFICES ASSUME Typed, Typed', Honest, [FrontendNext]_frontendVars PROVE Honest'
  OBVIOUS
<1>1. ASSUME NEW r \in Repos, ServerMoves(r) PROVE Honest'
  <2>1. UNCHANGED <<view, active, post, record, effects, poll>>
    BY <1>1 DEF ServerMoves
  <2>2. PICK status \in Status : Change(r, status) /\ server[r].status # "ready"
    BY <1>1 DEF ServerMoves, Status
  <2> QED
    BY <2>1, <2>2, ChangeGrows, PostedKept, ChainsRest, HonestKept
<1>2. ASSUME NEW r \in Repos, SendPost(r) PROVE Honest'
  <2>1. UNCHANGED <<server, view, active, record, effects, poll>> /\ Posted'
    BY <1>2 DEF SendPost, Posted
  <2> QED
    BY <2>1, Rests, ChainsRest, HonestKept
<1>3. ASSUME NEW n \in Chain, PollArrives(n) PROVE Honest'
  <2>1. /\ poll[n].phase = "answered" /\ record' = poll[n].answer
        /\ UNCHANGED <<server, active, effects>>
        /\ \A m \in Chain : Keeps(poll'[m], poll[m])
        /\ \A m \in Chain : poll'[m].phase = "answered" =>
             poll[m].phase = "answered" /\ poll'[m].answer = poll[m].answer
    BY <1>3, Arrives
  <2>2. Alive(poll[n]) /\ view = "status" /\ n = effects /\ poll[n].repo = active
        /\ active \in Repos
    BY <1>3, <2>1 DEF PollArrives, Alive, Typed, Named
  <2>3. Behind(poll[n].answer, active)
    BY <2>1, <2>2 DEF Honest, Answers
  <2>4. ChainStep
    BY <2>1 DEF ChainStep, Keeps, Alive, Typed, Named
  <2>5. CASE poll[n].answer.status = "ready"
    <3>1. /\ view' = "chat" /\ post' = NoPost
          /\ \A m \in Chain : poll'[m].phase = "ended" \/ poll'[m].cancelled
      BY <1>3, <2>5, Arrives
    <3>2. Answers'
      BY <2>1, <2>4, <3>1, Rests, AnswersKept DEF Alive
    <3>3. ChatsWhenReady'
      BY <2>1, <2>2, <2>3, <2>5 DEF Behind, ChatsWhenReady
    <3> QED
      BY <3>1, <3>2, <3>3 DEF Honest, Shown, Posted, NoPost
  <2>6. CASE poll[n].answer.status # "ready"
    <3>1. UNCHANGED <<view, post>> /\ poll'[n].phase # "answered"
      BY <1>3, <2>6, Arrives
    <3>2. \A m \in Chain : Alive(poll'[m]) => poll'[m].phase # "answered"
      BY <2>1, <2>2, <3>1 DEF Keeps, Alive, Typed, Named
    <3>3. Answers'
      BY <2>1, <2>4, <3>2, Rests, AnswersKept
    <3>4. Shown'
      BY <2>1, <2>3 DEF Behind, Shown
    <3>5. ChatsWhenReady'
      BY <2>2, <3>1 DEF ChatsWhenReady
    <3> QED
      BY <2>1, <3>1, <3>3, <3>4, <3>5, Rests, PostedKept DEF Honest
  <2> QED
    BY <2>5, <2>6
<1>4. ASSUME NEW n \in Chain,
             PollFails(n) \/ PollIgnored(n) \/ TimerFires(n) \/ ServerReads(n)
      PROVE  Honest'
  <2>1. PICK next \in {"asking", "answered", "waiting", "ended"}, answer \in Record :
          /\ poll' = Moved(poll, n, next, answer)
          /\ poll[n].phase # "ended" /\ poll[n].repo \in Repos
          /\ next = "answered" => answer = server[poll[n].repo]
          /\ UNCHANGED <<server, view, active, post, record, effects>>
    BY <1>4, ChainMoves
  <2>2. /\ \A m \in Chain : Keeps(poll'[m], poll[m])
        /\ \A m \in Chain : m # n => poll'[m] = poll[m]
        /\ poll'[n].phase = next /\ poll'[n].answer = answer
    BY <2>1, ContinueType DEF Typed
  <2>3. ChainStep
    BY <2>1, <2>2 DEF ChainStep, Keeps, Alive, Typed, Named
  <2> QED
    BY <2>1, <2>3, Rests, PostedKept, HonestKept
<1>5. ASSUME ServerCreates PROVE Honest'
  <2>1. UNCHANGED <<view, active, record, effects, poll>> /\ post.repo \in Repos
    BY <1>5 DEF ServerCreates, Typed, Named
  <2>2. CASE server[post.repo].status \in {"absent", "failed"}
    <3>1. /\ Change(post.repo, "running") /\ server[post.repo].status # "ready"
          /\ post' = [post EXCEPT !.phase = "done", !.status = "running"]
      BY <1>5, <2>2 DEF ServerCreates
    <3>2. Grows
      BY <2>1, <3>1, ChangeGrows DEF Status
    <3>3. Posted'
      BY <3>1 DEF Posted, Typed, FrontendTypeOK
    <3> QED
      BY <2>1, <3>2, <3>3, ChainsRest, HonestKept
  <2>3. CASE server[post.repo].status \notin {"absent", "failed"}
    <3>1. /\ UNCHANGED server
          /\ post' = [post EXCEPT !.phase = "done", !.status = server[post.repo].status]
      BY <1>5, <2>3 DEF ServerCreates
    <3>2. Posted'
      BY <3>1 DEF Posted, Typed, FrontendTypeOK
    <3> QED
      BY <2>1, <3>1, <3>2, Rests, ChainsRest, HonestKept
  <2> QED
    BY <2>2, <2>3
<1>6. ASSUME Started PROVE Honest'
  <2>1. /\ post.repo \in Repos /\ post' = NoPost /\ active' = post.repo
        /\ record' = NoRecord /\ UNCHANGED server /\ view = "ingest" /\ post.phase = "done"
    BY <1>6 DEF Started, Typed, Named
  <2>2. \A n \in Chain : ~Alive(poll[n])
    BY <2>1 DEF Typed, Named
  <2>3. Shown'
    <3>1. server[post.repo].changes \in Nat
      BY <2>1, Counts DEF Typed, FrontendTypeOK
    <3> QED
      BY <2>1, <3>1 DEF Shown, NoRecord
  <2>4. CASE post.status = "ready" /\ view' = "chat" /\ UNCHANGED <<effects, poll>>
    <3>1. Answers'
      BY <2>1, <2>2, <2>4, Rests, ChainsRest, AnswersKept
    <3>2. ChatsWhenReady'
      BY <2>1, <2>4 DEF Honest, Posted, ChatsWhenReady
    <3> QED
      BY <2>1, <2>3, <3>1, <3>2 DEF Honest, Posted, NoPost
  <2>5. CASE view' = "status" /\ RunEffect(post.repo)
    <3>1. Answers'
      BY <2>1, <2>5, ChainsRun
    <3> QED
      BY <2>1, <2>3, <2>5, <3>1 DEF Honest, Posted, NoPost, ChatsWhenReady
  <2> QED
    BY <1>6, <2>4, <2>5 DEF Started
<1>7. ASSUME Retried PROVE Honest'
  <2>1. /\ active \in Repos /\ RunEffect(active) /\ post' = NoPost
        /\ UNCHANGED <<server, view, active, record>>
    BY <1>7 DEF Retried, Typed, Named
  <2>2. Answers'
    BY <2>1, ChainsRun
  <2>3. Shown' /\ ChatsWhenReady'
    BY <2>1 DEF Honest, Shown, ChatsWhenReady
  <2> QED
    BY <2>1, <2>2, <2>3 DEF Honest, Posted, NoPost
<1>8. ASSUME PostFails PROVE Honest'
  <2>1. UNCHANGED <<server, view, active, record, effects, poll>> /\ Posted'
    BY <1>8 DEF PostFails, Posted, NoPost
  <2> QED
    BY <2>1, Rests, ChainsRest, HonestKept
<1>9. ASSUME StartOver PROVE Honest'
  <2>1. /\ view' = "ingest" /\ post' = NoPost /\ UNCHANGED server
        /\ poll' = CleanUp(poll) /\ poll \in [Chain -> ChainState]
    BY <1>9 DEF StartOver, Typed, FrontendTypeOK
  <2>2. \A n \in Chain : Cancelled(poll'[n], poll[n])
    BY <2>1, CleanUpType
  <2>3. ChainStep
    BY <2>2 DEF ChainStep, Typed, Named, Cancelled, Alive
  <2>4. Answers'
    BY <2>1, <2>2, <2>3, Rests, AnswersKept DEF Alive, Cancelled
  <2> QED
    BY <2>1, <2>4 DEF Honest, Shown, Posted, ChatsWhenReady, NoPost
<1>10. CASE UNCHANGED frontendVars
  <2>1. UNCHANGED <<server, view, active, post, record, effects, poll>>
    BY <1>10 DEF frontendVars
  <2> QED
    BY <2>1, Rests, ChainsRest, PostedKept, HonestKept
<1> QED
  BY <1>1, <1>2, <1>3, <1>4, <1>5, <1>6, <1>7, <1>8, <1>9, <1>10
  DEF FrontendNext, PollStep

LEMMA HonestAlways == FrontendSpec => []Honest
  BY TypeCorrect, HonestInit, HonestInductive, PTL DEF FrontendSpec

\* The chat opens only for the active repo, and only once that one is ready:
\* cancelled chains never count, and what the browser knows is never ahead of
\* the server (StatusPanel.tsx:27-53, App.tsx:18-26).
THEOREM ChatsWhenReadyHolds == FrontendSpec => []ChatsWhenReady
<1>1. Honest => ChatsWhenReady
  BY DEF Honest
<1> QED
  BY <1>1, HonestAlways, PTL

\* A panel never goes back to an older record (StatusPanel.tsx:30).
THEOREM ShowsLatestHolds == FrontendSpec => ShowsLatest
<1>1. Typed /\ Honest /\ [FrontendNext]_frontendVars =>
        [view = "status" /\ view' = "status" => record'.changes >= record.changes]_frontendVars
  <2> SUFFICES ASSUME Typed, Honest, FrontendNext, view = "status", view' = "status"
               PROVE  record'.changes >= record.changes
    OBVIOUS
  <2>1. record.changes \in Nat
    BY Counts DEF Typed, FrontendTypeOK
  <2>2. CASE \E n \in Chain : PollArrives(n)
    <3>1. PICK n \in Chain : PollArrives(n)
      BY <2>2
    <3>2. poll[n].phase = "answered" /\ Alive(poll[n]) /\ record' = poll[n].answer
      BY <3>1 DEF PollArrives, Alive
    <3>3. record.changes <= record'.changes
      BY <3>2 DEF Honest, Answers
    <3>4. record'.changes \in Nat
      BY <3>1, Arrives, Counts
    <3> QED
      BY <2>1, <3>3, <3>4
  <2>3. CASE ~ \E n \in Chain : PollArrives(n)
    <3>1. UNCHANGED record
      BY <2>3 DEF FrontendNext, PollStep, ServerMoves, SendPost, PollFails, PollIgnored,
                  TimerFires, ServerReads, ServerCreates, Started, Retried, PostFails, StartOver
    <3> QED
      BY <2>1, <3>1
  <2> QED
    BY <2>2, <2>3
<1> QED
  BY <1>1, TypeCorrect, HonestAlways, PTL DEF FrontendSpec, ShowsLatest

----------------------------------------------------------------------------
(* The parts together *)

LEMMA InitOfParts == Init => ChunkInit /\ BudgetInit /\ CollectionInit /\ FrontendInit
  BY DEF Init

LEMMA StepOfParts ==
  [Next]_vars =>
    /\ [ChunkNext]_chunkVars /\ [BudgetNext]_budgetVars
    /\ [CollectionNext]_collectionVars /\ [FrontendNext]_frontendVars
  BY DEF Next, vars, Chunks, Budget, Collection, Browser

\* A behaviour of the composition is a behaviour of each of its parts.
THEOREM PartsImplemented ==
  Spec => ChunkSpec /\ BudgetSpec /\ CollectionSpec /\ FrontendSpec
BY InitOfParts, StepOfParts, PTL
DEF Spec, ChunkSpec, BudgetSpec, CollectionSpec, FrontendSpec

\* Every part of an ingestion's long stages, and the browser that waits for
\* them, keeps its types: a job waits for what is left of its own time
\* (chunker.py:144-177), a call never counts more attempts than execute() has
\* (rate_limiter.py), no Redis key is older than a request can be, and the browser's
\* chains stay within those that were started (StatusPanel.tsx:27-53).
THEOREM IndexingTyped == Spec => []TypeOK
<1>1. CollectionInv => CollectionTypeOK
  BY DEF CollectionInv
<1>2. Typed => FrontendTypeOK
  BY DEF Typed
<1>3. ChunkTypeOK /\ BudgetTypeOK /\ CollectionTypeOK /\ FrontendTypeOK => TypeOK
  BY DEF TypeOK
<1> QED
  BY PartsImplemented, ChunkTyped, BudgetTypeInvariant, CollectionInvariant, TypeCorrect,
     <1>1, <1>2, <1>3, PTL
=============================================================================
