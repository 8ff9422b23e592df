-------------------------------- MODULE Chat --------------------------------
(***************************************************************************)
(* Chat turns about one repo while it is ingested again: RagWorkflowFacade *)
(* .chat() for concurrent requests, the sessions of the repo's runner, the *)
(* shared answer cache, and the slots for agent runs.                      *)
(*                                                                         *)
(* The repo itself is RepoLifecycle, which Ingestion implements; a reset   *)
(* of its record is followed by the invalidation of the cache, before the  *)
(* new attempt's task is published.                                        *)
(*                                                                         *)
(* A step ends where the request awaits a thread or the network.  An       *)
(* answer is kept as what it depends on: whose code it is drawn from, by   *)
(* its own retrievals or by what the session's events hold of earlier      *)
(* turns, and which questions the agent saw.  The events (retrieved chunks *)
(* and answers) live as long as the session: a re-ingestion drops the      *)
(* cache and not the sessions.                                             *)
(***************************************************************************)
EXTENDS Naturals, FiniteSets, Sequences, FiniteSetsExt

CONSTANTS
  Chats,           \* chat requests that may be in progress at once
  Sessions,        \* ADK session ids (bound)
  Questions,       \* normalized messages
  NoSession,       \* the request names no session
  NoQuestion,      \* there is no previous question
  MaxConcurrent,   \* MAX_CONCURRENT_LLM_CALLS
  MaxAttempts,     \* bound: attempts of the repo
  MaxTurns,        \* bound: chat requests made
  Forced,          \* as in RepoLifecycle
  SharedSessions   \* TRUE: two requests may use one session at the same time

ASSUME ChatAssumption ==
  /\ IsFiniteSet(Chats)
  /\ NoSession \notin Sessions /\ NoQuestion \notin Questions
  /\ MaxConcurrent \in Nat \ {0}
  /\ MaxAttempts \in Nat /\ MaxTurns \in Nat
  /\ Forced \in BOOLEAN /\ SharedSessions \in BOOLEAN

VARIABLES
  status, attempt, index,  \* the repo, see RepoLifecycle
  reset,     \* the attempt whose reset was the last one, 0 before the first
  clearing,  \* the scope that invalidate() drops next, "done", or "lost"
  kept,      \* scopes whose last drop failed or was never made
  cache,     \* cached answers
  session,   \* session[s]: [live, known, history, code]
  chat,      \* chat[c]: progress of a chat request
  slots,     \* free slots of the LLM concurrency limiter
  turns      \* requests made (bounded by MaxTurns)

repoVars == <<status, attempt, index>>
invalidationVars == <<reset, clearing, kept>>
vars == <<repoVars, invalidationVars, cache, session, chat, slots, turns>>

Repo == INSTANCE RepoLifecycle

\* A first turn is cached apart from follow-ups, which are keyed by the
\* session's previous question too.
Scopes == {"first", "follow-up"}
Entry ==
  [previous : Questions \cup {NoQuestion}, question : Questions,
   context : SUBSET Questions,       \* questions the agent saw in the session
   sources : SUBSET (1..MaxAttempts),  \* attempts whose code it is drawn from
   admitted : 0..MaxAttempts,        \* attempt that was ready when it was asked
   stored : 0..MaxAttempts]          \* attempt at the time it was cached

cache_scope(previous) == IF previous = NoQuestion THEN "first" ELSE "follow-up"

NoTurn ==
  [pc |-> "idle", session |-> NoSession, question |-> NoQuestion,
   previous |-> NoQuestion, context |-> {}, sources |-> {}, admitted |-> 0]
Unused == [live |-> FALSE, known |-> FALSE, history |-> <<>>, code |-> {}]

Init ==
  /\ Repo!Init
  /\ reset = 0 /\ clearing = "done" /\ kept = {}
  /\ cache = {}
  /\ session = [s \in Sessions |-> Unused]
  /\ chat = [c \in Chats |-> NoTurn]
  /\ slots = MaxConcurrent
  /\ turns = 0

----------------------------------------------------------------------------
(* The repo and the invalidation of its cached answers *)

chatVars == <<cache, session, chat, slots, turns>>

\* start_ingestion creates the record ...
Create ==
  /\ status = "absent"
  /\ attempt < MaxAttempts /\ attempt' = attempt + 1
  /\ Repo!Submit
  /\ UNCHANGED <<invalidationVars, chatVars>>

\* ... or resets it, and goes on to drop what was cached.
Reset ==
  /\ status # "absent"
  /\ clearing \in {"done", "lost"}
  /\ attempt < MaxAttempts /\ attempt' = attempt + 1
  /\ Repo!Submit
  /\ reset' = attempt'
  /\ clearing' = "first"
  /\ UNCHANGED <<kept, chatVars>>

InScope(scope) == {e \in cache : cache_scope(e.previous) = scope}
NextScope == IF clearing = "first" THEN "follow-up" ELSE "done"

\* Faulty: only the first turns are dropped.
Clear_first_only ==
  /\ clearing \in Scopes
  /\ cache' = IF clearing = "first" THEN cache \ InScope("first") ELSE cache
  /\ kept' = kept \ {clearing}
  /\ clearing' = NextScope
  /\ UNCHANGED <<repoVars, reset, session, chat, slots, turns>>

Clear ==
  /\ clearing \in Scopes
  /\ cache' = cache \ InScope(clearing)
  /\ kept' = kept \ {clearing}
  /\ clearing' = NextScope
  /\ UNCHANGED <<repoVars, reset, session, chat, slots, turns>>

\* The cache service is off or fails: clear() logs and does nothing.
ClearFails ==
  /\ clearing \in Scopes
  /\ kept' = kept \cup {clearing}
  /\ clearing' = NextScope
  /\ UNCHANGED <<repoVars, reset, chatVars>>

\* The API process dies in between: the attempt is never published.
ClearLost ==
  /\ clearing \in Scopes
  /\ kept' = kept \cup {clearing, "follow-up"}
  /\ clearing' = "lost"
  /\ UNCHANGED <<repoVars, reset, chatVars>>

\* A run starts only when the task was published.
Work ==
  /\ clearing = "done"
  /\ Repo!Report \/ Repo!Reindex \/ Repo!Finish
  /\ UNCHANGED <<invalidationVars, chatVars>>

Fail ==
  /\ clearing \in {"done", "lost"}
  /\ attempt' \in {attempt, attempt + 1} /\ attempt' <= MaxAttempts
  /\ Repo!Fail
  /\ UNCHANGED <<invalidationVars, chatVars>>

----------------------------------------------------------------------------
(* Chat requests *)

environment == <<repoVars, invalidationVars>>

At(c, pc) == chat[c].pc = pc
Goto(c, pc) == chat' = [chat EXCEPT ![c].pc = pc]
Return(c) == chat' = [chat EXCEPT ![c] = NoTurn]

\* The session a client may name: none, or one that an answer carried.
Nameable ==
  {NoSession} \cup
    {s \in Sessions :
       /\ session[s].known
       /\ SharedSessions \/ \A d \in Chats : chat[d].session # s}

\* Faulty: questions are taken whatever the repo's status.
Ask_any_status(c) ==
  /\ At(c, "idle")
  /\ turns < MaxTurns /\ turns' = turns + 1
  /\ \E q \in Questions, s \in Nameable :
       chat' = [chat EXCEPT ![c] = [NoTurn EXCEPT
         !.pc = "open", !.session = s, !.question = q, !.admitted = attempt]]
  /\ UNCHANGED <<environment, cache, session, slots>>

\* get_status says "ready"; any other status refuses the question.
Ask(c) ==
  /\ At(c, "idle")
  /\ turns < MaxTurns /\ turns' = turns + 1
  /\ status = "ready"
  /\ \E q \in Questions, s \in Nameable :
       chat' = [chat EXCEPT ![c] = [NoTurn EXCEPT
         !.pc = "open", !.session = s, !.question = q, !.admitted = attempt]]
  /\ UNCHANGED <<environment, cache, session, slots>>

\* Faulty: only the last question of the session is looked at.
previous_question_last(history, q) ==
  IF history = <<>> \/ history[Len(history)] = q
  THEN NoQuestion ELSE history[Len(history)]

\* The last question of the session that is not this one: a repeat looks up
\* the key its first ask was stored under.
previous_question(history, q) ==
  LET others == {i \in DOMAIN history : history[i] # q}
  IN  IF others = {} THEN NoQuestion ELSE history[Max(others)]

\* expire_idle_sessions deletes sessions in which no agent run is going on; a
\* request that has only looked its session up does not keep it alive.
Idle(s) == session[s].live /\ \A c \in Chats : At(c, "agent") => chat[c].session # s
Deleted(x) == [x EXCEPT !.live = FALSE, !.history = <<>>, !.code = {}]

Fresh(s) == session[s] = Unused /\ \A c \in Chats : chat[c].session # s

\* The sweep, then get_session, or create_session if there is none.
OpenSession(c) ==
  /\ At(c, "open")
  /\ \E gone \in SUBSET {s \in Sessions : Idle(s)} :
       LET swept == [s \in Sessions |-> IF s \in gone THEN Deleted(session[s])
                                                      ELSE session[s]]
           mine == chat[c].session
       IN  IF mine # NoSession /\ swept[mine].live
             THEN /\ session' = swept
                  /\ chat' = [chat EXCEPT ![c].pc = "lookup",
                       ![c].previous =
                         previous_question(swept[mine].history, chat[c].question)]
             ELSE \E s \in Sessions :
                  /\ Fresh(s)
                  /\ session' = [swept EXCEPT ![s].live = TRUE]
                  /\ chat' = [chat EXCEPT ![c].pc = "lookup", ![c].session = s]
  /\ UNCHANGED <<environment, cache, slots, turns>>

Key(x) == <<x.previous, x.question>>

\* A follow-up matches only its own key, a first turn also a similar one.
Matching(c) ==
  {e \in cache : \/ Key(e) = Key(chat[c])
                 \/ chat[c].previous = NoQuestion /\ e.previous = NoQuestion}

\* A turn's events in its session: the question, and the answer if it has
\* one; nothing if the session was deleted.
Append_turn(c, s) ==
  IF session[s].live
    THEN [session EXCEPT ![s].history = Append(@, chat[c].question),
                         ![s].code = @ \cup chat[c].sources]
    ELSE session

LookupHit(c) ==
  /\ At(c, "lookup")
  /\ \E e \in Matching(c) :
       chat' = [chat EXCEPT ![c].pc = "hit", ![c].sources = e.sources]
  /\ UNCHANGED <<environment, cache, session, slots, turns>>

\* A hit is appended to the session, question and cached answer, and answered
\* without an agent run.
AnswerFromCache(c) ==
  /\ At(c, "hit")
  /\ session' = [Append_turn(c, chat[c].session) EXCEPT ![chat[c].session].known = TRUE]
  /\ Return(c)
  /\ UNCHANGED <<environment, cache, slots, turns>>

\* Nothing matches, the question must bypass the cache, or the cache fails.
LookupMiss(c) ==
  /\ At(c, "lookup")
  /\ Goto(c, "slot")
  /\ UNCHANGED <<environment, cache, session, slots, turns>>

\* No slot within LLM_QUEUE_TIMEOUT_SECONDS: LLMBusyError.
Busy(c) ==
  /\ At(c, "slot")
  /\ slots = 0
  /\ Return(c)
  /\ UNCHANGED <<environment, cache, session, slots, turns>>

\* The runner appends the question to the session and reads its events: the
\* agent sees the questions, retrieved chunks and answers of earlier turns.
StartAgent(c) ==
  LET s == chat[c].session IN
  /\ At(c, "slot")
  /\ slots > 0
  /\ session[s].live
  /\ slots' = slots - 1
  /\ session' = Append_turn(c, s)
  /\ chat' = [chat EXCEPT ![c].pc = "agent",
       ![c].context = {session[s].history[i] : i \in DOMAIN session[s].history}
                        \cup {chat[c].question},
       ![c].sources = session[s].code]
  /\ UNCHANGED <<environment, cache, turns>>

\* Faulty: a slot that was never taken is given back.
SessionNotFound_gives_slot(c) ==
  /\ At(c, "slot")
  /\ slots > 0
  /\ ~session[chat[c].session].live
  /\ Return(c)
  /\ slots' = slots + 1
  /\ UNCHANGED <<environment, cache, session, turns>>

\* The session was swept meanwhile: the runner raises, and the slot that was
\* taken is free again.
SessionNotFound(c) ==
  /\ At(c, "slot")
  /\ slots > 0
  /\ ~session[chat[c].session].live
  /\ Return(c)
  /\ UNCHANGED <<environment, cache, session, slots, turns>>

\* The agent calls its retrieval tool: some of the points in the index now.
\* The tool's result is an event of the session, whatever becomes of the run.
Retrieve(c) ==
  /\ At(c, "agent")
  /\ \E found \in SUBSET index :
       /\ chat' = [chat EXCEPT ![c].sources = @ \cup found]
       /\ session' = [session EXCEPT ![chat[c].session].code = @ \cup found]
  /\ UNCHANGED <<environment, cache, slots, turns>>

\* The answer's event adds no code the session's events do not hold already.
AgentAnswers(c) ==
  /\ At(c, "agent")
  /\ Goto(c, "store")
  /\ slots' = slots + 1
  /\ UNCHANGED <<environment, cache, session, turns>>

\* Faulty: an error keeps the slot.
AgentFails_keeps_slot(c) ==
  /\ At(c, "agent")
  /\ Return(c)
  /\ UNCHANGED <<environment, cache, session, slots, turns>>

\* The run raises or ends without an answer (AgentResponseError).
AgentFails(c) ==
  /\ At(c, "agent")
  /\ Return(c)
  /\ slots' = slots + 1
  /\ UNCHANGED <<environment, cache, session, turns>>

Known(c) == session' = [session EXCEPT ![chat[c].session].known = TRUE]

Store(c) ==
  /\ At(c, "store")
  /\ cache' = cache \cup
       {[previous |-> chat[c].previous, question |-> chat[c].question,
         context |-> chat[c].context, sources |-> chat[c].sources,
         admitted |-> chat[c].admitted, stored |-> attempt]}
  /\ Known(c)
  /\ Return(c)
  /\ UNCHANGED <<environment, slots, turns>>

\* The question must bypass the cache, or the cache fails.
StoreNothing(c) ==
  /\ At(c, "store")
  /\ Known(c)
  /\ Return(c)
  /\ UNCHANGED <<environment, cache, slots, turns>>

ChatStep(c) ==
  \/ Ask(c) \/ OpenSession(c) \/ LookupHit(c) \/ AnswerFromCache(c)
  \/ LookupMiss(c) \/ Busy(c)
  \/ StartAgent(c) \/ SessionNotFound(c) \/ Retrieve(c)
  \/ AgentAnswers(c) \/ AgentFails(c) \/ Store(c) \/ StoreNothing(c)

Next ==
  \/ Create \/ Reset \/ Clear \/ ClearFails \/ ClearLost \/ Work \/ Fail
  \/ \E c \in Chats : ChatStep(c)

Spec == Init /\ [][Next]_vars

----------------------------------------------------------------------------
(* Properties *)

ChatPcs == {"idle", "open", "lookup", "hit", "slot", "agent", "store"}

Turn ==
  [pc : ChatPcs, session : Sessions \cup {NoSession},
   question : Questions \cup {NoQuestion}, previous : Questions \cup {NoQuestion},
   context : SUBSET Questions, sources : SUBSET (1..MaxAttempts),
   admitted : 0..MaxAttempts]
SessionState ==
  [live : BOOLEAN, known : BOOLEAN, history : Seq(Questions),
   code : SUBSET (1..MaxAttempts)]

TypeOK ==
  /\ status \in {"absent", "pending", "ready", "failed"} \cup Repo!Running
  /\ attempt \in 0..MaxAttempts
  /\ index \subseteq 1..MaxAttempts
  /\ reset \in 0..MaxAttempts
  /\ clearing \in Scopes \cup {"done", "lost"}
  /\ kept \subseteq Scopes
  /\ cache \subseteq Entry
  /\ session \in [Sessions -> SessionState]
  /\ chat \in [Chats -> Turn]
  /\ slots \in 0..MaxConcurrent
  /\ turns \in 0..MaxTurns

\* Once a retry's task may run, what is cached was stored after the reset,
\* except where the cache service failed (dependencies.py:211-212, "with its
\* cached answers dropped").
OnlyStoredSinceReset ==
  clearing = "done" =>
    \A e \in cache : e.stored >= reset \/ cache_scope(e.previous) \in kept

\* Whatever is re-ingested while a turn is in progress, what its agent may
\* retrieve is never older than the attempt that was ready when the question
\* was admitted (dependencies.py:376-379, RepoNotReadyError).
RetrievesSinceAdmission ==
  \A c \in Chats : ~At(c, "idle") => \A a \in index : a >= chat[c].admitted

\* No cached answer is drawn from code older than the attempt its question was
\* admitted under: invalidate() is there "so no answer grounded in the old code
\* survives" a re-ingestion (semantic_cache_service.py:185-186).  What the
\* session's events hold does survive it.
NotOlderThanAdmission ==
  \A e \in cache : \A a \in e.sources : a >= e.admitted

\* What first turns share is not drawn from another question of a conversation
\* (semantic_cache_service.py:164-165, "first-turn lookups never see
\* follow-up answers"), while no two requests use one session at a time; with
\* SharedSessions TLC refutes it.
FirstTurnsAreContextFree ==
  \A e \in cache : e.previous = NoQuestion => e.context = {e.question}

\* Every slot is free or held by a run, however runs end (concurrency.py:33-49).
Holders == {c \in Chats : At(c, "agent")}
SlotsAccountedFor == slots + Cardinality(Holders) = MaxConcurrent

\* While the repo is ready, what is cached is drawn from its code: "no answer
\* grounded in the old code survives" the re-ingestion
\* (semantic_cache_service.py:185-186).
CachedFromReadyCode ==
  status = "ready" =>
    \A e \in cache : e.sources \subseteq {attempt} \/ cache_scope(e.previous) \in kept

=============================================================================
