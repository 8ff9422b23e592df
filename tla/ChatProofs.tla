----------------------------- MODULE ChatProofs -----------------------------
(***************************************************************************)
(* Theorems about Chat, for any number of requests, sessions, questions,   *)
(* slots and attempts.                                                     *)
(***************************************************************************)
EXTENDS Chat, FiniteSetTheorems, WellFoundedInduction, TLAPS

\* A bounded, nonempty set of natural numbers has a greatest element (the
\* differences to the bound have a least one).
LEMMA Greatest ==
  ASSUME NEW n \in Nat, NEW S \in SUBSET (0..n), S # {}
  PROVE  Max(S) \in S
<1> DEFINE T == {n - x : x \in S}
<1>1. T \subseteq Nat /\ T # {}
  <2>1. \A x \in S : n - x \in Nat
    OBVIOUS
  <2>2. PICK x \in S : TRUE
    OBVIOUS
  <2>3. n - x \in T
    OBVIOUS
  <2> QED BY <2>1, <2>3
<1> DEFINE R == OpToRel(<, Nat)
<1>2. IsWellFoundedOn(R, Nat)
  BY NatLessThanWellFounded
<1> HIDE DEF T, R
<1>3. PICK m \in T : \A y \in T : ~(<<y, m>> \in R)
  BY <1>1, <1>2, WFMin
<1>4. PICK x \in S : m = n - x
  BY <1>3 DEF T
<1>5. ASSUME NEW y \in S PROVE x >= y
  <2>1. n - y \in T /\ n - y \in Nat /\ m \in Nat
    BY <1>1, <1>3 DEF T
  <2>2. ~(n - y < m)
    BY <2>1, <1>3 DEF R, OpToRel
  <2> QED BY <2>2, <1>4
<1> QED BY <1>4, <1>5 DEF Max

\* The previous question is one of the session's, or there is none and every
\* earlier question is this one.
LEMMA PreviousQuestion ==
  ASSUME ChatAssumption, NEW h \in Seq(Questions), NEW q \in Questions
  PROVE  /\ previous_question(h, q) \in Questions \cup {NoQuestion}
         /\ previous_question(h, q) = NoQuestion => \A i \in DOMAIN h : h[i] = q
<1> DEFINE others == {i \in DOMAIN h : h[i] # q}
<1>1. CASE others = {}
  BY <1>1 DEF previous_question
<1>2. CASE others # {}
  <2>1. Len(h) \in Nat /\ others \in SUBSET (0..Len(h))
    OBVIOUS
  <2> HIDE DEF others
  <2>2. Max(others) \in others
    BY <1>2, <2>1, Greatest
  <2>3. h[Max(others)] \in Questions
    BY <2>2 DEF others
  <2>4. previous_question(h, q) = h[Max(others)]
    BY <1>2 DEF previous_question, others
  <2> QED BY <2>3, <2>4 DEF ChatAssumption
<1> QED BY <1>1, <1>2

----------------------------------------------------------------------------
(* Type correctness *)

\* A request's question and, once it is opened, its session are set.
Shape(x) ==
  /\ x.pc # "idle" => x.question \in Questions
  /\ x.pc \notin {"idle", "open"} => x.session \in Sessions
TypeInv ==
  /\ TypeOK
  /\ status # "absent" => attempt > 0
  /\ \A c \in Chats : Shape(chat[c])
  /\ SlotsAccountedFor

\* The requests that hold a slot, before and after a step of one request.
LEMMA HoldersCount ==
  ASSUME ChatAssumption
  PROVE  /\ Cardinality(Holders) \in Nat
         /\ chat' = chat => Cardinality(Holders)' = Cardinality(Holders)
<1>1. IsFiniteSet(Holders)
  BY FS_Subset DEF ChatAssumption, Holders
<1> QED BY <1>1, FS_CardinalityType DEF Holders, At

LEMMA HoldersStep ==
  ASSUME ChatAssumption, NEW c \in Chats, chat \in [Chats -> Turn],
         NEW x \in Turn, chat' = [chat EXCEPT ![c] = x]
  PROVE  Cardinality(Holders)' =
           CASE chat[c].pc # "agent" /\ x.pc = "agent" -> Cardinality(Holders) + 1
             [] chat[c].pc = "agent" /\ x.pc # "agent" -> Cardinality(Holders) - 1
             [] OTHER -> Cardinality(Holders)
<1>1. IsFiniteSet(Holders)
  BY FS_Subset DEF ChatAssumption, Holders
<1>2. chat'[c] = x /\ \A d \in Chats : d # c => chat'[d] = chat[d]
  OBVIOUS
<1>3. CASE chat[c].pc # "agent" /\ x.pc = "agent"
  <2>1. Holders' = Holders \cup {c} /\ c \notin Holders
    BY <1>2, <1>3 DEF Holders, At
  <2> QED BY <2>1, <1>1, <1>3, FS_AddElement
<1>4. CASE chat[c].pc = "agent" /\ x.pc # "agent"
  <2>1. Holders' = Holders \ {c} /\ c \in Holders
    BY <1>2, <1>4 DEF Holders, At
  <2> QED BY <2>1, <1>1, <1>4, FS_RemoveElement
<1>5. CASE (chat[c].pc = "agent") = (x.pc = "agent")
  <2>1. Holders' = Holders
    BY <1>2, <1>5 DEF Holders, At
  <2> QED BY <2>1, <1>5
<1> QED BY <1>3, <1>4, <1>5

\* Steps of the repo and of the invalidation.
LEMMA TypeRepoStep ==
  ASSUME ChatAssumption, TypeInv,
         Create \/ Reset \/ Clear \/ ClearFails \/ ClearLost \/ Work \/ Fail
  PROVE  TypeInv'
<1> USE DEF TypeInv, TypeOK
<1>1. MaxAttempts \in Nat /\ attempt \in Nat
  BY DEF ChatAssumption
<1>2. /\ session' = session /\ chat' = chat /\ slots' = slots /\ turns' = turns
  BY DEF Create, Reset, Clear, ClearFails, ClearLost, Work, Fail, chatVars
<1>3. /\ status' \in {"absent", "pending", "ready", "failed"} \cup Repo!Running
      /\ attempt' \in 0..MaxAttempts
      /\ index' \subseteq 1..MaxAttempts
      /\ status' # "absent" => attempt' > 0
  <2> DEFINE RepoType == /\ status \in {"absent", "pending", "ready", "failed"} \cup Repo!Running
                         /\ attempt \in 0..MaxAttempts
                         /\ index \subseteq 1..MaxAttempts
                         /\ status # "absent" => attempt > 0
  <2>0. RepoType
    OBVIOUS
  <2>. SUFFICES RepoType'
    OBVIOUS
  <2> USE DEF Repo!Running
  <2>1. CASE Create \/ Reset
    <3>1. /\ status' = "pending" /\ index' = index
          /\ attempt' = attempt + 1 /\ attempt < MaxAttempts
      BY <2>1 DEF Create, Reset, Repo!Submit
    <3> QED BY ONLY <3>1, <2>0, <1>1
  <2>2. CASE Clear \/ ClearFails \/ ClearLost
    BY <2>2 DEF Clear, ClearFails, ClearLost, repoVars
  <2>3. CASE Work
    <3>1. CASE Repo!Report
      BY ONLY <3>1, <2>0, <1>1 DEF Repo!Report, Repo!Running
    <3>2. CASE Repo!Reindex
      BY ONLY <3>2, <2>0, <1>1 DEF Repo!Reindex, Repo!Running
    <3>3. CASE Repo!Finish
      BY ONLY <3>3, <2>0, <1>1 DEF Repo!Finish, Repo!Running
    <3> QED BY <2>3, <3>1, <3>2, <3>3 DEF Work
  <2>4. CASE Fail
    <3>1. /\ status' = "failed" /\ index' = index /\ status # "absent"
          /\ attempt' \in {attempt, attempt + 1} /\ attempt' <= MaxAttempts
      BY <2>4 DEF Fail, Repo!Fail
    <3> QED BY ONLY <3>1, <2>0, <1>1
  <2> QED BY <2>1, <2>2, <2>3, <2>4
<1>4. /\ reset' \in 0..MaxAttempts
      /\ clearing' \in Scopes \cup {"done", "lost"}
      /\ kept' \subseteq Scopes
      /\ cache' \subseteq Entry
  BY <1>3 DEF Create, Reset, Clear, ClearFails, ClearLost, Work, Fail, chatVars,
              invalidationVars, NextScope, Scopes
<1>5. SlotsAccountedFor'
  BY <1>2, HoldersCount DEF SlotsAccountedFor
<1>6. \A c \in Chats : Shape(chat[c])'
  BY <1>2
<1> QED BY <1>2, <1>3, <1>4, <1>5, <1>6

\* The turn that request c's step leaves behind, and what the step does to
\* the slots.
Becomes(c, x) ==
  /\ chat' = [chat EXCEPT ![c] = x]
  /\ x \in Turn
  /\ Shape(x)
  /\ slots' + (IF x.pc = "agent" THEN 1 ELSE 0)
       = slots + (IF chat[c].pc = "agent" THEN 1 ELSE 0)
  /\ slots' \in Nat

LEMMA NoTurnType == ChatAssumption => NoTurn \in Turn /\ Shape(NoTurn)
BY DEF ChatAssumption, NoTurn, Turn, Shape, ChatPcs

LEMMA GotoType ==
  ASSUME TypeInv, NEW c \in Chats, NEW p \in ChatPcs, Goto(c, p),
         chat[c].pc # "idle", chat[c].pc = "open" => p = "open"
  PROVE  \E x \in Turn : /\ chat' = [chat EXCEPT ![c] = x]
                         /\ Shape(x) /\ x.pc = p
<1> DEFINE x == [chat[c] EXCEPT !.pc = p]
<1>1. chat[c] \in Turn /\ Shape(chat[c]) /\ chat \in [Chats -> Turn]
  BY DEF TypeInv, TypeOK
<1>2. x \in Turn /\ x.pc = p /\ Shape(x)
  BY <1>1 DEF Turn, Shape
<1>3. chat' = [chat EXCEPT ![c] = x]
  BY <1>1 DEF Goto
<1> QED BY <1>2, <1>3

LEMMA AppendTurnType ==
  ASSUME TypeInv, NEW c \in Chats, NEW s \in Sessions, chat[c].question \in Questions
  PROVE  Append_turn(c, s) \in [Sessions -> SessionState]
<1>1. session \in [Sessions -> SessionState] /\ chat[c].sources \subseteq 1..MaxAttempts
  BY DEF TypeInv, TypeOK, Turn
<1>2. session[s].history \in Seq(Questions) /\ session[s].code \subseteq 1..MaxAttempts
  BY <1>1 DEF SessionState
<1>3. Append(session[s].history, chat[c].question) \in Seq(Questions)
  BY <1>2
<1>4. session[s].code \cup chat[c].sources \subseteq 1..MaxAttempts
  BY <1>1, <1>2
<1> DEFINE x == [session[s] EXCEPT !.history = Append(session[s].history, chat[c].question),
                                   !.code = session[s].code \cup chat[c].sources]
<1>5. x \in SessionState
  BY <1>1, <1>3, <1>4 DEF SessionState
<1>6. Append_turn(c, s) \in {session, [session EXCEPT ![s] = x]}
  BY <1>1 DEF Append_turn
<1> QED BY <1>1, <1>5, <1>6

LEMMA KnownType ==
  ASSUME NEW f \in [Sessions -> SessionState], NEW s \in Sessions
  PROVE  [f EXCEPT ![s].known = TRUE] \in [Sessions -> SessionState]
BY DEF SessionState

LEMMA TurnTaken ==
  ASSUME ChatAssumption, TypeInv, NEW c \in Chats, ChatStep(c)
  PROVE  /\ \E x \in Turn : Becomes(c, x)
         /\ session' \in [Sessions -> SessionState]
         /\ cache' \subseteq Entry
         /\ turns' \in 0..MaxTurns
         /\ UNCHANGED environment
<1> DEFINE Taken == /\ \E x \in Turn : Becomes(c, x)
                    /\ session' \in [Sessions -> SessionState]
                    /\ cache' \subseteq Entry
                    /\ turns' \in 0..MaxTurns
                    /\ UNCHANGED environment
<1>1. /\ chat \in [Chats -> Turn] /\ chat[c] \in Turn /\ Shape(chat[c])
      /\ session \in [Sessions -> SessionState] /\ cache \subseteq Entry
      /\ turns \in 0..MaxTurns /\ MaxTurns \in Nat /\ slots \in Nat
      /\ attempt \in 0..MaxAttempts /\ index \subseteq 1..MaxAttempts
  BY DEF TypeInv, TypeOK, ChatAssumption
<1>2. CASE Ask(c)
  <2>1. PICK q \in Questions, s \in Nameable :
          chat' = [chat EXCEPT ![c] = [NoTurn EXCEPT
            !.pc = "open", !.session = s, !.question = q, !.admitted = attempt]]
    BY <1>2 DEF Ask
  <2> DEFINE x == [NoTurn EXCEPT
            !.pc = "open", !.session = s, !.question = q, !.admitted = attempt]
  <2>2. x \in Turn /\ Shape(x) /\ x.pc = "open"
    BY <1>1, NoTurnType DEF NoTurn, Turn, Shape, Nameable, ChatPcs
  <2>3. Becomes(c, x)
    BY <2>1, <2>2, <1>1, <1>2 DEF Becomes, Ask, At
  <2>4. turns' \in 0..MaxTurns
    BY <1>1, <1>2 DEF Ask
  <2> HIDE DEF x
  <2> QED BY <2>2, <2>3, <2>4, <1>1, <1>2 DEF Ask
<1>3. CASE OpenSession(c)
  <2>1. PICK gone \in SUBSET {s \in Sessions : Idle(s)} :
       LET swept == [s \in Sessions |-> IF s \in gone THEN Deleted(session[s])
                                                      ELSE session[s]]
           mine == chat[c].session
       IN  IF mine # NoSession /\ swept[mine].live
             THEN /\ session' = swept
                  /\ chat' = [chat EXCEPT ![c].pc = "lookup",
                       ![c].previous =
                         previous_question(swept[mine].history, chat[c].question)]
             ELSE \E s \in Sessions :
                  /\ Fresh(s)
                  /\ session' = [swept EXCEPT ![s].live = TRUE]
                  /\ chat' = [chat EXCEPT ![c].pc = "lookup", ![c].session = s]
    BY <1>3 DEF OpenSession
  <2> DEFINE swept == [s \in Sessions |-> IF s \in gone THEN Deleted(session[s])
                                                        ELSE session[s]]
             mine == chat[c].session
  <2>2. swept \in [Sessions -> SessionState]
    <3>1. ASSUME NEW s \in Sessions PROVE Deleted(session[s]) \in SessionState
      <4>1. session[s] \in SessionState /\ <<>> \in Seq(Questions)
        BY <1>1
      <4> QED BY <4>1 DEF Deleted, SessionState
    <3> QED BY <3>1, <1>1
  <2>3. chat[c].pc = "open" /\ chat[c].question \in Questions
    BY <1>1, <1>3 DEF OpenSession, At, Shape
  <2>4. slots' = slots /\ turns' = turns /\ cache' = cache /\ UNCHANGED environment
    BY <1>3 DEF OpenSession
  <2>5. CASE mine # NoSession /\ swept[mine].live
    <3>1. mine \in Sessions
      BY <2>5, <1>1 DEF Turn
    <3> DEFINE p == previous_question(swept[mine].history, chat[c].question)
               x == [chat[c] EXCEPT !.pc = "lookup", !.previous = p]
    <3>2. swept[mine].history \in Seq(Questions)
      BY <2>2, <3>1 DEF SessionState
    <3>3. p \in Questions \cup {NoQuestion}
      BY <3>2, <2>3, PreviousQuestion
    <3>4. session' = swept /\ chat' = [chat EXCEPT ![c] = x]
      BY <2>1, <2>5, <1>1
    <3> HIDE DEF p, swept
    <3>5. x \in Turn /\ Shape(x) /\ x.pc = "lookup"
      BY <1>1, <2>3, <3>1, <3>3 DEF Turn, Shape, ChatPcs
    <3>6. Becomes(c, x)
      BY <3>4, <3>5, <2>3, <2>4, <1>1 DEF Becomes
    <3> QED BY <3>4, <3>5, <3>6, <2>2, <2>4, <1>1
  <2>6. CASE ~(mine # NoSession /\ swept[mine].live)
    <3>1. PICK s \in Sessions :
            /\ session' = [swept EXCEPT ![s].live = TRUE]
            /\ chat' = [chat EXCEPT ![c].pc = "lookup", ![c].session = s]
      BY <2>1, <2>6
    <3> DEFINE x == [chat[c] EXCEPT !.pc = "lookup", !.session = s]
    <3> HIDE DEF swept
    <3>2. session' \in [Sessions -> SessionState]
      BY <3>1, <2>2 DEF SessionState
    <3>3. x \in Turn /\ Shape(x) /\ x.pc = "lookup"
      BY <1>1, <2>3 DEF Turn, Shape, ChatPcs
    <3>4. chat' = [chat EXCEPT ![c] = x]
      BY <3>1, <1>1
    <3>5. Becomes(c, x)
      BY <3>4, <3>3, <2>3, <2>4, <1>1 DEF Becomes
    <3> QED BY <3>2, <3>3, <3>5, <2>4, <1>1
  <2> QED BY <2>5, <2>6
<1>4. CASE LookupMiss(c) \/ AgentAnswers(c)
  <2>1. PICK p \in {"slot", "store"} : Goto(c, p)
    BY <1>4 DEF LookupMiss, AgentAnswers
  <2>2. chat[c].pc \in {"lookup", "agent"}
    BY <1>4 DEF LookupMiss, AgentAnswers, At
  <2>3. PICK x \in Turn : chat' = [chat EXCEPT ![c] = x] /\ Shape(x) /\ x.pc = p
    BY <2>1, <2>2, GotoType DEF ChatPcs
  <2>4. slots' = slots + (IF chat[c].pc = "agent" THEN 1 ELSE 0)
    BY <1>1, <1>4 DEF LookupMiss, AgentAnswers, At
  <2>5. Becomes(c, x)
    BY <2>1, <2>3, <2>4, <1>1 DEF Becomes
  <2> QED BY <2>5, <1>1, <1>4 DEF LookupMiss, AgentAnswers
<1>5. CASE AnswerFromCache(c) \/ Busy(c) \/ SessionNotFound(c) \/ AgentFails(c)
             \/ Store(c) \/ StoreNothing(c)
  <2>1. Return(c) /\ slots' = slots + (IF chat[c].pc = "agent" THEN 1 ELSE 0)
    BY <1>1, <1>5 DEF AnswerFromCache, Busy, SessionNotFound, AgentFails, Store,
                      StoreNothing, At
  <2>2. Becomes(c, NoTurn)
    BY <2>1, <1>1, NoTurnType DEF Becomes, Return, NoTurn
  <2>3. chat[c].pc \in {"hit", "slot", "agent", "store"}
    BY <1>5 DEF AnswerFromCache, Busy, SessionNotFound, AgentFails, Store, StoreNothing, At
  <2>4. chat[c].session \in Sessions /\ chat[c].question \in Questions
    BY <2>3, <1>1 DEF Shape
  <2>5. session' \in [Sessions -> SessionState]
    <3>1. CASE AnswerFromCache(c)
      BY <3>1, <2>4, AppendTurnType, KnownType DEF AnswerFromCache
    <3>2. CASE Store(c) \/ StoreNothing(c)
      BY <3>2, <2>4, <1>1, KnownType DEF Store, StoreNothing, Known
    <3>3. CASE Busy(c) \/ SessionNotFound(c) \/ AgentFails(c)
      BY <3>3, <1>1 DEF Busy, SessionNotFound, AgentFails
    <3> QED BY <3>1, <3>2, <3>3, <1>5
  <2>6. cache' \subseteq Entry
    <3>1. CASE Store(c)
      <4>1. [previous |-> chat[c].previous, question |-> chat[c].question,
             context |-> chat[c].context, sources |-> chat[c].sources,
             admitted |-> chat[c].admitted, stored |-> attempt] \in Entry
        BY <1>1, <2>4 DEF Turn, Entry
      <4> QED BY <4>1, <3>1, <1>1 DEF Store
    <3>2. CASE ~Store(c)
      BY <3>2, <1>1, <1>5 DEF AnswerFromCache, Busy, SessionNotFound, AgentFails, StoreNothing
    <3> QED BY <3>1, <3>2
  <2>7. turns' = turns /\ UNCHANGED environment
    BY <1>5 DEF AnswerFromCache, Busy, SessionNotFound, AgentFails, Store, StoreNothing
  <2> QED BY <2>2, <2>5, <2>6, <2>7, <1>1, NoTurnType
<1>6. CASE StartAgent(c)
  <2> DEFINE s == chat[c].session
             seen == {session[s].history[i] : i \in DOMAIN session[s].history}
                       \cup {chat[c].question}
             x == [chat[c] EXCEPT !.pc = "agent", !.context = seen,
                                  !.sources = session[s].code]
  <2>1. chat[c].pc = "slot" /\ s \in Sessions /\ chat[c].question \in Questions
    BY <1>1, <1>6 DEF StartAgent, At, Shape
  <2>2. session[s].history \in Seq(Questions) /\ session[s].code \subseteq 1..MaxAttempts
    BY <1>1, <2>1 DEF SessionState
  <2>3. \A i \in DOMAIN session[s].history : session[s].history[i] \in Questions
    BY <2>2
  <2>4. seen \in SUBSET Questions
    BY <2>1, <2>3
  <2>5. chat' = [chat EXCEPT ![c] = x]
    BY <1>1, <1>6 DEF StartAgent
  <2>6. session' \in [Sessions -> SessionState]
    BY <1>6, <2>1, AppendTurnType DEF StartAgent
  <2>7. slots' = slots - 1 /\ slots > 0 /\ turns' = turns /\ cache' = cache
          /\ UNCHANGED environment
    BY <1>6 DEF StartAgent
  <2> HIDE DEF seen, s
  <2>8. x \in Turn /\ Shape(x) /\ x.pc = "agent"
    BY <1>1, <2>1, <2>2, <2>4 DEF Turn, Shape, ChatPcs, s
  <2>9. Becomes(c, x)
    BY <2>1, <2>5, <2>7, <2>8, <1>1 DEF Becomes
  <2> QED BY <2>6, <2>7, <2>8, <2>9, <1>1
<1>7. CASE Retrieve(c)
  <2> DEFINE s == chat[c].session
  <2>1. PICK found \in SUBSET index :
          /\ chat' = [chat EXCEPT ![c].sources = @ \cup found]
          /\ session' = [session EXCEPT ![s].code = @ \cup found]
    BY <1>7 DEF Retrieve
  <2> DEFINE x == [chat[c] EXCEPT !.sources = chat[c].sources \cup found]
             y == [session[s] EXCEPT !.code = session[s].code \cup found]
  <2>2. s \in Sessions
    BY <1>1, <1>7 DEF Retrieve, At, Shape
  <2>3. x \in Turn /\ Shape(x) /\ x.pc = chat[c].pc
    BY <1>1 DEF Turn, Shape
  <2>4. y \in SessionState
    BY <1>1, <2>2 DEF SessionState
  <2>5. chat' = [chat EXCEPT ![c] = x] /\ session' = [session EXCEPT ![s] = y]
    BY <2>1, <2>2, <1>1
  <2>6. slots' = slots /\ turns' = turns /\ cache' = cache /\ UNCHANGED environment
    BY <1>7 DEF Retrieve
  <2> HIDE DEF x, y, s
  <2>7. Becomes(c, x)
    BY <2>3, <2>5, <2>6, <1>1 DEF Becomes
  <2>8. session' \in [Sessions -> SessionState]
    BY <2>2, <2>4, <2>5, <1>1
  <2> QED BY <2>3, <2>6, <2>7, <2>8, <1>1
<1>8. CASE LookupHit(c)
  <2>1. PICK e \in Matching(c) :
          chat' = [chat EXCEPT ![c].pc = "hit", ![c].sources = e.sources]
    BY <1>8 DEF LookupHit
  <2> DEFINE x == [chat[c] EXCEPT !.pc = "hit", !.sources = e.sources]
  <2>2. e.sources \subseteq 1..MaxAttempts
    BY <2>1, <1>1 DEF Matching, Entry
  <2>3. chat[c].pc = "lookup"
    BY <1>8 DEF LookupHit, At
  <2>4. x \in Turn /\ Shape(x) /\ x.pc = "hit"
    BY <1>1, <2>2, <2>3 DEF Turn, Shape, ChatPcs
  <2>5. chat' = [chat EXCEPT ![c] = x]
    BY <2>1, <1>1
  <2>6. UNCHANGED <<environment, cache, session, slots, turns>>
    BY <1>8 DEF LookupHit
  <2>7. Becomes(c, x)
    BY <2>3, <2>4, <2>5, <2>6, <1>1 DEF Becomes
  <2> QED BY <2>4, <2>6, <2>7, <1>1
<1> QED BY <1>2, <1>3, <1>4, <1>5, <1>6, <1>7, <1>8 DEF ChatStep

THEOREM TypesHold == Spec => []TypeInv
<1>1. ASSUME ChatAssumption PROVE Init => TypeInv
  <2>1. ASSUME Init PROVE TypeInv
    <3>1. TypeOK
      BY <1>1, <2>1, NoTurnType DEF Init, Repo!Init, TypeOK, Scopes, Entry, Unused,
         SessionState, ChatAssumption
    <3>2. Holders = {} /\ \A c \in Chats : Shape(chat[c])
      BY <1>1, <2>1, NoTurnType DEF Init, Holders, At, NoTurn
    <3>3. SlotsAccountedFor
      BY <1>1, <2>1, <3>2, FS_EmptySet DEF Init, SlotsAccountedFor, ChatAssumption
    <3> QED BY <2>1, <3>1, <3>2, <3>3 DEF TypeInv, Init, Repo!Init
  <2> QED BY <2>1
<1>2. ASSUME ChatAssumption, TypeInv, [Next]_vars PROVE TypeInv'
  <2>1. CASE Create \/ Reset \/ Clear \/ ClearFails \/ ClearLost \/ Work \/ Fail
    BY <1>2, <2>1, TypeRepoStep
  <2>2. ASSUME NEW c \in Chats, ChatStep(c) PROVE TypeInv'
    <3>1. PICK x \in Turn : Becomes(c, x)
      BY <1>2, <2>2, TurnTaken
    <3>2. /\ session' \in [Sessions -> SessionState]
          /\ cache' \subseteq Entry
          /\ turns' \in 0..MaxTurns
          /\ UNCHANGED environment
      BY <1>2, <2>2, TurnTaken
    <3>3. chat' \in [Chats -> Turn] /\ \A d \in Chats : Shape(chat'[d])
      BY <1>2, <3>1 DEF Becomes, TypeInv, TypeOK
    <3>4. SlotsAccountedFor' /\ slots' \in 0..MaxConcurrent
      <4>1. /\ chat \in [Chats -> Turn] /\ slots \in Nat /\ MaxConcurrent \in Nat
            /\ slots + Cardinality(Holders) = MaxConcurrent
        BY <1>2 DEF TypeInv, TypeOK, SlotsAccountedFor, ChatAssumption
      <4>2. Cardinality(Holders) \in Nat
        BY <1>2, HoldersCount
      <4>3. Cardinality(Holders)' \in Nat
        <5>1. IsFiniteSet(Holders')
          BY <1>2, FS_Subset DEF ChatAssumption, Holders
        <5> QED BY <5>1, FS_CardinalityType
      <4>4. Cardinality(Holders)' =
              CASE chat[c].pc # "agent" /\ x.pc = "agent" -> Cardinality(Holders) + 1
                [] chat[c].pc = "agent" /\ x.pc # "agent" -> Cardinality(Holders) - 1
                [] OTHER -> Cardinality(Holders)
        BY <1>2, <3>1, <4>1, HoldersStep DEF Becomes
      <4>5. /\ slots' \in Nat
            /\ slots' + (IF x.pc = "agent" THEN 1 ELSE 0)
                 = slots + (IF chat[c].pc = "agent" THEN 1 ELSE 0)
        BY <3>1 DEF Becomes
      <4>6. slots' + Cardinality(Holders)' = MaxConcurrent
        BY ONLY <4>1, <4>2, <4>3, <4>4, <4>5
      <4> QED BY <4>1, <4>3, <4>5, <4>6 DEF SlotsAccountedFor
    <3> QED BY <1>2, <3>2, <3>3, <3>4 DEF TypeInv, TypeOK, environment, repoVars,
                                          invalidationVars
  <2>3. CASE UNCHANGED vars
    <3>1. Holders' = Holders
      BY <2>3 DEF vars, Holders, At
    <3> QED BY <1>2, <2>3, <3>1 DEF vars, repoVars, invalidationVars, TypeInv, TypeOK,
                              SlotsAccountedFor
  <2> QED BY <1>2, <2>1, <2>2, <2>3 DEF Next
<1> QED BY <1>1, <1>2, ChatAssumption, PTL DEF Spec

\* Chat's state is well typed, for any number of requests.
THEOREM TypeCorrect == Spec => []TypeOK
<1>1. TypeInv => TypeOK
  BY DEF TypeInv
<1> QED BY <1>1, TypesHold, PTL

\* Every LLM slot is free or held by a run that has not ended, for any number
\* of requests, slots and failures (concurrency.py:33-49).
THEOREM SlotsKept == Spec => []SlotsAccountedFor
<1>1. TypeInv => SlotsAccountedFor
  BY DEF TypeInv
<1> QED BY <1>1, TypesHold, PTL

----------------------------------------------------------------------------
(* Whose code a turn may retrieve *)

\* The index holds only code at least as new as the attempt under which any
\* request in progress was admitted, and that attempt is not in the future.
SourceInv ==
  /\ status = "ready" => index = {attempt}
  /\ \A c \in Chats : chat[c].pc # "idle" => chat[c].admitted <= attempt
  /\ RetrievesSinceAdmission

\* The repo's steps only add the newest attempt's code to the index.
LEMMA IndexGetsNewer ==
  ASSUME ChatAssumption, TypeInv,
         Create \/ Reset \/ Clear \/ ClearFails \/ ClearLost \/ Work \/ Fail,
         status = "ready" => index = {attempt}
  PROVE  /\ attempt' \in Nat /\ attempt' >= attempt
         /\ index' \subseteq index \cup {attempt}
         /\ status' = "ready" => index' = {attempt'}
<1>1. attempt \in Nat /\ index \subseteq Nat
  BY DEF TypeInv, TypeOK, ChatAssumption
<1>2. CASE Create \/ Reset
  BY <1>1, <1>2 DEF Create, Reset, Repo!Submit
<1>3. CASE Clear \/ ClearFails \/ ClearLost
  BY <1>1, <1>3 DEF Clear, ClearFails, ClearLost, repoVars
<1>4. CASE Work
  <2>1. CASE Repo!Report
    BY <1>1, <2>1 DEF Repo!Report
  <2>2. CASE Repo!Reindex
    BY <1>1, <2>2 DEF Repo!Reindex
  <2>3. CASE Repo!Finish
    BY <1>1, <2>3 DEF Repo!Finish
  <2> QED BY <1>4, <2>1, <2>2, <2>3 DEF Work
<1>5. CASE Fail
  BY <1>1, <1>5 DEF Fail, Repo!Fail
<1> QED BY <1>2, <1>3, <1>4, <1>5

\* A request is admitted under the attempt that is ready, and keeps that
\* attempt until it returns.
LEMMA AdmittedOnce ==
  ASSUME ChatAssumption, TypeInv, SourceInv, NEW c \in Chats, ChatStep(c),
         chat'[c].pc # "idle"
  PROVE  \/ chat'[c].admitted = attempt /\ index = {attempt}
         \/ chat[c].pc # "idle" /\ chat'[c].admitted = chat[c].admitted
<1>1. chat \in [Chats -> Turn] /\ chat[c] \in Turn
  BY DEF TypeInv, TypeOK
<1>2. CASE Ask(c)
  <2>1. PICK q \in Questions, s \in Nameable :
          chat' = [chat EXCEPT ![c] = [NoTurn EXCEPT
            !.pc = "open", !.session = s, !.question = q, !.admitted = attempt]]
    BY <1>2 DEF Ask
  <2>2. chat'[c].admitted = attempt
    BY <2>1, <1>1 DEF NoTurn
  <2> QED BY <1>2, <2>2 DEF Ask, SourceInv
<1>3. CASE OpenSession(c) \/ StartAgent(c) \/ LookupHit(c) \/ Retrieve(c)
  <2>1. chat[c].pc # "idle"
    BY <1>3 DEF OpenSession, StartAgent, LookupHit, Retrieve, At
  <2>2. chat'[c].admitted = chat[c].admitted
    <3>1. CASE OpenSession(c)
      BY <1>1, <3>1 DEF OpenSession, Turn
    <3>2. CASE StartAgent(c)
      BY <1>1, <3>2 DEF StartAgent, Turn
    <3>3. CASE LookupHit(c) \/ Retrieve(c)
      BY <1>1, <3>3 DEF LookupHit, Retrieve, Turn
    <3> QED BY <1>3, <3>1, <3>2, <3>3
  <2> QED BY <2>1, <2>2
<1>4. CASE LookupMiss(c) \/ AgentAnswers(c)
  BY <1>1, <1>4 DEF LookupMiss, AgentAnswers, At, Goto, Turn
<1>5. CASE AnswerFromCache(c) \/ Busy(c) \/ SessionNotFound(c) \/ AgentFails(c)
             \/ Store(c) \/ StoreNothing(c)
  <2>1. chat' = [chat EXCEPT ![c] = NoTurn]
    BY <1>5 DEF AnswerFromCache, Busy, SessionNotFound, AgentFails, Store, StoreNothing, Return
  <2> QED BY <1>1, <2>1 DEF NoTurn
<1> QED BY <1>2, <1>3, <1>4, <1>5 DEF ChatStep

\* Whatever is re-ingested while a turn is in progress, what its agent may
\* retrieve is never older than the attempt its question was admitted under
\* (dependencies.py:376-379).
THEOREM SinceAdmission == Spec => []RetrievesSinceAdmission
<1>1. ASSUME ChatAssumption PROVE Init => SourceInv
  BY <1>1 DEF Init, Repo!Init, SourceInv, RetrievesSinceAdmission, NoTurn, At
<1>2. ASSUME ChatAssumption, TypeInv, SourceInv, [Next]_vars PROVE SourceInv'
  <2>0. /\ attempt \in Nat /\ index \subseteq Nat
        /\ \A c \in Chats : chat[c].admitted \in Nat
    BY <1>2 DEF TypeInv, TypeOK, ChatAssumption, Turn
  <2>1. CASE Create \/ Reset \/ Clear \/ ClearFails \/ ClearLost \/ Work \/ Fail
    <3>1. /\ attempt' \in Nat /\ attempt' >= attempt
          /\ index' \subseteq index \cup {attempt}
          /\ status' = "ready" => index' = {attempt'}
      BY <1>2, <2>1, IndexGetsNewer DEF SourceInv
    <3>2. chat' = chat
      BY <2>1 DEF Create, Reset, Clear, ClearFails, ClearLost, Work, Fail, chatVars
    <3>3. ASSUME NEW c \in Chats, chat[c].pc # "idle"
          PROVE  chat[c].admitted <= attempt' /\ \A a \in index' : a >= chat[c].admitted
      BY <1>2, <2>0, <3>1, <3>3 DEF SourceInv, RetrievesSinceAdmission, At
    <3> QED BY <3>1, <3>2, <3>3 DEF SourceInv, RetrievesSinceAdmission, At
  <2>2. ASSUME NEW c \in Chats, ChatStep(c) PROVE SourceInv'
    <3>1. UNCHANGED environment /\ \E x \in Turn : Becomes(c, x)
      BY <1>2, <2>2, TurnTaken
    <3>2. ASSUME NEW d \in Chats, chat'[d].pc # "idle"
          PROVE  chat'[d].admitted <= attempt /\ \A a \in index : a >= chat'[d].admitted
      <4>1. CASE d = c
        <5>1. \/ chat'[c].admitted = attempt /\ index = {attempt}
              \/ chat[c].pc # "idle" /\ chat'[c].admitted = chat[c].admitted
          BY <1>2, <2>2, <3>2, <4>1, AdmittedOnce
        <5> QED BY <1>2, <2>0, <4>1, <5>1 DEF SourceInv, RetrievesSinceAdmission, At
      <4>2. CASE d # c
        <5>1. chat'[d] = chat[d]
          BY <1>2, <3>1, <4>2 DEF Becomes, TypeInv, TypeOK
        <5> QED BY <1>2, <3>2, <5>1 DEF SourceInv, RetrievesSinceAdmission, At
      <4> QED BY <4>1, <4>2
    <3>3. status' = status /\ attempt' = attempt /\ index' = index
      BY <3>1 DEF environment, repoVars
    <3> QED BY <1>2, <3>2, <3>3 DEF SourceInv, RetrievesSinceAdmission, At
  <2>3. CASE UNCHANGED vars
    BY <1>2, <2>3 DEF vars, repoVars, SourceInv, RetrievesSinceAdmission, At
  <2> QED BY <1>2, <2>1, <2>2, <2>3 DEF Next
<1>3. SourceInv => RetrievesSinceAdmission
  BY DEF SourceInv
<1> QED BY <1>1, <1>2, <1>3, TypesHold, ChatAssumption, PTL DEF Spec

----------------------------------------------------------------------------
(* What survives a reset *)

\* The scope dropped first is clean while the second is being dropped.
ResetInv ==
  /\ reset <= attempt
  /\ clearing \in {"follow-up", "done"} =>
       \A e \in cache : cache_scope(e.previous) = "first" =>
                          e.stored >= reset \/ "first" \in kept
  /\ OnlyStoredSinceReset

\* Once a retry's task may run, what is cached was stored after the reset,
\* except where the cache service failed.
THEOREM DroppedByReset == Spec => []OnlyStoredSinceReset
<1>1. ASSUME ChatAssumption PROVE Init => ResetInv
  BY <1>1 DEF Init, Repo!Init, ResetInv, OnlyStoredSinceReset
<1>2. ASSUME ChatAssumption, TypeInv, ResetInv, [Next]_vars PROVE ResetInv'
  <2>0. attempt \in Nat /\ reset \in Nat /\ cache \subseteq Entry
    BY <1>2 DEF TypeInv, TypeOK, ChatAssumption
  <2>1. CASE Create \/ Work \/ Fail
    <3>1. UNCHANGED <<invalidationVars, cache>>
      BY <2>1 DEF Create, Work, Fail, chatVars
    <3>2. attempt' \in Nat /\ attempt' >= attempt
      BY <2>0, <2>1 DEF Create, Work, Fail, Repo!Submit, Repo!Report, Repo!Reindex,
                        Repo!Finish, Repo!Fail
    <3> QED BY <1>2, <2>0, <3>1, <3>2 DEF invalidationVars, ResetInv, OnlyStoredSinceReset
  <2>2. CASE Reset
    BY <1>2, <2>0, <2>2 DEF Reset, Repo!Submit, ResetInv, OnlyStoredSinceReset
  <2>3. CASE Clear
    <3>1. \A e \in cache' : e \in cache /\ cache_scope(e.previous) # clearing
      BY <2>3 DEF Clear, InScope
    <3>2. attempt' = attempt /\ reset' = reset /\ kept' = kept \ {clearing}
            /\ clearing' = NextScope /\ clearing \in Scopes
      BY <2>3 DEF Clear, repoVars
    <3>3. CASE clearing = "first"
      BY <1>2, <3>1, <3>2, <3>3 DEF NextScope, ResetInv, OnlyStoredSinceReset
    <3>4. CASE clearing = "follow-up"
      BY <1>2, <3>1, <3>2, <3>4 DEF NextScope, ResetInv, OnlyStoredSinceReset, cache_scope
    <3> QED BY <3>2, <3>3, <3>4 DEF Scopes
  <2>4. CASE ClearFails
    <3>1. attempt' = attempt /\ reset' = reset /\ kept' = kept \cup {clearing}
            /\ clearing' = NextScope /\ clearing \in Scopes /\ cache' = cache
      BY <2>4 DEF ClearFails, repoVars, chatVars
    <3>2. CASE clearing = "first"
      BY <1>2, <3>1, <3>2 DEF NextScope, ResetInv, OnlyStoredSinceReset
    <3>3. CASE clearing = "follow-up"
      BY <1>2, <3>1, <3>3 DEF NextScope, ResetInv, OnlyStoredSinceReset, cache_scope
    <3> QED BY <3>1, <3>2, <3>3 DEF Scopes
  <2>5. CASE ClearLost
    BY <1>2, <2>5 DEF ClearLost, repoVars, chatVars, ResetInv, OnlyStoredSinceReset
  <2>6. ASSUME NEW c \in Chats, ChatStep(c) PROVE ResetInv'
    <3>1. UNCHANGED environment
      BY <1>2, <2>6, TurnTaken
    <3>2. \A e \in cache' : e \in cache \/ e.stored = attempt
      <4>1. CASE Store(c)
        BY <4>1 DEF Store
      <4>2. CASE ~Store(c)
        <5>1. cache' = cache
          BY <2>6, <4>2 DEF ChatStep, Ask, OpenSession, LookupHit, AnswerFromCache,
               LookupMiss, Busy, StartAgent, SessionNotFound, Retrieve, AgentAnswers,
               AgentFails, StoreNothing
        <5> QED BY <5>1
      <4> QED BY <4>1, <4>2
    <3> QED BY <1>2, <2>0, <3>1, <3>2 DEF environment, repoVars, invalidationVars, ResetInv,
                                          OnlyStoredSinceReset
  <2>7. CASE UNCHANGED vars
    BY <1>2, <2>7 DEF vars, repoVars, invalidationVars, ResetInv, OnlyStoredSinceReset
  <2> QED BY <1>2, <2>1, <2>2, <2>3, <2>4, <2>5, <2>6, <2>7 DEF Next
<1>3. ResetInv => OnlyStoredSinceReset
  BY DEF ResetInv
<1> QED BY <1>1, <1>2, <1>3, TypesHold, ChatAssumption, PTL DEF Spec

----------------------------------------------------------------------------
(* First turns while no two requests share a session *)

\* A request owns its session; a turn keyed as a first one is in a session that
\* holds no other question, up to the start of its run, and so is what its run
\* sees.
FirstInv ==
  /\ \A c, d \in Chats :
       c # d /\ chat[c].session # NoSession => chat[c].session # chat[d].session
  /\ \A c \in Chats :
       /\ chat[c].pc \in {"lookup", "hit", "slot"} /\ chat[c].previous = NoQuestion
            /\ session[chat[c].session].live
          => \A i \in DOMAIN session[chat[c].session].history :
                 session[chat[c].session].history[i] = chat[c].question
       /\ chat[c].pc \in {"agent", "store"} /\ chat[c].previous = NoQuestion
          => chat[c].context = {chat[c].question}
  /\ FirstTurnsAreContextFree

\* A session that another request holds only ever loses its history.
HistoryKept(s) ==
  session'[s].live => session[s].live /\ session'[s].history = session[s].history

LEMMA OthersKept ==
  ASSUME ChatAssumption, TypeInv, FirstInv, ~SharedSessions, NEW c \in Chats, ChatStep(c)
  PROVE  \A d \in Chats : d # c =>
           /\ chat'[d] = chat[d]
           /\ chat[d].session # NoSession =>
                /\ chat'[c].session # chat[d].session
                /\ HistoryKept(chat[d].session)
<1> SUFFICES ASSUME NEW d \in Chats, d # c
             PROVE  /\ chat'[d] = chat[d]
                    /\ chat[d].session # NoSession =>
                         /\ chat'[c].session # chat[d].session
                         /\ HistoryKept(chat[d].session)
  OBVIOUS
<1>1. /\ chat \in [Chats -> Turn] /\ chat[c] \in Turn /\ chat[d] \in Turn
      /\ Shape(chat[c]) /\ session \in [Sessions -> SessionState]
      /\ chat[d].session # NoSession => chat[d].session \in Sessions
  BY DEF TypeInv, TypeOK, Turn
<1>2. chat[d].session # NoSession => chat[c].session # chat[d].session
  BY DEF FirstInv
<1>3. chat'[d] = chat[d]
  <2>1. PICK x \in Turn : Becomes(c, x)
    BY TurnTaken
  <2> QED BY <2>1, <1>1 DEF Becomes
<1>4. CASE Ask(c)
  <2>1. PICK q \in Questions, s \in Nameable :
          chat' = [chat EXCEPT ![c] = [NoTurn EXCEPT
            !.pc = "open", !.session = s, !.question = q, !.admitted = attempt]]
    BY <1>4 DEF Ask
  <2>2. chat'[c].session = s
    BY <2>1, <1>1 DEF NoTurn
  <2>3. s # NoSession => s # chat[d].session
    BY <2>1 DEF Nameable
  <2> QED BY <1>3, <1>4, <2>2, <2>3 DEF Ask, HistoryKept
<1>5. CASE OpenSession(c)
  <2>1. PICK gone \in SUBSET {s \in Sessions : Idle(s)} :
       LET swept == [s \in Sessions |-> IF s \in gone THEN Deleted(session[s])
                                                      ELSE session[s]]
           mine == chat[c].session
       IN  IF mine # NoSession /\ swept[mine].live
             THEN /\ session' = swept
                  /\ chat' = [chat EXCEPT ![c].pc = "lookup",
                       ![c].previous =
                         previous_question(swept[mine].history, chat[c].question)]
             ELSE \E s \in Sessions :
                  /\ Fresh(s)
                  /\ session' = [swept EXCEPT ![s].live = TRUE]
                  /\ chat' = [chat EXCEPT ![c].pc = "lookup", ![c].session = s]
    BY <1>5 DEF OpenSession
  <2> DEFINE swept == [s \in Sessions |-> IF s \in gone THEN Deleted(session[s])
                                                        ELSE session[s]]
             mine == chat[c].session
  <2>2. \A s \in Sessions : swept[s].live => session[s].live /\ swept[s].history = session[s].history
    BY <1>1 DEF Deleted, SessionState
  <2>3. CASE mine # NoSession /\ swept[mine].live
    <3>1. session' = swept /\ chat'[c].session = chat[c].session
      BY <2>1, <2>3, <1>1 DEF Turn
    <3> QED BY <3>1, <2>2, <1>1, <1>2, <1>3 DEF HistoryKept
  <2>4. CASE ~(mine # NoSession /\ swept[mine].live)
    <3>1. PICK s \in Sessions :
            /\ Fresh(s)
            /\ session' = [swept EXCEPT ![s].live = TRUE]
            /\ chat' = [chat EXCEPT ![c].pc = "lookup", ![c].session = s]
      BY <2>1, <2>4
    <3>2. chat'[c].session = s /\ chat[d].session # s
      BY <3>1, <1>1 DEF Fresh, Turn
    <3>3. chat[d].session # NoSession => session'[chat[d].session] = swept[chat[d].session]
      BY <3>1, <3>2, <1>1
    <3> QED BY <3>2, <3>3, <2>2, <1>1, <1>3 DEF HistoryKept
  <2> QED BY <2>3, <2>4
<1>6. CASE StartAgent(c) \/ AnswerFromCache(c) \/ Retrieve(c) \/ Store(c) \/ StoreNothing(c)
  <2>1. chat[c].session \in Sessions
    BY <1>1, <1>6 DEF StartAgent, AnswerFromCache, Retrieve, Store, StoreNothing, At, Shape
  <2>2. chat'[c].session \in {chat[c].session, NoSession}
    <3>1. CASE Retrieve(c)
      BY <1>1, <3>1 DEF Retrieve, Turn
    <3>2. CASE StartAgent(c)
      BY <1>1, <3>2 DEF StartAgent, Turn
    <3>3. CASE AnswerFromCache(c) \/ Store(c) \/ StoreNothing(c)
      <4>1. chat' = [chat EXCEPT ![c] = NoTurn]
        BY <3>3 DEF AnswerFromCache, Store, StoreNothing, Return
      <4> QED BY <1>1, <4>1 DEF NoTurn
    <3> QED BY <1>6, <3>1, <3>2, <3>3
  <2>3. \A s \in Sessions : s # chat[c].session => session'[s] = session[s]
    <3>1. CASE Retrieve(c)
      BY <1>1, <2>1, <3>1 DEF Retrieve
    <3>2. CASE ~Retrieve(c)
      BY <1>1, <1>6, <2>1, <3>2
         DEF StartAgent, AnswerFromCache, Store, StoreNothing, Known, Append_turn
    <3> QED BY <3>1, <3>2
  <2> QED BY <1>1, <1>2, <1>3, <2>2, <2>3 DEF HistoryKept
<1>7. CASE LookupHit(c) \/ LookupMiss(c) \/ Busy(c) \/ SessionNotFound(c)
             \/ AgentAnswers(c) \/ AgentFails(c)
  <2>1. chat'[c].session \in {chat[c].session, NoSession} /\ session' = session
    BY <1>1, <1>7 DEF LookupHit, LookupMiss, Busy, SessionNotFound, AgentAnswers,
                      AgentFails, Goto, Return, NoTurn, Turn
  <2> QED BY <1>2, <1>3, <2>1 DEF HistoryKept
<1> QED BY <1>4, <1>5, <1>6, <1>7 DEF ChatStep

\* What FirstInv says of one request.
Own(c) ==
  /\ chat[c].pc \in {"lookup", "hit", "slot"} /\ chat[c].previous = NoQuestion
       /\ session[chat[c].session].live
     => \A i \in DOMAIN session[chat[c].session].history :
            session[chat[c].session].history[i] = chat[c].question
  /\ chat[c].pc \in {"agent", "store"} /\ chat[c].previous = NoQuestion
     => chat[c].context = {chat[c].question}

LEMMA OwnKept ==
  ASSUME ChatAssumption, TypeInv, FirstInv, NEW c \in Chats, ChatStep(c)
  PROVE  Own(c)'
<1>1. /\ chat \in [Chats -> Turn] /\ chat[c] \in Turn /\ Shape(chat[c])
      /\ session \in [Sessions -> SessionState] /\ Own(c)
  BY DEF TypeInv, TypeOK, FirstInv, Own
<1>2. CASE Ask(c)
  <2>1. PICK q \in Questions, s \in Nameable :
          chat' = [chat EXCEPT ![c] = [NoTurn EXCEPT
            !.pc = "open", !.session = s, !.question = q, !.admitted = attempt]]
    BY <1>2 DEF Ask
  <2>2. chat'[c].pc = "open"
    BY <2>1, <1>1 DEF NoTurn
  <2> QED BY <2>2 DEF Own
<1>3. CASE OpenSession(c)
  <2>1. PICK gone \in SUBSET {s \in Sessions : Idle(s)} :
       LET swept == [s \in Sessions |-> IF s \in gone THEN Deleted(session[s])
                                                      ELSE session[s]]
           mine == chat[c].session
       IN  IF mine # NoSession /\ swept[mine].live
             THEN /\ session' = swept
                  /\ chat' = [chat EXCEPT ![c].pc = "lookup",
                       ![c].previous =
                         previous_question(swept[mine].history, chat[c].question)]
             ELSE \E s \in Sessions :
                  /\ Fresh(s)
                  /\ session' = [swept EXCEPT ![s].live = TRUE]
                  /\ chat' = [chat EXCEPT ![c].pc = "lookup", ![c].session = s]
    BY <1>3 DEF OpenSession
  <2> DEFINE swept == [s \in Sessions |-> IF s \in gone THEN Deleted(session[s])
                                                        ELSE session[s]]
             mine == chat[c].session
  <2>2. chat[c].question \in Questions
    BY <1>1, <1>3 DEF OpenSession, At, Shape
  <2>3. CASE mine # NoSession /\ swept[mine].live
    <3>1. mine \in Sessions
      BY <2>3, <1>1 DEF Turn
    <3>2. swept[mine] = session[mine] /\ session[mine].history \in Seq(Questions)
      BY <2>3, <3>1, <1>1 DEF Deleted, SessionState
    <3> DEFINE p == previous_question(swept[mine].history, chat[c].question)
    <3>3. p = NoQuestion =>
            \A i \in DOMAIN session[mine].history : session[mine].history[i] = chat[c].question
      BY <3>2, <2>2, PreviousQuestion
    <3>4. /\ session' = swept
          /\ chat' = [chat EXCEPT ![c].pc = "lookup", ![c].previous = p]
      BY <2>1, <2>3
    <3> HIDE DEF p
    <3>5. /\ chat'[c].pc = "lookup" /\ chat'[c].previous = p
          /\ chat'[c].session = mine /\ chat'[c].question = chat[c].question
      BY <3>4, <1>1 DEF Turn
    <3>6. session'[mine] = session[mine]
      BY <3>2, <3>4
    <3> HIDE DEF swept, mine
    <3> QED BY <3>3, <3>5, <3>6 DEF Own
  <2>4. CASE ~(mine # NoSession /\ swept[mine].live)
    <3>1. PICK s \in Sessions :
            /\ Fresh(s)
            /\ session' = [swept EXCEPT ![s].live = TRUE]
            /\ chat' = [chat EXCEPT ![c].pc = "lookup", ![c].session = s]
      BY <2>1, <2>4
    <3>2. swept[s] = session[s] /\ session[s] = Unused
      BY <3>1 DEF Fresh, Idle, Unused
    <3>3. session'[s].history = <<>>
      BY <3>1, <3>2 DEF Unused
    <3>4. chat'[c].pc = "lookup" /\ chat'[c].session = s
      BY <3>1, <1>1 DEF Turn
    <3> QED BY <3>3, <3>4 DEF Own
  <2> QED BY <2>3, <2>4
<1>4. CASE LookupHit(c) \/ LookupMiss(c)
  <2>1. /\ chat[c].pc = "lookup" /\ chat'[c].pc \in {"hit", "slot"} /\ session' = session
        /\ chat'[c].session = chat[c].session /\ chat'[c].question = chat[c].question
        /\ chat'[c].previous = chat[c].previous
    BY <1>1, <1>4 DEF LookupHit, LookupMiss, At, Goto, Turn
  <2> QED BY <1>1, <2>1 DEF Own
<1>5. CASE StartAgent(c)
  <2> DEFINE s == chat[c].session
  <2>1. chat[c].pc = "slot" /\ session[s].live
    BY <1>5 DEF StartAgent, At
  <2>2. /\ chat'[c].pc = "agent"
        /\ chat'[c].context = {session[s].history[i] : i \in DOMAIN session[s].history}
                                \cup {chat[c].question}
        /\ chat'[c].previous = chat[c].previous /\ chat'[c].question = chat[c].question
    BY <1>5, <1>1 DEF StartAgent, Turn
  <2>3. chat[c].previous = NoQuestion =>
          {session[s].history[i] : i \in DOMAIN session[s].history} \subseteq {chat[c].question}
    BY <1>1, <2>1 DEF Own
  <2> QED BY <2>2, <2>3 DEF Own
<1>6. CASE Retrieve(c) \/ AgentAnswers(c)
  <2>1. /\ chat[c].pc = "agent" /\ chat'[c].pc \in {"agent", "store"}
        /\ chat'[c].context = chat[c].context /\ chat'[c].question = chat[c].question
        /\ chat'[c].previous = chat[c].previous
    <3>1. CASE Retrieve(c)
      BY <1>1, <3>1 DEF Retrieve, At, Turn
    <3>2. CASE AgentAnswers(c)
      BY <1>1, <3>2 DEF AgentAnswers, At, Goto, Turn
    <3> QED BY <1>6, <3>1, <3>2
  <2> QED BY <1>1, <2>1 DEF Own
<1>7. CASE AnswerFromCache(c) \/ Busy(c) \/ SessionNotFound(c) \/ AgentFails(c)
             \/ Store(c) \/ StoreNothing(c)
  <2>1. chat'[c].pc = "idle"
    BY <1>1, <1>7 DEF AnswerFromCache, Busy, SessionNotFound, AgentFails, Store,
                      StoreNothing, Return, NoTurn
  <2> QED BY <2>1 DEF Own
<1> QED BY <1>2, <1>3, <1>4, <1>5, <1>6, <1>7 DEF ChatStep

\* While no two requests use a session at the same time, what is cached for
\* first turns was answered from its question alone.
THEOREM FirstTurns ==
  ASSUME ~SharedSessions
  PROVE  Spec => []FirstTurnsAreContextFree
<1>1. ASSUME ChatAssumption PROVE Init => FirstInv
  BY <1>1 DEF Init, FirstInv, FirstTurnsAreContextFree, NoTurn
<1>2. ASSUME ChatAssumption, TypeInv, FirstInv, [Next]_vars PROVE FirstInv'
  <2>1. CASE Create \/ Reset \/ Clear \/ ClearFails \/ ClearLost \/ Work \/ Fail
    <3>1. chat' = chat /\ session' = session /\ cache' \subseteq cache
      BY <2>1 DEF Create, Reset, Clear, ClearFails, ClearLost, Work, Fail, chatVars
    <3> QED BY <1>2, <3>1 DEF FirstInv, FirstTurnsAreContextFree
  <2>2. ASSUME NEW c \in Chats, ChatStep(c) PROVE FirstInv'
    <3>1. \A d \in Chats : d # c =>
            /\ chat'[d] = chat[d]
            /\ chat[d].session # NoSession =>
                 /\ chat'[c].session # chat[d].session
                 /\ HistoryKept(chat[d].session)
      BY <1>2, <2>2, OthersKept
    <3>2. \A d \in Chats : Own(d)'
      <4>1. Own(c)'
        BY <1>2, <2>2, OwnKept
      <4>2. ASSUME NEW d \in Chats, d # c PROVE Own(d)'
        <5>1. Own(d) /\ chat'[d] = chat[d] /\ Shape(chat[d])
          BY <1>2, <3>1, <4>2 DEF FirstInv, Own, TypeInv
        <5>2. chat[d].pc \in {"lookup", "hit", "slot"} => HistoryKept(chat[d].session)
          BY <1>2, <3>1, <4>2, <5>1 DEF Shape, ChatAssumption
        <5> QED BY <5>1, <5>2 DEF Own, HistoryKept
      <4> QED BY <4>1, <4>2
    <3>3. ASSUME NEW a \in Chats, NEW b \in Chats, a # b, chat'[a].session # NoSession
          PROVE  chat'[a].session # chat'[b].session
      BY <1>2, <3>1, <3>3 DEF FirstInv
    <3>4. FirstTurnsAreContextFree'
      <4>1. CASE Store(c)
        <5>1. Own(c) /\ chat[c].pc = "store"
          BY <1>2, <4>1 DEF FirstInv, Own, Store, At
        <5>2. \A e \in cache' : e \in cache \/
                (e.previous = chat[c].previous /\ e.question = chat[c].question
                   /\ e.context = chat[c].context)
          BY <4>1 DEF Store
        <5> QED BY <1>2, <5>1, <5>2 DEF Own, FirstInv, FirstTurnsAreContextFree
      <4>2. CASE ~Store(c)
        <5>1. cache' = cache
          BY <2>2, <4>2 DEF ChatStep, Ask, OpenSession, LookupHit, AnswerFromCache,
               LookupMiss, Busy, StartAgent, SessionNotFound, Retrieve, AgentAnswers,
               AgentFails, StoreNothing
        <5> QED BY <1>2, <5>1 DEF FirstInv, FirstTurnsAreContextFree
      <4> QED BY <4>1, <4>2
    <3> QED BY <3>2, <3>3, <3>4 DEF FirstInv, Own
  <2>3. CASE UNCHANGED vars
    BY <1>2, <2>3 DEF vars, FirstInv, FirstTurnsAreContextFree
  <2> QED BY <1>2, <2>1, <2>2, <2>3 DEF Next
<1>3. FirstInv => FirstTurnsAreContextFree
  BY DEF FirstInv
<1> QED BY <1>1, <1>2, <1>3, TypesHold, ChatAssumption, PTL DEF Spec

=============================================================================
