---------------------------- MODULE AgentRegistry ----------------------------
(***************************************************************************)
(* AgentRegistry and its use by RagWorkflowFacade.chat: the bounded cache  *)
(* of agent runners and the chat sessions that live inside them.           *)
(*                                                                         *)
(* get_runner runs in a thread per turn and takes its lock twice; what     *)
(* chat does from the sweep to the session it got suspends nowhere (the    *)
(* session service is in memory), so it is one step of the event loop.     *)
(* Runners are numbered as they are built.  A session is known by the      *)
(* client that holds its id.                                               *)
(***************************************************************************)
EXTENDS Naturals, Sequences, FiniteSets, SequencesExt

CONSTANTS
  Clients,    \* conversations; each has one turn at a time
  Repos,
  MaxRepos,   \* AGENT_REGISTRY_MAX_REPOS
  MaxBuilds   \* bound: runners built

ASSUME RegistryAssumption == MaxRepos \in Nat \ {0} /\ MaxBuilds \in Nat

VARIABLES
  runners,  \* _runners in its order: records of a repo and its runner
  built,    \* runners built so far
  swept,    \* swept[p]: TRUE if _last_swept[p] is too recent for another sweep
  turn,     \* turn[c]: where c's turn is, its repo and the runner in its hand
  session,  \* session[c]: the runner with c's session (0: none) and its age
  evicted,  \* history: runners evicted
  returned  \* history: the last MaxRepos repos get_runner returned for, latest last

registryVars == <<runners, built, swept, turn, session, evicted, returned>>

Runner == 1..MaxBuilds
NoTurn == [pc |-> "idle", repo |-> "", runner |-> 0]
NoSession == [runner |-> 0, idle |-> FALSE]

RegistryInit ==
  /\ runners = <<>> /\ built = 0
  /\ swept = [p \in Repos |-> FALSE]
  /\ turn = [c \in Clients |-> NoTurn]
  /\ session = [c \in Clients |-> NoSession]
  /\ evicted = {} /\ returned = <<>>

HasRunner(p) == \E e \in ToSet(runners) : e.repo = p
Kept(p) == CHOOSE e \in ToSet(runners) : e.repo = p
Others(p) == RemoveFirstMatch(runners, LAMBDA e : e.repo = p)

\* get_runner(p) returns e's runner to c.
Return(c, e) ==
  /\ turn' = [turn EXCEPT ![c] = [pc |-> "runner", repo |-> e.repo, runner |-> e.runner]]
  /\ LET repos == Append(RemoveFirst(returned, e.repo), e.repo)
     IN  returned' = IF Len(repos) > MaxRepos THEN Tail(repos) ELSE repos

\* Faulty: a hit does not count as a use.
Hit_unmoved(c, p) ==
  /\ HasRunner(p)
  /\ Return(c, Kept(p))
  /\ UNCHANGED <<runners, built>>

Hit(c, p) ==
  /\ HasRunner(p)
  /\ runners' = Append(Others(p), Kept(p))
  /\ Return(c, Kept(p))
  /\ UNCHANGED built

\* A miss: the runner is built outside the lock.
Miss(c, p) ==
  /\ ~HasRunner(p) /\ built < MaxBuilds
  /\ built' = built + 1
  /\ turn' = [turn EXCEPT ![c] = [pc |-> "built", repo |-> p, runner |-> built + 1]]
  /\ UNCHANGED <<runners, returned>>

GetRunner(c) ==
  /\ turn[c].pc = "idle"
  /\ \E p \in Repos : Hit(c, p) \/ Miss(c, p)
  /\ UNCHANGED <<swept, session, evicted>>

\* Faulty: the later of two runners replaces the earlier one.
SetDefault_replaced(c) == [repo |-> turn[c].repo, runner |-> turn[c].runner]

\* setdefault: what another turn registered meanwhile stays.
SetDefault(c) ==
  IF HasRunner(turn[c].repo) THEN Kept(turn[c].repo)
  ELSE [repo |-> turn[c].repo, runner |-> turn[c].runner]

\* The second half of a miss: register, mark as used, evict down to max_repos.
Register(c) ==
  /\ turn[c].pc = "built"
  /\ LET all == Append(Others(turn[c].repo), SetDefault(c))
         gone == SubSeq(all, 1, Len(all) - MaxRepos)
     IN  /\ runners' = SubSeq(all, Len(gone) + 1, Len(all))
         /\ evicted' = evicted \cup {e.runner : e \in ToSet(gone)}
         /\ swept' = [p \in Repos |-> swept[p] /\ \A e \in ToSet(gone) : e.repo # p]
  /\ Return(c, SetDefault(c))
  /\ UNCHANGED <<built, session>>

\* expire_idle_sessions: what is left of the sessions after the sweep.
Sweep(p, n) ==
  IF swept[p] THEN session
  ELSE [c \in Clients |-> IF session[c].runner = n /\ session[c].idle
                            THEN NoSession ELSE session[c]]

\* The sweep, then get_session, or create_session if there is none.
OpenSession(c) ==
  /\ turn[c].pc = "runner"
  /\ LET left == Sweep(turn[c].repo, turn[c].runner)
     IN  session' = [left EXCEPT ![c] =
                       IF @.runner = turn[c].runner THEN @
                       ELSE [runner |-> turn[c].runner, idle |-> FALSE]]
  /\ swept' = [swept EXCEPT ![turn[c].repo] = TRUE]
  /\ turn' = [turn EXCEPT ![c].pc = "session"]
  /\ UNCHANGED <<runners, built, evicted, returned>>

\* The turn is recorded in its session, by the agent run or by
\* append_cached_turn_to_session; the run raises if the session is gone.
RunTurn(c) ==
  /\ turn[c].pc = "session"
  /\ session' = IF session[c] = NoSession THEN session
                ELSE [session EXCEPT ![c].idle = FALSE]
  /\ turn' = [turn EXCEPT ![c] = NoTurn]
  /\ UNCHANGED <<runners, built, swept, evicted, returned>>

\* The turn fails before that, or its client goes away.
FailTurn(c) ==
  /\ turn[c].pc # "idle"
  /\ turn' = [turn EXCEPT ![c] = NoTurn]
  /\ UNCHANGED <<runners, built, swept, session, evicted, returned>>

\* CHAT_SESSION_TTL_SECONDS go by without a turn of c.
GoIdle(c) ==
  /\ session[c] # NoSession /\ ~session[c].idle
  /\ session' = [session EXCEPT ![c].idle = TRUE]
  /\ UNCHANGED <<runners, built, swept, turn, evicted, returned>>

\* _SESSION_SWEEP_INTERVAL_SECONDS go by since p was swept.
SweepDue(p) ==
  /\ swept[p]
  /\ swept' = [swept EXCEPT ![p] = FALSE]
  /\ UNCHANGED <<runners, built, turn, session, evicted, returned>>

RegistryNext ==
  \/ \E c \in Clients :
       GetRunner(c) \/ Register(c) \/ OpenSession(c) \/ RunTurn(c)
       \/ FailTurn(c) \/ GoIdle(c)
  \/ \E p \in Repos : SweepDue(p)

RegistrySpec == RegistryInit /\ [][RegistryNext]_registryVars

----------------------------------------------------------------------------
(* Properties *)

Registered == {e.runner : e \in ToSet(runners)}

RegistryTypeOK ==
  /\ \A e \in ToSet(runners) : e.repo \in Repos /\ e.runner \in Runner
  /\ built \in 0..MaxBuilds
  /\ swept \in [Repos -> BOOLEAN]
  /\ turn \in [Clients -> [pc : {"idle", "built", "runner", "session"},
                           repo : Repos \cup {""}, runner : 0..MaxBuilds]]
  /\ session \in [Clients -> [runner : 0..MaxBuilds, idle : BOOLEAN]]
  /\ evicted \subseteq Runner
  /\ ToSet(returned) \subseteq Repos /\ Len(returned) <= MaxRepos

\* A conversation lives in the runner that the repo's next turn gets, unless
\* that runner was evicted: no first turn that lost the race to build one goes
\* on with a runner of its own, whose sessions nobody finds again
\* (dependencies.py:133 "two first chats for one repo may both build; one wins").
SessionsAreFound ==
  \A c \in Clients :
    /\ session[c] # NoSession => session[c].runner \in Registered \cup evicted
    /\ turn[c].pc \in {"runner", "session"} =>
         turn[c].runner \in Registered \cup evicted

\* The runners kept are those of the MaxRepos repos used last, in the order of
\* use, one each, whatever was built meanwhile (dependencies.py:94-95).
KeepsMostRecent ==
  returned = [i \in 1..Len(runners) |-> runners[i].repo]

=============================================================================
