------------------------------ MODULE Tracing ------------------------------
(***************************************************************************)
(* The LangSmith callbacks of the agent: which runs are open at LangSmith, *)
(* and what the bounded table _runs knows of them.  The agent framework is *)
(* external: it calls the callbacks around an invocation, its model calls  *)
(* and the tool calls of one answer, which run concurrently, and it skips  *)
(* the "after" callbacks of what raises or is cancelled.                   *)
(***************************************************************************)
EXTENDS Naturals, Sequences, SequencesExt

CONSTANTS
  Invocations,
  Models,   \* bound: model calls of an invocation, 1..n
  Tools,    \* bound: tool calls an answer can make
  MaxOpen   \* _MAX_OPEN_INVOCATIONS

ASSUME TracingAssumption == MaxOpen \in Nat \ {0} /\ Models \subseteq Nat

VARIABLES
  table,    \* _runs in its order: the entries of the open invocations
  run,      \* run[r]: whether LangSmith has run r open, or ended by whom
  inv,      \* inv[i]: where invocation i is
  asked,    \* asked[i]: the model calls of i so far
  tool,     \* tool[i][k]: where tool call k of i is
  unposted,  \* history: invocations with a run that could not be posted
  overlapped  \* history: invocations with tool calls that ran at the same time

tracingVars == <<table, run, inv, asked, tool, unposted, overlapped>>

AgentRun(i) == [inv |-> i, kind |-> "agent", n |-> 0]
ModelRun(i, n) == [inv |-> i, kind |-> "model", n |-> n]
ToolRun(i, k) == [inv |-> i, kind |-> "tool", n |-> k]
Run ==
  {AgentRun(i) : i \in Invocations}
  \cup {ModelRun(i, n) : i \in Invocations, n \in Models}
  \cup {ToolRun(i, k) : i \in Invocations, k \in Tools}

NewEntry(i) == [inv |-> i, agent |-> FALSE, models |-> <<>>, tools |-> <<>>]

TracingInit ==
  /\ table = <<>>
  /\ run = [r \in Run |-> "none"]
  /\ inv = [i \in Invocations |-> "idle"]
  /\ asked = [i \in Invocations |-> 0]
  /\ tool = [i \in Invocations |-> [k \in Tools |-> "none"]]
  /\ unposted = {} /\ overlapped = {}

----------------------------------------------------------------------------
(* The table *)

Known(i) == \E e \in ToSet(table) : e.inv = i
Entry(i) == CHOOSE e \in ToSet(table) : e.inv = i

RunsOf(e) ==
  (IF e.agent THEN {AgentRun(e.inv)} ELSE {}) \cup ToSet(e.models) \cup ToSet(e.tools)

\* run.end(): a run is to be ended once.
End(r, how) == IF run[r] = "open" THEN how ELSE "twice"

\* Faulty: the oldest entry is forgotten and its runs stay open.
Abandoned_forgotten(i) == {}

\* The runs that invocation_state(i) closes: those of the oldest entry, if i
\* is new and the table is full.
Abandoned(i) ==
  IF ~Known(i) /\ Len(table) = MaxOpen THEN RunsOf(Head(table)) ELSE {}

\* Faulty: the table is not bounded.
invocation_state_unbounded(i) ==
  IF Known(i) THEN table ELSE Append(table, NewEntry(i))

\* The table after invocation_state(i).
invocation_state(i) ==
  IF Known(i) THEN table
  ELSE Append(IF Len(table) = MaxOpen THEN Tail(table) ELSE table, NewEntry(i))

\* i's entry as invocation_state(i) returns it.
Own(i) == IF Known(i) THEN Entry(i) ELSE NewEntry(i)

\* i's entry becomes e.
Put(i, e) ==
  LET t == invocation_state(i)
  IN  table' = [n \in 1..Len(t) |-> IF t[n].inv = i THEN e ELSE t[n]]

\* The runs of Abandoned(i) end, and r is posted, or its post raises.
Post(i, r) ==
  LET closed == [x \in Run |-> IF x \in Abandoned(i) THEN End(x, "ended") ELSE run[x]]
  IN  run' = [closed EXCEPT ![r] = "open"] /\ UNCHANGED unposted
PostFails(i) ==
  /\ run' = [x \in Run |-> IF x \in Abandoned(i) THEN End(x, "ended") ELSE run[x]]
  /\ unposted' = unposted \cup {i}

----------------------------------------------------------------------------
(* The callbacks *)

\* The agent's run is posted before there is an entry for it.  An error is
\* swallowed, and leaves what was done before it.
before_agent_callback(i) ==
  \/ Put(i, [Own(i) EXCEPT !.agent = TRUE]) /\ Post(i, AgentRun(i))
  \/ unposted' = unposted \cup {i} /\ UNCHANGED <<table, run>>

before_model_callback(i, n) ==
  \/ /\ Put(i, [Own(i) EXCEPT !.models = Append(@, ModelRun(i, n))])
     /\ Post(i, ModelRun(i, n))
  \/ Put(i, Own(i)) /\ PostFails(i)

before_tool_callback(i, k) ==
  \/ /\ Put(i, [Own(i) EXCEPT !.tools = Append(@, ToolRun(i, k))])
     /\ Post(i, ToolRun(i, k))
  \/ Put(i, Own(i)) /\ PostFails(i)

\* r gets the output of call "own".
Output(r, own) == run' = [run EXCEPT ![r] = End(r, IF r = own THEN "ended" ELSE "other")]

after_model_callback(i, n) ==
  IF Known(i) /\ Entry(i).models # <<>>
    THEN /\ Put(i, [Own(i) EXCEPT !.models = Front(@)])
         /\ Output(Last(Entry(i).models), ModelRun(i, n))
    ELSE UNCHANGED <<table, run>>

\* Faulty: closes the oldest open tool run.
after_tool_callback_first(i, k) ==
  IF Known(i) /\ Entry(i).tools # <<>>
    THEN /\ Put(i, [Own(i) EXCEPT !.tools = Tail(@)])
         /\ Output(Head(Entry(i).tools), ToolRun(i, k))
    ELSE UNCHANGED <<table, run>>

after_tool_callback(i, k) ==
  IF Known(i) /\ Entry(i).tools # <<>>
    THEN /\ Put(i, [Own(i) EXCEPT !.tools = Front(@)])
         /\ Output(Last(Entry(i).tools), ToolRun(i, k))
    ELSE UNCHANGED <<table, run>>

after_agent_callback(i) ==
  IF Known(i)
    THEN /\ table' = RemoveFirstMatch(table, LAMBDA e : e.inv = i)
         /\ run' = [x \in Run |-> IF x \in RunsOf(Entry(i))
                                    THEN End(x, "ended") ELSE run[x]]
    ELSE UNCHANGED <<table, run>>

----------------------------------------------------------------------------
(* The agent framework *)

StartInvocation(i) ==
  /\ inv[i] = "idle"
  /\ before_agent_callback(i)
  /\ inv' = [inv EXCEPT ![i] = "ready"]
  /\ UNCHANGED <<asked, tool, overlapped>>

CallModel(i) ==
  /\ inv[i] = "ready" /\ asked[i] + 1 \in Models
  /\ before_model_callback(i, asked[i] + 1)
  /\ asked' = [asked EXCEPT ![i] = @ + 1]
  /\ inv' = [inv EXCEPT ![i] = "model"]
  /\ UNCHANGED <<tool, overlapped>>

\* The model answers: for good, or with tool calls.
ModelAnswers(i) ==
  /\ inv[i] = "model"
  /\ after_model_callback(i, asked[i])
  /\ \/ inv' = [inv EXCEPT ![i] = "answered"] /\ UNCHANGED tool
     \/ /\ asked[i] + 1 \in Models
        /\ inv' = [inv EXCEPT ![i] = "tools"]
        /\ \E S \in SUBSET {k \in Tools : tool[i][k] = "none"} \ {{}} :
             tool' = [tool EXCEPT ![i] =
                        [k \in Tools |-> IF k \in S THEN "called" ELSE @[k]]]
  /\ UNCHANGED <<asked, unposted, overlapped>>

StartTool(i, k) ==
  /\ tool[i][k] = "called"
  /\ before_tool_callback(i, k)
  /\ tool' = [tool EXCEPT ![i][k] = "running"]
  /\ overlapped' = IF \E l \in Tools : tool[i][l] = "running"
                     THEN overlapped \cup {i} ELSE overlapped
  /\ UNCHANGED <<inv, asked>>

ToolReturns(i, k) ==
  /\ tool[i][k] = "running"
  /\ after_tool_callback(i, k)
  /\ tool' = [tool EXCEPT ![i][k] = "done"]
  /\ UNCHANGED <<inv, asked, unposted, overlapped>>

ToolsReturned(i) ==
  /\ inv[i] = "tools"
  /\ \A k \in Tools : tool[i][k] \in {"none", "done"}
  /\ inv' = [inv EXCEPT ![i] = "ready"]
  /\ UNCHANGED <<table, run, asked, tool, unposted, overlapped>>

FinishInvocation(i) ==
  /\ inv[i] = "answered"
  /\ after_agent_callback(i)
  /\ inv' = [inv EXCEPT ![i] = "finished"]
  /\ UNCHANGED <<asked, tool, unposted, overlapped>>

\* A call of the invocation raises, and its other tool calls go on by
\* themselves; or the client goes away, and they are cancelled too.
InvocationRaises(i) ==
  /\ inv[i] \in {"ready", "model", "tools"}
  /\ inv' = [inv EXCEPT ![i] = "raised"]
  /\ \/ UNCHANGED tool
     \/ \E k \in Tools : /\ tool[i][k] = "running"
                         /\ tool' = [tool EXCEPT ![i][k] = "raised"]
     \/ tool' = [tool EXCEPT ![i] = [k \in Tools |-> "none"]]
  /\ UNCHANGED <<table, run, asked, unposted, overlapped>>

TracingNext ==
  \E i \in Invocations :
    \/ StartInvocation(i) \/ CallModel(i) \/ ModelAnswers(i) \/ ToolsReturned(i)
    \/ FinishInvocation(i) \/ InvocationRaises(i)
    \/ \E k \in Tools : StartTool(i, k) \/ ToolReturns(i, k)

TracingSpec == TracingInit /\ [][TracingNext]_tracingVars

----------------------------------------------------------------------------
(* Properties *)

TracingTypeOK ==
  /\ \A e \in ToSet(table) : e.inv \in Invocations /\ RunsOf(e) \subseteq Run
  /\ \A m, n \in DOMAIN table : table[m].inv = table[n].inv => m = n
  /\ Len(table) <= MaxOpen
  /\ run \in [Run -> {"none", "open", "ended", "other", "twice"}]
  /\ inv \in [Invocations -> {"idle", "ready", "model", "tools", "answered",
                              "finished", "raised"}]
  /\ asked \in [Invocations -> {0} \cup Models]
  /\ tool \in [Invocations -> [Tools -> {"none", "called", "running", "done", "raised"}]]
  /\ unposted \subseteq Invocations /\ overlapped \subseteq Invocations

\* The bounded table never loses a run it opened, whatever is evicted between
\* two callbacks of an invocation, and no run is ended twice; so an invocation
\* that ends normally leaves none open, also if its entry was evicted halfway
\* and made anew (tracing.py:41-46 '"after" callbacks can close what "before"
\* callbacks opened'; "past the cap the oldest is closed and forgotten").
NoRunLost ==
  \A r \in Run :
    /\ run[r] # "twice"
    /\ run[r] = "open" => \E e \in ToSet(table) : r \in RunsOf(e)

\* A tool run gets the result of another call only where calls of one answer
\* overlap, or a run could not be posted (tracing.py:405 "Close the latest
\* "tool" run with the tool's result").
ResultsMatch ==
  \A r \in Run : run[r] = "other" => r.inv \in unposted \cup overlapped

=============================================================================
