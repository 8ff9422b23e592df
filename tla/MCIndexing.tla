----------------------------- MODULE MCIndexing -----------------------------
(***************************************************************************)
(* TLC instance of what the long stages of an ingestion are made of (the   *)
(* chunk stage, the model calls under the shared budget, the writes into   *)
(* the shared collection) and of the browser that waits for them.  They    *)
(* have no state in common, so steps of one change nothing for another: a  *)
(* behaviour follows one part, chosen at the start, and the others rest.   *)
(***************************************************************************)
EXTENDS Chunking, RequestBudget, QdrantCollection, Frontend, TLC

VARIABLE part  \* the part that this behaviour follows

vars == <<part, chunkVars, budgetVars, collectionVars, frontendVars>>

Document(lang, parse) == [seen |-> "loaded", language |-> lang, parse |-> parse]
NotADocument(seen) == [seen |-> seen, language |-> "python", parse |-> "clean"]

\* Everything the parser meets in one language, files of a second language and
\* of one without a grammar, and one for all files that the loader leaves out.
MCContents ==
  {Document("python", p) : p \in {"clean", "empty"} \cup Bad}
  \cup {Document("go", "clean"), Document("go", "raise"), Document("other", "clean")}
  \cup {NotADocument("link")}

\* Each worker is a process of its own; the turns run in the API's.
MCProcess == [c \in Callers |-> IF c \in Turns THEN "api" ELSE c]

\* The repo whose ingestion failed before the browser is opened.
Retry == CHOOSE r \in Repos : TRUE

Init ==
  /\ part \in {"chunks", "budget", "collection", "browser"}
  /\ IF part = "chunks" THEN ChunkInit
     ELSE ChunkInit /\ \A f \in File : repo[f] = Document("python", "clean")
  /\ BudgetInit
  /\ CollectionInit /\ (part # "collection" => collection = "absent")
  /\ FrontendInit
  /\ \A r \in Repos :
       server[r].status \in IF part # "browser" THEN {"absent"}
                            ELSE IF r = Retry THEN {"failed"} ELSE {"absent", "running"}

Chunks(A) ==
  part = "chunks" /\ A /\ UNCHANGED <<part, budgetVars, collectionVars, frontendVars>>
Budget(A) ==
  part = "budget" /\ A /\ UNCHANGED <<part, chunkVars, collectionVars, frontendVars>>
Collection(A) ==
  part = "collection" /\ A /\ UNCHANGED <<part, chunkVars, budgetVars, frontendVars>>
Browser(A) ==
  part = "browser" /\ A /\ UNCHANGED <<part, chunkVars, budgetVars, collectionVars>>

Next ==
  \/ Chunks(ChunkNext) \/ Budget(BudgetNext) \/ Collection(CollectionNext)
  \/ Browser(FrontendNext)

\* Checks may fail again and again, but not all of them.
Fairness ==
  /\ WF_vars(Chunks(ChunkStep))
  /\ WF_vars(Budget(Tick))
  /\ \A c \in Callers : WF_vars(Budget(CallStep(c)))
  /\ WF_vars(Browser(\E n \in Chain : TimerFires(n)))
  /\ SF_vars(Browser(\E n \in Chain : ServerReads(n)))
  /\ SF_vars(Browser(\E n \in Chain : PollArrives(n)))

Spec == Init /\ [][Next]_vars /\ Fairness

TypeOK == ChunkTypeOK /\ BudgetTypeOK /\ CollectionTypeOK /\ FrontendTypeOK

\* Whatever an ingestion or a turn waits for ends: the chunk stage, as a job
\* that hangs or whose worker died is given up in time (chunker.py:144-177),
\* and every model call with its waits for slots (see CallsEnd).
WaitsEnd == (part = "chunks" ~> Ended) /\ CallsEnd
=============================================================================
