--------------------------- MODULE RepoLifecycle ---------------------------
(***************************************************************************)
(* What the ingestion of one repo promises to its readers (the chat, the   *)
(* frontend), without workers, messages or requests: the life of the       *)
(* status record, and whose code a search of the repo's index can return.  *)
(* Ingestion implements it; Chat builds on it.                             *)
(***************************************************************************)
EXTENDS Naturals

CONSTANT Forced  \* TRUE: a ready repo may be re-ingested (force=True)

VARIABLES
  status,   \* the record's status, "absent" before the first submission
  attempt,  \* its attempt id, 0 while absent; larger ids are fresh ones
  index     \* the attempts whose points are in the index

lifecycleVars == <<status, attempt, index>>

Running == {"cloning", "chunking", "embedding"}

Init == status = "absent" /\ attempt = 0 /\ index = {}

\* A submission starts an attempt: the first, after a failure, for a record
\* that is taken for abandoned, or by force.  The index keeps the old points.
Submit ==
  /\ \/ status \in {"absent", "failed", "pending"} \cup Running
     \/ Forced /\ status = "ready"
  /\ status' = "pending"
  /\ attempt' > attempt
  /\ UNCHANGED index

\* A run reports a stage.  A redelivered message starts over at "cloning".
Report ==
  /\ \/ status \in {"pending"} \cup Running /\ status' = "cloning"
     \/ status \in {"cloning", "chunking"} /\ status' = "chunking"
     \/ status \in {"chunking", "embedding"} /\ status' = "embedding"
  /\ UNCHANGED <<attempt, index>>

\* A run that embeds deletes the old points and adds its own.
Reindex ==
  /\ status = "embedding"
  /\ index' \in SUBSET (index \cup {attempt})
  /\ UNCHANGED <<status, attempt>>

\* Only the attempt's own code is in the index when it becomes ready.
Finish ==
  /\ status = "embedding"
  /\ index = {attempt}
  /\ status' = "ready"
  /\ UNCHANGED <<attempt, index>>

\* The run failed, or it was given up on and a fresh id cuts it off; giving up
\* may come just after the run failed by itself.
Fail ==
  /\ status \in {"pending", "failed"} \cup Running
  /\ status' = "failed"
  /\ attempt' \in Nat /\ attempt' >= attempt
  /\ UNCHANGED index

Next == Submit \/ Report \/ Reindex \/ Finish \/ Fail

Spec == Init /\ [][Next]_lifecycleVars
=============================================================================
