------------------------------ MODULE Chunking ------------------------------
(***************************************************************************)
(* The chunk stage of one ingestion: RepoLoader's selection of files, and  *)
(* ASTCodeChunker.chunk with its single-worker subprocess pool.  Files are *)
(* numbered in the order the loader visits them.  The text of a file is    *)
(* abstracted to what the native parser does with it; a batch and the      *)
(* files still to be retried are sets, taken from the lowest number up.    *)
(* Time is counted in PER_FILE_TIMEOUT_SECONDS.                            *)
(*                                                                         *)
(* Two clocks may end the stage.  check_timeout counts from the start of   *)
(* ingest_repo and is looked at between jobs.  Celery's soft time limit    *)
(* counts from the acceptance of the task and is raised once, wherever the *)
(* stage is; a worker with --pool=solo never raises it.  Neither clock     *)
(* says anything of the other.                                             *)
(***************************************************************************)
EXTENDS Naturals, FiniteSets

CONSTANTS
  FileCount,  \* bound: files in the clone
  BatchSize,  \* same-language files sent per subprocess call
  Languages,  \* AST_SUPPORTED_LANGUAGES
  Contents    \* the files a clone may hold, out of Content

File == 1..FileCount

\* How the parser ends on a file that it does not get through.
Bad == {"crash", "hang", "raise"}

\* seen: a link or a path out of the repo, an extension not supported, a file
\* too large or not decodable, or a document; language "other" has no grammar;
\* an "empty" file parses into no chunks.
Content ==
  [seen : {"link", "foreign", "unreadable", "loaded"},
   language : Languages \cup {"other"},
   parse : {"clean", "empty"} \cup Bad]

ASSUME ChunkingAssumption ==
  /\ FileCount \in Nat /\ BatchSize \in Nat \ {0}
  /\ "other" \notin Languages
  /\ Contents \subseteq Content

VARIABLES
  repo,      \* repo[f]: what file f of the clone is
  stage,     \* the next step of the chunk stage
  language,  \* the language being chunked
  waiting,   \* eligible files not sent to the pool yet
  retry,     \* files of a failed batch not retried yet
  pool,      \* the worker of run.pool
  open,      \* pools that were created and not terminated
  recorded,  \* recorded[f]: how often f's chunks were added to run.chunks
  failed,    \* failed[f]: how often f was counted in stats.failed_files
  silent,    \* time since the last progress report, at worst
  late,      \* TRUE once the time that check_timeout allows is spent
  struck,    \* TRUE once the soft time limit was raised
  interrupted  \* files of a job given up because of it, not out of the worker yet

chunkVars == <<repo, stage, language, waiting, retry, pool, open, recorded,
               failed, silent, late, struck, interrupted>>
limitVars == <<late, struck, interrupted>>

Least(S) == CHOOSE f \in S : \A g \in S : f <= g

ChunkInit ==
  /\ repo \in [File -> Contents]
  /\ stage = "start"
  /\ language = "other"
  /\ waiting = {} /\ retry = {}
  /\ pool = "closed" /\ open = 0
  /\ recorded = [f \in File |-> 0] /\ failed = [f \in File |-> 0]
  /\ silent = 0 /\ late = FALSE
  /\ struck = FALSE /\ interrupted = {}

----------------------------------------------------------------------------
(* The files *)

\* scan_repository and build_file_document: what becomes a FileDocument.
IsDocument(c) == c.seen = "loaded"

\* normalize_language and the check against AST_SUPPORTED_LANGUAGES.
Eligible(f) == IsDocument(repo[f]) /\ repo[f].language \in Languages

Of(l, S) == {f \in S : repo[f].language = l}

\* documents_by_language keeps the languages in the order of their first
\* document, and a language is finished before the next one starts.
NextLanguage ==
  IF Of(language, waiting) # {} THEN language ELSE repo[Least(waiting)].language

\* batchify: the next BatchSize documents of the language.
NextBatch ==
  LET docs == Of(NextLanguage, waiting)
  IN  {f \in docs : Cardinality({g \in docs : g < f}) < BatchSize}

----------------------------------------------------------------------------
(* The pool *)

\* How a job on the files S ends in a worker of its own.
OwnEndings(S) ==
  LET bad == {repo[f].parse : f \in S} \cap Bad
  IN  IF bad = {} THEN {"done"} ELSE bad

\* How a job ends behind the interrupted one: the worker may die of that one,
\* or be busy with it for as long as the job is waited for.
QueuedEndings(S) ==
  {"hang"} \cup (OwnEndings(interrupted) \cap {"crash"})
           \cup (IF OwnEndings(interrupted) = {"hang"} THEN {} ELSE OwnEndings(S))

\* How a job on the files b may end.  A dead or busy worker gets nothing done.
\* The soft time limit is an exception like the ones a parser may raise.
Endings(b) ==
  (CASE pool = "dead" -> {"crash"}
     [] pool = "busy" -> {"hang"}
     [] OTHER -> IF interrupted = {} THEN OwnEndings(b) ELSE QueuedEndings(b))
  \cup (IF struck THEN {} ELSE {"soft limit"})

\* The limit is raised before the job is sent, while it is in the worker, or
\* after its result came.
Interrupt(b, how) ==
  /\ struck' = (struck \/ how = "soft limit")
  /\ interrupted' \in IF how = "soft limit" THEN {{}, b} ELSE {{}}

\* Faulty: a job is awaited without a limit.
JobEnds_untimed(b, how) ==
  /\ how \in Endings(b) \ {"hang"}
  /\ silent' = silent + Cardinality(b)
  /\ Interrupt(b, how)

\* get_result_fast: the job ends, its worker is found dead, or the time for
\* its files is over.
JobEnds(b, how) ==
  /\ how \in Endings(b)
  /\ silent' = silent + Cardinality(b)
  /\ Interrupt(b, how)

\* Faulty: the old pool stays in use.
ReplacePool_kept(how, next) ==
  /\ stage' = next
  /\ pool' = IF how = "crash" THEN "dead" ELSE "busy"
  /\ UNCHANGED open

\* replace_pool after a job that ended in "how"; creating the new one can fail.
ReplacePool(how, next) ==
  \/ stage' = next /\ pool' = "idle" /\ UNCHANGED open
  \/ stage' = "raised" /\ pool' = "closed" /\ open' = open - 1

\* What a job that ended in "how" leaves behind: only a dead or stuck worker
\* is replaced.
AfterJob(how, next) ==
  \/ how \in {"crash", "hang"} /\ ReplacePool(how, next)
  \/ how \in {"done", "raise", "soft limit"} /\ stage' = next /\ UNCHANGED <<pool, open>>

\* record_file_result for each file of S; an empty result counts nowhere.
Recorded(S) ==
  [f \in File |-> IF f \in S /\ repo[f].parse # "empty"
                    THEN recorded[f] + 1 ELSE recorded[f]]

----------------------------------------------------------------------------
(* chunk() *)

\* The documents are grouped and the pool is created.
StartChunking ==
  /\ stage = "start"
  /\ \/ stage' = "next" /\ pool' = "idle" /\ open' = 1
     \/ stage' = "failed" /\ UNCHANGED <<pool, open>>
  /\ waiting' = {f \in File : Eligible(f)}
  /\ UNCHANGED <<repo, language, retry, recorded, failed, silent, limitVars>>

\* Faulty: files are recorded as they are built, before the batch is known to
\* be good.
BatchFails_recorded ==
  /\ stage = "next" /\ waiting # {}
  /\ \E how \in {"crash", "hang", "raise", "soft limit"} :
       JobEnds(NextBatch, how) /\ AfterJob(how, "retry")
  /\ language' = NextLanguage
  /\ waiting' = waiting \ NextBatch
  /\ retry' = NextBatch
  /\ recorded' = Recorded({f \in NextBatch : repo[f].parse \notin Bad})
  /\ UNCHANGED <<repo, failed, late>>

\* chunk_batch_with_fallback: one call for the whole batch ...
BatchDone ==
  /\ stage = "next" /\ waiting # {}
  /\ JobEnds(NextBatch, "done") /\ AfterJob("done", "heartbeat")
  /\ language' = NextLanguage
  /\ waiting' = waiting \ NextBatch
  /\ recorded' = Recorded(NextBatch)
  /\ UNCHANGED <<repo, retry, failed, late>>

\* ... which, if it fails in whatever way, records nothing and is made up for
\* file by file.
BatchFails ==
  /\ stage = "next" /\ waiting # {}
  /\ \E how \in {"crash", "hang", "raise", "soft limit"} :
       JobEnds(NextBatch, how) /\ AfterJob(how, "retry")
  /\ language' = NextLanguage
  /\ waiting' = waiting \ NextBatch
  /\ retry' = NextBatch
  /\ UNCHANGED <<repo, recorded, failed, late>>

\* Faulty: progress is reported after the whole batch only.
RetryFile_unreported ==
  /\ stage = "retry"
  /\ LET f == Least(retry)
         next == IF retry = {f} THEN "retry heartbeat" ELSE "retry"
     IN  /\ retry' = retry \ {f}
         /\ \E how \in Endings({f}) :
              /\ JobEnds({f}, how) /\ AfterJob(how, next)
              /\ IF how = "done"
                   THEN recorded' = Recorded({f}) /\ UNCHANGED failed
                   ELSE failed' = [failed EXCEPT ![f] = @ + 1] /\ UNCHANGED recorded
  /\ UNCHANGED <<repo, language, waiting, late>>

\* chunk_one_with_recovery: a file that fails on its own is counted and left.
RetryFile ==
  /\ stage = "retry"
  /\ LET f == Least(retry)
     IN  /\ retry' = retry \ {f}
         /\ \E how \in Endings({f}) :
              /\ JobEnds({f}, how) /\ AfterJob(how, "retry heartbeat")
              /\ IF how = "done"
                   THEN recorded' = Recorded({f}) /\ UNCHANGED failed
                   ELSE failed' = [failed EXCEPT ![f] = @ + 1] /\ UNCHANGED recorded
  /\ UNCHANGED <<repo, language, waiting, late>>

\* on_batch is after_batch: it raises once the budget is spent, or when the
\* report finds the record superseded.
OnBatch(next) ==
  /\ \/ ~late /\ stage' = next /\ silent' = 0
     \/ stage' = "raised" /\ UNCHANGED silent
  /\ UNCHANGED <<repo, language, waiting, retry, pool, open, recorded, failed, limitVars>>

RetryHeartbeat ==
  /\ stage = "retry heartbeat"
  /\ OnBatch(IF retry = {} THEN "heartbeat" ELSE "retry")

Heartbeat == stage = "heartbeat" /\ OnBatch("next")

\* Faulty: there is no finally.
Terminate_normally == open' = IF stage = "raised" THEN open ELSE 0

Terminate == open' = IF pool = "closed" THEN open ELSE open - 1

\* The loop is through, or an exception leaves it; either way "finally" runs.
LeaveChunking ==
  /\ \/ stage = "next" /\ waiting = {} /\ stage' = "chunked"
     \/ stage = "raised" /\ stage' = "failed"
  /\ Terminate
  /\ pool' = "closed"
  /\ UNCHANGED <<repo, language, waiting, retry, recorded, failed, silent, limitVars>>

\* chunk_stage checks the time once more, and raises on a repo with no chunks
\* or with more than MAX_REPO_CHUNKS.
ChunkStageEnds ==
  /\ stage = "chunked"
  /\ stage' \in IF late \/ \A f \in File : recorded[f] = 0
                  THEN {"failed"} ELSE {"returned", "failed"}
  /\ UNCHANGED <<repo, language, waiting, retry, pool, open, recorded, failed,
                 silent, limitVars>>

\* The time that check_timeout allows runs out.
TimeUp ==
  /\ stage \notin {"returned", "failed"}
  /\ ~late
  /\ late' = TRUE
  /\ UNCHANGED <<repo, stage, language, waiting, retry, pool, open, recorded,
                 failed, silent, struck, interrupted>>

\* The soft time limit is raised outside of the handlers that take it for a
\* parser's error: in the loop, a report, or the replacement of a pool.
SoftLimitRaised ==
  /\ stage \in {"next", "retry", "retry heartbeat", "heartbeat"}
  /\ ~struck
  /\ struck' = TRUE
  /\ stage' = "raised"
  /\ UNCHANGED <<repo, language, waiting, retry, pool, open, recorded, failed,
                 silent, late, interrupted>>

ChunkStep ==
  \/ StartChunking \/ BatchDone \/ BatchFails \/ RetryFile \/ RetryHeartbeat
  \/ Heartbeat \/ LeaveChunking \/ ChunkStageEnds

ChunkNext == ChunkStep \/ TimeUp \/ SoftLimitRaised

ChunkSpec == ChunkInit /\ [][ChunkNext]_chunkVars

----------------------------------------------------------------------------
(* Properties *)

Ended == stage \in {"returned", "failed"}

ChunkTypeOK ==
  /\ repo \in [File -> Content]
  /\ stage \in {"start", "next", "retry", "retry heartbeat", "heartbeat",
                "raised", "chunked", "returned", "failed"}
  /\ language \in Languages \cup {"other"}
  /\ waiting \subseteq File /\ retry \subseteq File
  /\ pool \in {"closed", "idle", "busy", "dead"} /\ open \in Nat
  /\ recorded \in [File -> Nat] /\ failed \in [File -> Nat]
  /\ silent \in Nat /\ late \in BOOLEAN
  /\ struck \in BOOLEAN /\ interrupted \subseteq File

\* No file's chunks are added twice, and no file is both chunked and counted as
\* failed, although a failed batch is done again (chunker.py:455-456 "a
\* mid-batch failure can't record files twice").
EachFileOnce == \A f \in File : recorded[f] + failed[f] <= 1

\* What chunk() owes for file f: its chunks, if it has a grammar and parses, or
\* to be counted as failed, if the parser dies, hangs or raises on it.
Accounted(f) ==
  /\ recorded[f] = IF Eligible(f) /\ repo[f].parse = "clean" THEN 1 ELSE 0
  /\ failed[f] = IF Eligible(f) /\ repo[f].parse \in Bad THEN 1 ELSE 0

\* A stage that returns has chunked every supported file and counted as failed
\* the ones that do not parse (chunker.py:492-495, "Chunk every supported
\* document", "Files that crash or hang the parser are counted in
\* stats.failed_files").  TLC refutes it by the soft time limit; what holds is
\* LosesFewFiles.
ReturnsAllGoodFiles == stage = "returned" => \A f \in File : Accounted(f)

\* A file is never lost because of its neighbours, and when the soft time limit
\* is taken for a parser's error (chunker.py:394, 475) it costs at most two
\* files: the one that was being parsed, and the one sent to the worker that
\* was still busy with it.
LosesFewFiles ==
  stage = "returned" =>
    Cardinality({f \in File : ~Accounted(f)}) <= IF struck THEN 2 ELSE 0

\* Between two reports passes at most the time of one batch that hangs and of
\* one file after it: 630 s, less than the staleness threshold of 1020 s
\* (config.py:285-310 "can overrun by one chunking batch").
ReportsInTime == silent <= BatchSize + 1

\* There is one pool at a time, and none is left behind, whatever raised.
NoPoolLeft == open <= 1 /\ (Ended => open = 0)

=============================================================================
