--------------------------- MODULE ChunkingProofs ---------------------------
(***************************************************************************)
(* Proofs about the chunk stage, for any clone, batch size and languages.  *)
(* The argument: a file is waiting, or about to be retried, or settled, and*)
(* nothing is recorded of the first two.  A settled file is lost only when *)
(* the handler of its retry took the soft time limit for an error of the   *)
(* parser, or when its job was queued behind one that the limit had        *)
(* interrupted; the limit strikes once, so each happens once at most.  No  *)
(* report is late (ReportsInTime) because a batch has at most BatchSize    *)
(* files and only one file of a failed batch is retried between two        *)
(* reports.                                                                *)
(***************************************************************************)
EXTENDS Chunking, FiniteSetTheorems, WellFoundedInduction, TLAPS

Untouched(f) == recorded[f] = 0 /\ failed[f] = 0

FilesTyped ==
  /\ repo \in [File -> Content]
  /\ recorded \in [File -> Nat] /\ failed \in [File -> Nat]
  /\ waiting \in SUBSET File /\ retry \in SUBSET File
  /\ late \in BOOLEAN

FilesInv ==
  /\ FilesTyped
  /\ waiting \cap retry = {}
  /\ \A f \in waiting \cup retry : Eligible(f) /\ Untouched(f)
  /\ stage = "start" => retry = {} /\ \A f \in File : Untouched(f)
  /\ EachFileOnce

\* The files that are settled, and wrongly.
Lost == {f \in File \ (waiting \cup retry) : ~Accounted(f)}

\* How many files are lost, by what the soft time limit has done so far.
LostInv ==
  /\ struck \in BOOLEAN /\ interrupted \in SUBSET File
  /\ ~struck => interrupted = {}
  /\ stage = "start" => ~struck
  /\ stage # "start" =>
       /\ ~struck => Lost = {}
       /\ interrupted # {} => \E x : Lost \subseteq {x}
       /\ \E x, y : Lost \subseteq {x, y}

\* Which stages have files left.
StageInv ==
  /\ stage = "retry" => retry # {}
  /\ stage \in {"next", "heartbeat", "chunked", "returned"} => retry = {}
  /\ stage \in {"chunked", "returned"} => waiting = {}
  /\ stage = "returned" => ~late

PoolInv ==
  /\ pool \in {"closed", "idle"}
  /\ open = IF pool = "closed" THEN 0 ELSE 1
  /\ stage \in {"next", "retry", "retry heartbeat", "heartbeat"} => pool # "closed"
  /\ stage \in {"start", "chunked", "returned", "failed"} => pool = "closed"

ChunkInv == FilesInv /\ StageInv /\ PoolInv /\ LostInv

----------------------------------------------------------------------------
(* The lowest file, and the next batch *)

\* Every set of natural numbers has a least member.
LEMMA LeastNatural ==
  ASSUME NEW S \in SUBSET Nat, S # {}
  PROVE  \E n \in S : \A m \in S : n <= m
<1> DEFINE R == OpToRel(<, Nat)
<1>1. IsWellFoundedOn(R, Nat)
  BY NatLessThanWellFounded
<1>2. ASSUME NEW x \in Nat, NEW y \in Nat, y < x
      PROVE  <<y, x>> \in R
  BY <1>2 DEF OpToRel
<1> HIDE DEF R
<1>3. PICK x \in S : \A y \in S : ~ (<<y, x>> \in R)
  BY <1>1, WFMin
<1>4. ASSUME NEW m \in S
      PROVE  x <= m
  <2>1. ~ (m < x)
    BY <1>2, <1>3
  <2> QED BY <2>1
<1> QED BY <1>4

\* Least(S) is the least member of a set of files.
LEMMA LeastFile ==
  ASSUME NEW S \in SUBSET File, S # {}
  PROVE  Least(S) \in S /\ \A g \in S : Least(S) <= g
<1>1. \E n \in S : \A m \in S : n <= m
  BY LeastNatural, ChunkingAssumption DEF File
<1> QED BY <1>1 DEF Least

\* The next batch is taken from the files that wait, and holds one at least.
LEMMA BatchWaits ==
  ASSUME waiting \in SUBSET File, waiting # {}
  PROVE  NextBatch \in SUBSET waiting /\ NextBatch # {}
<1> DEFINE docs == Of(NextLanguage, waiting)
<1>1. docs \in SUBSET waiting
  BY DEF Of
<1>2. docs # {}
  BY LeastFile DEF Of, NextLanguage
<1>3. NextBatch = {f \in docs : Cardinality({g \in docs : g < f}) < BatchSize}
  BY DEF NextBatch
<1> HIDE DEF docs
<1>4. docs \in SUBSET File
  BY <1>1
<1> DEFINE first == Least(docs)
<1>5. first \in docs /\ \A g \in docs : first <= g
  BY <1>2, <1>4, LeastFile
<1> HIDE DEF first
<1>6. ASSUME NEW g \in docs
      PROVE  ~ (g < first)
  <2>1. first \in Nat /\ g \in Nat /\ first <= g
    BY <1>4, <1>5, ChunkingAssumption DEF File
  <2> QED BY <2>1
<1>7. {g \in docs : g < first} = {}
  BY <1>6
<1>8. Cardinality({g \in docs : g < first}) < BatchSize
  BY <1>7, FS_EmptySet, ChunkingAssumption
<1>9. first \in NextBatch
  BY <1>3, <1>5, <1>8
<1> QED BY <1>1, <1>3, <1>9

\* A worker is idle when it gets a job, so a job that is done had no bad file;
\* one that failed had, unless the soft time limit interrupted it or the one
\* before it.
LEMMA HonestEnd ==
  ASSUME PoolInv, pool # "closed", NEW b, NEW how \in Endings(b)
  PROVE  /\ how = "done" => \A f \in b : repo[f].parse \notin Bad
         /\ how \notin {"done", "soft limit"} /\ interrupted = {} =>
              \E f \in b : repo[f].parse \in Bad
         /\ how = "soft limit" => ~struck
<1>1. pool = "idle"
  BY DEF PoolInv
<1>2. how \in (IF interrupted = {} THEN OwnEndings(b) ELSE QueuedEndings(b))
              \cup (IF struck THEN {} ELSE {"soft limit"})
  BY <1>1 DEF Endings
<1>3. "done" \notin Bad /\ "soft limit" \notin Bad
  BY DEF Bad
<1>4. ASSUME NEW S, NEW e \in OwnEndings(S)
      PROVE  /\ e = "done" => \A f \in S : repo[f].parse \notin Bad
             /\ e # "done" => e \in Bad /\ \E f \in S : repo[f].parse \in Bad
  BY <1>3, <1>4 DEF OwnEndings
<1>5. QueuedEndings(b) \subseteq {"hang", "crash"} \cup OwnEndings(b)
  BY DEF QueuedEndings
<1>6. how = "done" => how \in OwnEndings(b)
  BY <1>2, <1>5
<1>7. how # "soft limit" /\ interrupted = {} => how \in OwnEndings(b)
  BY <1>2
<1>8. how = "soft limit" => ~struck
  <2>1. "soft limit" \notin OwnEndings(b)
    BY <1>3, <1>4, "soft limit" # "done"
  <2>2. "soft limit" \notin {"hang", "crash"}
    OBVIOUS
  <2> QED BY <1>2, <1>5, <2>1, <2>2
<1> QED BY <1>4, <1>6, <1>7, <1>8

----------------------------------------------------------------------------
(* The files *)

LEMMA FilesInit == ChunkInit => FilesInv
<1> SUFFICES ASSUME ChunkInit PROVE FilesInv
  OBVIOUS
<1>1. FilesTyped
  BY ChunkingAssumption DEF ChunkInit, FilesTyped
<1>2. \A f \in File : Untouched(f)
  BY DEF ChunkInit, Untouched
<1>3. EachFileOnce
  BY <1>2 DEF EachFileOnce, Untouched
<1> QED BY <1>1, <1>2, <1>3 DEF FilesInv, ChunkInit

\* A step that takes no file and finishes none.
LEMMA FilesRest ==
  ASSUME FilesInv,
         UNCHANGED <<repo, recorded, failed, waiting, retry>>,
         late' \in BOOLEAN,
         stage' = stage \/ (stage # "start" /\ stage' # "start")
  PROVE  FilesInv'
<1>1. FilesTyped'
  BY DEF FilesInv, FilesTyped
<1>2. (waiting \cap retry = {})' /\ EachFileOnce'
  BY DEF FilesInv, EachFileOnce
<1>3. (\A f \in waiting \cup retry : Eligible(f) /\ Untouched(f))'
  BY DEF FilesInv, Eligible, Untouched
<1>4. (stage = "start" => retry = {} /\ \A f \in File : Untouched(f))'
  BY DEF FilesInv, Untouched
<1> QED BY <1>1, <1>2, <1>3, <1>4 DEF FilesInv

LEMMA FilesStart ==
  ASSUME FilesInv, StartChunking
  PROVE  FilesInv'
<1>1. /\ UNCHANGED <<repo, recorded, failed, retry, late>>
      /\ stage = "start" /\ stage' # "start"
      /\ waiting' = {f \in File : Eligible(f)}
  BY DEF StartChunking, limitVars
<1>2. retry = {} /\ \A f \in File : Untouched(f)
  BY <1>1 DEF FilesInv
<1>3. FilesTyped'
  BY <1>1 DEF FilesInv, FilesTyped
<1>4. (waiting \cap retry = {})' /\ EachFileOnce'
  BY <1>1, <1>2 DEF FilesInv, EachFileOnce
<1>5. (\A f \in waiting \cup retry : Eligible(f) /\ Untouched(f))'
  BY <1>1, <1>2 DEF Eligible, Untouched
<1> QED BY <1>1, <1>3, <1>4, <1>5 DEF FilesInv

\* Nothing is lost before the first job.
LEMMA LostStart ==
  ASSUME FilesInv, LostInv, StartChunking
  PROVE  LostInv'
<1>1. /\ UNCHANGED <<repo, recorded, failed, retry, struck, interrupted>>
      /\ stage = "start"
      /\ waiting' = {f \in File : Eligible(f)}
  BY DEF StartChunking, limitVars
<1>2. retry = {} /\ \A f \in File : Untouched(f)
  BY <1>1 DEF FilesInv
<1>3. (\A f \in File \ (waiting \cup retry) : Accounted(f))'
  BY <1>1, <1>2 DEF Accounted, Eligible, Untouched
<1>4. Lost' = {}
  BY <1>3 DEF Lost
<1> QED BY <1>1, <1>4 DEF LostInv

\* A step by which no file gets lost.
LEMMA LostRest ==
  ASSUME LostInv, Lost' \subseteq Lost,
         stage' = stage \/ (stage # "start" /\ stage' # "start"),
         \/ UNCHANGED <<struck, interrupted>>
         \/ stage # "start" /\ struck' = struck /\ interrupted' = {}
         \/ stage' # "start" /\ struck' = TRUE /\ interrupted' = interrupted
  PROVE  LostInv'
<1>1. /\ struck' \in BOOLEAN /\ (~struck' => ~struck)
      /\ interrupted' \in SUBSET File /\ (~struck' => interrupted' = {})
      /\ stage' = "start" => ~struck'
  <2>1. CASE UNCHANGED <<struck, interrupted>>
    BY <2>1 DEF LostInv
  <2>2. CASE stage # "start" /\ struck' = struck /\ interrupted' = {}
    BY <2>2 DEF LostInv
  <2>3. CASE stage' # "start" /\ struck' = TRUE /\ interrupted' = interrupted
    BY <2>3 DEF LostInv
  <2> QED BY <2>1, <2>2, <2>3
<1>2. CASE stage = "start"
  <2>1. stage' = "start"
    BY <1>2
  <2> QED BY <1>1, <2>1 DEF LostInv
<1>3. CASE stage # "start"
  <2>1. ~struck' => Lost' = {}
    BY <1>1, <1>3 DEF LostInv
  <2>2. (\E x, y : Lost \subseteq {x, y})'
    <3>1. PICK x, y : Lost \subseteq {x, y}
      BY <1>3 DEF LostInv
    <3>2. Lost' \subseteq {x, y}
      BY <3>1
    <3> QED BY <3>2
  <2>3. (interrupted # {} => \E x : Lost \subseteq {x})'
    <3> SUFFICES ASSUME interrupted' # {} PROVE \E x : Lost' \subseteq {x}
      OBVIOUS
    <3>1. interrupted # {}
      OBVIOUS
    <3>2. PICK x : Lost \subseteq {x}
      BY <1>3, <3>1 DEF LostInv
    <3>3. Lost' \subseteq {x}
      BY <3>2
    <3> QED BY <3>3
  <2> QED BY <1>1, <2>1, <2>2, <2>3 DEF LostInv
<1> QED BY <1>2, <1>3

\* What record_file_result does to a file that nothing was recorded of.
LEMMA RecordedOf ==
  ASSUME FilesTyped, NEW S, NEW f \in File
  PROVE  /\ f \in S /\ recorded[f] = 0 =>
              Recorded(S)[f] = IF repo[f].parse = "empty" THEN 0 ELSE 1
         /\ f \notin S => Recorded(S)[f] = recorded[f]
         /\ Recorded(S) \in [File -> Nat]
BY DEF FilesTyped, Recorded

\* The ways a file may parse.
LEMMA ParseOf ==
  ASSUME FilesTyped, NEW f \in File
  PROVE  /\ repo[f].parse \in {"clean", "empty"} \cup Bad
         /\ "clean" \notin Bad /\ "empty" \notin Bad
<1>1. repo[f] \in Content
  BY DEF FilesTyped
<1> QED BY <1>1 DEF Content, Bad

LEMMA FilesBatchDone ==
  ASSUME FilesInv, PoolInv, LostInv, BatchDone
  PROVE  FilesInv' /\ LostInv'
<1> DEFINE B == NextBatch
<1>1. /\ UNCHANGED <<repo, failed, retry, late>>
      /\ stage = "next" /\ waiting # {}
      /\ waiting' = waiting \ B
      /\ recorded' = Recorded(B)
      /\ "done" \in Endings(B)
      /\ struck' = struck /\ interrupted' = {}
  BY DEF BatchDone, JobEnds, Interrupt, LostInv
<1>2. stage' # "start"
  BY DEF BatchDone, AfterJob, ReplacePool
<1>3. FilesTyped /\ B \in SUBSET waiting /\ B \in SUBSET File
  BY <1>1, BatchWaits DEF FilesInv, FilesTyped
<1>4. pool # "closed"
  BY <1>1 DEF PoolInv
<1>5. \A f \in B : repo[f].parse \notin Bad
  BY <1>1, <1>4, HonestEnd
<1> HIDE DEF B
<1>6. FilesTyped'
  <2>1. recorded' \in [File -> Nat]
    BY <1>1, <1>3, RecordedOf, Zenon DEF Recorded, FilesTyped
  <2> QED BY <1>1, <1>3, <2>1 DEF FilesTyped
<1>7. (waiting \cap retry = {})'
  BY <1>1 DEF FilesInv
<1>8. ASSUME NEW f \in File, f \in B
      PROVE  /\ recorded'[f] = IF repo[f].parse = "empty" THEN 0 ELSE 1
             /\ failed'[f] = 0 /\ Eligible(f)
  <2>1. Untouched(f) /\ Eligible(f)
    BY <1>3, <1>8 DEF FilesInv
  <2> QED BY <1>1, <1>3, <1>8, <2>1, RecordedOf DEF Untouched
<1>9. ASSUME NEW f \in File, f \notin B
      PROVE  recorded'[f] = recorded[f] /\ failed'[f] = failed[f]
  BY <1>1, <1>3, <1>9, RecordedOf
<1>10. (\A f \in waiting \cup retry : Eligible(f) /\ Untouched(f))'
  <2> SUFFICES ASSUME NEW f \in (waiting \ B) \cup retry
               PROVE  (Eligible(f) /\ Untouched(f))'
    BY <1>1
  <2>1. f \in File /\ f \notin B /\ Eligible(f) /\ Untouched(f)
    BY <1>3 DEF FilesInv, FilesTyped
  <2> QED BY <2>1, <1>1, <1>9 DEF Eligible, Untouched
<1>11. EachFileOnce'
  <2> SUFFICES ASSUME NEW f \in File PROVE recorded'[f] + failed'[f] <= 1
    BY DEF EachFileOnce
  <2>1. CASE f \in B
    BY <2>1, <1>8
  <2>2. CASE f \notin B
    BY <2>2, <1>9 DEF FilesInv, EachFileOnce
  <2> QED BY <2>1, <2>2
<1>12. Lost' \subseteq Lost
  <2> SUFFICES ASSUME NEW f \in File, f \notin (waiting \ B) \cup retry,
                      f \notin B => Accounted(f)
               PROVE  Accounted(f)'
    BY <1>1, <1>3 DEF Lost
  <2>1. CASE f \in B
    <3>1. repo[f].parse \in {"clean", "empty"} /\ repo[f].parse \notin Bad
      BY <1>3, <1>5, <2>1, ParseOf
    <3>2. "clean" # "empty"
      OBVIOUS
    <3> QED BY <1>1, <1>8, <2>1, <3>1 DEF Accounted, Eligible
  <2>2. CASE f \notin B
    BY <1>1, <1>9, <2>2 DEF Accounted, Eligible
  <2> QED BY <2>1, <2>2
<1>13. LostInv'
  BY <1>1, <1>2, <1>12, LostRest
<1> QED BY <1>2, <1>6, <1>7, <1>10, <1>11, <1>13 DEF FilesInv

\* A batch that failed goes over to the files to be retried.
LEMMA FilesBatchFails ==
  ASSUME FilesInv, StageInv, PoolInv, LostInv, BatchFails
  PROVE  FilesInv' /\ LostInv'
<1> DEFINE B == NextBatch
<1>1. /\ UNCHANGED <<repo, recorded, failed, late>>
      /\ stage = "next" /\ waiting # {}
      /\ waiting' = waiting \ B /\ retry' = B
  BY DEF BatchFails
<1>2. stage' # "start"
  BY DEF BatchFails, AfterJob, ReplacePool
<1>3. B \in SUBSET waiting
  BY <1>1, BatchWaits DEF FilesInv, FilesTyped
<1> HIDE DEF B
<1>4. (waiting \cup retry)' = waiting \cup retry
  BY <1>1, <1>3 DEF StageInv
<1>5. FilesTyped'
  BY <1>1, <1>3 DEF FilesInv, FilesTyped
<1>6. (waiting \cap retry = {})' /\ EachFileOnce'
  BY <1>1 DEF FilesInv, EachFileOnce
<1>7. (\A f \in waiting \cup retry : Eligible(f) /\ Untouched(f))'
  BY <1>1, <1>4 DEF FilesInv, Eligible, Untouched
<1>8. Lost' = Lost
  BY <1>1, <1>4 DEF Lost, Accounted, Eligible
<1>9. PICK how : how \in Endings(B) /\ Interrupt(B, how)
  BY DEF BatchFails, JobEnds, B
<1>10. LostInv'
  <2>1. CASE how = "soft limit"
    <3>1. ~struck
      BY <1>1, <1>9, <2>1, HonestEnd DEF PoolInv
    <3>2. struck' = TRUE /\ interrupted' \in {{}, B} /\ B \in SUBSET File
      BY <1>3, <1>9, <2>1 DEF Interrupt, FilesInv, FilesTyped
    <3>3. Lost' = {}
      BY <1>1, <1>8, <3>1 DEF LostInv
    <3> QED BY <1>2, <3>2, <3>3 DEF LostInv
  <2>2. CASE how # "soft limit"
    <3>1. struck' = struck /\ interrupted' = {}
      BY <1>9, <2>2 DEF Interrupt, LostInv
    <3> QED BY <1>1, <1>2, <1>8, <3>1, LostRest
  <2> QED BY <2>1, <2>2
<1> QED BY <1>2, <1>5, <1>6, <1>7, <1>10 DEF FilesInv

LEMMA FilesRetryFile ==
  ASSUME FilesInv, StageInv, PoolInv, LostInv, RetryFile
  PROVE  FilesInv' /\ LostInv'
<1>g. PICK g : g = Least(retry)
  OBVIOUS
<1>1. /\ UNCHANGED <<repo, waiting, late>>
      /\ stage = "retry" /\ retry' = retry \ {g}
  BY <1>g DEF RetryFile
<1>2. PICK how \in Endings({g}) :
        /\ AfterJob(how, "retry heartbeat") /\ Interrupt({g}, how)
        /\ IF how = "done"
             THEN recorded' = Recorded({g}) /\ UNCHANGED failed
             ELSE failed' = [failed EXCEPT ![g] = @ + 1] /\ UNCHANGED recorded
  BY <1>g DEF RetryFile, JobEnds
<1>3. stage' # "start"
  BY <1>2 DEF AfterJob, ReplacePool
<1>4. FilesTyped /\ g \in retry /\ g \in File
  BY <1>1, <1>g, LeastFile DEF FilesInv, FilesTyped, StageInv
<1>5. Eligible(g) /\ Untouched(g)
  BY <1>4 DEF FilesInv
<1>6. pool # "closed"
  BY <1>1 DEF PoolInv
<1>7. /\ how = "done" => repo[g].parse \notin Bad
      /\ how \notin {"done", "soft limit"} /\ interrupted = {} => repo[g].parse \in Bad
      /\ how = "soft limit" => ~struck
  BY <1>6, HonestEnd
<1>d. how = "done" => recorded' = Recorded({g}) /\ failed' = failed
  BY <1>2
<1>e. how # "done" => recorded' = recorded /\ failed' = [failed EXCEPT ![g] = @ + 1]
  BY <1>2
<1>8. ASSUME NEW f \in File, f # g
      PROVE  recorded'[f] = recorded[f] /\ failed'[f] = failed[f]
  <2>1. CASE how = "done"
    <3>1. Recorded({g})[f] = recorded[f]
      BY <1>4, <1>8, RecordedOf
    <3> QED BY <2>1, <3>1, <1>d
  <2>2. CASE how # "done"
    BY <2>2, <1>e, <1>4, <1>8 DEF FilesTyped
  <2> QED BY <2>1, <2>2
<1>9. /\ recorded' \in [File -> Nat] /\ failed' \in [File -> Nat]
      /\ recorded'[g] + failed'[g] <= 1
      /\ how = "done" \/ (how # "soft limit" /\ interrupted = {}) => Accounted(g)'
  <2>1. CASE how = "done"
    <3>1. /\ recorded'[g] = IF repo[g].parse = "empty" THEN 0 ELSE 1
          /\ failed'[g] = 0
      <4>1. Recorded({g})[g] = IF repo[g].parse = "empty" THEN 0 ELSE 1
        BY <1>4, <1>5, RecordedOf DEF Untouched
      <4> QED BY <1>d, <1>5, <2>1, <4>1 DEF Untouched
    <3>2. Accounted(g)'
      <4>1. repo[g].parse \in {"clean", "empty"} /\ repo[g].parse \notin Bad
        BY <1>4, <1>7, <2>1, ParseOf
      <4>2. "clean" # "empty"
        OBVIOUS
      <4>3. Eligible(g)' /\ repo' = repo
        BY <1>1, <1>5 DEF Eligible
      <4> QED BY <3>1, <4>1, <4>2, <4>3 DEF Accounted
    <3>3. recorded' \in [File -> Nat] /\ failed' \in [File -> Nat]
      BY <1>d, <1>4, <2>1, RecordedOf DEF FilesTyped
    <3>4. recorded'[g] + failed'[g] <= 1
      BY <3>1
    <3> QED BY <2>1, <3>2, <3>3, <3>4
  <2>2. CASE how # "done"
    <3>1. recorded'[g] = 0 /\ failed'[g] = 1
      BY <1>e, <1>4, <1>5, <2>2 DEF Untouched, FilesTyped
    <3>2. ASSUME how # "soft limit", interrupted = {} PROVE Accounted(g)'
      <4>1. repo[g].parse \in Bad /\ repo[g].parse # "clean"
        BY <1>4, <1>7, <2>2, <3>2, ParseOf
      <4>2. Eligible(g)' /\ repo' = repo
        BY <1>1, <1>5 DEF Eligible
      <4> QED BY <3>1, <4>1, <4>2 DEF Accounted
    <3>3. recorded' \in [File -> Nat] /\ failed' \in [File -> Nat]
      BY <1>e, <1>4, <2>2 DEF FilesTyped
    <3>4. recorded'[g] + failed'[g] <= 1
      BY <3>1
    <3> QED BY <2>2, <3>2, <3>3, <3>4
  <2> QED BY <2>1, <2>2
<1>10. FilesTyped'
  BY <1>1, <1>4, <1>9 DEF FilesTyped
<1>11. (waiting \cap retry = {})'
  BY <1>1 DEF FilesInv
<1>12. (\A f \in waiting \cup retry : Eligible(f) /\ Untouched(f))'
  <2> SUFFICES ASSUME NEW f \in waiting \cup (retry \ {g})
               PROVE  (Eligible(f) /\ Untouched(f))'
    BY <1>1
  <2>1. f \in File /\ Eligible(f) /\ Untouched(f)
    BY <1>4 DEF FilesInv, FilesTyped
  <2>2. f # g
    BY <1>4 DEF FilesInv
  <2> QED BY <2>1, <2>2, <1>1, <1>8 DEF Eligible, Untouched
<1>13. EachFileOnce'
  <2> SUFFICES ASSUME NEW f \in File PROVE recorded'[f] + failed'[f] <= 1
    BY DEF EachFileOnce
  <2>1. CASE f # g
    BY <2>1, <1>8 DEF FilesInv, EachFileOnce
  <2> QED BY <2>1, <1>9
<1>14. Lost' \subseteq Lost \cup {g}
  <2> SUFFICES ASSUME NEW f \in File, f # g, f \notin waiting \cup retry, Accounted(f)
               PROVE  Accounted(f)'
    BY <1>1 DEF Lost
  <2> QED BY <1>1, <1>8 DEF Accounted, Eligible
<1>15. how = "done" \/ (how # "soft limit" /\ interrupted = {}) => Lost' \subseteq Lost
  <2>1. Accounted(g)' => g \notin Lost'
    BY DEF Lost
  <2> QED BY <1>9, <1>14, <2>1
<1>16. LostInv'
  <2>1. CASE how = "soft limit"
    <3>1. Lost' \subseteq {g}
      BY <1>1, <1>7, <1>14, <2>1 DEF LostInv
    <3>2. struck' = TRUE /\ interrupted' \in {{}, {g}}
      BY <1>2, <2>1 DEF Interrupt
    <3>3. (\E x : Lost \subseteq {x})' /\ (\E x, y : Lost \subseteq {x, y})'
      BY <3>1
    <3> QED BY <1>3, <1>4, <3>2, <3>3 DEF LostInv
  <2>2. CASE how # "soft limit"
    <3>1. struck' = struck /\ interrupted' = {}
      BY <1>2, <2>2 DEF Interrupt, LostInv
    <3>2. CASE how = "done" \/ interrupted = {}
      BY <1>1, <1>3, <1>15, <2>2, <3>1, <3>2, LostRest
    <3>3. CASE interrupted # {}
      <4>1. PICK x : Lost \subseteq {x}
        BY <1>1, <3>3 DEF LostInv
      <4>2. Lost' \subseteq {x, g}
        BY <1>14, <4>1
      <4>3. (\E y, z : Lost \subseteq {y, z})'
        BY <4>2
      <4>4. struck
        BY <3>3 DEF LostInv
      <4> QED BY <1>3, <3>1, <4>3, <4>4 DEF LostInv
    <3> QED BY <3>2, <3>3
  <2> QED BY <2>1, <2>2
<1> QED BY <1>3, <1>10, <1>11, <1>12, <1>13, <1>16 DEF FilesInv

----------------------------------------------------------------------------
(* The stages and the pool *)

LEMMA StageStep ==
  ASSUME FilesInv, StageInv, ChunkNext
  PROVE  StageInv'
<1>1. CASE StartChunking
  BY <1>1 DEF StartChunking, StageInv, FilesInv
<1>2. CASE BatchDone
  <2>1. stage = "next" /\ retry' = retry /\ stage' = "heartbeat"
    BY <1>2 DEF BatchDone, AfterJob
  <2> QED BY <2>1 DEF StageInv
<1>3. CASE BatchFails
  <2>1. stage' \in {"retry", "raised"}
    BY <1>3 DEF BatchFails, AfterJob, ReplacePool
  <2>2. retry' # {}
    BY <1>3, BatchWaits DEF BatchFails, FilesInv, FilesTyped
  <2> QED BY <2>1, <2>2 DEF StageInv
<1>4. CASE RetryFile
  <2>1. stage' \in {"retry heartbeat", "raised"}
    BY <1>4 DEF RetryFile, AfterJob, ReplacePool
  <2> QED BY <2>1 DEF StageInv
<1>5. CASE RetryHeartbeat
  BY <1>5 DEF RetryHeartbeat, OnBatch, StageInv
<1>6. CASE Heartbeat
  BY <1>6 DEF Heartbeat, OnBatch, StageInv
<1>7. CASE LeaveChunking
  BY <1>7 DEF LeaveChunking, StageInv
<1>8. CASE ChunkStageEnds
  BY <1>8 DEF ChunkStageEnds, StageInv, limitVars
<1>9. CASE TimeUp
  BY <1>9 DEF TimeUp, StageInv
<1>10. CASE SoftLimitRaised
  BY <1>10 DEF SoftLimitRaised, StageInv
<1> QED
  BY <1>1, <1>2, <1>3, <1>4, <1>5, <1>6, <1>7, <1>8, <1>9, <1>10 DEF ChunkNext, ChunkStep

\* Taking one pool of one leaves none.
LEMMA LastPool == 1 - 1 = 0
OBVIOUS

\* A job leaves an idle worker, if it leaves a pool at all.
LEMMA PoolJob ==
  ASSUME PoolInv, pool # "closed", NEW how,
         NEW next \in {"retry", "retry heartbeat", "heartbeat"},
         AfterJob(how, next)
  PROVE  PoolInv'
<1>1. CASE how \in {"crash", "hang"} /\ ReplacePool(how, next)
  <2>1. open = 1
    BY DEF PoolInv
  <2>2. \/ stage' = next /\ pool' = "idle" /\ open' = 1
        \/ stage' = "raised" /\ pool' = "closed" /\ open' = 0
    <3>1. \/ stage' = next /\ pool' = "idle" /\ open' = open
          \/ stage' = "raised" /\ pool' = "closed" /\ open' = open - 1
      BY <1>1 DEF ReplacePool
    <3> QED BY <2>1, <3>1, LastPool
  <2> QED BY <2>2 DEF PoolInv
<1>2. CASE how \in {"done", "raise", "soft limit"} /\ stage' = next /\ UNCHANGED <<pool, open>>
  BY <1>2 DEF PoolInv
<1> QED BY <1>1, <1>2 DEF AfterJob

LEMMA PoolStep ==
  ASSUME PoolInv, ChunkNext
  PROVE  PoolInv'
<1>1. CASE StartChunking
  BY <1>1 DEF StartChunking, PoolInv
<1>2. CASE BatchDone
  <2>1. pool # "closed" /\ AfterJob("done", "heartbeat")
    BY <1>2 DEF BatchDone, PoolInv
  <2> QED BY <2>1, PoolJob
<1>3. CASE BatchFails
  <2>1. PICK how : AfterJob(how, "retry")
    BY <1>3 DEF BatchFails
  <2>2. pool # "closed"
    BY <1>3 DEF BatchFails, PoolInv
  <2> QED BY <2>1, <2>2, PoolJob
<1>4. CASE RetryFile
  <2>1. PICK how : AfterJob(how, "retry heartbeat")
    BY <1>4 DEF RetryFile
  <2>2. pool # "closed"
    BY <1>4 DEF RetryFile, PoolInv
  <2> QED BY <2>1, <2>2, PoolJob
<1>5. CASE RetryHeartbeat
  BY <1>5 DEF RetryHeartbeat, OnBatch, PoolInv
<1>6. CASE Heartbeat
  BY <1>6 DEF Heartbeat, OnBatch, PoolInv
<1>7. CASE LeaveChunking
  <2>1. stage' \in {"chunked", "failed"} /\ pool' = "closed"
    BY <1>7 DEF LeaveChunking
  <2>2. open' = 0
    <3>1. open' = IF pool = "closed" THEN open ELSE open - 1
      BY <1>7 DEF LeaveChunking, Terminate
    <3>2. CASE pool = "closed"
      BY <3>1, <3>2 DEF PoolInv
    <3>3. CASE pool # "closed"
      <4>1. open = 1
        BY <3>3 DEF PoolInv
      <4> QED BY <3>1, <3>3, <4>1, LastPool
    <3> QED BY <3>2, <3>3
  <2> QED BY <2>1, <2>2 DEF PoolInv
<1>8. CASE ChunkStageEnds
  BY <1>8 DEF ChunkStageEnds, PoolInv
<1>9. CASE TimeUp
  BY <1>9 DEF TimeUp, PoolInv
<1>10. CASE SoftLimitRaised
  BY <1>10 DEF SoftLimitRaised, PoolInv
<1> QED
  BY <1>1, <1>2, <1>3, <1>4, <1>5, <1>6, <1>7, <1>8, <1>9, <1>10 DEF ChunkNext, ChunkStep

LEMMA FilesStep ==
  ASSUME ChunkInv, ChunkNext
  PROVE  FilesInv' /\ LostInv'
<1>i. FilesInv /\ StageInv /\ PoolInv /\ LostInv
  BY DEF ChunkInv
<1>t. late \in BOOLEAN
  BY <1>i DEF FilesInv, FilesTyped
<1>0. ASSUME UNCHANGED <<repo, recorded, failed, waiting, retry>>
      PROVE  Lost' = Lost
  BY <1>0 DEF Lost, Accounted, Eligible
<1>1. CASE StartChunking
  BY <1>1, <1>i, FilesStart, LostStart
<1>2. CASE BatchDone
  BY <1>2, <1>i, FilesBatchDone
<1>3. CASE BatchFails
  BY <1>3, <1>i, FilesBatchFails
<1>4. CASE RetryFile
  BY <1>4, <1>i, FilesRetryFile
<1>5. CASE \/ RetryHeartbeat \/ Heartbeat \/ LeaveChunking \/ ChunkStageEnds
  <2>1. /\ UNCHANGED <<repo, recorded, failed, waiting, retry, late, struck, interrupted>>
        /\ stage # "start" /\ stage' # "start"
    BY <1>5 DEF RetryHeartbeat, Heartbeat, OnBatch, LeaveChunking, ChunkStageEnds, limitVars
  <2> QED BY <1>0, <1>i, <1>t, <2>1, FilesRest, LostRest
<1>6. CASE TimeUp
  <2>1. /\ UNCHANGED <<repo, recorded, failed, waiting, retry, stage, struck, interrupted>>
        /\ late' = TRUE
    BY <1>6 DEF TimeUp
  <2> QED BY <1>0, <1>i, <2>1, FilesRest, LostRest
<1>7. CASE SoftLimitRaised
  <2>1. /\ UNCHANGED <<repo, recorded, failed, waiting, retry, late, interrupted>>
        /\ struck' = TRUE /\ stage # "start" /\ stage' # "start"
    BY <1>7 DEF SoftLimitRaised
  <2> QED BY <1>0, <1>i, <1>t, <2>1, FilesRest, LostRest
<1> QED
  BY <1>1, <1>2, <1>3, <1>4, <1>5, <1>6, <1>7 DEF ChunkNext, ChunkStep

\* The invariant holds throughout.
THEOREM ChunkInvariant == ChunkSpec => []ChunkInv
<1>1. ChunkInit => ChunkInv
  <2> SUFFICES ASSUME ChunkInit PROVE ChunkInv
    OBVIOUS
  <2>1. StageInv /\ PoolInv /\ LostInv
    BY DEF ChunkInit, StageInv, PoolInv, LostInv
  <2> QED BY <2>1, FilesInit DEF ChunkInv
<1>2. ChunkInv /\ [ChunkNext]_chunkVars => ChunkInv'
  <2> SUFFICES ASSUME ChunkInv, [ChunkNext]_chunkVars PROVE ChunkInv'
    OBVIOUS
  <2>1. CASE ChunkNext
    BY <2>1, FilesStep, StageStep, PoolStep DEF ChunkInv
  <2>2. CASE UNCHANGED chunkVars
    <3>1. UNCHANGED <<repo, recorded, failed, waiting, retry, late, stage, pool, open,
                      struck, interrupted>>
      BY <2>2 DEF chunkVars
    <3>2. FilesInv'
      BY <3>1, FilesRest DEF ChunkInv, FilesInv, FilesTyped
    <3>3. LostInv'
      <4>1. Lost' = Lost
        BY <3>1 DEF Lost, Accounted, Eligible
      <4> QED BY <3>1, <4>1, LostRest DEF ChunkInv
    <3> QED BY <3>1, <3>2, <3>3 DEF ChunkInv, StageInv, PoolInv
  <2> QED BY <2>1, <2>2
<1> QED BY <1>1, <1>2, PTL DEF ChunkSpec

\* No file is recorded twice, or recorded and counted as failed, in any clone
\* and whatever the parser does (chunker.py:442-483).
THEOREM EachFileOnceHolds == ChunkSpec => []EachFileOnce
<1>1. ChunkInv => EachFileOnce
  BY DEF ChunkInv, FilesInv
<1> QED BY <1>1, ChunkInvariant, PTL

\* Two members at most.
LEMMA FewMembers ==
  ASSUME NEW S, NEW x, NEW y, S \subseteq {x, y}
  PROVE  Cardinality(S) <= 2
<1>1. IsFiniteSet({x}) /\ Cardinality({x}) = 1
  BY FS_Singleton
<1>2. /\ IsFiniteSet({x} \cup {y})
      /\ Cardinality({x} \cup {y}) \in {Cardinality({x}), Cardinality({x}) + 1}
  BY <1>1, FS_AddElement
<1>3. S \subseteq {x} \cup {y}
  OBVIOUS
<1>4. IsFiniteSet(S) /\ Cardinality(S) <= Cardinality({x} \cup {y})
  BY <1>2, <1>3, FS_Subset, Zenon
<1>5. Cardinality({x} \cup {y}) \in {1, 2}
  BY <1>1, <1>2
<1>6. Cardinality(S) \in Nat
  BY <1>4, FS_CardinalityType
<1> QED BY <1>4, <1>5, <1>6

\* A stage that returns leaves out exactly the files that do not parse, unless
\* the soft time limit struck; then two more at most (chunker.py:368-402,
\* 442-483).
THEOREM LosesFewFilesHolds == ChunkSpec => []LosesFewFiles
<1>1. ChunkInv => LosesFewFiles
  <2> SUFFICES ASSUME ChunkInv, stage = "returned"
               PROVE  Cardinality({f \in File : ~Accounted(f)}) <= IF struck THEN 2 ELSE 0
    BY DEF LosesFewFiles
  <2>1. waiting = {} /\ retry = {} /\ LostInv
    BY DEF ChunkInv, StageInv
  <2>2. {f \in File : ~Accounted(f)} = Lost
    BY <2>1 DEF Lost
  <2>3. CASE struck
    <3>1. PICK x, y : Lost \subseteq {x, y}
      BY <2>1 DEF LostInv
    <3>2. Cardinality(Lost) <= 2
      BY <3>1, FewMembers
    <3> QED BY <2>2, <2>3, <3>2
  <2>4. CASE ~struck
    <3>1. Lost = {}
      BY <2>1, <2>4 DEF LostInv
    <3>2. Cardinality(Lost) = 0
      BY <3>1, FS_EmptySet
    <3> QED BY <2>2, <2>4, <3>2
  <2> QED BY <2>3, <2>4
<1> QED BY <1>1, ChunkInvariant, PTL

\* No pool is left behind, whatever raises (chunker.py:485-549).
THEOREM NoPoolLeftHolds == ChunkSpec => []NoPoolLeft
<1>1. ChunkInv => NoPoolLeft
  <2> SUFFICES ASSUME PoolInv PROVE open <= 1 /\ (Ended => open = 0)
    BY DEF ChunkInv, NoPoolLeft
  <2>1. (pool = "closed" /\ open = 0) \/ (pool # "closed" /\ open = 1)
    BY DEF PoolInv
  <2>2. open <= 1
    BY <2>1
  <2>3. Ended => pool = "closed"
    BY DEF PoolInv, Ended
  <2> QED BY <2>1, <2>2, <2>3
<1> QED BY <1>1, ChunkInvariant, PTL

----------------------------------------------------------------------------
(* The time between two reports *)

\* A batch is no larger than it may be.
LEMMA BatchFits ==
  ASSUME waiting \in SUBSET File, waiting # {}
  PROVE  IsFiniteSet(NextBatch) /\ Cardinality(NextBatch) \in 0..BatchSize
<1> DEFINE docs == Of(NextLanguage, waiting)
<1>1. docs \in SUBSET File
  BY DEF Of
<1>2. NextBatch = {f \in docs : Cardinality({g \in docs : g < f}) < BatchSize}
  BY DEF NextBatch
<1> HIDE DEF docs
<1>3. FileCount \in Nat /\ BatchSize \in Nat \ {0} /\ File = 1..FileCount
  BY ChunkingAssumption DEF File
<1>4. NextBatch \in SUBSET File /\ NextBatch # {}
  BY BatchWaits
<1>5. IsFiniteSet(File)
  BY <1>3, FS_Interval
\* The last file of the batch: all others come before it.
<1>6. PICK last \in NextBatch : \A f \in NextBatch : f <= last
  <2> DEFINE Left == {FileCount - f : f \in NextBatch}
  <2>1. \A f \in NextBatch : f \in Nat /\ FileCount - f \in Nat
    BY <1>3, <1>4
  <2>2. Left \in SUBSET Nat /\ Left # {}
    BY <1>4, <2>1
  <2>3. PICK n \in Left : \A m \in Left : n <= m
    BY <2>2, LeastNatural
  <2>4. PICK last \in NextBatch : n = FileCount - last
    BY <2>3
  <2>5. \A f \in NextBatch : FileCount - last <= FileCount - f
    BY <2>3, <2>4
  <2>6. \A f \in NextBatch : f <= last
    BY <1>3, <2>1, <2>4, <2>5
  <2>7. QED
    BY <2>6
<1> DEFINE before == {g \in docs : g < last}
<1>7. last \in docs /\ Cardinality(before) < BatchSize
  BY <1>2, <1>6
<1>8. before \in SUBSET File
  BY <1>1
<1>9. NextBatch \in SUBSET (before \cup {last})
  <2>1. \A f \in NextBatch : f \in docs /\ f \in Nat /\ f <= last
    BY <1>2, <1>3, <1>4, <1>6
  <2>2. \A f \in NextBatch : f < last \/ f = last
    BY <1>6, <2>1
  <2>3. QED
    BY <2>1, <2>2
<1> HIDE DEF before
<1>10. IsFiniteSet(before) /\ Cardinality(before) \in Nat
  BY <1>5, <1>8, FS_Subset, FS_CardinalityType
<1>11. /\ IsFiniteSet(before \cup {last})
       /\ Cardinality(before \cup {last}) \in {Cardinality(before), Cardinality(before) + 1}
  BY <1>10, FS_AddElement
<1>12. /\ IsFiniteSet(NextBatch)
       /\ Cardinality(NextBatch) <= Cardinality(before \cup {last})
  BY <1>9, <1>11, FS_Subset
<1>13. Cardinality(NextBatch) \in Nat
  BY <1>12, FS_CardinalityType
<1>14. QED
  BY <1>3, <1>7, <1>10, <1>11, <1>12, <1>13

\* How long the stage has been silent at most, by what it does next: one batch
\* before the files of a failed one are retried, one file more after each.
TimeInv ==
  /\ silent \in 0..(BatchSize + 1)
  /\ stage \in {"start", "next"} => silent = 0
  /\ stage = "retry" => silent <= BatchSize

\* A job of n files, after a silence of at most "most".
LEMMA JobTakes ==
  ASSUME NEW b, NEW how, JobEnds(b, how), NEW n \in Nat, Cardinality(b) \in 0..n,
         NEW most \in Nat, silent \in 0..most
  PROVE  silent' \in 0..(most + n)
<1>1. PICK m : m = Cardinality(b)
  OBVIOUS
<1>2. silent' = silent + m /\ m \in 0..n
  BY <1>1 DEF JobEnds
<1>3. QED
  BY <1>2

LEMMA TimeStep ==
  ASSUME FilesInv, StageInv, TimeInv, ChunkNext
  PROVE  TimeInv'
<1>0. BatchSize \in Nat /\ BatchSize # 0 /\ 0 \in 0..(BatchSize + 1)
  BY ChunkingAssumption
<1>1. CASE StartChunking
  BY <1>1, <1>0 DEF StartChunking, TimeInv
<1>2. ASSUME NEW how, stage = "next", waiting # {}, JobEnds(NextBatch, how)
      PROVE  silent' \in 0..BatchSize
  <2>1. silent = 0
    BY <1>2 DEF TimeInv
  <2>2. Cardinality(NextBatch) \in 0..BatchSize
    BY <1>2, BatchFits DEF FilesInv, FilesTyped
  <2>3. silent \in 0..0 /\ 0 \in Nat /\ 0 + BatchSize = BatchSize
    BY <1>0, <2>1
  <2>4. QED
    BY <1>0, <1>2, <2>2, <2>3, JobTakes
<1>3. silent' \in 0..BatchSize => silent' \in 0..(BatchSize + 1) /\ silent' <= BatchSize
  BY <1>0
<1>4. CASE BatchDone
  <2>1. silent' \in 0..BatchSize
    BY <1>2, <1>4 DEF BatchDone
  <2>2. stage' = "heartbeat"
    BY <1>4 DEF BatchDone, AfterJob
  <2>3. QED
    BY <1>3, <2>1, <2>2 DEF TimeInv
<1>5. CASE BatchFails
  <2>1. silent' \in 0..BatchSize
    BY <1>2, <1>5 DEF BatchFails
  <2>2. stage' \in {"retry", "raised"}
    BY <1>5 DEF BatchFails, AfterJob, ReplacePool
  <2>3. QED
    BY <1>3, <2>1, <2>2 DEF TimeInv
<1>6. CASE RetryFile
  <2>1. PICK g, how : stage = "retry" /\ JobEnds({g}, how) /\ AfterJob(how, "retry heartbeat")
    BY <1>6 DEF RetryFile
  <2>2. silent \in 0..BatchSize
    <3>1. silent \in 0..(BatchSize + 1) /\ silent <= BatchSize
      BY <2>1 DEF TimeInv
    <3>2. QED
      BY <1>0, <3>1
  <2>3. Cardinality({g}) \in 0..1
    <3>1. Cardinality({g}) = 1
      BY FS_Singleton
    <3>2. QED
      BY <3>1
  <2>4. silent' \in 0..(BatchSize + 1)
    BY <1>0, <2>1, <2>2, <2>3, JobTakes
  <2>5. stage' \in {"retry heartbeat", "raised"}
    BY <2>1 DEF AfterJob, ReplacePool
  <2>6. QED
    BY <2>4, <2>5 DEF TimeInv
<1>7. CASE RetryHeartbeat \/ Heartbeat
  <2>1. silent' = 0 \/ (stage' = "raised" /\ silent' = silent)
    BY <1>7 DEF RetryHeartbeat, Heartbeat, OnBatch
  <2>2. CASE silent' = 0
    BY <1>0, <2>2 DEF TimeInv
  <2>3. CASE stage' = "raised" /\ silent' = silent
    BY <2>3 DEF TimeInv
  <2>4. QED
    BY <2>1, <2>2, <2>3
<1>8. CASE LeaveChunking \/ ChunkStageEnds
  BY <1>8 DEF LeaveChunking, ChunkStageEnds, TimeInv
<1>9. CASE TimeUp
  BY <1>9 DEF TimeUp, TimeInv
<1>10. CASE SoftLimitRaised
  BY <1>10 DEF SoftLimitRaised, TimeInv
<1>11. QED
  BY <1>1, <1>4, <1>5, <1>6, <1>7, <1>8, <1>9, <1>10 DEF ChunkNext, ChunkStep

LEMMA TimeInvariant == ChunkSpec => [](ChunkInv /\ TimeInv)
<1>1. ChunkInit => TimeInv
  BY ChunkingAssumption DEF ChunkInit, TimeInv
<1>2. ChunkInv /\ TimeInv /\ [ChunkNext]_chunkVars => TimeInv'
  <2> SUFFICES ASSUME ChunkInv, TimeInv, [ChunkNext]_chunkVars PROVE TimeInv'
    OBVIOUS
  <2>1. CASE ChunkNext
    BY <2>1, TimeStep DEF ChunkInv
  <2>2. CASE UNCHANGED chunkVars
    BY <2>2 DEF chunkVars, TimeInv
  <2>3. QED
    BY <2>1, <2>2
<1>3. QED
  BY <1>1, <1>2, ChunkInvariant, PTL DEF ChunkSpec

\* Between two reports passes at most the time of one batch and of one file, for
\* any batch size and any clone (chunker.py:404-440).
THEOREM ReportsInTimeHolds == ChunkSpec => []ReportsInTime
<1>1. TimeInv => ReportsInTime
  BY ChunkingAssumption DEF TimeInv, ReportsInTime
<1>2. QED
  BY <1>1, TimeInvariant, PTL

----------------------------------------------------------------------------
(* Types *)

LanguageTyped == language \in Languages \cup {"other"}

LEMMA LanguageStep ==
  ASSUME FilesInv, LanguageTyped, [ChunkNext]_chunkVars
  PROVE  LanguageTyped'
<1>1. ASSUME stage = "next", waiting # {}, language' = NextLanguage
      PROVE  LanguageTyped'
  <2>1. Least(waiting) \in File /\ repo \in [File -> Content]
    BY <1>1, LeastFile DEF FilesInv, FilesTyped
  <2>2. repo[Least(waiting)].language \in Languages \cup {"other"}
    BY <2>1 DEF Content
  <2>3. QED
    BY <1>1, <2>2 DEF LanguageTyped, NextLanguage
<1>2. CASE UNCHANGED language
  BY <1>2 DEF LanguageTyped
<1>3. language' = language \/ (stage = "next" /\ waiting # {} /\ language' = NextLanguage)
  BY DEF ChunkNext, ChunkStep, chunkVars, StartChunking, BatchDone, BatchFails, RetryFile,
         RetryHeartbeat, Heartbeat, OnBatch, LeaveChunking, ChunkStageEnds, TimeUp,
         SoftLimitRaised
<1>4. QED
  BY <1>1, <1>2, <1>3

Stages == {"start", "next", "retry", "retry heartbeat", "heartbeat", "raised", "chunked",
           "returned", "failed"}

LEMMA StageTyped ==
  ASSUME stage \in Stages, [ChunkNext]_chunkVars
  PROVE  stage' \in Stages
BY DEF Stages, ChunkNext, ChunkStep, chunkVars, StartChunking, BatchDone, BatchFails, RetryFile,
       AfterJob, ReplacePool, RetryHeartbeat, Heartbeat, OnBatch, LeaveChunking, ChunkStageEnds,
       TimeUp, SoftLimitRaised

LEMMA ChunkTyped == ChunkSpec => []ChunkTypeOK
<1>1. ChunkInit => LanguageTyped /\ stage \in Stages
  BY DEF ChunkInit, LanguageTyped, Stages
<1>2. ChunkInv /\ LanguageTyped /\ stage \in Stages /\ [ChunkNext]_chunkVars =>
        (LanguageTyped /\ stage \in Stages)'
  BY LanguageStep, StageTyped DEF ChunkInv
<1>3. ChunkInv /\ TimeInv /\ LanguageTyped /\ stage \in Stages => ChunkTypeOK
  <2> SUFFICES ASSUME FilesTyped, PoolInv, LostInv, TimeInv, LanguageTyped, stage \in Stages
               PROVE  ChunkTypeOK
    BY DEF ChunkInv, FilesInv
  <2>1. /\ repo \in [File -> Content] /\ waiting \subseteq File /\ retry \subseteq File
        /\ recorded \in [File -> Nat] /\ failed \in [File -> Nat] /\ late \in BOOLEAN
    BY DEF FilesTyped
  <2>2. pool \in {"closed", "idle", "busy", "dead"} /\ open \in Nat
    BY DEF PoolInv
  <2>3. silent \in Nat
    BY ChunkingAssumption DEF TimeInv
  <2>4. struck \in BOOLEAN /\ interrupted \subseteq File
    BY DEF LostInv
  <2>5. QED
    BY <2>1, <2>2, <2>3, <2>4 DEF LanguageTyped, Stages, ChunkTypeOK
<1>4. QED
  BY <1>1, <1>2, <1>3, TimeInvariant, PTL DEF ChunkSpec

=============================================================================
