------------------------------ MODULE Frontend ------------------------------
(***************************************************************************)
(* The browser's way from a URL to a chat: App, IngestForm and StatusPanel *)
(* with its chains of status polls.  React state of a component is gone    *)
(* with it, and a component's effect is cleaned up in the step that        *)
(* removes it or changes what it depends on.                               *)
(*                                                                         *)
(* The server is RepoLifecycle without its attempts and stages: a record   *)
(* is "running" from pending to embedding, and a ready one stays, as only  *)
(* an operator forces a re-ingestion.                                      *)
(***************************************************************************)
EXTENDS Naturals

CONSTANTS
  Repos,
  NoRepo,
  MaxPolls,   \* bound: runs of the panel's effect
  MaxChanges  \* bound: changes of a record's status

ASSUME FrontendAssumption ==
  NoRepo \notin Repos /\ MaxPolls \in Nat /\ MaxChanges \in Nat

VARIABLES
  server,  \* server[r]: the record's status, and how often it changed
  view,    \* App: the component shown
  active,  \* App: the active repo
  post,    \* the form's or the panel's createRepo(): its repo and its answer
  record,  \* StatusPanel: the record shown, NoRecord before the first one
  effects, \* how often the panel's effect ran
  poll     \* poll[n]: the chain of polls that the n-th run started

frontendVars == <<server, view, active, post, record, effects, poll>>

Status == {"absent", "running", "ready", "failed"}
Record == [status : Status, changes : 0..MaxChanges]
NoRecord == [status |-> "absent", changes |-> 0]
NoPost == [phase |-> "none", repo |-> NoRepo, status |-> "absent"]
NoChain == [phase |-> "ended", cancelled |-> FALSE, repo |-> NoRepo, answer |-> NoRecord]
Chain == 1..MaxPolls

\* Any repo may have been submitted before.
FrontendInit ==
  /\ server \in [Repos -> [status : Status, changes : {0}]]
  /\ view = "ingest" /\ active = NoRepo
  /\ post = NoPost
  /\ record = NoRecord
  /\ effects = 0 /\ poll = [n \in Chain |-> NoChain]

\* Chain n goes on to a phase, with an answer that is still to be looked at.
Moved(p, n, phase, answer) == [p EXCEPT ![n].phase = phase, ![n].answer = answer]

----------------------------------------------------------------------------
(* The server *)

Change(r, status) ==
  /\ server[r].changes < MaxChanges
  /\ server' = [server EXCEPT ![r] = [status |-> status, changes |-> @.changes + 1]]

\* An ingestion ends, or somebody else starts one.
ServerMoves(r) ==
  /\ \/ server[r].status = "running" /\ (Change(r, "ready") \/ Change(r, "failed"))
     \/ server[r].status \in {"absent", "failed"} /\ Change(r, "running")
  /\ UNCHANGED <<view, active, post, record, effects, poll>>

\* create_repo answers, having started an ingestion if there was none.
ServerCreates ==
  /\ post.phase = "sent"
  /\ IF server[post.repo].status \in {"absent", "failed"}
       THEN /\ Change(post.repo, "running")
            /\ post' = [post EXCEPT !.phase = "done", !.status = "running"]
       ELSE UNCHANGED server
            /\ post' = [post EXCEPT !.phase = "done", !.status = server[post.repo].status]
  /\ UNCHANGED <<view, active, record, effects, poll>>

\* get_repo answers the request of chain n.
ServerReads(n) ==
  /\ poll[n].phase = "asking"
  /\ server[poll[n].repo].status # "absent"
  /\ poll' = Moved(poll, n, "answered", server[poll[n].repo])
  /\ UNCHANGED <<server, view, active, post, record, effects>>

----------------------------------------------------------------------------
(* The panel's effect *)

\* Faulty: the timer is cleared, but a request that is under way goes on.
CleanUp_timer(p) ==
  [n \in Chain |-> IF p[n].phase = "waiting" THEN [p[n] EXCEPT !.phase = "ended"] ELSE p[n]]

\* The cleanup of the effect: cancelled, and no timer.
CleanUp(p) ==
  [n \in Chain |-> [p[n] EXCEPT !.cancelled = TRUE,
                               !.phase = IF @ = "waiting" THEN "ended" ELSE @]]

\* The effect runs, for the first time or after a cleanup, and polls at once.
RunEffect(r) ==
  /\ effects < MaxPolls
  /\ effects' = effects + 1
  /\ poll' = [CleanUp(poll) EXCEPT ![effects + 1] =
                [phase |-> "asking", cancelled |-> FALSE, repo |-> r, answer |-> NoRecord]]

Continue(n, phase) == poll' = Moved(poll, n, phase, NoRecord)

\* The answer reaches a panel that is still there.
PollArrives(n) ==
  /\ poll[n].phase = "answered" /\ ~poll[n].cancelled
  /\ record' = poll[n].answer
  /\ \/ /\ poll[n].answer.status = "ready"
        /\ view' = "chat"
        /\ poll' = Moved(CleanUp(poll), n, "ended", NoRecord)
        /\ post' = NoPost
     \/ /\ poll[n].answer.status # "ready"
        /\ Continue(n, IF poll[n].answer.status = "failed" THEN "ended" ELSE "waiting")
        /\ UNCHANGED <<view, post>>
  /\ UNCHANGED <<server, active, effects>>

\* Faulty: one failed check ends the chain.
PollFails_ends(n) ==
  /\ poll[n].phase \in {"asking", "answered"} /\ ~poll[n].cancelled
  /\ Continue(n, "ended")
  /\ UNCHANGED <<server, view, active, post, record, effects>>

\* The request, or its answer, is lost, or it answers with an error.
PollFails(n) ==
  /\ poll[n].phase \in {"asking", "answered"} /\ ~poll[n].cancelled
  /\ Continue(n, "waiting")
  /\ UNCHANGED <<server, view, active, post, record, effects>>

\* Whatever a cancelled chain gets is ignored.
PollIgnored(n) ==
  /\ poll[n].phase \in {"asking", "answered"} /\ poll[n].cancelled
  /\ Continue(n, "ended")
  /\ UNCHANGED <<server, view, active, post, record, effects>>

TimerFires(n) ==
  /\ poll[n].phase = "waiting"
  /\ Continue(n, "asking")
  /\ UNCHANGED <<server, view, active, post, record, effects>>

----------------------------------------------------------------------------
(* The form, the retry, and the way back *)

\* handleSubmit, and handleRetry once a failure is shown.
SendPost(r) ==
  /\ post = NoPost
  /\ \/ view = "ingest"
     \/ view = "status" /\ r = active /\ record.status = "failed"
  /\ post' = [phase |-> "sent", repo |-> r, status |-> "absent"]
  /\ UNCHANGED <<server, view, active, record, effects, poll>>

\* handleIngestStarted mounts a panel, unless the repo is ready.
Started ==
  /\ view = "ingest" /\ post.phase = "done"
  /\ active' = post.repo
  /\ record' = NoRecord
  /\ \/ post.status = "ready" /\ view' = "chat" /\ UNCHANGED <<effects, poll>>
     \/ post.status # "ready" /\ view' = "status" /\ RunEffect(post.repo)
  /\ post' = NoPost
  /\ UNCHANGED server

\* setAttempt(n + 1): the effect is cleaned up and runs again.
Retried ==
  /\ view = "status" /\ post.phase = "done"
  /\ RunEffect(active)
  /\ post' = NoPost
  /\ UNCHANGED <<server, view, active, record>>

\* An error, or an answer that is lost: it is shown, and the button is back.
PostFails ==
  /\ post # NoPost
  /\ post' = NoPost
  /\ UNCHANGED <<server, view, active, record, effects, poll>>

\* handleReset, from the panel or from the chat.
StartOver ==
  /\ view # "ingest"
  /\ view' = "ingest" /\ active' = NoRepo
  /\ record' = NoRecord /\ post' = NoPost
  /\ poll' = CleanUp(poll)
  /\ UNCHANGED <<server, effects>>

PollStep(n) == PollArrives(n) \/ PollFails(n) \/ TimerFires(n) \/ ServerReads(n)

FrontendNext ==
  \/ \E r \in Repos : ServerMoves(r) \/ SendPost(r)
  \/ \E n \in Chain : PollStep(n) \/ PollIgnored(n)
  \/ ServerCreates \/ Started \/ Retried \/ PostFails \/ StartOver

FrontendSpec == FrontendInit /\ [][FrontendNext]_frontendVars

----------------------------------------------------------------------------
(* Properties *)

ChainState ==
  [phase : {"asking", "answered", "waiting", "ended"}, cancelled : BOOLEAN,
   repo : Repos \cup {NoRepo}, answer : Record]

FrontendTypeOK ==
  /\ server \in [Repos -> Record]
  /\ view \in {"ingest", "status", "chat"}
  /\ active \in Repos \cup {NoRepo}
  /\ post \in [phase : {"none", "sent", "done"}, repo : Repos \cup {NoRepo},
               status : Status]
  /\ record \in Record
  /\ effects \in 0..MaxPolls
  /\ poll \in [Chain -> ChainState]

\* The chat opens for the active repo only, and only once that repo is ready:
\* a late answer about a repo that was left neither opens the chat of the next
\* one nor an empty page (StatusPanel.tsx:30 "if (cancelled) return").
ChatsWhenReady ==
  view = "chat" => active \in Repos /\ server[active].status = "ready"

\* A panel never shows an older record than it showed before, however slow the
\* answers of the chains that a retry cut off.
ShowsLatest ==
  [][view = "status" /\ view' = "status" => record'.changes >= record.changes]_frontendVars

\* A panel whose repo is ready goes on to the chat although checks fail, unless
\* it shows a failure, which only a click ends (StatusPanel.tsx:43 "one failed
\* check (network blip, 503) must not freeze the panel").
PanelFollows ==
  view = "status" /\ server[active].status = "ready"
    ~> view # "status" \/ record.status = "failed"

=============================================================================
