-------------------------- MODULE RedisStatusStore --------------------------
(***************************************************************************)
(* RedisStatusStore: the status store over Redis commands.  Each command   *)
(* (GET, SET NX, WATCH, MULTI/SET/EXEC) is one step of the server, and     *)
(* commands of different callers interleave between them.  A caller's      *)
(* WATCH is kept as the server keeps it: a flag raised by every write to   *)
(* the key, the key's expiry included, that makes EXEC fail.               *)
(*                                                                         *)
(* A call starts in the phase of its first command; see Start.             *)
(***************************************************************************)
EXTENDS StatusStore

CONSTANT
  ReplyLost  \* TRUE: the connection may drop after EXEC ran, before its reply

ASSUME ReplyLostAssumption == ReplyLost \in BOOLEAN

VARIABLES
  seen,   \* seen[c]: the record c's last GET returned (existing)
  dirty   \* dirty[c]: c watches the key and it was written since c's WATCH

redisVars == <<record, used, call, phase, answer, seen, dirty>>

\* The first command of each operation.
Start(op) ==
  CASE op = "get" -> "GET"
    [] op = "create" -> "SET NX"
    [] op = "update" -> "GET to update"
    [] op = "update_if_attempt" -> "WATCH"

RedisInit ==
  /\ Init
  /\ seen = [c \in Callers |-> Absent]
  /\ dirty = [c \in Callers |-> FALSE]

RedisInvoke(c, q) ==
  /\ phase[c] \in {"idle", "done"}
  /\ q.attempt \notin used
  /\ used' = IF q.attempt = NoAttempt THEN used ELSE used \cup {q.attempt}
  /\ call' = [call EXCEPT ![c] = q]
  /\ phase' = [phase EXCEPT ![c] = Start(q.op)]
  /\ UNCHANGED <<record, answer, seen, dirty>>

Goto(c, p) == phase' = [phase EXCEPT ![c] = p]

\* A write of the key, visible to every caller that watches it.
Watching(c) == phase[c] \in {"GET watched", "EXEC"}
Touch(rec, writers) ==
  /\ record' = rec
  /\ dirty' = [c \in Callers |-> Watching(c) /\ c \notin writers]

Forget(c) == seen' = [seen EXCEPT ![c] = Absent]

Get(c) ==
  /\ phase[c] = "GET"
  /\ Answer(c, TRUE, record)
  /\ UNCHANGED <<record, seen, dirty>>

\* create_if_absent: SET NX either creates the record or changes nothing.
SetNX(c) ==
  /\ phase[c] = "SET NX"
  /\ IF record = Absent
       THEN /\ Touch(new_pending(call[c].attempt), {c})
            /\ Answer(c, TRUE, new_pending(call[c].attempt))
            /\ UNCHANGED seen
       ELSE /\ Goto(c, "GET existing")
            /\ UNCHANGED <<record, used, call, answer, seen, dirty>>

\* Faulty: answers without a record when it expired.
GetExisting_once(c) ==
  /\ phase[c] = "GET existing"
  /\ Answer(c, FALSE, record)
  /\ UNCHANGED <<record, seen, dirty>>

\* The read after a lost SET NX; a record that expired in between makes
\* create_if_absent start over, with a new pending record of its own.
GetExisting(c) ==
  /\ phase[c] = "GET existing"
  /\ IF record = Absent
       THEN /\ Goto(c, "SET NX")
            /\ UNCHANGED <<used, call, answer>>
       ELSE Answer(c, FALSE, record)
  /\ UNCHANGED <<record, seen, dirty>>

Watch(c) ==
  /\ phase[c] = "WATCH"
  /\ dirty' = [dirty EXCEPT ![c] = FALSE]
  /\ Goto(c, "GET watched")
  /\ UNCHANGED <<record, used, call, answer, seen>>

\* Faulty: no comparison with the expected attempt.
GetWatched_unchecked(c) ==
  /\ phase[c] = "GET watched"
  /\ Goto(c, "EXEC")
  /\ seen' = [seen EXCEPT ![c] = record]
  /\ UNCHANGED <<record, used, call, answer, dirty>>

\* Another attempt's record, or none, ends the call; else the update is
\* prepared from the record read here.
GetWatched(c) ==
  /\ phase[c] = "GET watched"
  /\ IF record = Absent \/ record.attempt # call[c].expected
       THEN /\ Answer(c, FALSE, Absent)
            /\ dirty' = [dirty EXCEPT ![c] = FALSE]
            /\ UNCHANGED seen
       ELSE /\ Goto(c, "EXEC")
            /\ seen' = [seen EXCEPT ![c] = record]
            /\ UNCHANGED <<used, call, answer, dirty>>
  /\ UNCHANGED record

\* Faulty: the SET is not in a transaction.
Exec_plain(c) ==
  /\ phase[c] = "EXEC"
  /\ Touch(with_updates(seen[c], call[c]), {c})
  /\ Answer(c, TRUE, Absent)
  /\ Forget(c)

\* EXEC runs the queued SET unless the watched key was written meanwhile.
Exec(c) ==
  /\ phase[c] = "EXEC"
  /\ ~dirty[c]
  /\ Touch(with_updates(seen[c], call[c]), {c})
  /\ Answer(c, TRUE, Absent)
  /\ Forget(c)

\* Faulty: the retry does not watch again.
ExecAborted_unwatched(c) ==
  /\ phase[c] = "EXEC"
  /\ dirty[c]
  /\ Goto(c, "GET watched")
  /\ Forget(c)
  /\ UNCHANGED <<record, used, call, answer, dirty>>

\* WatchError: the whole transaction is tried again.
ExecAborted(c) ==
  /\ phase[c] = "EXEC"
  /\ dirty[c]
  /\ Goto(c, "WATCH")
  /\ dirty' = [dirty EXCEPT ![c] = FALSE]
  /\ Forget(c)
  /\ UNCHANGED <<record, used, call, answer>>

\* EXEC ran but its reply was lost.  The client library reports a dropped
\* connection on a watching pipeline as WatchError too, so the caller tries
\* the transaction again.
ExecReplyLost(c) ==
  /\ ReplyLost
  /\ phase[c] = "EXEC"
  /\ ~dirty[c]
  /\ Touch(with_updates(seen[c], call[c]), {c})
  /\ Goto(c, "WATCH")
  /\ Forget(c)
  /\ UNCHANGED <<used, call, answer>>

\* update() is a plain GET followed by a plain SET.
GetToUpdate(c) ==
  /\ phase[c] = "GET to update"
  /\ IF record = Absent
       THEN /\ Answer(c, TRUE, Absent)
            /\ UNCHANGED seen
       ELSE /\ Goto(c, "SET")
            /\ seen' = [seen EXCEPT ![c] = record]
            /\ UNCHANGED <<used, call, answer>>
  /\ UNCHANGED <<record, dirty>>

SetUpdated(c) ==
  /\ phase[c] = "SET"
  /\ Touch(with_updates(seen[c], call[c]), {c})
  /\ Answer(c, TRUE, Absent)
  /\ Forget(c)

\* Faulty: expiry goes unnoticed by the callers that watch the key.
KeyExpires_unnoticed ==
  /\ Expires
  /\ record # Absent
  /\ record' = Absent
  /\ UNCHANGED <<used, call, phase, answer, seen, dirty>>

KeyExpires ==
  /\ Expires
  /\ record # Absent
  /\ Touch(Absent, {})
  /\ UNCHANGED <<used, call, phase, answer, seen>>

Command(c) ==
  \/ Get(c) \/ SetNX(c) \/ GetExisting(c)
  \/ Watch(c) \/ GetWatched(c) \/ Exec(c) \/ ExecAborted(c)
  \/ GetToUpdate(c) \/ SetUpdated(c)

RedisNext ==
  \/ \E c \in Callers :
       \/ \E q \in Requests : RedisInvoke(c, q)
       \/ Command(c)
       \/ ExecReplyLost(c)
  \/ KeyExpires

RedisSpec == RedisInit /\ [][RedisNext]_redisVars

\* Every caller's thread keeps running, and the connection does not drop at
\* every EXEC for ever; nothing says that anyone calls again.
RedisFairSpec ==
  RedisSpec /\ \A c \in Callers : WF_redisVars(Command(c)) /\ SF_redisVars(Exec(c))

----------------------------------------------------------------------------
Phases == {"idle", "done", "GET", "SET NX", "GET existing", "WATCH",
           "GET watched", "EXEC", "GET to update", "SET"}

TypeOK ==
  /\ record \in Record
  /\ used \subseteq Attempts
  /\ call \in [Callers -> Request]
  /\ phase \in [Callers -> Phases]
  /\ answer \in [Callers -> [ok : BOOLEAN, rec : Record]]
  /\ seen \in [Callers -> Record]
  /\ dirty \in [Callers -> BOOLEAN]

\* The abstract store: every phase between call and answer is "called".
AtomicPhase ==
  [c \in Callers |-> IF phase[c] \in {"idle", "done"} THEN phase[c] ELSE "called"]
Atomic == INSTANCE StatusStore WITH phase <- AtomicPhase

\* What a phase says of the call it belongs to.
PhaseMatchesCall ==
  \A c \in Callers :
    /\ phase[c] = "GET" => call[c].op = "get"
    /\ phase[c] \in {"SET NX", "GET existing"} => call[c].op = "create"
    /\ phase[c] \in {"WATCH", "GET watched", "EXEC"} => call[c].op = "update_if_attempt"
    /\ phase[c] \in {"GET to update", "SET"} => call[c].op = "update"
    /\ phase[c] \notin {"idle", "done"} => call[c] \in Requests

\* The reason WATCH/MULTI is enough: a caller about to EXEC with its watch
\* intact has read the record that is still stored, and it is its attempt's.
WatchInv ==
  \A c \in Callers :
    phase[c] = "EXEC" /\ ~dirty[c] =>
      /\ seen[c] = record
      /\ record # Absent
      /\ record.attempt = call[c].expected

\* Each Redis operation takes effect atomically, at one command between its
\* call and its answer, whatever other callers and expiry do in between
\* (redis_status_store.py: "Atomically ...", lines 77 and 138-142).
ImplementsAtomicStore == Atomic!Spec

Done(c, op) == phase[c] = "done" /\ call[c].op = op

\* Of the callers that replace one attempt by a new one (two clients retrying
\* the same failed repo), at most one is told it succeeded
\* (dependencies.py:214-216, "of two concurrent retries only one starts").
OneRetryWins ==
  \A c, d \in Callers :
    /\ c # d
    /\ Done(c, "update_if_attempt") /\ answer[c].ok
    /\ Done(d, "update_if_attempt") /\ answer[d].ok
    /\ call[c].attempt # NoAttempt /\ call[d].attempt # NoAttempt
    => call[c].expected # call[d].expected

\* A create that lost hands back a record somebody stored, never the absence
\* of one, even when that record expired under it (redis_status_store.py:99-103).
LostCreateSeesRecord ==
  \A c \in Callers :
    Done(c, "create") /\ ~answer[c].ok => answer[c].rec # Absent

\* The WATCH loop cannot livelock the store: either all calls get answered
\* again and again, or answers keep coming.  A transaction restarts only
\* because another caller's write went through.
Outstanding == \E c \in Callers : phase[c] \notin {"idle", "done"}
Answered == \E c \in Callers : phase[c] # "done" /\ phase'[c] = "done"
StoreMakesProgress == []<>(~Outstanding) \/ []<><<Answered>>_redisVars

\* A caller told "not updated" did not update: its fresh attempt id is not
\* the one in the record (redis_status_store.py:149-151).
FalseMeansNotWritten ==
  \A c \in Callers :
    /\ Done(c, "update_if_attempt") /\ ~answer[c].ok
    /\ call[c].attempt # NoAttempt
    => record.attempt # call[c].attempt

=============================================================================
