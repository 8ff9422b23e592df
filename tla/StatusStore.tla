---------------------------- MODULE StatusStore ----------------------------
(***************************************************************************)
(* The repo status store as its callers see it: one record per repo, and   *)
(* operations that each take effect in ONE step between the call and the   *)
(* answer.  That is InMemoryStatusStore, which holds a lock around every   *)
(* operation, and what the StatusStore interface promises the API threads  *)
(* and the Celery workers.  RedisStatusStore is shown to implement it.     *)
(*                                                                         *)
(* The module follows one repo's key; operations on other keys commute     *)
(* with it.                                                                *)
(***************************************************************************)
CONSTANTS
  Callers,    \* API threads and worker processes that use the store
  Attempts,   \* attempt ids (uuid4 values)
  NoAttempt,  \* "no attempt id": in a record, the key is absent
  Fields,     \* the other overwritable fields of a record
  Values,     \* their values
  Initial,    \* the value every field has in a new pending record
  Keep,       \* in a patch: the field is not overwritten
  Requests,   \* the calls the callers make
  Expires     \* TRUE when REPO_STATUS_TTL_SECONDS makes records expire

Patch == [Fields -> Values \cup {Keep}]

Request ==
  [op : {"get", "create", "update", "update_if_attempt"},
   expected : Attempts \cup {NoAttempt},   \* update_if_attempt: expected_attempt_id
   attempt : Attempts \cup {NoAttempt},    \* the fresh id written, if any
   patch : Patch]

ASSUME StoreAssumption ==
  /\ NoAttempt \notin Attempts
  /\ Initial \in Values
  /\ Keep \notin Values
  /\ Requests \subseteq Request
  /\ Expires \in BOOLEAN
  /\ \A q \in Requests : q.op = "create" => q.attempt # NoAttempt
  /\ \A q \in Requests : q.op = "update_if_attempt" => q.expected # NoAttempt

Record == [attempt : Attempts \cup {NoAttempt}, data : [Fields -> Values]]

\* No record stored under the repo's key.
Absent == [attempt |-> NoAttempt, data |-> [f \in Fields |-> Initial]]

\* RepoStatus.new_pending: a pending record with a fresh attempt id.
new_pending(a) == [attempt |-> a, data |-> [f \in Fields |-> Initial]]

\* Faulty: the fields not given are overwritten too.
with_updates_all(rec, q) ==
  [attempt |-> IF q.attempt = NoAttempt THEN rec.attempt ELSE q.attempt,
   data |-> q.patch]

\* RepoStatus.with_updates: a copy with the patched fields overwritten.
with_updates(rec, q) ==
  [attempt |-> IF q.attempt = NoAttempt THEN rec.attempt ELSE q.attempt,
   data |-> [f \in Fields |->
               IF q.patch[f] = Keep THEN rec.data[f] ELSE q.patch[f]]]

VARIABLES
  record,  \* the stored record, or Absent
  used,    \* attempt ids drawn so far: uuid4 never repeats one
  call,    \* call[c]: the last request c made
  phase,   \* phase[c]: "idle" | "called" | "done"
  answer   \* answer[c]: [ok, rec], what the last finished call returned

vars == <<record, used, call, phase, answer>>

\* A request that returns nothing and changes nothing; only the initial value.
NoCall == [op |-> "get", expected |-> NoAttempt, attempt |-> NoAttempt,
           patch |-> [f \in Fields |-> Keep]]

NoAnswer == [ok |-> FALSE, rec |-> Absent]

Init ==
  /\ record = Absent
  /\ used = {}
  /\ call = [c \in Callers |-> NoCall]
  /\ phase = [c \in Callers |-> "idle"]
  /\ answer = [c \in Callers |-> NoAnswer]

\* A caller makes a request; an attempt id it writes is a fresh one.
Invoke(c, q) ==
  /\ phase[c] \in {"idle", "done"}
  /\ q.attempt \notin used
  /\ used' = IF q.attempt = NoAttempt THEN used ELSE used \cup {q.attempt}
  /\ call' = [call EXCEPT ![c] = q]
  /\ phase' = [phase EXCEPT ![c] = "called"]
  /\ UNCHANGED <<record, answer>>

Answer(c, ok, rec) ==
  /\ phase' = [phase EXCEPT ![c] = "done"]
  /\ answer' = [answer EXCEPT ![c] = [ok |-> ok, rec |-> rec]]
  /\ UNCHANGED <<used, call>>

get(c) ==
  /\ phase[c] = "called" /\ call[c].op = "get"
  /\ Answer(c, TRUE, record)
  /\ UNCHANGED record

create_if_absent(c) ==
  /\ phase[c] = "called" /\ call[c].op = "create"
  /\ IF record = Absent
       THEN /\ record' = new_pending(call[c].attempt)
            /\ Answer(c, TRUE, new_pending(call[c].attempt))
       ELSE /\ Answer(c, FALSE, record)
            /\ UNCHANGED record

update(c) ==
  /\ phase[c] = "called" /\ call[c].op = "update"
  /\ record' = IF record = Absent THEN record ELSE with_updates(record, call[c])
  /\ Answer(c, TRUE, Absent)

update_if_attempt(c) ==
  /\ phase[c] = "called" /\ call[c].op = "update_if_attempt"
  /\ IF record # Absent /\ record.attempt = call[c].expected
       THEN /\ record' = with_updates(record, call[c])
            /\ Answer(c, TRUE, Absent)
       ELSE /\ Answer(c, FALSE, Absent)
            /\ UNCHANGED record

\* The record's time to live runs out.
Expire ==
  /\ Expires
  /\ record # Absent
  /\ record' = Absent
  /\ UNCHANGED <<used, call, phase, answer>>

Operation(c) ==
  get(c) \/ create_if_absent(c) \/ update(c) \/ update_if_attempt(c)

Next ==
  \/ \E c \in Callers :
       \/ \E q \in Requests : Invoke(c, q)
       \/ Operation(c)
  \/ Expire

Spec == Init /\ [][Next]_vars
=============================================================================
