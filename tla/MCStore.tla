------------------------------ MODULE MCStore ------------------------------
(***************************************************************************)
(* A small instance of RedisStatusStore: two fields, two values, and the   *)
(* calls the program makes.  A reset replaces the attempt and both fields, *)
(* a progress write overwrites one field, so a lost update of the other    *)
(* field would be visible.                                                 *)
(***************************************************************************)
EXTENDS RedisStatusStore, TLC

CONSTANTS v0, v1

MCFields == {"status", "error"}
MCValues == {v0, v1}

Write(status, error) ==
  [f \in MCFields |-> IF f = "status" THEN status ELSE error]
Call(op, expected, attempt, patch) ==
  [op |-> op, expected |-> expected, attempt |-> attempt, patch |-> patch]

NoPatch == Write(Keep, Keep)
Creates == {Call("create", NoAttempt, a, NoPatch) : a \in Attempts}
Resets == {Call("update_if_attempt", a, b, Write(v0, v0)) : a, b \in Attempts}
Reports == {Call("update_if_attempt", a, NoAttempt, w) :
              a \in Attempts, w \in {Write(v1, Keep), Write(Keep, v1)}}
Updates == {Call("update", NoAttempt, NoAttempt, w) :
              w \in {Write(v1, Keep), Write(Keep, v1)}}
Gets == {Call("get", NoAttempt, NoAttempt, NoPatch)}

\* What the API and the workers call.
AppRequests == Gets \cup Creates \cup {q \in Resets : q.attempt # q.expected} \cup Reports
\* The same with the store's update(), which the application never calls.
AllRequests == AppRequests \cup Updates

Symmetry == Permutations(Callers) \cup Permutations(Attempts)
=============================================================================
