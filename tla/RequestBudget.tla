---------------------------- MODULE RequestBudget ----------------------------
(***************************************************************************)
(* The shared OpenAI budget (OpenAIRequestBudget) and the backoff around   *)
(* the calls that draw on it (ExponentialBackoff).  Workers call OpenAI    *)
(* through execute(); turns are agent runs, whose model calls only take a  *)
(* slot with acquire_async() and may be cancelled.                         *)
(*                                                                         *)
(* Redis keeps one counter per second.  Time goes by in ticks, Second of   *)
(* them to a second; deadlines and sleeps are timers, and a timer that has *)
(* run out is served before the next tick.  A second's key is known by its *)
(* age, 0 being the current second's.                                      *)
(***************************************************************************)
EXTENDS Integers

CONSTANTS
  Workers,            \* threads that run execute()
  Turns,              \* coroutines that run acquire_async()
  Process,            \* Process[c]: the process c runs in
  RequestsPerMinute,  \* OPENAI_RPM_LIMIT
  MaxWait,            \* OPENAI_BUDGET_MAX_WAIT_SECONDS, in ticks
  MaxRetries,         \* BACKOFF_MAX_RETRIES
  MaxBackoff,         \* BACKOFF_MAX_WAIT_SECONDS, in ticks
  RetryAfter,         \* the waits OpenAI may ask for, in ticks; 0 is no hint
  DownTime,           \* _REDIS_RETRY_SECONDS, in ticks
  RedisTime,          \* longest time from int(time.time()) to Redis's answer
  Second,             \* ticks in a second
  Jitter              \* bound of the jitter added to a sleep, in ticks

Callers == Workers \cup Turns
Processes == {Process[c] : c \in Callers}

ASSUME BudgetAssumption ==
  /\ RequestsPerMinute \in Nat
  /\ MaxWait \in Nat /\ MaxBackoff \in Nat /\ RetryAfter \subseteq Nat
  /\ MaxRetries \in Nat \ {0}
  /\ DownTime \in Nat /\ RedisTime \in Nat /\ Jitter \in Nat
  /\ Second \in Nat \ {0}
  /\ Workers \cap Turns = {}

VARIABLES
  at,       \* at[c]: where caller c is
  attempt,  \* attempt[c]: the attempts of its execute() that were refused
  wait,     \* wait[c]: what is left of its sleep, or of its Redis call
  waited,   \* waited[c]: time since its acquire() began
  key,      \* key[c]: the age of the second its Redis call counts against
  used,     \* used[k]: the counter of the second of age k
  expires,  \* expires[k]: when that key expires
  handed,   \* history: handed[k], the slots that second's counter handed out
  down,     \* down[p]: time process p still does without the budget
  phase     \* ticks since the current second began

budgetVars == <<at, attempt, wait, waited, key, used, expires, handed, down,
                phase>>

enabled == RequestsPerMinute > 0
per_second == (RequestsPerMinute + 59) \div 60

\* No Redis call is older than RedisTime.
Age == 0..((RedisTime + Second - 1) \div Second)

\* acquire() has let its caller through: it may "call", with a slot or because
\* there is no budget, or calls "late", having waited long enough.
Through == {"call", "late"}

Smaller(m, n) == IF m <= n THEN m ELSE n
Larger(m, n) == IF m <= n THEN n ELSE m

BudgetInit ==
  /\ at = [c \in Callers |-> "idle"]
  /\ attempt = [c \in Callers |-> 0]
  /\ wait = [c \in Callers |-> 0] /\ waited = [c \in Callers |-> 0]
  /\ key = [c \in Callers |-> 0]
  /\ used = [k \in Age |-> 0] /\ expires = [k \in Age |-> 0]
  /\ handed = [k \in Age |-> 0]
  /\ down = [p \in Processes |-> 0]
  /\ phase = 0

Goto(c, place) == at' = [at EXCEPT ![c] = place]

----------------------------------------------------------------------------
(* take_slot, poll, acquire *)

\* skips
Skips(c) == ~enabled \/ down[Process[c]] > 0

\* poll sends its INCR for the second that is now.
Poll(c) ==
  /\ Goto(c, "poll")
  /\ key' = [key EXCEPT ![c] = 0]
  /\ wait' = [wait EXCEPT ![c] = RedisTime]

\* acquire begins: for a new call, or for the next attempt of one.
Acquire(c) ==
  /\ at[c] = "idle" \/ (at[c] = "backoff" /\ wait[c] = 0)
  /\ waited' = [waited EXCEPT ![c] = 0]
  /\ \/ Skips(c) /\ Goto(c, "call") /\ UNCHANGED <<key, wait>>
     \/ ~Skips(c) /\ Poll(c)
  /\ UNCHANGED <<attempt, used, expires, handed, down, phase>>

\* What INCR returns; every count that is too high is the same one.
Incr(k) == Smaller(used[k] + 1, per_second + 1)

\* INCR and EXPIRE run in Redis as one transaction.
Count(k) ==
  /\ used' = [used EXCEPT ![k] = Incr(k)]
  /\ expires' = [expires EXCEPT ![k] = 2 * Second]

\* Faulty: compares the count before the INCR.
Room_before(n) == n - 1 <= per_second

\* The n-th request of a second has a slot.
Room(n) == n <= per_second

\* Faulty: looks at the time that has passed, not at the time of waking up.
past_deadline_now(c, sleep) == waited[c] > MaxWait

past_deadline(c, sleep) == waited[c] + sleep > MaxWait

\* A RedisError switches the budget off for the whole process.
LetThroughOpen(c) ==
  /\ Goto(c, "call")
  /\ down' = [down EXCEPT ![Process[c]] = DownTime]
  /\ waited' = [waited EXCEPT ![c] = 0]
  /\ wait' = [wait EXCEPT ![c] = 0]
  /\ key' = [key EXCEPT ![c] = 0]

\* The answer: a slot, a sleep into the next second, or no time for one.
Answered(c) ==
  /\ at[c] = "poll"
  /\ Count(key[c])
  /\ key' = [key EXCEPT ![c] = 0]
  /\ \/ /\ Room(Incr(key[c]))
        /\ handed' = [handed EXCEPT ![key[c]] = @ + 1]
        /\ Goto(c, "call")
        /\ wait' = [wait EXCEPT ![c] = 0] /\ waited' = [waited EXCEPT ![c] = 0]
     \/ /\ ~Room(Incr(key[c]))
        /\ \E j \in 0..Jitter :
             LET sleep == Second - phase + j
             IN  IF past_deadline(c, sleep)
                   THEN Goto(c, "late") /\ wait' = [wait EXCEPT ![c] = 0]
                   ELSE Goto(c, "sleep") /\ wait' = [wait EXCEPT ![c] = sleep]
        /\ UNCHANGED <<handed, waited>>
  /\ UNCHANGED <<attempt, down, phase>>

\* The request is counted and its answer is lost.
AnswerLost(c) ==
  /\ at[c] = "poll"
  /\ Count(key[c])
  /\ LetThroughOpen(c)
  /\ UNCHANGED <<attempt, handed, phase>>

\* The request does not reach Redis.
RedisFails(c) ==
  /\ at[c] = "poll"
  /\ LetThroughOpen(c)
  /\ UNCHANGED <<attempt, used, expires, handed, phase>>

WakeUp(c) ==
  /\ at[c] = "sleep" /\ wait[c] = 0
  /\ Poll(c)
  /\ UNCHANGED <<attempt, waited, used, expires, handed, down, phase>>

----------------------------------------------------------------------------
(* execute, and a turn's model call *)

\* A turn goes on to its model call, or it is cancelled at an await.  The
\* thread of a cancelled poll runs on, and nobody takes its answer.
TurnLeaves(c) ==
  /\ c \in Turns
  /\ at[c] \in Through \cup {"sleep"}
  /\ Goto(c, "idle")
  /\ wait' = [wait EXCEPT ![c] = 0] /\ waited' = [waited EXCEPT ![c] = 0]
  /\ UNCHANGED <<attempt, key, used, expires, handed, down, phase>>

EndCall(c) ==
  /\ Goto(c, "idle")
  /\ attempt' = [attempt EXCEPT ![c] = 0]
  /\ waited' = [waited EXCEPT ![c] = 0]
  /\ UNCHANGED <<wait, key, used, expires, handed, down, phase>>

\* OpenAI answers, or the error is raised again: one that is_rate_limit_error
\* rules out (an exhausted quota among them), or the 429 of the last attempt.
CallEnds(c) == c \in Workers /\ at[c] \in Through /\ EndCall(c)

\* wait_seconds
BackoffTimes(n) ==
  {Smaller(Larger(2^n * Second + j, hint), MaxBackoff) :
     j \in 0..Second, hint \in RetryAfter}

\* Faulty: there is no last attempt.
Refusal_unbounded(c) ==
  /\ c \in Workers /\ at[c] \in Through
  /\ Goto(c, "backoff")
  /\ \E t \in BackoffTimes(attempt[c]) : wait' = [wait EXCEPT ![c] = t]
  /\ attempt' = [attempt EXCEPT ![c] = @ + 1]
  /\ waited' = [waited EXCEPT ![c] = 0]
  /\ UNCHANGED <<key, used, expires, handed, down, phase>>

\* Faulty: the attempts are bounded, but not counted.
Refusal_uncounted(c) ==
  /\ c \in Workers /\ at[c] \in Through
  /\ attempt[c] < MaxRetries - 1
  /\ Goto(c, "backoff")
  /\ \E t \in BackoffTimes(attempt[c]) : wait' = [wait EXCEPT ![c] = t]
  /\ waited' = [waited EXCEPT ![c] = 0]
  /\ UNCHANGED <<attempt, key, used, expires, handed, down, phase>>

\* Any other 429 is slept over.
Refusal(c) ==
  /\ c \in Workers /\ at[c] \in Through
  /\ attempt[c] < MaxRetries - 1
  /\ Goto(c, "backoff")
  /\ \E t \in BackoffTimes(attempt[c]) : wait' = [wait EXCEPT ![c] = t]
  /\ attempt' = [attempt EXCEPT ![c] = @ + 1]
  /\ waited' = [waited EXCEPT ![c] = 0]
  /\ UNCHANGED <<key, used, expires, handed, down, phase>>

\* A step of a call that is under way.
CallStep(c) ==
  \/ at[c] = "backoff" /\ Acquire(c)
  \/ Answered(c) \/ AnswerLost(c) \/ RedisFails(c) \/ WakeUp(c)
  \/ TurnLeaves(c) \/ CallEnds(c) \/ Refusal(c)

----------------------------------------------------------------------------
(* Time *)

\* f when the seconds are a second older.
Older(f) == [k \in Age |-> IF k = 0 THEN 0 ELSE f[k - 1]]

Tick ==
  LET timed == {c \in Callers : at[c] \in {"poll", "sleep", "backoff"}}
      left == [k \in Age |-> Larger(expires[k] - 1, 0)]
      kept == [k \in Age |-> IF left[k] = 0 THEN 0 ELSE used[k]]
      turn == phase = Second - 1
  IN  /\ \A c \in timed : wait[c] > 0
      /\ wait' = [c \in Callers |-> IF c \in timed THEN wait[c] - 1 ELSE wait[c]]
      /\ waited' = [c \in Callers |-> IF at[c] \in {"poll", "sleep"}
                                        THEN waited[c] + 1 ELSE waited[c]]
      /\ down' = [p \in Processes |-> Larger(down[p] - 1, 0)]
      /\ phase' = IF turn THEN 0 ELSE phase + 1
      /\ expires' = IF turn THEN Older(left) ELSE left
      /\ used' = IF turn THEN Older(kept) ELSE kept
      /\ handed' = IF turn THEN Older(handed) ELSE handed
      /\ key' = [c \in Callers |-> IF turn /\ at[c] = "poll"
                                     THEN key[c] + 1 ELSE key[c]]
      /\ UNCHANGED <<at, attempt>>

BudgetNext == Tick \/ \E c \in Callers : Acquire(c) \/ CallStep(c)

BudgetSpec == BudgetInit /\ [][BudgetNext]_budgetVars

----------------------------------------------------------------------------
(* Properties *)

BudgetTypeOK ==
  /\ at \in [Callers -> {"idle", "poll", "sleep", "backoff"}
                        \cup Through]
  /\ attempt \in [Callers -> 0..(MaxRetries - 1)]
  /\ wait \in [Callers -> Nat] /\ waited \in [Callers -> Nat]
  /\ key \in [Callers -> Age]
  /\ used \in [Age -> 0..(per_second + 1)] /\ handed \in [Age -> Nat]
  /\ expires \in [Age -> 0..(2 * Second)]
  /\ down \in [Processes -> 0..DownTime]
  /\ phase \in 0..(Second - 1)

\* All processes together get no more than per_second slots of one second
\* (rate_limiter.py:26-29, "a Redis counter for the current second, capped at
\* ceil(requests_per_minute / 60)").
CappedPerSecond == \A k \in Age : handed[k] <= per_second

\* A second's counter starts anew only when its key has expired, 2 s after the
\* last request that counted against it (rate_limiter.py:87): however late the
\* requests of that second reach Redis, the slots it hands out grow by at most
\* one share for every 2 s since it began.
SlotsPerSecond == \A k \in Age : handed[k] <= per_second * (1 + k \div 2)

\* Nobody waits for a slot longer than MaxWait and one Redis call, and nobody is
\* let through without one before another second would have been too late
\* (rate_limiter.py:36-37, 115-118).
WaitsItsTime ==
  \A c \in Callers :
    /\ waited[c] <= MaxWait + RedisTime
    /\ at[c] = "late" => waited[c] + Second + Jitter > MaxWait

\* Every call ends, however many others want a slot, with Redis dead or alive
\* and OpenAI refusing (rate_limiter.py:36-37 "Longest acquire() waits for a slot
\* before letting the call through anyway").
CallsEnd == \A c \in Callers : at[c] # "idle" ~> at[c] = "idle"

=============================================================================
