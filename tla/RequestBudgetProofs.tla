------------------------- MODULE RequestBudgetProofs -------------------------
(***************************************************************************)
(* Proofs about the budget, for any number of callers and processes and    *)
(* any settings.                                                           *)
(*                                                                         *)
(* acquire() bounds its waiting (WaitsItsTime): a sleep is only begun when *)
(* it ends within MaxWait, so what has been waited and what is left of the *)
(* sleep stay within MaxWait together, and the Redis call after it adds at *)
(* most RedisTime.                                                         *)
(*                                                                         *)
(* The types (BudgetTypeOK) hold however slow Redis is: the age of a       *)
(* request's second and what is left of the request stay within RedisTime, *)
(* so it counts against a second that Age still has.                       *)
(*                                                                         *)
(* A second's slots (SlotsPerSecond): its counter lives for 2 s at least   *)
(* before it expires and can start anew, and in one life it hands out no   *)
(* more than one share.  So the lives that are over took 2 s each, out of  *)
(* the time since the second began, and the one that goes on took what is  *)
(* not left of its 2 s.                                                    *)
(***************************************************************************)
EXTENDS RequestBudget, TLAPS

Places == {"idle", "poll", "sleep", "backoff"} \cup Through

\* What may be said of a caller at place a with w of its timer left and d gone.
CallerOK(a, w, d) ==
  /\ a \in Places
  /\ d \in Nat
  /\ a = "poll" => w \in Nat /\ d + w <= MaxWait + RedisTime
  /\ a = "sleep" => w \in Nat /\ d + w <= MaxWait
  /\ a = "late" => d <= MaxWait + RedisTime /\ d + Second + Jitter > MaxWait
  /\ a \in {"idle", "call", "backoff"} => d = 0

\* f is a function of the callers.
OfCallers(f) == f = [c \in Callers |-> f[c]]

WaitingInv ==
  /\ OfCallers(at) /\ OfCallers(wait) /\ OfCallers(waited)
  /\ phase \in 0..(Second - 1)
  /\ \A c \in Callers : CallerOK(at[c], wait[c], waited[c])

\* The settings of the wait are times.
LEMMA Times ==
  /\ MaxWait \in Nat /\ RedisTime \in Nat /\ Jitter \in Nat
  /\ Second \in Nat /\ Second > 0
BY BudgetAssumption

\* No caller has begun to wait.
LEMMA WaitingInit == BudgetInit => WaitingInv
<1> SUFFICES ASSUME BudgetInit PROVE WaitingInv
  OBVIOUS
<1> USE Times
<1>1. OfCallers(at) /\ OfCallers(wait) /\ OfCallers(waited)
  BY DEF BudgetInit, OfCallers
<1>2. phase \in 0..(Second - 1)
  BY DEF BudgetInit
<1>3. \A c \in Callers : CallerOK(at[c], wait[c], waited[c])
  BY DEF BudgetInit, CallerOK, Places
<1> QED BY <1>1, <1>2, <1>3 DEF WaitingInv, OfCallers

\* A step that moves one caller, and no time, keeps the invariant if that
\* caller is all right after it.
LEMMA OneCaller ==
  ASSUME WaitingInv, NEW c \in Callers,
         NEW a, NEW w, NEW d, CallerOK(a, w, d),
         at' = [at EXCEPT ![c] = a],
         wait' = [wait EXCEPT ![c] = w],
         waited' = [waited EXCEPT ![c] = d],
         phase' = phase
  PROVE  WaitingInv'
<1>1. (OfCallers(at) /\ OfCallers(wait) /\ OfCallers(waited))'
  BY DEF WaitingInv, OfCallers
<1>2. (phase \in 0..(Second - 1))'
  BY DEF WaitingInv, OfCallers
<1>3. ASSUME NEW b \in Callers
      PROVE  CallerOK(at[b], wait[b], waited[b])'
  <2>1. CASE b = c
    <3>1. at'[b] = a /\ wait'[b] = w /\ waited'[b] = d
      BY <2>1 DEF WaitingInv, OfCallers
    <3> QED BY <3>1
  <2>2. CASE b # c
    <3>1. at'[b] = at[b] /\ wait'[b] = wait[b] /\ waited'[b] = waited[b]
      BY <2>2 DEF WaitingInv, OfCallers
    <3> QED BY <3>1 DEF WaitingInv, OfCallers
  <2> QED BY <2>1, <2>2
<1> QED BY <1>1, <1>2, <1>3 DEF WaitingInv, OfCallers, CallerOK

\* An assignment of the value a function has changes nothing.
LEMMA Same ==
  ASSUME WaitingInv, NEW c \in Callers
  PROVE  /\ at = [at EXCEPT ![c] = at[c]]
         /\ wait = [wait EXCEPT ![c] = wait[c]]
         /\ waited = [waited EXCEPT ![c] = waited[c]]
BY DEF WaitingInv, OfCallers

\* A caller that may go on, or has ended, has waited nothing.
LEMMA AtRest ==
  ASSUME NEW a \in {"idle", "call", "backoff"}, NEW w
  PROVE  CallerOK(a, w, 0)
BY Times DEF CallerOK, Places, Through

----------------------------------------------------------------------------

LEMMA AcquireKeeps ==
  ASSUME WaitingInv, NEW c \in Callers, Acquire(c)
  PROVE  WaitingInv'
<1>1. CASE Skips(c) /\ Goto(c, "call") /\ UNCHANGED <<key, wait>>
  <2>1. CallerOK("call", wait[c], 0)
    BY AtRest
  <2>2. at' = [at EXCEPT ![c] = "call"]
    BY <1>1 DEF Goto
  <2>3. wait' = [wait EXCEPT ![c] = wait[c]]
    BY <1>1, Same
  <2>4. waited' = [waited EXCEPT ![c] = 0] /\ phase' = phase
    BY DEF Acquire
  <2> QED BY <2>1, <2>2, <2>3, <2>4, OneCaller
<1>2. CASE Poll(c)
  <2>1. CallerOK("poll", RedisTime, 0)
    BY Times DEF CallerOK, Places
  <2>2. at' = [at EXCEPT ![c] = "poll"] /\ wait' = [wait EXCEPT ![c] = RedisTime]
    BY <1>2 DEF Poll, Goto
  <2>3. waited' = [waited EXCEPT ![c] = 0] /\ phase' = phase
    BY DEF Acquire
  <2> QED BY <2>1, <2>2, <2>3, OneCaller
<1> QED BY <1>1, <1>2 DEF Acquire

\* The one step that decides on a sleep.
LEMMA AnsweredKeeps ==
  ASSUME WaitingInv, NEW c \in Callers, Answered(c)
  PROVE  WaitingInv'
<1>1. phase' = phase /\ at[c] = "poll"
  BY DEF Answered
<1>2. /\ waited[c] \in Nat /\ wait[c] \in Nat
      /\ waited[c] + wait[c] <= MaxWait + RedisTime
  BY <1>1 DEF WaitingInv, OfCallers, CallerOK
<1>3. CASE /\ Goto(c, "call")
           /\ wait' = [wait EXCEPT ![c] = 0] /\ waited' = [waited EXCEPT ![c] = 0]
  <2>1. CallerOK("call", 0, 0)
    BY AtRest
  <2>2. at' = [at EXCEPT ![c] = "call"]
    BY <1>3 DEF Goto
  <2> QED BY <1>1, <1>3, <2>1, <2>2, OneCaller
<1>4. CASE /\ \E j \in 0..Jitter :
                LET sleep == Second - phase + j
                IN  IF past_deadline(c, sleep)
                      THEN Goto(c, "late") /\ wait' = [wait EXCEPT ![c] = 0]
                      ELSE Goto(c, "sleep") /\ wait' = [wait EXCEPT ![c] = sleep]
           /\ UNCHANGED <<handed, waited>>
  <2>1. PICK j \in 0..Jitter :
          IF past_deadline(c, Second - phase + j)
            THEN Goto(c, "late") /\ wait' = [wait EXCEPT ![c] = 0]
            ELSE /\ Goto(c, "sleep")
                 /\ wait' = [wait EXCEPT ![c] = Second - phase + j]
    BY <1>4
  <2> DEFINE sleep == Second - phase + j
  <2>2. sleep \in Nat /\ sleep <= Second + Jitter
    BY <2>1, Times DEF WaitingInv, OfCallers
  <2>3. waited' = [waited EXCEPT ![c] = waited[c]]
    BY <1>4, Same
  <2> HIDE DEF sleep
  <2>4. CASE past_deadline(c, sleep)
    <3>1. waited[c] + sleep > MaxWait
      BY <2>4 DEF past_deadline
    <3>2. CallerOK("late", 0, waited[c])
      BY <3>1, <2>2, <1>2, Times DEF CallerOK, Places, Through
    <3>3. at' = [at EXCEPT ![c] = "late"] /\ wait' = [wait EXCEPT ![c] = 0]
      BY <2>1, <2>4 DEF sleep, Goto
    <3> QED BY <1>1, <2>3, <3>2, <3>3, OneCaller
  <2>5. CASE ~past_deadline(c, sleep)
    <3>1. waited[c] + sleep <= MaxWait
      BY <2>5, <2>2, <1>2, Times DEF past_deadline
    <3>2. CallerOK("sleep", sleep, waited[c])
      BY <3>1, <2>2, <1>2, Times DEF CallerOK, Places, Through
    <3>3. at' = [at EXCEPT ![c] = "sleep"] /\ wait' = [wait EXCEPT ![c] = sleep]
      BY <2>1, <2>5 DEF sleep, Goto
    <3> QED BY <1>1, <2>3, <3>2, <3>3, OneCaller
  <2> QED BY <2>4, <2>5
<1> QED BY <1>3, <1>4 DEF Answered

\* A budget that is switched off lets its caller through.
LEMMA LetThroughKeeps ==
  ASSUME WaitingInv, NEW c \in Callers, LetThroughOpen(c), phase' = phase
  PROVE  WaitingInv'
<1>1. CallerOK("call", 0, 0)
  BY AtRest
<1>2. at' = [at EXCEPT ![c] = "call"]
  BY DEF LetThroughOpen, Goto
<1>3. wait' = [wait EXCEPT ![c] = 0] /\ waited' = [waited EXCEPT ![c] = 0]
  BY DEF LetThroughOpen
<1> QED BY <1>1, <1>2, <1>3, OneCaller

LEMMA WakeUpKeeps ==
  ASSUME WaitingInv, NEW c \in Callers, WakeUp(c)
  PROVE  WaitingInv'
<1>1. at[c] = "sleep" /\ wait[c] = 0 /\ Poll(c) /\ phase' = phase
  BY DEF WakeUp
<1>2. waited[c] \in Nat /\ waited[c] <= MaxWait
  BY <1>1, Times DEF WaitingInv, OfCallers, CallerOK
<1>3. CallerOK("poll", RedisTime, waited[c])
  BY <1>2, Times DEF CallerOK, Places
<1>4. at' = [at EXCEPT ![c] = "poll"] /\ wait' = [wait EXCEPT ![c] = RedisTime]
  BY <1>1 DEF Poll, Goto
<1>5. waited' = [waited EXCEPT ![c] = waited[c]]
  BY Same DEF WakeUp
<1> QED BY <1>1, <1>3, <1>4, <1>5, OneCaller

LEMMA TurnLeavesKeeps ==
  ASSUME WaitingInv, NEW c \in Callers, TurnLeaves(c)
  PROVE  WaitingInv'
<1>1. CallerOK("idle", 0, 0)
  BY AtRest
<1>2. at' = [at EXCEPT ![c] = "idle"]
  BY DEF TurnLeaves, Goto
<1>3. /\ wait' = [wait EXCEPT ![c] = 0] /\ waited' = [waited EXCEPT ![c] = 0]
      /\ phase' = phase
  BY DEF TurnLeaves
<1> QED BY <1>1, <1>2, <1>3, OneCaller

LEMMA CallEndsKeeps ==
  ASSUME WaitingInv, NEW c \in Callers, CallEnds(c)
  PROVE  WaitingInv'
<1>1. CallerOK("idle", wait[c], 0)
  BY AtRest
<1>2. at' = [at EXCEPT ![c] = "idle"]
  BY DEF CallEnds, EndCall, Goto
<1>3. wait' = [wait EXCEPT ![c] = wait[c]]
  BY Same DEF CallEnds, EndCall
<1>4. waited' = [waited EXCEPT ![c] = 0] /\ phase' = phase
  BY DEF CallEnds, EndCall
<1> QED BY <1>1, <1>2, <1>3, <1>4, OneCaller

LEMMA RefusalKeeps ==
  ASSUME WaitingInv, NEW c \in Callers, Refusal(c)
  PROVE  WaitingInv'
<1>1. PICK t \in BackoffTimes(attempt[c]) : wait' = [wait EXCEPT ![c] = t]
  BY DEF Refusal
<1>2. CallerOK("backoff", t, 0)
  BY AtRest
<1>3. at' = [at EXCEPT ![c] = "backoff"]
  BY DEF Refusal, Goto
<1>4. waited' = [waited EXCEPT ![c] = 0] /\ phase' = phase
  BY DEF Refusal
<1> QED BY <1>1, <1>2, <1>3, <1>4, OneCaller

\* A tick takes from what is left what it adds to what has been waited.
LEMMA TickKeeps ==
  ASSUME WaitingInv, Tick
  PROVE  WaitingInv'
<1> DEFINE timed == {c \in Callers : at[c] \in {"poll", "sleep", "backoff"}}
<1>1. /\ \A c \in timed : wait[c] > 0
      /\ wait' = [c \in Callers |-> IF c \in timed THEN wait[c] - 1 ELSE wait[c]]
      /\ waited' = [c \in Callers |-> IF at[c] \in {"poll", "sleep"}
                                        THEN waited[c] + 1 ELSE waited[c]]
      /\ phase' = IF phase = Second - 1 THEN 0 ELSE phase + 1
      /\ at' = at
  BY DEF Tick
<1>2. (OfCallers(at) /\ OfCallers(wait) /\ OfCallers(waited))'
  BY <1>1 DEF WaitingInv, OfCallers
<1>3. (phase \in 0..(Second - 1))'
  BY <1>1, Times DEF WaitingInv, OfCallers
<1>4. ASSUME NEW c \in Callers
      PROVE  CallerOK(at'[c], wait'[c], waited'[c])
  <2>1. at'[c] = at[c] /\ CallerOK(at[c], wait[c], waited[c])
    BY <1>1 DEF WaitingInv, OfCallers
  <2>2. CASE at[c] \in {"poll", "sleep"}
    <3>1. /\ wait'[c] = wait[c] - 1 /\ wait[c] > 0
          /\ waited'[c] = waited[c] + 1
      BY <1>1, <2>2
    <3>2. wait[c] \in Nat /\ waited[c] \in Nat
      BY <2>1, <2>2 DEF CallerOK
    <3>3. /\ wait'[c] \in Nat /\ waited'[c] \in Nat
          /\ waited'[c] + wait'[c] = waited[c] + wait[c]
      BY <3>1, <3>2
    <3> QED BY <2>1, <2>2, <3>3 DEF CallerOK
  <2>3. CASE at[c] \notin {"poll", "sleep"}
    <3>1. waited'[c] = waited[c]
      BY <1>1, <2>3
    <3> QED BY <2>1, <2>3, <3>1 DEF CallerOK
  <2> QED BY <2>2, <2>3
<1> QED BY <1>2, <1>3, <1>4 DEF WaitingInv, OfCallers, CallerOK

LEMMA WaitingStep == WaitingInv /\ [BudgetNext]_budgetVars => WaitingInv'
<1> SUFFICES ASSUME WaitingInv, [BudgetNext]_budgetVars PROVE WaitingInv'
  OBVIOUS
<1>1. CASE Tick
  BY <1>1, TickKeeps
<1>2. ASSUME NEW c \in Callers, Acquire(c) \/ CallStep(c)
      PROVE  WaitingInv'
  <2>1. CASE Acquire(c)
    BY <2>1, AcquireKeeps
  <2>2. CASE Answered(c)
    BY <2>2, AnsweredKeeps
  <2>3. CASE AnswerLost(c)
    <3>1. LetThroughOpen(c) /\ phase' = phase
      BY <2>3 DEF AnswerLost
    <3> QED BY <3>1, LetThroughKeeps
  <2>4. CASE RedisFails(c)
    <3>1. LetThroughOpen(c) /\ phase' = phase
      BY <2>4 DEF RedisFails
    <3> QED BY <3>1, LetThroughKeeps
  <2>5. CASE WakeUp(c)
    BY <2>5, WakeUpKeeps
  <2>6. CASE TurnLeaves(c)
    BY <2>6, TurnLeavesKeeps
  <2>7. CASE CallEnds(c)
    BY <2>7, CallEndsKeeps
  <2>8. CASE Refusal(c)
    BY <2>8, RefusalKeeps
  <2> QED BY <1>2, <2>1, <2>2, <2>3, <2>4, <2>5, <2>6, <2>7, <2>8 DEF CallStep
<1>3. CASE UNCHANGED budgetVars
  BY <1>3 DEF budgetVars, WaitingInv, OfCallers, CallerOK
<1> QED BY <1>1, <1>2, <1>3 DEF BudgetNext

\* What the invariant says of a caller at each place bounds its wait.
LEMMA WaitingImplies == WaitingInv => WaitsItsTime
<1> SUFFICES ASSUME WaitingInv, NEW c \in Callers
             PROVE  /\ waited[c] <= MaxWait + RedisTime
                    /\ at[c] = "late" => waited[c] + Second + Jitter > MaxWait
  BY DEF WaitsItsTime
<1>1. CallerOK(at[c], wait[c], waited[c])
  BY DEF WaitingInv, OfCallers
<1> QED BY <1>1, Times DEF CallerOK, Places, Through

\* Nobody waits for a slot longer than MaxWait and one Redis call, and nobody
\* goes without one early, for any callers and settings
\* (rate_limiter.py:36-37, 115-143).
THEOREM WaitsItsTimeHolds == BudgetSpec => []WaitsItsTime
<1>1. BudgetSpec => []WaitingInv
  BY WaitingInit, WaitingStep, PTL DEF BudgetSpec
<1> QED BY <1>1, WaitingImplies, PTL

----------------------------------------------------------------------------
(* Types *)

LEMMA PerSecond == per_second \in Nat
BY BudgetAssumption DEF per_second

\* What a caller's Redis call and timer may be: the second it counts against is
\* no older than the time since the call was sent.
CallTyped(a, n, w, d, k, ph) ==
  /\ a \in Places /\ n \in 0..(MaxRetries - 1)
  /\ w \in Nat /\ d \in Nat /\ k \in Nat
  /\ a = "poll" => k * Second + ph + w <= RedisTime + (Second - 1)
  /\ a # "poll" => k = 0

CallsTyped ==
  /\ OfCallers(at) /\ OfCallers(attempt) /\ OfCallers(wait) /\ OfCallers(waited)
  /\ OfCallers(key)
  /\ phase \in 0..(Second - 1)
  /\ \A c \in Callers : CallTyped(at[c], attempt[c], wait[c], waited[c], key[c], phase)

Counter == 0..(per_second + 1)

KeysTyped ==
  /\ used \in [Age -> Counter] /\ handed \in [Age -> Nat]
  /\ expires \in [Age -> 0..(2 * Second)]
  /\ down \in [Processes -> 0..DownTime]

BudgetTyped == CallsTyped /\ KeysTyped

\* A number of whole seconds within a time is at most its quotient.
LEMMA WholeSeconds ==
  ASSUME NEW m \in Nat, NEW n \in Nat, NEW S \in Nat \ {0}, n * S <= m
  PROVE  n <= m \div S
OBVIOUS

LEMMA KeyAge ==
  ASSUME CallsTyped, NEW c \in Callers
  PROVE  key[c] \in Age
<1>1. CallTyped(at[c], attempt[c], wait[c], waited[c], key[c], phase)
  BY DEF CallsTyped
<1>2. PICK top : top = RedisTime + Second - 1
  OBVIOUS
<1>3. top \in Nat /\ top = RedisTime + (Second - 1)
  BY <1>2, Times
<1>4. key[c] * Second <= top /\ key[c] \in Nat
  <2>1. CASE at[c] = "poll"
    <3>1. key[c] \in Nat /\ wait[c] \in Nat /\ phase \in Nat /\ Second \in Nat
      BY <1>1, Times DEF CallTyped, CallsTyped
    <3>2. key[c] * Second + phase + wait[c] <= top
      BY <1>1, <1>3, <2>1 DEF CallTyped
    <3>3. PICK secs : secs = key[c] * Second
      OBVIOUS
    <3>4. secs \in Int
      BY <3>1, <3>3
    <3>5. secs <= top
      BY <1>3, <3>1, <3>2, <3>3, <3>4
    <3>6. QED
      BY <3>1, <3>3, <3>5
  <2>2. CASE at[c] # "poll"
    <3>1. key[c] = 0
      BY <1>1, <2>2 DEF CallTyped
    <3>2. 0 * Second = 0
      BY Times
    <3>3. QED
      BY <1>3, <3>1, <3>2
  <2>3. QED
    BY <2>1, <2>2
<1>5. key[c] <= top \div Second
  BY <1>3, <1>4, Times, WholeSeconds
<1>6. top \div Second \in Nat
  BY <1>3, Times
<1>7. QED
  BY <1>2, <1>4, <1>5, <1>6 DEF Age

LEMMA TypedImplies == BudgetTyped => BudgetTypeOK
<1> SUFFICES ASSUME BudgetTyped PROVE BudgetTypeOK
  OBVIOUS
<1>1. \A c \in Callers :
        /\ at[c] \in Places /\ attempt[c] \in 0..(MaxRetries - 1)
        /\ wait[c] \in Nat /\ waited[c] \in Nat /\ key[c] \in Age
  BY KeyAge DEF BudgetTyped, CallsTyped, CallTyped
<1>2. /\ at \in [Callers -> Places] /\ attempt \in [Callers -> 0..(MaxRetries - 1)]
      /\ wait \in [Callers -> Nat] /\ waited \in [Callers -> Nat] /\ key \in [Callers -> Age]
  BY <1>1 DEF BudgetTyped, CallsTyped, OfCallers
<1>3. QED
  BY <1>2 DEF BudgetTyped, CallsTyped, KeysTyped, Counter, BudgetTypeOK, Places

\* A step that moves one caller, and no time.
LEMMA OneCallTyped ==
  ASSUME CallsTyped, NEW c \in Callers, NEW a, NEW n, NEW w, NEW d, NEW k,
         CallTyped(a, n, w, d, k, phase),
         at' = [at EXCEPT ![c] = a], attempt' = [attempt EXCEPT ![c] = n],
         wait' = [wait EXCEPT ![c] = w], waited' = [waited EXCEPT ![c] = d],
         key' = [key EXCEPT ![c] = k], phase' = phase
  PROVE  CallsTyped'
<1>1. /\ OfCallers(at)' /\ OfCallers(attempt)' /\ OfCallers(wait)' /\ OfCallers(waited)'
      /\ OfCallers(key)'
  BY DEF CallsTyped, OfCallers
<1>2. ASSUME NEW b \in Callers
      PROVE  CallTyped(at'[b], attempt'[b], wait'[b], waited'[b], key'[b], phase')
  <2>1. CASE b = c
    <3>1. at'[b] = a /\ attempt'[b] = n /\ wait'[b] = w /\ waited'[b] = d /\ key'[b] = k
      BY <2>1 DEF CallsTyped, OfCallers
    <3>2. QED
      BY <3>1
  <2>2. CASE b # c
    <3>1. /\ at'[b] = at[b] /\ attempt'[b] = attempt[b] /\ wait'[b] = wait[b]
          /\ waited'[b] = waited[b] /\ key'[b] = key[b]
      BY <2>2 DEF CallsTyped, OfCallers
    <3>2. QED
      BY <3>1 DEF CallsTyped
  <2>3. QED
    BY <2>1, <2>2
<1>3. phase' \in 0..(Second - 1)
  BY DEF CallsTyped
<1>4. CallsTyped' = (/\ OfCallers(at)' /\ OfCallers(attempt)' /\ OfCallers(wait)'
                     /\ OfCallers(waited)' /\ OfCallers(key)'
                     /\ phase' \in 0..(Second - 1)
                     /\ \A b \in Callers :
                          CallTyped(at'[b], attempt'[b], wait'[b], waited'[b], key'[b], phase'))
  BY DEF CallsTyped, CallTyped
<1>5. QED
  BY <1>1, <1>2, <1>3, <1>4

\* What stays, as an assignment.
LEMMA SameTyped ==
  ASSUME CallsTyped, NEW c \in Callers
  PROVE  /\ at = [at EXCEPT ![c] = at[c]] /\ attempt = [attempt EXCEPT ![c] = attempt[c]]
         /\ wait = [wait EXCEPT ![c] = wait[c]] /\ waited = [waited EXCEPT ![c] = waited[c]]
         /\ key = [key EXCEPT ![c] = key[c]]
         /\ attempt[c] \in 0..(MaxRetries - 1)
         /\ wait[c] \in Nat /\ waited[c] \in Nat /\ phase \in Nat
         /\ at[c] # "poll" => key[c] = 0
<1>1. /\ at = [at EXCEPT ![c] = at[c]] /\ attempt = [attempt EXCEPT ![c] = attempt[c]]
      /\ wait = [wait EXCEPT ![c] = wait[c]] /\ waited = [waited EXCEPT ![c] = waited[c]]
      /\ key = [key EXCEPT ![c] = key[c]]
  BY DEF CallsTyped, OfCallers
<1>2. CallTyped(at[c], attempt[c], wait[c], waited[c], key[c], phase)
  BY DEF CallsTyped
<1>3. /\ attempt[c] \in 0..(MaxRetries - 1) /\ wait[c] \in Nat /\ waited[c] \in Nat
      /\ at[c] # "poll" => key[c] = 0
  BY <1>2 DEF CallTyped
<1>4. phase \in Nat
  BY Times DEF CallsTyped
<1>5. QED
  BY <1>1, <1>3, <1>4

\* A caller that is not at Redis, and one that has just sent its request.
LEMMA NotPolling ==
  ASSUME NEW a \in Places, a # "poll", NEW n \in 0..(MaxRetries - 1), NEW w \in Nat,
         NEW d \in Nat
  PROVE  CallTyped(a, n, w, d, 0, phase)
BY DEF CallTyped

LEMMA JustPolling ==
  ASSUME CallsTyped, NEW n \in 0..(MaxRetries - 1), NEW d \in Nat
  PROVE  CallTyped("poll", n, RedisTime, d, 0, phase)
<1>1. phase \in Nat /\ phase <= Second - 1 /\ Second \in Nat /\ RedisTime \in Nat
  BY Times DEF CallsTyped
<1>2. 0 * Second = 0
  BY <1>1
<1>3. 0 * Second + phase + RedisTime <= RedisTime + (Second - 1)
  BY <1>1, <1>2
<1>4. QED
  BY <1>1, <1>3 DEF CallTyped, Places

LEMMA AcquireTyped ==
  ASSUME CallsTyped, NEW c \in Callers, Acquire(c)
  PROVE  CallsTyped'
<1>1. /\ waited' = [waited EXCEPT ![c] = 0] /\ UNCHANGED <<attempt, phase>> /\ at[c] # "poll"
  BY DEF Acquire
<1>2. /\ attempt' = [attempt EXCEPT ![c] = attempt[c]]
      /\ attempt[c] \in 0..(MaxRetries - 1) /\ wait[c] \in Nat
  BY <1>1, SameTyped
<1>3. CASE Skips(c) /\ Goto(c, "call") /\ UNCHANGED <<key, wait>>
  <2>1. CallTyped("call", attempt[c], wait[c], 0, 0, phase)
    BY <1>2, NotPolling DEF Places, Through
  <2>2. /\ wait' = [wait EXCEPT ![c] = wait[c]] /\ key' = [key EXCEPT ![c] = 0]
        /\ at' = [at EXCEPT ![c] = "call"]
    BY <1>1, <1>3, SameTyped DEF Goto
  <2>3. QED
    BY <1>1, <1>2, <2>1, <2>2, OneCallTyped
<1>4. CASE Poll(c)
  <2>1. CallTyped("poll", attempt[c], RedisTime, 0, 0, phase)
    BY <1>2, JustPolling
  <2>2. /\ wait' = [wait EXCEPT ![c] = RedisTime] /\ key' = [key EXCEPT ![c] = 0]
        /\ at' = [at EXCEPT ![c] = "poll"]
    BY <1>4 DEF Poll, Goto
  <2>3. QED
    BY <1>1, <1>2, <2>1, <2>2, OneCallTyped
<1>5. QED
  BY <1>3, <1>4 DEF Acquire

LEMMA AnsweredTyped ==
  ASSUME CallsTyped, NEW c \in Callers, Answered(c)
  PROVE  CallsTyped'
<1>1. key' = [key EXCEPT ![c] = 0] /\ UNCHANGED <<attempt, phase>>
  BY DEF Answered
<1>2. /\ attempt' = [attempt EXCEPT ![c] = attempt[c]]
      /\ attempt[c] \in 0..(MaxRetries - 1) /\ waited[c] \in Nat
  BY <1>1, SameTyped
<1>3. PICK a \in {"call", "late", "sleep"}, w \in Nat, d \in {0, waited[c]} :
        /\ at' = [at EXCEPT ![c] = a] /\ wait' = [wait EXCEPT ![c] = w]
        /\ waited' = [waited EXCEPT ![c] = d]
  <2>1. CASE /\ Goto(c, "call")
             /\ wait' = [wait EXCEPT ![c] = 0] /\ waited' = [waited EXCEPT ![c] = 0]
    BY <2>1 DEF Goto
  <2>2. ASSUME waited' = waited, NEW j \in 0..Jitter,
               IF past_deadline(c, Second - phase + j)
                 THEN Goto(c, "late") /\ wait' = [wait EXCEPT ![c] = 0]
                 ELSE Goto(c, "sleep") /\ wait' = [wait EXCEPT ![c] = Second - phase + j]
        PROVE  \E a \in {"call", "late", "sleep"}, w \in Nat, d \in {0, waited[c]} :
                 /\ at' = [at EXCEPT ![c] = a] /\ wait' = [wait EXCEPT ![c] = w]
                 /\ waited' = [waited EXCEPT ![c] = d]
    <3>1. PICK sleep : sleep = Second - phase + j
      OBVIOUS
    <3>2. sleep \in Nat
      BY <3>1, Times DEF CallsTyped
    <3>3. waited' = [waited EXCEPT ![c] = waited[c]]
      BY <2>2, SameTyped
    <3>4. \/ at' = [at EXCEPT ![c] = "late"] /\ wait' = [wait EXCEPT ![c] = 0]
          \/ at' = [at EXCEPT ![c] = "sleep"] /\ wait' = [wait EXCEPT ![c] = sleep]
      BY <2>2, <3>1 DEF Goto
    <3>5. QED
      BY <3>2, <3>3, <3>4
  <2>3. QED
    BY <2>1, <2>2 DEF Answered
<1>4. CallTyped(a, attempt[c], w, d, 0, phase)
  BY <1>2, <1>3, NotPolling DEF Places, Through
<1>5. QED
  BY <1>1, <1>2, <1>3, <1>4, OneCallTyped

LEMMA BackoffTyped ==
  ASSUME NEW n \in Nat, NEW t \in BackoffTimes(n)
  PROVE  t \in Nat
<1>1. PICK j \in 0..Second, hint \in RetryAfter :
        t = Smaller(Larger(2^n * Second + j, hint), MaxBackoff)
  BY DEF BackoffTimes
<1>2. hint \in Nat /\ MaxBackoff \in Nat /\ Second \in Nat /\ j \in Nat
  BY <1>1, BudgetAssumption
<1>3. 2^n \in Int
  OBVIOUS
<1>4. PICK x : x = 2^n * Second + j
  OBVIOUS
<1>5. x \in Int
  BY <1>2, <1>3, <1>4
<1>6. Larger(x, hint) \in Nat
  BY <1>2, <1>5 DEF Larger
<1>7. QED
  BY <1>1, <1>2, <1>4, <1>6 DEF Smaller

LEMMA RefusalTyped ==
  ASSUME CallsTyped, NEW c \in Callers, Refusal(c)
  PROVE  CallsTyped'
<1>1. /\ attempt[c] < MaxRetries - 1 /\ at[c] \in Through
      /\ waited' = [waited EXCEPT ![c] = 0] /\ UNCHANGED <<key, phase>>
      /\ at' = [at EXCEPT ![c] = "backoff"]
  BY DEF Refusal, Goto
<1>2. attempt[c] \in 0..(MaxRetries - 1) /\ key' = [key EXCEPT ![c] = 0]
  BY <1>1, SameTyped DEF Through
<1>3. PICK n : n = attempt[c] + 1
  OBVIOUS
<1>4. n \in 0..(MaxRetries - 1) /\ attempt[c] \in Nat
  BY <1>1, <1>2, <1>3, BudgetAssumption
<1>5. attempt' = [attempt EXCEPT ![c] = n]
  BY <1>3 DEF Refusal
<1>6. PICK t \in BackoffTimes(attempt[c]) : wait' = [wait EXCEPT ![c] = t]
  BY DEF Refusal
<1>7. t \in Nat
  BY <1>4, BackoffTyped
<1>8. CallTyped("backoff", n, t, 0, 0, phase)
  BY <1>4, <1>7, NotPolling DEF Places
<1>9. QED
  BY <1>1, <1>2, <1>5, <1>6, <1>8, OneCallTyped

\* The steps with nothing to compute.
LEMMA OthersTyped ==
  ASSUME CallsTyped, NEW c \in Callers,
         AnswerLost(c) \/ RedisFails(c) \/ WakeUp(c) \/ TurnLeaves(c) \/ CallEnds(c)
  PROVE  CallsTyped'
<1>1. /\ attempt = [attempt EXCEPT ![c] = attempt[c]] /\ wait = [wait EXCEPT ![c] = wait[c]]
      /\ waited = [waited EXCEPT ![c] = waited[c]] /\ key = [key EXCEPT ![c] = key[c]]
      /\ attempt[c] \in 0..(MaxRetries - 1)
      /\ wait[c] \in Nat /\ waited[c] \in Nat
      /\ at[c] # "poll" => key[c] = 0
  BY SameTyped
<1>2. 0 \in 0..(MaxRetries - 1)
  BY BudgetAssumption
<1>3. CASE AnswerLost(c) \/ RedisFails(c)
  <2>1. /\ at' = [at EXCEPT ![c] = "call"] /\ wait' = [wait EXCEPT ![c] = 0]
        /\ waited' = [waited EXCEPT ![c] = 0] /\ key' = [key EXCEPT ![c] = 0]
        /\ UNCHANGED <<attempt, phase>>
    BY <1>3 DEF AnswerLost, RedisFails, LetThroughOpen, Goto
  <2>2. CallTyped("call", attempt[c], 0, 0, 0, phase)
    BY <1>1, NotPolling DEF Places, Through
  <2>3. QED
    BY <1>1, <2>1, <2>2, OneCallTyped
<1>4. CASE WakeUp(c)
  <2>1. /\ at' = [at EXCEPT ![c] = "poll"] /\ wait' = [wait EXCEPT ![c] = RedisTime]
        /\ key' = [key EXCEPT ![c] = 0] /\ UNCHANGED <<attempt, waited, phase>>
    BY <1>4 DEF WakeUp, Poll, Goto
  <2>2. CallTyped("poll", attempt[c], RedisTime, waited[c], 0, phase)
    BY <1>1, JustPolling
  <2>3. QED
    BY <1>1, <2>1, <2>2, OneCallTyped
<1>5. CASE TurnLeaves(c)
  <2>1. /\ at' = [at EXCEPT ![c] = "idle"] /\ wait' = [wait EXCEPT ![c] = 0]
        /\ waited' = [waited EXCEPT ![c] = 0] /\ UNCHANGED <<attempt, key, phase>>
        /\ at[c] # "poll"
    BY <1>5 DEF TurnLeaves, Goto, Through
  <2>2. CallTyped("idle", attempt[c], 0, 0, 0, phase)
    BY <1>1, NotPolling DEF Places
  <2>3. key[c] = 0
    BY <1>1, <2>1
  <2>4. key' = [key EXCEPT ![c] = 0] /\ attempt' = [attempt EXCEPT ![c] = attempt[c]]
    BY <1>1, <2>1, <2>3
  <2>5. QED
    BY <1>1, <2>1, <2>2, <2>4, OneCallTyped
<1>6. CASE CallEnds(c)
  <2>1. /\ at' = [at EXCEPT ![c] = "idle"] /\ attempt' = [attempt EXCEPT ![c] = 0]
        /\ waited' = [waited EXCEPT ![c] = 0] /\ UNCHANGED <<wait, key, phase>>
        /\ at[c] # "poll"
    BY <1>6 DEF CallEnds, EndCall, Goto, Through
  <2>2. CallTyped("idle", 0, wait[c], 0, 0, phase)
    BY <1>1, <1>2, NotPolling DEF Places
  <2>3. key[c] = 0
    BY <1>1, <2>1
  <2>4. key' = [key EXCEPT ![c] = 0] /\ wait' = [wait EXCEPT ![c] = wait[c]]
    BY <1>1, <2>1, <2>3
  <2>5. QED
    BY <1>1, <1>2, <2>1, <2>2, <2>4, OneCallTyped
<1>7. QED
  BY <1>3, <1>4, <1>5, <1>6

\* A second that ends makes the request a second older, and the phase as much
\* less.
LEMMA NextSecond ==
  ASSUME NEW k \in Nat, NEW w \in Nat, w > 0, NEW S \in Nat,
         NEW most, k * S + (S - 1) + w <= most
  PROVE  (k + 1) * S + 0 + (w - 1) <= most
<1>1. (k + 1) * S + 0 + (w - 1) = k * S + (S - 1) + w
  OBVIOUS
<1>2. QED
  BY <1>1

LEMMA TickTyped ==
  ASSUME CallsTyped, Tick
  PROVE  CallsTyped'
<1> DEFINE timed == {c \in Callers : at[c] \in {"poll", "sleep", "backoff"}}
           turn == phase = Second - 1
<1>1. /\ \A c \in timed : wait[c] > 0
      /\ wait' = [c \in Callers |-> IF c \in timed THEN wait[c] - 1 ELSE wait[c]]
      /\ waited' = [c \in Callers |-> IF at[c] \in {"poll", "sleep"}
                                        THEN waited[c] + 1 ELSE waited[c]]
      /\ phase' = IF turn THEN 0 ELSE phase + 1
      /\ key' = [c \in Callers |-> IF turn /\ at[c] = "poll" THEN key[c] + 1 ELSE key[c]]
      /\ UNCHANGED <<at, attempt>>
  BY DEF Tick
<1>2. phase \in Nat /\ phase <= Second - 1 /\ Second \in Nat /\ Second > 0
  BY Times DEF CallsTyped
<1>3. phase' \in 0..(Second - 1)
  BY <1>1, <1>2
<1>4. /\ OfCallers(at)' /\ OfCallers(attempt)' /\ OfCallers(wait)' /\ OfCallers(waited)'
      /\ OfCallers(key)'
  BY <1>1 DEF CallsTyped, OfCallers
<1>5. ASSUME NEW c \in Callers
      PROVE  CallTyped(at[c], attempt[c], wait'[c], waited'[c], key'[c], phase')
  <2>1. CallTyped(at[c], attempt[c], wait[c], waited[c], key[c], phase)
    BY DEF CallsTyped
  <2>2. /\ at[c] \in Places /\ attempt[c] \in 0..(MaxRetries - 1) /\ wait[c] \in Nat
        /\ waited[c] \in Nat /\ key[c] \in Nat
    BY <2>1 DEF CallTyped
  <2>3. wait'[c] \in Nat /\ waited'[c] \in Nat
    <3>1. c \in timed => wait[c] > 0
      BY <1>1
    <3>2. wait'[c] = wait[c] \/ (wait'[c] = wait[c] - 1 /\ wait[c] > 0)
      BY <1>1, <3>1
    <3>3. waited'[c] = waited[c] \/ waited'[c] = waited[c] + 1
      BY <1>1
    <3>4. QED
      BY <2>2, <3>2, <3>3
  <2>4. CASE at[c] # "poll"
    <3>1. key'[c] = 0 /\ key[c] = 0
      BY <1>1, <2>1, <2>4 DEF CallTyped
    <3>2. QED
      BY <2>2, <2>3, <2>4, <3>1 DEF CallTyped
  <2>5. CASE at[c] = "poll"
    <3>1. wait'[c] = wait[c] - 1 /\ wait[c] > 0
      BY <1>1, <2>5
    <3>2. key[c] * Second + phase + wait[c] <= RedisTime + (Second - 1)
      BY <2>1, <2>5 DEF CallTyped
    <3>3. key'[c] \in Nat /\ key'[c] * Second + phase' + wait'[c] <= RedisTime + (Second - 1)
      <4>1. CASE turn
        <5>1. key'[c] = key[c] + 1 /\ phase' = 0
          BY <1>1, <2>5, <4>1
        <5>2. key[c] * Second + (Second - 1) + wait[c] <= RedisTime + (Second - 1)
          BY <3>2, <4>1
        <5>3. (key[c] + 1) * Second + 0 + (wait[c] - 1) <= RedisTime + (Second - 1)
          BY <1>2, <2>2, <3>1, <5>2, NextSecond
        <5>4. QED
          BY <2>2, <3>1, <5>1, <5>3
      <4>2. CASE ~turn
        <5>1. key'[c] = key[c] /\ phase' = phase + 1
          BY <1>1, <4>2
        <5>2. PICK secs : secs = key[c] * Second
          OBVIOUS
        <5>3. secs \in Int
          BY <1>2, <2>2, <5>2
        <5>4. secs + (phase + 1) + (wait[c] - 1) = secs + phase + wait[c]
          BY <1>2, <2>2, <5>3
        <5>5. QED
          BY <2>2, <3>1, <3>2, <5>1, <5>2, <5>4
      <4>3. QED
        BY <4>1, <4>2
    <3>4. QED
      BY <2>2, <2>3, <2>5, <3>3 DEF CallTyped
  <2>6. QED
    BY <2>4, <2>5
<1>6. ASSUME NEW c \in Callers
      PROVE  CallTyped(at[c], attempt[c], wait[c], waited[c], key[c], phase)'
  <2>1. at' = at /\ attempt' = attempt
    BY <1>1
  <2>2. QED
    BY <1>5, <2>1 DEF CallTyped
<1>7. QED
  BY <1>3, <1>4, <1>6 DEF CallsTyped

\* The keys.
LEMMA OlderTyped ==
  ASSUME NEW S, 0 \in S, NEW f \in [Age -> S]
  PROVE  Older(f) \in [Age -> S]
<1>1. ASSUME NEW k \in Age, k # 0
      PROVE  k - 1 \in Age
  BY <1>1, BudgetAssumption DEF Age
<1>2. QED
  BY <1>1 DEF Older

LEMMA KeysTypedStep ==
  ASSUME BudgetTyped, NEW c \in Callers, Acquire(c) \/ CallStep(c)
  PROVE  KeysTyped'
<1>1. KeysTyped
  BY DEF BudgetTyped
<1>2. used' = used \/ used' = [used EXCEPT ![key[c]] = Incr(key[c])]
  BY DEF Acquire, CallStep, Answered, AnswerLost, RedisFails, WakeUp, TurnLeaves, CallEnds, EndCall,
         Refusal, Count
<1>3. expires' = expires \/ expires' = [expires EXCEPT ![key[c]] = 2 * Second]
  BY DEF Acquire, CallStep, Answered, AnswerLost, RedisFails, WakeUp, TurnLeaves, CallEnds, EndCall,
         Refusal, Count
<1>4. handed' = handed \/ handed' = [handed EXCEPT ![key[c]] = @ + 1]
  BY DEF Acquire, CallStep, Answered, AnswerLost, RedisFails, WakeUp, TurnLeaves, CallEnds, EndCall,
         Refusal
<1>5. down' = down \/ down' = [down EXCEPT ![Process[c]] = DownTime]
  BY DEF Acquire, CallStep, Answered, AnswerLost, RedisFails, WakeUp, TurnLeaves, CallEnds, EndCall,
         Refusal, LetThroughOpen
<1>6. key[c] \in Age
  BY KeyAge DEF BudgetTyped
<1>7. used' \in [Age -> Counter]
  <2>1. used[key[c]] \in Counter /\ per_second \in Nat
    BY <1>1, <1>6, PerSecond DEF KeysTyped
  <2>2. Incr(key[c]) \in Counter
    BY <2>1 DEF Incr, Smaller, Counter
  <2>3. QED
    BY <1>1, <1>2, <1>6, <2>2 DEF KeysTyped
<1>8. expires' \in [Age -> 0..(2 * Second)]
  <2>1. 2 * Second \in 0..(2 * Second)
    BY Times
  <2>2. QED
    BY <1>1, <1>3, <1>6, <2>1 DEF KeysTyped
<1>9. handed' \in [Age -> Nat]
  <2>1. handed[key[c]] + 1 \in Nat
    BY <1>1, <1>6 DEF KeysTyped
  <2>2. QED
    BY <1>1, <1>4, <1>6, <2>1 DEF KeysTyped
<1>10. down' \in [Processes -> 0..DownTime]
  <2>1. DownTime \in 0..DownTime
    BY BudgetAssumption
  <2>2. Process[c] \in Processes
    BY DEF Processes
  <2>3. QED
    BY <1>1, <1>5, <2>1, <2>2 DEF KeysTyped
<1>11. QED
  BY <1>7, <1>8, <1>9, <1>10 DEF KeysTyped

LEMMA KeysTypedTick ==
  ASSUME KeysTyped, Tick
  PROVE  KeysTyped'
<1> DEFINE left == [k \in Age |-> Larger(expires[k] - 1, 0)]
           kept == [k \in Age |-> IF left[k] = 0 THEN 0 ELSE used[k]]
<1>1. /\ down' = [p \in Processes |-> Larger(down[p] - 1, 0)]
      /\ expires' = left \/ expires' = Older(left)
      /\ used' = kept \/ used' = Older(kept)
      /\ handed' = handed \/ handed' = Older(handed)
  BY DEF Tick
<1>2. left \in [Age -> 0..(2 * Second)]
  <2>1. ASSUME NEW k \in Age PROVE Larger(expires[k] - 1, 0) \in 0..(2 * Second)
    <3>1. expires[k] \in 0..(2 * Second) /\ 2 * Second \in Nat
      BY Times DEF KeysTyped
    <3>2. QED
      BY <3>1 DEF Larger
  <2>2. QED
    BY <2>1
<1>3. 0 \in Counter /\ 0 \in 0..(2 * Second) /\ 0 \in Nat
  BY PerSecond, Times DEF Counter
<1>4. kept \in [Age -> Counter]
  BY <1>3 DEF KeysTyped
<1> HIDE DEF left, kept
<1>5. expires' \in [Age -> 0..(2 * Second)]
  BY <1>1, <1>2, <1>3, OlderTyped
<1>6. used' \in [Age -> Counter]
  BY <1>1, <1>3, <1>4, OlderTyped
<1>7. handed' \in [Age -> Nat]
  BY <1>1, <1>3, OlderTyped DEF KeysTyped
<1>8. down' \in [Processes -> 0..DownTime]
  <2>1. ASSUME NEW p \in Processes PROVE Larger(down[p] - 1, 0) \in 0..DownTime
    <3>1. down[p] \in 0..DownTime /\ DownTime \in Nat
      BY BudgetAssumption DEF KeysTyped
    <3>2. QED
      BY <3>1 DEF Larger
  <2>2. QED
    BY <1>1, <2>1
<1>9. QED
  BY <1>5, <1>6, <1>7, <1>8 DEF KeysTyped

LEMMA BudgetTypedAlways == BudgetSpec => []BudgetTyped
<1>1. BudgetInit => BudgetTyped
  <2> SUFFICES ASSUME BudgetInit PROVE BudgetTyped
    OBVIOUS
  <2>1. OfCallers(at) /\ OfCallers(attempt) /\ OfCallers(wait) /\ OfCallers(waited) /\ OfCallers(key)
    BY DEF BudgetInit, OfCallers
  <2>2. phase \in 0..(Second - 1)
    BY Times DEF BudgetInit
  <2>3. ASSUME NEW c \in Callers
        PROVE  CallTyped(at[c], attempt[c], wait[c], waited[c], key[c], phase)
    <3>1. /\ at[c] = "idle" /\ attempt[c] = 0 /\ wait[c] = 0 /\ waited[c] = 0 /\ key[c] = 0
      BY DEF BudgetInit
    <3>2. 0 \in 0..(MaxRetries - 1)
      BY BudgetAssumption
    <3>3. QED
      BY <3>1, <3>2, NotPolling DEF Places
  <2>4. KeysTyped
    BY PerSecond, Times, BudgetAssumption DEF BudgetInit, KeysTyped, Counter
  <2>5. QED
    BY <2>1, <2>2, <2>3, <2>4 DEF BudgetTyped, CallsTyped
<1>2. BudgetTyped /\ [BudgetNext]_budgetVars => BudgetTyped'
  <2> SUFFICES ASSUME BudgetTyped, [BudgetNext]_budgetVars PROVE BudgetTyped'
    OBVIOUS
  <2>1. CASE Tick
    BY <2>1, TickTyped, KeysTypedTick DEF BudgetTyped
  <2>2. ASSUME NEW c \in Callers, Acquire(c) \/ CallStep(c)
        PROVE  BudgetTyped'
    <3>1. KeysTyped'
      BY <2>2, KeysTypedStep
    <3>2. CallsTyped'
      BY <2>2, AcquireTyped, AnsweredTyped, RefusalTyped, OthersTyped DEF CallStep, BudgetTyped
    <3>3. QED
      BY <3>1, <3>2 DEF BudgetTyped
  <2>3. CASE UNCHANGED budgetVars
    BY <2>3 DEF budgetVars, BudgetTyped, CallsTyped, CallTyped, OfCallers, KeysTyped
  <2>4. QED
    BY <2>1, <2>2, <2>3 DEF BudgetNext
<1>3. QED
  BY <1>1, <1>2, PTL DEF BudgetSpec

\* The budget keeps its types, for any callers and settings; no request counts
\* against a second that is further back than a Redis call takes.
LEMMA BudgetTypeInvariant == BudgetSpec => []BudgetTypeOK
BY BudgetTypedAlways, TypedImplies, PTL

----------------------------------------------------------------------------
(* The slots of a second *)

\* A counter at u, which expires in e, had n lives before this one in the time t
\* since its second began, and handed out no more than h.
Lives(n, h, u, e, t) ==
  /\ h <= per_second * n + Smaller(u, per_second)
  /\ (IF u = 0 THEN n ELSE n + 1) * (2 * Second) <= t + e

Spent(h, u, e, t) == \E n \in Nat : Lives(n, h, u, e, t)

CountsInv ==
  \A k \in Age :
    /\ used[k] = 0 => expires[k] = 0
    /\ Spent(handed[k], used[k], expires[k], k * Second + phase)

\* One factor more is one share more.
LEMMA OneMore ==
  ASSUME NEW p \in Nat, NEW n \in Nat
  PROVE  p * n \in Nat /\ p * (n + 1) = p * n + p /\ (n + 1) * p = n * p + p
OBVIOUS

\* An INCR keeps to the share of the counter's life, or begins a life.
LEMMA CountedOnce ==
  ASSUME NEW h \in Nat, NEW u \in Counter, NEW e \in 0..(2 * Second), NEW t \in Nat,
         u = 0 => e = 0, Spent(h, u, e, t),
         NEW v, v = Smaller(u + 1, per_second + 1)
  PROVE  /\ Spent(h, v, 2 * Second, t)
         /\ Room(v) => Spent(h + 1, v, 2 * Second, t)
<1> USE Times, PerSecond
<1>1. PICK n \in Nat : Lives(n, h, u, e, t)
  BY DEF Spent
<1>2. PICK shares : shares = per_second * n
  OBVIOUS
<1>3. shares \in Nat
  BY <1>2, OneMore
<1>4. PICK lives : lives = (n + 1) * (2 * Second)
  OBVIOUS
<1>5. lives <= t + 2 * Second
  <2>1. CASE u = 0
    <3>1. n * (2 * Second) <= t /\ n * (2 * Second) \in Nat
      BY <1>1, <2>1, OneMore DEF Lives
    <3>2. lives = n * (2 * Second) + 2 * Second
      BY <1>4, OneMore
    <3> QED BY <3>1, <3>2
  <2>2. CASE u # 0
    <3>1. lives <= t + e
      BY <1>1, <1>4, <2>2 DEF Lives
    <3>2. lives \in Nat
      BY <1>4, OneMore
    <3> QED BY <3>1, <3>2
  <2> QED BY <2>1, <2>2
<1>6. h <= shares + Smaller(u, per_second)
  BY <1>1, <1>2 DEF Lives
<1>7. /\ u \in Nat /\ v \in Nat /\ v # 0
      /\ Smaller(u, per_second) <= Smaller(v, per_second)
      /\ Room(v) => Smaller(v, per_second) = Smaller(u, per_second) + 1
      /\ Smaller(u, per_second) \in Nat /\ Smaller(v, per_second) \in Nat
  BY DEF Smaller, Room, Counter
<1>8. Lives(n, h, v, 2 * Second, t)
  BY <1>2, <1>3, <1>4, <1>5, <1>6, <1>7 DEF Lives
<1>9. Room(v) => Lives(n, h + 1, v, 2 * Second, t)
  BY <1>2, <1>3, <1>4, <1>5, <1>6, <1>7 DEF Lives
<1> QED BY <1>8, <1>9 DEF Spent

\* A tick takes from what is left of the counter's life, or ends it.
LEMMA SpentTick ==
  ASSUME NEW h \in Nat, NEW u \in Counter, NEW e \in 0..(2 * Second), NEW t \in Nat,
         u = 0 => e = 0, Spent(h, u, e, t),
         NEW e1, e1 = Larger(e - 1, 0), NEW u1, u1 = IF e1 = 0 THEN 0 ELSE u
  PROVE  (u1 = 0 => e1 = 0) /\ Spent(h, u1, e1, t + 1)
<1> USE Times, PerSecond
<1>1. PICK n \in Nat : Lives(n, h, u, e, t)
  BY DEF Spent
<1>2. e1 \in Nat /\ e <= e1 + 1
  BY DEF Larger
<1>3. CASE u1 = u
  <2>1. PICK lives : lives = (IF u = 0 THEN n ELSE n + 1) * (2 * Second)
    OBVIOUS
  <2>2. lives \in Nat
    BY <2>1, OneMore
  <2>3. lives <= t + e
    BY <1>1, <2>1 DEF Lives
  <2>4. lives <= (t + 1) + e1
    BY <1>2, <2>2, <2>3
  <2>5. Lives(n, h, u1, e1, t + 1)
    BY <1>1, <1>3, <2>1, <2>4 DEF Lives
  <2>6. u1 = 0 => e1 = 0
    BY <1>3 DEF Larger
  <2> QED BY <2>5, <2>6 DEF Spent
<1>4. CASE u1 # u
  <2>1. e1 = 0 /\ u1 = 0 /\ u # 0 /\ e <= 1
    BY <1>2, <1>4
  <2>2. PICK lives : lives = (n + 1) * (2 * Second)
    OBVIOUS
  <2>3. lives \in Nat /\ lives <= t + e
    BY <1>1, <2>1, <2>2, OneMore DEF Lives
  <2>4. lives <= (t + 1) + 0
    BY <2>1, <2>3
  <2>5. h <= per_second * (n + 1) + Smaller(0, per_second)
    <3>1. PICK shares : shares = per_second * n
      OBVIOUS
    <3>2. shares \in Nat /\ per_second * (n + 1) = shares + per_second
      BY <3>1, OneMore
    <3>3. h <= shares + Smaller(u, per_second)
      BY <1>1, <3>1 DEF Lives
    <3> QED BY <3>2, <3>3 DEF Smaller, Counter
  <2>6. Lives(n + 1, h, 0, 0, t + 1)
    BY <2>2, <2>4, <2>5 DEF Lives
  <2> QED BY <2>1, <2>6 DEF Spent
<1> QED BY <1>3, <1>4

\* As many lives as fit into k seconds and a part of one.
LEMMA FewLives ==
  ASSUME NEW n \in Nat, NEW k \in Nat, NEW ph \in 0..(Second - 1),
         n * (2 * Second) <= k * Second + ph
  PROVE  n <= k \div 2
<1> USE Times
<1>1. n * 2 <= k
  <2> SUFFICES ASSUME ~ (n * 2 <= k) PROVE FALSE
    OBVIOUS
  <2>1. PICK d \in Nat : n * 2 = k + 1 + d
    <3>1. n * 2 - (k + 1) \in Nat
      OBVIOUS
    <3> QED BY <3>1
  <2>2. n * (2 * Second) = (n * 2) * Second
    OBVIOUS
  <2>3. (k + 1 + d) * Second = k * Second + Second + d * Second
    OBVIOUS
  <2>4. PICK x, y, z : x = n * (2 * Second) /\ y = k * Second /\ z = d * Second
    OBVIOUS
  <2>5. x \in Int /\ y \in Int /\ z \in Nat
    BY <2>4, OneMore
  <2>6. x = y + Second + z /\ x <= y + ph
    BY <2>1, <2>2, <2>3, <2>4
  <2> QED BY <2>5, <2>6
<1> QED BY <1>1, WholeSeconds

\* So the slots of a second are bounded by its age.
LEMMA SpentBounds ==
  ASSUME NEW h \in Nat, NEW u \in Counter, NEW e \in 0..(2 * Second), NEW k \in Nat,
         NEW ph \in 0..(Second - 1), u = 0 => e = 0, Spent(h, u, e, k * Second + ph)
  PROVE  h <= per_second * (1 + k \div 2)
<1> USE Times, PerSecond
<1>1. PICK n \in Nat : Lives(n, h, u, e, k * Second + ph)
  BY DEF Spent
<1>2. PICK t : t = k * Second + ph
  OBVIOUS
<1>3. t \in Nat
  BY <1>2, OneMore
<1>4. n * (2 * Second) <= t
  <2>1. PICK lives : lives = n * (2 * Second)
    OBVIOUS
  <2>2. lives \in Nat /\ (n + 1) * (2 * Second) = lives + 2 * Second
    BY <2>1, OneMore
  <2>3. CASE u = 0
    BY <1>1, <1>2, <1>3, <2>1, <2>3 DEF Lives
  <2>4. CASE u # 0
    <3>1. lives + 2 * Second <= t + e
      BY <1>1, <1>2, <2>2, <2>4 DEF Lives
    <3> QED BY <1>3, <2>1, <2>2, <3>1
  <2> QED BY <2>3, <2>4
<1>5. n <= k \div 2
  BY <1>2, <1>4, FewLives
<1>6. PICK d \in Nat : k \div 2 = n + d
  <2>1. k \div 2 - n \in Nat
    BY <1>5
  <2> QED BY <2>1
<1>7. per_second * (1 + k \div 2) = per_second * n + per_second + per_second * d
  BY <1>6
<1>8. per_second * n \in Nat /\ per_second * d \in Nat
  BY OneMore
<1>9. h <= per_second * n + per_second
  <2>1. h <= per_second * n + Smaller(u, per_second)
    BY <1>1 DEF Lives
  <2>2. Smaller(u, per_second) <= per_second /\ Smaller(u, per_second) \in Nat
    BY DEF Smaller, Counter
  <2> QED BY <1>8, <2>1, <2>2
<1> QED BY <1>7, <1>8, <1>9

LEMMA CountsInit == BudgetInit => CountsInv
<1> SUFFICES ASSUME BudgetInit, NEW k \in Age
             PROVE  /\ used[k] = 0 /\ expires[k] = 0
                    /\ Spent(handed[k], used[k], expires[k], k * Second + phase)
  BY DEF CountsInv
<1>1. used[k] = 0 /\ expires[k] = 0 /\ handed[k] = 0 /\ phase = 0
  BY DEF BudgetInit
<1>2. k \in Nat
  BY BudgetAssumption DEF Age
<1>3. PICK t : t = k * Second + phase
  OBVIOUS
<1>4. t \in Nat
  BY <1>1, <1>2, <1>3, Times, OneMore
<1>5. Lives(0, 0, 0, 0, t)
  <2>1. per_second * 0 = 0 /\ 0 * (2 * Second) = 0
    BY PerSecond, Times
  <2> QED BY <1>4, <2>1, PerSecond DEF Lives, Smaller
<1> QED BY <1>1, <1>3, <1>5 DEF Spent

\* What is typed of one second.
LEMMA SecondTyped ==
  ASSUME BudgetTyped, NEW k \in Age
  PROVE  /\ k \in Nat /\ k * Second + phase \in Nat /\ phase \in 0..(Second - 1)
         /\ used[k] \in Counter /\ expires[k] \in 0..(2 * Second) /\ handed[k] \in Nat
<1>1. k \in Nat
  BY BudgetAssumption DEF Age
<1>2. phase \in 0..(Second - 1)
  BY DEF BudgetTyped, CallsTyped
<1>3. k * Second \in Nat
  BY <1>1, Times, OneMore
<1> QED BY <1>1, <1>2, <1>3, Times DEF BudgetTyped, KeysTyped

\* The INCR of a request.
LEMMA CountKeeps ==
  ASSUME BudgetTyped, CountsInv, NEW n \in Age, Count(n), phase' = phase,
         \/ handed' = handed
         \/ Room(Incr(n)) /\ handed' = [handed EXCEPT ![n] = @ + 1]
  PROVE  CountsInv'
<1> SUFFICES ASSUME NEW k \in Age
             PROVE  /\ used'[k] = 0 => expires'[k] = 0
                    /\ Spent(handed'[k], used'[k], expires'[k], k * Second + phase)
  BY DEF CountsInv
<1>1. /\ used' = [used EXCEPT ![n] = Incr(n)]
      /\ expires' = [expires EXCEPT ![n] = 2 * Second]
      /\ used \in [Age -> Counter] /\ expires \in [Age -> 0..(2 * Second)]
      /\ handed \in [Age -> Nat]
  BY DEF Count, BudgetTyped, KeysTyped
<1>2. /\ used[k] = 0 => expires[k] = 0
      /\ Spent(handed[k], used[k], expires[k], k * Second + phase)
  BY DEF CountsInv
<1>3. CASE k # n
  BY <1>1, <1>2, <1>3
<1>4. CASE k = n
  <2>1. /\ used'[k] = Smaller(used[k] + 1, per_second + 1) /\ expires'[k] = 2 * Second
        /\ Incr(n) = used'[k]
    BY <1>1, <1>4 DEF Incr
  <2>2. /\ Spent(handed[k], used'[k], 2 * Second, k * Second + phase)
        /\ Room(used'[k]) => Spent(handed[k] + 1, used'[k], 2 * Second, k * Second + phase)
    BY <1>2, <2>1, SecondTyped, CountedOnce
  <2>3. used'[k] # 0
    BY <2>1, SecondTyped, PerSecond DEF Smaller, Counter
  <2>4. handed'[k] = handed[k] \/ (Room(used'[k]) /\ handed'[k] = handed[k] + 1)
    BY <1>1, <1>4, <2>1
  <2> QED BY <2>1, <2>2, <2>3, <2>4
<1> QED BY <1>3, <1>4

\* The steps that count nothing.
LEMMA OthersCount ==
  ASSUME CountsInv, UNCHANGED <<used, expires, handed, phase>>
  PROVE  CountsInv'
BY DEF CountsInv

\* When the next second begins, every one has an age more.
LEMMA TickCounts ==
  ASSUME BudgetTyped, CountsInv, Tick
  PROVE  CountsInv'
<1> DEFINE left == [k \in Age |-> Larger(expires[k] - 1, 0)]
           kept == [k \in Age |-> IF left[k] = 0 THEN 0 ELSE used[k]]
<1>1. ASSUME NEW k \in Age
      PROVE  /\ kept[k] = 0 => left[k] = 0
             /\ Spent(handed[k], kept[k], left[k], (k * Second + phase) + 1)
  <2>1. /\ used[k] = 0 => expires[k] = 0
        /\ Spent(handed[k], used[k], expires[k], k * Second + phase)
    BY DEF CountsInv
  <2>2. left[k] = Larger(expires[k] - 1, 0) /\ kept[k] = IF left[k] = 0 THEN 0 ELSE used[k]
    OBVIOUS
  <2> HIDE DEF left, kept
  <2> QED BY <2>1, <2>2, SecondTyped, SpentTick
<1>2. phase \in Nat /\ Second \in Nat
  BY Times DEF BudgetTyped, CallsTyped
<1> SUFFICES ASSUME NEW k \in Age
             PROVE  /\ used'[k] = 0 => expires'[k] = 0
                    /\ Spent(handed'[k], used'[k], expires'[k], k * Second + phase')
  BY DEF CountsInv
<1>3. CASE phase = Second - 1
  <2>1. /\ expires' = Older(left) /\ used' = Older(kept) /\ handed' = Older(handed)
        /\ phase' = 0
    BY <1>3 DEF Tick
  <2> HIDE DEF left, kept
  <2>2. /\ expires'[k] = IF k = 0 THEN 0 ELSE left[k - 1]
        /\ used'[k] = IF k = 0 THEN 0 ELSE kept[k - 1]
        /\ handed'[k] = IF k = 0 THEN 0 ELSE handed[k - 1]
    BY <2>1 DEF Older
  <2>3. CASE k = 0
    <3>1. 0 * Second + 0 = 0
      BY <1>2
    <3>2. Lives(0, 0, 0, 0, 0)
      <4>1. per_second * 0 = 0 /\ 0 * (2 * Second) = 0
        BY PerSecond, Times
      <4> QED BY <4>1, PerSecond DEF Lives, Smaller
    <3> QED BY <2>1, <2>2, <2>3, <3>1, <3>2 DEF Spent
  <2>4. CASE k # 0
    <3>1. k - 1 \in Age /\ k \in Nat
      BY <2>4, BudgetAssumption DEF Age
    <3>2. ((k - 1) * Second + phase) + 1 = k * Second + phase'
      <4>1. (k - 1) * Second = k * Second - Second /\ k * Second \in Int
        BY <1>2, <3>1
      <4> QED BY <1>2, <1>3, <2>1, <4>1
    <3> QED BY <1>1, <2>2, <2>4, <3>1, <3>2
  <2> QED BY <2>3, <2>4
<1>4. CASE phase # Second - 1
  <2>1. /\ expires' = left /\ used' = kept /\ handed' = handed
        /\ phase' = phase + 1
    BY <1>4 DEF Tick
  <2> HIDE DEF left, kept
  <2>2. (k * Second + phase) + 1 = k * Second + phase'
    <3>1. k * Second \in Nat
      BY SecondTyped, <1>2, OneMore
    <3> QED BY <1>2, <2>1, <3>1
  <2> QED BY <1>1, <2>1, <2>2
<1> QED BY <1>3, <1>4

LEMMA CountsStep ==
  ASSUME BudgetTyped, CountsInv, [BudgetNext]_budgetVars
  PROVE  CountsInv'
<1>1. CASE Tick
  BY <1>1, TickCounts
<1>2. ASSUME NEW c \in Callers, Acquire(c) \/ CallStep(c)
      PROVE  CountsInv'
  <2>1. key[c] \in Age
    BY KeyAge DEF BudgetTyped
  <2>2. CASE Answered(c)
    <3>1. /\ Count(key[c]) /\ phase' = phase
          /\ \/ handed' = handed
             \/ Room(Incr(key[c])) /\ handed' = [handed EXCEPT ![key[c]] = @ + 1]
      BY <2>2 DEF Answered
    <3> QED BY <2>1, <3>1, CountKeeps
  <2>3. CASE AnswerLost(c)
    BY <2>1, <2>3, CountKeeps DEF AnswerLost
  <2>4. CASE \/ Acquire(c) \/ RedisFails(c) \/ WakeUp(c) \/ TurnLeaves(c) \/ CallEnds(c)
             \/ Refusal(c)
    <3>1. UNCHANGED <<used, expires, handed, phase>>
      BY <2>4 DEF Acquire, RedisFails, WakeUp, TurnLeaves, CallEnds, EndCall, Refusal
    <3> QED BY <3>1, OthersCount
  <2> QED BY <1>2, <2>2, <2>3, <2>4 DEF CallStep
<1>3. CASE UNCHANGED budgetVars
  BY <1>3, OthersCount DEF budgetVars
<1> QED BY <1>1, <1>2, <1>3 DEF BudgetNext

\* A second hands out one share of slots, and one more for every 2 s that its
\* requests are late, for any callers and settings (rate_limiter.py:75-89).
THEOREM SlotsPerSecondHolds == BudgetSpec => []SlotsPerSecond
<1>1. BudgetTyped /\ CountsInv => SlotsPerSecond
  <2> SUFFICES ASSUME BudgetTyped, CountsInv, NEW k \in Age
               PROVE  handed[k] <= per_second * (1 + k \div 2)
    BY DEF SlotsPerSecond
  <2>1. /\ used[k] = 0 => expires[k] = 0
        /\ Spent(handed[k], used[k], expires[k], k * Second + phase)
    BY DEF CountsInv
  <2> QED BY <2>1, SecondTyped, SpentBounds
<1> QED BY CountsInit, CountsStep, BudgetTypedAlways, <1>1, PTL DEF BudgetSpec

=============================================================================
