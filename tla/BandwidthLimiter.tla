---------------------------- MODULE BandwidthLimiter ----------------------------
(***************************************************************************)
(* The token bucket of a rule, shared by its connections, protocols and    *)
(* directions (internal/forward/bandwidth.go).                             *)
(*                                                                         *)
(* The section of Wait under limiter.mu is one step, and so are Update and *)
(* Close; the mutex of the queue is held across the sleep between two      *)
(* sections.  Time is counted in the shortest sleep, a millisecond, and    *)
(* kept as what has passed since the last refill.                          *)
(***************************************************************************)
EXTENDS Naturals

CONSTANTS
  Callers,     \* goroutines that call Wait
  Rates,       \* limiter.rate, in bytes for each unit of time
  Quarter,     \* units of time in a quarter of a second
  MinBurst,    \* minimumBandwidthBurst
  MaxBurst,    \* maximumBandwidthBurst
  Sizes,       \* byte counts passed to Wait
  Nobody       \* no caller

ASSUME RatesAssumption == Rates \subseteq Nat /\ Rates # {}
ASSUME BurstAssumption ==
  Quarter \in Nat /\ MinBurst \in Nat \ {0} /\ MaxBurst \in Nat /\ MinBurst <= MaxBurst
ASSUME SizesAssumption == Sizes \subseteq Nat \ {0}
ASSUME NobodyAssumption == Nobody \notin Callers

VARIABLES
  rate, tokens,  \* limiter.rate and limiter.tokens
  since,         \* time passed since limiter.lastRefill
  closed,        \* limiter.closed
  holder,        \* the caller that holds limiter.queue
  pc,            \* where each caller is in Wait
  remaining,     \* bytes it still has to wait for
  left,          \* what is left of the holder's timer
  notified,      \* the notify channel the holder captured is closed
  done,          \* the done channel of each caller is closed
  result         \* what Wait last returned

vars == <<rate, tokens, since, closed, holder, pc, remaining, left, notified, done, result>>
bucket == <<rate, tokens, since, closed>>

Least(m, n) == IF m <= n THEN m ELSE n
Greatest(m, n) == IF m <= n THEN n ELSE m

\* The capacity updateLocked gives to a rate.
Burst(r) == Least(Greatest(r * Quarter, MinBurst), MaxBurst)

Init ==
  /\ rate \in Rates /\ tokens = Burst(rate) /\ since = 0 /\ closed = FALSE
  /\ holder = Nobody
  /\ pc = [c \in Callers |-> "idle"]
  /\ remaining = [c \in Callers |-> 0]
  /\ left = 0 /\ notified = FALSE
  /\ done = [c \in Callers |-> FALSE]
  /\ result = [c \in Callers |-> "nil"]

\* refillLocked: what the tokens are once the time that has passed is counted.
Refilled == Least(Burst(rate), tokens + since * rate)

--------------------------------------------------------------------------------
\* A positive byte count: the caller goes for the queue.
Enter(c, n) ==
  /\ pc[c] = "idle"
  /\ pc' = [pc EXCEPT ![c] = "queue"]
  /\ remaining' = [remaining EXCEPT ![c] = n]
  /\ done' = [done EXCEPT ![c] = FALSE]
  /\ result' = [result EXCEPT ![c] = "none"]
  /\ UNCHANGED bucket /\ UNCHANGED <<holder, left, notified>>

Acquire(c) ==
  /\ pc[c] = "queue" /\ holder = Nobody
  /\ holder' = c
  /\ pc' = [pc EXCEPT ![c] = "loop"]
  /\ UNCHANGED bucket /\ UNCHANGED <<remaining, left, notified, done, result>>

\* Wait returns and gives up the queue.
Return(c, outcome) ==
  /\ pc' = [pc EXCEPT ![c] = "idle"]
  /\ remaining' = [remaining EXCEPT ![c] = 0]
  /\ result' = [result EXCEPT ![c] = outcome]
  /\ holder' = Nobody /\ left' = 0 /\ notified' = FALSE
  /\ UNCHANGED done

TakeAllOrNothing(c) == IF Refilled >= remaining[c] THEN remaining[c] ELSE 0

Take(c) == Least(Refilled, remaining[c])

\* The timer: the time to earn what is missing, at most a full bucket, rounded
\* down and at least one unit.
Sleep(amount) == Greatest(Least(amount, Burst(rate)) \div rate, 1)

FailClosed(c) ==
  /\ pc[c] = "loop" /\ closed
  /\ Return(c, "error")
  /\ UNCHANGED bucket

PassUnlimited(c) ==
  /\ pc[c] = "loop" /\ ~closed /\ rate = 0
  /\ since' = 0
  /\ Return(c, "nil")
  /\ UNCHANGED <<rate, tokens, closed>>

TakeTokens(c) ==
  /\ pc[c] = "loop" /\ ~closed /\ rate > 0
  /\ tokens' = Refilled - Take(c) /\ since' = 0
  /\ IF Take(c) = remaining[c]
       THEN Return(c, "nil")
       ELSE /\ remaining' = [remaining EXCEPT ![c] = remaining[c] - Take(c)]
            /\ pc' = [pc EXCEPT ![c] = "select"]
            /\ left' = Sleep(remaining[c] - Take(c)) /\ notified' = FALSE
            /\ UNCHANGED <<holder, done, result>>
  /\ UNCHANGED <<rate, closed>>

\* The timer fires or the captured notify channel is closed.
Wake(c) ==
  /\ pc[c] = "select" /\ (left = 0 \/ notified)
  /\ pc' = [pc EXCEPT ![c] = "loop"]
  /\ left' = 0 /\ notified' = FALSE
  /\ UNCHANGED bucket /\ UNCHANGED <<holder, remaining, done, result>>

GiveUp(c) ==
  /\ pc[c] = "select" /\ done[c]
  /\ Return(c, "error")
  /\ UNCHANGED bucket

--------------------------------------------------------------------------------
UpdateWithoutRefill(r) ==
  /\ ~closed /\ r # rate
  /\ rate' = r
  /\ tokens' = Least(Burst(r), tokens)
  /\ notified' = (\E c \in Callers : pc[c] = "select")
  /\ UNCHANGED <<since, closed, holder, pc, remaining, left, done, result>>

\* Update: the tokens of the old rate are credited, the new burst cuts them, and
\* whoever sleeps looks again.
Update(r) ==
  /\ ~closed /\ r # rate
  /\ rate' = r
  /\ tokens' = Least(Burst(r), Refilled) /\ since' = 0
  /\ notified' = (\E c \in Callers : pc[c] = "select")
  /\ UNCHANGED <<closed, holder, pc, remaining, left, done, result>>

CloseSilently ==
  /\ ~closed /\ closed' = TRUE
  /\ UNCHANGED <<rate, tokens, since, holder, pc, remaining, left, notified, done, result>>

Close ==
  /\ ~closed /\ closed' = TRUE
  /\ notified' = (\E c \in Callers : pc[c] = "select")
  /\ UNCHANGED <<rate, tokens, since, holder, pc, remaining, left, done, result>>

\* The connection, session or forwarder a caller works for is closed.
CloseDone(c) ==
  /\ pc[c] # "idle" /\ ~done[c]
  /\ done' = [done EXCEPT ![c] = TRUE]
  /\ UNCHANGED bucket /\ UNCHANGED <<holder, pc, remaining, left, notified, result>>

\* After MaxBurst units a bucket is full at every rate: more need not be counted.
Tick ==
  /\ since' = Least(since + 1, MaxBurst)
  /\ left' = IF left > 0 THEN left - 1 ELSE 0
  /\ UNCHANGED <<rate, tokens, closed, holder, pc, remaining, notified, done, result>>

Next ==
  \/ \E c \in Callers :
       \/ \E n \in Sizes : Enter(c, n)
       \/ Acquire(c) \/ FailClosed(c) \/ PassUnlimited(c) \/ TakeTokens(c)
       \/ Wake(c) \/ GiveUp(c) \/ CloseDone(c)
  \/ \E r \in Rates : Update(r)
  \/ Close \/ Tick

Spec == Init /\ [][Next]_vars

--------------------------------------------------------------------------------
\* Goroutines run and the mutex of the queue lets everyone in at last (a Go
\* mutex hands itself over to whoever has waited for a millisecond).
Fairness ==
  \A c \in Callers :
    /\ SF_vars(Acquire(c))
    /\ WF_vars(FailClosed(c) \/ PassUnlimited(c) \/ TakeTokens(c))
    /\ WF_vars(Wake(c)) /\ WF_vars(GiveUp(c))

FairSpec == Spec /\ Fairness

Limit == INSTANCE RateLimit WITH allowance <- Refilled, due <- remaining, answer <- result

\* A bucket that is filled only when someone looks at it passes no byte that one
\* filled all the time would not, also when the rate is changed while callers sleep:
\* what was earned before is credited at the old rate, what comes after at the new.
ImplementsRateLimit == Limit!Spec

\* Close releases every caller without waiting for a timer, the sleeping one as
\* well as those behind it in the queue, whose done channels nobody looks at.
CloseReleases == \A c \in Callers : (closed /\ pc[c] # "idle") ~> (pc[c] = "idle")

\* As long as time passes no Wait lasts for ever: not when more bytes are asked for
\* than the bucket holds, nor when the rate is changed again and again.  (Only a
\* limit that is lifted and imposed for ever could always miss the caller.)
WaitEnds ==
  []<><<Tick>>_vars /\ (<>[](rate = 0) \/ <>[](rate # 0)) =>
    \A c \in Callers : (pc[c] # "idle") ~> (pc[c] = "idle")
================================================================================
