------------------------------- MODULE RateLimit --------------------------------
(***************************************************************************)
(* What a rule's bandwidth limit promises (README.md:131): all callers     *)
(* share an allowance that grows by the rate as time passes, up to a       *)
(* burst.  A byte passes only when it is taken from the allowance, or when *)
(* there is no limit; a caller that is refused is told so.                 *)
(***************************************************************************)
EXTENDS Naturals

CONSTANTS
  Callers,    \* goroutines that forward bytes of the rule
  Rates,      \* bytes for each unit of time; 0 stands for no limit
  Burst(_),   \* the most a rate lets accumulate
  Sizes       \* numbers of bytes asked for

VARIABLES
  rate,        \* the limit in force
  allowance,   \* bytes that may pass now
  due,         \* bytes each caller still has to wait for
  answer       \* what each caller was last told, "none" while it waits

vars == <<rate, allowance, due, answer>>

Least(m, n) == IF m <= n THEN m ELSE n

Init ==
  /\ rate \in Rates
  /\ allowance = Burst(rate)
  /\ due = [c \in Callers |-> 0]
  /\ answer = [c \in Callers |-> "nil"]

Earn == allowance' = Least(Burst(rate), allowance + rate) /\ UNCHANGED <<rate, due, answer>>

Ask(c, n) ==
  /\ answer[c] # "none"
  /\ due' = [due EXCEPT ![c] = n] /\ answer' = [answer EXCEPT ![c] = "none"]
  /\ UNCHANGED <<rate, allowance>>

\* n of a caller's bytes are covered; it may go on when all of them are.
Pass(c, n) ==
  /\ answer[c] = "none" /\ n <= due[c] /\ n <= allowance
  /\ allowance' = allowance - n
  /\ due' = [due EXCEPT ![c] = due[c] - n]
  /\ answer' = [answer EXCEPT ![c] = IF n = due[c] THEN "nil" ELSE "none"]
  /\ UNCHANGED rate

Unlimited(c) ==
  /\ answer[c] = "none" /\ rate = 0
  /\ due' = [due EXCEPT ![c] = 0] /\ answer' = [answer EXCEPT ![c] = "nil"]
  /\ UNCHANGED <<rate, allowance>>

Refuse(c) ==
  /\ answer[c] = "none"
  /\ due' = [due EXCEPT ![c] = 0] /\ answer' = [answer EXCEPT ![c] = "error"]
  /\ UNCHANGED <<rate, allowance>>

\* What was earned at the old rate is kept, up to the new burst.
SetRate(r) ==
  /\ rate' = r /\ allowance' = Least(Burst(r), allowance)
  /\ UNCHANGED <<due, answer>>

Next ==
  \/ Earn
  \/ \E r \in Rates : SetRate(r)
  \/ \E c \in Callers : \/ \E n \in Sizes : Ask(c, n)
                        \/ \E n \in 0 .. due[c] : Pass(c, n)
                        \/ Unlimited(c) \/ Refuse(c)

Spec == Init /\ [][Next]_vars
================================================================================
