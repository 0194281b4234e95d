---------------------------- MODULE MembershipProofs -----------------------------
(***************************************************************************)
(* Theorems about Membership: types, an active administrator remains, a    *)
(* token makes one node, a deletion is never refused for a token.          *)
(***************************************************************************)
EXTENDS Membership, FiniteSetTheorems, TLAPS

--------------------------------------------------------------------------------
(***************************************************************************)
(* The inductive invariant.                                                *)
(***************************************************************************)

\* The transactions that take the members' lock, from the moment they hold it.
Member(op) == op \in {"create", "update", "delete"}
HoldsMembers(r) == Member(job[r].op) /\ pc[r] \in {"locked", "read", "counted", "purged"}

\* What a request asks for names what its kind needs.
WellFormed(j) ==
  /\ j.op \in {"setup", "create"} => j.user \in UserIds /\ j.row \in Row
  /\ j.op = "setup" => j.row = Administrator
  /\ j.op = "update" => j.user \in UserIds /\ j.row \in Row
  /\ j.op = "delete" => j.user \in UserIds /\ j.row = Unborn
  /\ j.op = "token" => j.user \in UserIds /\ j.token \in Tokens
  /\ j.op = "enroll" => j.token \in Tokens /\ j.name \in Names

\* The place of a request is one of its kind.
JobOK ==
  \A r \in Requests :
    /\ WellFormed(job[r])
    /\ pc[r] = "idle" => job[r] = NoJob
    /\ pc[r] = "locked" => job[r].op = "setup" \/ Member(job[r].op)
    /\ pc[r] = "read" => job[r].op \in {"update", "delete"}
    /\ pc[r] = "counted" => job[r].op \in {"setup", "update", "delete"}
    /\ pc[r] = "purged" => job[r].op = "delete"
    /\ pc[r] = "claimed" => job[r].op = "enroll"

\* A drawn identifier belongs to one request until it is stored.
FreshOK ==
  \A r \in Requests :
    /\ job[r].op \in {"setup", "create"} =>
         /\ users[job[r].user] = Unborn
         /\ \A q \in Requests \ {r} : job[q].user # job[r].user
    /\ job[r].op = "token" =>
         /\ tokens[job[r].token].state = "unborn"
         /\ \A q \in Requests \ {r} : job[q].token # job[r].token

\* One transaction at a time holds the members' lock.
Exclusive ==
  \A q, r \in Requests : HoldsMembers(q) /\ HoldsMembers(r) => q = r

\* What was read is still so, and another administrator is there when the count has allowed
\* to take one away.
CountOK ==
  \A r \in Requests :
    HoldsMembers(r) /\ pc[r] # "locked" =>
      /\ seen[r] = users[job[r].user]
      /\ pc[r] # "read" /\ TakesAdministrator(r) => ActiveAdministrators \ {job[r].user} # {}

\* A claimed token is unused, and no one else has claimed or deleted it.
ClaimOK ==
  \A r \in Requests : pc[r] = "claimed" =>
    /\ tokens[job[r].token].state \in {"fresh", "expired"}
    /\ \A q \in Requests \ {r} : pc[q] = "claimed" => job[q].token # job[r].token
    /\ \A q \in Requests : job[r].token \notin doomed[q]

DoomedOK ==
  \A r \in Requests :
    /\ pc[r] # "purged" => doomed[r] = {}
    /\ \A t \in doomed[r] : tokens[t].state # "unborn"

Tables == TokenMakesOneNode /\ DeleteNeverBlocked

IInv ==
  /\ TypeOK /\ JobOK /\ FreshOK /\ Exclusive /\ CountOK /\ ClaimOK /\ DoomedOK /\ Tables

--------------------------------------------------------------------------------
(***************************************************************************)
(* Facts about the operators.                                              *)
(***************************************************************************)

LEMMA RowFacts ==
  /\ Administrator \in Row /\ Unborn \notin Row /\ Gone \notin Row
  /\ Administrator # Unborn /\ Administrator # Gone /\ Unborn # Gone
BY DEF Administrator, Unborn, Gone, Row, Roles

LEMMA NoJobFacts ==
  /\ NoJob \in Jobs /\ WellFormed(NoJob) /\ NoJob.op = "none"
  /\ NoJob.user = None /\ NoJob.token = None
BY DEF NoJob, Job, Jobs, WellFormed, Unborn

LEMMA LockFacts ==
  ASSUME NEW op \in {"none", "setup", "create", "update", "delete", "token", "enroll"}
  PROVE  /\ LockOf(op) # "none" <=> op = "setup" \/ Member(op)
         /\ Member(op) => LockOf(op) = "706733042"
BY DEF LockOf, Member

\* More than one active administrator: one remains without u.
LEMMA AnotherRemains ==
  ASSUME NEW u, ~(Cardinality(ActiveAdministrators) <= 1)
  PROVE  ActiveAdministrators \ {u} # {}
<1>1. SUFFICES ASSUME ActiveAdministrators \ {u} = {}  PROVE FALSE
  OBVIOUS
<1>2. ActiveAdministrators \subseteq {u}
  BY <1>1
<1>3. IsFiniteSet({u}) /\ Cardinality({u}) = 1
  BY FS_Singleton
<1>4. Cardinality(ActiveAdministrators) <= 1
  BY <1>2, <1>3, FS_Subset
<1>5. QED
  BY <1>4

--------------------------------------------------------------------------------
(***************************************************************************)
(* The invariant is inductive.                                             *)
(***************************************************************************)

\* The empty database.
LEMMA InitIInv == Init => IInv
<1>1. SUFFICES ASSUME Init PROVE IInv
  OBVIOUS
<1>2. TypeOK
  BY <1>1, NoJobFacts DEF Init, TypeOK
<1>3. JobOK
  BY <1>1, NoJobFacts DEF Init, JobOK
<1>4. FreshOK
  BY <1>1, NoJobFacts DEF Init, FreshOK
<1>5. Exclusive /\ CountOK /\ ClaimOK /\ DoomedOK /\ Tables
  BY <1>1 DEF Init, Exclusive, CountOK, HoldsMembers, ClaimOK, DoomedOK, Tables,
              TokenMakesOneNode, DeleteNeverBlocked
<1>6. QED
  BY <1>2, <1>3, <1>4, <1>5 DEF IInv

\* A request begins with identifiers of its own, or with stored ones.
LEMMA BeginIInv ==
  ASSUME IInv, NEW r \in Requests, NEW j \in Jobs, WellFormed(j), Begin(r, j), j.op # "none",
         j.op \in {"setup", "create"} =>
           users[j.user] = Unborn /\ \A q \in Requests : job[q].user # j.user,
         j.op = "token" =>
           tokens[j.token].state = "unborn" /\ \A q \in Requests : job[q].token # j.token,
         \A q \in Requests :
           /\ job[q].op \in {"setup", "create"} => job[q].user # j.user
           /\ job[q].op = "token" => job[q].token # j.token
  PROVE  IInv'
<1>1. TypeOK'
  BY DEF IInv, TypeOK, Begin
<1>2. pc[r] = "idle" /\ pc'[r] = "begun" /\ job'[r] = j
  BY DEF IInv, TypeOK, Begin
<1>3. \A q \in Requests \ {r} : pc'[q] = pc[q] /\ job'[q] = job[q]
  BY DEF IInv, TypeOK, Begin
<1>4. UNCHANGED <<users, tokens, nodes, seen, doomed>>
  BY DEF Begin
<1>5. JobOK'
  BY <1>2, <1>3 DEF IInv, JobOK
<1>6. FreshOK'
  BY <1>2, <1>3, <1>4 DEF IInv, FreshOK
<1>7. \A q \in Requests : HoldsMembers(q)' <=> HoldsMembers(q)
  BY <1>2, <1>3 DEF HoldsMembers
<1>8. Exclusive'
  BY <1>7 DEF IInv, Exclusive
<1>9. CountOK'
  <2>1. ActiveAdministrators' = ActiveAdministrators
    BY <1>4 DEF ActiveAdministrators
  <2>2. QED
    BY <1>2, <1>3, <1>4, <1>7, <2>1 DEF IInv, CountOK, HoldsMembers, TakesAdministrator
<1>10. ClaimOK'
  BY <1>2, <1>3, <1>4 DEF IInv, ClaimOK
<1>11. DoomedOK'
  BY <1>2, <1>3, <1>4 DEF IInv, DoomedOK
<1>12. Tables'
  <2>1. TokenMakesOneNode'
    BY <1>4 DEF IInv, Tables, TokenMakesOneNode
  <2>2. \A u : TokensOf(u)' = TokensOf(u)
    BY <1>4 DEF TokensOf
  <2>3. DeleteNeverBlocked'
    BY <1>2, <1>3, <1>4, <2>2 DEF IInv, Tables, DeleteNeverBlocked, Purged
  <2>4. QED
    BY <2>1, <2>3 DEF Tables
<1>13. QED
  BY <1>1, <1>5, <1>6, <1>8, <1>9, <1>10, <1>11, <1>12 DEF IInv

\* A request that ends leaves the others as they are.
LEMMA EndFacts ==
  ASSUME IInv, NEW r \in Requests, End(r)
  PROVE  /\ pc'[r] = "idle" /\ job'[r] = NoJob /\ seen'[r] = Unborn /\ doomed'[r] = {}
         /\ \A q \in Requests \ {r} :
              pc'[q] = pc[q] /\ job'[q] = job[q] /\ seen'[q] = seen[q] /\ doomed'[q] = doomed[q]
         /\ pc' \in [Requests -> {"idle", "begun", "locked", "read", "counted", "purged", "claimed"}]
         /\ job' \in [Requests -> Jobs]
         /\ seen' \in [Requests -> Row \cup {Unborn}]
         /\ doomed' \in [Requests -> SUBSET Tokens]
BY NoJobFacts DEF IInv, TypeOK, End

\* A rollback.
LEMMA RollbackIInv ==
  ASSUME IInv, NEW r \in Requests, End(r), UNCHANGED <<users, tokens, nodes>>
  PROVE  IInv'
<1>. USE EndFacts
<1>1. TypeOK'
  BY DEF IInv, TypeOK
<1>2. JobOK'
  BY NoJobFacts DEF IInv, JobOK
<1>3. FreshOK'
  <2>1. \A q \in Requests : job[q].op \in {"setup", "create"} => job[q].user # None
    BY NoneAssumption DEF IInv, JobOK, WellFormed
  <2>2. \A q \in Requests : job[q].op = "token" => job[q].token # None
    BY NoneAssumption DEF IInv, JobOK, WellFormed
  <2>3. QED
    BY <2>1, <2>2, NoJobFacts DEF IInv, FreshOK
<1>4. \A q \in Requests : HoldsMembers(q)' => HoldsMembers(q) /\ q # r
  BY DEF HoldsMembers
<1>5. Exclusive'
  BY <1>4 DEF IInv, Exclusive
<1>6. CountOK'
  <2>1. ActiveAdministrators' = ActiveAdministrators
    BY DEF ActiveAdministrators
  <2>2. QED
    BY <1>4, <2>1 DEF IInv, CountOK, HoldsMembers, TakesAdministrator
<1>7. ClaimOK' /\ DoomedOK'
  BY DEF IInv, ClaimOK, DoomedOK
<1>8. TokenMakesOneNode'
  BY DEF IInv, Tables, TokenMakesOneNode
<1>9. DeleteNeverBlocked'
  <2>1. \A u : TokensOf(u)' = TokensOf(u)
    BY DEF TokensOf
  <2>2. QED
    BY <2>1 DEF IInv, Tables, DeleteNeverBlocked, Purged
<1>10. QED
  BY <1>1, <1>2, <1>3, <1>5, <1>6, <1>7, <1>8, <1>9 DEF IInv, Tables

\* A statement moves one request on and leaves the tables alone.
LEMMA StatementFacts ==
  ASSUME IInv, NEW r \in Requests, NEW after \in {"locked", "read", "counted", "purged", "claimed"},
         Statement(r, after)
  PROVE  /\ pc'[r] = after /\ UNCHANGED <<users, tokens, nodes, job>>
         /\ \A q \in Requests \ {r} : pc'[q] = pc[q]
         /\ pc' \in [Requests -> {"idle", "begun", "locked", "read", "counted", "purged", "claimed"}]
         /\ FreshOK' /\ TokenMakesOneNode'
         /\ ActiveAdministrators' = ActiveAdministrators
         /\ \A u : TokensOf(u)' = TokensOf(u)
BY DEF IInv, TypeOK, Statement, FreshOK, Tables, TokenMakesOneNode, ActiveAdministrators, TokensOf

LEMMA LockIInv ==
  ASSUME IInv, NEW r \in Requests, Lock(r)
  PROVE  IInv'
<1>1. Statement(r, "locked") /\ UNCHANGED <<seen, doomed>> /\ pc[r] = "begun"
  BY DEF Lock
<1>. USE <1>1, StatementFacts
<1>2. \A q \in Requests : job[q].op \in {"none", "setup", "create", "update", "delete", "token", "enroll"}
  BY DEF IInv, TypeOK, Jobs
<1>3. TypeOK'
  BY DEF IInv, TypeOK
<1>4. JobOK'
  <2>1. job[r].op = "setup" \/ Member(job[r].op)
    BY <1>2, LockFacts DEF Lock
  <2>2. QED
    BY <2>1 DEF IInv, JobOK
<1>5. Exclusive'
  <2>1. ASSUME Member(job[r].op), NEW q \in Requests, HoldsMembers(q)  PROVE FALSE
    <3>1. LockOf(job[r].op) = "706733042" /\ LockOf(job[q].op) = "706733042"
      BY <1>2, <2>1, LockFacts DEF HoldsMembers
    <3>2. InTransaction(q)
      BY <2>1 DEF HoldsMembers, InTransaction
    <3>3. QED
      BY <3>1, <3>2 DEF Lock
  <2>2. \A q \in Requests \ {r} : HoldsMembers(q)' <=> HoldsMembers(q)
    BY DEF HoldsMembers
  <2>3. HoldsMembers(r)' => Member(job[r].op)
    BY DEF HoldsMembers
  <2>4. QED
    BY <2>1, <2>2, <2>3 DEF IInv, Exclusive
<1>6. CountOK'
  BY DEF IInv, CountOK, HoldsMembers, TakesAdministrator
<1>7. ClaimOK' /\ DoomedOK'
  BY DEF IInv, ClaimOK, DoomedOK
<1>8. DeleteNeverBlocked'
  BY DEF IInv, Tables, DeleteNeverBlocked, Purged
<1>9. QED
  BY <1>3, <1>4, <1>5, <1>6, <1>7, <1>8 DEF IInv, Tables

LEMMA CountUsersIInv ==
  ASSUME IInv, NEW r \in Requests, CountUsers(r)
  PROVE  IInv'
<1>1. CASE End(r) /\ UNCHANGED <<users, tokens, nodes>>
  BY <1>1, RollbackIInv
<1>2. CASE Statement(r, "counted") /\ UNCHANGED <<seen, doomed>>
  <2>. USE <1>2, StatementFacts
  <2>1. pc[r] = "locked" /\ job[r].op = "setup"
    BY DEF CountUsers
  <2>2. TypeOK'
    BY DEF IInv, TypeOK
  <2>3. JobOK'
    BY <2>1 DEF IInv, JobOK
  <2>4. \A q \in Requests : HoldsMembers(q)' <=> HoldsMembers(q) /\ q # r
    BY <2>1 DEF HoldsMembers, Member
  <2>5. Exclusive'
    BY <2>4 DEF IInv, Exclusive
  <2>6. CountOK'
    BY <2>4 DEF IInv, CountOK, TakesAdministrator
  <2>7. ClaimOK' /\ DoomedOK'
    BY <2>1 DEF IInv, ClaimOK, DoomedOK
  <2>8. DeleteNeverBlocked'
    BY DEF IInv, Tables, DeleteNeverBlocked, Purged
  <2>9. QED
    BY <2>2, <2>3, <2>5, <2>6, <2>7, <2>8 DEF IInv, Tables
<1>3. QED
  BY <1>1, <1>2 DEF CountUsers

LEMMA ReadUserIInv ==
  ASSUME IInv, NEW r \in Requests, ReadUser(r)
  PROVE  IInv'
<1>1. CASE ~Present(job[r].user)
  BY <1>1, RollbackIInv DEF ReadUser
<1>2. CASE Present(job[r].user)
  <2>1. /\ Statement(r, "read") /\ UNCHANGED doomed
        /\ seen' = [seen EXCEPT ![r] = users[job[r].user]]
        /\ pc[r] = "locked" /\ job[r].op \in {"update", "delete"}
    BY <1>2 DEF ReadUser
  <2>. USE <2>1, StatementFacts
  <2>2. /\ seen' \in [Requests -> Row \cup {Unborn}] /\ seen'[r] = users[job[r].user]
        /\ \A q \in Requests \ {r} : seen'[q] = seen[q]
    BY <1>2 DEF IInv, TypeOK, Present
  <2>3. TypeOK'
    BY <2>2 DEF IInv, TypeOK
  <2>4. JobOK'
    BY DEF IInv, JobOK
  <2>5. \A q \in Requests : HoldsMembers(q)' <=> HoldsMembers(q)
    BY DEF HoldsMembers
  <2>6. Exclusive'
    BY <2>5 DEF IInv, Exclusive
  <2>7. CountOK'
    BY <2>2, <2>5 DEF IInv, CountOK, TakesAdministrator
  <2>8. ClaimOK' /\ DoomedOK'
    BY DEF IInv, ClaimOK, DoomedOK
  <2>9. DeleteNeverBlocked'
    BY DEF IInv, Tables, DeleteNeverBlocked, Purged
  <2>10. QED
    BY <2>3, <2>4, <2>6, <2>7, <2>8, <2>9 DEF IInv, Tables
<1>3. QED
  BY <1>1, <1>2

LEMMA CountAdministratorsIInv ==
  ASSUME IInv, NEW r \in Requests, CountAdministrators(r)
  PROVE  IInv'
<1>1. CASE End(r) /\ UNCHANGED <<users, tokens, nodes>>
  BY <1>1, RollbackIInv
<1>2. CASE /\ Statement(r, "counted") /\ UNCHANGED <<seen, doomed>>
           /\ ~(TakesAdministrator(r) /\ Cardinality(ActiveAdministrators) <= 1)
  <2>. USE <1>2, StatementFacts
  <2>1. pc[r] = "read"
    BY DEF CountAdministrators
  <2>2. TypeOK'
    BY DEF IInv, TypeOK
  <2>3. JobOK'
    BY <2>1 DEF IInv, JobOK
  <2>4. \A q \in Requests : HoldsMembers(q)' <=> HoldsMembers(q)
    BY <2>1 DEF HoldsMembers
  <2>5. Exclusive'
    BY <2>4 DEF IInv, Exclusive
  <2>6. CountOK'
    <3>1. TakesAdministrator(r) => ActiveAdministrators \ {job[r].user} # {}
      BY AnotherRemains
    <3>2. \A q \in Requests : TakesAdministrator(q)' <=> TakesAdministrator(q)
      BY DEF TakesAdministrator
    <3>3. QED
      BY <2>1, <2>4, <3>1, <3>2 DEF IInv, CountOK
  <2>7. ClaimOK' /\ DoomedOK'
    BY <2>1 DEF IInv, ClaimOK, DoomedOK
  <2>8. DeleteNeverBlocked'
    BY DEF IInv, Tables, DeleteNeverBlocked, Purged
  <2>9. QED
    BY <2>2, <2>3, <2>5, <2>6, <2>7, <2>8 DEF IInv, Tables
<1>3. QED
  BY <1>1, <1>2 DEF CountAdministrators

\* What the end of r leaves of the parts of the invariant that are about the other requests.
LEMMA OthersAfterEnd ==
  ASSUME IInv, NEW r \in Requests, End(r)
  PROVE  /\ JobOK' /\ Exclusive'
         /\ \A q \in Requests : HoldsMembers(q)' => HoldsMembers(q) /\ q # r
         /\ \A q \in Requests :
              /\ job'[q].op \in {"setup", "create"} => q # r /\ job'[q].user # None
              /\ job'[q].op = "token" => q # r /\ job'[q].token # None
<1>. USE EndFacts
<1>1. JobOK'
  BY NoJobFacts DEF IInv, JobOK
<1>2. \A q \in Requests : HoldsMembers(q)' => HoldsMembers(q) /\ q # r
  BY DEF HoldsMembers
<1>3. Exclusive'
  BY <1>2 DEF IInv, Exclusive
<1>4. \A q \in Requests :
        /\ job'[q].op \in {"setup", "create"} => q # r /\ job'[q].user # None
        /\ job'[q].op = "token" => q # r /\ job'[q].token # None
  BY <1>1, NoneAssumption, NoJobFacts DEF JobOK, WellFormed
<1>5. QED
  BY <1>1, <1>2, <1>3, <1>4

\* What the transactions that go on have drawn stays unborn and theirs, unless the one
\* that ends writes to it.
LEMMA FreshAfterEnd ==
  ASSUME IInv, NEW r \in Requests, End(r),
         \A q \in Requests \ {r} :
           /\ job[q].op \in {"setup", "create"} => users'[job[q].user] = users[job[q].user]
           /\ job[q].op = "token" => tokens'[job[q].token] = tokens[job[q].token]
  PROVE  FreshOK'
<1>1. ASSUME NEW p \in Requests, job'[p].op \in {"setup", "create"}
      PROVE  /\ users'[job'[p].user] = Unborn
             /\ \A q \in Requests \ {p} : job'[q].user # job'[p].user
  <2>1. p # r /\ job'[p] = job[p] /\ job'[p].user # None
    BY <1>1, OthersAfterEnd, EndFacts
  <2>2. users'[job'[p].user] = Unborn
    BY <1>1, <2>1 DEF IInv, FreshOK
  <2>3. ASSUME NEW q \in Requests \ {p} PROVE job'[q].user # job'[p].user
    <3>1. CASE q = r
      BY <2>1, <3>1, EndFacts, NoJobFacts
    <3>2. CASE q # r
      BY <1>1, <2>1, <2>3, <3>2, EndFacts DEF IInv, FreshOK
    <3>3. QED
      BY <3>1, <3>2
  <2>4. QED
    BY <2>2, <2>3
<1>2. ASSUME NEW p \in Requests, job'[p].op = "token"
      PROVE  /\ tokens'[job'[p].token].state = "unborn"
             /\ \A q \in Requests \ {p} : job'[q].token # job'[p].token
  <2>1. p # r /\ job'[p] = job[p] /\ job'[p].token # None
    BY <1>2, OthersAfterEnd, EndFacts
  <2>2. tokens'[job'[p].token].state = "unborn"
    BY <1>2, <2>1 DEF IInv, FreshOK
  <2>3. ASSUME NEW q \in Requests \ {p} PROVE job'[q].token # job'[p].token
    <3>1. CASE q = r
      BY <2>1, <3>1, EndFacts, NoJobFacts
    <3>2. CASE q # r
      BY <1>2, <2>1, <2>3, <3>2, EndFacts DEF IInv, FreshOK
    <3>3. QED
      BY <3>1, <3>2
  <2>4. QED
    BY <2>2, <2>3
<1>3. QED
  BY <1>1, <1>2 DEF FreshOK

LEMMA InsertUserIInv ==
  ASSUME IInv, NEW r \in Requests, InsertUser(r)
  PROVE  IInv'
<1>1. /\ End(r) /\ UNCHANGED <<tokens, nodes>>
      /\ users' = [users EXCEPT ![job[r].user] = job[r].row]
      /\ job[r].op \in {"setup", "create"}
      /\ job[r].op = "create" => pc[r] = "locked"
  BY DEF InsertUser
<1>. USE <1>1, EndFacts
<1>2. /\ job[r].user \in UserIds /\ job[r].row \in Row /\ users[job[r].user] = Unborn
      /\ job[r].op = "setup" => job[r].row = Administrator
      /\ \A q \in Requests \ {r} : job[q].user # job[r].user
  BY DEF IInv, JobOK, WellFormed, FreshOK
<1>3. users' \in [UserIds -> Row \cup {Unborn, Gone}] /\ users'[job[r].user] = job[r].row
      /\ \A u \in UserIds \ {job[r].user} : users'[u] = users[u]
  BY <1>2 DEF IInv, TypeOK
<1>4. TypeOK'
  BY <1>3 DEF IInv, TypeOK
<1>5. FreshOK'
  <2>1. \A q \in Requests \ {r} : job[q].op \in {"setup", "create"} => job[q].user \in UserIds
    BY DEF IInv, JobOK, WellFormed
  <2>2. QED
    BY <1>2, <1>3, <2>1, FreshAfterEnd
<1>6. CountOK'
  <2>1. ActiveAdministrators \subseteq ActiveAdministrators'
    BY <1>2, <1>3, RowFacts DEF ActiveAdministrators
  <2>2. \A q \in Requests : HoldsMembers(q) /\ pc[q] # "locked" =>
          job[q].user \in UserIds
    BY DEF IInv, JobOK, WellFormed, HoldsMembers
  <2>3. QED
    BY <1>2, <1>3, <2>1, <2>2, OthersAfterEnd DEF IInv, CountOK, TakesAdministrator
<1>7. ClaimOK' /\ DoomedOK'
  BY DEF IInv, ClaimOK, DoomedOK
<1>8. TokenMakesOneNode'
  BY DEF IInv, Tables, TokenMakesOneNode
<1>9. DeleteNeverBlocked'
  <2>1. \A u : TokensOf(u)' = TokensOf(u)
    BY DEF TokensOf
  <2>2. QED
    BY <2>1 DEF IInv, Tables, DeleteNeverBlocked, Purged
<1>10. QED
  BY <1>4, <1>5, <1>6, <1>7, <1>8, <1>9, OthersAfterEnd DEF IInv, Tables

LEMMA UpdateUserIInv ==
  ASSUME IInv, NEW r \in Requests, UpdateUser(r)
  PROVE  IInv'
<1>1. /\ End(r) /\ UNCHANGED <<tokens, nodes>>
      /\ users' = [users EXCEPT ![job[r].user] = job[r].row]
      /\ job[r].op = "update" /\ pc[r] = "counted"
  BY DEF UpdateUser
<1>. USE <1>1, EndFacts
<1>2. job[r].user \in UserIds /\ job[r].row \in Row /\ HoldsMembers(r)
  BY DEF IInv, JobOK, WellFormed, HoldsMembers, Member
<1>3. users' \in [UserIds -> Row \cup {Unborn, Gone}] /\ users'[job[r].user] = job[r].row
      /\ \A u \in UserIds \ {job[r].user} : users'[u] = users[u]
  BY <1>2 DEF IInv, TypeOK
<1>4. TypeOK'
  BY <1>3 DEF IInv, TypeOK
<1>5. FreshOK'
  <2>1. \A q \in Requests \ {r} : job[q].op \in {"setup", "create"} =>
          job[q].user \in UserIds /\ job[q].user # job[r].user
    BY DEF IInv, JobOK, WellFormed, FreshOK
  <2>2. QED
    BY <1>3, <2>1, FreshAfterEnd
<1>6. \A q \in Requests : ~HoldsMembers(q)'
  BY <1>2, OthersAfterEnd DEF IInv, Exclusive
<1>7. CountOK'
  BY <1>6 DEF CountOK
<1>8. ClaimOK' /\ DoomedOK'
  BY DEF IInv, ClaimOK, DoomedOK
<1>9. TokenMakesOneNode'
  BY DEF IInv, Tables, TokenMakesOneNode
<1>10. DeleteNeverBlocked'
  <2>1. \A u : TokensOf(u)' = TokensOf(u)
    BY DEF TokensOf
  <2>2. QED
    BY <2>1 DEF IInv, Tables, DeleteNeverBlocked, Purged
<1>11. QED
  BY <1>4, <1>5, <1>7, <1>8, <1>9, <1>10, OthersAfterEnd DEF IInv, Tables

LEMMA DeleteTokensIInv ==
  ASSUME IInv, NEW r \in Requests, DeleteTokens(r)
  PROVE  IInv'
<1>1. /\ Statement(r, "purged") /\ UNCHANGED seen
      /\ doomed' = [doomed EXCEPT ![r] = TokensOf(job[r].user)]
      /\ pc[r] = "counted" /\ job[r].op = "delete"
      /\ \A t \in TokensOf(job[r].user) : TokenRowFree(t)
  BY DEF DeleteTokens
<1>. USE <1>1, StatementFacts
<1>2. /\ doomed' \in [Requests -> SUBSET Tokens] /\ doomed'[r] = TokensOf(job[r].user)
      /\ \A q \in Requests \ {r} : doomed'[q] = doomed[q]
  BY DEF IInv, TypeOK, TokensOf
<1>3. TypeOK'
  BY <1>2 DEF IInv, TypeOK
<1>4. JobOK'
  BY DEF IInv, JobOK
<1>5. \A q \in Requests : HoldsMembers(q)' <=> HoldsMembers(q)
  BY DEF HoldsMembers
<1>6. Exclusive'
  BY <1>5 DEF IInv, Exclusive
<1>7. CountOK'
  BY <1>5 DEF IInv, CountOK, TakesAdministrator
<1>8. ClaimOK'
  <2>1. \A q \in Requests : pc[q] = "claimed" => job[q].token \notin TokensOf(job[r].user)
    BY DEF TokenRowFree
  <2>2. QED
    BY <1>2, <2>1 DEF IInv, ClaimOK
<1>9. DoomedOK'
  BY <1>2 DEF IInv, DoomedOK, TokensOf
<1>10. DeleteNeverBlocked'
  BY <1>2 DEF IInv, Tables, DeleteNeverBlocked, Purged
<1>11. QED
  BY <1>3, <1>4, <1>6, <1>7, <1>8, <1>9, <1>10 DEF IInv, Tables

LEMMA DeleteUserIInv ==
  ASSUME IInv, NEW r \in Requests, DeleteUser(r)
  PROVE  IInv'
<1>1. /\ End(r) /\ UNCHANGED nodes /\ pc[r] = "purged"
      /\ users' = [users EXCEPT ![job[r].user] = Gone]
      /\ tokens' = [t \in Tokens |-> IF t \in doomed[r]
                                       THEN [state |-> "gone", by |-> tokens[t].by] ELSE tokens[t]]
  BY DEF DeleteUser
<1>. USE <1>1, EndFacts
<1>2. job[r].op = "delete" /\ job[r].user \in UserIds /\ HoldsMembers(r)
  BY DEF IInv, JobOK, WellFormed, HoldsMembers, Member
<1>3. users' \in [UserIds -> Row \cup {Unborn, Gone}]
      /\ \A u \in UserIds \ {job[r].user} : users'[u] = users[u]
  BY <1>2 DEF IInv, TypeOK
<1>4. /\ \A t \in doomed[r] : t \in Tokens /\ tokens[t].state # "unborn" /\ tokens'[t].state = "gone"
      /\ \A t \in Tokens \ doomed[r] : tokens'[t] = tokens[t]
  BY DEF IInv, TypeOK, DoomedOK
<1>5. TypeOK'
  <2>1. tokens' \in [Tokens -> [state : {"unborn", "fresh", "expired", "used", "gone"},
                                by : UserIds \cup {None}]]
    BY DEF IInv, TypeOK
  <2>2. QED
    BY <1>3, <2>1 DEF IInv, TypeOK
<1>6. FreshOK'
  <2>1. \A q \in Requests \ {r} : job[q].op \in {"setup", "create"} =>
          job[q].user \in UserIds /\ job[q].user # job[r].user
    BY DEF IInv, JobOK, WellFormed, FreshOK
  <2>2. \A q \in Requests \ {r} : job[q].op = "token" =>
          job[q].token \in Tokens \ doomed[r]
    BY <1>4 DEF IInv, JobOK, WellFormed, FreshOK
  <2>3. QED
    BY <1>3, <1>4, <2>1, <2>2, FreshAfterEnd
<1>7. \A q \in Requests : ~HoldsMembers(q)' /\ pc'[q] # "purged"
  <2>1. \A q \in Requests : pc[q] = "purged" => HoldsMembers(q)
    BY DEF IInv, JobOK, HoldsMembers, Member
  <2>2. QED
    BY <1>2, <2>1, OthersAfterEnd DEF IInv, Exclusive
<1>8. CountOK' /\ DeleteNeverBlocked'
  BY <1>7 DEF CountOK, DeleteNeverBlocked
<1>9. ClaimOK'
  <2>1. \A q \in Requests : pc[q] = "claimed" => job[q].token \in Tokens \ doomed[r]
    BY DEF IInv, JobOK, WellFormed, ClaimOK
  <2>2. QED
    BY <1>4, <2>1 DEF IInv, ClaimOK
<1>10. DoomedOK'
  BY <1>7 DEF IInv, DoomedOK
<1>11. TokenMakesOneNode'
  <2>1. \A n \in nodes : n.token \in Tokens
    BY DEF IInv, TypeOK
  <2>2. QED
    BY <1>4, <2>1 DEF IInv, Tables, TokenMakesOneNode
<1>12. QED
  BY <1>5, <1>6, <1>8, <1>9, <1>10, <1>11, OthersAfterEnd DEF IInv, Tables

LEMMA InsertTokenIInv ==
  ASSUME IInv, NEW r \in Requests, InsertToken(r)
  PROVE  IInv'
<1>1. CASE ~Present(job[r].user)
  BY <1>1, RollbackIInv DEF InsertToken
<1>2. CASE Present(job[r].user)
  <2>1. /\ End(r) /\ UNCHANGED <<users, nodes>> /\ job[r].op = "token" /\ UserRowFree(job[r].user)
        /\ tokens' = [tokens EXCEPT ![job[r].token] = [state |-> "fresh", by |-> job[r].user]]
    BY <1>2 DEF InsertToken
  <2>. USE <2>1, EndFacts
  <2>2. /\ job[r].token \in Tokens /\ job[r].user \in UserIds
        /\ tokens[job[r].token].state = "unborn"
        /\ \A q \in Requests \ {r} : job[q].token # job[r].token
    BY DEF IInv, JobOK, WellFormed, FreshOK
  <2>3. /\ tokens'[job[r].token] = [state |-> "fresh", by |-> job[r].user]
        /\ \A t \in Tokens \ {job[r].token} : tokens'[t] = tokens[t]
    BY <2>2 DEF IInv, TypeOK
  <2>4. TypeOK'
    <3>1. tokens' \in [Tokens -> [state : {"unborn", "fresh", "expired", "used", "gone"},
                                  by : UserIds \cup {None}]]
      BY <2>2 DEF IInv, TypeOK
    <3>2. QED
      BY <3>1 DEF IInv, TypeOK
  <2>5. FreshOK'
    <3>1. \A q \in Requests \ {r} : job[q].op = "token" => job[q].token \in Tokens
      BY DEF IInv, JobOK, WellFormed
    <3>2. QED
      BY <2>2, <2>3, <3>1, OthersAfterEnd, NoJobFacts DEF IInv, FreshOK
  <2>6. CountOK'
    <3>1. ActiveAdministrators' = ActiveAdministrators
      BY DEF ActiveAdministrators
    <3>2. QED
      BY <3>1, OthersAfterEnd DEF IInv, CountOK, TakesAdministrator
  <2>7. ClaimOK'
    <3>1. \A q \in Requests : pc[q] = "claimed" => job[q].token \in Tokens
      BY DEF IInv, JobOK, WellFormed
    <3>2. QED
      BY <2>2, <2>3, <3>1 DEF IInv, ClaimOK
  <2>8. DoomedOK'
    BY <2>3 DEF IInv, TypeOK, DoomedOK
  <2>9. TokenMakesOneNode'
    <3>1. \A n \in nodes : n.token \in Tokens \ {job[r].token}
      BY <2>2 DEF IInv, TypeOK, Tables, TokenMakesOneNode
    <3>2. QED
      BY <2>3, <3>1 DEF IInv, Tables, TokenMakesOneNode
  <2>10. DeleteNeverBlocked'
    <3>1. SUFFICES ASSUME NEW q \in Requests, pc'[q] = "purged"  PROVE Purged(q)'
      BY DEF DeleteNeverBlocked
    <3>2. q # r /\ pc[q] = "purged" /\ Purged(q) /\ job[q].user # job[r].user
      BY <3>1 DEF IInv, Tables, DeleteNeverBlocked, UserRowFree
    <3>3. TokensOf(job[q].user)' \subseteq TokensOf(job[q].user)
      BY <2>3, <3>2 DEF TokensOf
    <3>4. QED
      BY <3>2, <3>3 DEF Purged
  <2>11. QED
    BY <2>4, <2>5, <2>6, <2>7, <2>8, <2>9, <2>10, OthersAfterEnd DEF IInv, Tables
<1>3. QED
  BY <1>1, <1>2

LEMMA ClaimTokenIInv ==
  ASSUME IInv, NEW r \in Requests, ClaimToken(r)
  PROVE  IInv'
<1>1. CASE End(r) /\ UNCHANGED <<users, tokens, nodes>>
  BY <1>1, RollbackIInv
<1>2. CASE /\ Statement(r, "claimed") /\ UNCHANGED <<seen, doomed>>
           /\ tokens[job[r].token].state = "fresh"
  <2>. USE <1>2, StatementFacts
  <2>1. pc[r] = "begun" /\ job[r].op = "enroll" /\ TokenRowFree(job[r].token)
    BY DEF ClaimToken
  <2>2. TypeOK'
    BY DEF IInv, TypeOK
  <2>3. JobOK'
    BY <2>1 DEF IInv, JobOK
  <2>4. \A q \in Requests : HoldsMembers(q)' <=> HoldsMembers(q)
    BY <2>1 DEF HoldsMembers
  <2>5. Exclusive'
    BY <2>4 DEF IInv, Exclusive
  <2>6. CountOK'
    <3>1. ~HoldsMembers(r)
      BY <2>1 DEF HoldsMembers
    <3>2. QED
      BY <2>4, <3>1 DEF IInv, CountOK, TakesAdministrator
  <2>7. ClaimOK'
    BY <2>1 DEF IInv, ClaimOK, TokenRowFree
  <2>8. DoomedOK'
    BY <2>1 DEF IInv, DoomedOK
  <2>9. DeleteNeverBlocked'
    BY DEF IInv, Tables, DeleteNeverBlocked, Purged
  <2>10. QED
    BY <2>2, <2>3, <2>5, <2>6, <2>7, <2>8, <2>9 DEF IInv, Tables
<1>3. QED
  BY <1>1, <1>2 DEF ClaimToken

LEMMA InsertNodeIInv ==
  ASSUME IInv, NEW r \in Requests, InsertNode(r)
  PROVE  IInv'
<1>. DEFINE t == job[r].token
<1>1. CASE \E n \in nodes : n.name = job[r].name
  BY <1>1, RollbackIInv DEF InsertNode
<1>2. CASE ~\E n \in nodes : n.name = job[r].name
  <2>1. /\ End(r) /\ UNCHANGED users /\ pc[r] = "claimed"
        /\ tokens' = [tokens EXCEPT ![t] = [state |-> "used", by |-> tokens[t].by]]
        /\ nodes' = nodes \cup {[name |-> job[r].name, token |-> t]}
    BY <1>2 DEF InsertNode
  <2>. USE <2>1, EndFacts
  <2>2. /\ t \in Tokens /\ job[r].name \in Names
        /\ tokens[t].state \in {"fresh", "expired"}
        /\ \A q \in Requests \ {r} : pc[q] = "claimed" => job[q].token # t
    BY DEF IInv, JobOK, WellFormed, ClaimOK
  <2>3. /\ tokens'[t] = [state |-> "used", by |-> tokens[t].by]
        /\ \A x \in Tokens \ {t} : tokens'[x] = tokens[x]
    BY <2>2 DEF IInv, TypeOK
  <2>4. TypeOK'
    <3>1. tokens' \in [Tokens -> [state : {"unborn", "fresh", "expired", "used", "gone"},
                                  by : UserIds \cup {None}]]
      BY <2>2 DEF IInv, TypeOK
    <3>2. nodes' \subseteq [name : Names, token : Tokens]
      BY <2>2 DEF IInv, TypeOK
    <3>3. QED
      BY <3>1, <3>2 DEF IInv, TypeOK
  <2>5. FreshOK'
    <3>1. \A q \in Requests \ {r} : job[q].op = "token" => job[q].token \in Tokens \ {t}
      BY <2>2 DEF IInv, JobOK, WellFormed, FreshOK
    <3>2. QED
      BY <2>3, <3>1, FreshAfterEnd
  <2>6. CountOK'
    <3>1. ActiveAdministrators' = ActiveAdministrators
      BY DEF ActiveAdministrators
    <3>2. QED
      BY <3>1, OthersAfterEnd DEF IInv, CountOK, TakesAdministrator
  <2>7. ClaimOK'
    <3>1. \A q \in Requests \ {r} : pc[q] = "claimed" => job[q].token \in Tokens \ {t}
      BY <2>2 DEF IInv, JobOK, WellFormed
    <3>2. QED
      BY <2>3, <3>1 DEF IInv, ClaimOK
  <2>8. DoomedOK'
    <3>1. doomed \in [Requests -> SUBSET Tokens]
      BY DEF IInv, TypeOK
    <3>2. QED
      BY <2>2, <2>3, <3>1 DEF IInv, DoomedOK
  <2>9. TokenMakesOneNode'
    <3>1. \A n \in nodes : n.token \in Tokens \ {t}
      BY <2>2 DEF IInv, TypeOK, Tables, TokenMakesOneNode
    <3>2. QED
      BY <2>3, <3>1 DEF IInv, Tables, TokenMakesOneNode
  <2>10. DeleteNeverBlocked'
    <3>1. \A u : TokensOf(u)' = TokensOf(u)
      BY <2>2, <2>3 DEF TokensOf
    <3>2. QED
      BY <3>1 DEF IInv, Tables, DeleteNeverBlocked, Purged
  <2>11. QED
    BY <2>4, <2>5, <2>6, <2>7, <2>8, <2>9, <2>10, OthersAfterEnd DEF IInv, Tables
<1>3. QED
  BY <1>1, <1>2

LEMMA ExpireIInv ==
  ASSUME IInv, NEW t \in Tokens, Expire(t)
  PROVE  IInv'
<1>1. /\ tokens[t].state = "fresh"
      /\ tokens' = [tokens EXCEPT ![t] = [state |-> "expired", by |-> tokens[t].by]]
      /\ UNCHANGED <<users, nodes, job, pc, seen, doomed>>
  BY DEF Expire
<1>. USE <1>1
<1>2. /\ tokens'[t] = [state |-> "expired", by |-> tokens[t].by]
      /\ \A x \in Tokens \ {t} : tokens'[x] = tokens[x]
  BY DEF IInv, TypeOK
<1>3. TypeOK'
  <2>1. tokens' \in [Tokens -> [state : {"unborn", "fresh", "expired", "used", "gone"},
                                by : UserIds \cup {None}]]
    BY DEF IInv, TypeOK
  <2>2. QED
    BY <2>1 DEF IInv, TypeOK
<1>4. JobOK'
  BY DEF IInv, JobOK
<1>5. FreshOK'
  <2>1. \A q \in Requests : job[q].op = "token" => job[q].token \in Tokens \ {t}
    BY DEF IInv, JobOK, WellFormed, FreshOK
  <2>2. QED
    BY <1>2, <2>1 DEF IInv, FreshOK
<1>6. Exclusive' /\ CountOK'
  BY DEF IInv, Exclusive, CountOK, HoldsMembers, TakesAdministrator, ActiveAdministrators
<1>7. ClaimOK'
  <2>1. \A q \in Requests : pc[q] = "claimed" => job[q].token \in Tokens
    BY DEF IInv, JobOK, WellFormed
  <2>2. QED
    BY <1>2, <2>1 DEF IInv, ClaimOK
<1>8. DoomedOK'
  BY <1>2 DEF IInv, TypeOK, DoomedOK
<1>9. TokenMakesOneNode'
  <2>1. \A n \in nodes : n.token \in Tokens \ {t}
    BY DEF IInv, TypeOK, Tables, TokenMakesOneNode
  <2>2. QED
    BY <1>2, <2>1 DEF IInv, Tables, TokenMakesOneNode
<1>10. DeleteNeverBlocked'
  <2>1. \A u : TokensOf(u)' = TokensOf(u)
    BY <1>2 DEF TokensOf
  <2>2. QED
    BY <2>1 DEF IInv, Tables, DeleteNeverBlocked, Purged
<1>11. QED
  BY <1>3, <1>4, <1>5, <1>6, <1>7, <1>8, <1>9, <1>10 DEF IInv, Tables

\* The six handlers: what they begin is well-formed and new where it has to be.
LEMMA BeginsIInv ==
  ASSUME IInv, NEW r \in Requests,
         \/ \E u \in UserIds : BeginSetup(r, u)
         \/ \E u \in UserIds, role \in Roles : BeginCreate(r, u, role)
         \/ \E u \in UserIds, row \in Row : BeginUpdate(r, u, row)
         \/ \E u \in UserIds : BeginDelete(r, u)
         \/ \E u \in UserIds, t \in Tokens : BeginToken(r, u, t)
         \/ \E t \in Tokens, n \in Names : BeginEnroll(r, t, n)
  PROVE  IInv'
<1>1. \A q \in Requests :
        /\ job[q].op \in {"setup", "create"} => job[q].user \in UserIds /\ users[job[q].user] = Unborn
        /\ job[q].op = "token" => job[q].token \in Tokens /\ tokens[job[q].token].state = "unborn"
  BY DEF IInv, JobOK, WellFormed, FreshOK
<1>2. ASSUME NEW u \in UserIds, BeginSetup(r, u)  PROVE IInv'
  <2>. DEFINE j == Job("setup", u, Administrator, None, None)
  <2>1. /\ j \in Jobs /\ WellFormed(j) /\ j.op = "setup" /\ j.user = u /\ j.token = None
        /\ FreshUser(u) /\ Begin(r, j)
    BY <1>2, RowFacts DEF BeginSetup, Job, Jobs, WellFormed
  <2>2. QED
    BY <1>1, <2>1, BeginIInv, NoneAssumption DEF FreshUser
<1>3. ASSUME NEW u \in UserIds, NEW role \in Roles, BeginCreate(r, u, role)  PROVE IInv'
  <2>. DEFINE j == Job("create", u, [state |-> "active", role |-> role], None, None)
  <2>1. /\ j \in Jobs /\ WellFormed(j) /\ j.op = "create" /\ j.user = u /\ j.token = None
        /\ FreshUser(u) /\ Begin(r, j)
    BY <1>3 DEF BeginCreate, Job, Jobs, WellFormed, Row
  <2>2. QED
    BY <1>1, <2>1, BeginIInv, NoneAssumption DEF FreshUser
<1>4. ASSUME NEW u \in UserIds, NEW row \in Row, BeginUpdate(r, u, row)  PROVE IInv'
  <2>. DEFINE j == Job("update", u, row, None, None)
  <2>1. /\ j \in Jobs /\ WellFormed(j) /\ j.op = "update" /\ j.user = u /\ j.token = None
        /\ users[u] # Unborn /\ Begin(r, j)
    BY <1>4, RowFacts DEF BeginUpdate, Present, Job, Jobs, WellFormed
  <2>2. QED
    BY <1>1, <2>1, BeginIInv, NoneAssumption
<1>5. ASSUME NEW u \in UserIds, BeginDelete(r, u)  PROVE IInv'
  <2>. DEFINE j == Job("delete", u, Unborn, None, None)
  <2>1. /\ j \in Jobs /\ WellFormed(j) /\ j.op = "delete" /\ j.user = u /\ j.token = None
        /\ users[u] # Unborn /\ Begin(r, j)
    BY <1>5, RowFacts DEF BeginDelete, Present, Job, Jobs, WellFormed
  <2>2. QED
    BY <1>1, <2>1, BeginIInv, NoneAssumption
<1>6. ASSUME NEW u \in UserIds, NEW t \in Tokens, BeginToken(r, u, t)  PROVE IInv'
  <2>. DEFINE j == Job("token", u, Unborn, t, None)
  <2>1. /\ j \in Jobs /\ WellFormed(j) /\ j.op = "token" /\ j.user = u /\ j.token = t
        /\ users[u] # Unborn /\ FreshToken(t) /\ Begin(r, j)
    BY <1>6, RowFacts DEF BeginToken, ActiveAdministrators, Job, Jobs, WellFormed
  <2>2. QED
    BY <1>1, <2>1, BeginIInv DEF FreshToken
<1>7. ASSUME NEW t \in Tokens, NEW n \in Names, BeginEnroll(r, t, n)  PROVE IInv'
  <2>. DEFINE j == Job("enroll", None, Unborn, t, n)
  <2>1. /\ j \in Jobs /\ WellFormed(j) /\ j.op = "enroll" /\ j.user = None /\ j.token = t
        /\ tokens[t].state # "unborn" /\ Begin(r, j)
    BY <1>7 DEF BeginEnroll, Job, Jobs, WellFormed
  <2>2. QED
    BY <1>1, <2>1, BeginIInv, NoneAssumption
<1>8. QED
  BY <1>2, <1>3, <1>4, <1>5, <1>6, <1>7

LEMMA StutterIInv == IInv /\ UNCHANGED vars => IInv'
<1>1. SUFFICES ASSUME IInv, UNCHANGED vars  PROVE IInv'
  OBVIOUS
<1>. USE <1>1 DEF vars
<1>2. TypeOK' /\ JobOK' /\ FreshOK'
  BY DEF IInv, TypeOK, JobOK, FreshOK
<1>3. Exclusive' /\ CountOK'
  BY DEF IInv, Exclusive, CountOK, HoldsMembers, TakesAdministrator, ActiveAdministrators
<1>4. ClaimOK' /\ DoomedOK' /\ Tables'
  BY DEF IInv, ClaimOK, DoomedOK, Tables, TokenMakesOneNode, DeleteNeverBlocked, Purged, TokensOf
<1>5. QED
  BY <1>2, <1>3, <1>4 DEF IInv

\* Every step of every request, and the expiry of a token.
LEMMA NextIInv == IInv /\ [Next]_vars => IInv'
<1>1. SUFFICES ASSUME IInv, [Next]_vars  PROVE IInv'
  OBVIOUS
<1>2. CASE UNCHANGED vars
  BY <1>1, <1>2, StutterIInv
<1>3. ASSUME NEW t \in Tokens, Expire(t)  PROVE IInv'
  BY <1>1, <1>3, ExpireIInv
<1>4. ASSUME NEW r \in Requests,
             Lock(r) \/ CountUsers(r) \/ InsertUser(r) \/ ReadUser(r) \/ CountAdministrators(r)
      PROVE  IInv'
  BY <1>1, <1>4, LockIInv, CountUsersIInv, InsertUserIInv, ReadUserIInv, CountAdministratorsIInv
<1>5. ASSUME NEW r \in Requests,
             UpdateUser(r) \/ DeleteTokens(r) \/ DeleteUser(r) \/ InsertToken(r) \/ ClaimToken(r)
               \/ InsertNode(r)
      PROVE  IInv'
  BY <1>1, <1>5, UpdateUserIInv, DeleteTokensIInv, DeleteUserIInv, InsertTokenIInv, ClaimTokenIInv,
     InsertNodeIInv
<1>6. ASSUME NEW r \in Requests, Rollback(r)  PROVE IInv'
  BY <1>1, <1>6, RollbackIInv DEF Rollback
<1>7. QED
  BY <1>1, <1>2, <1>3, <1>4, <1>5, <1>6, BeginsIInv DEF Next

\* The invariant that every theorem below rests on: requests, locks, claims and tables
\* of EnrollAgent, UpdateUser and DeleteUser agree with one another.
THEOREM Invariant == Spec => []IInv
BY InitIInv, NextIInv, PTL DEF Spec

--------------------------------------------------------------------------------
(***************************************************************************)
(* The theorems.                                                           *)
(***************************************************************************)

\* Every table and every transaction keeps its type.
THEOREM TypeCorrect == Spec => []TypeOK
<1>1. IInv => TypeOK
  BY DEF IInv
<1>2. QED
  BY <1>1, Invariant, PTL

\* A token enrolls at most one node, and a usable one has enrolled none (EnrollAgent).
THEOREM OneNodePerToken == Spec => []TokenMakesOneNode
<1>1. IInv => TokenMakesOneNode
  BY DEF IInv, Tables
<1>2. QED
  BY <1>1, Invariant, PTL

\* Once DeleteUser has deleted the tokens of a member, no other token of the
\* member can be there when it deletes the member.
THEOREM DeletionGoesThrough == Spec => []DeleteNeverBlocked
<1>1. IInv => DeleteNeverBlocked
  BY DEF IInv, Tables
<1>2. QED
  BY <1>1, Invariant, PTL

\* Only UpdateUser and DeleteUser take an active administrator away, and then
\* another one is left.
LEMMA StepKeepsAdministrator ==
  ASSUME IInv, [Next]_vars, ActiveAdministrators # {}
  PROVE  ActiveAdministrators' # {}
<1>1. CASE UNCHANGED users
  BY <1>1 DEF ActiveAdministrators
<1>2. ASSUME NEW r \in Requests, InsertUser(r)  PROVE ActiveAdministrators' # {}
  <2>1. job[r].user \in UserIds /\ users[job[r].user] = Unborn
        /\ users' = [users EXCEPT ![job[r].user] = job[r].row]
    BY <1>2 DEF InsertUser, IInv, JobOK, WellFormed, FreshOK
  <2>2. ActiveAdministrators \subseteq ActiveAdministrators'
    BY <2>1, RowFacts DEF IInv, TypeOK, ActiveAdministrators
  <2>3. QED
    BY <2>2
<1>3. ASSUME NEW r \in Requests, HoldsMembers(r), pc[r] \in {"counted", "purged"},
             job[r].user \in UserIds,
             \A u \in UserIds \ {job[r].user} : users'[u] = users[u],
             job[r].row = Administrator => users'[job[r].user] = Administrator
      PROVE  ActiveAdministrators' # {}
  <2>1. ActiveAdministrators \ {job[r].user} \subseteq ActiveAdministrators'
    BY <1>3 DEF ActiveAdministrators
  <2>2. CASE TakesAdministrator(r)
    BY <1>3, <2>1, <2>2 DEF IInv, CountOK
  <2>3. CASE users[job[r].user] # Administrator
    BY <2>1, <2>3 DEF ActiveAdministrators
  <2>4. CASE job[r].row = Administrator
    <3>1. job[r].user \in ActiveAdministrators'
      BY <1>3, <2>4 DEF ActiveAdministrators
    <3>2. QED
      BY <3>1
  <2>5. QED
    BY <1>3, <2>2, <2>3, <2>4 DEF IInv, CountOK, TakesAdministrator
<1>4. ASSUME NEW r \in Requests, UpdateUser(r)  PROVE ActiveAdministrators' # {}
  <2>1. pc[r] = "counted" /\ job[r].op = "update" /\ users' = [users EXCEPT ![job[r].user] = job[r].row]
    BY <1>4 DEF UpdateUser, IInv, JobOK
  <2>2. HoldsMembers(r) /\ job[r].user \in UserIds
    BY <2>1 DEF IInv, JobOK, WellFormed, HoldsMembers, Member
  <2>3. /\ \A u \in UserIds \ {job[r].user} : users'[u] = users[u]
        /\ job[r].row = Administrator => users'[job[r].user] = Administrator
    BY <2>1, <2>2, RowFacts DEF IInv, TypeOK
  <2>4. QED
    BY <1>3, <2>1, <2>2, <2>3
<1>5. ASSUME NEW r \in Requests, DeleteUser(r)  PROVE ActiveAdministrators' # {}
  <2>1. pc[r] = "purged" /\ job[r].op = "delete" /\ users' = [users EXCEPT ![job[r].user] = Gone]
    BY <1>5 DEF DeleteUser, IInv, JobOK
  <2>2. HoldsMembers(r) /\ job[r].user \in UserIds /\ job[r].row = Unborn
    BY <2>1 DEF IInv, JobOK, WellFormed, HoldsMembers, Member
  <2>3. /\ \A u \in UserIds \ {job[r].user} : users'[u] = users[u]
        /\ job[r].row = Administrator => users'[job[r].user] = Administrator
    BY <2>1, <2>2, RowFacts DEF IInv, TypeOK
  <2>4. QED
    BY <1>3, <2>1, <2>2, <2>3
<1>6. QED
  BY <1>1, <1>2, <1>4, <1>5
     DEF Next, vars, Begin, BeginSetup, BeginCreate, BeginUpdate, BeginDelete, BeginToken,
         BeginEnroll, Statement, Rollback, Lock, CountUsers, ReadUser, CountAdministrators,
         DeleteTokens, InsertToken, ClaimToken, InsertNode, Expire

\* Whatever requests overlap, the last active administrator is neither deleted,
\* disabled nor demoted (UpdateUser, DeleteUser).
THEOREM AnAdministratorRemains == Spec => AdministratorRemains
<1>1. IInv /\ [Next]_vars => [ActiveAdministrators # {} => ActiveAdministrators' # {}]_vars
  BY StepKeepsAdministrator
<1>2. QED
  BY <1>1, Invariant, PTL DEF Spec, AdministratorRemains
================================================================================
