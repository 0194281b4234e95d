------------------------------- MODULE Membership --------------------------------
(***************************************************************************)
(* Members, enrollment tokens and enrolled nodes in PostgreSQL             *)
(* (internal/store/postgres/postgres.go) under overlapping requests        *)
(* (internal/control/server.go).                                           *)
(*                                                                         *)
(* A step is one statement of a transaction; what a transaction has        *)
(* written becomes visible with its last step, which commits.  A statement *)
(* sees what is committed when it starts (READ COMMITTED) and waits for    *)
(* the advisory and row locks it needs.  Passwords, codes and sessions are *)
(* left out: a request is let in when its actor is an active administrator.*)
(***************************************************************************)
EXTENDS Naturals, FiniteSets

CONSTANTS
  UserIds,   \* ids that may be drawn for users
  Tokens,    \* enrollment tokens that may be drawn
  Names,     \* names of nodes
  Requests,  \* requests that may be under way at once
  None       \* not a user, a token or a name

ASSUME NoneAssumption == None \notin UserIds \cup Tokens \cup Names
ASSUME UserIdsAssumption == IsFiniteSet(UserIds)

Roles == {"admin", "member"}

\* A row of users, and what stands for a row before its id is drawn and after it is deleted.
Row == [state : {"active", "disabled"}, role : Roles]
Unborn == [state |-> "unborn", role |-> "member"]
Gone == [state |-> "gone", role |-> "member"]
Administrator == [state |-> "active", role |-> "admin"]

\* What a request asks for: the user it is about (for a token, its creator), the
\* row it wants, the token and the name of the node.
Jobs == [op : {"none", "setup", "create", "update", "delete", "token", "enroll"},
         user : UserIds \cup {None}, row : Row \cup {Unborn},
         token : Tokens \cup {None}, name : Names \cup {None}]
Job(op, u, row, t, n) == [op |-> op, user |-> u, row |-> row, token |-> t, name |-> n]
NoJob == Job("none", None, Unborn, None, None)

VARIABLES
  users,   \* the table users
  tokens,  \* the table enrollment_tokens: state and creator
  nodes,   \* the table nodes: the name, and with it the token used, which no column has
  job,     \* what each request asks for
  pc,      \* the last statement of each request
  seen,    \* the row an update or a delete has read
  doomed   \* the tokens a delete has deleted and not yet committed

vars == <<users, tokens, nodes, job, pc, seen, doomed>>

TypeOK ==
  /\ users \in [UserIds -> Row \cup {Unborn, Gone}]
  /\ tokens \in [Tokens -> [state : {"unborn", "fresh", "expired", "used", "gone"},
                            by : UserIds \cup {None}]]
  /\ nodes \subseteq [name : Names, token : Tokens]
  /\ job \in [Requests -> Jobs]
  /\ pc \in [Requests -> {"idle", "begun", "locked", "read", "counted", "purged", "claimed"}]
  /\ seen \in [Requests -> Row \cup {Unborn}]
  /\ doomed \in [Requests -> SUBSET Tokens]

Init ==
  /\ users = [u \in UserIds |-> Unborn]
  /\ tokens = [t \in Tokens |-> [state |-> "unborn", by |-> None]]
  /\ nodes = {}
  /\ job = [r \in Requests |-> NoJob]
  /\ pc = [r \in Requests |-> "idle"]
  /\ seen = [r \in Requests |-> Unborn]
  /\ doomed = [r \in Requests |-> {}]

Present(u) == users[u] \in Row
ActiveAdministrators == {u \in UserIds : users[u] = Administrator}
TokensOf(u) == {t \in Tokens : tokens[t].by = u /\ tokens[t].state \notin {"unborn", "gone"}}

--------------------------------------------------------------------------------
(***************************************************************************)
(* Handlers: what they check before the transaction.                       *)
(***************************************************************************)

\* The id or token is new: random and drawn by no other request.
FreshUser(u) == users[u] = Unborn /\ \A r \in Requests : job[r].user # u
FreshToken(t) == tokens[t].state = "unborn" /\ \A r \in Requests : job[r].token # t

Begin(r, j) ==
  /\ pc[r] = "idle"
  /\ job' = [job EXCEPT ![r] = j]
  /\ pc' = [pc EXCEPT ![r] = "begun"]
  /\ UNCHANGED <<users, tokens, nodes, seen, doomed>>

BeginSetup(r, u) == FreshUser(u) /\ Begin(r, Job("setup", u, Administrator, None, None))

BeginCreateBlankRole(r, u, role) ==
  /\ ActiveAdministrators # {} /\ FreshUser(u)
  /\ Begin(r, Job("create", u, [state |-> "active", role |-> ""], None, None))

BeginCreate(r, u, role) ==
  /\ ActiveAdministrators # {} /\ FreshUser(u)
  /\ Begin(r, Job("create", u, [state |-> "active", role |-> role], None, None))

\* An administrator cannot change or delete itself here.
BeginUpdate(r, u, row) ==
  /\ ActiveAdministrators \ {u} # {} /\ Present(u)
  /\ Begin(r, Job("update", u, row, None, None))

BeginDelete(r, u) ==
  /\ ActiveAdministrators \ {u} # {} /\ Present(u)
  /\ Begin(r, Job("delete", u, Unborn, None, None))

BeginToken(r, u, t) ==
  /\ u \in ActiveAdministrators /\ FreshToken(t)
  /\ Begin(r, Job("token", u, Unborn, t, None))

\* An agent, or an agent whose first answer was lost, presents a token.
BeginEnroll(r, t, n) ==
  /\ tokens[t].state # "unborn"
  /\ Begin(r, Job("enroll", None, Unborn, t, n))

--------------------------------------------------------------------------------
(***************************************************************************)
(* Transactions.                                                           *)
(***************************************************************************)

DeleteUnderOtherKey(op) ==
  CASE op = "setup" -> "706733041"
    [] op \in {"create", "update"} -> "706733042"
    [] op = "delete" -> "706733043"
    [] OTHER -> "none"

\* The key of the advisory lock that a request takes first.
LockOf(op) ==
  CASE op = "setup" -> "706733041"
    [] op \in {"create", "update", "delete"} -> "706733042"
    [] OTHER -> "none"

InTransaction(r) == pc[r] \notin {"idle", "begun"}

ReadWithoutForUpdate(u) == u \in UserIds
SelectThenUpdate(t) == \A r \in Requests : t \notin doomed[r]

\* No transaction holds the row of u after SELECT ... FOR UPDATE, or the row of
\* token t after UPDATE or DELETE.
UserRowFree(u) == ~\E r \in Requests : job[r].user = u /\ pc[r] \in {"read", "counted", "purged"}
TokenRowFree(t) ==
  ~\E r \in Requests : t \in doomed[r] \/ (pc[r] = "claimed" /\ job[r].token = t)

Statement(r, after) ==
  /\ pc' = [pc EXCEPT ![r] = after]
  /\ UNCHANGED <<users, tokens, nodes, job>>

\* The transaction ends, committed or rolled back.
End(r) ==
  /\ pc' = [pc EXCEPT ![r] = "idle"]
  /\ job' = [job EXCEPT ![r] = NoJob]
  /\ seen' = [seen EXCEPT ![r] = Unborn]
  /\ doomed' = [doomed EXCEPT ![r] = {}]

\* An error of the database, a conflict of user names or a client that has gone.
Rollback(r) == pc[r] # "idle" /\ End(r) /\ UNCHANGED <<users, tokens, nodes>>

Lock(r) ==
  /\ pc[r] = "begun" /\ LockOf(job[r].op) # "none"
  /\ ~\E q \in Requests : InTransaction(q) /\ LockOf(job[q].op) = LockOf(job[r].op)
  /\ Statement(r, "locked") /\ UNCHANGED <<seen, doomed>>

CountUsers(r) ==
  /\ pc[r] = "locked" /\ job[r].op = "setup"
  /\ IF \E u \in UserIds : Present(u)
       THEN End(r) /\ UNCHANGED <<users, tokens, nodes>>
       ELSE Statement(r, "counted") /\ UNCHANGED <<seen, doomed>>

InsertUser(r) ==
  /\ \/ job[r].op = "setup" /\ pc[r] = "counted"
     \/ job[r].op = "create" /\ pc[r] = "locked"
  /\ users' = [users EXCEPT ![job[r].user] = job[r].row]
  /\ End(r) /\ UNCHANGED <<tokens, nodes>>

ReadUser(r) ==
  /\ pc[r] = "locked" /\ job[r].op \in {"update", "delete"} /\ UserRowFree(job[r].user)
  /\ IF Present(job[r].user)
       THEN /\ seen' = [seen EXCEPT ![r] = users[job[r].user]]
            /\ Statement(r, "read") /\ UNCHANGED doomed
       ELSE End(r) /\ UNCHANGED <<users, tokens, nodes>>

TakesAdministrator(r) == seen[r] = Administrator /\ job[r].row # Administrator

CountAdministrators(r) ==
  /\ pc[r] = "read"
  /\ IF TakesAdministrator(r) /\ Cardinality(ActiveAdministrators) <= 1
       THEN End(r) /\ UNCHANGED <<users, tokens, nodes>>
       ELSE Statement(r, "counted") /\ UNCHANGED <<seen, doomed>>

UpdateUser(r) ==
  /\ pc[r] = "counted" /\ job[r].op = "update"
  /\ users' = [users EXCEPT ![job[r].user] = job[r].row]
  /\ End(r) /\ UNCHANGED <<tokens, nodes>>

DeleteTokens(r) ==
  LET own == TokensOf(job[r].user) IN
  /\ pc[r] = "counted" /\ job[r].op = "delete"
  /\ \A t \in own : TokenRowFree(t)
  /\ doomed' = [doomed EXCEPT ![r] = own]
  /\ Statement(r, "purged") /\ UNCHANGED seen

\* A token of the user that is still there makes the foreign key refuse the deletion.
Purged(r) == TokensOf(job[r].user) \subseteq doomed[r]

DeleteUser(r) ==
  /\ pc[r] = "purged" /\ Purged(r)
  /\ users' = [users EXCEPT ![job[r].user] = Gone]
  /\ tokens' = [t \in Tokens |-> IF t \in doomed[r]
                                   THEN [state |-> "gone", by |-> tokens[t].by] ELSE tokens[t]]
  /\ End(r) /\ UNCHANGED nodes

\* The foreign key of the new token needs the row of its creator.
InsertToken(r) ==
  /\ pc[r] = "begun" /\ job[r].op = "token" /\ UserRowFree(job[r].user)
  /\ tokens' = IF Present(job[r].user)
                 THEN [tokens EXCEPT ![job[r].token] = [state |-> "fresh", by |-> job[r].user]]
                 ELSE tokens
  /\ End(r) /\ UNCHANGED <<users, nodes>>

ClaimToken(r) ==
  /\ pc[r] = "begun" /\ job[r].op = "enroll" /\ TokenRowFree(job[r].token)
  /\ IF tokens[job[r].token].state = "fresh"
       THEN Statement(r, "claimed") /\ UNCHANGED <<seen, doomed>>
       ELSE End(r) /\ UNCHANGED <<users, tokens, nodes>>

\* The name of a node is unique; a failed insertion gives the token back.
InsertNode(r) ==
  LET t == job[r].token IN
  /\ pc[r] = "claimed"
  /\ IF \E n \in nodes : n.name = job[r].name
       THEN UNCHANGED <<tokens, nodes>>
       ELSE /\ tokens' = [tokens EXCEPT ![t] = [state |-> "used", by |-> tokens[t].by]]
            /\ nodes' = nodes \cup {[name |-> job[r].name, token |-> t]}
  /\ End(r) /\ UNCHANGED users

Expire(t) ==
  /\ tokens[t].state = "fresh"
  /\ tokens' = [tokens EXCEPT ![t] = [state |-> "expired", by |-> tokens[t].by]]
  /\ UNCHANGED <<users, nodes, job, pc, seen, doomed>>

--------------------------------------------------------------------------------
Next ==
  \/ \E r \in Requests :
       \/ \E u \in UserIds : BeginSetup(r, u)
       \/ \E u \in UserIds, role \in Roles : BeginCreate(r, u, role)
       \/ \E u \in UserIds, row \in Row : BeginUpdate(r, u, row)
       \/ \E u \in UserIds : BeginDelete(r, u)
       \/ \E u \in UserIds, t \in Tokens : BeginToken(r, u, t)
       \/ \E t \in Tokens, n \in Names : BeginEnroll(r, t, n)
       \/ Rollback(r)
       \/ Lock(r)
       \/ CountUsers(r)
       \/ InsertUser(r)
       \/ ReadUser(r)
       \/ CountAdministrators(r)
       \/ UpdateUser(r)
       \/ DeleteTokens(r)
       \/ DeleteUser(r)
       \/ InsertToken(r)
       \/ ClaimToken(r)
       \/ InsertNode(r)
  \/ \E t \in Tokens : Expire(t)

Spec == Init /\ [][Next]_vars

--------------------------------------------------------------------------------
(***************************************************************************)
(* Properties.                                                             *)
(***************************************************************************)

\* Once there is an active administrator there always is one, whatever two
\* requests do to one another's actors: UpdateUser and DeleteUser count under
\* the same lock and refuse the last one.
AdministratorRemains == [][ActiveAdministrators # {} => ActiveAdministrators' # {}]_vars

\* A token enrolls at most one node, also when an answer is lost and the agent
\* tries again under another name, and a token that can still be used has enrolled
\* none: EnrollAgent claims the token in the transaction that inserts the node.
TokenMakesOneNode ==
  /\ \A m, n \in nodes : m.token = n.token => m = n
  /\ \A n \in nodes : tokens[n.token].state \in {"used", "gone"}

\* Deleting a member never fails for a token it has created meanwhile:
\* DeleteUser holds the member's row from before it deletes the tokens.
DeleteNeverBlocked == \A r \in Requests : pc[r] = "purged" => Purged(r)
================================================================================
