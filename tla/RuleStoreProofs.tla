----------------------------- MODULE RuleStoreProofs ------------------------------
(***************************************************************************)
(* Theorems about RuleStore, for any nodes, rules, requests and versions:  *)
(* what overlapping transactions leave in the tables and what an agent     *)
(* reads of it meanwhile, the order of the locks, and that the whole is an *)
(* implementation of the in-memory store; and about what that store, with  *)
(* its cached configurations, serves.                                      *)
(***************************************************************************)
EXTENDS RuleStore, FiniteSetTheorems, WellFoundedInduction, TLAPS

--------------------------------------------------------------------------------
(***************************************************************************)
(* The inductive invariant.                                                *)
(***************************************************************************)

\* The nodes the transaction x has to give a new version, with these rows.
Concerned(x, table) ==
  (IF table[x.id] # None THEN RuleNodes(table[x.id].rule) ELSE {})
    \cup (IF x.op # "delete" THEN RuleNodes(x.input) ELSE {})

\* What a transaction knows is true: the row it has locked exists, it takes the
\* nodes of the old rule and of the new one, in their order, a version it has given
\* is the next one, and the listener it has found free is free.
Sound(x, table, versions, ids) ==
  /\ x.id \in ids
  /\ x.op # "delete" => x.input \in Inputs
  /\ x.op = "create" => x.at # "row" /\ table[x.id] = None
  /\ x.op # "create" /\ x.at # "row" => table[x.id] # None
  /\ x.op = "delete" => x.at # "listener"
  /\ x.at # "row" => x.affected = Concerned(x, table)
  /\ x.at # "bump" => \A n \in Nodes : x.bumped[n] = None
  /\ \A n \in Nodes : x.bumped[n] # None => n \in x.affected /\ x.bumped[n] = versions[n] + 1
  /\ \A m, n \in x.affected : x.bumped[m] # None /\ x.bumped[n] = None => Rank[m] < Rank[n]
  /\ x.at = "bump" /\ x.op # "delete" =>
       \A id \in RuleIds \ {x.id} : table[id] # None => ~Conflict(table[id].rule, x.input)

\* Two transactions do not hold the same lock: on a row, on a listener, on a node.
Apart(x, y) ==
  /\ x.at # "row" /\ y.at # "row" => x.id # y.id
  /\ x.op = "create" => x.id # y.id
  /\ x.op # "delete" /\ y.op # "delete" /\ x.at = "bump" /\ y.at = "bump" =>
       ~(x.input.ingress = y.input.ingress /\ x.input.listen = y.input.listen)
  /\ \A n \in Nodes : x.bumped[n] = None \/ y.bumped[n] = None

Transactions ==
  /\ \A t \in Active : Sound(tx[t], rows, version, drawn)
  /\ \A t, u \in Active : t # u => Apart(tx[t], tx[u])

\* The version an agent has read is not ahead of the store.
Answered ==
  /\ answer.node \in Nodes /\ answer.version \in Nat
  /\ answer.version <= version[answer.node]

IInv ==
  /\ TypeOK /\ Transactions /\ Answered
  /\ ListenersDistinct /\ AppliedMeansSent /\ SameVersionSameRules

--------------------------------------------------------------------------------
(***************************************************************************)
(* The invariant is inductive.                                             *)
(***************************************************************************)

LEMMA InitIInv == Init => IInv
<1> SUFFICES ASSUME Init PROVE IInv
  OBVIOUS
<1>1. Stored = {} /\ Active = {}
  BY DEF Init, Stored, Active
<1>2. TypeOK
  BY <1>1 DEF Init, TypeOK, Hosts
<1>3. Transactions /\ Answered /\ ListenersDistinct /\ AppliedMeansSent
  BY <1>1 DEF Init, Transactions, Answered, ListenersDistinct, AppliedMeansSent
<1>4. RulesWith(answer.node, tunnelAddress) = <<>>
  BY <1>1 DEF RulesWith, Naming
<1>5. SameVersionSameRules
  BY <1>2, <1>4 DEF Init, SameVersionSameRules, TypeOK
<1> QED
  BY <1>2, <1>3, <1>5 DEF IInv

\* What would be sent, with whatever tunnel addresses, is a matter of the rows.
LEMMA SameRows ==
  ASSUME rows' = rows
  PROVE  /\ Stored' = Stored /\ \A n : Naming(n)' = Naming(n)
         /\ \A id, hosts : SentWith(id, hosts)' = SentWith(id, hosts)
         /\ \A n, hosts : RulesWith(n, hosts)' = RulesWith(n, hosts)
<1>1. Stored' = Stored
  BY DEF Stored
<1>2. \A n : Naming(n)' = Naming(n)
  BY <1>1 DEF Naming
<1>3. \A id, hosts : SentWith(id, hosts)' = SentWith(id, hosts)
  BY DEF SentWith, Scanned
<1> QED
  BY <1>1, <1>2, <1>3 DEF RulesWith

\* An answer stays as good as it is until rows or versions change.
LEMMA SameAnswer ==
  ASSUME AppliedMeansSent, SameVersionSameRules, UNCHANGED <<rows, version, answer>>
  PROVE  (AppliedMeansSent /\ SameVersionSameRules)'
<1>1. AppliedMeansSent'
  BY SameRows DEF AppliedMeansSent
<1>2. SameVersionSameRules'
  BY SameRows DEF SameVersionSameRules
<1> QED
  BY <1>1, <1>2

\* A statement that changes nothing but its own transaction.
LEMMA OneMoves ==
  ASSUME IInv, NEW t \in Requests, NEW y,
         \/ y = None
         \/ /\ y \in Transaction /\ {n \in Nodes : y.bumped[n] # None} \subseteq y.affected
            /\ Sound(y, rows, version, drawn')
            /\ \A u \in Active \ {t} : Apart(y, tx[u]) /\ Apart(tx[u], y),
         tx' = [tx EXCEPT ![t] = y],
         drawn \subseteq drawn', drawn' \subseteq RuleIds,
         UNCHANGED <<rows, version, tunnelAddress, answer>>
  PROVE  IInv'
<1>0. TypeOK /\ Transactions
  BY DEF IInv
<1>1. /\ tx' \in [Requests -> Transaction \cup {None}]
      /\ \A u \in Requests : tx'[u] = IF u = t THEN y ELSE tx[u]
  BY <1>0 DEF TypeOK
<1>2. Stored' = Stored
  BY DEF Stored
<1>3. TypeOK'
  BY <1>0, <1>1, <1>2 DEF TypeOK
<1>4. \A u \in Active' : u # t => u \in Active
  BY <1>1 DEF Active
<1>5. \A u \in Active' : Sound(tx'[u], rows', version', drawn')
  <2> SUFFICES ASSUME NEW u \in Active' PROVE Sound(tx'[u], rows', version', drawn')
    OBVIOUS
  <2>1. CASE u = t
    BY <1>1, <2>1 DEF Active
  <2>2. CASE u # t
    <3>1. Sound(tx[u], rows, version, drawn)
      BY <1>0, <1>4, <2>2 DEF Transactions
    <3>2. Sound(tx[u], rows, version, drawn')
      BY <3>1 DEF Sound
    <3> QED
      BY <1>1, <2>2, <3>2 DEF Active
  <2> QED
    BY <2>1, <2>2
<1>6. \A u, v \in Active' : u # v => Apart(tx'[u], tx'[v])
  BY <1>0, <1>1, <1>4 DEF Transactions, Active
<1>7. Transactions'
  BY <1>5, <1>6 DEF Transactions
<1>8. (Answered /\ ListenersDistinct)'
  BY <1>2 DEF IInv, Answered, ListenersDistinct, Conflict
<1>9. (AppliedMeansSent /\ SameVersionSameRules)'
  BY SameAnswer DEF IInv
<1> QED
  BY <1>3, <1>7, <1>8, <1>9 DEF IInv

LEMMA RollbackStep ==
  ASSUME IInv, NEW t \in Requests, Rollback(t)
  PROVE  IInv'
<1>1. drawn \subseteq RuleIds
  BY DEF IInv, TypeOK
<1>2. tx' = [tx EXCEPT ![t] = None] /\ UNCHANGED <<rows, version, tunnelAddress, drawn, answer>>
  BY DEF Rollback
<1> QED
  BY <1>1, <1>2, OneMoves

LEMMA InputNodes ==
  ASSUME NEW rule \in Inputs
  PROVE  /\ rule.ingress \in Nodes /\ RuleNodes(rule) \subseteq Nodes
         /\ rule.mode = "relay" => rule.egress \in Nodes
         /\ rule \in Input
BY InputsAssumption DEF RuleNodes, Input

LEMMA BeginStep ==
  ASSUME IInv, NEW t \in Requests, NEW id \in RuleIds, NEW input \in Inputs,
         BeginCreate(t, id, input) \/ BeginUpdate(t, id, input) \/ BeginDelete(t, id)
  PROVE  IInv'
<1> DEFINE nothing == [n \in Nodes |-> None]
<1>0. TypeOK /\ Transactions
  BY DEF IInv
<1>1. /\ Stored \subseteq drawn /\ drawn \subseteq RuleIds
      /\ \A u \in Active : tx[u].id \in drawn
  BY <1>0 DEF TypeOK, Transactions, Sound
<1>2. UNCHANGED <<rows, version, tunnelAddress, answer>> /\ nothing \in [Nodes -> Nat \cup {None}]
  BY DEF BeginCreate, BeginUpdate, BeginDelete, Begin
<1>3. CASE BeginCreate(t, id, input)
  <2> DEFINE y == [op |-> "create", id |-> id, input |-> input, at |-> "listener",
                   affected |-> RuleNodes(input), bumped |-> nothing]
  <2>1. tx' = [tx EXCEPT ![t] = y] /\ drawn' = drawn \cup {id} /\ id \notin drawn
    BY <1>3 DEF BeginCreate, Begin
  <2>2. y \in Transaction
    BY <1>2, InputNodes DEF Transaction
  <2>3. rows[id] = None
    BY <1>1, <2>1 DEF Stored
  <2>4. Sound(y, rows, version, drawn')
    BY <2>1, <2>3, InputNodes DEF Sound, Concerned
  <2>5. \A u \in Active \ {t} : Apart(y, tx[u]) /\ Apart(tx[u], y)
    BY <1>1, <2>1 DEF Apart
  <2> QED
    BY <1>1, <1>2, <2>1, <2>2, <2>4, <2>5, OneMoves
<1>4. CASE BeginUpdate(t, id, input)
  <2> DEFINE y == [op |-> "update", id |-> id, input |-> input, at |-> "row", affected |-> {},
                   bumped |-> nothing]
  <2>1. tx' = [tx EXCEPT ![t] = y] /\ drawn' = drawn /\ id \in Stored
    BY <1>4 DEF BeginUpdate, Begin
  <2>2. y \in Transaction
    BY <1>2 DEF Transaction
  <2>3. Sound(y, rows, version, drawn')
    BY <1>1, <2>1 DEF Sound
  <2>4. \A u \in Active \ {t} : Apart(y, tx[u]) /\ Apart(tx[u], y)
    BY <1>0, <1>1, <2>1 DEF Apart, Transactions, Sound, Stored
  <2> QED
    BY <1>1, <1>2, <2>1, <2>2, <2>3, <2>4, OneMoves
<1>5. CASE BeginDelete(t, id)
  <2> DEFINE y == [op |-> "delete", id |-> id, input |-> None, at |-> "row", affected |-> {},
                   bumped |-> nothing]
  <2>1. tx' = [tx EXCEPT ![t] = y] /\ drawn' = drawn /\ id \in Stored
    BY <1>5 DEF BeginDelete, Begin
  <2>2. y \in Transaction
    BY <1>2 DEF Transaction
  <2>3. Sound(y, rows, version, drawn')
    BY <1>1, <2>1 DEF Sound
  <2>4. \A u \in Active \ {t} : Apart(y, tx[u]) /\ Apart(tx[u], y)
    BY <1>0, <1>1, <2>1 DEF Apart, Transactions, Sound, Stored
  <2> QED
    BY <1>1, <1>2, <2>1, <2>2, <2>3, <2>4, OneMoves
<1> QED
  BY <1>3, <1>4, <1>5

LEMMA ActiveTyped ==
  ASSUME TypeOK, NEW t \in Active
  PROVE  /\ t \in Requests /\ tx[t] \in Transaction
         /\ {n \in Nodes : tx[t].bumped[n] # None} \subseteq tx[t].affected
BY DEF Active, TypeOK

LEMMA LockRowStep ==
  ASSUME IInv, NEW t \in Requests, LockRow(t)
  PROVE  IInv'
<1> DEFINE x == tx[t]
<1>0. TypeOK /\ Transactions
  BY DEF IInv
<1>1. t \in Active /\ x.at = "row" /\ \A u \in Active \ {t} : ~Blocks(u, t)
  BY DEF LockRow, Reaches
<1>2. x \in Transaction /\ Sound(x, rows, version, drawn)
  BY <1>0, <1>1, ActiveTyped DEF Transactions
<1>3. x.op # "create" /\ (\A n \in Nodes : x.bumped[n] = None) /\ x.bumped \in [Nodes -> Nat \cup {None}]
  BY <1>1, <1>2 DEF Sound, Transaction
<1>4. CASE rows[x.id] = None
  BY <1>4, RollbackStep DEF LockRow
<1>5. CASE rows[x.id] # None
  <2> DEFINE old == RuleNodes(rows[x.id].rule)
             y == IF x.op = "update" THEN Moved(t, "listener", old \cup RuleNodes(x.input), x.bumped)
                                     ELSE Moved(t, "bump", old, x.bumped)
  <2>1. tx' = [tx EXCEPT ![t] = y] /\ UNCHANGED <<rows, version, tunnelAddress, drawn, answer>>
    BY <1>5 DEF LockRow
  <2>2. /\ y.op = x.op /\ y.id = x.id /\ y.input = x.input /\ y.bumped = x.bumped
        /\ y.at = IF x.op = "update" THEN "listener" ELSE "bump"
        /\ y.affected = IF x.op = "update" THEN old \cup RuleNodes(x.input) ELSE old
    BY DEF Moved
  <2>3. rows[x.id].rule \in Inputs /\ old \subseteq Nodes
    BY <1>0, <1>2, <1>5, InputNodes DEF TypeOK, Row, Transaction
  <2>4. x.op \in {"update", "delete"} /\ (x.op # "delete" => x.input \in Inputs)
    BY <1>2, <1>3 DEF Transaction, Sound
  <2>5. y.affected \subseteq Nodes
    BY <2>2, <2>3, <2>4, InputNodes
  <2>6. y \in Transaction
    BY <1>2, <2>2, <2>5 DEF Moved, Transaction
  <2>7. y.affected = Concerned(y, rows)
    <3> HIDE DEF y
    <3>1. CASE x.op = "update"
      BY <1>5, <2>2, <3>1 DEF Concerned
    <3>2. CASE x.op = "delete"
      BY <1>5, <2>2, <3>2 DEF Concerned
    <3> QED
      BY <2>4, <3>1, <3>2
  <2>8. Sound(y, rows, version, drawn')
    BY <1>2, <1>3, <1>5, <2>1, <2>2, <2>4, <2>5, <2>7 DEF Sound
  <2>9. ASSUME NEW u \in Active \ {t} PROVE Apart(y, tx[u]) /\ Apart(tx[u], y)
    <3>1. Apart(x, tx[u]) /\ Apart(tx[u], x) /\ ~Blocks(u, t)
      BY <1>0, <1>1 DEF Transactions
    <3>2. tx[u].at # "row" => tx[u].id # x.id
      BY <1>1, <3>1 DEF Blocks, Apart
    <3> QED
      BY <2>2, <2>4, <3>1, <3>2 DEF Apart
  <2>10. {n \in Nodes : y.bumped[n] # None} \subseteq y.affected
    BY <1>3, <2>2
  <2>11. drawn \subseteq RuleIds
    BY <1>0 DEF TypeOK
  <2> QED
    BY <2>1, <2>6, <2>8, <2>9, <2>10, <2>11, OneMoves
<1> QED
  BY <1>4, <1>5

LEMMA LockListenerStep ==
  ASSUME IInv, NEW t \in Requests, LockListener(t)
  PROVE  IInv'
<1> DEFINE x == tx[t]
           y == Moved(t, "bump", x.affected, x.bumped)
<1>0. TypeOK /\ Transactions
  BY DEF IInv
<1>1. t \in Active /\ x.at = "listener" /\ \A u \in Active \ {t} : ~Blocks(u, t)
  BY DEF LockListener, Reaches
<1>2. x \in Transaction /\ Sound(x, rows, version, drawn)
  BY <1>0, <1>1, ActiveTyped DEF Transactions
<1>3. CASE Taken(t)
  BY <1>3, RollbackStep DEF LockListener
<1>4. CASE ~Taken(t)
  <2>1. tx' = [tx EXCEPT ![t] = y] /\ UNCHANGED <<rows, version, tunnelAddress, drawn, answer>>
    BY <1>4 DEF LockListener
  <2>2. /\ y.op = x.op /\ y.id = x.id /\ y.input = x.input /\ y.bumped = x.bumped
        /\ y.at = "bump" /\ y.affected = x.affected
    BY DEF Moved
  <2>3. y \in Transaction
    BY <1>2 DEF Moved, Transaction
  <2>4. \A id \in RuleIds \ {x.id} : rows[id] # None => ~Conflict(rows[id].rule, x.input)
    BY <1>4 DEF Taken, Stored
  <2>5. Sound(y, rows, version, drawn')
    BY <1>1, <1>2, <2>1, <2>2, <2>4 DEF Sound, Concerned
  <2>6. ASSUME NEW u \in Active \ {t} PROVE Apart(y, tx[u]) /\ Apart(tx[u], y)
    <3>1. Apart(x, tx[u]) /\ Apart(tx[u], x) /\ ~Blocks(u, t)
      BY <1>0, <1>1 DEF Transactions
    <3> QED
      BY <1>1, <2>2, <3>1 DEF Apart, Blocks
  <2>7. {n \in Nodes : y.bumped[n] # None} \subseteq y.affected /\ drawn \subseteq RuleIds
    BY <1>0, <1>1, <2>2, ActiveTyped DEF TypeOK
  <2> QED
    BY <2>1, <2>3, <2>5, <2>6, <2>7, OneMoves
<1> QED
  BY <1>3, <1>4

LEMMA BumpNodeStep ==
  ASSUME IInv, NEW t \in Requests, NEW node \in Nodes, BumpNode(t, node)
  PROVE  IInv'
<1> DEFINE x == tx[t]
           y == Moved(t, "bump", x.affected, Bumped(t, node))
<1>0. TypeOK /\ Transactions
  BY DEF IInv
<1>1. t \in Active /\ x.at = "bump" /\ \A u \in Active \ {t} : ~Blocks(u, t)
  BY DEF BumpNode, Reaches
<1>2. x \in Transaction /\ Sound(x, rows, version, drawn)
  BY <1>0, <1>1, ActiveTyped DEF Transactions
<1>3. /\ BumpNext(t, node) /\ node \in x.affected
      /\ \A m \in x.affected : x.bumped[m] = None => Rank[node] <= Rank[m]
  BY DEF BumpNode, BumpNext, ToBump
<1>4. tx' = [tx EXCEPT ![t] = y] /\ UNCHANGED <<rows, version, tunnelAddress, drawn, answer>>
  BY DEF BumpNode
<1>5. /\ y.op = x.op /\ y.id = x.id /\ y.input = x.input
      /\ y.at = x.at /\ y.affected = x.affected
      /\ y.bumped = [x.bumped EXCEPT ![node] = version[node] + 1]
  BY <1>1 DEF Moved, Bumped
<1>6. /\ x.bumped \in [Nodes -> Nat \cup {None}] /\ x.affected \subseteq Nodes
      /\ version[node] + 1 \in Nat
      /\ \A n \in Nodes : y.bumped[n] = IF n = node THEN version[node] + 1 ELSE x.bumped[n]
  BY <1>0, <1>2, <1>5 DEF Transaction, TypeOK
<1>7. y \in Transaction
  <2>1. Bumped(t, node) \in [Nodes -> Nat \cup {None}]
    BY <1>6 DEF Bumped
  <2> QED
    BY <1>2, <2>1 DEF Moved, Transaction
<1>8. \A m, n \in y.affected : y.bumped[m] # None /\ y.bumped[n] = None => Rank[m] < Rank[n]
  <2> SUFFICES ASSUME NEW m \in x.affected, NEW n \in x.affected,
                      y.bumped[m] # None, y.bumped[n] = None
               PROVE  Rank[m] < Rank[n]
    BY <1>5
  <2>1. n # node /\ x.bumped[n] = None
    BY <1>6, NoneAssumption
  <2>2. Rank[m] \in Nat /\ Rank[n] \in Nat /\ Rank[node] \in Nat
    BY <1>6, RankAssumption
  <2>3. CASE m = node
    BY <1>3, <1>6, <2>1, <2>2, <2>3, RankAssumption
  <2>4. CASE m # node
    BY <1>2, <1>6, <2>1, <2>4 DEF Sound
  <2> QED
    BY <2>3, <2>4
<1>9. Sound(y, rows, version, drawn')
  <2>1. y.affected = Concerned(y, rows)
    BY <1>1, <1>2, <1>5 DEF Sound, Concerned
  <2>2. \A n \in Nodes : y.bumped[n] # None => n \in y.affected /\ y.bumped[n] = version[n] + 1
    BY <1>2, <1>3, <1>5, <1>6 DEF Sound
  <2> QED
    BY <1>1, <1>2, <1>4, <1>5, <1>8, <2>1, <2>2 DEF Sound
<1>10. ASSUME NEW u \in Active \ {t} PROVE Apart(y, tx[u]) /\ Apart(tx[u], y)
  <2>1. Apart(x, tx[u]) /\ Apart(tx[u], x) /\ ~Blocks(u, t)
    BY <1>0, <1>1 DEF Transactions
  <2>2. tx[u].bumped[node] = None
    BY <1>1, <1>3, <2>1 DEF Blocks
  <2>3. \A n \in Nodes : y.bumped[n] = None \/ tx[u].bumped[n] = None
    BY <1>6, <2>1, <2>2 DEF Apart
  <2> QED
    BY <1>5, <2>1, <2>3 DEF Apart
<1>11. {n \in Nodes : y.bumped[n] # None} \subseteq y.affected /\ drawn \subseteq RuleIds
  BY <1>0, <1>9 DEF Sound, TypeOK
<1> QED
  BY <1>4, <1>7, <1>9, <1>10, <1>11, OneMoves

\* What a transaction that is not refused leaves behind: one row, and the next
\* version for every node that the row concerned or concerns.
LEMMA CommitStores ==
  ASSUME IInv, NEW t \in Requests, Commit(t), ~(tx[t].op # "delete" /\ RelayTaken(t))
  PROVE  /\ t \in Active /\ tx[t].at = "bump" /\ tx[t].id \in RuleIds
         /\ tx[t].affected = Concerned(tx[t], rows) /\ tx[t].affected \subseteq Nodes
         /\ version' \in [Nodes -> Nat \ {0}]
         /\ \A n \in Nodes : version'[n] = IF n \in tx[t].affected THEN version[n] + 1 ELSE version[n]
         /\ rows' \in [RuleIds -> Row \cup {None}]
         /\ \A id \in RuleIds \ {tx[t].id} : rows'[id] = rows[id]
         /\ tx[t].op = "delete" => rows'[tx[t].id] = None
         /\ tx[t].op # "delete" =>
              /\ tx[t].input \in Inputs
              /\ rows'[tx[t].id] = NewRow(t) /\ NewRow(t) \in Row
              /\ NewRow(t) = [rule |-> tx[t].input, cv |-> version'[tx[t].input.ingress],
                              ecv |-> IF tx[t].input.mode = "relay"
                                        THEN version'[tx[t].input.egress] ELSE None]
         /\ tx' = [tx EXCEPT ![t] = None] /\ UNCHANGED <<tunnelAddress, drawn, answer>>
<1> DEFINE x == tx[t]
<1>0. TypeOK /\ Transactions
  BY DEF IInv
<1>1. t \in Active /\ x.at = "bump" /\ ToBump(t) = {}
  BY DEF Commit, Reaches
<1>2. x \in Transaction /\ Sound(x, rows, version, drawn)
  BY <1>0, <1>1, ActiveTyped DEF Transactions
<1>3. /\ x.affected \subseteq Nodes /\ x.bumped \in [Nodes -> Nat \cup {None}] /\ x.id \in RuleIds
      /\ x.affected = Concerned(x, rows)
      /\ version \in [Nodes -> Nat \ {0}]
  BY <1>0, <1>1, <1>2 DEF Transaction, Sound, TypeOK
<1>4. \A n \in Nodes : /\ x.bumped[n] # None <=> n \in x.affected
                       /\ x.bumped[n] # None => x.bumped[n] = version[n] + 1
  BY <1>1, <1>2, <1>3 DEF ToBump, Sound
<1>5. /\ rows' = [rows EXCEPT ![x.id] = IF x.op = "delete" THEN None ELSE NewRow(t)]
      /\ version' = [n \in Nodes |-> IF x.bumped[n] # None THEN x.bumped[n] ELSE version[n]]
      /\ tx' = [tx EXCEPT ![t] = None] /\ UNCHANGED <<tunnelAddress, drawn, answer>>
  BY DEF Commit
<1>6. \A n \in Nodes : version'[n] = IF n \in x.affected THEN version[n] + 1 ELSE version[n]
  BY <1>4, <1>5
<1>7. version' \in [Nodes -> Nat \ {0}]
  <2>1. \A n \in Nodes : version'[n] \in Nat \ {0}
    BY <1>3, <1>6
  <2> QED
    BY <1>5, <2>1
<1>8. ASSUME x.op # "delete"
      PROVE  /\ x.input \in Inputs /\ NewRow(t) \in Row
             /\ NewRow(t) = [rule |-> x.input, cv |-> version'[x.input.ingress],
                             ecv |-> IF x.input.mode = "relay"
                                       THEN version'[x.input.egress] ELSE None]
  <2>1. x.input \in Inputs /\ RuleNodes(x.input) \subseteq x.affected
    BY <1>2, <1>3, <1>8 DEF Sound, Concerned
  <2>2. /\ x.input.ingress \in x.affected
        /\ x.input.mode = "relay" => x.input.egress \in x.affected
    BY <2>1 DEF RuleNodes
  <2>3. /\ x.bumped[x.input.ingress] = version'[x.input.ingress]
        /\ x.input.mode = "relay" => x.bumped[x.input.egress] = version'[x.input.egress]
    BY <1>3, <1>4, <1>6, <2>2
  <2>4. NewRow(t) = [rule |-> x.input, cv |-> version'[x.input.ingress],
                     ecv |-> IF x.input.mode = "relay" THEN version'[x.input.egress] ELSE None]
    BY <2>3 DEF NewRow
  <2>5. /\ version'[x.input.ingress] \in Nat
        /\ x.input.mode = "relay" => version'[x.input.egress] \in Nat
    BY <1>3, <1>7, <2>2
  <2> QED
    BY <2>1, <2>4, <2>5 DEF Row
<1>9. rows' \in [RuleIds -> Row \cup {None}]
  BY <1>0, <1>3, <1>5, <1>8 DEF TypeOK
<1>10. /\ \A id \in RuleIds \ {x.id} : rows'[id] = rows[id]
       /\ rows'[x.id] = IF x.op = "delete" THEN None ELSE NewRow(t)
  BY <1>0, <1>3, <1>5 DEF TypeOK
<1> QED
  BY <1>1, <1>3, <1>5, <1>6, <1>7, <1>8, <1>9, <1>10

LEMMA CommitTransactions ==
  ASSUME IInv, NEW t \in Requests, Commit(t), ~(tx[t].op # "delete" /\ RelayTaken(t))
  PROVE  Transactions'
<1> DEFINE x == tx[t]
<1>0. TypeOK /\ Transactions
  BY DEF IInv
<1>1. \A u \in Active' : u \in Active /\ u # t /\ tx'[u] = tx[u]
  BY <1>0, CommitStores DEF Active, TypeOK
<1>2. Sound(x, rows, version, drawn) /\ t \in Active /\ x \in Transaction /\ x.at = "bump"
  BY <1>0, CommitStores, ActiveTyped DEF Transactions
<1>3. ASSUME NEW u \in Active' PROVE Sound(tx[u], rows', version', drawn)
  <2> DEFINE y == tx[u]
  <2>1. Sound(y, rows, version, drawn) /\ Apart(x, y) /\ Apart(y, x) /\ y \in Transaction
    BY <1>0, <1>1, <1>2, <1>3, ActiveTyped DEF Transactions
  <2>2. y.at # "row" => y.id # x.id /\ rows'[y.id] = rows[y.id]
    BY <1>2, <2>1, CommitStores DEF Apart, Transaction
  <2>3. y.at # "row" => y.affected = Concerned(y, rows')
    BY <2>1, <2>2 DEF Sound, Concerned
  <2>4. \A n \in Nodes : y.bumped[n] # None => n \in y.affected /\ y.bumped[n] = version'[n] + 1
    <3>1. ASSUME NEW n \in Nodes, y.bumped[n] # None PROVE n \notin x.affected
      <4>1. x.bumped[n] = None
        BY <2>1, <3>1 DEF Apart
      <4> QED
        BY <3>1, <4>1 DEF Commit, ToBump
    <3> QED
      BY <2>1, <3>1, CommitStores DEF Sound
  <2>5. ASSUME y.at = "bump", y.op # "delete", NEW id \in RuleIds \ {y.id}, rows'[id] # None
        PROVE  ~Conflict(rows'[id].rule, y.input)
    <3>1. CASE id = x.id
      <4>1. x.op # "delete"
        BY <2>5, <3>1, CommitStores
      <4>2. rows'[id].rule = x.input
        <5>1. rows'[x.id] = NewRow(t)
          BY <4>1, CommitStores
        <5>2. NewRow(t).rule = x.input
          BY DEF NewRow
        <5> QED
          BY <3>1, <5>1, <5>2
      <4> QED
        BY <1>2, <2>1, <2>5, <4>1, <4>2 DEF Apart, Conflict
    <3>2. CASE id # x.id
      BY <2>1, <2>5, <3>2, CommitStores DEF Sound
    <3> QED
      BY <3>1, <3>2
  <2>6. /\ y.op = "create" => y.at # "row" /\ rows'[y.id] = None
        /\ y.op # "create" /\ y.at # "row" => rows'[y.id] # None
    BY <2>1, <2>2 DEF Sound
  <2> QED
    BY <2>1, <2>3, <2>4, <2>5, <2>6 DEF Sound
<1>4. \A u, v \in Active' : u # v => Apart(tx[u], tx[v])
  BY <1>0, <1>1 DEF Transactions
<1>5. drawn' = drawn
  BY CommitStores
<1> QED
  BY <1>1, <1>3, <1>4, <1>5 DEF Transactions

LEMMA CommitDistinct ==
  ASSUME IInv, NEW t \in Requests, Commit(t), ~(tx[t].op # "delete" /\ RelayTaken(t))
  PROVE  ListenersDistinct'
<1> DEFINE x == tx[t]
           Clash(first, second) ==
             \/ Conflict(first, second)
             \/ /\ first.mode = "relay" /\ second.mode = "relay"
                /\ <<first.egress, first.relay>> = <<second.egress, second.relay>>
<1>0. TypeOK /\ Transactions /\ ListenersDistinct
  BY DEF IInv
<1>1. Sound(x, rows, version, drawn) /\ t \in Active /\ x.at = "bump"
  BY <1>0, CommitStores DEF Transactions
<1>2. ASSUME NEW id \in RuleIds \ {x.id}, rows[id] # None, x.op # "delete"
      PROVE  ~Clash(rows[id].rule, x.input) /\ ~Clash(x.input, rows[id].rule)
  <2>1. ~Conflict(rows[id].rule, x.input)
    BY <1>1, <1>2 DEF Sound
  <2>2. ~Conflict(x.input, rows[id].rule)
    BY <2>1 DEF Conflict
  <2>3. ~RelayTaken(t) /\ id \in Stored \ {x.id}
    BY <1>2 DEF Stored
  <2> QED
    BY <2>1, <2>2, <2>3 DEF RelayTaken
<1>3. ASSUME NEW a \in RuleIds, NEW b \in RuleIds, a # b, rows'[a] # None, rows'[b] # None
      PROVE  ~Clash(rows'[a].rule, rows'[b].rule)
  <2>1. \A id \in RuleIds \ {x.id} : rows'[id] = rows[id]
    BY CommitStores
  <2>2. rows'[x.id] # None => x.op # "delete" /\ rows'[x.id].rule = x.input
    <3>1. rows'[x.id] # None => x.op # "delete" /\ rows'[x.id] = NewRow(t)
      BY CommitStores
    <3>2. NewRow(t).rule = x.input
      BY DEF NewRow
    <3> QED
      BY <3>1, <3>2
  <2>3. CASE a = x.id
    BY <1>2, <1>3, <2>1, <2>2, <2>3
  <2>4. CASE b = x.id
    BY <1>2, <1>3, <2>1, <2>2, <2>4
  <2>5. CASE a # x.id /\ b # x.id
    <3>1. a \in Stored /\ b \in Stored /\ rows'[a] = rows[a] /\ rows'[b] = rows[b]
      BY <1>3, <2>1, <2>5 DEF Stored
    <3> QED
      BY <1>0, <1>3, <3>1 DEF ListenersDistinct
  <2> QED
    BY <2>3, <2>4, <2>5
<1> QED
  BY <1>3 DEF ListenersDistinct, Stored, Conflict

\* The rules of a node that is not concerned are what they were.
LEMMA CommitRules ==
  ASSUME IInv, NEW t \in Requests, Commit(t), ~(tx[t].op # "delete" /\ RelayTaken(t)),
         NEW n \in Nodes, n \notin tx[t].affected
  PROVE  /\ Naming(n)' = Naming(n)
         /\ \A id \in Naming(n) : rows'[id] = rows[id]
         /\ \A hosts : RulesWith(n, hosts)' = RulesWith(n, hosts)
<1> DEFINE x == tx[t]
           mine == Naming(n)
<1>1. /\ \A id \in RuleIds \ {x.id} : rows'[id] = rows[id]
      /\ x.id \in RuleIds
      /\ n \notin Concerned(x, rows)
      /\ x.op = "delete" => rows'[x.id] = None
      /\ x.op # "delete" => rows'[x.id] = NewRow(t)
  BY CommitStores
<1>2. x.id \notin mine
  BY <1>1 DEF Concerned, Stored, Naming
<1>3. rows'[x.id] # None => n \notin RuleNodes(rows'[x.id].rule)
  BY <1>1 DEF Concerned, NewRow
<1>4. mine' = mine
  BY <1>1, <1>2, <1>3 DEF Stored, Naming
<1>5. \A i \in mine : rows'[i] = rows[i]
  BY <1>1, <1>2 DEF Stored, Naming
<1>6. \A i \in mine : \A hosts : SentWith(i, hosts)' = SentWith(i, hosts)
  BY <1>5 DEF SentWith, Scanned
<1> HIDE DEF mine
<1>7. \A hosts : RulesWith(n, hosts)' = RulesWith(n, hosts)
  BY <1>4, <1>6 DEF RulesWith, mine
<1> QED
  BY <1>4, <1>5, <1>7 DEF mine

LEMMA CommitAnswer ==
  ASSUME IInv, NEW t \in Requests, Commit(t), ~(tx[t].op # "delete" /\ RelayTaken(t))
  PROVE  (Answered /\ AppliedMeansSent /\ SameVersionSameRules)'
<1> DEFINE x == tx[t]
           node == answer.node
<1>0. TypeOK /\ Answered /\ AppliedMeansSent /\ SameVersionSameRules
  BY DEF IInv
<1>1. /\ answer' = answer /\ node \in Nodes
      /\ answer.version \in Nat /\ version[node] \in Nat /\ answer.version <= version[node]
      /\ version'[node] = IF node \in x.affected THEN version[node] + 1 ELSE version[node]
  BY <1>0, CommitStores DEF Answered, TypeOK
<1>2. Answered'
  BY <1>1 DEF Answered
<1>3. SameVersionSameRules'
  <2>1. CASE node \in x.affected
    BY <1>1, <2>1 DEF SameVersionSameRules
  <2>2. CASE node \notin x.affected
    <3>1. \A hosts : RulesWith(node, hosts)' = RulesWith(node, hosts)
      BY <1>1, <2>2, CommitRules
    <3> QED
      BY <1>0, <1>1, <2>2, <3>1 DEF SameVersionSameRules
  <2> QED
    BY <2>1, <2>2
<1>4. AppliedMeansSent'
  <2> DEFINE required(row) == IF node = row.rule.ingress THEN row.cv ELSE row.ecv
  <2> SUFFICES ASSUME NEW id \in Stored', node \in RuleNodes(rows'[id].rule),
                      answer.rules # None, required(rows'[id]) <= answer.version
               PROVE  /\ id \in DOMAIN answer.rules
                      /\ \E hosts \in [Nodes -> Hosts] : answer.rules[id] = SentWith(id, hosts)'
    BY <1>1 DEF AppliedMeansSent
  <2>1. id \in RuleIds /\ rows'[id] # None
    BY DEF Stored
  <2>2. CASE id # x.id
    <3>1. rows'[id] = rows[id] /\ id \in Stored
      BY <2>1, <2>2, CommitStores DEF Stored
    <3>2. \A hosts : SentWith(id, hosts)' = SentWith(id, hosts)
      BY <3>1 DEF SentWith, Scanned
    <3> QED
      BY <1>0, <1>1, <3>1, <3>2 DEF AppliedMeansSent
  \* The new row asks for a version that no answer has reached.
  <2>3. CASE id = x.id
    <3>1. /\ x.op # "delete"
          /\ rows'[id] = [rule |-> x.input, cv |-> version'[x.input.ingress],
                          ecv |-> IF x.input.mode = "relay"
                                    THEN version'[x.input.egress] ELSE None]
      BY <2>1, <2>3, CommitStores
    <3>2. node \in RuleNodes(x.input)
      BY <3>1
    <3>3. required(rows'[id]) = version'[node]
      BY <3>1, <3>2 DEF RuleNodes
    <3>4. node \in x.affected
      BY <3>1, <3>2, CommitStores DEF Concerned
    <3> QED
      BY <1>1, <3>3, <3>4
  <2> QED
    BY <2>2, <2>3
<1> QED
  BY <1>2, <1>3, <1>4

LEMMA CommitStep ==
  ASSUME IInv, NEW t \in Requests, Commit(t)
  PROVE  IInv'
<1>1. CASE tx[t].op # "delete" /\ RelayTaken(t)
  BY <1>1, RollbackStep DEF Commit
<1>2. CASE ~(tx[t].op # "delete" /\ RelayTaken(t))
  <2>0. TypeOK
    BY DEF IInv
  <2>1. Stored' \subseteq Stored \cup {tx[t].id}
    BY <1>2, CommitStores DEF Stored
  <2>2. tx[t].id \in drawn /\ drawn' = drawn
    BY <1>2, CommitStores DEF IInv, Transactions, Sound
  <2>3. \A id \in Stored' : rows'[id].ecv = None <=> rows'[id].rule.mode = "direct"
    <3>1. ASSUME NEW id \in Stored', id # tx[t].id
          PROVE  rows'[id].ecv = None <=> rows'[id].rule.mode = "direct"
      BY <1>2, <2>0, <3>1, CommitStores DEF TypeOK, Stored
    <3>2. ASSUME tx[t].id \in Stored'
          PROVE  rows'[tx[t].id].ecv = None <=> rows'[tx[t].id].rule.mode = "direct"
      <4> DEFINE rule == tx[t].input
      <4>1. /\ rule \in Inputs
            /\ rows'[tx[t].id] = [rule |-> rule, cv |-> version'[rule.ingress],
                                  ecv |-> IF rule.mode = "relay" THEN version'[rule.egress] ELSE None]
        BY <1>2, <3>2, CommitStores DEF Stored
      <4>2. rule.mode \in {"direct", "relay"} /\ (rule.mode = "relay" => rule.egress \in Nodes)
        BY <4>1, InputNodes DEF Input
      <4>3. rule.mode = "relay" => version'[rule.egress] \in Nat /\ version'[rule.egress] # None
        BY <1>2, <4>2, CommitStores, NoneAssumption
      <4> QED
        BY <4>1, <4>2, <4>3
    <3> QED
      BY <3>1, <3>2
  <2>4. tx' = [tx EXCEPT ![t] = None]
    BY <1>2, CommitStores
  <2>5. /\ tx' \in [Requests -> Transaction \cup {None}]
        /\ \A u \in Requests : tx'[u] # None => tx'[u] = tx[u]
    BY <2>0, <2>4 DEF TypeOK
  <2>6. rows' \in [RuleIds -> Row \cup {None}] /\ version' \in [Nodes -> Nat \ {0}]
    BY <1>2, CommitStores
  <2>7. tunnelAddress' = tunnelAddress
    BY <1>2, CommitStores
  <2>8. TypeOK'
    BY <2>0, <2>1, <2>2, <2>3, <2>5, <2>6, <2>7 DEF TypeOK
  <2> QED
    BY <1>2, <2>8, CommitTransactions, CommitDistinct, CommitAnswer DEF IInv
<1> QED
  BY <1>1, <1>2

LEMMA ReadStep ==
  ASSUME IInv, (\E n \in Nodes : ReadVersion(n)) \/ ReadRules
  PROVE  IInv'
<1>0. UNCHANGED <<rows, version, tunnelAddress, drawn, tx>>
  BY DEF ReadVersion, ReadRules
<1>1. /\ TypeOK' /\ Transactions'
      /\ Stored' = Stored
  BY <1>0 DEF IInv, TypeOK, Transactions, Active, Stored
<1>2. ListenersDistinct'
  BY <1>0, <1>1 DEF IInv, ListenersDistinct, Conflict
<1>3. ASSUME NEW n \in Nodes, ReadVersion(n) PROVE (Answered /\ AppliedMeansSent /\ SameVersionSameRules)'
  <2>1. answer' = [node |-> n, version |-> version[n], rules |-> None] /\ version[n] \in Nat
    BY <1>3 DEF ReadVersion, IInv, TypeOK
  <2> QED
    BY <1>0, <2>1 DEF Answered, AppliedMeansSent, SameVersionSameRules
<1>4. ASSUME ReadRules PROVE (Answered /\ AppliedMeansSent /\ SameVersionSameRules)'
  <2>1. answer' = [node |-> answer.node, version |-> answer.version, rules |-> RulesOf(answer.node)]
    BY <1>4 DEF ReadRules
  <2>2. Answered'
    BY <1>0, <2>1 DEF IInv, Answered
  <2>3. answer'.rules = RulesWith(answer.node, tunnelAddress) /\ tunnelAddress \in [Nodes -> Hosts]
    BY <2>1 DEF RulesOf, IInv, TypeOK
  <2>4. SameVersionSameRules'
    BY <1>0, <2>1, <2>3, SameRows DEF SameVersionSameRules
  <2>5. AppliedMeansSent'
    <3> SUFFICES ASSUME NEW id \in Stored, answer.node \in RuleNodes(rows[id].rule)
                 PROVE  /\ id \in DOMAIN answer'.rules
                        /\ answer'.rules[id] = SentWith(id, tunnelAddress)
      BY <1>0, <2>1, <2>3, SameRows DEF AppliedMeansSent
    <3> QED
      BY <2>3 DEF RulesWith, Naming
  <2> QED
    BY <2>2, <2>4, <2>5
<1> QED
  BY <1>1, <1>2, <1>3, <1>4 DEF IInv

LEMMA HeartbeatStep ==
  ASSUME IInv, NEW n \in Nodes, NEW address \in Reports[n], UpdateAgentHeartbeat(n, address)
  PROVE  IInv'
<1>1. UNCHANGED <<rows, version, drawn, tx, answer>>
  BY DEF UpdateAgentHeartbeat
<1>2. tunnelAddress' \in [Nodes -> Hosts]
  BY ReportsAssumption DEF UpdateAgentHeartbeat, IInv, TypeOK
<1>3. (TypeOK /\ Transactions /\ Answered)'
  BY <1>1, <1>2 DEF IInv, TypeOK, Transactions, Answered, Active, Stored
<1>4. ListenersDistinct'
  BY <1>1, SameRows DEF IInv, ListenersDistinct, Conflict
<1>5. (AppliedMeansSent /\ SameVersionSameRules)'
  BY <1>1, SameAnswer DEF IInv
<1> QED
  BY <1>3, <1>4, <1>5 DEF IInv

LEMMA StepIInv == IInv /\ [Next]_vars => IInv'
<1>1. ASSUME IInv, NEW t \in Requests, NEW id \in RuleIds, BeginDelete(t, id) PROVE IInv'
  <2>1. Inputs # {}
    BY <1>1 DEF BeginDelete, Stored, IInv, TypeOK, Row
  <2> QED
    BY <1>1, <2>1, BeginStep
<1>2. ASSUME IInv, NEW t \in Requests, Abort(t) PROVE IInv'
  BY <1>2, RollbackStep DEF Abort
<1>3. ASSUME IInv, Next PROVE IInv'
  BY <1>1, <1>2, <1>3, BeginStep, LockRowStep, LockListenerStep, BumpNodeStep, CommitStep, HeartbeatStep,
     ReadStep DEF Next
<1>4. ASSUME IInv, UNCHANGED vars PROVE IInv'
  <2>1. (TypeOK /\ Transactions /\ Answered)'
    BY <1>4 DEF IInv, vars, TypeOK, Transactions, Answered, Active, Stored
  <2>2. rows' = rows /\ version' = version /\ answer' = answer /\ Stored' = Stored
    BY <1>4 DEF vars, Stored
  <2>3. ListenersDistinct'
    BY <1>4, <2>2 DEF IInv, ListenersDistinct, Conflict
  <2>4. (AppliedMeansSent /\ SameVersionSameRules)'
    BY <1>4, <2>2, SameAnswer DEF IInv
  <2> QED
    BY <2>1, <2>3, <2>4 DEF IInv
<1> QED
  BY <1>3, <1>4

--------------------------------------------------------------------------------
(***************************************************************************)
(* No circular wait.                                                       *)
(***************************************************************************)

\* The nodes a transaction may take after the one it takes next.
Above(t) == {m \in Nodes : \E n \in Nodes : BumpNext(t, n) /\ Rank[n] < Rank[m]}

\* Who waits for a node waits for a transaction that is further on in the order
\* of the nodes, if that one still takes nodes.
LEMMA BlockerIsFurtherOn ==
  ASSUME IInv, NEW t \in Active, NEW u \in Active, tx[t].at = "bump", Blocks(u, t)
  PROVE  /\ tx[u].at = "bump"
         /\ (\E n \in Nodes : BumpNext(u, n)) => <<Above(u), Above(t)>> \in StrictSubsetOrdering(Nodes)
<1>1. PICK n \in Nodes : BumpNext(t, n) /\ tx[u].bumped[n] # None
  BY DEF Blocks
<1>2. /\ Sound(tx[u], rows, version, drawn) /\ tx[u] \in Transaction /\ tx[t] \in Transaction
      /\ n \in tx[u].affected
  BY <1>1, ActiveTyped DEF IInv, Transactions
<1>3. tx[u].at = "bump"
  BY <1>1, <1>2 DEF Sound
<1>4. ASSUME NEW m \in Nodes, BumpNext(u, m)
      PROVE  <<Above(u), Above(t)>> \in StrictSubsetOrdering(Nodes)
  <2>1. \A k \in Nodes : Rank[k] \in Nat
    BY RankAssumption
  <2>2. Rank[n] < Rank[m]
    BY <1>1, <1>2, <1>4 DEF BumpNext, ToBump, Sound
  <2>3. m \in Above(t)
    BY <1>1, <2>2 DEF Above
  <2>4. m \notin Above(u)
    BY <1>4, <2>1 DEF Above, BumpNext, ToBump
  <2>5. ASSUME NEW k \in Above(u) PROVE k \in Above(t)
    <3>1. PICK l \in Nodes : BumpNext(u, l) /\ Rank[l] < Rank[k] /\ k \in Nodes
      BY <2>5 DEF Above
    <3>2. Rank[m] <= Rank[l]
      BY <1>4, <3>1 DEF BumpNext
    <3>3. Rank[n] < Rank[k]
      BY <2>1, <2>2, <3>1, <3>2
    <3> QED
      BY <1>1, <3>1, <3>3 DEF Above
  <2>6. Above(u) \in SUBSET Nodes /\ Above(t) \in SUBSET Nodes
    BY DEF Above
  <2>7. Above(u) \subseteq Above(t) /\ Above(u) # Above(t)
    BY <2>3, <2>4, <2>5
  <2> HIDE DEF Above
  <2> QED
    BY <2>6, <2>7 DEF StrictSubsetOrdering
<1> QED
  BY <1>3, <1>4

LEMMA LockOrder == IInv => NoLockCycle
<1> SUFFICES ASSUME IInv, NEW group \in (SUBSET Active) \ {{}},
                    \A t \in group : \E u \in group \ {t} : Blocks(u, t)
             PROVE  FALSE
  BY DEF NoLockCycle
<1> DEFINE bumping == {t \in group : tx[t].at = "bump"}
           T == {Above(t) : t \in bumping}
<1>0. TypeOK /\ \A t \in group : t \in Active /\ tx[t] \in Transaction
  BY ActiveTyped DEF IInv
<1>1. bumping # {}
  <2>1. PICK t \in group : TRUE
    OBVIOUS
  <2>2. PICK u \in group : Blocks(u, t)
    BY <2>1
  <2>3. PICK v \in group : Blocks(v, u)
    BY <2>2
  <2>4. tx[t].at = "bump" \/ tx[u].at \in {"listener", "bump"}
    BY <1>0, <2>2 DEF Blocks, Transaction
  <2>5. tx[u].at = "listener" => tx[v].at = "bump"
    BY <2>3 DEF Blocks
  <2> QED
    BY <2>4, <2>5
<1>2. T \subseteq FiniteSubsetsOf(Nodes) /\ T # {}
  <2>1. FiniteSubsetsOf(Nodes) = SUBSET Nodes
    BY NodesAssumption, FS_FiniteSubsetsOfFinite
  <2>2. \A t : Above(t) \in SUBSET Nodes
    BY DEF Above
  <2> HIDE DEF Above
  <2> QED
    BY <1>1, <2>1, <2>2
<1>3. IsWellFoundedOn(StrictSubsetOrdering(Nodes), FiniteSubsetsOf(Nodes))
  BY FS_StrictSubsetOrderingWellFounded
<1>4. \E X \in T : \A Y \in T : ~(<<Y, X>> \in StrictSubsetOrdering(Nodes))
  <2> HIDE DEF T
  <2> QED
    BY <1>2, <1>3, WFMin
<1>5. PICK t \in bumping : \A u \in bumping : <<Above(u), Above(t)>> \notin StrictSubsetOrdering(Nodes)
  BY <1>4
<1>6. PICK u \in group \ {t} : Blocks(u, t)
  BY <1>5
<1>7. u \in bumping
  BY <1>0, <1>5, <1>6, BlockerIsFurtherOn
<1>8. \E n \in Nodes : BumpNext(u, n)
  BY <1>7 DEF Blocks
<1> QED
  BY <1>0, <1>5, <1>6, <1>7, <1>8, BlockerIsFurtherOn

--------------------------------------------------------------------------------
(***************************************************************************)
(* The tables and the answers of ConfigForAgent.                           *)
(***************************************************************************)

\* Every variable keeps its type; a row has a version for its egress node exactly
\* when it relays, and a transaction gives versions only to nodes it concerns.
THEOREM TypeCorrect == Spec => []TypeOK
<1>1. IInv => TypeOK
  BY DEF IInv
<1> QED
  BY <1>1, InitIInv, StepIInv, PTL DEF Spec

\* However many requests overlap, no two rules share a listener of their ingress
\* node or a relay port of their egress node: the advisory lock is held from the
\* question of ensureListenerAvailable to the commit, and the unique index stops
\* the rest (internal/store/postgres/postgres.go).
THEOREM NoSharedListener == Spec => []ListenersDistinct
<1>1. IInv => ListenersDistinct
  BY DEF IInv
<1> QED
  BY <1>1, InitIInv, StepIInv, PTL DEF Spec

\* An answer of ConfigForAgent that has reached the version a stored rule carries
\* for the node holds the rule as it is stored: versions are given in the
\* transaction that writes the row.
THEOREM ReachedMeansSent == Spec => []AppliedMeansSent
<1>1. IInv => AppliedMeansSent
  BY DEF IInv
<1> QED
  BY <1>1, InitIInv, StepIInv, PTL DEF Spec

\* An answer whose version still is the node's has exactly the stored rules,
\* although its two statements are not in one transaction: UpdateForwardRule raises
\* the versions of the nodes the rule leaves and of those it comes to.
THEOREM VersionMeansRules == Spec => []SameVersionSameRules
<1>1. IInv => SameVersionSameRules
  BY DEF IInv
<1> QED
  BY <1>1, InitIInv, StepIInv, PTL DEF Spec

\* No set of requests, however large, waits in a circle: rows are locked first, one
\* for each request, then a listener, then the nodes in the order of
\* sortedUniqueNodeIDs.
THEOREM NoDeadlock == Spec => []NoLockCycle
<1> QED
  BY LockOrder, InitIInv, StepIInv, PTL DEF Spec

--------------------------------------------------------------------------------
(***************************************************************************)
(* The store implements the in-memory store.                               *)
(***************************************************************************)

LEMMA SameNodes ==
  ASSUME NEW rule
  PROVE  Memory!ruleNodeIDs(rule) = RuleNodes(rule)
BY DEF Memory!ruleNodeIDs, RuleNodes

LEMMA InitImplements == Init => Memory!Init
<1> SUFFICES ASSUME Init PROVE Memory!Init
  OBVIOUS
<1>1. \A n \in Nodes : PortsOf(n) = <<>> /\ version[n] = 1
  BY DEF Init, PortsOf, Naming, Stored
<1>2. [n \in Nodes |-> [version |-> version[n], rules |-> PortsOf(n)]]
        = [n \in Nodes |-> [version |-> 1, rules |-> <<>>]]
  BY <1>1
<1>3. tunnelAddress \in [Nodes -> Hosts]
  BY DEF Init, Hosts
<1> QED
  BY <1>2, <1>3 DEF Init, Memory!Init

\* A configuration that the in-memory store would build is the one that the two
\* statements of ConfigForAgent find, but for relay hosts.
LEMMA RebuiltIsRead ==
  ASSUME NEW n \in Nodes, rows' \in [RuleIds -> Row \cup {None}], tunnelAddress \in [Nodes -> Hosts]
  PROVE  PortsOf(n)' =
           [id \in {i \in RuleIds : rows'[i] # None /\ n \in Memory!ruleNodeIDs(rows'[i].rule)}
              |-> Memory!Cloned(id, rows'[id].rule, tunnelAddress)]
<1> DEFINE mine == {i \in RuleIds : rows'[i] # None /\ n \in RuleNodes(rows'[i].rule)}
<1>1. Naming(n)' = mine
  BY DEF Naming, Stored
<1>2. {i \in RuleIds : rows'[i] # None /\ n \in Memory!ruleNodeIDs(rows'[i].rule)} = mine
  BY SameNodes
<1>3. ASSUME NEW id \in mine
      PROVE  Scanned(id, rows[id].rule.relay)' = Memory!Cloned(id, rows'[id].rule, tunnelAddress)
  <2> DEFINE rule == rows'[id].rule
             endpoints == [endpoint \in Hosts \X Ports |-> endpoint[2]]
  <2>1. rule \in Inputs
    BY DEF Row
  <2>2. CASE rule.mode = "relay"
    <3>1. rule.relay \in Ports /\ tunnelAddress[rule.egress] \in Hosts
      BY <2>1, <2>2, InputsAssumption
    <3>2. endpoints[tunnelAddress[rule.egress], rule.relay] = rule.relay
      BY <3>1
    <3> QED
      BY <2>2, <3>2 DEF Scanned, Memory!Cloned
  <2>3. CASE rule.mode # "relay"
    <3>1. rule.relay = None
      BY <2>1, <2>3, InputsAssumption
    <3> QED
      BY <2>3, <3>1 DEF Scanned, Memory!Cloned
  <2> QED
    BY <2>2, <2>3
<1>4. PortsOf(n)' = [id \in mine |-> Scanned(id, rows[id].rule.relay)']
  BY <1>1 DEF PortsOf
<1> HIDE DEF mine
<1> QED
  BY <1>2, <1>3, <1>4

LEMMA CommitIsStore ==
  ASSUME IInv, NEW t \in Requests, Commit(t), ~(tx[t].op # "delete" /\ RelayTaken(t))
  PROVE  Memory!Store(rows', tx[t].affected)
<1> DEFINE nodes == tx[t].affected
           served(n) == [version |-> version[n], rules |-> PortsOf(n)]
<1>1. /\ version' \in [Nodes -> Nat \ {0}] /\ version \in [Nodes -> Nat \ {0}]
      /\ rows' \in [RuleIds -> Row \cup {None}]
      /\ tunnelAddress \in [Nodes -> Hosts] /\ tunnelAddress' = tunnelAddress
      /\ \A n \in Nodes : version'[n] = IF n \in nodes THEN version[n] + 1 ELSE version[n]
  BY CommitStores DEF IInv, TypeOK
<1>2. version' = Memory!Raised(nodes)
  <2>1. \A n \in Nodes : version'[n] = version[n] + IF n \in nodes THEN 1 ELSE 0
    BY <1>1
  <2> QED
    BY <1>1, <2>1 DEF Memory!Raised
<1>3. ASSUME NEW n \in Nodes
      PROVE  [version |-> version'[n], rules |-> PortsOf(n)'] =
               IF n \in nodes THEN Memory!rebuildAgentConfig(n, rows') ELSE served(n)
  <2>1. CASE n \in nodes
    <3>1. Memory!Raised({n})[n] = version'[n]
      BY <1>1, <2>1 DEF Memory!Raised
    <3>2. Memory!rebuildAgentConfig(n, rows') = [version |-> version'[n], rules |-> PortsOf(n)']
      BY <1>1, <3>1, RebuiltIsRead DEF Memory!rebuildAgentConfig
    <3> QED
      BY <2>1, <3>2
  <2>2. CASE n \notin nodes
    <3>1. PortsOf(n)' = PortsOf(n)
      BY <2>2, CommitRules DEF PortsOf, Scanned
    <3> QED
      BY <1>1, <2>2, <3>1
  <2> QED
    BY <2>1, <2>2
<1>4. [n \in Nodes |-> [version |-> version'[n], rules |-> PortsOf(n)']] =
        [n \in Nodes |-> IF n \in nodes THEN Memory!rebuildAgentConfig(n, rows')
                         ELSE [m \in Nodes |-> served(m)][n]]
  BY <1>3
<1> QED
  BY <1>1, <1>2, <1>4 DEF Memory!Store

LEMMA CommitImplements ==
  ASSUME IInv, NEW t \in Requests, Commit(t), ~(tx[t].op # "delete" /\ RelayTaken(t))
  PROVE  Memory!Next
<1> DEFINE x == tx[t]
<1>0. TypeOK
  BY DEF IInv
<1>1. PICK id \in RuleIds : id = x.id
  BY CommitStores
<1>2. PICK nodes \in SUBSET Nodes : nodes = x.affected
  BY CommitStores
<1>3. Sound(x, rows, version, drawn) /\ x.at = "bump" /\ nodes = Concerned(x, rows)
  BY <1>2, CommitStores DEF IInv, Transactions
<1>4. Memory!Store(rows', nodes)
  BY <1>2, CommitStores, CommitIsStore DEF Memory!Store
<1>5. /\ rows \in [RuleIds -> Row \cup {None}] /\ rows' \in [RuleIds -> Row \cup {None}]
      /\ \A i \in RuleIds \ {id} : rows'[i] = rows[i]
  BY <1>0, <1>1, CommitStores DEF TypeOK
<1>6. CASE x.op = "delete"
  <2>1. rows[id] # None /\ nodes = Memory!ruleNodeIDs(rows[id].rule)
    BY <1>1, <1>3, <1>6, SameNodes DEF Sound, Concerned
  <2>2. rows' = [rows EXCEPT ![id] = None]
    BY <1>1, <1>5, <1>6, CommitStores
  <2>3. Memory!DeleteForwardRule(id)
    BY <1>4, <2>1, <2>2 DEF Memory!DeleteForwardRule, Memory!Store
  <2> QED
    BY <2>3 DEF Memory!Next
<1>7. CASE x.op # "delete"
  <2>1. PICK rule \in Inputs : rule = x.input
    BY <1>7, CommitStores
  <2>2. rows'[id] = [rule |-> rule, cv |-> version'[rule.ingress],
                     ecv |-> IF rule.mode = "relay" THEN version'[rule.egress] ELSE None]
    BY <1>1, <1>7, <2>1, CommitStores
  <2>3. Memory!NodesAvailable(rule)
    BY <2>1, InputNodes, SameNodes DEF Memory!NodesAvailable
  <2>4. ~Memory!listenerConflict(rule, id)
    <3>1. \A i \in RuleIds \ {id} : rows[i] # None => ~Conflict(rows[i].rule, rule)
      BY <1>1, <1>3, <1>7, <2>1 DEF Sound
    <3>2. ~RelayTaken(t)
      BY <1>7
    <3> QED
      BY <1>1, <2>1, <3>1, <3>2 DEF Memory!listenerConflict, Conflict, RelayTaken, Stored
  <2>5. version' = Memory!Raised(nodes)
    BY <1>4 DEF Memory!Store
  <2>6. rows' = Memory!WithRule(id, rule, Memory!Raised(nodes))
    BY <1>5, <2>2, <2>5 DEF Memory!WithRule
  <2>7. CASE rows[id] = None
    <3>1. nodes = Memory!ruleNodeIDs(rule)
      BY <1>1, <1>3, <1>7, <2>1, <2>7, SameNodes DEF Concerned
    <3>2. Memory!CreateForwardRule(id, rule)
      BY <1>4, <2>3, <2>4, <2>6, <2>7, <3>1 DEF Memory!CreateForwardRule, Memory!Store
    <3> QED
      BY <3>2 DEF Memory!Next
  <2>8. CASE rows[id] # None
    <3>1. nodes = Memory!ruleNodeIDs(rows[id].rule) \cup Memory!ruleNodeIDs(rule)
      BY <1>1, <1>3, <1>7, <2>1, <2>8, SameNodes DEF Concerned
    <3>2. Memory!UpdateForwardRule(id, rule)
      BY <1>4, <2>3, <2>4, <2>6, <2>8, <3>1 DEF Memory!UpdateForwardRule, Memory!Store
    <3> QED
      BY <3>2 DEF Memory!Next
  <2> QED
    BY <2>7, <2>8
<1> QED
  BY <1>6, <1>7

\* Only commits and heartbeats change what the store serves.
LEMMA OtherSteps ==
  ASSUME Next
  PROVE  \/ UNCHANGED <<rows, version, tunnelAddress>>
         \/ \E t \in Requests : Commit(t)
         \/ \E n \in Nodes : \E address \in Reports[n] : UpdateAgentHeartbeat(n, address)
BY DEF Next, BeginCreate, BeginUpdate, BeginDelete, Begin, LockRow, LockListener, BumpNode,
   Abort, Rollback, ReadVersion, ReadRules

LEMMA StepImplements == IInv /\ [Next]_vars => [Memory!Next]_Memory!vars
<1>1. ASSUME UNCHANGED <<rows, version>>
      PROVE  UNCHANGED <<rows, version, [n \in Nodes |-> [version |-> version[n], rules |-> PortsOf(n)]]>>
  BY <1>1 DEF PortsOf, Naming, Stored, Scanned
<1>2. ASSUME UNCHANGED <<rows, version, tunnelAddress>> PROVE UNCHANGED Memory!vars
  BY <1>1, <1>2 DEF Memory!vars
<1>3. ASSUME IInv, NEW t \in Requests, Commit(t) PROVE [Memory!Next]_Memory!vars
  <2>1. CASE tx[t].op # "delete" /\ RelayTaken(t)
    BY <1>2, <1>3, <2>1 DEF Commit, Rollback
  <2>2. CASE ~(tx[t].op # "delete" /\ RelayTaken(t))
    BY <1>3, <2>2, CommitImplements
  <2> QED
    BY <2>1, <2>2
<1>4. ASSUME NEW n \in Nodes, NEW address \in Reports[n], UpdateAgentHeartbeat(n, address)
      PROVE  Memory!Next
  <2>1. address \in Hosts
    BY ReportsAssumption
  <2>2. Memory!UpdateAgentHeartbeat(n, address)
    BY <1>1, <1>4 DEF UpdateAgentHeartbeat, Memory!UpdateAgentHeartbeat
  <2> QED
    BY <2>1, <2>2 DEF Memory!Next
<1>5. ASSUME UNCHANGED vars PROVE UNCHANGED <<rows, version, tunnelAddress>>
  BY <1>5 DEF vars
<1> QED
  BY <1>2, <1>3, <1>4, <1>5, OtherSteps

\* Transactions that overlap at every statement, with heartbeats between them, have
\* the effect of calls of the in-memory store one after the other: a commit is the
\* call, every other statement changes nothing that a caller or an agent can see.
THEOREM TransactionsAreCalls == Spec => ImplementsMemory
<1>1. Spec => Memory!Init /\ [][Memory!Next]_Memory!vars
  BY InitImplements, InitIInv, StepIInv, StepImplements, PTL DEF Spec
<1> QED
  BY <1>1 DEF ImplementsMemory, Memory!Spec

Source(n) == INSTANCE ConfigSource WITH
  version <- version[n], served <- RulesOf(n), Empty <- <<>>

IsSource(n) == [Source(n)!Next]_<<version[n], RulesOf(n)>>

WithoutHost(rule) == [rule EXCEPT !.relay = None]

\* The heartbeat of another node m, or of n itself, gives the rules that n is sent
\* and that m is the egress node of another relay host, and changes nothing else.
Rehosted(n) ==
  \E m \in Nodes : \E address \in Reports[m] :
    /\ UpdateAgentHeartbeat(m, address)
    /\ version'[n] = version[n]
    /\ DOMAIN RulesOf(n)' = DOMAIN RulesOf(n)
    /\ \A id \in DOMAIN RulesOf(n) :
         \/ RulesOf(n)'[id] = RulesOf(n)[id]
         \/ /\ RulesOf(n)[id].mode = "relay" /\ RulesOf(n)[id].egress = m
            /\ WithoutHost(RulesOf(n)'[id]) = WithoutHost(RulesOf(n)[id])

LEMMA HeartbeatRehosts ==
  ASSUME IInv, NEW m \in Nodes, NEW address \in Reports[m], UpdateAgentHeartbeat(m, address),
         NEW n \in Nodes
  PROVE  Rehosted(n)
<1>1. /\ rows' = rows /\ version' = version
      /\ tunnelAddress' = [tunnelAddress EXCEPT ![m] = address] /\ tunnelAddress \in [Nodes -> Hosts]
  BY DEF UpdateAgentHeartbeat, IInv, TypeOK
<1>2. RulesOf(n)' = RulesWith(n, tunnelAddress') /\ RulesOf(n) = RulesWith(n, tunnelAddress)
  <2>1. RulesWith(n, tunnelAddress)' = RulesWith(n, tunnelAddress')
    BY <1>1 DEF RulesWith, Naming, Stored, SentWith, Scanned
  <2> QED
    BY <2>1 DEF RulesOf
<1>3. \A hosts : /\ DOMAIN RulesWith(n, hosts) = Naming(n)
                 /\ \A id \in Naming(n) : RulesWith(n, hosts)[id] = SentWith(id, hosts)
  BY DEF RulesWith
<1>4. ASSUME NEW id \in Naming(n)
      PROVE  \/ SentWith(id, tunnelAddress') = SentWith(id, tunnelAddress)
             \/ /\ SentWith(id, tunnelAddress).mode = "relay"
                /\ SentWith(id, tunnelAddress).egress = m
                /\ WithoutHost(SentWith(id, tunnelAddress')) = WithoutHost(SentWith(id, tunnelAddress))
  <2> DEFINE rule == rows[id].rule
  <2>1. rule \in Inputs
    BY DEF Naming, Stored, IInv, TypeOK, Row
  <2>2. CASE rule.mode = "relay" /\ rule.egress = m
    <3>1. \A relay : WithoutHost(Scanned(id, relay)) = Scanned(id, None)
      BY DEF WithoutHost, Scanned
    <3>2. /\ SentWith(id, tunnelAddress).mode = "relay"
          /\ SentWith(id, tunnelAddress).egress = m
      BY <2>2 DEF SentWith, Scanned
    <3>3. \A hosts : \E relay : SentWith(id, hosts) = Scanned(id, relay)
      BY DEF SentWith
    <3>4. \A hosts : WithoutHost(SentWith(id, hosts)) = Scanned(id, None)
      BY <3>1, <3>3
    <3> QED
      BY <3>2, <3>4
  <2>3. CASE rule.mode = "relay" /\ rule.egress # m
    <3>1. rule.egress \in Nodes
      BY <2>1, <2>3, InputNodes
    <3>2. tunnelAddress'[rule.egress] = tunnelAddress[rule.egress]
      BY <1>1, <2>3, <3>1
    <3> QED
      BY <3>2 DEF SentWith
  <2>4. CASE rule.mode # "relay"
    BY <2>4 DEF SentWith
  <2> QED
    BY <2>2, <2>3, <2>4
<1>5. DOMAIN RulesOf(n)' = DOMAIN RulesOf(n) /\ DOMAIN RulesOf(n) = Naming(n)
  BY <1>2, <1>3
<1>6. \A id \in Naming(n) : /\ RulesOf(n)'[id] = SentWith(id, tunnelAddress')
                            /\ RulesOf(n)[id] = SentWith(id, tunnelAddress)
  BY <1>2, <1>3
<1>7. version'[n] = version[n]
  BY <1>1
<1> QED
  BY <1>4, <1>5, <1>6, <1>7 DEF Rehosted

\* What ConfigForAgent would find for a node never changes without the node's
\* version growing by one, for nodes that a rule leaves, stays on or comes to -
\* which ConfigSync relies on - but by a heartbeat (UpdateAgentHeartbeat), which
\* may change the relay host of the rules whose egress node it comes from, and
\* neither the version of any node nor anything else that is sent.
THEOREM ServesSources ==
  Spec => /\ \A n \in Nodes : Source(n)!Init
          /\ [][\A n \in Nodes : IsSource(n) \/ Rehosted(n)]_vars
<1>1. Init => \A n \in Nodes : Source(n)!Init
  BY DEF Init, Source!Init, RulesOf, RulesWith, Naming, Stored
<1>2. ASSUME UNCHANGED <<rows, version, tunnelAddress>> PROVE \A n \in Nodes : IsSource(n)
  BY <1>2, SameRows DEF IsSource, RulesOf
<1>3. ASSUME IInv, NEW t \in Requests, Commit(t) PROVE \A n \in Nodes : IsSource(n)
  <2>1. CASE tx[t].op # "delete" /\ RelayTaken(t)
    BY <1>2, <1>3, <2>1 DEF Commit, Rollback
  <2>2. ASSUME ~(tx[t].op # "delete" /\ RelayTaken(t)), NEW n \in Nodes PROVE IsSource(n)
    <3>1. CASE n \in tx[t].affected
      BY <1>3, <2>2, <3>1, CommitStores DEF IsSource, Source!Next
    <3>2. CASE n \notin tx[t].affected
      <4>1. version'[n] = version[n] /\ tunnelAddress' = tunnelAddress
        BY <1>3, <2>2, <3>2, CommitStores
      <4>2. \A hosts : RulesWith(n, hosts)' = RulesWith(n, hosts)
        BY <1>3, <2>2, <3>2, CommitRules
      <4> QED
        BY <4>1, <4>2 DEF IsSource, RulesOf
    <3> QED
      BY <3>1, <3>2
  <2> QED
    BY <2>1, <2>2
<1>4. ASSUME UNCHANGED vars PROVE UNCHANGED <<rows, version, tunnelAddress>>
  BY <1>4 DEF vars
<1>5. IInv /\ [Next]_vars => [\A n \in Nodes : IsSource(n) \/ Rehosted(n)]_vars
  BY <1>2, <1>3, <1>4, OtherSteps, HeartbeatRehosts
<1> QED
  BY <1>1, <1>5, InitIInv, StepIInv, PTL DEF Spec

--------------------------------------------------------------------------------
(***************************************************************************)
(* The in-memory store, which is what PostgreSQL is proved to look like,   *)
(* by itself: any tunnel addresses, which may change, and configurations   *)
(* that are built once and kept.                                           *)
(***************************************************************************)

CONSTANTS KnownTunnels, TunnelAddr

VARIABLES forwardRules, configVersion, knownAddress, agentConfigs

InMemory == INSTANCE MemoryStore WITH
  Tunnels <- KnownTunnels, tunnelAddress <- knownAddress, RelayAddr <- TunnelAddr

ServedBy(n) == INSTANCE ConfigSource WITH
  version <- configVersion[n], served <- agentConfigs[n].rules, Empty <- <<>>

\* Versions and configurations are kept for each node, and a configuration that
\* was built carries the version the node's heartbeats are answered with.
ConfigsOK ==
  /\ configVersion \in [Nodes -> Nat]
  /\ agentConfigs = [n \in Nodes |-> agentConfigs[n]]
  /\ \A n \in Nodes : agentConfigs[n].version = configVersion[n]

IsServed(n) ==
  [ServedBy(n)!Next]_<<configVersion[n], agentConfigs[n].rules>>

\* The rule `id' is stored and names the node.
Names(rules, id, n) == rules[id] # None /\ n \in InMemory!ruleNodeIDs(rules[id].rule)

\* What is needed to say that what is served is what is stored.
Serving ==
  /\ ConfigsOK
  /\ DOMAIN forwardRules = RuleIds
  /\ knownAddress \in [Nodes -> KnownTunnels]
  /\ InMemory!ServedIsStored

\* Every call that changes a rule leaves the nodes it does not raise as they are.
Covers(rules, nodes) ==
  \A n \in Nodes \ nodes, id \in RuleIds :
    /\ Names(rules, id, n) <=> Names(forwardRules, id, n)
    /\ Names(rules, id, n) => rules[id].rule = forwardRules[id].rule

\* Every step is a call that stores rules, with the versions of all nodes
\* concerned raised, or reports a tunnel address.
LEMMA StepStores ==
  ASSUME DOMAIN forwardRules = RuleIds, InMemory!Next
  PROVE  \/ \E rules, nodes :
              /\ InMemory!Store(rules, nodes) /\ Covers(rules, nodes)
              /\ DOMAIN rules = RuleIds
         \/ \E n \in Nodes, address \in KnownTunnels : InMemory!UpdateAgentHeartbeat(n, address)
<1> DEFINE Good(rules, nodes) == /\ InMemory!Store(rules, nodes) /\ Covers(rules, nodes)
                                 /\ DOMAIN rules = RuleIds
<1>1. ASSUME NEW id \in RuleIds, NEW rule \in Inputs, InMemory!CreateForwardRule(id, rule)
      PROVE  \E rules, nodes : Good(rules, nodes)
  <2> DEFINE nodes == InMemory!ruleNodeIDs(rule)
             rules == InMemory!WithRule(id, rule, InMemory!Raised(nodes))
  <2>1. InMemory!Store(rules, nodes) /\ forwardRules[id] = None
    BY <1>1 DEF InMemory!CreateForwardRule
  <2>2. DOMAIN rules = RuleIds
    BY DEF InMemory!WithRule
  <2>3. Covers(rules, nodes)
    BY <2>1 DEF Covers, Names, InMemory!WithRule
  <2> QED
    BY <2>1, <2>2, <2>3
<1>2. ASSUME NEW id \in RuleIds, NEW rule \in Inputs, InMemory!UpdateForwardRule(id, rule)
      PROVE  \E rules, nodes : Good(rules, nodes)
  <2> DEFINE affected == InMemory!ruleNodeIDs(forwardRules[id].rule) \cup InMemory!ruleNodeIDs(rule)
             rules == InMemory!WithRule(id, rule, InMemory!Raised(affected))
  <2>1. InMemory!Store(rules, affected)
    BY <1>2 DEF InMemory!UpdateForwardRule
  <2>2. DOMAIN rules = RuleIds
    BY DEF InMemory!WithRule
  <2>3. Covers(rules, affected)
    BY DEF Covers, Names, InMemory!WithRule
  <2> QED
    BY <2>1, <2>2, <2>3
<1>3. ASSUME NEW id \in RuleIds, InMemory!DeleteForwardRule(id)
      PROVE  \E rules, nodes : Good(rules, nodes)
  <2> DEFINE nodes == InMemory!ruleNodeIDs(forwardRules[id].rule)
             rules == [forwardRules EXCEPT ![id] = None]
  <2>1. InMemory!Store(rules, nodes)
    BY <1>3 DEF InMemory!DeleteForwardRule
  <2>2. DOMAIN rules = RuleIds
    OBVIOUS
  <2>3. Covers(rules, nodes)
    BY DEF Covers, Names
  <2> QED
    BY <2>1, <2>2, <2>3
<1> QED
  BY <1>1, <1>2, <1>3 DEF InMemory!Next

\* A call that stores rules is, for each node, a step of its source or none.
LEMMA StoreIsStep ==
  ASSUME ConfigsOK, NEW rules, NEW nodes, InMemory!Store(rules, nodes)
  PROVE  ConfigsOK' /\ \A n \in Nodes : IsServed(n)
<1>1. configVersion' \in [Nodes -> Nat] /\ agentConfigs' = [n \in Nodes |-> agentConfigs'[n]]
  BY DEF ConfigsOK, InMemory!Store, InMemory!Raised
<1>2. ASSUME NEW n \in Nodes
      PROVE  agentConfigs'[n].version = configVersion'[n] /\ IsServed(n)
  <2>1. CASE n \in nodes
    <3>1. configVersion'[n] = configVersion[n] + 1
      BY <2>1 DEF ConfigsOK, InMemory!Store, InMemory!Raised
    <3>2. agentConfigs'[n].version = configVersion[n] + 1
      BY <2>1 DEF InMemory!Store, InMemory!rebuildAgentConfig, InMemory!Raised
    <3> QED
      BY <3>1, <3>2 DEF IsServed, ServedBy!Next
  <2>2. CASE n \notin nodes
    <3>1. configVersion'[n] = configVersion[n] /\ agentConfigs'[n] = agentConfigs[n]
      BY <2>2 DEF ConfigsOK, InMemory!Store, InMemory!Raised
    <3> QED
      BY <3>1 DEF ConfigsOK, IsServed
  <2> QED
    BY <2>1, <2>2
<1> QED
  BY <1>1, <1>2 DEF ConfigsOK

LEMMA StoreServes ==
  ASSUME Serving, NEW rules, NEW nodes, InMemory!Store(rules, nodes), Covers(rules, nodes)
  PROVE  InMemory!ServedIsStored'
<1> SUFFICES ASSUME NEW n \in Nodes, NEW id \in RuleIds
             PROVE  LET served == agentConfigs'[n].rules IN
                      /\ id \in DOMAIN served <=> Names(rules, id, n)
                      /\ Names(rules, id, n) =>
                           \E hosts \in [Nodes -> KnownTunnels] :
                             served[id] = InMemory!Cloned(id, rules[id].rule, hosts)
  BY DEF InMemory!ServedIsStored, Names, InMemory!Store
<1>1. CASE n \in nodes
  <2>1. agentConfigs'[n].rules =
          [i \in {i \in RuleIds : Names(rules, i, n)} |->
             InMemory!Cloned(i, rules[i].rule, knownAddress)]
    BY <1>1 DEF InMemory!Store, InMemory!rebuildAgentConfig, Names
  <2>2. knownAddress \in [Nodes -> KnownTunnels]
    BY DEF Serving
  <2> QED
    BY <2>1, <2>2
<1>2. CASE n \notin nodes
  <2>1. agentConfigs'[n] = agentConfigs[n]
    BY <1>2 DEF InMemory!Store
  <2>2. /\ Names(rules, id, n) <=> Names(forwardRules, id, n)
        /\ Names(rules, id, n) => rules[id].rule = forwardRules[id].rule
    BY <1>2 DEF Covers
  <2> QED
    BY <2>1, <2>2 DEF Serving, InMemory!ServedIsStored, Names
<1> QED
  BY <1>1, <1>2

LEMMA ServingStep ==
  ASSUME Serving, [InMemory!Next]_InMemory!vars
  PROVE  Serving' /\ \A n \in Nodes : IsServed(n)
<1>1. ASSUME NEW rules, NEW nodes, InMemory!Store(rules, nodes), Covers(rules, nodes),
             DOMAIN rules = RuleIds
      PROVE  Serving' /\ \A n \in Nodes : IsServed(n)
  <2>1. ConfigsOK' /\ \A n \in Nodes : IsServed(n)
    BY <1>1, StoreIsStep DEF Serving
  <2>2. InMemory!ServedIsStored'
    BY <1>1, StoreServes
  <2>3. forwardRules' = rules /\ knownAddress' = knownAddress
    BY <1>1 DEF InMemory!Store
  <2> QED
    BY <1>1, <2>1, <2>2, <2>3 DEF Serving
<1>2. ASSUME NEW n \in Nodes, NEW address \in KnownTunnels, InMemory!UpdateAgentHeartbeat(n, address)
      PROVE  Serving' /\ \A m \in Nodes : IsServed(m)
  BY <1>2 DEF InMemory!UpdateAgentHeartbeat, Serving, ConfigsOK, InMemory!ServedIsStored, IsServed
<1>3. CASE UNCHANGED InMemory!vars
  BY <1>3 DEF InMemory!vars, Serving, ConfigsOK, InMemory!ServedIsStored, IsServed
<1>4. CASE InMemory!Next
  BY <1>1, <1>2, <1>4, StepStores DEF Serving
<1> QED
  BY <1>3, <1>4

LEMMA ServingInit == InMemory!Init => Serving /\ \A n \in Nodes : ServedBy(n)!Init
BY DEF InMemory!Init, Serving, ConfigsOK, InMemory!ServedIsStored, ServedBy!Init

\* Every node is served as ConfigSource promises: its rules never change without
\* its version growing by one (agentConfigs and ConfigVersion in memory.go), so
\* an agent that runs the version it is told has nothing to ask for.
THEOREM MemoryServesSources ==
  InMemory!Spec => /\ \A n \in Nodes : ServedBy(n)!Init
                   /\ [][\A n \in Nodes : IsServed(n)]_InMemory!vars
<1>1. Serving /\ [InMemory!Next]_InMemory!vars => Serving'
  BY ServingStep
<1>2. Serving /\ [InMemory!Next]_InMemory!vars => [\A n \in Nodes : IsServed(n)]_InMemory!vars
  BY ServingStep
<1> QED
  BY ServingInit, <1>1, <1>2, PTL DEF InMemory!Spec

\* No change of a rule is forgotten on a node it leaves, stays on or comes to,
\* however often it is moved (rebuildAgentConfigLocked is called for the nodes
\* of the old rule and of the new one).
THEOREM MemoryServesStored == InMemory!Spec => []InMemory!ServedIsStored
<1>1. Serving /\ [InMemory!Next]_InMemory!vars => Serving'
  BY ServingStep
<1>2. Serving => InMemory!ServedIsStored
  BY DEF Serving
<1> QED
  BY ServingInit, <1>1, <1>2, PTL DEF InMemory!Spec
================================================================================
