----------------------------- MODULE TelemetryProofs -----------------------------
(***************************************************************************)
(* For any nodes, rules and heartbeats, lost or late: the two stores show  *)
(* the same statistics of a rule and the same history of a node, and the   *)
(* history counts nothing that was not forwarded but for rules that stop   *)
(* and heartbeats that are overtaken.                                      *)
(***************************************************************************)
EXTENDS Telemetry, FiniteSetTheorems, SequenceTheorems, WellFoundedInduction, TLAPS

--------------------------------------------------------------------------------
\* Statistics.

\* The maps of the stores have an entry for each rule.
Maps ==
  /\ ingress \in [Rules -> Nodes \cup {None}]
  /\ DOMAIN stat = Rules /\ DOMAIN row = Rules

\* What the two stores say of a rule: only its ingress ever reports a rule that
\* has not moved, so that the row is that node's and its heartbeats clear it.
Tied(r) ==
  /\ row[r].bytes = stat[r].bytes
  /\ row[r].node = None => row[r].active = FALSE /\ stat[r].active = FALSE
  /\ r \notin moved =>
       /\ row[r].node \in {None, ingress[r]}
       /\ row[r].active = stat[r].active

Inv == Maps /\ \A r \in Rules : Tied(r)

\* At first no rule has statistics, in either store.
LEMMA InitiallyTied == Init => Inv
<1> SUFFICES ASSUME Init PROVE Inv
  OBVIOUS
<1>1. Maps
  BY TelemetryAssumption DEF Init, Maps, Scenario
<1>2. ASSUME NEW r \in Rules PROVE Tied(r)
  BY DEF Init, Tied, NoRow, NoStat
<1> QED
  BY <1>1, <1>2 DEF Inv

\* A heartbeat brings what both stores take over, and what it omits both clear,
\* for the rules its node is the ingress of.
LEMMA ServedTied ==
  ASSUME Inv, NEW n \in Nodes, NEW i \in DOMAIN requests[n], ServeHeartbeat(n, i)
  PROVE  Inv'
<1> DEFINE request == requests[n][i]
<1>1. /\ stat' = MemoryStats(n, request) /\ row' = PostgresRows(n, request)
      /\ ingress' = ingress /\ moved' = moved
  BY DEF ServeHeartbeat
<1> HIDE DEF request
<1>2. Maps'
  BY <1>1 DEF Inv, Maps, MemoryStats, PostgresRows
<1>3. ASSUME NEW r \in Rules PROVE Tied(r)'
  <2>1. Tied(r) /\ n # None
    BY TelemetryAssumption DEF Inv
  <2>2. CASE ingress[r] = n /\ r \in Reported(request.counters)
    <3>1. /\ stat'[r].bytes = request.counters[r]
          /\ stat'[r].active = (r \in request.active)
      BY <1>1, <2>2 DEF MemoryStats
    <3>2. /\ row'[r].bytes = request.counters[r]
          /\ row'[r].active = (r \in request.active)
          /\ row'[r].node = IF row[r].node = None THEN n ELSE row[r].node
      BY <1>1, <2>2 DEF PostgresRows
    <3> QED
      BY <1>1, <2>1, <2>2, <3>1, <3>2 DEF Tied
  <2>3. CASE ingress[r] = n /\ r \notin Reported(request.counters)
    BY <1>1, <2>1, <2>3 DEF Tied, MemoryStats, PostgresRows, Zeroed
  <2>4. CASE ingress[r] # n
    BY <1>1, <2>1, <2>4 DEF Tied, MemoryStats, PostgresRows, Zeroed
  <2> QED
    BY <2>2, <2>3, <2>4
<1> QED
  BY <1>2, <1>3 DEF Inv

\* A rule that moves keeps its numbers; what its row says of its node does not
\* count any more.
LEMMA MovedTied ==
  ASSUME Inv, NEW n \in Nodes, NEW s \in Rules, MoveRule(s, n)
  PROVE  Inv'
<1>1. /\ stat' = stat /\ row' = row /\ moved' = moved \cup {s}
      /\ ingress' = [ingress EXCEPT ![s] = n]
  BY DEF MoveRule, storeVars
<1>2. Maps'
  BY <1>1 DEF Inv, Maps
<1>3. ASSUME NEW r \in Rules PROVE Tied(r)'
  <2>1. Tied(r) /\ n # None
    BY TelemetryAssumption DEF Inv
  <2> QED
    BY <1>1, <2>1 DEF Inv, Maps, Tied
<1> QED
  BY <1>2, <1>3 DEF Inv

\* The statistics of a deleted rule go in both stores.
LEMMA DeletedTied ==
  ASSUME Inv, NEW s \in Rules, DeleteRule(s)
  PROVE  Inv'
<1>1. /\ stat' = [stat EXCEPT ![s] = NoStat] /\ row' = [row EXCEPT ![s] = NoRow]
      /\ ingress' = [ingress EXCEPT ![s] = None] /\ moved' = moved
  BY DEF DeleteRule
<1>2. Maps'
  BY <1>1 DEF Inv, Maps
<1>3. ASSUME NEW r \in Rules PROVE Tied(r)'
  BY <1>1 DEF Inv, Maps, Tied, NoRow, NoStat
<1> QED
  BY <1>2, <1>3 DEF Inv

\* Nothing else touches the stores' statistics.
LEMMA OthersTied ==
  ASSUME Inv, UNCHANGED <<ingress, stat, row, moved>>
  PROVE  Inv'
  BY DEF Inv, Maps, Tied

\* Each action keeps the statistics tied.
LEMMA StaysTied == Inv /\ [Next]_vars => Inv'
<1> SUFFICES ASSUME Inv, [Next]_vars PROVE Inv'
  OBVIOUS
<1>1. CASE \E n \in Nodes, r \in Rules : Start(n, r) \/ Stop(n, r) \/ Transfer(n, r)
  BY <1>1, OthersTied DEF Start, Stop, Transfer, storeVars
<1>2. CASE \E n \in Nodes, r \in Rules : MoveRule(r, n)
  BY <1>2, MovedTied
<1>3. CASE \E n \in Nodes : Restart(n) \/ \E active \in SUBSET Rules : SendHeartbeat(n, active)
  BY <1>3, OthersTied DEF Restart, SendHeartbeat, storeVars
<1>4. CASE \E n \in Nodes : \E i \in DOMAIN requests[n] : Lose(n, i)
  BY <1>4, OthersTied DEF Lose, storeVars
<1>5. CASE \E n \in Nodes : \E i \in DOMAIN requests[n] : ServeHeartbeat(n, i)
  BY <1>5, ServedTied
<1>6. CASE \E r \in Rules : DeleteRule(r)
  BY <1>6, DeletedTied
<1>7. CASE Tick
  BY <1>7, OthersTied DEF Tick, storeVars
<1>8. CASE UNCHANGED vars
  BY <1>8, OthersTied DEF vars
<1> QED
  BY <1>1, <1>2, <1>3, <1>4, <1>5, <1>6, <1>7, <1>8 DEF Next

\* For any nodes, rules and heartbeats, and however they are lost or overtake
\* each other, both stores show the same statistics of a rule: the bytes always,
\* and whether it has connections as long as it kept its ingress
\* (UpdateAgentHeartbeat of memory.go and of postgres.go).
THEOREM StatisticsAgree == Spec => []StatsAgree
<1>1. Inv => StatsAgree
  BY DEF Inv, Tied, StatsAgree
<1> QED
  BY <1>1, InitiallyTied, StaysTied, PTL DEF Spec

--------------------------------------------------------------------------------
\* Sums over finite sets, as SumFunctionOnSet folds them.  What is said of every
\* part of a set is shown of a least part of which it would fail.

\* Among the subsets of a finite set of which something is said, one is least.
LEMMA LeastExists ==
  ASSUME NEW S, IsFiniteSet(S), NEW B, B \subseteq SUBSET S, B # {}
  PROVE  \E V \in B : \A W \in SUBSET V : W # V => W \notin B
<1>1. IsWellFoundedOn(StrictSubsetOrdering(S), SUBSET S)
  BY FS_StrictSubsetOrderingWellFounded, FS_FiniteSubsetsOfFinite
<1>2. PICK V \in B : \A W \in B : <<W, V>> \notin StrictSubsetOrdering(S)
  BY <1>1, WFMin
<1> QED
  BY <1>2 DEF StrictSubsetOrdering

\* The element the fold takes first.
Some(S) == CHOOSE x \in S : TRUE

\* What the fold under SumFunctionOnSet makes of every part of S.
Adds(f, S, g) == [s \in SUBSET S |-> IF s = {} THEN 0 ELSE f[Some(s)] + g[s \ {Some(s)}]]

\* A set that is not empty has the element CHOOSE picks.
LEMMA SomeIn == \A S : S # {} => Some(S) \in S
BY DEF Some

\* Folds over two sets agree on what the sets share.
LEMMA AddsOnce ==
  ASSUME NEW f, NEW S, NEW T, NEW g, NEW h, g = Adds(f, S, g), h = Adds(f, T, h),
         NEW U, U \subseteq S, U \subseteq T, IsFiniteSet(U)
  PROVE  g[U] = h[U]
<1> DEFINE bad == {V \in SUBSET U : g[V] # h[V]}
<1> SUFFICES ASSUME bad # {} PROVE FALSE
  OBVIOUS
<1>1. PICK V \in bad : \A W \in SUBSET V : W # V => W \notin bad
  <2> HIDE DEF bad
  <2>1. bad \subseteq SUBSET U
    BY DEF bad
  <2> QED
    BY <2>1, LeastExists
<1>2. V \in SUBSET S /\ V \in SUBSET T
  OBVIOUS
<1>3. V # {}
  BY <1>2 DEF Adds
<1>4. g[V] = f[Some(V)] + g[V \ {Some(V)}] /\ h[V] = f[Some(V)] + h[V \ {Some(V)}]
  BY <1>2, <1>3 DEF Adds
<1>5. V \ {Some(V)} \in SUBSET V /\ V \ {Some(V)} # V
  BY <1>3, SomeIn
<1>6. g[V \ {Some(V)}] = h[V \ {Some(V)}]
  BY <1>1, <1>5
<1> QED
  BY <1>1, <1>4, <1>6

\* The fold of a finite set exists: it is put together from those of the set
\* without one element.
LEMMA AddsExists ==
  ASSUME NEW f, NEW S, IsFiniteSet(S)
  PROVE  \E g : g = Adds(f, S, g)
<1> DEFINE bad == {V \in SUBSET S : ~ \E g : g = Adds(f, V, g)}
<1> SUFFICES ASSUME bad # {} PROVE FALSE
  OBVIOUS
<1>1. PICK V \in bad : \A W \in SUBSET V : W # V => W \notin bad
  <2> HIDE DEF bad
  <2>1. bad \subseteq SUBSET S
    BY DEF bad
  <2> QED
    BY <2>1, LeastExists
<1>2. IsFiniteSet(V)
  BY FS_Subset
<1> DEFINE part(x) == CHOOSE g : g = Adds(f, V \ {x}, g)
<1>3. ASSUME NEW x \in V PROVE part(x) = Adds(f, V \ {x}, part(x))
  <2>1. V \ {x} \in SUBSET V /\ V \ {x} # V
    OBVIOUS
  <2>2. \E g : g = Adds(f, V \ {x}, g)
    BY <1>1, <2>1
  <2> QED
    BY <2>2
<1> HIDE DEF part, bad
<1> DEFINE g == [s \in SUBSET V |-> IF s = {} THEN 0
                                   ELSE f[Some(s)] + part(Some(s))[s \ {Some(s)}]]
<1>4. ASSUME NEW s \in SUBSET V, s # {} PROVE g[s \ {Some(s)}] = part(Some(s))[s \ {Some(s)}]
  <2> DEFINE x == Some(s)  rest == s \ {x}  y == Some(rest)
  <2>1. x \in V /\ rest \in SUBSET V /\ rest \in SUBSET (V \ {x})
    BY <1>4, SomeIn
  <2>2. part(x) = Adds(f, V \ {x}, part(x))
    BY <1>3, <2>1
  <2>3. CASE rest = {}
    <3>1. part(x)[rest] = 0
      <4> HIDE DEF rest, x
      <4> QED
        BY <2>1, <2>2, <2>3 DEF Adds
    <3> QED
      BY <2>1, <2>3, <3>1
  <2>4. CASE rest # {}
    <3>1. y \in rest /\ y \in V
      BY <2>1, <2>4, SomeIn
    <3> HIDE DEF rest, x, y
    <3>2. part(y) = Adds(f, V \ {y}, part(y))
      BY <1>3, <3>1
    <3>3. part(x)[rest] = f[y] + part(x)[rest \ {y}]
      BY <2>1, <2>2, <2>4 DEF Adds, y
    <3>4. g[rest] = f[y] + part(y)[rest \ {y}]
      BY <2>1, <2>4 DEF y
    <3>5. /\ rest \ {y} \subseteq V \ {x} /\ rest \ {y} \subseteq V \ {y}
          /\ IsFiniteSet(rest \ {y})
      BY <1>2, <2>1, FS_Subset
    <3>6. part(x)[rest \ {y}] = part(y)[rest \ {y}]
      BY <2>2, <3>2, <3>5, AddsOnce
    <3>7. g[rest] = part(x)[rest]
      BY <3>3, <3>4, <3>6
    <3> QED
      BY <3>7 DEF rest, x
  <2> QED
    BY <2>3, <2>4
<1>5. g = Adds(f, V, g)
  <2> HIDE DEF g
  <2>1. g = [s \in SUBSET V |-> IF s = {} THEN 0
                                   ELSE f[Some(s)] + part(Some(s))[s \ {Some(s)}]]
    BY DEF g
  <2>2. ASSUME NEW s \in SUBSET V, s # {}
        PROVE  f[Some(s)] + part(Some(s))[s \ {Some(s)}] = f[Some(s)] + g[s \ {Some(s)}]
    BY <1>4, <2>2
  <2>3. Adds(f, V, g) = [s \in SUBSET V |-> IF s = {} THEN 0 ELSE f[Some(s)] + g[s \ {Some(s)}]]
    BY DEF Adds
  <2> QED
    BY <2>1, <2>2, <2>3
<1> QED
  BY <1>1, <1>5 DEF bad

\* A sum is nothing, or one of its terms and the sum of the others.
LEMMA SumTakesSome ==
  ASSUME NEW f, NEW S, IsFiniteSet(S)
  PROVE  SumFunctionOnSet(f, S) =
           IF S = {} THEN 0 ELSE f[Some(S)] + SumFunctionOnSet(f, S \ {Some(S)})
<1> DEFINE sum(T) == CHOOSE g : g = Adds(f, T, g)
<1>1. ASSUME NEW T, IsFiniteSet(T)
      PROVE  SumFunctionOnSet(f, T) = sum(T)[T] /\ sum(T) = Adds(f, T, sum(T))
  <2>1. SumFunctionOnSet(f, T) = sum(T)[T]
    BY DEF SumFunctionOnSet, FoldFunctionOnSet, MapThenFoldSet, Adds, Some
  <2>2. \E g : g = Adds(f, T, g)
    BY <1>1, AddsExists
  <2>3. sum(T) = Adds(f, T, sum(T))
    BY <2>2
  <2> QED
    BY <2>1, <2>3
<1> HIDE DEF sum
<1>2. S \in SUBSET S
  OBVIOUS
<1>3. sum(S)[S] = IF S = {} THEN 0 ELSE f[Some(S)] + sum(S)[S \ {Some(S)}]
  BY <1>1, <1>2 DEF Adds
<1>4. S \ {Some(S)} \subseteq S /\ IsFiniteSet(S \ {Some(S)})
  BY FS_Subset
<1>5. sum(S)[S \ {Some(S)}] = sum(S \ {Some(S)})[S \ {Some(S)}]
  BY <1>1, <1>4, AddsOnce
<1> QED
  BY <1>1, <1>3, <1>4, <1>5

\* Nothing adds up to nothing.
LEMMA SumOfNone == ASSUME NEW f PROVE SumFunctionOnSet(f, {}) = 0
BY FS_EmptySet, SumTakesSome

\* Sums of naturals are naturals.
LEMMA SumNat ==
  ASSUME NEW f, NEW S, IsFiniteSet(S), \A x \in S : f[x] \in Nat
  PROVE  SumFunctionOnSet(f, S) \in Nat
<1> DEFINE bad == {V \in SUBSET S : SumFunctionOnSet(f, V) \notin Nat}
<1> SUFFICES ASSUME bad # {} PROVE FALSE
  <2>1. S \in SUBSET S
    OBVIOUS
  <2> QED
    BY <2>1
<1>1. PICK V \in bad : \A W \in SUBSET V : W # V => W \notin bad
  <2> HIDE DEF bad
  <2>1. bad \subseteq SUBSET S
    BY DEF bad
  <2> QED
    BY <2>1, LeastExists
<1>2. IsFiniteSet(V)
  BY FS_Subset
<1> DEFINE rest == V \ {Some(V)}
<1>3. V # {}
  BY SumOfNone
<1>4. SumFunctionOnSet(f, V) = f[Some(V)] + SumFunctionOnSet(f, rest)
  BY <1>2, <1>3, SumTakesSome
<1>5. Some(V) \in V /\ rest \in SUBSET V /\ rest # V
  BY <1>3, SomeIn
<1>6. SumFunctionOnSet(f, rest) \in Nat
  BY <1>1, <1>5
<1>7. f[Some(V)] \in Nat
  BY <1>5
<1> QED
  BY <1>1, <1>4, <1>6, <1>7

\* Any term may be taken out first.
LEMMA SumTakes ==
  ASSUME NEW f, NEW S, IsFiniteSet(S), \A x \in S : f[x] \in Nat, NEW a \in S
  PROVE  SumFunctionOnSet(f, S) = f[a] + SumFunctionOnSet(f, S \ {a})
<1> DEFINE wrong(V, x) == SumFunctionOnSet(f, V) # f[x] + SumFunctionOnSet(f, V \ {x})
           bad == {V \in SUBSET S : \E x \in V : wrong(V, x)}
<1> SUFFICES ASSUME bad # {} PROVE FALSE
  <2>1. S \in SUBSET S
    OBVIOUS
  <2> QED
    BY <2>1
<1>1. PICK V \in bad : \A W \in SUBSET V : W # V => W \notin bad
  <2> HIDE DEF bad
  <2>1. bad \subseteq SUBSET S
    BY DEF bad
  <2> QED
    BY <2>1, LeastExists
<1>2. PICK x \in V : wrong(V, x)
  OBVIOUS
<1> DEFINE y == Some(V)
<1>3. IsFiniteSet(V) /\ V # {} /\ V \in SUBSET S /\ y \in V
  BY <1>2, FS_Subset, SomeIn
<1>4. SumFunctionOnSet(f, V) = f[y] + SumFunctionOnSet(f, V \ {y})
  BY <1>3, SumTakesSome
<1>5. x # y
  BY <1>2, <1>4
<1>6. SumFunctionOnSet(f, V \ {y}) = f[x] + SumFunctionOnSet(f, (V \ {y}) \ {x})
  <2>1. V \ {y} \in SUBSET V /\ V \ {y} # V /\ x \in V \ {y} /\ V \ {y} \in SUBSET S
    BY <1>3, <1>5
  <2> HIDE DEF y
  <2> QED
    BY <1>1, <2>1
<1>7. SumFunctionOnSet(f, V \ {x}) = f[y] + SumFunctionOnSet(f, (V \ {x}) \ {y})
  <2>1. V \ {x} \in SUBSET V /\ V \ {x} # V /\ y \in V \ {x} /\ V \ {x} \in SUBSET S
    BY <1>3, <1>5
  <2> HIDE DEF y
  <2> QED
    BY <1>1, <2>1
<1>8. (V \ {x}) \ {y} = (V \ {y}) \ {x}
  OBVIOUS
<1> DEFINE rest == SumFunctionOnSet(f, (V \ {y}) \ {x})
<1>9. rest \in Nat /\ f[x] \in Nat /\ f[y] \in Nat
  <2>1. IsFiniteSet((V \ {y}) \ {x}) /\ \A z \in (V \ {y}) \ {x} : f[z] \in Nat
    BY <1>3, FS_Subset
  <2> QED
    BY <1>3, <2>1, SumNat
<1>10. SumFunctionOnSet(f, V) = f[y] + (f[x] + rest)
  BY <1>4, <1>6
<1>11. SumFunctionOnSet(f, V \ {x}) = f[y] + rest
  BY <1>7, <1>8
<1> HIDE DEF rest, y
<1>12. f[y] + (f[x] + rest) = f[x] + (f[y] + rest)
  BY <1>9
<1> QED
  BY <1>2, <1>10, <1>11, <1>12

\* A sum of some smaller terms is no larger.
LEMMA SumAtMost ==
  ASSUME NEW f, NEW g, NEW S, NEW T, IsFiniteSet(T), S \subseteq T,
         \A x \in S : f[x] \in Nat /\ f[x] <= g[x], \A x \in T : g[x] \in Nat
  PROVE  SumFunctionOnSet(f, S) <= SumFunctionOnSet(g, T)
<1> DEFINE bad == {V \in SUBSET T : ~ (SumFunctionOnSet(f, S \cap V) <= SumFunctionOnSet(g, V))}
<1> SUFFICES ASSUME bad # {} PROVE FALSE
  <2>1. T \in SUBSET T /\ S \cap T = S
    OBVIOUS
  <2> QED
    BY <2>1
<1>1. PICK V \in bad : \A W \in SUBSET V : W # V => W \notin bad
  <2> HIDE DEF bad
  <2>1. bad \subseteq SUBSET T
    BY DEF bad
  <2> QED
    BY <2>1, LeastExists
<1>2. IsFiniteSet(V) /\ V \in SUBSET T
  BY FS_Subset
<1>3. V # {}
  <2>1. SumFunctionOnSet(f, {}) <= SumFunctionOnSet(g, {})
    BY SumOfNone
  <2>2. V = {} => S \cap V = {}
    OBVIOUS
  <2> QED
    BY <2>1, <2>2
<1>4. PICK x \in V : TRUE
  BY <1>3
<1> DEFINE rest == V \ {x}
       less == SumFunctionOnSet(f, S \cap rest)
       more == SumFunctionOnSet(g, rest)
       all == SumFunctionOnSet(g, V)
<1>10. ~ (SumFunctionOnSet(f, S \cap V) <= all)
  OBVIOUS
<1>5. /\ less <= more
      /\ IsFiniteSet(rest) /\ rest \subseteq T /\ IsFiniteSet(S \cap V) /\ IsFiniteSet(S \cap rest)
  <2>1. rest \in SUBSET V /\ rest # V /\ rest \in SUBSET T
    BY <1>2, <1>4
  <2> QED
    BY <1>1, <1>2, <2>1, FS_Subset
<1>6. all = g[x] + more
  BY <1>2, <1>4, SumTakes
<1>7. more \in Nat /\ less \in Nat /\ g[x] \in Nat
  <2>1. \A z \in rest : g[z] \in Nat
    BY <1>5
  <2>2. \A z \in S \cap rest : f[z] \in Nat
    OBVIOUS
  <2> QED
    BY <1>2, <1>4, <1>5, <2>1, <2>2, SumNat
<1>8. CASE x \in S
  <2>1. SumFunctionOnSet(f, S \cap V) = f[x] + SumFunctionOnSet(f, (S \cap V) \ {x})
    <3>1. x \in S \cap V /\ \A z \in S \cap V : f[z] \in Nat
      BY <1>4, <1>8
    <3> QED
      BY <1>5, <3>1, SumTakes
  <2>2. (S \cap V) \ {x} = S \cap rest
    OBVIOUS
  <2>3. f[x] \in Nat /\ f[x] <= g[x]
    BY <1>8
  <2>4. SumFunctionOnSet(f, S \cap V) = f[x] + less
    BY <2>1, <2>2
  <2> HIDE DEF rest, bad, less, more, all
  <2> QED
    BY <1>5, <1>6, <1>7, <1>10, <2>3, <2>4
<1>9. CASE x \notin S
  <2>1. S \cap V = S \cap rest
    BY <1>9
  <2>2. SumFunctionOnSet(f, S \cap V) = less
    BY <2>1
  <2> HIDE DEF rest, bad, less, more, all
  <2> QED
    BY <1>5, <1>6, <1>7, <1>10, <2>2
<1> QED
  BY <1>8, <1>9

\* Equal terms have equal sums.
LEMMA SumEqual ==
  ASSUME NEW f, NEW g, NEW S, IsFiniteSet(S), \A x \in S : f[x] \in Nat /\ f[x] = g[x]
  PROVE  SumFunctionOnSet(f, S) = SumFunctionOnSet(g, S)
<1>1. SumFunctionOnSet(f, S) <= SumFunctionOnSet(g, S)
  BY SumAtMost
<1>2. SumFunctionOnSet(g, S) <= SumFunctionOnSet(f, S)
  BY SumAtMost
<1>3. SumFunctionOnSet(f, S) \in Nat /\ SumFunctionOnSet(g, S) \in Nat
  BY SumNat
<1> QED
  BY <1>1, <1>2, <1>3

\* Terms that are counted by other names have the same sum.
LEMMA SumRenamed ==
  ASSUME NEW f, NEW g, NEW S, NEW T, IsFiniteSet(S), IsFiniteSet(T), NEW name \in [S -> T],
         \A x \in S : f[x] \in Nat /\ f[x] = g[name[x]],
         \A x, y \in S : name[x] = name[y] => x = y,
         \A y \in T : \E x \in S : name[x] = y
  PROVE  SumFunctionOnSet(f, S) = SumFunctionOnSet(g, T)
<1> DEFINE image(V) == {name[x] : x \in V}
           bad == {V \in SUBSET S : SumFunctionOnSet(f, V) # SumFunctionOnSet(g, image(V))}
<1> SUFFICES ASSUME bad # {} PROVE FALSE
  <2>1. S \in SUBSET S /\ image(S) = T
    OBVIOUS
  <2> QED
    BY <2>1
<1>1. PICK V \in bad : \A W \in SUBSET V : W # V => W \notin bad
  <2> HIDE DEF bad
  <2>1. bad \subseteq SUBSET S
    BY DEF bad
  <2> QED
    BY <2>1, LeastExists
<1>2. IsFiniteSet(V) /\ V \in SUBSET S
  BY FS_Subset
<1>3. V # {}
  <2>1. image({}) = {}
    OBVIOUS
  <2> QED
    BY <2>1, SumOfNone
<1>4. PICK x \in V : TRUE
  BY <1>3
<1> DEFINE rest == V \ {x}
<1>5. SumFunctionOnSet(f, rest) = SumFunctionOnSet(g, image(rest))
  <2>1. rest \in SUBSET V /\ rest # V /\ rest \in SUBSET S
    BY <1>2, <1>4
  <2> QED
    BY <1>1, <2>1
<1>6. image(rest) = image(V) \ {name[x]}
  BY <1>2, <1>4
<1>7. SumFunctionOnSet(f, V) = f[x] + SumFunctionOnSet(f, rest)
  BY <1>2, <1>4, SumTakes
<1>8. SumFunctionOnSet(g, image(V)) = g[name[x]] + SumFunctionOnSet(g, image(V) \ {name[x]})
  <2>1. image(V) \subseteq T /\ name[x] \in image(V) /\ \A y \in image(V) : g[y] \in Nat
    BY <1>2, <1>4
  <2>2. IsFiniteSet(image(V))
    BY <2>1, FS_Subset
  <2> HIDE DEF image
  <2> QED
    BY <2>1, <2>2, SumTakes
<1>9. f[x] = g[name[x]]
  BY <1>2, <1>4
<1> HIDE DEF rest, image
<1> QED
  BY <1>1, <1>5, <1>6, <1>7, <1>8, <1>9

--------------------------------------------------------------------------------
\* Minutes in order of time, and the traffic both stores read from them.

\* Minutes are counted from the first.
LEMMA MinutesAreNumbers == LastMinute \in Nat /\ Minutes \subseteq Nat /\ Minutes \subseteq Int
BY TelemetryAssumption DEF Minutes

\* Of some minutes, one is the last, and Max finds it.
LEMMA LastMinuteExists ==
  ASSUME NEW S \in SUBSET Minutes, S # {}
  PROVE  Max(S) \in S /\ \A m \in S : m <= Max(S)
<1> DEFINE away == {LastMinute - m : m \in S}
<1>1. away \in SUBSET Nat /\ away # {} /\ S \in SUBSET Nat
  BY TelemetryAssumption DEF Minutes
<1>2. PICK a \in away : \A b \in away : <<b, a>> \notin OpToRel(<, Nat)
  <2> HIDE DEF away
  <2> QED
    BY <1>1, NatLessThanWellFounded, WFMin
<1>3. \A b \in away : ~(b < a)
  BY <1>1, <1>2 DEF OpToRel
<1>4. PICK m \in S : a = LastMinute - m
  OBVIOUS
<1>5. ASSUME NEW k \in S PROVE m >= k
  <2>1. ~(LastMinute - k < LastMinute - m)
    BY <1>3, <1>4
  <2> QED
    BY <1>1, <2>1, TelemetryAssumption
<1>6. \E x \in S : \A y \in S : x >= y
  BY <1>5
<1>7. Max(S) \in S /\ \A y \in S : Max(S) >= y
  BY <1>6 DEF Max
<1> QED
  BY <1>1, <1>7

\* Max is the only minute that none exceeds.
LEMMA MaxIs ==
  ASSUME NEW S \in SUBSET Minutes, NEW m \in S, \A k \in S : k <= m
  PROVE  Max(S) = m
<1>1. Max(S) \in S /\ m <= Max(S) /\ Max(S) <= m
  BY LastMinuteExists
<1>2. Max(S) \in Int /\ m \in Int
  BY <1>1, MinutesAreNumbers
<1> QED
  BY <1>1, <1>2

\* There are only so many minutes.
LEMMA MinutesFinite == ASSUME NEW S \in SUBSET Minutes PROVE IsFiniteSet(S)
<1>1. IsFiniteSet(Minutes)
  BY MinutesAreNumbers, FS_Interval DEF Minutes
<1> QED
  BY <1>1, FS_Subset

\* Rows in order of time.
Increasing(ordered) == \A i, j \in DOMAIN ordered : i < j => ordered[i] < ordered[j]

\* Any minutes can be put in order: those but the last, then the last.
LEMMA OrderExists ==
  ASSUME NEW S \in SUBSET Minutes
  PROVE  \E ordered \in [1 .. Cardinality(S) -> S] : Increasing(ordered)
<1> DEFINE sorts(V) == \E ordered \in [1 .. Cardinality(V) -> V] : Increasing(ordered)
           bad == {V \in SUBSET S : ~ sorts(V)}
<1> SUFFICES ASSUME bad # {} PROVE FALSE
  OBVIOUS
<1>1. PICK V \in bad : \A W \in SUBSET V : W # V => W \notin bad
  <2> HIDE DEF bad
  <2>1. bad \subseteq SUBSET S
    BY DEF bad
  <2> QED
    BY <2>1, LeastExists, MinutesFinite
<1>2. V \in SUBSET S /\ V \in SUBSET Minutes /\ ~ sorts(V) /\ IsFiniteSet(V)
  BY MinutesFinite
<1>3. V # {}
  <2>1. [i \in 1 .. 0 |-> 0] \in [1 .. 0 -> {}] /\ Increasing([i \in 1 .. 0 |-> 0])
    BY DEF Increasing
  <2> QED
    BY <1>2, <2>1, FS_EmptySet
<1> DEFINE m == Max(V)  rest == V \ {m}  c == Cardinality(V)
<1>4. m \in V /\ \A k \in V : k <= m
  BY <1>2, <1>3, LastMinuteExists
<1>5. Cardinality(rest) = c - 1 /\ c \in Nat \ {0}
  BY <1>2, <1>3, <1>4, FS_RemoveElement, FS_CardinalityType, FS_EmptySet
<1>6. sorts(rest)
  <2>1. rest \in SUBSET V /\ rest # V
    BY <1>4
  <2> HIDE DEF sorts, m
  <2> QED
    BY <1>1, <2>1
<1>7. PICK first \in [1 .. c - 1 -> rest] : Increasing(first)
  BY <1>5, <1>6
<1> DEFINE all == [i \in 1 .. c |-> IF i = c THEN m ELSE first[i]]
<1>8. \A i \in 1 .. c : i # c => i \in 1 .. c - 1 /\ first[i] \in V /\ first[i] # m
  <2> HIDE DEF m, c
  <2> QED
    BY <1>5, <1>7
<1>9. all \in [1 .. c -> V]
  BY <1>4, <1>8
<1>10. Increasing(all)
  <2> SUFFICES ASSUME NEW i \in 1 .. c, NEW j \in 1 .. c, i < j PROVE all[i] < all[j]
    BY DEF Increasing
  <2>1. V \subseteq Int
    BY <1>2 DEF Minutes
  <2>2. i # c /\ i \in Int /\ j \in Int
    BY <1>5
  <2>3. first[i] <= m /\ first[i] # m /\ first[i] \in Int /\ m \in Int
    BY <1>4, <1>8, <2>1, <2>2
  <2>4. CASE j = c
    <3> HIDE DEF m, c
    <3> QED
      BY <2>2, <2>3, <2>4
  <2>5. CASE j # c
    <3>1. i \in DOMAIN first /\ j \in DOMAIN first
      BY <1>7, <1>8, <2>2, <2>5
    <3>2. first[i] < first[j]
      BY <1>7, <3>1 DEF Increasing
    <3> QED
      BY <2>2, <2>5, <3>2
  <2> QED
    BY <2>4, <2>5
<1> QED
  BY <1>2, <1>9, <1>10

\* The rows of a query in order of time: each once, none twice.
LEMMA InOrderSorts ==
  ASSUME NEW S \in SUBSET Minutes
  PROVE  /\ InOrder(S) \in [1 .. Cardinality(S) -> S]
         /\ \A i, j \in 1 .. Cardinality(S) : InOrder(S)[i] < InOrder(S)[j] <=> i < j
         /\ \A i, j \in 1 .. Cardinality(S) : InOrder(S)[i] = InOrder(S)[j] => i = j
         /\ \A m \in S : \E i \in 1 .. Cardinality(S) : InOrder(S)[i] = m
         /\ Cardinality(S) \in Nat
<1> DEFINE c == Cardinality(S)  ordered == InOrder(S)
<1>1. ordered \in [1 .. c -> S] /\ Increasing(ordered)
  BY OrderExists DEF InOrder, Increasing
<1>2. IsFiniteSet(S) /\ c \in Nat
  BY MinutesFinite, FS_CardinalityType
<1>3. \A i, j \in 1 .. c : i < j => ordered[i] < ordered[j]
  <2> HIDE DEF ordered
  <2> QED
    BY <1>1 DEF Increasing
<1> HIDE DEF c, ordered
<1>4. \A i \in 1 .. c : ordered[i] \in Int /\ i \in Int
  <2> SUFFICES ASSUME NEW i \in 1 .. c PROVE ordered[i] \in Int /\ i \in Int
    OBVIOUS
  <2>1. ordered[i] \in S
    BY <1>1
  <2>2. ordered[i] \in Int
    BY <2>1, MinutesAreNumbers
  <2>3. i \in Int
    BY <1>2
  <2> QED
    BY <2>2, <2>3
<1>5. \A i, j \in 1 .. c : ordered[i] < ordered[j] <=> i < j
  <2> TAKE i, j \in 1 .. c
  <2>1. i < j \/ i = j \/ j < i
    BY <1>4
  <2> QED
    BY <1>3, <1>4, <2>1
<1>6. \A i, j \in 1 .. c : ordered[i] = ordered[j] => i = j
  <2> TAKE i, j \in 1 .. c
  <2>1. i < j \/ i = j \/ j < i
    BY <1>4
  <2> QED
    BY <1>3, <1>4, <2>1
<1>7. \A m \in S : \E i \in 1 .. c : ordered[i] = m
  <2>1. ordered \in Injection(1 .. c, S)
    BY <1>1, <1>6 DEF Injection, IsInjective
  <2>2. IsFiniteSet(1 .. c) /\ Cardinality(1 .. c) = c
    BY <1>2, FS_Interval
  <2>3. ordered \in Surjection(1 .. c, S)
    BY <1>2, <2>1, <2>2, FS_Injection DEF c
  <2> QED
    BY <2>3 DEF Surjection
<1> QED
  BY <1>1, <1>2, <1>5, <1>6, <1>7 DEF c, ordered

\* No counter shows less than nothing.
LEMMA DeltaNat == ASSUME NEW a \in Nat, NEW b \in Nat PROVE Delta(a, b) \in Nat
BY DEF Delta

\* The rows PostgreSQL reads are enough: before any minute of the window they
\* have the same last one as all that is kept.
LEMMA SameTraffic ==
  ASSUME TypeOK, NEW n \in Nodes, NEW from \in Minutes, NEW to \in Minutes, from <= to
  PROVE  MemoryTraffic(n, from, to) = PostgresTraffic(n, from, to)
<1> DEFINE seen == {m \in Kept(n) : m <= to}
           before == {m \in Kept(n) : m < from}
           rows == {m \in Kept(n) : from <= m /\ m <= to} \cup Prior(n, from)
           prior(m) == {k \in seen : k < m}
           rated == {m \in seen : m >= from /\ prior(m) # {}}
           ordered == InOrder(rows)
           c == Cardinality(rows)
           places == {j \in DOMAIN ordered : j > 1 /\ ordered[j] >= from}
           f == [m \in rated |-> Delta(samples[n][Max(prior(m))], samples[n][m])]
           g == [i \in places |-> Delta(samples[n][ordered[i - 1]], samples[n][ordered[i]])]
<1>1. /\ Kept(n) \subseteq Minutes /\ seen \subseteq Minutes /\ before \subseteq Minutes
      /\ \A m \in Kept(n) : samples[n][m] \in Nat
      /\ from \in Int /\ to \in Int /\ \A m \in Kept(n) : m \in Int
      /\ \A m \in seen : m \in Int
  BY MinutesAreNumbers DEF Kept, TypeOK
<1>2. rows \subseteq seen
  BY <1>1 DEF Prior
<1>3. /\ ordered \in [1 .. c -> rows] /\ c \in Nat
      /\ \A i, j \in 1 .. c : ordered[i] < ordered[j] <=> i < j
      /\ \A i, j \in 1 .. c : ordered[i] = ordered[j] => i = j
      /\ \A m \in rows : \E i \in 1 .. c : ordered[i] = m
  <2>1. rows \in SUBSET Minutes
    BY <1>1, <1>2
  <2> HIDE DEF rows
  <2> QED
    BY <2>1, InOrderSorts
<1>4. ASSUME NEW k \in seen PROVE \E b \in rows : k <= b /\ (k < from => b < from)
  <2>1. CASE k >= from
    BY <1>1, <2>1
  <2>2. CASE k < from
    <3>1. k \in before
      BY <2>2
    <3>2. Max(before) \in before /\ k <= Max(before)
      <4> HIDE DEF before
      <4> QED
        BY <1>1, <3>1, LastMinuteExists
    <3>3. Max(before) \in rows
      BY <3>2 DEF Prior
    <3> QED
      BY <3>2, <3>3
  <2> QED
    BY <1>1, <2>1, <2>2
<1>6. \A m \in seen : m >= from => m \in rows
  BY <1>1
<1>12. \A m \in Kept(n) : m \in seen <=> m <= to
  OBVIOUS
<1>13. DOMAIN ordered = 1 .. c
  BY <1>3
<1> HIDE DEF seen, before, rows, ordered, c
<1>7. ASSUME NEW i \in places
      PROVE  /\ i \in 1 .. c /\ i - 1 \in 1 .. c
             /\ ordered[i] \in rated /\ Max(prior(ordered[i])) = ordered[i - 1]
             /\ ordered[i - 1] \in seen
  <2>1. i \in 1 .. c /\ i > 1 /\ ordered[i] >= from
    BY <1>13
  <2>2. i - 1 \in 1 .. c /\ i - 1 < i /\ i \in Int
    BY <1>3, <2>1
  <2>3. ordered[i] \in rows /\ ordered[i - 1] \in rows /\ ordered[i - 1] < ordered[i]
    BY <1>3, <2>1, <2>2
  <2>4. ordered[i] \in seen /\ ordered[i - 1] \in prior(ordered[i])
    BY <1>2, <2>3
  <2>5. ASSUME NEW k \in prior(ordered[i]) PROVE k <= ordered[i - 1]
    <3>1. PICK b \in rows : k <= b /\ (k < from => b < from)
      BY <1>4
    <3>2. k \in Int /\ b \in Int /\ ordered[i] \in Int /\ ordered[i - 1] \in Int
      BY <1>1, <1>2, <2>3, <2>4
    <3>3. CASE k < from
      <4>1. b < ordered[i]
        BY <1>1, <2>1, <3>1, <3>2, <3>3
      <4>2. PICK l \in 1 .. c : ordered[l] = b
        BY <1>3
      <4>3. l < i
        BY <1>3, <2>1, <4>1, <4>2
      <4>4. l = i - 1 \/ l < i - 1
        BY <1>3, <2>2, <4>3
      <4>5. b = ordered[i - 1] \/ b < ordered[i - 1]
        BY <1>3, <2>2, <4>2, <4>4
      <4> QED
        BY <3>1, <3>2, <4>5
    <3>4. CASE ~(k < from)
      <4>1. k \in rows
        BY <1>1, <1>6, <3>2, <3>4
      <4>2. PICK l \in 1 .. c : ordered[l] = k
        BY <1>3, <4>1
      <4>3. l < i
        BY <1>3, <2>1, <4>2
      <4>4. l = i - 1 \/ l < i - 1
        BY <1>3, <2>2, <4>3
      <4>5. k = ordered[i - 1] \/ k < ordered[i - 1]
        BY <1>3, <2>2, <4>2, <4>4
      <4> QED
        BY <3>2, <4>5
    <3> QED
      BY <3>3, <3>4
  <2>6. prior(ordered[i]) \in SUBSET Minutes
    BY <1>1
  <2>7. Max(prior(ordered[i])) = ordered[i - 1]
    <3> HIDE DEF prior
    <3> QED
      BY <2>4, <2>5, <2>6, MaxIs
  <2> QED
    BY <1>2, <2>1, <2>2, <2>3, <2>4, <2>7
<1>8. ASSUME NEW m \in rated PROVE \E i \in places : ordered[i] = m
  <2>1. m \in rows /\ m \in Int /\ m >= from
    BY <1>1, <1>6
  <2>2. PICK i \in 1 .. c : ordered[i] = m
    BY <1>3, <2>1
  <2>3. PICK k \in seen : k < m
    OBVIOUS
  <2>4. PICK b \in rows : k <= b /\ (k < from => b < from)
    BY <1>4
  <2>5. k \in Int /\ b \in Int
    BY <1>1, <1>2, <2>4
  <2>6. \E d \in rows : d < m
    <3>1. CASE k < from
      BY <1>1, <2>1, <2>4, <2>5, <3>1
    <3>2. CASE ~(k < from)
      BY <1>1, <1>6, <2>3, <2>5, <3>2
    <3> QED
      BY <3>1, <3>2
  <2>7. PICK l \in 1 .. c : ordered[l] < m
    BY <1>3, <2>6
  <2>8. l < i
    BY <1>3, <2>2, <2>7
  <2>9. i > 1
    BY <1>3, <2>8
  <2> QED
    BY <1>13, <2>1, <2>2, <2>9
<1>9. \A i \in places : f[ordered[i]] = g[i] /\ g[i] \in Nat
  <2> TAKE i \in places
  <2>1. g[i] = Delta(samples[n][ordered[i - 1]], samples[n][ordered[i]])
    OBVIOUS
  <2>2. f[ordered[i]] = Delta(samples[n][ordered[i - 1]], samples[n][ordered[i]])
    BY <1>7
  <2>3. ordered[i] \in Kept(n) /\ ordered[i - 1] \in Kept(n)
    BY <1>7 DEF seen
  <2> QED
    BY <1>1, <2>1, <2>2, <2>3, DeltaNat
<1>10. SumFunctionOnSet(g, places) = SumFunctionOnSet(f, rated)
  <2> DEFINE name == [i \in places |-> ordered[i]]
  <2>1. name \in [places -> rated]
    BY <1>7
  <2>2. IsFiniteSet(rated) /\ IsFiniteSet(places)
    <3>1. rated \in SUBSET Minutes
      BY <1>1
    <3>2. places \in SUBSET (1 .. c)
      BY <1>13
    <3>3. IsFiniteSet(1 .. c)
      BY <1>3, FS_Interval
    <3> HIDE DEF places, rated
    <3> QED
      BY <3>1, <3>2, <3>3, MinutesFinite, FS_Subset
  <2>3. \A i, j \in places : name[i] = name[j] => i = j
    BY <1>3, <1>7
  <2>4. \A m \in rated : \E i \in places : name[i] = m
    BY <1>8
  <2>5. \A i \in places : g[i] \in Nat /\ g[i] = f[name[i]]
    BY <1>9
  <2> HIDE DEF places, rated, f, g, name
  <2> QED
    BY <2>1, <2>2, <2>3, <2>4, <2>5, SumRenamed
<1>11. SumFunction(f) = SumFunctionOnSet(f, rated) /\ SumFunction(g) = SumFunctionOnSet(g, places)
  BY DEF SumFunction
<1>14. /\ MemoryTraffic(n, from, to) = SumFunction(f)
       /\ PostgresTraffic(n, from, to) = SumFunction(g)
  BY DEF MemoryTraffic, PostgresTraffic, seen, rows, ordered
<1> QED
  BY <1>10, <1>11, <1>14

--------------------------------------------------------------------------------
\* Types, and with them the histories.

\* What stays of a sequence when one entry is taken out.
LEMMA RemoveAtFacts ==
  ASSUME NEW X, NEW s \in Seq(X), NEW i \in 1 .. Len(s)
  PROVE  /\ RemoveAt(s, i) \in Seq(X) /\ Len(RemoveAt(s, i)) = Len(s) - 1
         /\ \A j \in 1 .. Len(s) - 1 : RemoveAt(s, i)[j] = s[IF j < i THEN j ELSE j + 1]
<1> DEFINE a == SubSeq(s, 1, i - 1)  b == SubSeq(s, i + 1, Len(s))
<1>1. a \in Seq(X) /\ Len(a) = i - 1 /\ \A j \in 1 .. i - 1 : a[j] = s[j]
  OBVIOUS
<1>2. /\ b \in Seq(X) /\ Len(b) = Len(s) - i
      /\ \A j \in 1 .. Len(s) - i : b[j] = s[j + i]
  OBVIOUS
<1>3. RemoveAt(s, i) = a \o b
  BY DEF RemoveAt
<1> HIDE DEF a, b
<1>4. a \o b \in Seq(X) /\ Len(a \o b) = Len(s) - 1
  <2>1. Len(a \o b) = Len(a) + Len(b) /\ a \o b \in Seq(X)
    <3>1. a \in Seq(X) /\ b \in Seq(X)
      BY <1>1, <1>2
    <3> QED
      BY <3>1, ConcatProperties, Zenon
  <2>2. Len(a) = i - 1 /\ Len(b) = Len(s) - i /\ Len(s) \in Nat /\ i \in Nat
    BY <1>1, <1>2
  <2> QED
    BY <2>1, <2>2
<1>5. ASSUME NEW j \in 1 .. Len(s) - 1
      PROVE  (a \o b)[j] = s[IF j < i THEN j ELSE j + 1]
  <2>1. CASE j < i
    BY <1>1, <1>2, <2>1
  <2>2. CASE ~(j < i)
    <3>1. (a \o b)[j] = b[j - (i - 1)]
      BY <1>1, <1>2, <2>2
    <3>2. j - (i - 1) \in 1 .. Len(s) - i /\ j - (i - 1) + i = j + 1
      BY <2>2
    <3> QED
      BY <1>2, <2>2, <3>1, <3>2
  <2> QED
    BY <2>1, <2>2
<1> QED
  BY <1>3, <1>4, <1>5

\* A rule that is not reported counts nothing.
Amount(count) == IF count = None THEN 0 ELSE count

\* The bytes an agent reports in all are a number.
LEMMA TotalNat == ASSUME NEW c \in Counters PROVE Total(c) \in Nat
<1>1. IsFiniteSet(Reported(c)) /\ \A r \in Reported(c) : c[r] \in Nat
  BY TelemetryAssumption, FS_Subset DEF Reported, Counters
<1> QED
  BY <1>1, SumNat DEF Total

\* The total is one rule's counter, if it is reported, and the others'.
LEMMA TotalTakes ==
  ASSUME NEW c \in Counters, NEW r \in Rules
  PROVE  /\ Total(c) = Amount(c[r]) + SumFunctionOnSet(c, Reported(c) \ {r})
         /\ Amount(c[r]) \in Nat /\ SumFunctionOnSet(c, Reported(c) \ {r}) \in Nat
<1>1. IsFiniteSet(Reported(c)) /\ \A x \in Reported(c) : c[x] \in Nat
  BY TelemetryAssumption, FS_Subset DEF Reported, Counters
<1>2. Amount(c[r]) \in Nat
  BY TelemetryAssumption DEF Amount, Counters
<1>3. IsFiniteSet(Reported(c) \ {r}) /\ SumFunctionOnSet(c, Reported(c) \ {r}) \in Nat
  BY <1>1, FS_RemoveElement, SumNat
<1>4. CASE r \in Reported(c)
  <2>1. Amount(c[r]) = c[r]
    BY <1>4 DEF Amount, Reported
  <2>2. Total(c) = c[r] + SumFunctionOnSet(c, Reported(c) \ {r})
    BY <1>1, <1>4, SumTakes DEF Total
  <2> QED
    BY <1>2, <1>3, <2>1, <2>2
<1>5. CASE r \notin Reported(c)
  <2>1. Amount(c[r]) = 0 /\ Reported(c) \ {r} = Reported(c)
    BY <1>5 DEF Amount, Reported
  <2>2. Total(c) = SumFunctionOnSet(c, Reported(c) \ {r})
    BY <2>1 DEF Total
  <2> QED
    BY <1>2, <1>3, <2>1, <2>2
<1> QED
  BY <1>4, <1>5

\* Only the counter that is set changes the total.
LEMMA TotalSet ==
  ASSUME NEW c \in Counters, NEW r \in Rules, NEW x \in Nat \cup {None}
  PROVE  /\ [c EXCEPT ![r] = x] \in Counters
         /\ Total([c EXCEPT ![r] = x]) + Amount(c[r]) = Total(c) + Amount(x)
         /\ Amount(c[r]) <= Total(c)
<1> DEFINE d == [c EXCEPT ![r] = x]
           cs == SumFunctionOnSet(c, Reported(c) \ {r})
           ds == SumFunctionOnSet(d, Reported(d) \ {r})
<1>1. d \in Counters /\ d[r] = x /\ \A s \in Rules : s # r => d[s] = c[s]
  BY DEF Counters
<1>2. Reported(d) \ {r} = Reported(c) \ {r}
  BY <1>1 DEF Reported
<1> HIDE DEF d
<1>3. ds = cs
  <2>1. IsFiniteSet(Reported(c) \ {r})
    BY TelemetryAssumption, FS_Subset DEF Reported
  <2>2. \A s \in Reported(c) \ {r} : c[s] \in Nat /\ c[s] = d[s]
    BY <1>1 DEF Reported, Counters
  <2>3. SumFunctionOnSet(c, Reported(c) \ {r}) = SumFunctionOnSet(d, Reported(c) \ {r})
    BY <2>1, <2>2, SumEqual
  <2> QED
    BY <1>2, <2>3
<1>4. Total(c) = Amount(c[r]) + cs /\ Amount(c[r]) \in Nat /\ cs \in Nat
  BY TotalTakes
<1>5. Total(d) = Amount(x) + ds /\ Amount(x) \in Nat
  BY <1>1, TotalTakes
<1> HIDE DEF cs, ds
<1>6. Total(d) + Amount(c[r]) = Total(c) + Amount(x) /\ Amount(c[r]) <= Total(c)
  BY <1>3, <1>4, <1>5
<1> QED
  BY <1>1, <1>6 DEF d

\* Terms that are all zero add up to nothing.
LEMMA SumOfZeros ==
  ASSUME NEW f, NEW S, IsFiniteSet(S), \A x \in S : f[x] = 0
  PROVE  SumFunctionOnSet(f, S) = 0
<1> DEFINE bad == {V \in SUBSET S : SumFunctionOnSet(f, V) # 0}
<1> SUFFICES ASSUME bad # {} PROVE FALSE
  <2>1. S \in SUBSET S
    OBVIOUS
  <2> QED
    BY <2>1
<1>1. PICK V \in bad : \A W \in SUBSET V : W # V => W \notin bad
  <2> HIDE DEF bad
  <2>1. bad \subseteq SUBSET S
    BY DEF bad
  <2> QED
    BY <2>1, LeastExists
<1>2. V # {} /\ IsFiniteSet(V)
  BY SumOfNone, FS_Subset
<1> DEFINE rest == V \ {Some(V)}
<1>3. Some(V) \in V /\ rest \in SUBSET V /\ rest # V /\ rest \in SUBSET S
  BY <1>2, SomeIn
<1>4. SumFunctionOnSet(f, rest) = 0
  BY <1>1, <1>3
<1>5. SumFunctionOnSet(f, V) = f[Some(V)] + SumFunctionOnSet(f, rest)
  BY <1>2, SumTakesSome
<1>6. f[Some(V)] = 0
  BY <1>3
<1> QED
  BY <1>1, <1>4, <1>5, <1>6

\* Counters of a process that starts anew add up to nothing.
LEMMA TotalOfZeros ==
  ASSUME NEW c \in Counters, \A r \in Rules : c[r] \in {0, None}
  PROVE  Total(c) = 0
<1>1. IsFiniteSet(Reported(c)) /\ \A r \in Reported(c) : c[r] = 0
  BY TelemetryAssumption, FS_Subset DEF Reported
<1> QED
  BY <1>1, SumOfZeros DEF Total

\* The total a heartbeat brings.
Told(request) == Total(request.counters)

\* `left' are heartbeats of `sent', in the same order.
Left(sent, left, place) ==
  /\ place \in [DOMAIN left -> DOMAIN sent]
  /\ \A i, j \in DOMAIN left : i < j => place[i] < place[j]
  /\ \A j \in DOMAIN left :
       Told(left[j]) = Told(sent[place[j]]) /\ (~ left[j].late => ~ sent[place[j]].late)

\* Agents that run nothing and empty stores have the types of the state.
LEMMA InitiallyTyped == Init => TypeOK
<1> SUFFICES ASSUME Init PROVE TypeOK
  OBVIOUS
<1>1. scenario \in Scenario /\ scenario \in Scenarios
  BY TelemetryAssumption DEF Init
<1>2. ingress \in [Rules -> Nodes \cup {None}]
  BY <1>1 DEF Init, Scenario
<1>3. now \in Minutes
  BY TelemetryAssumption DEF Init, Minutes
<1>4. counters \in [Nodes -> Counters] /\ samples \in [Nodes -> [Minutes -> Nat \cup {None}]]
  BY DEF Init, Counters
<1>5. requests \in [Nodes -> Seq(Request)]
  <2>1. << >> \in Seq(Request)
    OBVIOUS
  <2> QED
    BY <2>1 DEF Init
<1>6. stat \in [Rules -> Stat] /\ row \in [Rules -> Row]
  BY DEF Init, NoStat, NoRow, Stat, Row
<1> QED
  BY <1>1, <1>2, <1>3, <1>4, <1>5, <1>6 DEF Init, TypeOK

\* What is left of the heartbeats of a node when one of them is served.
After(sent, i) == RemoveAt([j \in DOMAIN sent |-> IF j < i THEN Overtaken(sent[j]) ELSE sent[j]], i)

\* The places of the heartbeats that stay.
Skip(sent, i) == [j \in 1 .. Len(sent) - 1 |-> IF j < i THEN j ELSE j + 1]

\* A heartbeat that is overtaken still brings what it brought.
LEMMA OvertakenTold ==
  ASSUME NEW request \in Request
  PROVE  Overtaken(request) \in Request /\ Told(Overtaken(request)) = Told(request)
         /\ Overtaken(request).late = TRUE
BY DEF Overtaken, Request, Told

\* Taking a heartbeat out leaves the others in their order.
LEMMA RemovedLeft ==
  ASSUME NEW sent \in Seq(Request), NEW i \in DOMAIN sent
  PROVE  RemoveAt(sent, i) \in Seq(Request) /\ Left(sent, RemoveAt(sent, i), Skip(sent, i))
<1>1. i \in 1 .. Len(sent) /\ Len(sent) \in Nat /\ DOMAIN sent = 1 .. Len(sent)
  OBVIOUS
<1> DEFINE left == RemoveAt(sent, i)  place == Skip(sent, i)
<1>2. /\ left \in Seq(Request) /\ Len(left) = Len(sent) - 1
      /\ \A j \in 1 .. Len(sent) - 1 : left[j] = sent[IF j < i THEN j ELSE j + 1]
  BY <1>1, RemoveAtFacts
<1> HIDE DEF left
<1>3. DOMAIN left = 1 .. Len(sent) - 1
  BY <1>2
<1>4. place \in [DOMAIN left -> DOMAIN sent]
  BY <1>1, <1>3 DEF Skip
<1>5. \A j, k \in DOMAIN left : j < k => place[j] < place[k]
  BY <1>1, <1>3 DEF Skip
<1>6. \A j \in DOMAIN left : left[j] = sent[place[j]]
  BY <1>2, <1>3 DEF Skip
<1> HIDE DEF place
<1>7. Left(sent, left, place)
  BY <1>4, <1>5, <1>6 DEF Left
<1> QED
  BY <1>2, <1>7 DEF left, place

\* Of the heartbeats left when one is served, only those sent after it are not late.
LEMMA AfterLeft ==
  ASSUME NEW sent \in Seq(Request), NEW i \in DOMAIN sent
  PROVE  /\ After(sent, i) \in Seq(Request) /\ Left(sent, After(sent, i), Skip(sent, i))
         /\ \A j \in DOMAIN After(sent, i) : ~ After(sent, i)[j].late => Skip(sent, i)[j] > i
<1> DEFINE marked == [j \in DOMAIN sent |-> IF j < i THEN Overtaken(sent[j]) ELSE sent[j]]
           left == After(sent, i)  place == Skip(sent, i)
<1>1. i \in 1 .. Len(sent) /\ Len(sent) \in Nat /\ DOMAIN sent = 1 .. Len(sent)
  OBVIOUS
<1>2. marked \in Seq(Request) /\ Len(marked) = Len(sent)
  <2>1. \A j \in 1 .. Len(sent) : sent[j] \in Request /\ marked[j] \in Request
    <3> TAKE j \in 1 .. Len(sent)
    <3>1. sent[j] \in Request
      OBVIOUS
    <3>2. Overtaken(sent[j]) \in Request
      BY <3>1, OvertakenTold
    <3> QED
      BY <1>1, <3>1, <3>2
  <2> HIDE DEF marked
  <2>2. DOMAIN marked = 1 .. Len(sent)
    BY <1>1 DEF marked
  <2> QED
    BY <1>1, <2>1, <2>2 DEF marked
<1>3. \A j \in 1 .. Len(sent) :
        /\ Told(marked[j]) = Told(sent[j])
        /\ ~ marked[j].late => ~ sent[j].late /\ ~(j < i)
  <2> TAKE j \in 1 .. Len(sent)
  <2>1. CASE j < i
    <3>1. marked[j] = Overtaken(sent[j]) /\ sent[j] \in Request
      BY <2>1
    <3> HIDE DEF marked
    <3> QED
      BY <3>1, OvertakenTold
  <2>2. CASE ~(j < i)
    BY <2>2
  <2> QED
    BY <2>1, <2>2
<1>4. left = RemoveAt(marked, i)
  BY DEF After
<1> HIDE DEF marked, left
<1>5. /\ left \in Seq(Request) /\ Len(left) = Len(sent) - 1
      /\ \A j \in 1 .. Len(sent) - 1 : left[j] = marked[IF j < i THEN j ELSE j + 1]
  BY <1>1, <1>2, <1>4, RemoveAtFacts
<1>6. DOMAIN left = 1 .. Len(sent) - 1
  BY <1>5
<1>7. place \in [DOMAIN left -> DOMAIN sent]
  BY <1>1, <1>6 DEF Skip
<1>8. \A j, k \in DOMAIN left : j < k => place[j] < place[k]
  BY <1>1, <1>6 DEF Skip
<1>9. \A j \in DOMAIN left : left[j] = marked[place[j]] /\ place[j] # i
  BY <1>1, <1>5, <1>6 DEF Skip
<1>10. \A j \in DOMAIN left : /\ Told(left[j]) = Told(sent[place[j]])
                              /\ ~ left[j].late => ~ sent[place[j]].late /\ place[j] > i
  <2> HIDE DEF place
  <2> TAKE j \in DOMAIN left
  <2>1. place[j] \in 1 .. Len(sent) /\ place[j] # i /\ left[j] = marked[place[j]]
    BY <1>1, <1>7, <1>9
  <2>2. /\ Told(marked[place[j]]) = Told(sent[place[j]])
        /\ ~ marked[place[j]].late => ~ sent[place[j]].late /\ ~(place[j] < i)
    BY <1>3, <2>1
  <2> QED
    BY <1>1, <2>1, <2>2
<1> HIDE DEF place
<1>11. Left(sent, left, place)
  BY <1>7, <1>8, <1>10 DEF Left
<1> QED
  BY <1>5, <1>10, <1>11 DEF left, place

\* What a heartbeat leaves in the stores has their types.
LEMMA ServedTyped ==
  ASSUME TypeOK, NEW n \in Nodes, NEW i \in DOMAIN requests[n], ServeHeartbeat(n, i)
  PROVE  TypeOK'
<1> DEFINE request == requests[n][i]
<1>1. request \in Request /\ request.counters \in Counters /\ n # None
  <2>1. requests[n] \in Seq(Request)
    BY DEF TypeOK
  <2>2. request \in Request
    BY <2>1
  <2> QED
    BY <2>2, TelemetryAssumption DEF Request
<1>2. Total(request.counters) \in Nat
  BY <1>1, TotalNat
<1>3. /\ samples' = Sampled(n, Total(request.counters)) /\ stat' = MemoryStats(n, request)
      /\ row' = PostgresRows(n, request)
      /\ requests' = [requests EXCEPT ![n] = After(requests[n], i)]
      /\ recounts' = [recounts EXCEPT ![n] = @ + IF request.late THEN 1 ELSE 0]
      /\ UNCHANGED <<scenario, now, ingress, counters, forwarded, moved>>
  BY DEF ServeHeartbeat, After
<1> HIDE DEF request
<1>4. samples' \in [Nodes -> [Minutes -> Nat \cup {None}]]
  BY <1>2, <1>3 DEF Sampled, TypeOK
<1>5. \A r \in Reported(request.counters) : request.counters[r] \in Nat
  BY <1>1 DEF Reported, Counters
<1>6. stat' \in [Rules -> Stat]
  <2>1. \A r \in Rules : stat[r] \in Stat
    BY DEF TypeOK
  <2> QED
    BY <1>3, <1>5, <2>1 DEF MemoryStats, Stat
<1>7. row' \in [Rules -> Row]
  <2>1. \A r \in Rules : row[r] \in Row
    BY DEF TypeOK
  <2> QED
    BY <1>3, <1>5, <2>1 DEF PostgresRows, Row
<1>8. requests' \in [Nodes -> Seq(Request)]
  <2>1. After(requests[n], i) \in Seq(Request)
    BY AfterLeft DEF TypeOK
  <2> QED
    BY <1>3, <2>1 DEF TypeOK
<1>9. recounts' \in [Nodes -> Nat]
  BY <1>3 DEF TypeOK
<1> QED
  BY <1>3, <1>4, <1>6, <1>7, <1>8, <1>9 DEF TypeOK

\* Each action keeps the types of the state.
LEMMA StepTyped == TypeOK /\ [Next]_vars => TypeOK'
<1> SUFFICES ASSUME TypeOK, [Next]_vars PROVE TypeOK'
  OBVIOUS
<1>1. ASSUME NEW n \in Nodes, NEW r \in Rules, Start(n, r) \/ Stop(n, r) \/ Transfer(n, r)
      PROVE  TypeOK'
  <2>1. counters[n] \in Counters /\ counters[n][r] \in Nat \cup {None}
    BY DEF TypeOK, Counters
  <2>2. /\ UNCHANGED <<scenario, now, ingress, requests, moved>> /\ UNCHANGED storeVars
        /\ \E x \in Nat \cup {None} : counters' = [counters EXCEPT ![n][r] = x]
    <3>1. CASE Start(n, r)
      BY <3>1 DEF Start
    <3>2. CASE Stop(n, r)
      BY <3>2 DEF Stop
    <3>3. CASE Transfer(n, r)
      <4>1. counters[n][r] + 1 \in Nat
        BY <2>1, <3>3 DEF Transfer, Reported
      <4>2. counters' = [counters EXCEPT ![n][r] = counters[n][r] + 1]
        BY <3>3 DEF Transfer
      <4> QED
        BY <3>3, <4>1, <4>2 DEF Transfer
    <3> QED
      BY <1>1, <3>1, <3>2, <3>3
  <2>3. counters' \in [Nodes -> Counters]
    BY <2>1, <2>2 DEF TypeOK, Counters
  <2>4. forwarded' \in [Nodes -> Nat] /\ recounts' \in [Nodes -> Nat]
    <3>1. CASE Start(n, r)
      BY <3>1 DEF Start, TypeOK
    <3>2. CASE Stop(n, r)
      BY <3>2 DEF Stop, TypeOK
    <3>3. CASE Transfer(n, r)
      BY <3>3 DEF Transfer, TypeOK
    <3> QED
      BY <1>1, <3>1, <3>2, <3>3
  <2> QED
    BY <2>2, <2>3, <2>4 DEF TypeOK, storeVars
<1>2. ASSUME NEW n \in Nodes, NEW r \in Rules, MoveRule(r, n) PROVE TypeOK'
  BY <1>2 DEF MoveRule, TypeOK, agentVars, storeVars
<1>3. ASSUME NEW n \in Nodes, Restart(n) PROVE TypeOK'
  <2>1. counters' \in [Nodes -> Counters]
    <3>1. [r \in Rules |-> IF counters[n][r] = None THEN None ELSE 0] \in Counters
      BY DEF Counters
    <3> QED
      BY <1>3, <3>1 DEF Restart, TypeOK
  <2> QED
    BY <1>3, <2>1 DEF Restart, TypeOK, storeVars
<1>4. ASSUME NEW n \in Nodes, NEW active \in SUBSET Rules, SendHeartbeat(n, active) PROVE TypeOK'
  <2>1. [counters |-> counters[n], active |-> active, late |-> FALSE] \in Request
    BY DEF TypeOK, Request
  <2>2. requests' \in [Nodes -> Seq(Request)]
    BY <1>4, <2>1 DEF SendHeartbeat, TypeOK
  <2> QED
    BY <1>4, <2>2 DEF SendHeartbeat, TypeOK, storeVars
<1>5. ASSUME NEW n \in Nodes, NEW i \in DOMAIN requests[n], Lose(n, i) PROVE TypeOK'
  <2>1. RemoveAt(requests[n], i) \in Seq(Request)
    BY RemovedLeft DEF TypeOK
  <2>2. requests' \in [Nodes -> Seq(Request)]
    BY <1>5, <2>1 DEF Lose, TypeOK
  <2> QED
    BY <1>5, <2>2 DEF Lose, TypeOK, storeVars
<1>6. ASSUME NEW r \in Rules, DeleteRule(r) PROVE TypeOK'
  <2>1. NoStat \in Stat /\ NoRow \in Row
    BY DEF NoStat, NoRow, Stat, Row
  <2> QED
    BY <1>6, <2>1 DEF DeleteRule, TypeOK, agentVars
<1>7. ASSUME Tick PROVE TypeOK'
  <2>1. scenario.minutes \in Minutes
    BY TelemetryAssumption DEF TypeOK, Scenario
  <2>2. now' \in Minutes
    BY <1>7, <2>1, MinutesAreNumbers DEF Tick, TypeOK, Minutes
  <2> QED
    BY <1>7, <2>2 DEF Tick, TypeOK, agentVars, storeVars
<1>8. ASSUME UNCHANGED vars PROVE TypeOK'
  BY <1>8 DEF TypeOK, vars
<1> QED
  BY <1>1, <1>2, <1>3, <1>4, <1>5, <1>6, <1>7, <1>8, ServedTyped DEF Next

\* Counters, heartbeats, samples and statistics keep their types: a counter is
\* never negative, and a sample is never anything but a total that was reported.
THEOREM TypeCorrect == Spec => []TypeOK
BY InitiallyTyped, StepTyped, PTL DEF Spec

\* The dashboard shows the same traffic of a node whichever store serves it: in any
\* window, over samples that are missing or were deleted, what memory.go reads from
\* all samples before the window is what the prior row of postgres.go gives.
THEOREM HistoriesAlwaysAgree == Spec => []HistoriesAgree
<1>1. TypeOK => HistoriesAgree
  <2> SUFFICES ASSUME TypeOK, NEW n \in Nodes, NEW window \in Windows
               PROVE  MemoryTraffic(n, window[1], window[2])
                        = PostgresTraffic(n, window[1], window[2])
    BY DEF HistoriesAgree
  <2> QED
    BY SameTraffic DEF Windows
<1> QED
  BY <1>1, TypeCorrect, PTL

--------------------------------------------------------------------------------
\* What a history shows: the samples of a node, one minute after another.

\* For the samples of one node: the minutes that have one, those before a minute,
\* those that have one before them, what each shows, and what all show.
KeptOf(kept) == {m \in Minutes : kept[m] # None}
EarlierOf(kept, m) == {k \in KeptOf(kept) : k < m}
RatedOf(kept) == {m \in KeptOf(kept) : EarlierOf(kept, m) # {}}
RateOf(kept) ==
  [m \in RatedOf(kept) |-> Delta(kept[Max(EarlierOf(kept, m))], kept[m])]
Traffic(kept) == SumFunctionOnSet(RateOf(kept), RatedOf(kept))
Newest(kept) == IF KeptOf(kept) = {} THEN None ELSE kept[Max(KeptOf(kept))]
Gain(previous, current) == IF previous = None THEN 0 ELSE Delta(previous, current)

Samples == [Minutes -> Nat \cup {None}]

\* The history of all minutes adds up the rates of all samples.
LEMMA TrafficOfAll ==
  ASSUME TypeOK, NEW n \in Nodes
  PROVE  MemoryTraffic(n, 0, LastMinute) = Traffic(samples[n])
<1> DEFINE kept == samples[n]
           seen == {m \in Kept(n) : m <= LastMinute}
           prior(m) == {k \in seen : k < m}
<1>1. seen = KeptOf(kept)
  BY MinutesAreNumbers DEF Kept, KeptOf, Minutes
<1>2. {t \in seen : t >= 0 /\ prior(t) # {}} = RatedOf(kept)
  BY <1>1, MinutesAreNumbers DEF RatedOf, EarlierOf, KeptOf, Minutes
<1>3. \A m : prior(m) = EarlierOf(kept, m)
  BY <1>1 DEF EarlierOf
<1>4. [m \in {t \in seen : t >= 0 /\ prior(t) # {}} |->
         Delta(samples[n][Max(prior(m))], samples[n][m])] = RateOf(kept)
  <2> HIDE DEF prior, seen
  <2> QED
    BY <1>2, <1>3 DEF RateOf
<1>5. MemoryTraffic(n, 0, LastMinute) = SumFunction(RateOf(kept))
  BY <1>4 DEF MemoryTraffic
<1> QED
  BY <1>5 DEF SumFunction, Traffic, RateOf

\* Each rate is that of two neighbouring samples.
LEMMA RatesAreOfNeighbours ==
  ASSUME NEW kept \in Samples, NEW m \in RatedOf(kept)
  PROVE  /\ Max(EarlierOf(kept, m)) \in KeptOf(kept) /\ Max(EarlierOf(kept, m)) < m
         /\ \A k \in KeptOf(kept) : k < m => k <= Max(EarlierOf(kept, m))
         /\ kept[m] \in Nat /\ kept[Max(EarlierOf(kept, m))] \in Nat
         /\ RateOf(kept)[m] \in Nat
<1>1. EarlierOf(kept, m) \in SUBSET Minutes /\ EarlierOf(kept, m) # {}
  BY DEF EarlierOf, KeptOf, RatedOf
<1>2. /\ Max(EarlierOf(kept, m)) \in EarlierOf(kept, m)
      /\ \A k \in EarlierOf(kept, m) : k <= Max(EarlierOf(kept, m))
  BY <1>1, LastMinuteExists
<1>3. kept[m] \in Nat /\ kept[Max(EarlierOf(kept, m))] \in Nat
  BY <1>2 DEF EarlierOf, KeptOf, RatedOf, Samples
<1>4. RateOf(kept)[m] \in Nat
  BY <1>3, DeltaNat DEF RateOf
<1> QED
  BY <1>2, <1>3, <1>4 DEF EarlierOf

\* What the samples of a node show is a number, however many there are.
LEMMA TrafficNat ==
  ASSUME NEW kept \in Samples
  PROVE  Traffic(kept) \in Nat /\ IsFiniteSet(RatedOf(kept))
<1>1. RatedOf(kept) \in SUBSET Minutes
  BY DEF RatedOf, KeptOf
<1>2. \A m \in RatedOf(kept) : RateOf(kept)[m] \in Nat
  BY RatesAreOfNeighbours
<1> QED
  BY <1>1, <1>2, MinutesFinite, SumNat DEF Traffic

\* The newest sample is that of the last minute, if there is any.
LEMMA NewestIs ==
  ASSUME NEW kept \in Samples
  PROVE  /\ Newest(kept) \in Nat \cup {None}
         /\ KeptOf(kept) = {} => Newest(kept) = None
         /\ KeptOf(kept) # {} => /\ Max(KeptOf(kept)) \in KeptOf(kept)
                                 /\ Newest(kept) = kept[Max(KeptOf(kept))]
                                 /\ Newest(kept) \in Nat
                                 /\ \A k \in KeptOf(kept) : k <= Max(KeptOf(kept))
<1>1. KeptOf(kept) \in SUBSET Minutes
  BY DEF KeptOf
<1> QED
  BY <1>1, LastMinuteExists DEF Newest, KeptOf, Samples

\* Deleting the oldest samples shows no more traffic than before.
LEMMA ExpiryShowsLess ==
  ASSUME NEW kept \in Samples, NEW left \in Samples, NEW cut \in Int,
         \A m \in Minutes : left[m] = IF m < cut THEN None ELSE kept[m]
  PROVE  /\ Traffic(left) <= Traffic(kept)
         /\ Newest(left) \in {Newest(kept), None}
         /\ KeptOf(left) \subseteq KeptOf(kept)
<1>1. /\ KeptOf(left) = {m \in KeptOf(kept) : ~(m < cut)}
      /\ KeptOf(left) \subseteq Minutes /\ KeptOf(kept) \subseteq Minutes
  BY DEF KeptOf
<1>2. ASSUME NEW m \in RatedOf(left)
      PROVE  m \in RatedOf(kept) /\ RateOf(left)[m] = RateOf(kept)[m]
  <2> DEFINE p == Max(EarlierOf(left, m))
  <2>1. /\ p \in KeptOf(left) /\ p < m /\ m \in KeptOf(left) /\ p \in KeptOf(kept)
        /\ \A k \in KeptOf(left) : k < m => k <= p
    BY <1>1, RatesAreOfNeighbours DEF RatedOf
  <2>2. m \in RatedOf(kept)
    BY <1>1, <2>1 DEF RatedOf, EarlierOf
  <2>3. ASSUME NEW k \in EarlierOf(kept, m) PROVE k <= p
    <3>1. k \in KeptOf(kept) /\ k < m /\ k \in Int /\ p \in Int /\ ~(p < cut)
      BY <1>1, <2>1, <2>3, MinutesAreNumbers DEF EarlierOf
    <3>2. CASE k < cut
      BY <3>1, <3>2
    <3>3. CASE ~(k < cut)
      BY <1>1, <2>1, <3>1, <3>3
    <3> QED
      BY <3>2, <3>3
  <2>4. EarlierOf(kept, m) \in SUBSET Minutes /\ p \in EarlierOf(kept, m)
    BY <1>1, <2>1 DEF EarlierOf
  <2>5. Max(EarlierOf(kept, m)) = p
    <3> HIDE DEF p
    <3> QED
      BY <2>3, <2>4, MaxIs
  <2>6. left[m] = kept[m] /\ left[p] = kept[p]
    <3> HIDE DEF p
    <3> QED
      BY <1>1, <2>1
  <2> QED
    BY <2>2, <2>5, <2>6 DEF RateOf
<1>3. Traffic(left) <= Traffic(kept)
  <2>1. RatedOf(left) \subseteq RatedOf(kept)
    BY <1>2
  <2>2. \A m \in RatedOf(left) : RateOf(left)[m] \in Nat /\ RateOf(left)[m] <= RateOf(kept)[m]
    BY <1>2, RatesAreOfNeighbours
  <2>3. \A m \in RatedOf(kept) : RateOf(kept)[m] \in Nat
    BY RatesAreOfNeighbours
  <2> QED
    BY <2>1, <2>2, <2>3, TrafficNat, SumAtMost DEF Traffic
<1>4. ASSUME KeptOf(left) # {} PROVE Newest(left) = Newest(kept)
  <2> DEFINE m == Max(KeptOf(left))
  <2>1. m \in KeptOf(left) /\ m \in KeptOf(kept) /\ \A k \in KeptOf(left) : k <= m
    BY <1>1, <1>4, NewestIs
  <2>2. ASSUME NEW k \in KeptOf(kept) PROVE k <= m
    <3>1. k \in Int /\ m \in Int /\ ~(m < cut)
      BY <1>1, <2>1, MinutesAreNumbers
    <3>2. CASE k < cut
      BY <3>1, <3>2
    <3>3. CASE ~(k < cut)
      BY <1>1, <2>1, <3>3
    <3> QED
      BY <3>2, <3>3
  <2>3. Max(KeptOf(kept)) = m
    <3> HIDE DEF m
    <3> QED
      BY <1>1, <2>1, <2>2, MaxIs
  <2>4. left[m] = kept[m]
    <3> HIDE DEF m
    <3> QED
      BY <1>1, <2>1
  <2> QED
    BY <1>4, <2>1, <2>3, <2>4 DEF Newest
<1>5. Newest(left) \in {Newest(kept), None}
  BY <1>4, NewestIs
<1> QED
  BY <1>1, <1>3, <1>5

\* What one counter shows after another never exceeds what it shows by way of a third.
LEMMA DeltaFacts ==
  ASSUME NEW a \in Nat, NEW b \in Nat, NEW c \in Nat
  PROVE  Delta(a, c) <= Delta(a, b) + Delta(b, c) /\ Delta(a, b) <= b /\ Delta(a, a) = 0
BY DEF Delta

\* The sample of the last minute adds what its counter shows after the newest one.
LEMMA SampleShows ==
  ASSUME NEW kept \in Samples, NEW k \in Minutes, NEW x \in Nat, \A m \in KeptOf(kept) : m <= k
  PROVE  LET more == [kept EXCEPT ![k] = x] IN
           /\ Traffic(more) <= Traffic(kept) + Gain(Newest(kept), x)
           /\ Newest(more) = x
           /\ more \in Samples
           /\ \A m \in KeptOf(more) : m <= k
<1> DEFINE more == [kept EXCEPT ![k] = x]
<1>1. /\ more \in Samples /\ more[k] = x /\ \A m \in Minutes : m # k => more[m] = kept[m]
      /\ KeptOf(more) = KeptOf(kept) \cup {k}
      /\ KeptOf(more) \subseteq Minutes /\ KeptOf(kept) \subseteq Minutes /\ k \in Int
      /\ \A m \in KeptOf(more) : m <= k
      /\ \A m \in Minutes : m \in Int
  BY TelemetryAssumption, MinutesAreNumbers DEF KeptOf, Samples
<1> HIDE DEF more
<1>2. Newest(more) = x
  <2>1. Max(KeptOf(more)) = k /\ KeptOf(more) # {}
    BY <1>1, MaxIs
  <2> QED
    BY <1>1, <2>1, NewestIs
<1>3. ASSUME NEW m \in KeptOf(more) PROVE EarlierOf(more, m) = EarlierOf(kept, m)
  <2>1. m <= k /\ m \in Int
    BY <1>1
  <2>2. ~(k < m)
    BY <1>1, <2>1
  <2> QED
    BY <1>1, <2>2 DEF EarlierOf
<1> DEFINE rest == RatedOf(kept) \ {k}
<1>4. RatedOf(more) \ {k} = rest
  BY <1>1, <1>3 DEF RatedOf
<1>5. ASSUME NEW m \in rest PROVE RateOf(more)[m] = RateOf(kept)[m] /\ RateOf(kept)[m] \in Nat
  <2> DEFINE p == Max(EarlierOf(kept, m))
  <2>1. m \in RatedOf(more) /\ m \in RatedOf(kept) /\ m # k /\ m \in KeptOf(more)
    BY <1>4, <1>5 DEF RatedOf
  <2>2. p \in KeptOf(kept) /\ p < m
    BY <2>1, RatesAreOfNeighbours
  <2>3. p # k /\ p \in Minutes
    <3> HIDE DEF p
    <3>1. p \in Minutes /\ m \in Minutes /\ m <= k
      BY <1>1, <2>1, <2>2
    <3>2. p \in Int /\ m \in Int /\ k \in Int
      BY <1>1, <3>1
    <3> QED
      BY <2>2, <3>1, <3>2
  <2>4. more[p] = kept[p] /\ more[m] = kept[m]
    <3> HIDE DEF p
    <3> QED
      BY <1>1, <2>1, <2>3
  <2> QED
    BY <1>3, <2>1, <2>4, RatesAreOfNeighbours DEF RateOf
<1> DEFINE others == SumFunctionOnSet(RateOf(kept), rest)
<1>6. others \in Nat /\ SumFunctionOnSet(RateOf(more), rest) = others
  <2>1. IsFiniteSet(rest)
    BY TrafficNat, FS_RemoveElement
  <2> HIDE DEF rest
  <2> QED
    BY <1>5, <2>1, SumNat, SumEqual
<1>7. Traffic(more) = IF k \in RatedOf(more) THEN RateOf(more)[k] + others ELSE others
  <2>1. CASE k \in RatedOf(more)
    <3>1. Traffic(more) = RateOf(more)[k] + SumFunctionOnSet(RateOf(more), RatedOf(more) \ {k})
      <4>1. \A m \in RatedOf(more) : RateOf(more)[m] \in Nat
        BY <1>1, RatesAreOfNeighbours
      <4>2. IsFiniteSet(RatedOf(more))
        BY <1>1, TrafficNat
      <4> QED
        BY <2>1, <4>1, <4>2, SumTakes DEF Traffic
    <3> QED
      BY <1>4, <1>6, <2>1, <3>1
  <2>2. CASE k \notin RatedOf(more)
    <3>1. RatedOf(more) = rest
      BY <1>4, <2>2
    <3> QED
      BY <1>6, <2>2, <3>1 DEF Traffic
  <2> QED
    BY <2>1, <2>2
<1>8. Traffic(kept) = IF k \in RatedOf(kept) THEN RateOf(kept)[k] + others ELSE others
  <2>1. CASE k \in RatedOf(kept)
    BY <2>1, TrafficNat, SumTakes, RatesAreOfNeighbours DEF Traffic
  <2>2. CASE k \notin RatedOf(kept)
    <3>1. RatedOf(kept) = rest
      BY <2>2
    <3> QED
      BY <2>2, <3>1 DEF Traffic
  <2> QED
    BY <2>1, <2>2
<1>9. Newest(kept) \in Nat \cup {None} /\ Traffic(kept) \in Nat /\ Gain(Newest(kept), x) \in Nat
  BY NewestIs, TrafficNat, DeltaNat DEF Gain
<1>10. CASE k \notin RatedOf(more)
  <2>1. Traffic(more) = others /\ others <= Traffic(kept)
    <3>1. k \notin RatedOf(kept)
      BY <1>1, <1>3, <1>10 DEF RatedOf
    <3> QED
      BY <1>6, <1>7, <1>8, <1>10, <3>1
  <2> HIDE DEF others
  <2>2. Traffic(more) <= Traffic(kept) + Gain(Newest(kept), x)
    BY <1>6, <1>9, <2>1
  <2> QED
    BY <1>1, <1>2, <2>2 DEF more
<1>11. CASE k \in RatedOf(more)
  <2> DEFINE p == Max(EarlierOf(kept, k))
  <2>1. /\ p \in KeptOf(more) /\ p < k /\ more[p] \in Nat
        /\ \A j \in KeptOf(more) : j < k => j <= p
    BY <1>1, <1>3, <1>11, RatesAreOfNeighbours
  <2>2. p # k /\ p \in Minutes /\ p \in KeptOf(kept) /\ more[p] = kept[p] /\ kept[p] \in Nat
    <3> HIDE DEF p
    <3>1. p \in Minutes
      BY <1>1, <2>1
    <3>2. p # k
      BY <1>1, <2>1, <3>1
    <3>3. p \in KeptOf(kept)
      BY <1>1, <2>1, <3>2
    <3> QED
      BY <1>1, <2>1, <3>1, <3>2, <3>3
  <2>3. RateOf(more)[k] = Delta(kept[p], x)
    BY <1>1, <1>3, <1>11, <2>2 DEF RateOf
  <2>4. CASE k \in KeptOf(kept)
    <3>1. k \in RatedOf(kept)
      BY <1>3, <1>11, <2>4 DEF RatedOf
    <3>2. RateOf(kept)[k] = Delta(kept[p], kept[k]) /\ kept[k] \in Nat
      BY <3>1, RatesAreOfNeighbours DEF RateOf
    <3>3. Newest(kept) = kept[k]
      <4>1. Max(KeptOf(kept)) = k
        BY <1>1, <2>4, MaxIs
      <4> QED
        BY <2>4, <4>1, NewestIs
    <3>4. Gain(Newest(kept), x) = Delta(kept[k], x)
      BY <3>2, <3>3, TelemetryAssumption DEF Gain
    <3> HIDE DEF p, others
    <3>5. Delta(kept[p], x) <= Delta(kept[p], kept[k]) + Delta(kept[k], x)
      BY <2>2, <3>2, DeltaFacts
    <3>6. /\ Delta(kept[p], x) \in Nat /\ Delta(kept[p], kept[k]) \in Nat
          /\ Delta(kept[k], x) \in Nat
      BY <2>2, <3>2, DeltaNat
    <3>7. Traffic(more) = Delta(kept[p], x) + others
      BY <1>7, <1>11, <2>3
    <3>8. Traffic(kept) = Delta(kept[p], kept[k]) + others
      BY <1>8, <3>1, <3>2
    <3>9. Traffic(more) <= Traffic(kept) + Gain(Newest(kept), x)
      BY <1>6, <3>4, <3>5, <3>6, <3>7, <3>8
    <3> QED
      BY <1>1, <1>2, <3>9 DEF more
  <2>5. CASE k \notin KeptOf(kept)
    <3>1. k \notin RatedOf(kept)
      BY <2>5 DEF RatedOf
    <3>2. Newest(kept) = kept[p]
      <4>1. \A j \in KeptOf(kept) : j <= p
        <5> HIDE DEF p
        <5> TAKE j \in KeptOf(kept)
        <5>1. j # k /\ j <= k /\ j \in Int /\ j \in KeptOf(more)
          BY <1>1, <2>5
        <5>2. j < k
          BY <1>1, <5>1
        <5> QED
          BY <2>1, <5>1, <5>2
      <4>2. Max(KeptOf(kept)) = p
        <5> HIDE DEF p
        <5> QED
          BY <1>1, <2>2, <4>1, MaxIs
      <4> QED
        BY <2>2, <4>2, NewestIs
    <3>3. Gain(Newest(kept), x) = Delta(kept[p], x)
      BY <2>2, <3>2, TelemetryAssumption DEF Gain
    <3> HIDE DEF p, others
    <3>4. Traffic(more) = Delta(kept[p], x) + others /\ Traffic(kept) = others
      BY <1>7, <1>8, <1>11, <2>3, <3>1
    <3>5. Traffic(more) <= Traffic(kept) + Gain(Newest(kept), x)
      BY <1>6, <1>9, <3>3, <3>4
    <3> QED
      BY <1>1, <1>2, <3>5 DEF more
  <2> QED
    BY <1>1, <2>1, <2>4, <2>5
<1> QED
  BY <1>10, <1>11

--------------------------------------------------------------------------------
\* What is still due to be shown: heartbeats under way and the agent's counters.

\* `due' bounds what the history will show once it has taken up a heartbeat: what is
\* shown now and what the heartbeat adds to the newest sample, what each later one
\* adds to it, and what the agent's counters add at last, within `bound'.  Overtaken
\* heartbeats are left out: serving one counts as a reset.
Fits(sent, due, shown, newest, held, bound) ==
  /\ shown + Gain(newest, held) <= bound
  /\ \A i \in DOMAIN sent : ~ sent[i].late =>
       /\ shown + Gain(newest, Told(sent[i])) <= due[i]
       /\ due[i] + Delta(Told(sent[i]), held) <= bound
  /\ \A i, j \in DOMAIN sent : i < j /\ ~ sent[i].late /\ ~ sent[j].late =>
       due[i] + Delta(Told(sent[i]), Told(sent[j])) <= due[j]

Fitting(sent, shown, newest, held, bound) ==
  \E due \in [DOMAIN sent -> 0 .. bound] : Fits(sent, due, shown, newest, held, bound)

\* What a counter shows after another: at most its value, at most one more for a
\* byte more, and no more than by way of a third counter.
LEMMA GainFacts ==
  ASSUME NEW last \in Nat \cup {None}, NEW a \in Nat, NEW b \in Nat
  PROVE  /\ Gain(last, a) \in Nat /\ Gain(last, a) <= a
         /\ Gain(last, a + 1) \in Nat /\ Gain(last, a + 1) <= Gain(last, a) + 1
         /\ Gain(last, b) <= Gain(last, a) + Delta(a, b)
         /\ Gain(a, b) = Delta(a, b) /\ Delta(a, b) \in Nat /\ Delta(a, b) <= b
         /\ Delta(a, b + 1) \in Nat /\ Delta(a, b + 1) <= Delta(a, b) + 1
BY TelemetryAssumption DEF Gain, Delta

\* Going back to an older counter and on from there shows at most `most' more.
LEMMA OvertakenGains ==
  ASSUME NEW last \in Nat \cup {None}, NEW q \in Nat, NEW x \in Nat, NEW most \in Nat,
         q <= most, x <= most
  PROVE  Gain(last, q) + Delta(q, x) <= Gain(last, x) + most
BY TelemetryAssumption DEF Gain, Delta

\* The total of a heartbeat is a number.
LEMMA ToldNat == ASSUME NEW request \in Request PROVE Told(request) \in Nat
BY TotalNat DEF Told, Request

\* One byte more is held, and at least one more is due.
LEMMA FitsTransfer ==
  ASSUME NEW sent \in Seq(Request), NEW shown \in Nat, NEW newest \in Nat \cup {None},
         NEW held \in Nat, NEW bound \in Nat, Fitting(sent, shown, newest, held, bound),
         NEW more \in Nat, more >= 1
  PROVE  Fitting(sent, shown, newest, held + 1, bound + more)
<1>1. PICK due \in [DOMAIN sent -> 0 .. bound] : Fits(sent, due, shown, newest, held, bound)
  BY DEF Fitting
<1>2. due \in [DOMAIN sent -> 0 .. bound + more]
  OBVIOUS
<1>3. shown + Gain(newest, held + 1) <= bound + more
  <2>1. shown + Gain(newest, held) <= bound
    BY <1>1 DEF Fits
  <2>2. /\ Gain(newest, held) \in Nat /\ Gain(newest, held + 1) \in Nat
        /\ Gain(newest, held + 1) <= Gain(newest, held) + 1
    BY GainFacts
  <2> QED
    BY <2>1, <2>2
<1>4. ASSUME NEW i \in DOMAIN sent, ~ sent[i].late
      PROVE  due[i] + Delta(Told(sent[i]), held + 1) <= bound + more
  <2>1. Told(sent[i]) \in Nat /\ due[i] \in Nat
    BY ToldNat
  <2>2. due[i] + Delta(Told(sent[i]), held) <= bound
    BY <1>1, <1>4 DEF Fits
  <2>3. /\ Delta(Told(sent[i]), held) \in Nat /\ Delta(Told(sent[i]), held + 1) \in Nat
        /\ Delta(Told(sent[i]), held + 1) <= Delta(Told(sent[i]), held) + 1
    BY <2>1, GainFacts
  <2> QED
    BY <2>1, <2>2, <2>3
<1>5. Fits(sent, due, shown, newest, held + 1, bound + more)
  BY <1>1, <1>3, <1>4 DEF Fits
<1> QED
  BY <1>2, <1>5 DEF Fitting

\* The counters start anew, and what they held is due once more.
LEMMA FitsReset ==
  ASSUME NEW sent \in Seq(Request), NEW shown \in Nat, NEW newest \in Nat \cup {None},
         NEW held \in Nat, NEW bound \in Nat, Fitting(sent, shown, newest, held, bound),
         NEW left \in Nat, NEW more \in Nat, left <= more
  PROVE  Fitting(sent, shown, newest, left, bound + more)
<1>1. PICK due \in [DOMAIN sent -> 0 .. bound] : Fits(sent, due, shown, newest, held, bound)
  BY DEF Fitting
<1>2. due \in [DOMAIN sent -> 0 .. bound + more]
  OBVIOUS
<1>3. shown + Gain(newest, left) <= bound + more
  <2>1. shown + Gain(newest, held) <= bound
    BY <1>1 DEF Fits
  <2>2. Gain(newest, held) \in Nat /\ Gain(newest, left) \in Nat /\ Gain(newest, left) <= left
    BY GainFacts
  <2> QED
    BY <2>1, <2>2
<1>4. ASSUME NEW i \in DOMAIN sent
      PROVE  due[i] + Delta(Told(sent[i]), left) <= bound + more
  <2>1. Told(sent[i]) \in Nat /\ due[i] \in Nat /\ due[i] <= bound
    BY ToldNat
  <2>2. Delta(Told(sent[i]), left) \in Nat /\ Delta(Told(sent[i]), left) <= left
    BY <2>1, GainFacts
  <2> QED
    BY <2>1, <2>2
<1>5. Fits(sent, due, shown, newest, left, bound + more)
  BY <1>1, <1>3, <1>4 DEF Fits
<1> QED
  BY <1>2, <1>5 DEF Fitting

\* A heartbeat brings what the counters hold.
LEMMA FitsSend ==
  ASSUME NEW sent \in Seq(Request), NEW shown \in Nat, NEW newest \in Nat \cup {None},
         NEW held \in Nat, NEW bound \in Nat, Fitting(sent, shown, newest, held, bound),
         NEW request \in Request, Told(request) = held
  PROVE  Fitting(Append(sent, request), shown, newest, held, bound)
<1>1. PICK due \in [DOMAIN sent -> 0 .. bound] : Fits(sent, due, shown, newest, held, bound)
  BY DEF Fitting
<1> DEFINE all == Append(sent, request)
           c == Len(sent) + 1
           dues == [i \in DOMAIN all |-> IF i = c THEN bound ELSE due[i]]
<1>2. /\ DOMAIN all = 1 .. c /\ DOMAIN sent = 1 .. c - 1 /\ c \in Nat /\ all[c] = request
      /\ \A i \in DOMAIN all : i # c => i \in DOMAIN sent /\ i < c /\ all[i] = sent[i]
  OBVIOUS
<1> HIDE DEF all, c
<1>3. dues \in [DOMAIN all -> 0 .. bound]
  BY <1>2
<1>4. ASSUME NEW i \in DOMAIN all, ~ all[i].late
      PROVE  /\ shown + Gain(newest, Told(all[i])) <= dues[i]
             /\ dues[i] + Delta(Told(all[i]), held) <= bound
  <2>1. CASE i = c
    <3>1. dues[i] = bound /\ Told(all[i]) = held
      BY <1>2, <2>1
    <3>2. Delta(held, held) = 0
      BY DeltaFacts
    <3> QED
      BY <1>1, <3>1, <3>2 DEF Fits
  <2>2. CASE i # c
    BY <1>1, <1>2, <1>4, <2>2 DEF Fits
  <2> QED
    BY <2>1, <2>2
<1>5. ASSUME NEW i \in DOMAIN all, NEW j \in DOMAIN all, i < j, ~ all[i].late, ~ all[j].late
      PROVE  dues[i] + Delta(Told(all[i]), Told(all[j])) <= dues[j]
  <2>1. i # c /\ i \in DOMAIN sent /\ dues[i] = due[i] /\ all[i] = sent[i]
    BY <1>2, <1>5
  <2>2. CASE j = c
    <3>1. dues[j] = bound /\ Told(all[j]) = held
      BY <1>2, <2>2
    <3> QED
      BY <1>1, <1>5, <2>1, <3>1 DEF Fits
  <2>3. CASE j # c
    BY <1>1, <1>2, <1>5, <2>1, <2>3 DEF Fits
  <2> QED
    BY <2>2, <2>3
<1>6. Fits(all, dues, shown, newest, held, bound)
  <2> HIDE DEF dues
  <2> QED
    BY <1>1, <1>4, <1>5 DEF Fits
<1> QED
  BY <1>3, <1>6 DEF Fitting, all

\* Heartbeats are lost, and less is shown.
LEMMA FitsLeft ==
  ASSUME NEW sent \in Seq(Request), NEW shown \in Nat, NEW newest \in Nat \cup {None},
         NEW held \in Nat, NEW bound \in Nat, Fitting(sent, shown, newest, held, bound),
         NEW left \in Seq(Request), NEW place, Left(sent, left, place)
  PROVE  Fitting(left, shown, newest, held, bound)
<1>1. PICK due \in [DOMAIN sent -> 0 .. bound] : Fits(sent, due, shown, newest, held, bound)
  BY DEF Fitting
<1> DEFINE dues == [j \in DOMAIN left |-> due[place[j]]]
<1>2. dues \in [DOMAIN left -> 0 .. bound]
  BY DEF Left
<1>3. Fits(left, dues, shown, newest, held, bound)
  BY <1>1 DEF Fits, Left
<1> QED
  BY <1>2, <1>3 DEF Fitting

\* Samples expire, and less is shown.
LEMMA FitsLess ==
  ASSUME NEW sent \in Seq(Request), NEW shown \in Nat, NEW newest \in Nat \cup {None},
         NEW held \in Nat, NEW bound \in Nat, Fitting(sent, shown, newest, held, bound),
         NEW less \in Nat, less <= shown, NEW last \in {newest, None}
  PROVE  Fitting(sent, less, last, held, bound)
<1>1. PICK due \in [DOMAIN sent -> 0 .. bound] : Fits(sent, due, shown, newest, held, bound)
  BY DEF Fitting
<1>2. ASSUME NEW x \in Nat
      PROVE  /\ less + Gain(last, x) <= shown + Gain(newest, x)
             /\ less + Gain(last, x) \in Nat /\ shown + Gain(newest, x) \in Nat
  <2>1. Gain(last, x) \in Nat /\ Gain(newest, x) \in Nat /\ Gain(last, x) <= Gain(newest, x)
    <3>1. Gain(None, x) = 0
      BY DEF Gain
    <3>2. Gain(newest, x) \in Nat
      BY GainFacts
    <3> QED
      BY <3>1, <3>2
  <2> QED
    BY <2>1
<1>3. less + Gain(last, held) <= bound
  <2>1. shown + Gain(newest, held) <= bound
    BY <1>1 DEF Fits
  <2>2. /\ less + Gain(last, held) <= shown + Gain(newest, held)
        /\ less + Gain(last, held) \in Nat /\ shown + Gain(newest, held) \in Nat
    BY <1>2
  <2> QED
    BY <2>1, <2>2
<1>4. ASSUME NEW i \in DOMAIN sent, ~ sent[i].late
      PROVE  less + Gain(last, Told(sent[i])) <= due[i]
  <2>1. Told(sent[i]) \in Nat /\ due[i] \in Nat
    BY ToldNat
  <2>2. shown + Gain(newest, Told(sent[i])) <= due[i]
    BY <1>1, <1>4 DEF Fits
  <2>3. /\ less + Gain(last, Told(sent[i])) <= shown + Gain(newest, Told(sent[i]))
        /\ less + Gain(last, Told(sent[i])) \in Nat
        /\ shown + Gain(newest, Told(sent[i])) \in Nat
    BY <1>2, <2>1
  <2> QED
    BY <2>1, <2>2, <2>3
<1>5. Fits(sent, due, less, last, held, bound)
  BY <1>1, <1>3, <1>4 DEF Fits
<1> QED
  BY <1>5 DEF Fitting

\* A heartbeat is served before those sent after it.
LEMMA FitsServed ==
  ASSUME NEW sent \in Seq(Request), NEW shown \in Nat, NEW newest \in Nat \cup {None},
         NEW held \in Nat, NEW bound \in Nat, Fitting(sent, shown, newest, held, bound),
         NEW left \in Seq(Request), NEW place, Left(sent, left, place),
         NEW i \in DOMAIN sent, ~ sent[i].late,
         \A j \in DOMAIN left : ~ left[j].late => place[j] > i,
         NEW more \in Nat, more <= shown + Gain(newest, Told(sent[i]))
  PROVE  Fitting(left, more, Told(sent[i]), held, bound)
<1>1. PICK due \in [DOMAIN sent -> 0 .. bound] : Fits(sent, due, shown, newest, held, bound)
  BY DEF Fitting
<1> DEFINE dues == [j \in DOMAIN left |-> due[place[j]]]
           q == Told(sent[i])
<1>2. dues \in [DOMAIN left -> 0 .. bound]
  BY DEF Left
<1>3. q \in Nat /\ due[i] \in Nat /\ Gain(newest, q) \in Nat
  <2>1. q \in Nat /\ due[i] \in Nat
    BY ToldNat
  <2> HIDE DEF q
  <2> QED
    BY <2>1, GainFacts
<1>4. more <= due[i]
  <2>1. shown + Gain(newest, q) <= due[i]
    BY <1>1 DEF Fits
  <2> HIDE DEF q
  <2> QED
    BY <1>3, <2>1 DEF q
<1>5. more + Gain(q, held) <= bound
  <2>1. due[i] + Delta(q, held) <= bound
    BY <1>1 DEF Fits
  <2>2. Gain(q, held) = Delta(q, held) /\ Delta(q, held) \in Nat
    BY <1>3, GainFacts
  <2> HIDE DEF q
  <2> QED
    BY <1>3, <1>4, <2>1, <2>2
<1>6. ASSUME NEW j \in DOMAIN left, ~ left[j].late
      PROVE  more + Gain(q, Told(left[j])) <= dues[j]
  <2>1. /\ Told(left[j]) = Told(sent[place[j]]) /\ ~ sent[place[j]].late
        /\ place[j] \in DOMAIN sent /\ i < place[j]
    BY <1>6 DEF Left
  <2>2. due[i] + Delta(q, Told(sent[place[j]])) <= due[place[j]]
    BY <1>1, <2>1 DEF Fits
  <2>3. Told(left[j]) \in Nat /\ due[place[j]] \in Nat
    <3>1. left[j] \in Request
      BY <1>6
    <3>2. due[place[j]] \in 0 .. bound
      BY <2>1
    <3>3. Told(left[j]) \in Nat
      BY <3>1, ToldNat
    <3>4. due[place[j]] \in Nat
      BY <3>2
    <3> QED
      BY <3>3, <3>4
  <2>4. Gain(q, Told(left[j])) = Delta(q, Told(left[j])) /\ Delta(q, Told(left[j])) \in Nat
    BY <1>3, <2>3, GainFacts
  <2> HIDE DEF q
  <2> QED
    BY <1>3, <1>4, <2>1, <2>2, <2>3, <2>4
<1>7. Fits(left, dues, more, q, held, bound)
  <2> HIDE DEF q
  <2> QED
    BY <1>1, <1>5, <1>6 DEF Fits, Left
<1> QED
  BY <1>2, <1>7 DEF Fitting

\* A heartbeat is served after one that was sent later: what the agent's counters
\* held is due once more.
LEMMA FitsServedLate ==
  ASSUME NEW sent \in Seq(Request), NEW shown \in Nat, NEW newest \in Nat \cup {None},
         NEW held \in Nat, NEW bound \in Nat, Fitting(sent, shown, newest, held, bound),
         NEW left \in Seq(Request), NEW place, Left(sent, left, place),
         NEW q \in Nat, NEW most \in Nat, q <= most, held <= most,
         \A j \in DOMAIN left : Told(left[j]) <= most,
         NEW more \in Nat, more <= shown + Gain(newest, q)
  PROVE  Fitting(left, more, q, held, bound + most)
<1>1. PICK due \in [DOMAIN sent -> 0 .. bound] : Fits(sent, due, shown, newest, held, bound)
  BY DEF Fitting
<1> DEFINE dues == [j \in DOMAIN left |-> due[place[j]] + most]
<1>2. \A j \in DOMAIN left : due[place[j]] \in Nat /\ due[place[j]] <= bound
  BY DEF Left
<1>3. dues \in [DOMAIN left -> 0 .. bound + most]
  BY <1>2
<1>4. ASSUME NEW x \in Nat, x <= most, NEW y \in Int, shown + Gain(newest, x) <= y
      PROVE  more + Gain(q, x) <= y + most
  <2>1. Gain(newest, q) + Delta(q, x) <= Gain(newest, x) + most
    BY <1>4, OvertakenGains
  <2>2. /\ Gain(q, x) = Delta(q, x) /\ Delta(q, x) \in Nat
        /\ Gain(newest, x) \in Nat /\ Gain(newest, q) \in Nat
    BY GainFacts
  <2> DEFINE gain == Gain(newest, q)  first == Delta(q, x)  second == Gain(newest, x)
  <2>3. /\ gain \in Nat /\ first \in Nat /\ second \in Nat
        /\ gain + first <= second + most /\ more <= shown + gain /\ shown + second <= y
    BY <1>4, <2>1, <2>2
  <2> HIDE DEF gain, first, second
  <2>4. more + first <= y + most
    BY <1>4, <2>3
  <2> QED
    BY <2>2, <2>4 DEF first
<1>5. more + Gain(q, held) <= bound + most
  BY <1>1, <1>4 DEF Fits
<1>6. ASSUME NEW j \in DOMAIN left, ~ left[j].late
      PROVE  /\ more + Gain(q, Told(left[j])) <= dues[j]
             /\ dues[j] + Delta(Told(left[j]), held) <= bound + most
  <2>1. /\ Told(left[j]) = Told(sent[place[j]]) /\ ~ sent[place[j]].late
        /\ place[j] \in DOMAIN sent
    BY <1>6 DEF Left
  <2>2. /\ shown + Gain(newest, Told(left[j])) <= due[place[j]]
        /\ due[place[j]] + Delta(Told(left[j]), held) <= bound
    BY <1>1, <2>1 DEF Fits
  <2>3. Told(left[j]) \in Nat /\ Told(left[j]) <= most /\ due[place[j]] \in Int
    BY <1>2, ToldNat
  <2>4. Delta(Told(left[j]), held) \in Nat
    BY <2>3, GainFacts
  <2>5. more + Gain(q, Told(left[j])) <= due[place[j]] + most
    BY <1>4, <2>2, <2>3
  <2> DEFINE x == Told(left[j])  y == due[place[j]]
  <2>6. dues[j] = y + most
    BY <1>6
  <2>7. y + Delta(x, held) <= bound /\ Delta(x, held) \in Nat /\ y \in Int
    BY <2>2, <2>3, <2>4
  <2> HIDE DEF x, y, dues
  <2>8. dues[j] + Delta(x, held) <= bound + most
    BY <2>6, <2>7
  <2> QED
    BY <2>5, <2>6, <2>8 DEF x, y
<1>7. ASSUME NEW i \in DOMAIN left, NEW j \in DOMAIN left, i < j, ~ left[i].late, ~ left[j].late
      PROVE  dues[i] + Delta(Told(left[i]), Told(left[j])) <= dues[j]
  <2> DEFINE gain == Delta(Told(left[i]), Told(left[j]))
             first == due[place[i]]
             second == due[place[j]]
  <2>1. first + gain <= second
    BY <1>1, <1>7 DEF Fits, Left
  <2>2. Told(left[i]) \in Nat /\ Told(left[j]) \in Nat
    BY ToldNat
  <2>3. gain \in Nat
    BY <2>2, GainFacts
  <2>4. first \in Nat /\ dues[i] = first + most /\ second \in Nat /\ dues[j] = second + most
    BY <1>2
  <2> HIDE DEF dues, gain, first, second
  <2>5. dues[i] + gain <= dues[j]
    BY <2>1, <2>3, <2>4
  <2> QED
    BY <2>5 DEF gain
<1>8. Fits(left, dues, more, q, held, bound + most)
  <2> HIDE DEF dues
  <2> QED
    BY <1>5, <1>6, <1>7 DEF Fits
<1> QED
  BY <1>3, <1>8 DEF Fitting

--------------------------------------------------------------------------------
\* Accounts.

\* Of a node: neither its counters nor a heartbeat show more than it forwarded,
\* and what the history shows, with all it will gain from the heartbeats under way
\* and from the counters, is due.
Accounts(counts, sent, kept, bytes, times, time) ==
  /\ Total(counts) <= bytes
  /\ \A i \in DOMAIN sent : Told(sent[i]) <= bytes
  /\ \A m \in KeptOf(kept) : m <= time
  /\ Fitting(sent, Traffic(kept), Newest(kept), Total(counts), bytes * (1 + times))

Accounted(n) ==
  Accounts(counters[n], requests[n], samples[n], forwarded[n], recounts[n], now)

\* What is due grows with the bytes, and by all of them for a reset or an overtaken
\* heartbeat.
LEMMA Dues ==
  ASSUME NEW bytes \in Nat, NEW times \in Nat
  PROVE  /\ bytes * (1 + times) \in Nat
         /\ (bytes + 1) * (1 + times) = bytes * (1 + times) + (1 + times)
         /\ bytes * (1 + (times + 1)) = bytes * (1 + times) + bytes
OBVIOUS

\* Forwarding one byte keeps the accounts of a node.
LEMMA TransferAccounts ==
  ASSUME NEW c \in Counters, NEW s \in Seq(Request), NEW k \in Samples, NEW b \in Nat,
         NEW t \in Nat, NEW m, Accounts(c, s, k, b, t, m), NEW r \in Reported(c)
  PROVE  Accounts([c EXCEPT ![r] = c[r] + 1], s, k, b + 1, t, m)
<1> DEFINE d == [c EXCEPT ![r] = c[r] + 1]
<1>1. c[r] \in Nat /\ r \in Rules /\ c[r] + 1 \in Nat
  BY DEF Reported, Counters
<1>2. d \in Counters /\ Total(d) = Total(c) + 1 /\ Total(c) \in Nat
  <2>1. d \in Counters /\ Total(d) + Amount(c[r]) = Total(c) + Amount(c[r] + 1)
    BY <1>1, TotalSet
  <2>2. Amount(c[r]) = c[r] /\ Amount(c[r] + 1) = c[r] + 1
    BY <1>1, TelemetryAssumption DEF Amount
  <2>3. Total(c) \in Nat /\ Total(d) \in Nat
    BY <2>1, TotalNat
  <2> HIDE DEF d
  <2> QED
    BY <1>1, <2>1, <2>2, <2>3
<1> HIDE DEF d
<1>3. \A i \in DOMAIN s : Told(s[i]) \in Nat /\ Told(s[i]) <= b
  BY ToldNat DEF Accounts
<1>4. Traffic(k) \in Nat /\ Newest(k) \in Nat \cup {None} /\ b * (1 + t) \in Nat /\ 1 + t \in Nat
  BY TrafficNat, NewestIs, Dues
<1>5. Fitting(s, Traffic(k), Newest(k), Total(c) + 1, b * (1 + t) + (1 + t))
  <2>1. Fitting(s, Traffic(k), Newest(k), Total(c), b * (1 + t)) /\ 1 + t >= 1
    BY DEF Accounts
  <2> QED
    BY <1>2, <1>4, <2>1, FitsTransfer
<1>6. Accounts(d, s, k, b + 1, t, m)
  <2>1. Total(d) <= b + 1
    BY <1>2 DEF Accounts
  <2>2. \A i \in DOMAIN s : Told(s[i]) <= b + 1
    BY <1>3
  <2> QED
    BY <1>2, <1>5, <2>1, <2>2, Dues DEF Accounts
<1> QED
  BY <1>6 DEF d

\* So does any change of its counters that keeps their total, that ends with none, or
\* that is counted in recounts.
LEMMA SetAccounts ==
  ASSUME NEW c \in Counters, NEW s \in Seq(Request), NEW k \in Samples, NEW b \in Nat,
         NEW t \in Nat, NEW m, Accounts(c, s, k, b, t, m), NEW d \in Counters
  PROVE  /\ Total(d) = Total(c) => Accounts(d, s, k, b, t, m)
         /\ Total(d) = 0 => Accounts(d, s, k, b, t, m)
         /\ Total(d) <= b => Accounts(d, s, k, b, t + 1, m)
<1>1. /\ Traffic(k) \in Nat /\ Newest(k) \in Nat \cup {None} /\ b * (1 + t) \in Nat
      /\ Total(c) \in Nat /\ Total(d) \in Nat
  BY TrafficNat, NewestIs, Dues, TotalNat
<1>2. Total(d) = Total(c) => Accounts(d, s, k, b, t, m)
  BY DEF Accounts
<1>3. Fitting(s, Traffic(k), Newest(k), Total(c), b * (1 + t))
  BY DEF Accounts
<1>4. ASSUME Total(d) = 0 PROVE Accounts(d, s, k, b, t, m)
  <2> DEFINE bound == b * (1 + t)
  <2>1. Fitting(s, Traffic(k), Newest(k), Total(d), bound + 0)
    <3>1. Fitting(s, Traffic(k), Newest(k), Total(c), bound) /\ bound \in Nat
      BY <1>1, <1>3
    <3>2. Total(d) <= 0 /\ 0 \in Nat
      BY <1>4
    <3> HIDE DEF bound
    <3> QED
      BY <1>1, <3>1, <3>2, FitsReset
  <2>2. b * (1 + t) + 0 = b * (1 + t)
    BY <1>1
  <2> QED
    BY <1>4, <2>1, <2>2 DEF Accounts
<1>5. ASSUME Total(d) <= b PROVE Accounts(d, s, k, b, t + 1, m)
  <2>1. Fitting(s, Traffic(k), Newest(k), Total(d), b * (1 + t) + b)
    BY <1>1, <1>3, <1>5, FitsReset
  <2> QED
    BY <1>5, <2>1, Dues DEF Accounts
<1> QED
  BY <1>2, <1>4, <1>5

\* Sending a heartbeat keeps the accounts.
LEMMA SendAccounts ==
  ASSUME NEW c \in Counters, NEW s \in Seq(Request), NEW k \in Samples, NEW b \in Nat,
         NEW t \in Nat, NEW m, Accounts(c, s, k, b, t, m),
         NEW request \in Request, request.counters = c
  PROVE  Accounts(c, Append(s, request), k, b, t, m)
<1>1. Told(request) = Total(c)
  BY DEF Told
<1>2. /\ Traffic(k) \in Nat /\ Newest(k) \in Nat \cup {None} /\ b * (1 + t) \in Nat
      /\ Total(c) \in Nat
  BY TrafficNat, NewestIs, Dues, TotalNat
<1>3. Fitting(s, Traffic(k), Newest(k), Total(c), b * (1 + t))
  BY DEF Accounts
<1>4. Fitting(Append(s, request), Traffic(k), Newest(k), Total(c), b * (1 + t))
  BY <1>1, <1>2, <1>3, FitsSend
<1>5. ASSUME NEW i \in DOMAIN Append(s, request) PROVE Told(Append(s, request)[i]) <= b
  <2>1. \/ i \in DOMAIN s /\ Append(s, request)[i] = s[i]
        \/ Append(s, request)[i] = request
    OBVIOUS
  <2> QED
    BY <1>1, <2>1 DEF Accounts
<1> QED
  BY <1>4, <1>5 DEF Accounts

\* Losing one does.
LEMMA LoseAccounts ==
  ASSUME NEW c \in Counters, NEW s \in Seq(Request), NEW k \in Samples, NEW b \in Nat,
         NEW t \in Nat, NEW m, Accounts(c, s, k, b, t, m), NEW i \in DOMAIN s
  PROVE  Accounts(c, RemoveAt(s, i), k, b, t, m)
<1> DEFINE left == RemoveAt(s, i)
<1>1. left \in Seq(Request) /\ Left(s, left, Skip(s, i))
  BY RemovedLeft
<1>2. /\ Traffic(k) \in Nat /\ Newest(k) \in Nat \cup {None} /\ b * (1 + t) \in Nat
      /\ Total(c) \in Nat
  BY TrafficNat, NewestIs, Dues, TotalNat
<1>3. Fitting(s, Traffic(k), Newest(k), Total(c), b * (1 + t))
  BY DEF Accounts
<1> HIDE DEF left
<1>4. Fitting(left, Traffic(k), Newest(k), Total(c), b * (1 + t))
  BY <1>1, <1>2, <1>3, FitsLeft
<1>5. \A j \in DOMAIN left : Told(left[j]) <= b
  BY <1>1 DEF Accounts, Left
<1> QED
  BY <1>4, <1>5 DEF Accounts, left

\* What is sampled for a node: its own total, and nothing but expiry for others.
LEMMA SampledFacts ==
  ASSUME TypeOK, NEW n \in Nodes, NEW total \in Nat, NEW x \in Nodes, Accounted(x)
  PROVE  LET left == [t \in Minutes |-> IF Expired(t) THEN None ELSE samples[x][t]]
             new == Sampled(n, total)[x] IN
           /\ left \in Samples /\ new \in Samples
           /\ Traffic(left) <= Traffic(samples[x])
           /\ Newest(left) \in {Newest(samples[x]), None}
           /\ \A m \in KeptOf(left) : m <= now
           /\ x # n => new = left
           /\ x = n => new = [left EXCEPT ![now] = total]
<1> DEFINE left == [t \in Minutes |-> IF Expired(t) THEN None ELSE samples[x][t]]
           new == Sampled(n, total)[x]
<1>1. /\ samples[x] \in Samples /\ left \in Samples /\ now \in Minutes /\ now \in Int
      /\ Retention \in Nat
  BY TelemetryAssumption, MinutesAreNumbers DEF TypeOK, Samples
<1>2. now - Retention \in Int /\ ~ Expired(now)
  BY <1>1 DEF Expired
<1>3. \A m \in Minutes : left[m] = IF m < now - Retention THEN None ELSE samples[x][m]
  BY DEF Expired
<1>4. new = [t \in Minutes |-> IF Expired(t) THEN None
                               ELSE IF x = n /\ t = now THEN total ELSE samples[x][t]]
  BY DEF Sampled
<1>5. x # n => new = left
  BY <1>4
<1>6. x = n => new = [left EXCEPT ![now] = total]
  BY <1>1, <1>2, <1>4
<1>7. new \in Samples
  BY <1>1, <1>4 DEF Samples
<1> HIDE DEF left, new
<1>8. /\ Traffic(left) <= Traffic(samples[x])
      /\ Newest(left) \in {Newest(samples[x]), None}
      /\ KeptOf(left) \subseteq KeptOf(samples[x])
  BY <1>1, <1>2, <1>3, ExpiryShowsLess
<1>9. \A m \in KeptOf(left) : m <= now
  BY <1>8 DEF Accounted, Accounts
<1> QED
  BY <1>1, <1>5, <1>6, <1>7, <1>8, <1>9 DEF left, new

\* Serving a heartbeat keeps the accounts of its node, and of the nodes whose samples
\* expire with it.
LEMMA ServedAccounted ==
  ASSUME TypeOK, NEW n \in Nodes, NEW i \in DOMAIN requests[n], ServeHeartbeat(n, i),
         NEW x \in Nodes, Accounted(x)
  PROVE  Accounted(x)'
<1> DEFINE request == requests[n][i]  q == Told(request)
           c == counters[x]  s == requests[x]  k == samples[x]
           b == forwarded[x]  t == recounts[x]
           left == [m \in Minutes |-> IF Expired(m) THEN None ELSE k[m]]
<1>1. /\ c \in Counters /\ s \in Seq(Request) /\ k \in Samples /\ b \in Nat /\ t \in Nat
      /\ requests[n] \in Seq(Request) /\ request \in Request /\ now \in Minutes
  BY DEF TypeOK, Samples
<1>2. q \in Nat
  BY <1>1, ToldNat
<1>3. /\ samples' = Sampled(n, q)
      /\ requests' = [requests EXCEPT ![n] = After(requests[n], i)]
      /\ recounts' = [recounts EXCEPT ![n] = recounts[n] + IF request.late THEN 1 ELSE 0]
      /\ counters' = counters /\ forwarded' = forwarded /\ now' = now
  BY DEF ServeHeartbeat, After, Told
<1> HIDE DEF request, q
<1>4. samples' \in [Nodes -> Samples]
  BY <1>2, <1>3, ServedTyped DEF TypeOK, Samples
<1>5. /\ left \in Samples /\ samples'[x] \in Samples
      /\ Traffic(left) <= Traffic(k) /\ Newest(left) \in {Newest(k), None}
      /\ \A m \in KeptOf(left) : m <= now
      /\ x # n => samples'[x] = left
      /\ x = n => samples'[x] = [left EXCEPT ![now] = q]
  BY <1>2, <1>3, SampledFacts
<1> HIDE DEF left
<1>6. /\ Traffic(k) \in Nat /\ Newest(k) \in Nat \cup {None} /\ b * (1 + t) \in Nat
      /\ Total(c) \in Nat /\ Traffic(left) \in Nat /\ Newest(left) \in Nat \cup {None}
  BY <1>1, <1>5, TrafficNat, NewestIs, Dues, TotalNat
<1>7. Fitting(s, Traffic(left), Newest(left), Total(c), b * (1 + t))
  <2>1. Fitting(s, Traffic(k), Newest(k), Total(c), b * (1 + t))
    BY DEF Accounted, Accounts
  <2> DEFINE bound == b * (1 + t)
  <2>2. /\ Fitting(s, Traffic(k), Newest(k), Total(c), bound) /\ bound \in Nat
        /\ Traffic(left) <= Traffic(k) /\ Newest(left) \in {Newest(k), None}
    BY <1>5, <1>6, <2>1
  <2> DEFINE shown == Traffic(k)  newest == Newest(k)  held == Total(c)
             less == Traffic(left)  last == Newest(left)
  <2>4. /\ s \in Seq(Request) /\ shown \in Nat /\ newest \in Nat \cup {None} /\ held \in Nat
        /\ bound \in Nat /\ Fitting(s, shown, newest, held, bound)
        /\ less \in Nat /\ less <= shown /\ last \in {newest, None}
    BY <1>1, <1>6, <2>2
  <2> HIDE DEF s, shown, newest, held, less, last, bound
  <2>3. Fitting(s, less, last, held, bound)
    BY <2>4, FitsLess
  <2> QED
    BY <2>3 DEF bound, less, last, held
<1>8. Total(c) <= b /\ \A j \in DOMAIN s : Told(s[j]) <= b
  BY DEF Accounted, Accounts
<1>9. CASE x # n
  <2>1. /\ counters'[x] = c /\ requests'[x] = s /\ forwarded'[x] = b /\ recounts'[x] = t
        /\ samples'[x] = left
    BY <1>1, <1>3, <1>5, <1>9 DEF TypeOK
  <2>2. Accounts(c, s, left, b, t, now)
    BY <1>5, <1>7, <1>8 DEF Accounts
  <2> QED
    BY <1>3, <2>1, <2>2 DEF Accounted
<1>10. CASE x = n
  <2> DEFINE rest == After(s, i)
             new == [left EXCEPT ![now] = q]
  <2>1. /\ rest \in Seq(Request) /\ Left(s, rest, Skip(s, i))
        /\ \A j \in DOMAIN rest : ~ rest[j].late => Skip(s, i)[j] > i
    BY <1>1, <1>10, AfterLeft
  <2>2. /\ counters'[x] = c /\ requests'[x] = rest /\ forwarded'[x] = b /\ samples'[x] = new
        /\ recounts'[x] = t + IF request.late THEN 1 ELSE 0
    BY <1>1, <1>3, <1>5, <1>10 DEF TypeOK
  <2>3. /\ Traffic(new) <= Traffic(left) + Gain(Newest(left), q) /\ Newest(new) = q
        /\ new \in Samples /\ \A m \in KeptOf(new) : m <= now
    <3>1. \A m \in KeptOf(left) : m <= now
      BY <1>5
    <3> QED
      BY <1>1, <1>2, <1>5, <3>1, SampleShows
  <2> HIDE DEF rest, new
  <2>4. Traffic(new) \in Nat
    BY <2>3, TrafficNat
  <2>5. i \in DOMAIN s /\ request = s[i] /\ q = Told(s[i]) /\ q <= b
    BY <1>8, <1>10 DEF request, q
  <2>6. \A j \in DOMAIN rest : Told(rest[j]) <= b
    BY <1>8, <2>1 DEF Left
  <2> DEFINE bound == b * (1 + t)
  <2>9. Fitting(s, Traffic(left), Newest(left), Total(c), bound) /\ bound \in Nat
    BY <1>6, <1>7
  <2> HIDE DEF c, s, k, b, t, bound
  <2>7. CASE ~ request.late
    <3>1. Fitting(rest, Traffic(new), q, Total(c), b * (1 + t))
      <4>1. ~ s[i].late /\ Traffic(new) <= Traffic(left) + Gain(Newest(left), Told(s[i]))
        BY <2>3, <2>5, <2>7
      <4>2. Fitting(rest, Traffic(new), Told(s[i]), Total(c), bound)
        BY <1>1, <1>6, <2>1, <2>4, <2>5, <2>9, <4>1, FitsServed
      <4> QED
        BY <2>5, <4>2 DEF bound
    <3>2. Accounts(c, rest, new, b, t, now)
      BY <1>8, <2>3, <2>6, <3>1 DEF Accounts
    <3>3. recounts'[x] = t
      BY <1>1, <2>2, <2>7
    <3> QED
      BY <1>3, <2>2, <3>2, <3>3 DEF Accounted
  <2>8. CASE request.late
    <3>1. Fitting(rest, Traffic(new), q, Total(c), b * (1 + t) + b)
      <4>1. Fitting(rest, Traffic(new), q, Total(c), bound + b)
        BY <1>1, <1>2, <1>6, <1>8, <2>1, <2>3, <2>4, <2>5, <2>6, <2>9, FitsServedLate
      <4> QED
        BY <4>1 DEF bound
    <3>2. Accounts(c, rest, new, b, t + 1, now)
      BY <1>1, <1>8, <2>3, <2>6, <3>1, Dues DEF Accounts
    <3>3. recounts'[x] = t + 1
      BY <2>2, <2>8
    <3> QED
      BY <1>3, <2>2, <3>2, <3>3 DEF Accounted
  <2> QED
    BY <2>7, <2>8
<1> QED
  BY <1>9, <1>10

AllAccounted == TypeOK /\ \A n \in Nodes : Accounted(n)

\* At first nothing is forwarded, shown or due.
LEMMA InitiallyAccounted == Init => AllAccounted
<1> SUFFICES ASSUME Init PROVE AllAccounted
  OBVIOUS
<1>1. TypeOK
  BY InitiallyTyped
<1>2. ASSUME NEW n \in Nodes PROVE Accounted(n)
  <2> DEFINE k == samples[n]
  <2>1. /\ counters[n] \in Counters /\ \A r \in Rules : counters[n][r] = None
        /\ requests[n] = << >> /\ k \in Samples /\ \A m \in Minutes : k[m] = None
        /\ forwarded[n] = 0 /\ recounts[n] = 0
    BY <1>1 DEF Init, TypeOK, Samples
  <2>2. Total(counters[n]) = 0
    BY <2>1, TotalOfZeros
  <2>3. KeptOf(k) = {} /\ RatedOf(k) = {}
    BY <2>1 DEF KeptOf, RatedOf
  <2>4. Traffic(k) = 0 /\ Newest(k) = None
    BY <2>3, SumOfNone DEF Traffic, Newest
  <2>5. Gain(None, 0) = 0
    BY DEF Gain
  <2> HIDE DEF k
  <2>6. Fits(<< >>, << >>, 0, None, 0, 0)
    BY <2>5 DEF Fits
  <2>7. << >> \in [DOMAIN << >> -> 0 .. 0]
    OBVIOUS
  <2>8. Fitting(<< >>, 0, None, 0, 0)
    BY <2>6, <2>7 DEF Fitting
  <2>9. 0 * (1 + 0) = 0
    OBVIOUS
  <2> QED
    BY <2>1, <2>2, <2>3, <2>4, <2>8, <2>9 DEF Accounted, Accounts, k
<1> QED
  BY <1>1, <1>2 DEF AllAccounted

\* Each action keeps the accounts of all nodes.
LEMMA StepAccounted == AllAccounted /\ [Next]_vars => AllAccounted'
<1> SUFFICES ASSUME AllAccounted, [Next]_vars, NEW x \in Nodes PROVE Accounted(x)'
  BY StepTyped DEF AllAccounted
<1> DEFINE c == counters[x]  s == requests[x]  k == samples[x]
           b == forwarded[x]  t == recounts[x]
<1>1. /\ TypeOK /\ Accounts(c, s, k, b, t, now)
      /\ c \in Counters /\ s \in Seq(Request) /\ k \in Samples /\ b \in Nat /\ t \in Nat
  BY DEF AllAccounted, Accounted, TypeOK, Samples
<1>2. ASSUME UNCHANGED <<counters, requests, samples, forwarded, recounts, now>>
      PROVE  Accounted(x)'
  BY <1>1, <1>2 DEF Accounted
<1>3. ASSUME NEW n \in Nodes, NEW r \in Rules, Start(n, r) PROVE Accounted(x)'
  <2>1. CASE x = n
    <3> DEFINE d == [c EXCEPT ![r] = 0]
    <3>1. /\ counters'[x] = d /\ c[r] = None
          /\ UNCHANGED <<requests, samples, forwarded, recounts, now>>
      BY <1>1, <1>3, <2>1 DEF Start, storeVars, TypeOK
    <3>2. d \in Counters /\ Total(d) = Total(c)
      <4>1. d \in Counters /\ Total(d) + Amount(c[r]) = Total(c) + Amount(0)
        BY <1>1, TotalSet
      <4>2. Amount(c[r]) = 0 /\ Amount(0) = 0
        BY <3>1, TelemetryAssumption DEF Amount
      <4>3. Total(c) \in Nat /\ Total(d) \in Nat
        BY <1>1, <4>1, TotalNat
      <4> HIDE DEF c, d
      <4> QED
        BY <4>1, <4>2, <4>3
    <3> HIDE DEF c, s, k, b, t, d
    <3>3. Accounts(d, s, k, b, t, now)
      BY <1>1, <3>2, SetAccounts
    <3> QED
      BY <3>1, <3>3 DEF Accounted, s, k, b, t
  <2>2. CASE x # n
    <3>1. counters'[x] = c /\ UNCHANGED <<requests, samples, forwarded, recounts, now>>
      BY <1>1, <1>3, <2>2 DEF Start, storeVars, TypeOK
    <3> QED
      BY <1>1, <3>1 DEF Accounted
  <2> QED
    BY <2>1, <2>2
<1>4. ASSUME NEW n \in Nodes, NEW r \in Rules, Stop(n, r) PROVE Accounted(x)'
  <2>1. CASE x = n
    <3> DEFINE d == [c EXCEPT ![r] = None]
    <3>1. /\ counters'[x] = d /\ r \in Reported(c)
          /\ recounts'[x] = t + IF c[r] > 0 THEN 1 ELSE 0
          /\ UNCHANGED <<requests, samples, forwarded, now>>
      BY <1>1, <1>4, <2>1 DEF Stop, storeVars, TypeOK
    <3>2. /\ d \in Counters /\ Total(d) <= b /\ c[r] \in Nat
          /\ c[r] = 0 => Total(d) = Total(c)
      <4>1. d \in Counters /\ Total(d) + Amount(c[r]) = Total(c) + Amount(None)
        BY <1>1, TotalSet
      <4>2. c[r] \in Nat /\ Amount(c[r]) = c[r] /\ Amount(None) = 0
        BY <1>1, <3>1 DEF Amount, Reported, Counters
      <4>3. Total(c) \in Nat /\ Total(d) \in Nat /\ Total(c) <= b
        BY <1>1, <4>1, TotalNat DEF Accounts
      <4> HIDE DEF c, d, b
      <4> QED
        BY <1>1, <4>1, <4>2, <4>3
    <3> HIDE DEF c, s, k, b, t, d
    <3>3. CASE c[r] = 0
      <4>1. Accounts(d, s, k, b, t, now)
        BY <1>1, <3>2, <3>3, SetAccounts
      <4>2. recounts'[x] = t
        BY <1>1, <3>1, <3>3
      <4> QED
        BY <3>1, <4>1, <4>2 DEF Accounted, s, k, b
    <3>4. CASE c[r] > 0
      <4>1. Accounts(d, s, k, b, t + 1, now)
        BY <1>1, <3>2, SetAccounts
      <4>2. recounts'[x] = t + 1
        BY <1>1, <3>1, <3>4
      <4> QED
        BY <3>1, <4>1, <4>2 DEF Accounted, s, k, b
    <3> QED
      BY <3>2, <3>3, <3>4
  <2>2. CASE x # n
    <3>1. /\ counters'[x] = c /\ recounts'[x] = t
          /\ UNCHANGED <<requests, samples, forwarded, now>>
      BY <1>1, <1>4, <2>2 DEF Stop, storeVars, TypeOK
    <3> QED
      BY <1>1, <3>1 DEF Accounted
  <2> QED
    BY <2>1, <2>2
<1>5. ASSUME NEW n \in Nodes, NEW r \in Rules, Transfer(n, r) PROVE Accounted(x)'
  <2>1. CASE x = n
    <3>1. /\ counters'[x] = [c EXCEPT ![r] = c[r] + 1] /\ r \in Reported(c)
          /\ forwarded'[x] = b + 1
          /\ UNCHANGED <<requests, samples, recounts, now>>
      BY <1>1, <1>5, <2>1 DEF Transfer, storeVars, TypeOK
    <3> HIDE DEF c, s, k, b, t
    <3>2. Accounts([c EXCEPT ![r] = c[r] + 1], s, k, b + 1, t, now)
      BY <1>1, <3>1, TransferAccounts
    <3> QED
      BY <3>1, <3>2 DEF Accounted, s, k, t
  <2>2. CASE x # n
    <3>1. /\ counters'[x] = c /\ forwarded'[x] = b
          /\ UNCHANGED <<requests, samples, recounts, now>>
      BY <1>1, <1>5, <2>2 DEF Transfer, storeVars, TypeOK
    <3> QED
      BY <1>1, <3>1 DEF Accounted
  <2> QED
    BY <2>1, <2>2
<1>6. ASSUME NEW n \in Nodes, Restart(n) PROVE Accounted(x)'
  <2>1. CASE x = n
    <3> DEFINE d == [r \in Rules |-> IF c[r] = None THEN None ELSE 0]
    <3>1. counters'[x] = d /\ UNCHANGED <<requests, samples, forwarded, recounts, now>>
      BY <1>1, <1>6, <2>1 DEF Restart, storeVars, TypeOK
    <3>2. d \in Counters /\ \A r \in Rules : d[r] \in {0, None}
      BY DEF Counters
    <3> HIDE DEF c, s, k, b, t, d
    <3>3. Total(d) = 0
      BY <3>2, TotalOfZeros
    <3>4. Accounts(d, s, k, b, t, now)
      BY <1>1, <3>2, <3>3, SetAccounts
    <3> QED
      BY <3>1, <3>4 DEF Accounted, s, k, b, t
  <2>2. CASE x # n
    <3>1. counters'[x] = c /\ UNCHANGED <<requests, samples, forwarded, recounts, now>>
      BY <1>1, <1>6, <2>2 DEF Restart, storeVars, TypeOK
    <3> QED
      BY <1>1, <3>1 DEF Accounted
  <2> QED
    BY <2>1, <2>2
<1>7. ASSUME NEW n \in Nodes, NEW active \in SUBSET Rules, SendHeartbeat(n, active)
      PROVE  Accounted(x)'
  <2>1. CASE x = n
    <3> DEFINE request == [counters |-> c, active |-> active, late |-> FALSE]
    <3>1. requests'[x] = Append(s, request)
          /\ UNCHANGED <<counters, samples, forwarded, recounts, now>>
      BY <1>1, <1>7, <2>1 DEF SendHeartbeat, storeVars, TypeOK
    <3>2. request \in Request /\ request.counters = c
      BY <1>1 DEF Request
    <3> HIDE DEF c, s, k, b, t, request
    <3>3. Accounts(c, Append(s, request), k, b, t, now)
      BY <1>1, <3>2, SendAccounts
    <3> QED
      BY <3>1, <3>3 DEF Accounted, c, k, b, t
  <2>2. CASE x # n
    <3>1. requests'[x] = s /\ UNCHANGED <<counters, samples, forwarded, recounts, now>>
      BY <1>1, <1>7, <2>2 DEF SendHeartbeat, storeVars, TypeOK
    <3> QED
      BY <1>1, <3>1 DEF Accounted
  <2> QED
    BY <2>1, <2>2
<1>8. ASSUME NEW n \in Nodes, NEW i \in DOMAIN requests[n], Lose(n, i) PROVE Accounted(x)'
  <2>1. CASE x = n
    <3>1. requests'[x] = RemoveAt(s, i) /\ i \in DOMAIN s
          /\ UNCHANGED <<counters, samples, forwarded, recounts, now>>
      BY <1>1, <1>8, <2>1 DEF Lose, storeVars, TypeOK
    <3> HIDE DEF c, s, k, b, t
    <3>2. Accounts(c, RemoveAt(s, i), k, b, t, now)
      BY <1>1, <3>1, LoseAccounts
    <3> QED
      BY <3>1, <3>2 DEF Accounted, c, k, b, t
  <2>2. CASE x # n
    <3>1. requests'[x] = s /\ UNCHANGED <<counters, samples, forwarded, recounts, now>>
      BY <1>1, <1>8, <2>2 DEF Lose, storeVars, TypeOK
    <3> QED
      BY <1>1, <3>1 DEF Accounted
  <2> QED
    BY <2>1, <2>2
<1>9. ASSUME NEW n \in Nodes, NEW i \in DOMAIN requests[n], ServeHeartbeat(n, i)
      PROVE  Accounted(x)'
  <2>1. Accounted(x)
    BY DEF AllAccounted
  <2> QED
    BY <1>1, <1>9, <2>1, ServedAccounted
<1>10. ASSUME Tick PROVE Accounted(x)'
  <2>1. /\ UNCHANGED <<counters, requests, samples, forwarded, recounts>>
        /\ now' = now + 1 /\ now \in Int
    BY <1>1, <1>10, MinutesAreNumbers DEF Tick, agentVars, storeVars, TypeOK
  <2>2. \A m \in KeptOf(k) : m <= now + 1
    <3> TAKE m \in KeptOf(k)
    <3>1. m \in Int /\ m <= now
      BY <1>1, MinutesAreNumbers DEF Accounts, KeptOf
    <3> QED
      BY <2>1, <3>1
  <2>3. Accounts(c, s, k, b, t, now + 1)
    BY <1>1, <2>2 DEF Accounts
  <2> QED
    BY <2>1, <2>3 DEF Accounted
<1>11. ASSUME NEW n \in Nodes, NEW r \in Rules, MoveRule(r, n) PROVE Accounted(x)'
  BY <1>2, <1>11 DEF MoveRule, agentVars, storeVars
<1>12. ASSUME NEW r \in Rules, DeleteRule(r) PROVE Accounted(x)'
  BY <1>2, <1>12 DEF DeleteRule, agentVars
<1>13. ASSUME UNCHANGED vars PROVE Accounted(x)'
  BY <1>2, <1>13 DEF vars
<1> QED
  BY <1>3, <1>4, <1>5, <1>6, <1>7, <1>8, <1>9, <1>10, <1>11, <1>12, <1>13 DEF Next

\* Accounts that fit show no more than is due, on each node and in all.
LEMMA AccountedCounts == AllAccounted => HistoryCounts
<1> SUFFICES ASSUME AllAccounted PROVE HistoryCounts
  OBVIOUS
<1> DEFINE shown == [n \in Nodes |-> MemoryTraffic(n, 0, LastMinute)]
           due == [n \in Nodes |-> forwarded[n] * (1 + recounts[n])]
<1>1. ASSUME NEW n \in Nodes
      PROVE  shown[n] \in Nat /\ due[n] \in Nat /\ shown[n] <= due[n]
  <2> DEFINE k == samples[n]  bound == forwarded[n] * (1 + recounts[n])
  <2>1. /\ k \in Samples /\ bound \in Nat /\ Total(counters[n]) \in Nat
        /\ shown[n] = Traffic(k) /\ due[n] = bound
    <3>1. k \in Samples /\ forwarded[n] \in Nat /\ recounts[n] \in Nat /\ counters[n] \in Counters
      BY DEF AllAccounted, TypeOK, Samples
    <3>2. shown[n] = Traffic(k)
      BY TrafficOfAll DEF AllAccounted
    <3> QED
      BY <3>1, <3>2, Dues, TotalNat
  <2>2. Traffic(k) + Gain(Newest(k), Total(counters[n])) <= bound
    BY DEF AllAccounted, Accounted, Accounts, Fitting, Fits
  <2> HIDE DEF k, bound, shown, due
  <2>3. Traffic(k) \in Nat /\ Gain(Newest(k), Total(counters[n])) \in Nat
    BY <2>1, TrafficNat, NewestIs, GainFacts
  <2> QED
    BY <2>1, <2>2, <2>3
<1>2. SumFunctionOnSet(shown, Nodes) <= SumFunctionOnSet(due, Nodes)
  <2> HIDE DEF shown, due
  <2> QED
    BY <1>1, TelemetryAssumption, SumAtMost
<1> QED
  BY <1>2 DEF HistoryCounts, TrafficHistory, InAll

\* The traffic trend never shows more than was forwarded, once for each byte and once
\* more for each rule that stopped with bytes counted and each heartbeat that was
\* overtaken: whatever heartbeats are lost, and however often agents restart
\* (TrafficHistory in memory.go, README.md:168).
THEOREM HistoryCountsOnce == Spec => []HistoryCounts
BY InitiallyAccounted, StepAccounted, AccountedCounts, PTL DEF Spec
================================================================================
