--------------------------- MODULE SchedulerProofs ---------------------------
(***************************************************************************)
(* Proofs about Execute for every plan, whatever its size, and every limit.*)
(*                                                                         *)
(* The counters are the heart of the argument: as long as nothing failed,  *)
(* remaining[m] is the number of dependencies of m that have not completed *)
(* (Counters).  That a completion lowers it by exactly one needs that every*)
(* node is at one place only (Places): queued, working, in the channel,    *)
(* completed or failed.                                                    *)
(*                                                                         *)
(* The plan itself (Build) is a recursive function.  Its values are shown  *)
(* to exist (IterationExists) and then reasoned about round by round, each *)
(* induction being the choice of a least counterexample (LeastNumber).     *)
(***************************************************************************)
EXTENDS Scheduler, FiniteSetTheorems, WellFoundedInduction, TLAPS

\* A set of numbers has a least one: how the proofs below do induction.
LEMMA LeastNumber ==
    ASSUME NEW T \in SUBSET Nat, T # {}
    PROVE  \E n \in T : \A m \in T : n <= m
<1> DEFINE below == OpToRel(<, Nat)
<1>1. PICK n \in T : \A m \in T : ~(<<m, n>> \in below)
  BY NatLessThanWellFounded, WFMin
<1>2. \A m \in T : n <= m
  <2> TAKE m \in T
  <2>1. m \in Nat /\ n \in Nat
    OBVIOUS
  <2>2. m < n => <<m, n>> \in below
    BY <2>1 DEF OpToRel
  <2>3. <<m, n>> \notin below
    BY <1>1
  <2> HIDE DEF below
  <2> QED
    BY <2>1, <2>2, <2>3
<1> QED
  BY <1>2

\* The n-th round of an iteration over S takes x to D[n][x].
Steps(S) == [Nat -> [S -> S]]
Iterates(S, c, D, g) == g \in [Nat -> S] /\ g[0] = c /\ \A n \in Nat : g[n + 1] = D[n][g[n]]

\* What the first n rounds of an iteration yield.
Rounds(S, c, D, n) == {f \in [0..n -> S] : f[0] = c /\ \A i \in 0..(n - 1) : f[i + 1] = D[i][f[i]]}

\* An iteration has a value after every round,
LEMMA RoundsExist ==
    ASSUME NEW S, NEW c \in S, NEW D \in [Nat -> [S -> S]], NEW n \in Nat
    PROVE  Rounds(S, c, D, n) # {}
<1> DEFINE T == {k \in Nat : Rounds(S, c, D, k) = {}}
<1> SUFFICES ASSUME T # {} PROVE FALSE
  OBVIOUS
<1>1. PICK k \in T : \A m \in T : k <= m
  BY LeastNumber
<1>2. CASE k = 0
  <2>1. [i \in 0..0 |-> c] \in Rounds(S, c, D, 0)
    BY DEF Rounds
  <2> QED
    BY <2>1, <1>1, <1>2
<1>3. CASE k # 0
  <2>1. k \in Nat /\ k - 1 \in Nat /\ k - 1 \notin T
    <3>1. k \in Nat
      OBVIOUS
    <3>2. k - 1 \in Nat /\ ~(k <= k - 1)
      BY <3>1, <1>3
    <3> QED
      BY <3>1, <3>2, <1>1
  <2>2. PICK f : f \in Rounds(S, c, D, k - 1)
    BY <2>1
  <2>3. /\ f \in [0..(k - 1) -> S] /\ f[0] = c
        /\ \A i \in 0..(k - 1 - 1) : f[i + 1] = D[i][f[i]]
    BY <2>2 DEF Rounds
  <2> DEFINE g == [i \in 0..k |-> IF i = k THEN D[k - 1][f[k - 1]] ELSE f[i]]
  <2>4. g \in [0..k -> S]
    BY <2>1, <2>3
  <2>5. g[0] = c
    BY <2>1, <2>3, <1>3
  <2>6. \A i \in 0..(k - 1) : g[i + 1] = D[i][g[i]]
    <3> SUFFICES ASSUME NEW i \in 0..(k - 1) PROVE g[i + 1] = D[i][g[i]]
      OBVIOUS
    <3>1. g[i] = f[i] /\ i + 1 \in 0..k
      BY <2>1
    <3>2. CASE i = k - 1
      BY <3>1, <3>2, <2>1
    <3>3. CASE i # k - 1
      <4>1. i \in 0..(k - 1 - 1) /\ i + 1 # k
        BY <3>3, <2>1
      <4> QED
        BY <4>1, <3>1, <2>3
    <3> QED
      BY <3>2, <3>3
  <2> HIDE DEF g
  <2>7. g \in Rounds(S, c, D, k)
    BY <2>4, <2>5, <2>6 DEF Rounds
  <2> QED
    BY <2>7, <1>1
<1> QED
  BY <1>2, <1>3

\* only one,
LEMMA RoundsAgree ==
    ASSUME NEW S, NEW c \in S, NEW D \in [Nat -> [S -> S]], NEW m \in Nat, NEW n \in Nat,
           NEW f \in Rounds(S, c, D, m), NEW g \in Rounds(S, c, D, n), NEW k \in Nat, k <= m, k <= n
    PROVE  f[k] = g[k]
<1> DEFINE T == {i \in Nat : i <= m /\ i <= n /\ f[i] # g[i]}
<1> SUFFICES ASSUME T # {} PROVE FALSE
  OBVIOUS
<1>1. PICK i \in T : \A j \in T : i <= j
  BY LeastNumber
<1>2. /\ f[0] = c /\ \A j \in 0..(m - 1) : f[j + 1] = D[j][f[j]]
      /\ g[0] = c /\ \A j \in 0..(n - 1) : g[j + 1] = D[j][g[j]]
  BY DEF Rounds
<1>3. i # 0
  BY <1>1, <1>2
<1>4. i - 1 \in Nat /\ i - 1 \in 0..(m - 1) /\ i - 1 \in 0..(n - 1) /\ i - 1 \notin T
  BY <1>1, <1>3
<1>5. f[i - 1] = g[i - 1]
  BY <1>1, <1>4
<1>6. f[i - 1 + 1] = g[i - 1 + 1]
  BY <1>2, <1>4, <1>5
<1> QED
  BY <1>1, <1>6

\* and so the function that yields them all exists.
LEMMA IterationExists ==
    ASSUME NEW S, NEW c \in S, NEW D \in Steps(S)
    PROVE  \E g : Iterates(S, c, D, g)
<1> DEFINE r(n) == CHOOSE f : f \in Rounds(S, c, D, n)
<1> DEFINE g == [n \in Nat |-> r(n)[n]]
<1>1. \A n \in Nat : r(n) \in Rounds(S, c, D, n)
  BY RoundsExist DEF Steps
<1>2. \A n \in Nat : g[n] = r(n)[n]
  OBVIOUS
<1> HIDE DEF r
<1>3. \A n \in Nat : /\ r(n) \in [0..n -> S] /\ r(n)[0] = c
                     /\ \A i \in 0..(n - 1) : r(n)[i + 1] = D[i][r(n)[i]]
  BY <1>1 DEF Rounds
<1>4. g \in [Nat -> S]
  BY <1>3
<1>5. ASSUME NEW n \in Nat PROVE g[n + 1] = D[n][g[n]]
  <2>1. n + 1 \in Nat /\ n \in 0..(n + 1 - 1)
    OBVIOUS
  <2>2. r(n + 1)[n + 1] = D[n][r(n + 1)[n]]
    <3>1. \A i \in 0..(n + 1 - 1) : r(n + 1)[i + 1] = D[i][r(n + 1)[i]]
      BY <2>1, <1>3
    <3> QED
      BY <3>1, <2>1
  <2>3. r(n + 1) \in Rounds(S, c, D, n + 1) /\ r(n) \in Rounds(S, c, D, n)
    BY <2>1, <1>1
  <2>4. r(n + 1)[n] = r(n)[n]
    <3>1. PICK f : f = r(n + 1)
      OBVIOUS
    <3>2. PICK h : h = r(n)
      OBVIOUS
    <3>3. f \in Rounds(S, c, D, n + 1) /\ h \in Rounds(S, c, D, n) /\ n <= n + 1 /\ n <= n
      BY <2>1, <2>3, <3>1, <3>2
    <3>4. f[n] = h[n]
      BY <2>1, <3>3, RoundsAgree, SMTT(30) DEF Steps
    <3> QED
      BY <3>1, <3>2, <3>4
  <2> QED
    BY <2>1, <2>2, <2>4, <1>2
<1>6. g[0] = c
  BY <1>3, <1>2
<1> QED
  BY <1>4, <1>5, <1>6 DEF Iterates

\* Every node is at one place, and at most once in the channel.
Places ==
    /\ queue \cap Launched = {}
    /\ working \cap (InDone \cup completed \cup failures) = {}
    /\ InDone \cap (completed \cup failures) = {}
    /\ \A i, j \in DOMAIN done : done[i].id = done[j].id => i = j

\* running counts the workers and their completions in the channel.
Running == running = Cardinality(working) + Len(done)

\* remaining counts the missing dependencies.
Counters == ~failed => \A m \in Node : remaining[m] = Cardinality(deps[m] \ completed)

\* The queue holds the nodes that can be launched, all of them.
QueueExact ==
    ~failed => \A m \in Node :
        deps[m] \subseteq completed <=> m \in queue \cup Launched

\* What the loop's control state says.
Control ==
    /\ failed <=> failures # {}
    /\ at = "enter" => working = {} /\ done = <<>> /\ running = 0
    /\ at = "returned" => running = 0
    /\ result = "ok" => at = "returned" /\ ~failed /\ queue = {}

IInv ==
    /\ TypeOK /\ Acyclic(deps)
    /\ Places /\ Running /\ Counters /\ QueueExact /\ Control /\ DependenciesFirst

----------------------------------------------------------------------------
(* Lemmas *)

\* Sets of nodes are finite.
LEMMA NodesFinite ==
    ASSUME NEW S \in SUBSET Node
    PROVE  IsFiniteSet(S) /\ Cardinality(S) \in Nat
<1>1. IsFiniteSet(Node)
  BY NAssumption, FS_Interval DEF Node
<1> QED
  BY <1>1, FS_Subset, FS_CardinalityType

\* The head of a queue is in it.
LEMMA LeastInQueue ==
    ASSUME NEW S \in SUBSET Node, S # {}
    PROVE  Least(S) \in S
<1>1. S \in SUBSET Nat
  BY NAssumption DEF Node
<1>2. \E n \in S : \A m \in S : n <= m
  BY <1>1, LeastNumber
<1> QED
  BY <1>2 DEF Least

\* What arrives in the channel and what leaves it.
LEMMA InDoneAppend ==
    ASSUME TypeOK, NEW n \in Node, NEW ok \in BOOLEAN,
           done' = Append(done, [id |-> n, ok |-> ok])
    PROVE  InDone' = InDone \cup {n} /\ Len(done') = Len(done) + 1
<1>1. Len(done') = Len(done) + 1 /\ DOMAIN done = 1..Len(done) /\ Len(done) \in Nat
      /\ DOMAIN done' = 1..(Len(done) + 1)
  BY DEF TypeOK
<1>2. \A i \in 1..Len(done) : done'[i] = done[i]
  BY DEF TypeOK
<1>3. done'[Len(done) + 1].id = n
  BY DEF TypeOK
<1>4. 1..(Len(done) + 1) = 1..Len(done) \cup {Len(done) + 1}
  BY <1>1
<1> QED
  BY <1>1, <1>2, <1>3, <1>4 DEF InDone

\* Receiving removes the node of the oldest result from the channel.
LEMMA InDoneTail ==
    ASSUME TypeOK, done # <<>>, done' = Tail(done),
           \A i, j \in DOMAIN done : done[i].id = done[j].id => i = j
    PROVE  /\ Head(done) = done[1] /\ Head(done) \in [id : Node, ok : BOOLEAN]
           /\ Head(done).id \in InDone
           /\ InDone' = InDone \ {Head(done).id}
           /\ Len(done') = Len(done) - 1
           /\ \A i, j \in DOMAIN done' : done'[i].id = done'[j].id => i = j
<1>1. /\ Len(done) \in Nat \ {0} /\ DOMAIN done = 1..Len(done)
      /\ Head(done) = done[1]
      /\ Len(done') = Len(done) - 1
      /\ DOMAIN done' = 1..(Len(done) - 1)
      /\ \A i \in 1..(Len(done) - 1) : done'[i] = done[i + 1]
  BY DEF TypeOK
<1>2. Head(done) \in [id : Node, ok : BOOLEAN] /\ Head(done).id \in InDone
  <2> DEFINE C == [id : Node, ok : BOOLEAN]
  <2>1. 1 \in 1..Len(done)
    BY <1>1
  <2>2. done \in Seq(C)
    BY DEF TypeOK
  <2>3. done[1] \in C
    <3> HIDE DEF C
    <3> QED
      BY <2>1, <2>2
  <2> QED
    BY <1>1, <2>1, <2>3 DEF InDone
<1>3. \A i, j \in DOMAIN done' : done'[i].id = done'[j].id => i = j
  BY <1>1
<1>4. \A x \in InDone' : x \in InDone /\ x # Head(done).id
  BY <1>1 DEF InDone
<1>5. \A x \in InDone : x # Head(done).id => x \in InDone'
  <2> SUFFICES ASSUME NEW i \in 2..Len(done) PROVE done[i].id \in InDone'
    BY <1>1 DEF InDone
  <2>1. i - 1 \in DOMAIN done' /\ done'[i - 1] = done[i]
    BY <1>1
  <2> QED
    BY <2>1 DEF InDone
<1> QED
  BY <1>1, <1>2, <1>3, <1>4, <1>5

----------------------------------------------------------------------------
(* The inductive invariant *)

LEMMA InitIInv == Init => IInv
<1> SUFFICES ASSUME Init PROVE IInv
  OBVIOUS
<1> USE DEF Init
<1>1. limit \in 1..N
  BY NAssumption, MaxParallelAssumption DEF LimitFor
<1>2. deps \in Graphs /\ Acyclic(deps)
  OBVIOUS
<1>3. \A n \in Node : deps[n] \in SUBSET Node /\ Cardinality(deps[n]) \in Nat
  BY <1>2, NodesFinite DEF Graphs
<1>4. TypeOK
  <2>1. remaining \in [Node -> Nat]
    BY <1>3
  <2>2. running \in 0..limit
    BY <1>1, NAssumption
  <2>3. queue \in SUBSET Node /\ done \in Seq([id : Node, ok : BOOLEAN])
    OBVIOUS
  <2> QED
    BY <1>1, <1>2, <2>1, <2>2, <2>3 DEF TypeOK
<1>5. InDone = {} /\ Launched = {}
  BY DEF InDone, Launched
<1>6. Places
  BY <1>5 DEF Places
<1>7. Running
  BY FS_EmptySet DEF Running
<1>8. Counters
  BY <1>3 DEF Counters
<1>9. QueueExact
  BY <1>3, <1>5 DEF QueueExact
<1>10. Control /\ DependenciesFirst
  BY <1>5 DEF Control, DependenciesFirst
<1> QED
  BY <1>2, <1>4, <1>6, <1>7, <1>8, <1>9, <1>10 DEF IInv

\* Launching a node moves it from the queue to its worker.
LEMMA StepLaunch ==
    ASSUME IInv, Launch
    PROVE  IInv'
<1> DEFINE n == Least(queue)
<1> USE DEF IInv
<1>1. n \in queue /\ n \in Node
  BY LeastInQueue DEF Launch, MayLaunch, TypeOK
<1>2. n \notin Launched
  BY <1>1 DEF Places
<1>3. InDone' = InDone /\ Launched' = Launched \cup {n}
  BY DEF Launch, InDone, Launched
<1>4. TypeOK' /\ Acyclic(deps)'
  BY <1>1, NAssumption DEF Launch, MayLaunch, TypeOK
<1>5. Places'
  BY <1>1, <1>2, <1>3 DEF Places, Launch, Launched
<1>6. Running'
  <2>1. IsFiniteSet(working) /\ n \notin working
    BY <1>2, NodesFinite DEF TypeOK, Launched
  <2>2. Cardinality(working \cup {n}) = Cardinality(working) + 1
    BY <2>1, FS_AddElement
  <2>3. Cardinality(working) \in Nat /\ Len(done) \in Nat
    BY NodesFinite DEF TypeOK
  <2> QED
    BY <2>2, <2>3 DEF Running, Launch
<1>7. Counters' /\ Control'
  BY DEF Counters, Control, Launch
<1>8. QueueExact'
  BY <1>1, <1>3 DEF QueueExact, Launch
<1>9. DependenciesFirst'
  BY <1>1, <1>3 DEF QueueExact, DependenciesFirst, Launch, MayLaunch
<1> QED
  BY <1>4, <1>5, <1>6, <1>7, <1>8, <1>9

\* A finished worker moves its node to the channel.
LEMMA StepWorker ==
    ASSUME IInv, NEW n \in Node, WorkerDone(n)
    PROVE  IInv'
<1> USE DEF IInv
<1>1. PICK ok \in BOOLEAN : done' = Append(done, [id |-> n, ok |-> ok])
  BY DEF WorkerDone
<1>2. InDone' = InDone \cup {n} /\ Len(done') = Len(done) + 1
  BY <1>1, InDoneAppend
<1>3. Launched' = Launched
  BY <1>2 DEF Launched, WorkerDone
<1>4. TypeOK' /\ Acyclic(deps)'
  BY <1>1 DEF WorkerDone, TypeOK
<1>5. Places'
  <2>1. n \notin InDone \cup completed \cup failures
    BY DEF Places, WorkerDone
  <2>2. \A i, j \in DOMAIN done' : done'[i].id = done'[j].id => i = j
    <3>1. /\ Len(done) \in Nat /\ DOMAIN done = 1..Len(done)
          /\ DOMAIN done' = 1..(Len(done) + 1)
          /\ \A i \in 1..Len(done) : done'[i] = done[i]
          /\ done'[Len(done) + 1].id = n
      BY <1>1 DEF TypeOK
    <3>2. \A i \in DOMAIN done : done[i].id # n
      BY <2>1 DEF InDone
    <3> QED
      BY <3>1, <3>2 DEF Places
  <2> QED
    BY <1>2, <1>3, <2>1, <2>2 DEF Places, WorkerDone
<1>6. Running'
  <2>1. Cardinality(working \ {n}) = Cardinality(working) - 1
    BY NodesFinite, FS_RemoveElement DEF TypeOK, WorkerDone
  <2>2. Cardinality(working) \in Nat /\ Len(done) \in Nat
    BY NodesFinite DEF TypeOK
  <2> QED
    BY <1>2, <2>1, <2>2 DEF Running, WorkerDone
<1>7. Counters' /\ QueueExact' /\ DependenciesFirst'
  BY <1>3 DEF Counters, QueueExact, DependenciesFirst, WorkerDone
<1>8. Control'
  <2>1. working # {} /\ IsFiniteSet(working) /\ Cardinality(working) \in Nat /\ Len(done) \in Nat
    BY NodesFinite DEF WorkerDone, TypeOK
  <2>2. running # 0
    BY <2>1, FS_EmptySet DEF Running
  <2> QED
    BY <2>1, <2>2 DEF Control, WorkerDone
<1> QED
  BY <1>4, <1>5, <1>6, <1>7, <1>8

\* A completion arrives without an error.
LEMMA StepReceiveOk ==
    ASSUME IInv, Receive, ReceiveOk
    PROVE  IInv'
<1> DEFINE n == Head(done).id
<1> USE DEF IInv
<1>1. /\ n \in Node /\ n \in InDone
      /\ InDone' = InDone \ {n}
      /\ Len(done') = Len(done) - 1
      /\ \A i, j \in DOMAIN done' : done'[i].id = done'[j].id => i = j
  BY InDoneTail DEF Receive, Places
<1>2. n \notin completed /\ n \notin failures /\ n \notin working /\ n \notin queue
  BY <1>1 DEF Places, Launched
<1>3. completed' = completed \cup {n} /\ failures' = failures /\ working' = working
      /\ failed' = failed /\ deps' = deps
  BY DEF Receive, ReceiveOk
<1>4. Launched' = Launched
  BY <1>1, <1>3 DEF Launched
<1>5. ASSUME ~failed, NEW m \in Node
      PROVE  /\ deps[m] \in SUBSET Node
             /\ m \in Dependents(n) <=> n \in deps[m]
             /\ Cardinality(deps[m] \ completed) \in Nat
             /\ Cardinality(deps[m] \ completed') =
                  IF n \in deps[m] THEN Cardinality(deps[m] \ completed) - 1
                                   ELSE Cardinality(deps[m] \ completed)
             /\ n \in deps[m] => Cardinality(deps[m] \ completed) # 0
  <2>1. deps[m] \in SUBSET Node
    BY DEF TypeOK, Graphs
  <2>2. IsFiniteSet(deps[m] \ completed) /\ Cardinality(deps[m] \ completed) \in Nat
    BY <2>1, NodesFinite
  <2>3. deps[m] \ completed' = (deps[m] \ completed) \ {n}
    BY <1>3
  <2>4. n \in deps[m] <=> n \in deps[m] \ completed
    BY <1>2
  <2>5. n \in deps[m] => Cardinality(deps[m] \ completed) # 0
    BY <2>2, <2>4, FS_EmptySet
  <2>6. m \in Dependents(n) <=> n \in deps[m]
    BY DEF Dependents
  <2> QED
    BY <2>1, <2>2, <2>3, <2>4, <2>5, <2>6, FS_RemoveElement
<1>6. Counters'
  <2> SUFFICES ASSUME ~failed, NEW m \in Node
               PROVE  remaining'[m] = Cardinality(deps[m] \ completed')
    BY <1>3 DEF Counters
  <2>1. remaining[m] = Cardinality(deps[m] \ completed)
    BY DEF Counters
  <2>2. remaining'[m] = IF m \in Dependents(n) THEN remaining[m] - 1 ELSE remaining[m]
    BY DEF ReceiveOk
  <2> QED
    BY <1>5, <2>1, <2>2
<1>7. TypeOK' /\ Acyclic(deps)'
  <2>1. remaining' \in [Node -> Nat]
    <3>1. CASE failed
      BY <3>1 DEF ReceiveOk, TypeOK
    <3>2. CASE ~failed
      <4> SUFFICES ASSUME NEW m \in Node
                   PROVE  (IF m \in Dependents(n) THEN remaining[m] - 1 ELSE remaining[m]) \in Nat
        BY <3>2 DEF ReceiveOk
      <4>1. remaining[m] = Cardinality(deps[m] \ completed) /\ remaining[m] \in Nat
        BY <3>2 DEF Counters, TypeOK
      <4>2. m \in Dependents(n) => remaining[m] # 0
        BY <3>2, <4>1, <1>5
      <4> QED
        BY <4>1, <4>2
    <3> QED
      BY <3>1, <3>2
  <2>2. queue' \in SUBSET Node
    BY DEF ReceiveOk, TypeOK, ReadyAfter, Dependents
  <2>3. done' \in Seq([id : Node, ok : BOOLEAN])
    BY DEF Receive, TypeOK
  <2>4. running' \in 0..limit'
    BY NAssumption DEF Receive, TypeOK
  <2> QED
    BY <1>1, <1>3, <2>1, <2>2, <2>3, <2>4 DEF TypeOK, Receive
<1>8. QueueExact'
  <2> SUFFICES ASSUME ~failed, NEW m \in Node
               PROVE  deps[m] \subseteq completed' <=> m \in queue' \cup Launched
    BY <1>3, <1>4 DEF QueueExact
  <2>1. queue' = queue \cup ReadyAfter(n)
    BY DEF ReceiveOk
  <2>2. deps[m] \subseteq completed' <=> Cardinality(deps[m] \ completed') = 0
    <3>1. IsFiniteSet(deps[m] \ completed')
      BY <1>5, NodesFinite
    <3> QED
      BY <3>1, FS_EmptySet
  <2>3. deps[m] \subseteq completed <=> m \in queue \cup Launched
    BY DEF QueueExact
  <2>4. remaining[m] = Cardinality(deps[m] \ completed)
    BY DEF Counters
  <2>5. m \in ReadyAfter(n) <=> n \in deps[m] /\ remaining[m] = 1
    BY DEF ReadyAfter, Dependents
  <2>6. deps[m] \subseteq completed <=> Cardinality(deps[m] \ completed) = 0
    <3>1. IsFiniteSet(deps[m] \ completed)
      BY <1>5, NodesFinite
    <3> QED
      BY <3>1, FS_EmptySet
  <2>7. CASE n \in deps[m]
    <3>1. deps[m] \subseteq completed' <=> remaining[m] = 1
      BY <2>2, <2>4, <2>7, <1>5
    <3>2. m \notin queue \cup Launched
      BY <2>3, <2>6, <2>7, <1>5
    <3> QED
      BY <2>1, <2>5, <2>7, <3>1, <3>2
  <2>8. CASE n \notin deps[m]
    <3>1. deps[m] \subseteq completed' <=> deps[m] \subseteq completed
      BY <2>8, <1>3
    <3> QED
      BY <2>1, <2>3, <2>5, <2>8, <3>1
  <2> QED
    BY <2>7, <2>8
<1>9. Places'
  <2>1. queue' \cap Launched = {}
    <3>1. CASE failed
      BY <3>1 DEF ReceiveOk, Places
    <3>2. CASE ~failed
      <4>1. \A m \in ReadyAfter(n) : m \notin Launched
        <5> SUFFICES ASSUME NEW m \in Node, n \in deps[m] PROVE m \notin Launched
          BY DEF ReadyAfter, Dependents
        <5>1. ~(deps[m] \subseteq completed)
          BY <1>2
        <5> QED
          BY <3>2, <5>1 DEF QueueExact
      <4> QED
        BY <3>2, <4>1 DEF ReceiveOk, Places
    <3> QED
      BY <3>1, <3>2
  <2> QED
    BY <1>1, <1>2, <1>3, <1>4, <2>1 DEF Places
<1>10. Running'
  <2>1. Cardinality(working) \in Nat /\ Len(done) \in Nat
    BY NodesFinite DEF TypeOK
  <2> QED
    BY <1>1, <1>3, <2>1 DEF Running, Receive
<1>11. Control'
  BY <1>3 DEF Control, Receive
<1>12. DependenciesFirst'
  BY <1>3, <1>4 DEF DependenciesFirst
<1> QED
  BY <1>6, <1>7, <1>8, <1>9, <1>10, <1>11, <1>12

\* A completion arrives with an error.
LEMMA StepReceiveError ==
    ASSUME IInv, Receive, ReceiveError
    PROVE  IInv'
<1> DEFINE n == Head(done).id
<1> USE DEF IInv
<1>1. /\ n \in Node /\ n \in InDone
      /\ InDone' = InDone \ {n}
      /\ Len(done') = Len(done) - 1
      /\ \A i, j \in DOMAIN done' : done'[i].id = done'[j].id => i = j
  BY InDoneTail DEF Receive, Places
<1>2. n \notin completed /\ n \notin failures /\ n \notin working /\ n \notin queue
  BY <1>1 DEF Places, Launched
<1>3. failures' = failures \cup {n} /\ completed' = completed /\ working' = working
      /\ failed' /\ deps' = deps /\ queue' = queue /\ remaining' = remaining
  BY DEF Receive, ReceiveError
<1>4. Launched' = Launched
  BY <1>1, <1>3 DEF Launched
<1>5. TypeOK' /\ Acyclic(deps)'
  <2>1. done' \in Seq([id : Node, ok : BOOLEAN])
    BY DEF Receive, TypeOK
  <2>2. running' \in 0..limit'
    BY NAssumption DEF Receive, TypeOK
  <2>3. failed' \in BOOLEAN
    BY DEF ReceiveError
  <2> QED
    BY <1>1, <1>3, <2>1, <2>2, <2>3 DEF TypeOK, Receive
<1>6. Places'
  BY <1>1, <1>2, <1>3, <1>4 DEF Places
<1>7. Running'
  <2>1. Cardinality(working) \in Nat /\ Len(done) \in Nat
    BY NodesFinite DEF TypeOK
  <2> QED
    BY <1>1, <1>3, <2>1 DEF Running, Receive
<1>8. Counters' /\ QueueExact'
  BY <1>3 DEF Counters, QueueExact
<1>9. Control'
  BY <1>3 DEF Control, Receive
<1>10. DependenciesFirst'
  BY <1>3, <1>4 DEF DependenciesFirst
<1> QED
  BY <1>5, <1>6, <1>7, <1>8, <1>9, <1>10

\* Entering, returning and cancelling touch none of the books.
LEMMA StepOther ==
    ASSUME IInv, Enter \/ Return \/ Cancel \/ UNCHANGED vars
    PROVE  IInv'
<1> USE DEF IInv
<1>1. UNCHANGED <<deps, limit, remaining, queue, running, working, done,
                  completed, failures, failed>>
  BY DEF Enter, Return, Cancel, vars
<1>2. InDone' = InDone /\ Launched' = Launched
  BY <1>1 DEF InDone, Launched
<1>3. Places' /\ Running' /\ Counters' /\ QueueExact' /\ DependenciesFirst' /\ Acyclic(deps)'
  BY <1>1, <1>2 DEF Places, Running, Counters, QueueExact, DependenciesFirst
<1>4. TypeOK'
  <2>1. at' \in {"enter", "loop", "returned"} /\ cancelled' \in BOOLEAN
        /\ result' \in {"none", "ok", "error", "cancelled"}
    BY DEF Enter, Return, Cancel, vars, TypeOK
  <2> QED
    BY <1>1, <2>1 DEF TypeOK
<1>5. Control'
  <2>1. CASE Enter
    BY <2>1 DEF Control, Enter, TypeOK
  <2>2. CASE Return
    BY <2>2 DEF Control, Return, LoopEnds, TypeOK
  <2>3. CASE Cancel \/ UNCHANGED vars
    BY <2>3 DEF Control, Cancel, vars
  <2> QED
    BY <2>1, <2>2, <2>3
<1> QED
  BY <1>3, <1>4, <1>5

\* The invariant is inductive.
LEMMA Inductive == IInv /\ [Next]_vars => IInv'
  BY StepLaunch, StepWorker, StepReceiveOk, StepReceiveError, StepOther DEF Next, Receive

----------------------------------------------------------------------------
(* The theorems *)

\* The inductive invariant holds in every reachable state.
THEOREM Invariance == Spec => []IInv
<1> QED
  BY InitIInv, Inductive, PTL DEF Spec

\* Every variable keeps its type; in particular never more than limit nodes
\* run, and no counter of missing dependencies falls below zero.
THEOREM TypeCorrect == Spec => []TypeOK
<1>1. IInv => TypeOK
  BY DEF IInv
<1> QED
  BY <1>1, Invariance, PTL

\* For every plan and every order of completions, a node is launched only
\* after all its dependencies have completed successfully.
THEOREM DependenciesCompleteFirst == Spec => []DependenciesFirst
<1>1. IInv => DependenciesFirst
  BY DEF IInv
<1> QED
  BY <1>1, Invariance, PTL

\* The channel of capacity limit always has room for a worker's completion.
THEOREM WorkersNeverBlock == Spec => []ChannelHasRoom
<1>1. IInv => ChannelHasRoom
  <2> SUFFICES ASSUME IInv, working # {} PROVE Len(done) < limit
    BY DEF ChannelHasRoom
  <2>1. IsFiniteSet(working) /\ Cardinality(working) \in Nat /\ Len(done) \in Nat
    BY NodesFinite DEF IInv, TypeOK
  <2>2. Cardinality(working) # 0
    BY <2>1, FS_EmptySet
  <2>3. limit \in Nat /\ running <= limit
    BY NAssumption DEF IInv, TypeOK
  <2> QED
    BY <2>1, <2>2, <2>3 DEF IInv, Running
<1> QED
  BY <1>1, Invariance, PTL

\* A state in which running is 0 has no worker and nothing in the channel.
LEMMA NothingRuns ==
    ASSUME IInv, running = 0
    PROVE  working = {} /\ done = <<>>
<1>1. IsFiniteSet(working) /\ Cardinality(working) \in Nat /\ Len(done) \in Nat
  BY NodesFinite DEF IInv, TypeOK
<1>2. Cardinality(working) = 0 /\ Len(done) = 0
  BY <1>1 DEF IInv, Running
<1> QED
  BY <1>1, <1>2, FS_EmptySet DEF IInv, TypeOK

\* Execute joins every worker before it returns.
THEOREM WorkersAreJoined == Spec => []NoWorkerLeft
<1>1. IInv => NoWorkerLeft
  <2> SUFFICES ASSUME IInv, at = "returned"
               PROVE  working = {} /\ done = <<>> /\ running = 0
    BY DEF NoWorkerLeft
  <2> QED
    BY NothingRuns DEF IInv, Control
<1> QED
  BY <1>1, Invariance, PTL

\* When Execute returns no error, every node of the plan has run: no acyclic
\* plan leaves a node behind that nothing would ever launch.
THEOREM SuccessIsComplete == Spec => []SuccessMeansAll
<1>1. IInv => SuccessMeansAll
  <2> SUFFICES ASSUME IInv, result = "ok", completed # Node PROVE FALSE
    BY DEF SuccessMeansAll
  <2> DEFINE S == Node \ completed
  <2>1. at = "returned" /\ ~failed /\ queue = {} /\ running = 0 /\ failures = {}
    BY DEF IInv, Control
  <2>2. Launched = completed
    BY <2>1, NothingRuns DEF Launched, InDone
  <2>3. S \in SUBSET Node /\ S # {}
    BY DEF IInv, TypeOK
  <2>4. PICK n \in S : deps[n] \cap S = {}
    BY <2>3 DEF IInv, Acyclic
  <2>5. deps[n] \subseteq completed
    BY <2>4 DEF IInv, TypeOK, Graphs
  <2> QED
    BY <2>1, <2>2, <2>4, <2>5 DEF IInv, QueueExact
<1> QED
  BY <1>1, Invariance, PTL

----------------------------------------------------------------------------
(* The plan *)

\* What one round of Build places.
Ready(d, earlier) == {n \in Node : d[n] \subseteq earlier}

\* The levels that Build peels off, round by round.
LEMMA PlacedByRounds ==
    ASSUME NEW d \in Graphs
    PROVE  /\ Placed(d) \in [Nat -> SUBSET Node] /\ Placed(d)[0] = {}
           /\ \A k \in Nat : Placed(d)[k + 1] = Ready(d, Placed(d)[k])
<1> DEFINE S == SUBSET Node
<1> DEFINE D == [n \in Nat |-> [e \in S |-> Ready(d, e)]]
<1>1. {} \in S /\ D \in Steps(S)
  BY DEF Ready, Steps
<1>2. PICK g : Iterates(S, {}, D, g)
  <2> HIDE DEF D, S
  <2> QED
    BY <1>1, IterationExists
<1>3. \A n \in Nat : g[n + 1] = Ready(d, g[n])
  BY <1>2 DEF Iterates
<1>4. \A k \in Nat : g[k] = IF k = 0 THEN {} ELSE {n \in Node : d[n] \subseteq g[k - 1]}
  <2> SUFFICES ASSUME NEW k \in Nat, k # 0 PROVE g[k] = {n \in Node : d[n] \subseteq g[k - 1]}
    BY <1>2 DEF Iterates
  <2>1. k - 1 \in Nat /\ k - 1 + 1 = k
    OBVIOUS
  <2>2. g[k - 1 + 1] = Ready(d, g[k - 1])
    BY <2>1, <1>3
  <2> QED
    BY <2>1, <2>2 DEF Ready
<1>5. g = [k \in Nat |-> IF k = 0 THEN {} ELSE {n \in Node : d[n] \subseteq g[k - 1]}]
  BY <1>2, <1>4 DEF Iterates
<1>6. Placed(d) = CHOOSE h : h = [k \in Nat |-> IF k = 0 THEN {} ELSE {n \in Node : d[n] \subseteq h[k - 1]}]
  BY Zenon DEF Placed
<1>7. Placed(d) = [k \in Nat |-> IF k = 0 THEN {} ELSE {n \in Node : d[n] \subseteq Placed(d)[k - 1]}]
  BY <1>5, <1>6, ZenonT(30)
<1>p. PICK h : h = Placed(d)
  OBVIOUS
<1>8. h = [k \in Nat |-> IF k = 0 THEN {} ELSE {n \in Node : d[n] \subseteq h[k - 1]}]
  BY <1>p, <1>7
<1>9. h \in [Nat -> SUBSET Node] /\ h[0] = {}
  BY <1>8
<1>10. \A k \in Nat : h[k + 1] = Ready(d, h[k])
  <2> SUFFICES ASSUME NEW k \in Nat PROVE h[k + 1] = Ready(d, h[k])
    OBVIOUS
  <2>1. k + 1 \in Nat /\ k + 1 # 0 /\ k + 1 - 1 = k
    OBVIOUS
  <2>2. h[k + 1] = {n \in Node : d[n] \subseteq h[k + 1 - 1]}
    BY <2>1, <1>8
  <2> QED
    BY <2>1, <2>2 DEF Ready
<1> QED
  BY <1>p, <1>9, <1>10

\* What is placed stays placed.
LEMMA PlacedGrows ==
    ASSUME NEW d \in Graphs, NEW k \in Nat, NEW l \in Nat, k <= l
    PROVE  Placed(d)[k] \subseteq Placed(d)[l]
<1>p. PICK h : h = Placed(d)
  OBVIOUS
<1>0. h \in [Nat -> SUBSET Node] /\ h[0] = {} /\ \A i \in Nat : h[i + 1] = Ready(d, h[i])
  BY <1>p, PlacedByRounds
<1>1. \A i \in Nat : h[i] \subseteq h[i + 1]
  <2> DEFINE T == {i \in Nat : ~(h[i] \subseteq h[i + 1])}
  <2> SUFFICES ASSUME T # {} PROVE FALSE
    OBVIOUS
  <2>1. PICK i \in T : \A j \in T : i <= j
    BY LeastNumber
  <2>2. i # 0
    BY <2>1, <1>0
  <2>3. i - 1 \in Nat /\ i - 1 + 1 = i /\ i - 1 \notin T
    BY <2>1, <2>2
  <2>4. h[i - 1] \subseteq h[i]
    BY <2>3
  <2>5. h[i] = Ready(d, h[i - 1]) /\ h[i + 1] = Ready(d, h[i])
    BY <2>3, <1>0
  <2> QED
    BY <2>1, <2>4, <2>5 DEF Ready
<1>2. h[k] \subseteq h[l]
  <2> DEFINE T == {i \in Nat : k <= i /\ ~(h[k] \subseteq h[i])}
  <2> SUFFICES ASSUME T # {} PROVE FALSE
    OBVIOUS
  <2>1. PICK i \in T : \A j \in T : i <= j
    BY LeastNumber
  <2>2. i # k
    BY <2>1
  <2>3. i - 1 \in Nat /\ k <= i - 1 /\ i - 1 + 1 = i /\ i - 1 \notin T
    BY <2>1, <2>2
  <2>4. h[k] \subseteq h[i - 1] /\ h[i - 1] \subseteq h[i - 1 + 1]
    BY <2>3, <1>1
  <2> QED
    BY <2>1, <2>3, <2>4
<1> QED
  BY <1>p, <1>2

\* A node is placed in the round after its last dependency.
LEMMA FirstRound ==
    ASSUME NEW d \in Graphs, NEW S \in SUBSET Node, NEW k \in Nat, S \cap Placed(d)[k] # {}
    PROVE  \E l \in 0..(k - 1) : S \cap Placed(d)[l] = {} /\ S \cap Placed(d)[l + 1] # {}
<1>p. PICK h : h = Placed(d)
  OBVIOUS
<1>0. h \in [Nat -> SUBSET Node] /\ h[0] = {}
  BY <1>p, PlacedByRounds
<1> DEFINE T == {i \in Nat : S \cap h[i] # {}}
<1>1. k \in T
  BY <1>p
<1>2. PICK i \in T : \A j \in T : i <= j
  BY <1>1, LeastNumber
<1>3. i # 0 /\ i <= k
  BY <1>0, <1>1, <1>2
<1>4. i - 1 \in 0..(k - 1) /\ i - 1 \notin T /\ i - 1 + 1 = i
  BY <1>2, <1>3
<1>5. S \cap h[i - 1] = {} /\ S \cap h[i - 1 + 1] # {}
  BY <1>2, <1>4
<1> QED
  BY <1>p, <1>4, <1>5

\* Of a graph without a cycle every round places another node,
LEMMA AcyclicIsPlaced ==
    ASSUME NEW d \in Graphs, Acyclic(d)
    PROVE  Placed(d)[N] = Node
<1>p. PICK h : h = Placed(d)
  OBVIOUS
<1>0. h \in [Nat -> SUBSET Node] /\ h[0] = {} /\ \A i \in Nat : h[i + 1] = Ready(d, h[i])
  BY <1>p, PlacedByRounds
<1>1. ASSUME NEW i \in Nat, h[i] # Node
      PROVE  Cardinality(h[i]) + 1 <= Cardinality(h[i + 1])
  <2>1. PICK n \in Node \ h[i] : d[n] \cap (Node \ h[i]) = {}
    <3>1. Node \ h[i] \in SUBSET Node /\ Node \ h[i] # {}
      BY <1>0, <1>1
    <3> QED
      BY <3>1 DEF Acyclic
  <2>2. n \in h[i + 1]
    BY <2>1, <1>0 DEF Ready, Graphs
  <2>3. h[i] \cup {n} \subseteq h[i + 1]
    BY <2>2, <1>p, PlacedGrows
  <2>4. Cardinality(h[i] \cup {n}) = Cardinality(h[i]) + 1
    BY <2>1, <1>0, NodesFinite, FS_AddElement
  <2>5. Cardinality(h[i] \cup {n}) <= Cardinality(h[i + 1])
    BY <2>3, <1>0, NodesFinite, FS_Subset
  <2> QED
    BY <2>4, <2>5
<1>2. \A i \in Nat : h[i] = Node \/ i <= Cardinality(h[i])
  <2> DEFINE T == {i \in Nat : ~(h[i] = Node \/ i <= Cardinality(h[i]))}
  <2> SUFFICES ASSUME T # {} PROVE FALSE
    OBVIOUS
  <2>1. PICK i \in T : \A j \in T : i <= j
    BY LeastNumber
  <2>2. i # 0
    BY <2>1, <1>0, NodesFinite
  <2>3. i - 1 \in Nat /\ i - 1 + 1 = i /\ i - 1 \notin T
    BY <2>1, <2>2
  <2>4. CASE h[i - 1] = Node
    <3>1. h[i - 1] \subseteq h[i]
      BY <2>3, <1>p, PlacedGrows
    <3> QED
      BY <3>1, <2>1, <2>4, <1>0
  <2>5. CASE h[i - 1] # Node
    <3>1. Cardinality(h[i - 1]) + 1 <= Cardinality(h[i]) /\ i - 1 <= Cardinality(h[i - 1])
      BY <2>3, <2>5, <1>1
    <3>2. Cardinality(h[i - 1]) \in Nat /\ Cardinality(h[i]) \in Nat
      BY <2>1, <2>3, <1>0, NodesFinite
    <3> QED
      BY <3>1, <3>2, <2>1
  <2> QED
    BY <2>4, <2>5
<1>3. Cardinality(Node) = N /\ IsFiniteSet(Node) /\ N \in Nat
  BY NAssumption, FS_Interval DEF Node
<1>4. CASE N <= Cardinality(h[N])
  <2>1. h[N] \subseteq Node /\ Cardinality(h[N]) \in Nat
    BY <1>0, <1>3, NodesFinite
  <2>2. Cardinality(h[N]) <= N /\ (Cardinality(h[N]) = N => h[N] = Node)
    BY <2>1, <1>3, FS_Subset
  <2> QED
    BY <2>1, <2>2, <1>3, <1>4, <1>p
<1> QED
  BY <1>2, <1>3, <1>4, <1>p

\* and a cycle is never placed.
LEMMA AcceptedIsAcyclic ==
    ASSUME NEW d \in Graphs, Placed(d)[N] = Node
    PROVE  Acyclic(d)
<1>1. SUFFICES ASSUME NEW S \in SUBSET Node, S # {}
               PROVE  \E n \in S : d[n] \cap S = {}
  BY DEF Acyclic
<1>2. N \in Nat /\ S \cap Placed(d)[N] # {}
  BY <1>1, NAssumption
<1>3. PICK l \in 0..(N - 1) : S \cap Placed(d)[l] = {} /\ S \cap Placed(d)[l + 1] # {}
  BY <1>2, FirstRound
<1>4. PICK n \in S : n \in Placed(d)[l + 1]
  BY <1>3
<1>5. l \in Nat
  BY <1>2
<1>6. Placed(d)[l + 1] = Ready(d, Placed(d)[l])
  BY <1>5, PlacedByRounds
<1>7. d[n] \subseteq Placed(d)[l]
  BY <1>4, <1>6 DEF Ready
<1> QED
  BY <1>3, <1>7

\* Build accepts exactly the graphs without a cycle.
LEMMA BuildExact == BuildIsExact
<1> SUFFICES ASSUME NEW d \in Graphs PROVE Accepted(d) <=> Acyclic(d)
  BY DEF BuildIsExact
<1>1. ASSUME Acyclic(d), NEW n \in Node PROVE n \notin d[n]
  <2>1. {n} \in SUBSET Node /\ {n} # {}
    OBVIOUS
  <2>2. PICK m \in {n} : d[m] \cap {n} = {}
    BY <2>1, <1>1 DEF Acyclic
  <2> QED
    BY <2>2
<1> QED
  BY <1>1, AcyclicIsPlaced, AcceptedIsAcyclic DEF Accepted

\* Its start order puts a node after its dependencies.
LEMMA StartOrder ==
    ASSUME NEW d \in Graphs, Acyclic(d), NEW n \in Node, NEW m \in d[n]
    PROVE  StartsBefore(d, m, n)
<1>1. N \in Nat /\ Placed(d)[N] = Node /\ m \in Node
  BY AcyclicIsPlaced, NAssumption DEF Graphs
<1>2. ASSUME NEW i \in Node
      PROVE  /\ LevelOf(d, i) \in 0..(N - 1)
             /\ i \in Placed(d)[LevelOf(d, i) + 1] \ Placed(d)[LevelOf(d, i)]
  <2>s. PICK S : S = {i}
    OBVIOUS
  <2>1. S \in SUBSET Node /\ S \cap Placed(d)[N] # {}
    BY <2>s, <1>1
  <2>2. PICK l \in 0..(N - 1) : S \cap Placed(d)[l] = {} /\ S \cap Placed(d)[l + 1] # {}
    BY <2>1, <1>1, FirstRound
  <2>3. \E k \in 0..(N - 1) : i \in Placed(d)[k + 1] \ Placed(d)[k]
    BY <2>s, <2>2
  <2> QED
    BY <2>3 DEF LevelOf
<1>3. PICK a, b : a = LevelOf(d, m) /\ b = LevelOf(d, n)
  OBVIOUS
<1>4. /\ a \in Nat /\ b \in Nat /\ n \in Placed(d)[b + 1] /\ m \notin Placed(d)[a]
  BY <1>1, <1>2, <1>3
<1>5. m \in Placed(d)[b]
  <2>1. Placed(d)[b + 1] = Ready(d, Placed(d)[b])
    BY <1>4, PlacedByRounds
  <2> QED
    BY <2>1, <1>4 DEF Ready
<1>6. ~(b <= a)
  BY <1>4, <1>5, PlacedGrows
<1>7. a < b
  BY <1>4, <1>6
<1> QED
  BY <1>3, <1>7 DEF StartsBefore

\* Build's plan is right for every graph of every size: it refuses exactly the
\* cyclic ones, and its order is a dependency order.
THEOREM PlansAreOrdered == Spec => []PlanIsOrdered
<1>1. IInv => PlanIsOrdered
  BY BuildExact, StartOrder DEF IInv, TypeOK, PlanIsOrdered
<1> QED
  BY <1>1, Invariance, PTL

============================================================================
