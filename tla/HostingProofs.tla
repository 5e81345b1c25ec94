---------------------------- MODULE HostingProofs ----------------------------
(***************************************************************************)
(* Proofs about a host of several applications, for every set of manifests, *)
(* whatever their applications, instances, dependencies and capabilities.  *)
(*                                                                         *)
(* Everything rests on the start order: it holds no instance twice and     *)
(* none before one that it depends on (StartOrder).  At any time a prefix  *)
(* of it is ready, at most one instance is being started or stopped, and   *)
(* the rest is off (Progress), whatever failed.                            *)
(***************************************************************************)
EXTENDS Hosting, FiniteSetTheorems, SequenceTheorems, WellFoundedInduction, TLAPS

\* A set of numbers has a least one: how the proofs below do induction.
LEMMA LeastNumber ==
    ASSUME NEW T \in SUBSET Nat, T # {}
    PROVE  \E n \in T : \A m \in T : n <= m
<1> DEFINE below == OpToRel(<, Nat)
<1>1. PICK n \in T : \A m \in T : ~(<<m, n>> \in below)
  BY NatLessThanWellFounded, WFMin
<1>2. \A m \in T : n <= m
  <2> TAKE m \in T
  <2>1. m \in Nat /\ n \in Nat
    OBVIOUS
  <2>2. m < n => <<m, n>> \in below
    BY <2>1 DEF OpToRel
  <2>3. <<m, n>> \notin below
    BY <1>1
  <2> HIDE DEF below
  <2> QED
    BY <2>1, <2>2, <2>3
<1> QED
  BY <1>2

\* What the first n rounds of an iteration over S yield, when round i takes x to
\* D[i][x].
Rounds(S, c, D, n) == {f \in [0..n -> S] : f[0] = c /\ \A i \in 0..(n - 1) : f[i + 1] = D[i][f[i]]}

\* A loop has a value after every round: the recursive functions of HostManifest
\* exist.
LEMMA RoundsExist ==
    ASSUME NEW S, NEW c \in S, NEW D \in [Nat -> [S -> S]], NEW n \in Nat
    PROVE  Rounds(S, c, D, n) # {}
<1> DEFINE T == {k \in Nat : Rounds(S, c, D, k) = {}}
<1> SUFFICES ASSUME T # {} PROVE FALSE
  OBVIOUS
<1>1. PICK k \in T : \A m \in T : k <= m
  BY LeastNumber
<1>2. CASE k = 0
  <2>1. [i \in 0..0 |-> c] \in Rounds(S, c, D, 0)
    BY DEF Rounds
  <2> QED
    BY <2>1, <1>1, <1>2
<1>3. CASE k # 0
  <2>1. k \in Nat /\ k - 1 \in Nat /\ k - 1 \notin T
    <3>1. k \in Nat
      OBVIOUS
    <3>2. k - 1 \in Nat /\ ~(k <= k - 1)
      BY <3>1, <1>3
    <3> QED
      BY <3>1, <3>2, <1>1
  <2>2. PICK f : f \in Rounds(S, c, D, k - 1)
    BY <2>1
  <2>3. /\ f \in [0..(k - 1) -> S] /\ f[0] = c
        /\ \A i \in 0..(k - 1 - 1) : f[i + 1] = D[i][f[i]]
    BY <2>2 DEF Rounds
  <2> DEFINE g == [i \in 0..k |-> IF i = k THEN D[k - 1][f[k - 1]] ELSE f[i]]
  <2>4. g \in [0..k -> S]
    BY <2>1, <2>3
  <2>5. g[0] = c
    BY <2>1, <2>3, <1>3
  <2>6. \A i \in 0..(k - 1) : g[i + 1] = D[i][g[i]]
    <3> SUFFICES ASSUME NEW i \in 0..(k - 1) PROVE g[i + 1] = D[i][g[i]]
      OBVIOUS
    <3>1. g[i] = f[i] /\ i + 1 \in 0..k
      BY <2>1
    <3>2. CASE i = k - 1
      BY <3>1, <3>2, <2>1
    <3>3. CASE i # k - 1
      <4>1. i \in 0..(k - 1 - 1) /\ i + 1 # k
        BY <3>3, <2>1
      <4> QED
        BY <4>1, <3>1, <2>3
    <3> QED
      BY <3>2, <3>3
  <2> HIDE DEF g
  <2>7. g \in Rounds(S, c, D, k)
    BY <2>4, <2>5, <2>6 DEF Rounds
  <2> QED
    BY <2>7, <1>1
<1> QED
  BY <1>2, <1>3

\* What an order of instances promises: none twice, and none before those of an
\* application it depends on.
Unique(o) == \A j, k \in 1 .. Len(o) : o[j] = o[k] => j = k
Layered(h, o) == \A j, k \in 1 .. Len(o) : o[j][1] \in DependsOn(h, o[k][1]) => j < k

\* The positions of the main goroutine at which every instance has started and
\* none is being stopped.
Serving == {"activate", "pollsters", "gateway", "up", "drain", "stoppoll"}

\* How far each instance is follows from its place in the start order: those
\* before the current one are ready, those behind it are off.
Progress ==
    /\ pc = "load" => order = <<>>
    /\ pc = "boot" => order = <<>> \/ at \in 1 .. Len(order)
    /\ pc \in Serving => at = Len(order)
    /\ pc = "stop" => at \in 0 .. Len(order)
    /\ \A k \in 1 .. Len(order) :
        /\ pc = "boot" /\ k = at => phase[order[k]] \in {"off", "planned", "init", "launched", "published"}
        /\ pc = "stop" /\ k = at =>
              phase[order[k]] \in {"ready", "unpublished", "revoked", "cancelled", "closed", "off"}
        /\ pc \in {"boot", "stop"} /\ k < at => phase[order[k]] = "ready"
        /\ pc \in {"boot", "stop"} /\ k > at => phase[order[k]] = "off"
        /\ pc \in Serving => phase[order[k]] = "ready"
        /\ pc = "exited" => phase[order[k]] = "off"

\* The order of the instances.
Ordered == Unique(order) /\ Layered(host, order)

\* An instance is in the registry from markReady to markUnavailable.
Published == \A i \in Instances : i \in entries <=> phase[i] \in {"published", "ready"}

\* A goroutine of an instance is in its guests only while the join of that
\* goroutine is still to come,
Entered ==
    \A t \in Goroutine : stack[t] # <<>> =>
        /\ stack[t][1].at = t[2]
        /\ t[1] = "loop" => phase[t[2]] \in Loaded
        /\ t[1] = "operator" => phase[t[2]] \in Accessible \cup {"revoked"}

\* and in guests of another one only while that one waits for inbound calls or
\* has not begun to stop.
Called ==
    \A t \in Goroutine : \A k \in 2 .. Len(stack[t]) :
        phase[stack[t][k].at] \in {"published", "ready", "unpublished"}

\* Events arrive while everything is up, and wait at most until the cells are
\* closed.
Polls ==
    /\ polling => pc \in {"gateway", "up", "drain", "stoppoll"}
    /\ \A i \in Instances : queue[i] => phase[i] \in {"ready", "unpublished", "revoked", "cancelled"}

\* An instance that is off has nothing set up, except where a setup failed.
Kept ==
    /\ unfinished # {} => pc \in {"stop", "exited"}
    /\ \A i \in Instances \ unfinished : phase[i] = "off" => caps[i] = {} /\ endpoint[i] = 0

IInv == TypeOK /\ Ordered /\ Progress /\ Published /\ Entered /\ Called /\ Polls /\ Kept

----------------------------------------------------------------------------
(* the start order *)

\* The least member of a set of numbers.
LEMMA MinIsMember ==
    ASSUME NEW S \in SUBSET Nat, S # {}
    PROVE  Min(S) \in S /\ \A m \in S : Min(S) <= m
<1>1. \E n \in S : \A m \in S : n <= m
  BY LeastNumber
<1> QED
  BY <1>1 DEF Min

\* One round of InOrder, and what may be said of its outcome so far.
Taking(S, p, s) ==
    LET ready == {a \in S \ Range(s) : p[a] \subseteq Range(s)}
    IN IF ready = {} THEN s ELSE Append(s, Min(ready))
InTurn(p, s) ==
    /\ \A j, k \in 1 .. Len(s) : s[j] = s[k] => j = k
    /\ \A k \in 1 .. Len(s) : \A d \in p[s[k]] : \E j \in 1 .. k - 1 : s[j] = d

\* A round keeps it.
LEMMA TakingKeeps ==
    ASSUME NEW S \in SUBSET Nat, NEW p, NEW s \in Seq(S), InTurn(p, s)
    PROVE  Taking(S, p, s) \in Seq(S) /\ InTurn(p, Taking(S, p, s))
<1> DEFINE ready == {a \in S \ Range(s) : p[a] \subseteq Range(s)}
<1>1. CASE ready = {}
  BY <1>1 DEF Taking
<1>2. CASE ready # {}
  <2> DEFINE m == Min(ready)
             t == Append(s, m)
  <2>1. m \in S /\ m \notin Range(s) /\ p[m] \subseteq Range(s)
    <3>1. ready \in SUBSET Nat
      OBVIOUS
    <3> QED
      BY <3>1, <1>2, MinIsMember
  <2>2. Taking(S, p, s) = t
    BY <1>2 DEF Taking
  <2> HIDE DEF m
  <2>3. /\ t \in Seq(S) /\ Len(t) = Len(s) + 1 /\ t[Len(s) + 1] = m /\ Len(s) \in Nat
        /\ \A k \in 1 .. Len(s) : t[k] = s[k]
    BY <2>1
  <2>4. Range(s) = {s[k] : k \in 1 .. Len(s)}
    BY DEF Range
  <2> HIDE DEF t
  <2>5. \A j, k \in 1 .. Len(t) : t[j] = t[k] => j = k
    BY <2>1, <2>3, <2>4 DEF InTurn
  <2>6. ASSUME NEW k \in 1 .. Len(t), NEW d \in p[t[k]] PROVE \E j \in 1 .. k - 1 : t[j] = d
    <3>1. CASE k \in 1 .. Len(s)
      <4>1. PICK j \in 1 .. k - 1 : s[j] = d
        BY <3>1, <2>3, <2>6 DEF InTurn
      <4> QED
        BY <4>1, <3>1, <2>3
    <3>2. CASE k = Len(s) + 1
      <4>1. PICK j \in 1 .. Len(s) : s[j] = d
        BY <3>2, <2>1, <2>3, <2>4, <2>6
      <4> QED
        BY <4>1, <3>2, <2>3
    <3> QED
      BY <3>1, <3>2, <2>3
  <2>7. InTurn(p, t)
    BY <2>5, <2>6 DEF InTurn
  <2> QED
    BY <2>2, <2>3, <2>7
<1> QED
  BY <1>1, <1>2

\* InOrder takes members of the set, none twice, and each behind its
\* predecessors.
LEMMA InOrderIs ==
    ASSUME NEW S \in SUBSET Nat, IsFiniteSet(S), NEW p
    PROVE  InOrder(S, p) \in Seq(S) /\ InTurn(p, InOrder(S, p))
<1> DEFINE N == Cardinality(S)
           R == {s \in Seq(S) : InTurn(p, s)}
           D == [n \in Nat |-> [s \in R |-> Taking(S, p, s)]]
<1>1. N \in Nat
  BY FS_CardinalityType
<1>2. <<>> \in R
  BY DEF InTurn
<1>3. D \in [Nat -> [R -> R]]
  BY TakingKeeps
<1>4. PICK G : G \in Rounds(R, <<>>, D, N)
  <2> HIDE DEF D, R, N
  <2> QED
    BY <1>1, <1>2, <1>3, RoundsExist
<1>5. G \in [0 .. N -> R] /\ G[0] = <<>> /\ \A n \in 0 .. (N - 1) : G[n + 1] = D[n][G[n]]
  BY <1>4 DEF Rounds
<1>6. \A n \in 0 .. (N - 1) : G[n + 1] = Taking(S, p, G[n])
  <2> SUFFICES ASSUME NEW n \in 0 .. (N - 1) PROVE G[n + 1] = Taking(S, p, G[n])
    OBVIOUS
  <2>1. n \in Nat /\ G[n] \in R
    BY <1>1, <1>5
  <2> HIDE DEF R
  <2> QED
    BY <2>1, <1>5
<1>7. G = [n \in 0 .. N |-> IF n = 0 THEN <<>>
              ELSE LET taken == Range(G[n - 1])
                       ready == {a \in S \ taken : p[a] \subseteq taken}
                   IN IF ready = {} THEN G[n - 1] ELSE Append(G[n - 1], Min(ready))]
  <2> SUFFICES ASSUME NEW n \in 0 .. N, n # 0 PROVE G[n] = Taking(S, p, G[n - 1])
    BY <1>5, <1>1 DEF Taking
  <2>1. n - 1 \in 0 .. (N - 1) /\ n - 1 + 1 = n
    BY <1>1
  <2> QED
    BY <2>1, <1>6
<1> DEFINE rounds == CHOOSE f : f = [n \in 0 .. Cardinality(S) |-> IF n = 0 THEN <<>>
              ELSE LET taken == Range(f[n - 1])
                       ready == {a \in S \ taken : p[a] \subseteq taken}
                   IN IF ready = {} THEN f[n - 1] ELSE Append(f[n - 1], Min(ready))]
<1>8. InOrder(S, p) = rounds[N]
  BY Zenon DEF InOrder
<1>9. rounds = [n \in 0 .. N |-> IF n = 0 THEN <<>>
              ELSE LET taken == Range(rounds[n - 1])
                       ready == {a \in S \ taken : p[a] \subseteq taken}
                   IN IF ready = {} THEN rounds[n - 1] ELSE Append(rounds[n - 1], Min(ready))]
  BY <1>7, Zenon
<1>10. PICK f : f = rounds
  OBVIOUS
<1>11. f[0] = <<>> /\ \A n \in 0 .. N : n # 0 => f[n] = Taking(S, p, f[n - 1])
  <2> HIDE DEF rounds
  <2>1. f = [n \in 0 .. N |-> IF n = 0 THEN <<>>
              ELSE LET taken == Range(f[n - 1])
                       ready == {a \in S \ taken : p[a] \subseteq taken}
                   IN IF ready = {} THEN f[n - 1] ELSE Append(f[n - 1], Min(ready))]
    BY <1>9, <1>10
  <2>2. 0 \in 0 .. N
    BY <1>1
  <2> HIDE DEF N
  <2> QED
    BY <2>1, <2>2 DEF Taking
<1> HIDE DEF rounds
<1>12. \A n \in 0 .. N : f[n] \in R
  <2> DEFINE T == {n \in 0 .. N : f[n] \notin R}
  <2> SUFFICES ASSUME T # {} PROVE FALSE
    OBVIOUS
  <2>0. T \in SUBSET Nat
    BY <1>1
  <2>1. PICK n \in T : \A m \in T : n <= m
    <3> HIDE DEF T
    <3> QED
      BY <2>0, LeastNumber
  <2>2. n \in 0 .. N /\ n # 0
    BY <2>1, <1>11, <1>2
  <2>3. n - 1 \in 0 .. N /\ n - 1 \notin T
    BY <2>1, <2>2, <1>1
  <2>4. f[n - 1] \in R
    BY <2>3
  <2>5. f[n] \in R
    BY <2>4, <2>2, <1>11, TakingKeeps
  <2> QED
    BY <2>1, <2>5
<1>13. N \in 0 .. N
  BY <1>1
<1> QED
  BY <1>8, <1>10, <1>12, <1>13

\* The images of a range of numbers can be counted.
LEMMA ImageFinite ==
    ASSUME NEW D, IsFiniteSet(D), NEW f, DOMAIN f = D
    PROVE  IsFiniteSet({f[x] : x \in D})
<1> DEFINE T == {f[x] : x \in D}
           g == [x \in D |-> f[x]]
<1>1. g \in Surjection(D, T)
  BY DEF Surjection
<1> QED
  BY <1>1, FS_Surjection

\* What a manifest that LoadHost accepts says of an application.
LEMMA EntryIs ==
    ASSUME NEW h \in Manifests, LoadHost(h), NEW a \in Ids(h)
    PROVE  /\ normalizeApplicationInstances(EntryOf(h, a)) \in SUBSET Nat
           /\ IsFiniteSet(normalizeApplicationInstances(EntryOf(h, a)))
<1>1. PICK k \in DOMAIN h.apps : EntryOf(h, a) = h.apps[k]
  BY DEF EntryOf, Ids
<1> DEFINE entry == h.apps[k]
           c == InstanceCount(entry)
           S == normalizeApplicationInstances(entry)
           f == [n \in 1 .. c |-> AliasOf(entry, n)]
<1>2. entry.count \in Nat /\ entry.aliases \in Seq(Int)
  BY ManifestsAssumption
<1>3. loadHostedApplication(entry)
  BY DEF LoadHost
<1> HIDE DEF entry
<1>4. c \in Nat
  BY <1>2 DEF InstanceCount
<1>5. \A n \in 1 .. c : AliasOf(entry, n) \in Int
  BY <1>2, <1>4 DEF AliasOf
<1> HIDE DEF c
<1>6. \A alias \in S : alias > 0
  BY <1>3 DEF loadHostedApplication, InstancesValid
<1>7. S = {AliasOf(entry, n) : n \in 1 .. c}
  BY DEF normalizeApplicationInstances, c
<1>8. S \in SUBSET Nat
  BY <1>5, <1>6, <1>7
<1>9. S = {f[n] : n \in 1 .. c}
  BY <1>7
<1>10. IsFiniteSet(1 .. c)
  BY <1>4, FS_Interval
<1>11. IsFiniteSet(S)
  <2>1. DOMAIN f = 1 .. c
    OBVIOUS
  <2> HIDE DEF f, S
  <2> QED
    BY <2>1, <1>9, <1>10, ImageFinite
<1> QED
  BY <1>1, <1>8, <1>11 DEF entry

\* The identifiers of a manifest.
LEMMA IdsAre ==
    ASSUME NEW h \in Manifests
    PROVE  Ids(h) \in SUBSET Nat /\ IsFiniteSet(Ids(h))
<1> DEFINE f == [k \in DOMAIN h.apps |-> h.apps[k].id]
           D == DOMAIN h.apps
<1>1. Ids(h) = {f[k] : k \in D} /\ DOMAIN f = D
  BY DEF Ids
<1>2. IsFiniteSet(D) /\ \A k \in D : h.apps[k].id \in Nat
  BY ManifestsAssumption
<1>3. Ids(h) \in SUBSET Nat
  BY <1>2 DEF Ids
<1>4. IsFiniteSet({f[k] : k \in D})
  <2>1. DOMAIN f = D
    BY <1>1
  <2> HIDE DEF f, D
  <2> QED
    BY <2>1, <1>2, ImageFinite
<1> QED
  BY <1>1, <1>3, <1>4

\* The instances of one application: none twice.
LEMMA SortedIs ==
    ASSUME NEW h \in Manifests, LoadHost(h), NEW a \in Ids(h)
    PROVE  /\ SortedInstances(h, a) \in Seq(Ids(h) \X Nat)
           /\ \A k \in 1 .. Len(SortedInstances(h, a)) : SortedInstances(h, a)[k][1] = a
           /\ \A j, k \in 1 .. Len(SortedInstances(h, a)) :
                SortedInstances(h, a)[j] = SortedInstances(h, a)[k] => j = k
<1> DEFINE names == normalizeApplicationInstances(EntryOf(h, a))
           none == [n \in names |-> {}]
           sorted == InOrder(names, none)
           s == [k \in 1 .. Len(sorted) |-> <<a, sorted[k]>>]
<1>1. SortedInstances(h, a) = s
  BY DEF SortedInstances
<1>2. names \in SUBSET Nat /\ IsFiniteSet(names)
  BY EntryIs
<1>3. sorted \in Seq(names) /\ InTurn(none, sorted)
  <2> HIDE DEF names, none
  <2> QED
    BY <1>2, InOrderIs
<1>4. /\ Len(sorted) \in Nat
      /\ \A k \in 1 .. Len(sorted) : sorted[k] \in Nat
      /\ \A j, k \in 1 .. Len(sorted) : sorted[j] = sorted[k] => j = k
  <2> HIDE DEF sorted, names
  <2>1. Len(sorted) \in Nat /\ \A k \in 1 .. Len(sorted) : sorted[k] \in names
    BY <1>3
  <2> QED
    BY <2>1, <1>2, <1>3 DEF InTurn
<1> HIDE DEF sorted
<1>5. s \in Seq(Ids(h) \X Nat) /\ Len(s) = Len(sorted)
  BY <1>4
<1>6. \A k \in 1 .. Len(s) : s[k] = <<a, sorted[k]>>
  BY <1>5
<1> HIDE DEF s
<1>7. \A k \in 1 .. Len(s) : s[k][1] = a
  BY <1>6
<1>8. \A j, k \in 1 .. Len(s) : s[j] = s[k] => j = k
  BY <1>4, <1>5, <1>6
<1> QED
  BY <1>1, <1>5, <1>7, <1>8

\* The instances of the first n applications.
Gathered(h, apps, n) ==
    {o \in Seq(Ids(h) \X Nat) :
        /\ \A k \in 1 .. Len(o) : \E m \in 1 .. n : o[k][1] = apps[m]
        /\ Unique(o) /\ Layered(h, o)}

\* Appending the instances of the next application keeps the order.
LEMMA AppendNext ==
    ASSUME NEW h \in Manifests, LoadHost(h), NEW apps \in Seq(Ids(h)),
           InTurn([a \in Ids(h) |-> DependsOn(h, a)], apps),
           NEW n \in 1 .. Len(apps), NEW o \in Gathered(h, apps, n - 1)
    PROVE  o \o SortedInstances(h, apps[n]) \in Gathered(h, apps, n)
<1>1. PICK I : I = Ids(h) \X Nat
  OBVIOUS
<1>2. PICK t : t = SortedInstances(h, apps[n])
  OBVIOUS
<1>3. PICK q : q = o \o t
  OBVIOUS
<1>4. apps[n] \in Ids(h) /\ Len(apps) \in Nat
  OBVIOUS
<1>5. /\ t \in Seq(I)
      /\ \A k \in 1 .. Len(t) : t[k][1] = apps[n]
      /\ \A j, k \in 1 .. Len(t) : t[j] = t[k] => j = k
  BY <1>1, <1>2, <1>4, SortedIs
<1>6. /\ o \in Seq(I)
      /\ \A k \in 1 .. Len(o) : \E m \in 1 .. n - 1 : o[k][1] = apps[m]
      /\ \A j, k \in 1 .. Len(o) : o[j] = o[k] => j = k
      /\ \A j, k \in 1 .. Len(o) : o[j][1] \in DependsOn(h, o[k][1]) => j < k
  BY <1>1 DEF Gathered, Unique, Layered
<1>7. /\ q \in Seq(I) /\ Len(q) = Len(o) + Len(t) /\ Len(o) \in Nat /\ Len(t) \in Nat
      /\ \A k \in 1 .. Len(o) : q[k] = o[k]
      /\ \A k \in Len(o) + 1 .. Len(q) : q[k] = t[k - Len(o)] /\ k - Len(o) \in 1 .. Len(t)
  BY <1>3, <1>5, <1>6, ConcatProperties
<1>8. \A j, k \in 1 .. Len(apps) : apps[j] = apps[k] => j = k
  BY DEF InTurn
<1>9. ASSUME NEW j \in 1 .. Len(apps), NEW k \in 1 .. Len(apps), apps[j] \in DependsOn(h, apps[k])
      PROVE  j < k
  <2>1. apps[k] \in Ids(h)
    OBVIOUS
  <2>2. PICK i \in 1 .. k - 1 : apps[i] = apps[j]
    BY <2>1, <1>9 DEF InTurn
  <2> QED
    BY <2>2, <1>4, <1>8
<1>10. ASSUME NEW k \in 1 .. Len(o) PROVE \E m \in 1 .. n - 1 : q[k][1] = apps[m]
  <2>1. q[k] = o[k]
    BY <1>7
  <2>2. \E m \in 1 .. n - 1 : o[k][1] = apps[m]
    BY <1>6
  <2> QED
    BY <2>1, <2>2
<1>11. \A k \in Len(o) + 1 .. Len(q) : q[k][1] = apps[n]
  BY <1>5, <1>7
<1>12. \A k \in 1 .. Len(q) : \E m \in 1 .. n : q[k][1] = apps[m]
  <2> TAKE k \in 1 .. Len(q)
  <2>1. CASE k \in 1 .. Len(o)
    <3>1. PICK m \in 1 .. n - 1 : q[k][1] = apps[m]
      BY <2>1, <1>10
    <3>2. m \in 1 .. n
      BY <1>4
    <3> QED
      BY <3>1, <3>2
  <2>2. CASE k \in Len(o) + 1 .. Len(q)
    BY <2>2, <1>11
  <2> QED
    BY <2>1, <2>2, <1>7
<1>13. ASSUME NEW j \in 1 .. Len(o), NEW k \in Len(o) + 1 .. Len(q)
       PROVE  q[j] # q[k] /\ q[k][1] \notin DependsOn(h, q[j][1])
  <2>1. PICK m \in 1 .. n - 1 : q[j][1] = apps[m]
    BY <1>10
  <2>2. q[k][1] = apps[n] /\ m \in 1 .. Len(apps) /\ m < n
    BY <1>11, <1>4
  <2> QED
    BY <2>1, <2>2, <1>8, <1>9
<1>14. ASSUME NEW j \in Len(o) + 1 .. Len(q), NEW k \in Len(o) + 1 .. Len(q)
       PROVE  (q[j] = q[k] => j = k) /\ q[j][1] \notin DependsOn(h, q[k][1])
  <2>1. apps[n] \notin DependsOn(h, apps[n])
    BY <1>9
  <2>2. q[j] = q[k] => j = k
    BY <1>5, <1>7
  <2> QED
    BY <2>1, <2>2, <1>11
<1>15. ASSUME NEW j \in 1 .. Len(q), NEW k \in 1 .. Len(q)
       PROVE  (q[j] = q[k] => j = k) /\ (q[j][1] \in DependsOn(h, q[k][1]) => j < k)
  <2>1. CASE j \in 1 .. Len(o) /\ k \in 1 .. Len(o)
    BY <2>1, <1>6, <1>7
  <2>2. CASE j \in 1 .. Len(o) /\ k \in Len(o) + 1 .. Len(q)
    BY <2>2, <1>7, <1>13
  <2>3. CASE j \in Len(o) + 1 .. Len(q) /\ k \in 1 .. Len(o)
    BY <2>3, <1>7, <1>13
  <2>4. CASE j \in Len(o) + 1 .. Len(q) /\ k \in Len(o) + 1 .. Len(q)
    BY <2>4, <1>14
  <2> QED
    BY <2>1, <2>2, <2>3, <2>4, <1>7
<1>16. q \in Gathered(h, apps, n)
  BY <1>1, <1>7, <1>12, <1>15 DEF Gathered, Unique, Layered
<1> QED
  BY <1>2, <1>3, <1>16

\* The start order of a host.
LEMMA StartOrder ==
    ASSUME NEW h \in Manifests, LoadHost(h)
    PROVE  /\ canonicalHostedApplications(h) \in Seq(Ids(h) \X Nat)
           /\ Unique(canonicalHostedApplications(h))
           /\ Layered(h, canonicalHostedApplications(h))
<1> DEFINE p == [a \in Ids(h) |-> DependsOn(h, a)]
<1>1. PICK apps : apps = canonicalApplicationOrder(h)
  OBVIOUS
<1>2. apps \in Seq(Ids(h)) /\ InTurn(p, apps)
  <2>1. apps = InOrder(Ids(h), p)
    BY <1>1, SMTT(30) DEF canonicalApplicationOrder
  <2>2. Ids(h) \in SUBSET Nat /\ IsFiniteSet(Ids(h))
    BY IdsAre
  <2> HIDE DEF p
  <2> QED
    BY <2>1, <2>2, InOrderIs
<1> DEFINE L == Len(apps)
           R == Seq(Ids(h) \X Nat)
           D == [n \in Nat |-> [s \in R |-> IF n + 1 \in 1 .. L THEN s \o SortedInstances(h, apps[n + 1]) ELSE s]]
<1>3. L \in Nat /\ \A n \in 1 .. L : SortedInstances(h, apps[n]) \in R
  <2>1. \A n \in 1 .. L : apps[n] \in Ids(h)
    BY <1>2
  <2> QED
    BY <2>1, <1>2, SortedIs
<1>4. PICK G : G \in Rounds(R, <<>>, D, L)
  <2>1. <<>> \in R
    OBVIOUS
  <2>2. D \in [Nat -> [R -> R]]
    <3> SUFFICES ASSUME NEW n \in Nat, NEW s \in R, n + 1 \in 1 .. L
                 PROVE  s \o SortedInstances(h, apps[n + 1]) \in R
      OBVIOUS
    <3>1. SortedInstances(h, apps[n + 1]) \in R
      BY <1>3
    <3> QED
      BY <3>1, ConcatProperties
  <2> HIDE DEF D, R, L
  <2> QED
    BY <1>3, <2>1, <2>2, RoundsExist
<1>5. G \in [0 .. L -> R] /\ G[0] = <<>> /\ \A n \in 0 .. (L - 1) : G[n + 1] = D[n][G[n]]
  BY <1>4 DEF Rounds
<1>6. G = [n \in 0 .. L |-> IF n = 0 THEN <<>> ELSE G[n - 1] \o SortedInstances(h, apps[n])]
  <2> SUFFICES ASSUME NEW n \in 0 .. L, n # 0 PROVE G[n] = G[n - 1] \o SortedInstances(h, apps[n])
    BY <1>3, <1>5
  <2>1. n - 1 \in Nat /\ n - 1 \in 0 .. (L - 1) /\ n - 1 + 1 = n /\ n \in 1 .. L
    BY <1>3
  <2>2. G[n - 1 + 1] = D[n - 1][G[n - 1]] /\ G[n - 1] \in R
    <3>1. n - 1 \in 0 .. L
      BY <2>1, <1>3
    <3> HIDE DEF D, R, L
    <3> QED
      BY <3>1, <2>1, <1>5
  <2>3. D[n - 1][G[n - 1]] = G[n - 1] \o SortedInstances(h, apps[n])
    BY <2>1, <2>2
  <2> QED
    BY <2>1, <2>2, <2>3
<1> DEFINE ordered == CHOOSE f : f = [n \in 0 .. Len(apps) |->
                                IF n = 0 THEN <<>> ELSE f[n - 1] \o SortedInstances(h, apps[n])]
<1>7. canonicalHostedApplications(h) = ordered[L]
  BY <1>1, Zenon DEF canonicalHostedApplications
<1>8. ordered = [n \in 0 .. L |-> IF n = 0 THEN <<>> ELSE ordered[n - 1] \o SortedInstances(h, apps[n])]
  BY <1>6, Zenon
<1>9. PICK f : f = ordered
  OBVIOUS
<1> HIDE DEF ordered
<1>10. f = [n \in 0 .. L |-> IF n = 0 THEN <<>> ELSE f[n - 1] \o SortedInstances(h, apps[n])]
  BY <1>8, <1>9
<1>11. f[0] = <<>> /\ \A n \in 1 .. L : f[n] = f[n - 1] \o SortedInstances(h, apps[n])
  BY <1>3, <1>10
<1>12. \A n \in 0 .. L : f[n] \in Gathered(h, apps, n)
  <2> DEFINE T == {n \in 0 .. L : f[n] \notin Gathered(h, apps, n)}
  <2> SUFFICES ASSUME T # {} PROVE FALSE
    OBVIOUS
  <2>0. T \in SUBSET Nat
    BY <1>3
  <2>1. PICK n \in T : \A m \in T : n <= m
    <3> HIDE DEF T
    <3> QED
      BY <2>0, LeastNumber
  <2>2. n \in 0 .. L /\ f[n] \notin Gathered(h, apps, n)
    BY <2>1
  <2>3. n # 0
    <3>1. <<>> \in Gathered(h, apps, 0)
      <4>1. PICK e : e = <<>>
        OBVIOUS
      <4>2. e \in Seq(Ids(h) \X Nat) /\ 1 .. Len(e) = {}
        BY <4>1
      <4> QED
        BY <4>1, <4>2 DEF Gathered, Unique, Layered
    <3> QED
      BY <3>1, <2>2, <1>11
  <2>4. n \in 1 .. L /\ n - 1 \in 0 .. L /\ ~(n <= n - 1)
    BY <2>2, <2>3, <1>3
  <2>5. n - 1 \notin T
    BY <2>1, <2>4
  <2>6. f[n - 1] \in Gathered(h, apps, n - 1)
    BY <2>4, <2>5
  <2>7. PICK o : o = f[n - 1]
    OBVIOUS
  <2>8. o \o SortedInstances(h, apps[n]) \in Gathered(h, apps, n)
    BY <2>4, <2>6, <2>7, <1>2, AppendNext
  <2> QED
    BY <2>2, <2>4, <2>7, <2>8, <1>11
<1>13. L \in 0 .. L
  BY <1>3
<1>14. f[L] \in Gathered(h, apps, L)
  BY <1>12, <1>13
<1> QED
  BY <1>7, <1>9, <1>14 DEF Gathered

----------------------------------------------------------------------------
(* what the steps need to know *)

\* The instances are those of the order.
LEMMA InstancesAre ==
    ASSUME TypeOK
    PROVE  /\ Len(order) \in Nat /\ DOMAIN order = 1 .. Len(order)
           /\ \A k \in 1 .. Len(order) : order[k] \in Instances
           /\ \A i \in Instances : i[1] \in Ids(host) /\ \E k \in 1 .. Len(order) : order[k] = i
<1>1. Len(order) \in Nat /\ DOMAIN order = 1 .. Len(order)
  BY DEF TypeOK
<1>2. \A k \in 1 .. Len(order) : order[k] \in Ids(host) \X Nat
  BY DEF TypeOK
<1> QED
  BY <1>1, <1>2 DEF Instances, Range

\* Only LoadApplications changes them.
LEMMA SameInstances ==
    ASSUME order' = order
    PROVE  Instances' = Instances /\ Goroutine' = Goroutine /\ Frame' = Frame
BY DEF Instances, Goroutine, Frame

\* The instance of Start is the current one.
LEMMA BootingIs ==
    ASSUME TypeOK, Progress, NEW i \in Instances, NEW ph, Booting(i, ph)
    PROVE  pc = "boot" /\ at \in 1 .. Len(order) /\ order[at] = i /\ phase[i] = ph
<1>1. order # <<>>
  BY InstancesAre
<1> QED
  BY <1>1 DEF Booting, Current, Progress

\* The instance of stopLocked.
LEMMA StoppingIs ==
    ASSUME TypeOK, Progress, NEW i \in Instances, NEW ph, Stopping(i, ph)
    PROVE  pc = "stop" /\ at \in 1 .. Len(order) /\ order[at] = i /\ phase[i] = ph
<1>1. at \in 0 .. Len(order) /\ at > 0 /\ Len(order) \in Nat
  BY InstancesAre DEF Stopping, Progress
<1> QED
  BY <1>1 DEF Stopping, Current

\* Its phase is the only one that changes.
LEMMA GoIs ==
    ASSUME TypeOK, Ordered, at \in 1 .. Len(order), NEW x, Go(order[at], x)
    PROVE  \A k \in 1 .. Len(order) : phase'[order[k]] = IF k = at THEN x ELSE phase[order[k]]
<1>1. phase' = [phase EXCEPT ![order[at]] = x] /\ DOMAIN phase = Instances
  BY DEF Go, TypeOK
<1>2. \A k \in 1 .. Len(order) : order[k] \in Instances /\ (order[k] = order[at] => k = at)
  BY InstancesAre DEF Ordered, Unique
<1> QED
  BY <1>1, <1>2

\* The same without positions.
LEMMA GoChanges ==
    ASSUME TypeOK, NEW i \in Instances, NEW x, Go(i, x)
    PROVE  \A j \in Instances : phase'[j] = IF j = i THEN x ELSE phase[j]
BY DEF Go, TypeOK

\* Before a manifest is loaded there is nothing.
LEMMA NothingLoaded ==
    ASSUME TypeOK, Progress, LoadApplications
    PROVE  Instances = {} /\ entries = {} /\ unfinished = {}
<1>1. order = <<>>
  BY DEF Progress, LoadApplications
<1> QED
  BY <1>1, InstancesAre DEF TypeOK

\* What the goroutines beside the main one leave alone.
LEMMA AroundLeaves == Around => UNCHANGED <<mainVars, runtimeVars>>
BY DEF Around, BeginStep, OperatorCall, MoveListener, Ready, Deliver, Gone, Calls, CrossCall, Return,
       Accept, Serve, Respond, mainVars, runtimeVars

----------------------------------------------------------------------------
(* one lemma per part of the invariant, one step per action *)

\* The order is the one of the manifest.
LEMMA OrderedStep ==
    ASSUME IInv, [Next]_vars
    PROVE  Ordered' /\ host' = host /\ (order' = order \/ LoadApplications)
<1>1. CASE LoadApplications
  <2>1. host' = host /\ host \in Manifests /\ LoadHost(host)
    BY <1>1 DEF LoadApplications, IInv, TypeOK
  <2>2. Unique(canonicalHostedApplications(host)) /\ Layered(host, canonicalHostedApplications(host))
    BY <2>1, StartOrder
  <2> QED
    BY <1>1, <2>1, <2>2 DEF LoadApplications, Ordered
<1>2. CASE UNCHANGED <<host, order>>
  BY <1>2 DEF IInv, Ordered, Unique, Layered
<1>3. ~LoadApplications => UNCHANGED <<host, order>>
  <2> SUFFICES ASSUME ~LoadApplications PROVE UNCHANGED <<host, order>>
    OBVIOUS
  <2> USE DEF mainVars
  <2>1. ASSUME NEW i \in Instances, Boot(i) PROVE UNCHANGED <<host, order>>
    BY <2>1 DEF Boot, Plan, PlanFails, SetupCapability, SetupFails, BeginInit, EndInit, MarkReady,
                Observed, StartFails
  <2>2. ASSUME NEW i \in Instances, Stop(i) PROVE UNCHANGED <<host, order>>
    BY <2>2 DEF Stop, MarkUnavailable, Revoke, CancelSteps, CloseCells, Teardown, ShutdownNotStarted
  <2>3. CASE Activate \/ StartPollsters \/ PollstersFail \/ StartGateway \/ GatewayFails \/ Signal \/ DrainGateway
             \/ StopPollsters \/ Exit \/ RejectManifest
    BY <2>3 DEF Activate, StartPollsters, PollstersFail, StartGateway, GatewayFails, Signal, DrainGateway,
                StopPollsters, Exit, RejectManifest
  <2>4. CASE Around
    BY <2>4, AroundLeaves
  <2>5. CASE UNCHANGED vars
    BY <2>5 DEF vars
  <2> QED
    BY <2>1, <2>2, <2>3, <2>4, <2>5 DEF Next
<1> QED
  BY <1>1, <1>2, <1>3

\* The instances start and stop one after the other.
LEMMA ProgressStep ==
    ASSUME IInv, [Next]_vars
    PROVE  Progress'
<1> USE DEF IInv
<1>0. Len(order) \in Nat /\ at \in Nat /\ \A k \in 1 .. Len(order) : order[k] \in Instances
  <2>1. Len(order) \in Nat /\ \A k \in 1 .. Len(order) : order[k] \in Instances
    BY InstancesAre
  <2> QED
    BY <2>1 DEF TypeOK
<1>1. CASE UNCHANGED <<pc, order, at, phase>>
  BY <1>1 DEF Progress
<1>2. CASE LoadApplications
  <2>1. order' \in Seq(Ids(host) \X Nat)
    BY <1>2, StartOrder DEF LoadApplications, TypeOK
  <2>2. Len(order') \in Nat /\ (Len(order') = 0 => order' = <<>>)
    BY <2>1
  <2>3. \A k \in 1 .. Len(order') : order'[k] \in Range(order')
    BY <2>1 DEF Range
  <2>4. pc' = "boot" /\ at' = 1 /\ phase' = [i \in Range(order') |-> "off"]
    BY <1>2 DEF LoadApplications
  <2> QED
    BY <2>2, <2>3, <2>4 DEF Progress, Serving
<1>3. CASE RejectManifest
  BY <1>3 DEF RejectManifest, Progress, Serving, runtimeVars
<1>4. ASSUME NEW i \in Instances, Boot(i) PROVE Progress'
  <2>1. CASE Plan(i) \/ BeginInit(i) \/ EndInit(i) \/ MarkReady(i)
    <3>1. PICK x \in {"planned", "init", "launched", "published"} : Go(i, x) /\ UNCHANGED mainVars
      BY <2>1 DEF Plan, BeginInit, EndInit, MarkReady
    <3>2. pc = "boot" /\ at \in 1 .. Len(order) /\ order[at] = i
      BY <2>1, BootingIs DEF Plan, BeginInit, EndInit, MarkReady
    <3>3. \A k \in 1 .. Len(order) : phase'[order[k]] = IF k = at THEN x ELSE phase[order[k]]
      BY <3>1, <3>2, GoIs
    <3> QED
      BY <3>1, <3>2, <3>3, <1>0 DEF Progress, Serving, mainVars
  <2>2. CASE PlanFails(i)
    <3>1. pc = "boot" /\ at \in 1 .. Len(order) /\ order[at] = i /\ phase[i] = "off"
      BY <2>2, BootingIs DEF PlanFails
    <3>2. pc' = "stop" /\ UNCHANGED <<order, at, phase>>
      BY <2>2 DEF PlanFails, RollBack, runtimeVars
    <3> QED
      BY <3>1, <3>2, <1>0 DEF Progress, Serving
  <2>3. CASE SetupCapability(i)
    BY <2>3, <1>1 DEF SetupCapability, mainVars
  <2>4. CASE SetupFails(i) \/ StartFails(i)
    <3>1. PICK x \in {"off", "unpublished"} : Go(i, x)
      BY <2>4 DEF SetupFails, StartFails
    <3>2. pc = "boot" /\ at \in 1 .. Len(order) /\ order[at] = i
      BY <2>4, BootingIs DEF SetupFails, StartFails
    <3>3. \A k \in 1 .. Len(order) : phase'[order[k]] = IF k = at THEN x ELSE phase[order[k]]
      BY <3>1, <3>2, GoIs
    <3>4. pc' = "stop" /\ UNCHANGED <<order, at>>
      BY <2>4 DEF SetupFails, StartFails, RollBack
    <3> QED
      BY <3>2, <3>3, <3>4, <1>0 DEF Progress, Serving
  <2>5. CASE Observed(i)
    <3>1. pc = "boot" /\ at \in 1 .. Len(order) /\ order[at] = i
      BY <2>5, BootingIs DEF Observed
    <3>2. \A k \in 1 .. Len(order) : phase'[order[k]] = IF k = at THEN "ready" ELSE phase[order[k]]
      BY <2>5, <3>1, GoIs DEF Observed
    <3>3. /\ order' = order
          /\ at' = IF at < Len(order) THEN at + 1 ELSE at
          /\ pc' = IF at < Len(order) THEN "boot" ELSE "activate"
      BY <2>5 DEF Observed
    <3>4. \A k \in 1 .. Len(order) : (k < at => phase[order[k]] = "ready") /\ (k > at => phase[order[k]] = "off")
      BY <3>1 DEF Progress
    <3> QED
      BY <3>1, <3>2, <3>3, <3>4, <1>0 DEF Progress, Serving
  <2> QED
    BY <1>4, <2>1, <2>2, <2>3, <2>4, <2>5 DEF Boot
<1>5. CASE Activate \/ StartPollsters \/ PollstersFail \/ StartGateway \/ GatewayFails \/ Signal \/ DrainGateway
  <2>1. UNCHANGED <<order, at, phase>> /\ pc \in Serving /\ pc' \in Serving
    BY <1>5 DEF Activate, StartPollsters, PollstersFail, StartGateway, GatewayFails, Signal, DrainGateway, runtimeVars, Serving
  <2> QED
    BY <2>1 DEF Progress, Serving
<1>6. CASE StopPollsters
  BY <1>6, <1>0 DEF StopPollsters, Progress, Serving, runtimeVars
<1>7. ASSUME NEW i \in Instances, Stop(i) PROVE Progress'
  <2>1. CASE MarkUnavailable(i) \/ Revoke(i) \/ CancelSteps(i) \/ CloseCells(i)
    <3>1. PICK x \in {"unpublished", "revoked", "cancelled", "closed"} : Go(i, x) /\ UNCHANGED mainVars
      BY <2>1 DEF MarkUnavailable, Revoke, CancelSteps, CloseCells
    <3>2. pc = "stop" /\ at \in 1 .. Len(order) /\ order[at] = i
      BY <2>1, StoppingIs DEF MarkUnavailable, Revoke, CancelSteps, CloseCells
    <3>3. \A k \in 1 .. Len(order) : phase'[order[k]] = IF k = at THEN x ELSE phase[order[k]]
      BY <3>1, <3>2, GoIs
    <3> QED
      BY <3>1, <3>2, <3>3, <1>0 DEF Progress, Serving, mainVars
  <2>2. CASE Teardown(i) \/ ShutdownNotStarted(i)
    <3>1. pc = "stop" /\ at \in 1 .. Len(order) /\ order[at] = i
      BY <2>2, StoppingIs DEF Teardown, ShutdownNotStarted
    <3>2. UNCHANGED <<pc, order>> /\ at' = at - 1
      BY <2>2 DEF Teardown, ShutdownNotStarted, Previous
    <3>3. \A k \in 1 .. Len(order) : phase'[order[k]] = IF k = at THEN "off" ELSE phase[order[k]]
      <4>1. CASE Teardown(i)
        BY <4>1, <3>1, GoIs DEF Teardown
      <4>2. CASE ShutdownNotStarted(i)
        BY <4>2, <3>1 DEF ShutdownNotStarted, Stopping, runtimeVars, Current
      <4> QED
        BY <2>2, <4>1, <4>2
    <3>4. \A k \in 1 .. Len(order) : (k < at => phase[order[k]] = "ready") /\ (k > at => phase[order[k]] = "off")
      BY <3>1 DEF Progress
    <3> QED
      BY <3>1, <3>2, <3>3, <3>4, <1>0 DEF Progress, Serving
  <2> QED
    BY <1>7, <2>1, <2>2 DEF Stop
<1>8. CASE Exit
  BY <1>8, <1>0 DEF Exit, Progress, Serving, runtimeVars
<1>9. CASE Around
  BY <1>9, <1>1, AroundLeaves DEF mainVars, runtimeVars
<1>10. CASE UNCHANGED vars
  BY <1>10, <1>1 DEF vars, mainVars, runtimeVars
<1> QED
  BY <1>2, <1>3, <1>4, <1>5, <1>6, <1>7, <1>8, <1>9, <1>10 DEF Next

\* markReady and markUnavailable keep the registry in step with the phases.
LEMMA PublishedStep ==
    ASSUME IInv, [Next]_vars
    PROVE  Published'
<1> USE DEF IInv
<1>1. CASE LoadApplications
  <2>1. entries' = {} /\ phase' = [i \in Range(order') |-> "off"]
    BY <1>1, NothingLoaded DEF LoadApplications
  <2> QED
    BY <2>1 DEF Published, Instances
<1>2. CASE ~LoadApplications
  <2>0. Instances' = Instances
    BY <1>2, OrderedStep, SameInstances
  <2>1. CASE UNCHANGED <<entries, phase>>
    BY <2>0, <2>1 DEF Published
  <2>2. ASSUME NEW i \in Instances, Boot(i) PROVE Published'
    <3>1. CASE PlanFails(i) \/ SetupCapability(i)
      BY <3>1, <2>1 DEF PlanFails, SetupCapability, runtimeVars
    <3>2. CASE Plan(i) \/ SetupFails(i) \/ BeginInit(i) \/ EndInit(i)
      <4>1. PICK x \in {"planned", "off", "init", "launched"} : Go(i, x)
        BY <3>2 DEF Plan, SetupFails, BeginInit, EndInit
      <4>2. phase[i] \in {"off", "planned", "init"} /\ entries' = entries
        BY <3>2 DEF Plan, SetupFails, BeginInit, EndInit, Booting
      <4> QED
        BY <4>1, <4>2, <2>0, GoChanges DEF Published
    <3>3. CASE MarkReady(i)
      BY <3>3, <2>0, GoChanges DEF MarkReady, Published
    <3>4. CASE Observed(i)
      BY <3>4, <2>0, GoChanges DEF Observed, Booting, Published
    <3>5. CASE StartFails(i)
      BY <3>5, <2>0, GoChanges DEF StartFails, Published
    <3> QED
      BY <2>2, <3>1, <3>2, <3>3, <3>4, <3>5 DEF Boot
  <2>3. ASSUME NEW i \in Instances, Stop(i) PROVE Published'
    <3>1. CASE MarkUnavailable(i)
      BY <3>1, <2>0, GoChanges DEF MarkUnavailable, Published
    <3>2. CASE Revoke(i) \/ CancelSteps(i) \/ CloseCells(i) \/ Teardown(i)
      <4>1. PICK x \in {"revoked", "cancelled", "closed", "off"} : Go(i, x)
        BY <3>2 DEF Revoke, CancelSteps, CloseCells, Teardown
      <4>2. phase[i] \in {"unpublished", "revoked", "cancelled", "closed"} /\ entries' = entries
        BY <3>2 DEF Revoke, CancelSteps, CloseCells, Teardown, Stopping
      <4> QED
        BY <4>1, <4>2, <2>0, GoChanges DEF Published
    <3>3. CASE ShutdownNotStarted(i)
      BY <3>3, <2>1 DEF ShutdownNotStarted, runtimeVars
    <3> QED
      BY <2>3, <3>1, <3>2, <3>3 DEF Stop
  <2>4. CASE Activate \/ StartPollsters \/ PollstersFail \/ StartGateway \/ GatewayFails \/ Signal \/ DrainGateway
             \/ StopPollsters \/ Exit \/ RejectManifest
    BY <2>1, <2>4 DEF Activate, StartPollsters, PollstersFail, StartGateway, GatewayFails, Signal, DrainGateway,
                      StopPollsters, Exit, RejectManifest, runtimeVars
  <2>5. CASE Around
    BY <2>1, <2>5, AroundLeaves DEF runtimeVars
  <2>6. CASE UNCHANGED vars
    BY <2>1, <2>6 DEF vars, runtimeVars
  <2> QED
    BY <1>2, <2>2, <2>3, <2>4, <2>5, <2>6 DEF Next
<1> QED
  BY <1>1, <1>2

----------------------------------------------------------------------------
(* guests *)

\* All but the last of a sequence.
LEMMA FrontIs ==
    ASSUME NEW S, NEW s \in Seq(S), s # <<>>
    PROVE  /\ Front(s) \in Seq(S)
           /\ Len(Front(s)) = Len(s) - 1
           /\ \A i \in 1..Len(Front(s)) : Front(s)[i] = s[i]
<1>1. Len(s) \in Nat /\ Len(s) > 0 /\ \A i \in 1..(Len(s) - 1) : s[i] \in S
  BY EmptySeq, LenProperties
<1> DEFINE n == Len(s) - 1
<1>2. n \in Int /\ 1 \in Int
  BY <1>1
<1>3. /\ SubSeq(s, 1, n) \in Seq(S)
      /\ Len(SubSeq(s, 1, n)) = IF 1 <= n THEN n - 1 + 1 ELSE 0
      /\ \A i \in 1..(n - 1 + 1) : SubSeq(s, 1, n)[i] = s[1 + i - 1]
  <2> HIDE DEF n
  <2>1. \A i \in 1..n : s[i] \in S
    BY <1>1 DEF n
  <2> QED
    BY <1>2, <2>1, SubSeqProperties
<1> QED
  <2>1. n - 1 + 1 = Len(s) - 1 /\ \A i \in 1..n : 1 + i - 1 = i
    BY <1>1
  <2>2. Front(s) = SubSeq(s, 1, n)
    BY DEF Front
  <2> QED
    BY <1>1, <1>3, <2>1, <2>2

\* A goroutine enters a guest.
LEMMA PushIs ==
    ASSUME TypeOK, NEW t \in Goroutine, NEW f \in Frame, Push(t, f)
    PROVE  /\ stack' \in [Goroutine -> Seq(Frame)]
           /\ \A u \in Goroutine : u # t => stack'[u] = stack[u]
           /\ Len(stack[t]) \in Nat /\ Len(stack'[t]) = Len(stack[t]) + 1
           /\ stack'[t][Len(stack[t]) + 1] = f
           /\ \A k \in 1 .. Len(stack[t]) : stack'[t][k] = stack[t][k]
<1>1. PICK s : s = stack[t]
  OBVIOUS
<1>2. s \in Seq(Frame) /\ stack' = [stack EXCEPT ![t] = Append(s, f)] /\ stack \in [Goroutine -> Seq(Frame)]
  BY <1>1 DEF TypeOK, Push
<1>3. /\ Append(s, f) \in Seq(Frame) /\ Len(s) \in Nat /\ Len(Append(s, f)) = Len(s) + 1
      /\ Append(s, f)[Len(s) + 1] = f
      /\ \A k \in 1 .. Len(s) : Append(s, f)[k] = s[k]
  <2>1. PICK Q : Q = Frame
    OBVIOUS
  <2> QED
    BY <1>2, <2>1
<1>4. PICK Q : Q = Frame
  OBVIOUS
<1> QED
  BY <1>1, <1>2, <1>3, <1>4

\* A goroutine leaves the innermost guest.
LEMMA PopIs ==
    ASSUME TypeOK, NEW t \in Goroutine, ~Idle(t), stack' = [stack EXCEPT ![t] = Front(@)]
    PROVE  /\ stack' \in [Goroutine -> Seq(Frame)]
           /\ \A u \in Goroutine : u # t => stack'[u] = stack[u]
           /\ Len(stack[t]) \in Nat /\ Len(stack'[t]) = Len(stack[t]) - 1 /\ Len(stack'[t]) \in Nat
           /\ \A k \in 1 .. Len(stack'[t]) : stack'[t][k] = stack[t][k]
<1>1. PICK s : s = stack[t]
  OBVIOUS
<1>2. PICK Q : Q = Frame
  OBVIOUS
<1>3. s \in Seq(Q) /\ stack' = [stack EXCEPT ![t] = Front(s)] /\ stack \in [Goroutine -> Seq(Q)] /\ s # <<>>
  BY <1>1, <1>2 DEF TypeOK, Idle
<1>4. /\ Front(s) \in Seq(Q) /\ Len(s) \in Nat /\ Len(Front(s)) = Len(s) - 1 /\ Len(s) > 0
      /\ \A k \in 1 .. Len(Front(s)) : Front(s)[k] = s[k]
  <2>1. Len(s) \in Nat /\ Len(s) > 0
    BY <1>3, EmptySeq, LenProperties
  <2> QED
    BY <1>3, <2>1, FrontIs
<1> QED
  BY <1>1, <1>2, <1>3, <1>4

\* The cells of an instance have names.
LEMMA CellsAre ==
    ASSUME TypeOK, NEW i \in Instances
    PROVE  \A c \in Physical(Entry(i)) : c.name \in Nat /\ c.provides \subseteq Nat
<1>1. i[1] \in Ids(host) /\ host \in Manifests
  BY InstancesAre DEF TypeOK
<1>2. PICK k \in DOMAIN host.apps : EntryOf(host, i[1]) = host.apps[k]
  BY <1>1 DEF EntryOf, Ids
<1> QED
  BY <1>1, <1>2, ManifestsAssumption DEF Entry

\* The frame a step or a command enters with.
LEMMA EnterIs ==
    ASSUME TypeOK, NEW t, NEW i \in Instances, Enter(t, i)
    PROVE  \E f \in Frame : f.at = i /\ Push(t, f)
<1>1. PICK c \in Physical(Entry(i)) : Push(t, [at |-> i, cell |-> c.name, provider |-> 0])
  BY DEF Enter
<1>2. [at |-> i, cell |-> c.name, provider |-> 0] \in Frame
  BY CellsAre DEF Frame
<1> QED
  BY <1>1, <1>2

\* The frame a cross-application call enters with.
LEMMA CallIs ==
    ASSUME TypeOK, NEW t, Calls(t)
    PROVE  ~Idle(t) /\ \E f \in Frame : f.at \in entries /\ Push(t, f)
<1>1. PICK j \in Instances : \E c \in Physical(Entry(j)) : \E p \in c.provides : CrossCall(t, j, c.name, p)
  BY DEF Calls
<1>2. PICK c \in Physical(Entry(j)) : \E p \in c.provides : CrossCall(t, j, c.name, p)
  BY <1>1
<1>3. PICK p \in c.provides : CrossCall(t, j, c.name, p)
  BY <1>2
<1>4. [at |-> j, cell |-> c.name, provider |-> p] \in Frame
  BY CellsAre DEF Frame
<1> QED
  BY <1>3, <1>4 DEF CrossCall

\* The frames of a goroutine.
LEMMA FramesAre ==
    ASSUME TypeOK, NEW u \in Goroutine
    PROVE  /\ Len(stack[u]) \in Nat /\ DOMAIN stack[u] = 1 .. Len(stack[u])
           /\ stack[u] = <<>> <=> Len(stack[u]) = 0
           /\ \A k \in 1 .. Len(stack[u]) : stack[u][k].at \in Instances
<1>1. PICK Q : Q = Frame
  OBVIOUS
<1>2. stack[u] \in Seq(Q)
  BY <1>1 DEF TypeOK
<1>3. \A k \in 1 .. Len(stack[u]) : stack[u][k] \in Q
  BY <1>2
<1>4. \A f \in Q : f.at \in Instances
  BY <1>1 DEF Frame
<1> QED
  BY <1>2, <1>3, <1>4

\* Where a goroutine may be in a guest stays so when it enters one more.
LEMMA PushKeeps ==
    ASSUME TypeOK, Entered, Called, NEW t \in Goroutine, NEW f \in Frame, Push(t, f), order' = order,
           \A i \in Instances : phase[i] \in Loaded => phase'[i] = phase[i],
           stack[t] = <<>> => /\ f.at = t[2]
                              /\ t[1] = "loop" => phase'[t[2]] \in Loaded
                              /\ t[1] = "operator" => phase'[t[2]] \in Accessible \cup {"revoked"},
           stack[t] # <<>> => phase'[f.at] \in {"published", "ready", "unpublished"}
    PROVE  Entered' /\ Called'
<1>0. Instances' = Instances /\ Goroutine' = Goroutine /\ Frame' = Frame
  BY SameInstances
<1>1. /\ stack' \in [Goroutine -> Seq(Frame)]
      /\ \A u \in Goroutine : u # t => stack'[u] = stack[u]
      /\ Len(stack[t]) \in Nat /\ Len(stack'[t]) = Len(stack[t]) + 1
      /\ stack'[t][Len(stack[t]) + 1] = f
      /\ \A k \in 1 .. Len(stack[t]) : stack'[t][k] = stack[t][k]
  BY PushIs
<1>2. \A u \in Goroutine : u[2] \in Instances /\ u[1] \in {"loop", "operator"}
  BY DEF Goroutine
<1>3. \A u \in Goroutine : /\ Len(stack[u]) \in Nat
                           /\ stack[u] = <<>> <=> Len(stack[u]) = 0
                           /\ \A k \in 1 .. Len(stack[u]) : stack[u][k].at \in Instances
  BY FramesAre
<1>4. Entered'
  <2> SUFFICES ASSUME NEW u \in Goroutine, stack'[u] # <<>>
               PROVE  /\ stack'[u][1].at = u[2]
                      /\ u[1] = "loop" => phase'[u[2]] \in Loaded
                      /\ u[1] = "operator" => phase'[u[2]] \in Accessible \cup {"revoked"}
    BY <1>0 DEF Entered
  <2>1. CASE stack[u] # <<>>
    <3>1. stack'[u][1] = stack[u][1]
      BY <1>1, <1>3, <2>1
    <3>2. phase[u[2]] \in Loaded
      BY <1>2, <2>1 DEF Entered, Loaded, Looping, Accessible
    <3> QED
      BY <1>2, <2>1, <3>1, <3>2 DEF Entered
  <2>2. CASE stack[u] = <<>>
    <3>1. u = t
      BY <1>1, <2>2
    <3>2. stack'[u][1] = f
      BY <1>1, <1>3, <2>2, <3>1
    <3> QED
      BY <2>2, <3>1, <3>2
  <2> QED
    BY <2>1, <2>2
<1>5. Called'
  <2> SUFFICES ASSUME NEW u \in Goroutine, NEW k \in 2 .. Len(stack'[u])
               PROVE  phase'[stack'[u][k].at] \in {"published", "ready", "unpublished"}
    BY <1>0 DEF Called
  <2>1. CASE k \in 2 .. Len(stack[u])
    <3>1. stack'[u][k] = stack[u][k]
      <4>1. CASE u = t
        BY <4>1, <1>1, <2>1
      <4>2. CASE u # t
        BY <4>2, <1>1
      <4> QED
        BY <4>1, <4>2
    <3>2. phase[stack[u][k].at] \in {"published", "ready", "unpublished"} /\ stack[u][k].at \in Instances
      BY <1>3, <2>1 DEF Called
    <3> QED
      BY <3>1, <3>2 DEF Loaded, Looping
  <2>2. CASE k \notin 2 .. Len(stack[u])
    <3>1. u = t /\ k = Len(stack[t]) + 1
      BY <1>1, <1>3, <2>2
    <3>2. stack[t] # <<>>
      BY <1>3, <3>1
    <3> QED
      BY <1>1, <3>1, <3>2
  <2> QED
    BY <2>1, <2>2
<1> QED
  BY <1>4, <1>5

\* Leaving guests is always possible, as is going on to a phase in which they
\* are still loaded.
LEMMA LeavingKeeps ==
    ASSUME TypeOK, Entered, Called, order' = order, stack' \in [Goroutine -> Seq(Frame)],
           \A t \in Goroutine : /\ Len(stack'[t]) <= Len(stack[t])
                                /\ \A k \in 1 .. Len(stack'[t]) : stack'[t][k] = stack[t][k],
           \A t \in Goroutine : stack'[t] # <<>> =>
                /\ t[1] = "loop" /\ phase[t[2]] \in Loaded => phase'[t[2]] \in Loaded
                /\ t[1] = "operator" /\ phase[t[2]] \in Accessible \cup {"revoked"}
                        => phase'[t[2]] \in Accessible \cup {"revoked"},
           \A t \in Goroutine, k \in Nat :
                /\ k \in 2 .. Len(stack[t])
                /\ phase[stack[t][k].at] \in {"published", "ready", "unpublished"}
                => phase'[stack[t][k].at] \in {"published", "ready", "unpublished"}
    PROVE  Entered' /\ Called'
<1>0. Instances' = Instances /\ Goroutine' = Goroutine /\ Frame' = Frame
  BY SameInstances
<1>1. \A t \in Goroutine : /\ stack[t] \in Seq(Frame) /\ Len(stack[t]) \in Nat /\ Len(stack'[t]) \in Nat
                           /\ stack[t] = <<>> <=> Len(stack[t]) = 0
                           /\ stack'[t] = <<>> <=> Len(stack'[t]) = 0
  BY DEF TypeOK
<1>2. Entered'
  <2> SUFFICES ASSUME NEW t \in Goroutine, stack'[t] # <<>>
               PROVE  /\ stack'[t][1].at = t[2]
                      /\ t[1] = "loop" => phase'[t[2]] \in Loaded
                      /\ t[1] = "operator" => phase'[t[2]] \in Accessible \cup {"revoked"}
    BY <1>0 DEF Entered
  <2>1. stack[t] # <<>> /\ stack'[t][1] = stack[t][1]
    BY <1>1
  <2> QED
    BY <2>1 DEF Entered
<1>3. Called'
  <2> SUFFICES ASSUME NEW t \in Goroutine, NEW k \in 2 .. Len(stack'[t])
               PROVE  phase'[stack'[t][k].at] \in {"published", "ready", "unpublished"}
    BY <1>0 DEF Called
  <2>1. k \in 2 .. Len(stack[t]) /\ k \in Nat /\ stack'[t][k] = stack[t][k]
    BY <1>1
  <2> QED
    BY <2>1 DEF Called
<1> QED
  BY <1>2, <1>3

\* No step pulls the cells from under a goroutine: the joins of stopLocked.
LEMMA GuestsStep ==
    ASSUME IInv, [Next]_vars
    PROVE  Entered' /\ Called'
<1> USE DEF IInv
<1>t. \A t \in Goroutine : t[1] \in {"loop", "operator"} /\ t[2] \in Instances /\ t = <<t[1], t[2]>>
  BY DEF Goroutine
<1>f. \A u \in Goroutine : /\ Len(stack[u]) \in Nat
                           /\ stack[u] = <<>> <=> Len(stack[u]) = 0
                           /\ \A k \in 1 .. Len(stack[u]) : stack[u][k].at \in Instances
  BY FramesAre
<1>1. CASE LoadApplications
  <2>1. \A t \in Goroutine' : stack'[t] = <<>>
    BY <1>1 DEF LoadApplications, Goroutine, Instances
  <2> QED
    BY <2>1 DEF Entered, Called
<1>2. CASE ~LoadApplications
  <2>0. order' = order
    BY <1>2, OrderedStep
  <2>g. \A i \in Instances : <<"loop", i>> \in Goroutine /\ <<"operator", i>> \in Goroutine
    BY DEF Goroutine
  <2>1. CASE UNCHANGED <<stack, phase>>
    <3>1. Goroutine' = Goroutine
      BY <2>0, SameInstances
    <3> QED
      BY <2>1, <3>1 DEF Entered, Called
  \* a phase in which everything stays loaded
  <2>2. ASSUME NEW i \in Instances, NEW x, Go(i, x), stack' = stack,
               Idle(<<"loop", i>>) \/ (phase[i] \in Loaded => x \in Loaded),
               Idle(<<"operator", i>>) \/
                    (phase[i] \in Accessible \cup {"revoked"} => x \in Accessible \cup {"revoked"}),
               Inbound(i) = {} \/ (phase[i] \in {"published", "ready", "unpublished"}
                                      => x \in {"published", "ready", "unpublished"})
        PROVE  Entered' /\ Called'
    <3>1. \A j \in Instances : phase'[j] = IF j = i THEN x ELSE phase[j]
      BY <2>2, GoChanges
    <3>2. \A t \in Goroutine : /\ Len(stack'[t]) <= Len(stack[t])
                               /\ \A k \in 1 .. Len(stack'[t]) : stack'[t][k] = stack[t][k]
      BY <1>f, <2>2
    <3>3. ASSUME NEW t \in Goroutine, stack'[t] # <<>>
          PROVE  /\ t[1] = "loop" /\ phase[t[2]] \in Loaded => phase'[t[2]] \in Loaded
                 /\ t[1] = "operator" /\ phase[t[2]] \in Accessible \cup {"revoked"}
                        => phase'[t[2]] \in Accessible \cup {"revoked"}
      <4>1. CASE t[2] # i
        BY <4>1, <3>1, <1>t
      <4>2. CASE t[2] = i /\ t[1] = "loop"
        <5>1. t = <<"loop", i>> /\ ~Idle(<<"loop", i>>)
          BY <4>2, <1>t, <2>2, <3>3 DEF Idle
        <5> QED
          BY <4>2, <5>1, <3>1, <2>2
      <4>3. CASE t[2] = i /\ t[1] = "operator"
        <5>1. t = <<"operator", i>> /\ ~Idle(<<"operator", i>>)
          BY <4>3, <1>t, <2>2, <3>3 DEF Idle
        <5> QED
          BY <4>3, <5>1, <3>1, <2>2
      <4> QED
        BY <4>1, <4>2, <4>3, <1>t
    <3>4. ASSUME NEW t \in Goroutine, NEW k \in 2 .. Len(stack[t]),
                 phase[stack[t][k].at] \in {"published", "ready", "unpublished"}
          PROVE  phase'[stack[t][k].at] \in {"published", "ready", "unpublished"}
      <4>1. stack[t][k].at \in Instances
        BY <1>f
      <4>2. CASE stack[t][k].at # i
        BY <4>1, <4>2, <3>1, <3>4
      <4>3. CASE stack[t][k].at = i
        <5>1. <<t, k>> \in UNION {{u} \X (2 .. Len(stack[u])) : u \in Goroutine}
          OBVIOUS
        <5>2. <<t, k>> \in Inbound(i)
          BY <5>1, <4>3 DEF Inbound
        <5> QED
          BY <5>2, <4>3, <3>1, <3>4, <2>2
      <4> QED
        BY <4>2, <4>3
    <3>5. stack' \in [Goroutine -> Seq(Frame)]
      BY <2>2 DEF TypeOK
    <3> QED
      BY <2>0, <3>2, <3>3, <3>4, <3>5, LeavingKeeps
  \* the end of pulp_init
  <2>3. ASSUME NEW i \in Instances, NEW x, Go(i, x),
               \/ phase[i] = "init" /\ x = "launched"
               \/ phase[i] \in {"init", "launched", "published"} /\ x = "unpublished",
               stack' = [stack EXCEPT ![<<"loop", i>>] = <<>>]
        PROVE  Entered' /\ Called'
    <3>1. \A j \in Instances : phase'[j] = IF j = i THEN x ELSE phase[j]
      BY <2>3, GoChanges
    <3>2. stack' \in [Goroutine -> Seq(Frame)]
      <4>1. PICK Q : Q = Frame
        OBVIOUS
      <4>2. <<>> \in Seq(Q) /\ stack \in [Goroutine -> Seq(Q)]
        BY <4>1 DEF TypeOK
      <4> QED
        BY <4>1, <4>2, <2>3
    <3>3. \A t \in Goroutine : IF t = <<"loop", i>> THEN stack'[t] = <<>> ELSE stack'[t] = stack[t]
      BY <2>3 DEF TypeOK
    <3>4. \A t \in Goroutine : /\ Len(stack'[t]) <= Len(stack[t])
                               /\ \A k \in 1 .. Len(stack'[t]) : stack'[t][k] = stack[t][k]
      BY <1>f, <3>3
    <3>5. \A t \in Goroutine : stack'[t] # <<>> =>
                /\ t[1] = "loop" /\ phase[t[2]] \in Loaded => phase'[t[2]] \in Loaded
                /\ t[1] = "operator" /\ phase[t[2]] \in Accessible \cup {"revoked"}
                        => phase'[t[2]] \in Accessible \cup {"revoked"}
      <4>1. x \in Accessible /\ x \in Loaded
        BY <2>3 DEF Loaded, Looping, Accessible
      <4> QED
        BY <4>1, <1>t, <3>1
    <3>6. ASSUME NEW t \in Goroutine, NEW k \in 2 .. Len(stack[t]),
                 phase[stack[t][k].at] \in {"published", "ready", "unpublished"}
          PROVE  phase'[stack[t][k].at] \in {"published", "ready", "unpublished"}
      <4>1. stack[t][k].at \in Instances
        BY <1>f
      <4>2. stack[t][k].at = i => x = "unpublished"
        BY <2>3, <3>6
      <4> QED
        BY <4>1, <4>2, <3>1, <3>6
    <3> QED
      BY <2>0, <3>2, <3>4, <3>5, <3>6, LeavingKeeps
  <2>4. ASSUME NEW i \in Instances, Boot(i) PROVE Entered' /\ Called'
    <3>1. CASE PlanFails(i) \/ SetupCapability(i)
      BY <3>1, <2>1 DEF PlanFails, SetupCapability, runtimeVars
    <3>2. CASE Plan(i)
      BY <3>2, <2>2 DEF Plan, Booting, Loaded, Looping, Accessible
    <3>3. CASE SetupFails(i)
      BY <3>3, <2>2 DEF SetupFails, Booting, Loaded, Looping, Accessible
    <3>4. CASE BeginInit(i)
      <4>1. Go(i, "init") /\ phase[i] = "planned" /\ Enter(<<"loop", i>>, i)
        BY <3>4 DEF BeginInit, Booting
      <4>2. PICK f \in Frame : f.at = i /\ Push(<<"loop", i>>, f)
        BY <4>1, EnterIs
      <4>3. \A j \in Instances : phase'[j] = IF j = i THEN "init" ELSE phase[j]
        BY <4>1, GoChanges
      <4>4. PICK t : t = <<"loop", i>>
        OBVIOUS
      <4>5. t \in Goroutine /\ t[1] = "loop" /\ t[2] = i /\ Push(t, f)
        BY <4>2, <4>4, <2>g
      <4>6. stack[t] = <<>>
        BY <4>1, <4>5 DEF Entered, Loaded, Looping
      <4>7. \A j \in Instances : phase[j] \in Loaded => phase'[j] = phase[j]
        BY <4>1, <4>3 DEF Loaded, Looping
      <4>8. phase'[i] \in Loaded
        BY <4>3 DEF Loaded
      <4> QED
        BY <2>0, <4>2, <4>5, <4>6, <4>7, <4>8, PushKeeps
    <3>5. CASE EndInit(i)
      BY <3>5, <2>3 DEF EndInit, Booting
    <3>6. CASE MarkReady(i)
      BY <3>6, <2>2 DEF MarkReady, Booting, Loaded, Looping, Accessible
    <3>7. CASE Observed(i)
      BY <3>7, <2>2 DEF Observed, Booting, Loaded, Looping, Accessible
    <3>8. CASE StartFails(i)
      BY <3>8, <2>3 DEF StartFails, Booting
    <3> QED
      BY <2>4, <3>1, <3>2, <3>3, <3>4, <3>5, <3>6, <3>7, <3>8 DEF Boot
  <2>5. ASSUME NEW i \in Instances, Stop(i) PROVE Entered' /\ Called'
    <3>1. CASE MarkUnavailable(i)
      BY <3>1, <2>2 DEF MarkUnavailable, Stopping, Loaded, Looping, Accessible
    <3>2. CASE Revoke(i)
      BY <3>2, <2>2 DEF Revoke, Stopping, Loaded, Looping, Accessible
    <3>3. CASE CancelSteps(i)
      BY <3>3, <2>2 DEF CancelSteps, Stopping, Loaded, Looping, Accessible
    <3>4. CASE CloseCells(i)
      BY <3>4, <2>2 DEF CloseCells, Stopping, Loaded, Looping, Accessible
    <3>5. CASE Teardown(i)
      BY <3>5, <2>2 DEF Teardown, Stopping, Loaded, Looping, Accessible
    <3>6. CASE ShutdownNotStarted(i)
      BY <3>6, <2>1 DEF ShutdownNotStarted, runtimeVars
    <3> QED
      BY <2>5, <3>1, <3>2, <3>3, <3>4, <3>5, <3>6 DEF Stop
  <2>6. CASE Activate \/ StartPollsters \/ PollstersFail \/ StartGateway \/ GatewayFails \/ Signal \/ DrainGateway
             \/ StopPollsters \/ Exit \/ RejectManifest
    BY <2>1, <2>6 DEF Activate, StartPollsters, PollstersFail, StartGateway, GatewayFails, Signal, DrainGateway,
                      StopPollsters, Exit, RejectManifest, runtimeVars
  <2>7. ASSUME NEW t \in Goroutine, NEW f \in Frame, Push(t, f), phase' = phase,
               stack[t] = <<>> => /\ f.at = t[2]
                                  /\ t[1] = "loop" => phase[t[2]] \in Loaded
                                  /\ t[1] = "operator" => phase[t[2]] \in Accessible \cup {"revoked"},
               stack[t] # <<>> => phase[f.at] \in {"published", "ready", "unpublished"}
        PROVE  Entered' /\ Called'
    BY <2>0, <2>7, PushKeeps
  <2>8. ASSUME NEW i \in Instances, BeginStep(i) PROVE Entered' /\ Called'
    <3>1. PICK f \in Frame : f.at = i /\ Push(<<"loop", i>>, f)
      BY <2>8, EnterIs DEF BeginStep
    <3>2. PICK t : t = <<"loop", i>>
      OBVIOUS
    <3>3. t \in Goroutine /\ t[1] = "loop" /\ t[2] = i /\ Push(t, f)
      BY <3>1, <3>2, <2>g
    <3>4. stack[t] = <<>> /\ phase' = phase /\ phase[i] \in Loaded
      BY <2>8, <3>2 DEF BeginStep, Idle, runtimeVars, Loaded
    <3> QED
      BY <3>1, <3>3, <3>4, <2>7
  <2>9. ASSUME NEW i \in Instances, OperatorCall(i) PROVE Entered' /\ Called'
    <3>1. PICK f \in Frame : f.at = i /\ Push(<<"operator", i>>, f)
      BY <2>9, EnterIs DEF OperatorCall
    <3>2. PICK t : t = <<"operator", i>>
      OBVIOUS
    <3>3. t \in Goroutine /\ t[1] = "operator" /\ t[2] = i /\ Push(t, f)
      BY <3>1, <3>2, <2>g
    <3>4. stack[t] = <<>> /\ phase' = phase /\ phase[i] \in Accessible
      BY <2>9, <3>2 DEF OperatorCall, Idle, runtimeVars
    <3> QED
      BY <3>1, <3>3, <3>4, <2>7
  <2>10. ASSUME NEW t \in Goroutine, Calls(t) PROVE Entered' /\ Called'
    <3>1. PICK f \in Frame : f.at \in entries /\ Push(t, f)
      BY <2>10, CallIs
    <3>2. stack[t] # <<>> /\ phase' = phase
      BY <2>10, CallIs DEF Calls, CrossCall, Idle, runtimeVars
    <3>3. phase[f.at] \in {"published", "ready"}
      BY <3>1 DEF Published, TypeOK
    <3> QED
      BY <3>1, <3>2, <3>3, <2>7
  <2>11. ASSUME NEW t \in Goroutine, Return(t) PROVE Entered' /\ Called'
    <3>1. stack' = [stack EXCEPT ![t] = Front(@)] /\ ~Idle(t) /\ phase' = phase
      BY <2>11 DEF Return, runtimeVars
    <3>2. /\ stack' \in [Goroutine -> Seq(Frame)]
          /\ \A u \in Goroutine : u # t => stack'[u] = stack[u]
          /\ Len(stack[t]) \in Nat /\ Len(stack'[t]) = Len(stack[t]) - 1 /\ Len(stack'[t]) \in Nat
          /\ \A k \in 1 .. Len(stack'[t]) : stack'[t][k] = stack[t][k]
      BY <3>1, PopIs
    <3>3. \A u \in Goroutine : /\ Len(stack'[u]) <= Len(stack[u])
                               /\ \A k \in 1 .. Len(stack'[u]) : stack'[u][k] = stack[u][k]
      BY <1>f, <3>2
    <3> QED
      BY <2>0, <3>1, <3>2, <3>3, LeavingKeeps
  <2>12. CASE Around
    <3>1. phase' = phase
      BY <2>12, AroundLeaves DEF runtimeVars
    <3>2. CASE stack' = stack
      BY <3>1, <3>2, <2>1
    <3>3. CASE stack' # stack
      <4>1. \/ \E i \in Instances : BeginStep(i) \/ OperatorCall(i)
            \/ \E t \in Goroutine : Calls(t) \/ Return(t)
        BY <2>12, <3>3 DEF Around, MoveListener, Ready, Deliver, Gone, Accept, Serve, Respond
      <4> QED
        BY <4>1, <2>8, <2>9, <2>10, <2>11
    <3> QED
      BY <3>2, <3>3
  <2>13. CASE UNCHANGED vars
    BY <2>13, <2>1 DEF vars, runtimeVars
  <2> QED
    BY <1>2, <2>4, <2>5, <2>6, <2>12, <2>13 DEF Next
<1> QED
  BY <1>1, <1>2

----------------------------------------------------------------------------
(* events, capabilities and listeners *)

\* In the stretch in which pollsters run, every instance is ready.
LEMMA AllReady ==
    ASSUME TypeOK, Progress, pc \in Serving
    PROVE  \A i \in Instances : phase[i] = "ready"
BY InstancesAre DEF Progress

\* Pollsters are stopped before anything else, and a closed instance has no
\* event left.
LEMMA PollsStep ==
    ASSUME IInv, [Next]_vars
    PROVE  Polls'
<1> USE DEF IInv
<1>1. CASE LoadApplications
  <2>1. polling' = polling /\ queue' = [i \in Range(order') |-> FALSE] /\ pc = "load"
    BY <1>1 DEF LoadApplications
  <2> QED
    BY <2>1 DEF Polls, Instances
<1>2. CASE ~LoadApplications
  <2>0. Instances' = Instances
    BY <1>2, OrderedStep, SameInstances
  <2>1. CASE UNCHANGED <<pc, polling, queue, phase>>
    BY <2>0, <2>1 DEF Polls
  <2>2. ASSUME NEW i \in Instances, Boot(i) PROVE Polls'
    <3>1. ~polling /\ UNCHANGED <<polling, queue>>
      BY <2>2 DEF Polls, Boot, Plan, PlanFails, SetupCapability, SetupFails, BeginInit, EndInit, MarkReady,
                  Observed, StartFails, Booting, frontVars
    <3>2. CASE phase' = phase
      BY <3>1, <3>2, <2>0 DEF Polls
    <3>3. CASE \E x : Go(i, x) /\ phase[i] \in {"off", "planned", "init", "launched", "published"}
      <4>1. PICK x : Go(i, x) /\ phase[i] \in {"off", "planned", "init", "launched", "published"}
        BY <3>3
      <4>2. ~queue[i]
        BY <4>1 DEF Polls
      <4>3. \A j \in Instances : phase'[j] = IF j = i THEN x ELSE phase[j]
        BY <4>1, GoChanges
      <4> QED
        BY <3>1, <4>2, <4>3, <2>0 DEF Polls
    <3>4. phase' = phase \/ \E x : Go(i, x) /\ phase[i] \in {"off", "planned", "init", "launched", "published"}
      BY <2>2 DEF Boot, Plan, PlanFails, SetupCapability, SetupFails, BeginInit, EndInit, MarkReady,
                  Observed, StartFails, Booting, runtimeVars
    <3> QED
      BY <3>2, <3>3, <3>4
  <2>3. ASSUME NEW i \in Instances, Stop(i) PROVE Polls'
    <3>1. ~polling /\ UNCHANGED <<polling, pc>>
      BY <2>3 DEF Polls, Stop, MarkUnavailable, Revoke, CancelSteps, CloseCells, Teardown, ShutdownNotStarted,
                  Stopping, frontVars, mainVars
    <3>2. CASE MarkUnavailable(i) \/ Revoke(i) \/ CancelSteps(i)
      <4>1. PICK x \in {"unpublished", "revoked", "cancelled"} : Go(i, x) /\ queue' = queue
        BY <3>2 DEF MarkUnavailable, Revoke, CancelSteps, frontVars
      <4> QED
        BY <4>1, <3>1, <2>0, GoChanges DEF Polls
    <3>3. CASE CloseCells(i)
      <4>1. Go(i, "closed") /\ queue' = [queue EXCEPT ![i] = FALSE]
        BY <3>3 DEF CloseCells
      <4>2. \A j \in Instances : queue'[j] = IF j = i THEN FALSE ELSE queue[j]
        BY <4>1 DEF TypeOK
      <4> QED
        BY <4>1, <4>2, <3>1, <2>0, GoChanges DEF Polls
    <3>4. CASE Teardown(i)
      <4>1. Go(i, "off") /\ queue' = queue /\ ~queue[i]
        BY <3>4 DEF Teardown, frontVars, Stopping, Polls
      <4> QED
        BY <4>1, <3>1, <2>0, GoChanges DEF Polls
    <3>5. CASE ShutdownNotStarted(i)
      BY <3>1, <3>5, <2>1 DEF ShutdownNotStarted, runtimeVars, frontVars
    <3> QED
      BY <2>3, <3>2, <3>3, <3>4, <3>5 DEF Stop
  <2>4. CASE Activate \/ StartPollsters \/ PollstersFail \/ StartGateway \/ GatewayFails \/ Signal \/ DrainGateway
             \/ StopPollsters \/ Exit \/ RejectManifest
    <3>1. UNCHANGED <<phase, queue>>
      BY <2>4 DEF Activate, StartPollsters, PollstersFail, StartGateway, GatewayFails, Signal, DrainGateway,
                  StopPollsters, Exit, RejectManifest, runtimeVars, frontVars
    <3>2. polling' => pc' \in {"gateway", "up", "drain", "stoppoll"}
      BY <2>4 DEF Activate, StartPollsters, PollstersFail, StartGateway, GatewayFails, Signal, DrainGateway,
                  StopPollsters, Exit, RejectManifest, frontVars, Polls
    <3> QED
      BY <3>1, <3>2, <2>0 DEF Polls
  <2>5. CASE Around
    <3>1. UNCHANGED <<pc, phase>> /\ polling' = polling
      BY <2>5, AroundLeaves DEF Around, BeginStep, OperatorCall, MoveListener, Ready, Deliver, Gone, Calls,
           CrossCall, Return, Accept, Serve, Respond, mainVars, runtimeVars, frontVars
    <3>2. ASSUME NEW i \in Instances, Deliver(i) PROVE Polls'
      <4>1. pc \in Serving
        BY <3>2 DEF Deliver, Polls, Serving
      <4>2. phase[i] = "ready"
        BY <4>1, AllReady
      <4>3. \A j \in Instances : queue'[j] = IF j = i THEN TRUE ELSE queue[j]
        BY <3>2 DEF Deliver, TypeOK
      <4> QED
        BY <3>1, <4>2, <4>3, <2>0 DEF Polls
    <3>3. ASSUME NEW i \in Instances, BeginStep(i) PROVE Polls'
      <4>1. \A j \in Instances : queue'[j] = IF j = i THEN FALSE ELSE queue[j]
        BY <3>3 DEF BeginStep, TypeOK
      <4> QED
        BY <3>1, <4>1, <2>0 DEF Polls
    <3>4. \/ queue' = queue
          \/ \E i \in Instances : Deliver(i) \/ BeginStep(i)
      BY <2>5 DEF Around, OperatorCall, MoveListener, Ready, Gone, Calls, CrossCall, Return, Accept, Serve,
                  Respond, frontVars
    <3> QED
      BY <3>1, <3>2, <3>3, <3>4, <2>1
  <2>6. CASE UNCHANGED vars
    BY <2>1, <2>6 DEF vars, runtimeVars, mainVars, frontVars
  <2> QED
    BY <1>2, <2>2, <2>3, <2>4, <2>5, <2>6 DEF Next
<1> QED
  BY <1>1, <1>2

\* What is set up is torn down, except where a setup failed.
LEMMA KeptStep ==
    ASSUME IInv, [Next]_vars
    PROVE  Kept'
<1> USE DEF IInv
<1>1. CASE LoadApplications
  <2>1. /\ unfinished' = {} /\ caps' = [i \in Range(order') |-> {}]
        /\ endpoint' = [i \in Range(order') |-> 0]
    BY <1>1, NothingLoaded DEF LoadApplications
  <2> QED
    BY <2>1 DEF Kept, Instances
<1>2. CASE ~LoadApplications
  <2>0. Instances' = Instances
    BY <1>2, OrderedStep, SameInstances
  <2>1. CASE UNCHANGED <<pc, unfinished, phase, caps, endpoint>>
    BY <2>0, <2>1 DEF Kept
  <2>2. ASSUME NEW i \in Instances, Boot(i) PROVE Kept'
    <3>1. pc = "boot" /\ unfinished = {}
      BY <2>2 DEF Kept, Boot, Plan, PlanFails, SetupCapability, SetupFails, BeginInit, EndInit, MarkReady,
                  Observed, StartFails, Booting
    <3>2. CASE Plan(i) \/ BeginInit(i) \/ EndInit(i) \/ MarkReady(i) \/ Observed(i) \/ StartFails(i)
      <4>1. PICK x \in {"planned", "init", "launched", "published", "ready", "unpublished"} : Go(i, x)
        BY <3>2 DEF Plan, BeginInit, EndInit, MarkReady, Observed, StartFails
      <4>2. UNCHANGED <<unfinished, caps, endpoint>>
        BY <3>2 DEF Plan, BeginInit, EndInit, MarkReady, Observed, StartFails, mainVars, endpointVars
      <4> QED
        BY <3>1, <4>1, <4>2, <2>0, GoChanges DEF Kept
    <3>3. CASE PlanFails(i)
      BY <3>1, <3>3, <2>0 DEF PlanFails, Kept, runtimeVars, endpointVars
    <3>4. CASE SetupCapability(i)
      <4>1. UNCHANGED <<unfinished, phase>> /\ phase[i] = "planned"
        BY <3>4 DEF SetupCapability, mainVars, Booting
      <4>2. \A j \in Instances : j # i => caps'[j] = caps[j] /\ endpoint'[j] = endpoint[j]
        BY <3>4 DEF SetupCapability, TypeOK
      <4> QED
        BY <3>1, <4>1, <4>2, <2>0 DEF Kept
    <3>5. CASE SetupFails(i)
      <4>1. Go(i, "off") /\ unfinished' = {i} /\ pc' = "stop" /\ UNCHANGED <<caps, endpoint>>
        BY <3>5 DEF SetupFails, RollBack, endpointVars
      <4> QED
        BY <3>1, <4>1, <2>0, GoChanges DEF Kept
    <3> QED
      BY <2>2, <3>2, <3>3, <3>4, <3>5 DEF Boot
  <2>3. ASSUME NEW i \in Instances, Stop(i) PROVE Kept'
    <3>1. pc = "stop" /\ UNCHANGED <<pc, unfinished>>
      BY <2>3 DEF Stop, MarkUnavailable, Revoke, CancelSteps, CloseCells, Teardown, ShutdownNotStarted,
                  Stopping, mainVars
    <3>2. CASE MarkUnavailable(i) \/ Revoke(i) \/ CancelSteps(i) \/ CloseCells(i)
      <4>1. PICK x \in {"unpublished", "revoked", "cancelled", "closed"} : Go(i, x)
        BY <3>2 DEF MarkUnavailable, Revoke, CancelSteps, CloseCells
      <4>2. UNCHANGED <<caps, endpoint>>
        BY <3>2 DEF MarkUnavailable, Revoke, CancelSteps, CloseCells, endpointVars
      <4> QED
        BY <3>1, <4>1, <4>2, <2>0, GoChanges DEF Kept
    <3>3. CASE Teardown(i)
      <4>1. Go(i, "off")
        BY <3>3 DEF Teardown
      <4>2. \A j \in Instances : /\ caps'[j] = IF j = i THEN {} ELSE caps[j]
                                 /\ endpoint'[j] = IF j = i THEN 0 ELSE endpoint[j]
        BY <3>3 DEF Teardown, TypeOK
      <4> QED
        BY <3>1, <4>1, <4>2, <2>0, GoChanges DEF Kept
    <3>4. CASE ShutdownNotStarted(i)
      BY <3>1, <3>4, <2>1 DEF ShutdownNotStarted, runtimeVars, endpointVars
    <3> QED
      BY <2>3, <3>2, <3>3, <3>4 DEF Stop
  <2>4. CASE Activate \/ StartPollsters \/ PollstersFail \/ StartGateway \/ GatewayFails \/ Signal \/ DrainGateway
             \/ StopPollsters \/ Exit \/ RejectManifest
    <3>1. UNCHANGED <<phase, caps, endpoint, unfinished>>
      BY <2>4 DEF Activate, StartPollsters, PollstersFail, StartGateway, GatewayFails, Signal, DrainGateway,
                  StopPollsters, Exit, RejectManifest, runtimeVars, endpointVars
    <3>2. pc \in {"stop", "exited"} => pc' \in {"stop", "exited"}
      BY <2>4 DEF Activate, StartPollsters, PollstersFail, StartGateway, GatewayFails, Signal, DrainGateway,
                  StopPollsters, Exit, RejectManifest
    <3> QED
      BY <3>1, <3>2, <2>0 DEF Kept
  <2>5. CASE Around
    <3>1. UNCHANGED <<pc, unfinished, phase, caps>>
      BY <2>5, AroundLeaves DEF mainVars, runtimeVars
    <3>2. ASSUME NEW i \in Instances, Ready(i) PROVE Kept'
      <4>1. phase[i] = "ready" /\ \A j \in Instances : j # i => endpoint'[j] = endpoint[j]
        BY <3>2 DEF Ready, TypeOK
      <4> QED
        BY <3>1, <4>1, <2>0 DEF Kept
    <3>3. ASSUME NEW i \in Instances, NEW a \in 1 .. MaxAddresses, Gone(i, a) PROVE Kept'
      <4>1. \A j \in Instances : endpoint'[j] \in {0, endpoint[j]}
        BY <3>3 DEF Gone, TypeOK
      <4> QED
        BY <3>1, <4>1, <2>0 DEF Kept
    <3>4. \/ endpoint' = endpoint
          \/ \E i \in Instances : Ready(i) \/ \E a \in 1 .. MaxAddresses : Gone(i, a)
      BY <2>5 DEF Around, BeginStep, Deliver, OperatorCall, MoveListener, Calls, CrossCall, Return, Accept, Serve,
                  Respond, endpointVars
    <3> QED
      BY <3>1, <3>2, <3>3, <3>4, <2>1
  <2>6. CASE UNCHANGED vars
    BY <2>1, <2>6 DEF vars, runtimeVars, mainVars, endpointVars
  <2> QED
    BY <1>2, <2>2, <2>3, <2>4, <2>5, <2>6 DEF Next
<1> QED
  BY <1>1, <1>2

----------------------------------------------------------------------------
(* types *)

\* A capability that setupCapabilities takes next is a registered one.
LEMMA NextCapability ==
    ASSUME NEW i, ToSetUp(i) # {}
    PROVE  Caps[Min(ToSetUp(i))] \in Range(Caps)
<1>1. PICK S : S = ToSetUp(i)
  OBVIOUS
<1>2. S \in SUBSET DOMAIN Caps /\ S # {}
  BY <1>1 DEF ToSetUp
<1>3. DOMAIN Caps \in SUBSET Nat
  BY CapsAssumption
<1>4. Min(S) \in DOMAIN Caps
  BY <1>2, <1>3, MinIsMember
<1> QED
  BY <1>1, <1>4 DEF Range

\* Every variable keeps its type.
LEMMA TypeStep ==
    ASSUME IInv, [Next]_vars
    PROVE  TypeOK'
<1> USE DEF IInv
<1>1. CASE LoadApplications
  <2>1. host' = host /\ order' \in Seq(Ids(host) \X Nat)
    BY <1>1, StartOrder DEF LoadApplications, TypeOK
  <2>2. PICK I : I = Range(order')
    OBVIOUS
  <2>3. Instances' = I /\ Goroutine' = {"loop", "operator"} \X I
    BY <2>2 DEF Instances, Goroutine
  <2>4. Len(order') \in Nat /\ at' = 1
    BY <1>1, <2>1 DEF LoadApplications
  <2>5. /\ phase' = [i \in I |-> "off"] /\ caps' = [i \in I |-> {}] /\ listener' = [i \in I |-> 0]
        /\ endpoint' = [i \in I |-> 0] /\ gone' = [i \in I |-> {}] /\ queue' = [i \in I |-> FALSE]
        /\ stack' = [t \in {"loop", "operator"} \X I |-> <<>>]
    BY <1>1, <2>2 DEF LoadApplications
  <2>6. entries' = {} /\ unfinished' = {}
    BY <1>1, NothingLoaded DEF LoadApplications
  <2>7. stack' \in [Goroutine' -> Seq(Frame')]
    BY <2>3, <2>5
  <2> QED
    BY <1>1, <2>1, <2>3, <2>4, <2>5, <2>6, <2>7, MaxAddressesAssumption DEF LoadApplications, TypeOK
<1>2. CASE ~LoadApplications
  <2>0. Instances' = Instances /\ Goroutine' = Goroutine /\ Frame' = Frame /\ order' = order /\ host' = host
    BY <1>2, OrderedStep, SameInstances
  <2>1. Len(order) \in Nat /\ at \in 0 .. Len(order) + 1
    BY InstancesAre DEF TypeOK
  <2>2. CASE UNCHANGED vars
    BY <2>0, <2>2 DEF TypeOK, vars, mainVars, runtimeVars, endpointVars, frontVars
  <2>3. ASSUME NEW i \in Instances, Boot(i) PROVE TypeOK'
    <3>0. <<"loop", i>> \in Goroutine
      BY DEF Goroutine
    <3>1. CASE Plan(i)
      BY <3>1, <2>0 DEF Plan, Go, TypeOK, Loaded, mainVars, endpointVars, frontVars
    <3>2. CASE PlanFails(i)
      BY <3>2, <2>0 DEF PlanFails, RollBack, TypeOK, runtimeVars, endpointVars, frontVars
    <3>3. CASE SetupCapability(i)
      <4>1. PICK c \in Range(Caps) :
              /\ caps' = [caps EXCEPT ![i] = @ \cup {c}]
              /\ listener' = [listener EXCEPT ![i] = IF c = HTTP THEN 1 ELSE @]
              /\ endpoint' = [endpoint EXCEPT ![i] = IF c = HTTP THEN 1 ELSE @]
        BY <3>3, NextCapability DEF SetupCapability
      <4>2. caps' \in [Instances -> SUBSET Range(Caps)]
        BY <4>1 DEF TypeOK
      <4>3. listener' \in [Instances -> 0 .. MaxAddresses] /\ endpoint' \in [Instances -> 0 .. MaxAddresses]
        BY <4>1, MaxAddressesAssumption DEF TypeOK
      <4> QED
        BY <3>3, <4>2, <4>3, <2>0 DEF SetupCapability, TypeOK, mainVars, frontVars
    <3>4. CASE SetupFails(i)
      BY <3>4, <2>0 DEF SetupFails, RollBack, Go, TypeOK, endpointVars, frontVars
    <3>5. CASE BeginInit(i)
      <4>1. stack' \in [Goroutine -> Seq(Frame)]
        BY <3>0, <3>5, EnterIs, PushIs DEF BeginInit
      <4> QED
        BY <3>5, <4>1, <2>0 DEF BeginInit, Go, TypeOK, Loaded, mainVars, endpointVars, frontVars
    <3>6. CASE EndInit(i)
      <4>1. stack' \in [Goroutine -> Seq(Frame)]
        BY <3>0, <3>6 DEF EndInit, TypeOK
      <4> QED
        BY <3>6, <4>1, <2>0 DEF EndInit, Go, TypeOK, Loaded, Looping, mainVars, endpointVars, frontVars
    <3>7. CASE MarkReady(i)
      BY <3>7, <2>0 DEF MarkReady, Go, TypeOK, Loaded, Looping, mainVars, endpointVars, frontVars
    <3>8. CASE Observed(i)
      <4>1. at' \in 0 .. Len(order) + 1
        BY <3>8, <2>1 DEF Observed
      <4> QED
        BY <3>8, <4>1, <2>0 DEF Observed, Go, TypeOK, Loaded, Looping, endpointVars, frontVars
    <3>9. CASE StartFails(i)
      <4>1. stack' \in [Goroutine -> Seq(Frame)]
        BY <3>0, <3>9 DEF StartFails, TypeOK
      <4> QED
        BY <3>9, <4>1, <2>0 DEF StartFails, RollBack, Go, TypeOK, Loaded, Looping, endpointVars, frontVars
    <3> QED
      BY <2>3, <3>1, <3>2, <3>3, <3>4, <3>5, <3>6, <3>7, <3>8, <3>9 DEF Boot
  <2>4. ASSUME NEW i \in Instances, Stop(i) PROVE TypeOK'
    <3>1. CASE MarkUnavailable(i) \/ Revoke(i) \/ CancelSteps(i)
      <4>1. CASE MarkUnavailable(i)
        BY <4>1, <2>0 DEF MarkUnavailable, Go, TypeOK, Loaded, Looping, mainVars, endpointVars, frontVars
      <4>2. CASE Revoke(i)
        BY <4>2, <2>0 DEF Revoke, Go, TypeOK, Loaded, Looping, mainVars, endpointVars, frontVars
      <4>3. CASE CancelSteps(i)
        BY <4>3, <2>0 DEF CancelSteps, Go, TypeOK, Loaded, mainVars, endpointVars, frontVars
      <4> QED
        BY <3>1, <4>1, <4>2, <4>3
    <3>2. CASE CloseCells(i)
      BY <3>2, <2>0 DEF CloseCells, Go, TypeOK, mainVars, endpointVars
    <3>3. CASE Teardown(i)
      <4>1. at' \in 0 .. Len(order) + 1
        BY <3>3, <2>1 DEF Teardown, Previous, Stopping
      <4>2. {listener[i]} \ {0} \subseteq 1 .. MaxAddresses
        BY MaxAddressesAssumption DEF TypeOK
      <4>3. gone' \in [Instances -> SUBSET (1 .. MaxAddresses)]
        BY <3>3, <4>2 DEF Teardown, TypeOK
      <4>4. listener' \in [Instances -> 0 .. MaxAddresses] /\ endpoint' \in [Instances -> 0 .. MaxAddresses]
        BY <3>3, MaxAddressesAssumption DEF Teardown, TypeOK
      <4> QED
        BY <3>3, <4>1, <4>3, <4>4, <2>0 DEF Teardown, Go, TypeOK, frontVars
    <3>4. CASE ShutdownNotStarted(i)
      <4>1. at' \in 0 .. Len(order) + 1
        BY <3>4, <2>1 DEF ShutdownNotStarted, Previous, Stopping
      <4> QED
        BY <3>4, <4>1, <2>0 DEF ShutdownNotStarted, TypeOK, runtimeVars, endpointVars, frontVars
    <3> QED
      BY <2>4, <3>1, <3>2, <3>3, <3>4 DEF Stop
  <2>5. CASE Activate \/ StartPollsters \/ PollstersFail \/ StartGateway \/ GatewayFails
    BY <2>5, <2>0 DEF Activate, StartPollsters, PollstersFail, StartGateway, GatewayFails, TypeOK, runtimeVars, endpointVars,
                      frontVars
  <2>6. CASE Signal \/ DrainGateway \/ StopPollsters \/ Exit \/ RejectManifest
    BY <2>6, <2>0 DEF Signal, DrainGateway, StopPollsters, Exit, RejectManifest, TypeOK, runtimeVars,
                      endpointVars, frontVars
  <2>7. CASE Around
    <3>0. /\ pc' = pc /\ at' = at /\ failed' = failed /\ unfinished' = unfinished
          /\ UNCHANGED <<phase, caps, entries, activated>>
      BY <2>7, AroundLeaves DEF mainVars, runtimeVars
    <3>1. ASSUME stack' \in [Goroutine -> Seq(Frame)], queue' \in [Instances -> BOOLEAN],
                 UNCHANGED <<listener, endpoint, gone, polling, gateway, request>>
          PROVE  TypeOK'
      BY <3>0, <3>1, <2>0 DEF TypeOK
    <3>2. ASSUME NEW i \in Instances, BeginStep(i) PROVE TypeOK'
      <4>1. <<"loop", i>> \in Goroutine
        BY DEF Goroutine
      <4>2. stack' \in [Goroutine -> Seq(Frame)]
        BY <3>2, <4>1, EnterIs, PushIs DEF BeginStep
      <4>3. queue' \in [Instances -> BOOLEAN]
        BY <3>2 DEF BeginStep, TypeOK
      <4> QED
        BY <3>1, <3>2, <4>2, <4>3 DEF BeginStep, endpointVars
    <3>3. ASSUME NEW i \in Instances, OperatorCall(i) PROVE TypeOK'
      <4>1. <<"operator", i>> \in Goroutine
        BY DEF Goroutine
      <4>2. stack' \in [Goroutine -> Seq(Frame)]
        BY <3>3, <4>1, EnterIs, PushIs DEF OperatorCall
      <4> QED
        BY <3>1, <3>3, <4>2 DEF OperatorCall, endpointVars, frontVars, TypeOK
    <3>4. ASSUME NEW t \in Goroutine, Calls(t) \/ Return(t) PROVE TypeOK'
      <4>1. CASE Calls(t)
        <5>1. stack' \in [Goroutine -> Seq(Frame)]
          BY <4>1, CallIs, PushIs
        <5> QED
          BY <3>1, <4>1, <5>1 DEF Calls, CrossCall, endpointVars, frontVars, TypeOK
      <4>2. CASE Return(t)
        <5>1. stack' \in [Goroutine -> Seq(Frame)]
          BY <4>2, PopIs DEF Return
        <5> QED
          BY <3>1, <4>2, <5>1 DEF Return, endpointVars, frontVars, TypeOK
      <4> QED
        BY <3>4, <4>1, <4>2
    <3>5. ASSUME NEW i \in Instances, NEW a \in 1 .. MaxAddresses, MoveListener(i, a) PROVE TypeOK'
      <4>1. listener[i] \in 1 .. MaxAddresses /\ a \in 0 .. MaxAddresses
        BY <3>5, MaxAddressesAssumption DEF MoveListener, TypeOK
      <4>2. gone' \in [Instances -> SUBSET (1 .. MaxAddresses)]
        BY <3>5, <4>1 DEF MoveListener, TypeOK
      <4>3. listener' \in [Instances -> 0 .. MaxAddresses]
        BY <3>5, <4>1 DEF MoveListener, TypeOK
      <4> QED
        BY <3>0, <3>5, <4>2, <4>3, <2>0 DEF MoveListener, TypeOK, frontVars
    <3>6. ASSUME NEW i \in Instances, Ready(i) PROVE TypeOK'
      <4>1. endpoint' \in [Instances -> 0 .. MaxAddresses]
        BY <3>6 DEF Ready, TypeOK
      <4> QED
        BY <3>0, <3>6, <4>1, <2>0 DEF Ready, TypeOK, frontVars
    <3>7. ASSUME NEW i \in Instances, NEW a \in 1 .. MaxAddresses, Gone(i, a) PROVE TypeOK'
      <4>1. endpoint' \in [Instances -> 0 .. MaxAddresses]
        BY <3>7, MaxAddressesAssumption DEF Gone, TypeOK
      <4> QED
        BY <3>0, <3>7, <4>1, <2>0 DEF Gone, TypeOK, frontVars
    <3>8. ASSUME NEW i \in Instances, Deliver(i) PROVE TypeOK'
      <4>1. queue' \in [Instances -> BOOLEAN]
        BY <3>8 DEF Deliver, TypeOK
      <4> QED
        BY <3>1, <3>8, <4>1 DEF Deliver, TypeOK, endpointVars
    <3>9. CASE (\E path \in Paths : Accept(path)) \/ Serve \/ Respond
      <4>1. request'.state \in {"none", "accepted", "proxied"}
        BY <3>9 DEF Accept, Serve, Respond, NoRequest
      <4>2. UNCHANGED <<stack, listener, endpoint, gone, queue, polling, gateway>>
        BY <3>9 DEF Accept, Serve, Respond, endpointVars
      <4> QED
        BY <3>0, <4>1, <4>2, <2>0 DEF TypeOK
    <3> QED
      BY <2>7, <3>2, <3>3, <3>4, <3>5, <3>6, <3>7, <3>8, <3>9 DEF Around
  <2> QED
    BY <1>2, <2>2, <2>3, <2>4, <2>5, <2>6, <2>7 DEF Next
<1> QED
  BY <1>1, <1>2

----------------------------------------------------------------------------
(* the invariant *)

\* Nothing is loaded in the beginning.
LEMMA InvInit ==
    ASSUME Init
    PROVE  IInv
<1>1. order = <<>> /\ Instances = {} /\ Goroutine = {}
  <2>1. order = <<>>
    BY DEF Init
  <2>2. DOMAIN order = {}
    BY <2>1
  <2> QED
    BY <2>1, <2>2 DEF Instances, Goroutine, Range
<1>2. \A T : <<>> \in [{} -> T]
  OBVIOUS
<1>3. Len(order) = 0 /\ order \in Seq(Ids(host) \X Nat)
  BY <1>1
<1>4. TypeOK
  <2>1. /\ phase \in [Instances -> Loaded \cup {"off", "planned", "closed"}]
        /\ caps \in [Instances -> SUBSET Range(Caps)]
        /\ stack \in [Goroutine -> Seq(Frame)]
        /\ listener \in [Instances -> 0 .. MaxAddresses] /\ endpoint \in [Instances -> 0 .. MaxAddresses]
        /\ gone \in [Instances -> SUBSET (1 .. MaxAddresses)]
        /\ queue \in [Instances -> BOOLEAN]
    BY <1>1, <1>2 DEF Init
  <2>2. request.state = "none"
    BY DEF Init, NoRequest
  <2>3. at \in 0 .. Len(order) + 1
    BY <1>3 DEF Init
  <2>4. host \in Manifests /\ pc = "load" /\ gateway = "none" /\ entries = {} /\ unfinished = {}
    BY DEF Init
  <2>5. activated \in BOOLEAN /\ polling \in BOOLEAN /\ failed \in BOOLEAN
    BY DEF Init
  <2> QED
    BY <1>3, <2>1, <2>2, <2>3, <2>4, <2>5 DEF TypeOK
<1>5. Ordered /\ Progress
  BY <1>1, <1>3 DEF Init, Ordered, Unique, Layered, Progress, Serving
<1>6. Published /\ Entered /\ Called /\ Polls /\ Kept
  BY <1>1 DEF Init, Published, Entered, Called, Polls, Kept
<1> QED
  BY <1>4, <1>5, <1>6 DEF IInv

\* Every step keeps every part of the invariant.
LEMMA InvStep ==
    ASSUME IInv, [Next]_vars
    PROVE  IInv'
BY TypeStep, OrderedStep, ProgressStep, PublishedStep, GuestsStep, PollsStep, KeptStep DEF IInv

\* The invariant holds in every reachable state of the host.
THEOREM HostingInvariant == Spec => []IInv
<1>1. Init => IInv
  BY InvInit
<1>2. IInv /\ [Next]_vars => IInv'
  BY InvStep
<1> QED
  BY <1>1, <1>2, PTL DEF Spec

\* The types of Hosting, for every set of manifests.
THEOREM HostingTypes == Spec => []TypeOK
<1>1. IInv => TypeOK
  BY DEF IInv
<1> QED
  BY <1>1, HostingInvariant, PTL

\* Start order, roll-back and shutdown order together: while the cells of an
\* instance are loaded, everything it depends on is published, whatever fails.
THEOREM DependenciesOutlive == Spec => []DependencyOutlivesDependent
<1>1. IInv => DependencyOutlivesDependent
  <2> SUFFICES ASSUME IInv, NEW i \in Instances, NEW j \in Instances,
                      phase[i] \in Loaded, j[1] \in DependsOn(host, i[1])
               PROVE  j \in entries
    BY DEF DependencyOutlivesDependent
  <2> USE DEF IInv
  <2>1. PICK m \in 1 .. Len(order) : order[m] = i
    BY InstancesAre
  <2>2. PICK k \in 1 .. Len(order) : order[k] = j
    BY InstancesAre
  <2>3. k < m
    BY <2>1, <2>2 DEF Ordered, Layered
  <2>4. Len(order) \in Nat /\ at \in Nat
    BY InstancesAre DEF TypeOK
  <2>5. phase[order[m]] # "off"
    BY <2>1 DEF Loaded, Looping
  <2>6. pc # "exited" /\ pc # "load"
    BY <2>5, <2>4 DEF Progress
  <2>7. CASE pc \in Serving
    BY <2>7, <2>2, AllReady DEF Published
  <2>8. CASE pc \in {"boot", "stop"}
    <3>1. m <= at
      BY <2>8, <2>4, <2>5 DEF Progress
    <3>2. phase[order[k]] = "ready"
      BY <3>1, <2>8, <2>3, <2>4 DEF Progress
    <3> QED
      BY <3>2, <2>2 DEF Published
  <2> QED
    BY <2>6, <2>7, <2>8 DEF TypeOK, Serving
<1> QED
  BY <1>1, HostingInvariant, PTL

\* What the drain of inbound calls, the wait for provider calls and the join of
\* the step loops are for: no goroutine is inside a guest whose cells are closed.
THEOREM GuestsStayLoaded == Spec => []CallsStayInside
<1>1. IInv => CallsStayInside
  <2> SUFFICES ASSUME IInv, NEW t \in Goroutine, NEW k \in DOMAIN stack[t]
               PROVE  phase[stack[t][k].at] \in Loaded
    BY DEF CallsStayInside
  <2> USE DEF IInv
  <2>1. Len(stack[t]) \in Nat /\ k \in 1 .. Len(stack[t]) /\ stack[t] # <<>>
    BY FramesAre
  <2>2. CASE k = 1
    <3>1. t[1] \in {"loop", "operator"}
      BY DEF Goroutine
    <3> QED
      BY <2>1, <2>2, <3>1 DEF Entered, Loaded, Looping, Accessible
  <2>3. CASE k # 1
    <3>1. k \in 2 .. Len(stack[t])
      BY <2>1, <2>3
    <3> QED
      BY <3>1 DEF Called, Loaded, Looping
  <2> QED
    BY <2>2, <2>3
<1> QED
  BY <1>1, HostingInvariant, PTL

\* A host that has ended, after a signal or a failed boot, has left nothing
\* behind but what a failed setupCapabilities had set up.
THEOREM NothingIsLeft == Spec => []ExitLeavesNothing
<1>1. IInv => ExitLeavesNothing
  <2> SUFFICES ASSUME IInv, pc = "exited"
               PROVE  /\ ~polling
                      /\ entries = {}
                      /\ \A i \in Instances : phase[i] = "off" /\ ~queue[i]
                      /\ \A t \in Goroutine : Idle(t)
                      /\ \A i \in Instances \ unfinished : caps[i] = {} /\ endpoint[i] = 0
    BY DEF ExitLeavesNothing
  <2> USE DEF IInv
  <2>1. \A i \in Instances : phase[i] = "off"
    BY InstancesAre DEF Progress
  <2>2. ~polling /\ \A i \in Instances : ~queue[i]
    BY <2>1 DEF Polls
  <2>3. entries = {}
    BY <2>1 DEF Published, TypeOK
  <2>4. ASSUME NEW t \in Goroutine PROVE Idle(t)
    <3>1. t[1] \in {"loop", "operator"} /\ t[2] \in Instances
      BY DEF Goroutine
    <3> QED
      BY <2>1, <3>1 DEF Entered, Idle, Loaded, Looping, Accessible
  <2>5. \A i \in Instances \ unfinished : caps[i] = {} /\ endpoint[i] = 0
    BY <2>1 DEF Kept
  <2> QED
    BY <2>1, <2>2, <2>3, <2>4, <2>5
<1> QED
  BY <1>1, HostingInvariant, PTL

\* Late and repeated Gone notifications do not take the listener that is open
\* and visible away from an instance that serves, unless a listener with its
\* address was closed before.
THEOREM ListenersStay == Spec => VisibleListenerStays
<1> DEFINE Stays ==
      \A i \in Instances :
        ListenerServes(i) /\ listener[i] \notin gone[i] => endpoint'[i] = endpoint[i]
<1>1. IInv /\ Next => Stays
  <2> SUFFICES ASSUME IInv, Next, NEW i \in Instances,
                      phase[i] = "ready", phase'[i] = "ready",
                      listener[i] # 0, endpoint[i] = listener[i], listener'[i] = listener[i],
                      listener[i] \notin gone[i]
               PROVE  endpoint'[i] = endpoint[i]
    BY DEF ListenerServes
  <2> USE DEF IInv
  <2>1. CASE endpoint' = endpoint
    BY <2>1
  <2>2. CASE LoadApplications
    BY <2>2, NothingLoaded
  <2>3. ASSUME NEW j \in Instances, SetupCapability(j) PROVE endpoint'[i] = endpoint[i]
    BY <2>3 DEF SetupCapability, Booting, TypeOK
  <2>4. ASSUME NEW j \in Instances, Teardown(j) PROVE endpoint'[i] = endpoint[i]
    BY <2>4 DEF Teardown, Stopping, TypeOK
  <2>5. ASSUME NEW j \in Instances, Ready(j) PROVE endpoint'[i] = endpoint[i]
    BY <2>5 DEF Ready, TypeOK
  <2>6. ASSUME NEW j \in Instances, NEW a \in 1 .. MaxAddresses, Gone(j, a) PROVE endpoint'[i] = endpoint[i]
    <3>1. CASE j = i
      <4>1. a # listener[i]
        BY <2>6, <3>1 DEF Gone
      <4> QED
        BY <2>6, <3>1, <4>1 DEF Gone, TypeOK
    <3>2. CASE j # i
      BY <2>6, <3>2 DEF Gone, TypeOK
    <3> QED
      BY <3>1, <3>2
  <2>7. ASSUME NEW j \in Instances, Boot(j), ~SetupCapability(j) PROVE endpoint' = endpoint
    BY <2>7 DEF Boot, Plan, PlanFails, SetupFails, BeginInit, EndInit, MarkReady, Observed, StartFails,
                endpointVars
  <2>8. ASSUME NEW j \in Instances, Stop(j), ~Teardown(j) PROVE endpoint' = endpoint
    BY <2>8 DEF Stop, MarkUnavailable, Revoke, CancelSteps, CloseCells, ShutdownNotStarted, endpointVars
  <2>9. CASE Activate \/ StartPollsters \/ PollstersFail \/ StartGateway \/ GatewayFails \/ Signal \/ DrainGateway
             \/ StopPollsters \/ Exit \/ RejectManifest
    BY <2>1, <2>9 DEF Activate, StartPollsters, PollstersFail, StartGateway, GatewayFails, Signal, DrainGateway,
                      StopPollsters, Exit, RejectManifest, endpointVars
  <2>10. CASE Around
    <3>1. \/ endpoint' = endpoint
          \/ \E j \in Instances : Ready(j) \/ \E a \in 1 .. MaxAddresses : Gone(j, a)
      BY <2>10 DEF Around, BeginStep, Deliver, OperatorCall, MoveListener, Calls, CrossCall, Return, Accept,
                   Serve, Respond, endpointVars
    <3> QED
      BY <3>1, <2>1, <2>5, <2>6
  <2>11. CASE UNCHANGED vars
    BY <2>1, <2>11 DEF vars, endpointVars
  <2> QED
    BY <2>1, <2>2, <2>3, <2>4, <2>7, <2>8, <2>9, <2>10, <2>11 DEF Next
<1>2. IInv /\ [Next]_vars => [Stays]_vars
  BY <1>1
<1>3. Spec => [][Stays]_vars
  BY <1>2, HostingInvariant, PTL DEF Spec
<1> QED
  BY <1>3 DEF VisibleListenerStays

=============================================================================
