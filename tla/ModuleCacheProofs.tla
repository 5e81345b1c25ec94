-------------------------- MODULE ModuleCacheProofs --------------------------
(***************************************************************************)
(* Proofs about the compiled-module cache, for every set of workers and    *)
(* keys and every number of allocated entries.                             *)
(*                                                                         *)
(* LeasesCounted, LeasedCodeIsOpen and ClosedOnce are not inductive: they  *)
(* need to know what a worker's position says about the entry it points    *)
(* to, that the map only holds entries that are not retired, and that only *)
(* retired code without leases is ever picked for closing.                 *)
(***************************************************************************)
EXTENDS ModuleCache, FiniteSetTheorems, TLAPS

\* A worker that is not idle points to an allocated entry whose status fits
\* the worker's position, and no two workers compile the same entry.
Positions ==
    /\ \A w \in Worker :
          /\ pc[w] # "idle" => held[w] \in 1..allocated
          /\ pc[w] = "compiling" => status[held[w]] = "compiling"
          /\ pc[w] = "compiled" => status[held[w]] \in {"ready", "failed"}
          /\ pc[w] \in Leasing => status[held[w]] = "ready"
    /\ \A v, w \in Worker :
          pc[v] = "compiling" /\ pc[w] = "compiling" /\ held[v] = held[w] => v = w

\* An entry that is not allocated yet is untouched.
Fresh ==
    \A e \in Entry : e > allocated =>
        status[e] = "unborn" /\ ~evicted[e] /\ closeNow[e] = 0

\* The map holds allocated entries that are not retired, each under the key
\* it was allocated for.
MapLive ==
    \A k \in Key : entries[k] # NoEntry =>
        /\ entries[k] \in 1..allocated
        /\ keyOf[entries[k]] = k
        /\ ~evicted[entries[k]]
        /\ ~closed

\* Only retired code without leases is picked for closing, at most once.
Picked ==
    \A e \in Entry :
        /\ closeNow[e] <= 1
        /\ closeNow[e] > 0 => status[e] = "ready" /\ refs[e] = 0 /\ Retired(e)
        /\ freed[e] => closeNow[e] > 0

IInv == TypeOK /\ LeasesCounted /\ Positions /\ Fresh /\ MapLive /\ Picked

----------------------------------------------------------------------------
(* Lemmas *)

\* The holders of an entry are a finite set.
LEMMA HoldersFinite ==
    ASSUME NEW e
    PROVE  IsFiniteSet(Holders(e)) /\ Cardinality(Holders(e)) \in Nat
<1>1. Holders(e) \in SUBSET Worker
  BY DEF Holders
<1> QED
  BY <1>1, WorkerAssumption, FS_Subset, FS_CardinalityType

\* Moving one worker adds it to, or takes it from, the holders of an entry.
LEMMA HoldersAfterGoto ==
    ASSUME TypeOK, NEW w \in Worker, NEW at, NEW x, Goto(w, at, x), NEW e
    PROVE  Holders(e)' = IF at \in Leasing /\ x = e
                         THEN Holders(e) \cup {w}
                         ELSE Holders(e) \ {w}
<1>1. \A v \in Worker : v # w => pc'[v] = pc[v] /\ held'[v] = held[v]
  BY DEF Goto, TypeOK
<1>2. pc'[w] = at /\ held'[w] = x
  BY DEF Goto, TypeOK
<1> QED
  BY <1>1, <1>2 DEF Holders

\* Code whose lease count is positive has not been picked for closing.
LEMMA HolderIsCounted ==
    ASSUME LeasesCounted, NEW w \in Worker, pc[w] \in Leasing, held[w] \in Entry
    PROVE  refs[held[w]] # 0
<1>1. w \in Holders(held[w])
  BY DEF Holders
<1>2. Cardinality(Holders(held[w])) # 0
  BY <1>1, HoldersFinite, FS_EmptySet
<1> QED
  BY <1>2 DEF LeasesCounted

\* A move that neither starts nor ends a lease leaves the count right.
LEMMA CountKept ==
    ASSUME TypeOK, LeasesCounted, NEW w \in Worker, NEW at, NEW x, Goto(w, at, x),
           refs' = refs,
           \/ pc[w] \notin Leasing /\ at \notin Leasing
           \/ pc[w] \in Leasing /\ at \in Leasing /\ x = held[w]
    PROVE  LeasesCounted'
<1> SUFFICES ASSUME NEW e \in Entry
             PROVE  Holders(e)' = Holders(e)
  BY DEF LeasesCounted
<1> QED
  BY HoldersAfterGoto DEF Holders

----------------------------------------------------------------------------
(* The inductive invariant *)

LEMMA InitIInv == Init => IInv
<1> SUFFICES ASSUME Init PROVE IInv
  OBVIOUS
<1>1. \A e \in Entry : Holders(e) = {}
  BY DEF Init, Holders, Leasing
<1>2. TypeOK
  <2>1. pc \in [Worker -> PC] /\ held \in [Worker -> Entry \cup {NoEntry}]
    BY DEF Init, PC, Leasing
  <2>2. allocated \in 0..MaxEntries
    BY MaxEntriesAssumption DEF Init
  <2> QED
    BY <2>1, <2>2 DEF Init, TypeOK
<1>3. LeasesCounted
  BY <1>1, FS_EmptySet DEF LeasesCounted, Init
<1>4. Positions /\ Fresh /\ MapLive /\ Picked
  BY DEF Init, Positions, Fresh, MapLive, Picked, Leasing, NoEntry
<1> QED
  BY <1>2, <1>3, <1>4 DEF IInv

\* Every step keeps the types.
LEMMA StepType ==
    ASSUME IInv, [Next]_vars
    PROVE  TypeOK'
<1> USE MaxEntriesAssumption DEF IInv, TypeOK, Entry, NoEntry, PC, Leasing, Goto, cacheVars, codeVars, workerVars
<1>1. ASSUME NEW w \in Worker, NEW k \in Key, StartCompile(w, k) PROVE TypeOK'
  BY <1>1 DEF StartCompile
<1>2. ASSUME NEW w \in Worker, NEW k \in Key, StartWait(w, k) PROVE TypeOK'
  BY <1>2 DEF StartWait
<1>3. ASSUME NEW w \in Worker, CompileOk(w) PROVE TypeOK'
  <2>1. held[w] \in Entry
    BY <1>3 DEF CompileOk, Positions
  <2>2. closeNow' \in [Entry -> Nat] /\ entries' \in [Key -> Entry \cup {NoEntry}]
    <3>1. CASE Retired(held[w])
      <4>1. closeNow' = [closeNow EXCEPT ![held[w]] = closeNow[held[w]] + 1]
        BY <1>3, <3>1 DEF CompileOk
      <4>2. entries' = [entries EXCEPT ![keyOf[held[w]]] = NoEntry]
        BY <1>3, <3>1 DEF CompileOk
      <4>3. closeNow' \in [Entry -> Nat]
        BY <4>1, <2>1
      <4> QED
        BY <4>2, <4>3
    <3>2. CASE ~Retired(held[w])
      BY <1>3, <2>1, <3>2 DEF CompileOk
    <3> QED
      BY <3>1, <3>2
  <2> QED
    BY <1>3, <2>1, <2>2 DEF CompileOk
<1>4. ASSUME NEW w \in Worker, CompileError(w) PROVE TypeOK'
  BY <1>4 DEF CompileError, Positions
<1>5. ASSUME NEW w \in Worker, WaitReady(w) \/ WaitCancelled(w) PROVE TypeOK'
  BY <1>5 DEF WaitReady, WaitCancelled
<1>6. ASSUME NEW w \in Worker, TakeLease(w) \/ RefuseLease(w) PROVE TypeOK'
  <2>1. held[w] \in Entry
    BY <1>6 DEF TakeLease, RefuseLease, Positions
  <2>2. CASE TakeLease(w)
    BY <2>1, <2>2, SMTT(30) DEF TakeLease
  <2>3. CASE RefuseLease(w)
    BY <2>3 DEF RefuseLease
  <2> QED
    BY <1>6, <2>2, <2>3
<1>7. ASSUME NEW w \in Worker, StartInstance(w) \/ InstanceUp(w) \/ StopInstance(w)
      PROVE TypeOK'
  BY <1>7 DEF StartInstance, InstanceUp, StopInstance
<1>8. ASSUME NEW w \in Worker, pc[w] \in Leasing, Release(w) PROVE TypeOK'
  <2>1. held[w] \in Entry
    BY <1>8 DEF Positions
  <2>2. closeNow' \in [Entry -> Nat] /\ refs' \in [Entry -> Nat]
    BY <1>8, <2>1 DEF Release
  <2> QED
    BY <1>8, <2>1, <2>2 DEF Release
<1>9. ASSUME NEW k \in Key, Evict(k) PROVE TypeOK'
  BY <1>9 DEF Evict, Retire
<1>10. ASSUME Close PROVE TypeOK'
  BY <1>10 DEF Close, Retire
<1>11. ASSUME NEW e \in Entry, FreeCode(e) PROVE TypeOK'
  BY <1>11 DEF FreeCode
<1>12. ASSUME UNCHANGED vars PROVE TypeOK'
  BY <1>12 DEF vars
<1> QED
  BY <1>1, <1>2, <1>3, <1>4, <1>5, <1>6, <1>7, <1>8, <1>9, <1>10, <1>11, <1>12
     DEF Next, WorkerStep, CloseLease, InstanceError, CloseInstance

\* A lease that ends takes one off the count of its own entry.
LEMMA ReleaseCounted ==
    ASSUME IInv, NEW w \in Worker, pc[w] \in Leasing, Release(w)
    PROVE  LeasesCounted'
<1> SUFFICES ASSUME NEW e \in Entry PROVE refs'[e] = Cardinality(Holders(e)')
  BY DEF LeasesCounted
<1>1. Goto(w, "idle", NoEntry) /\ refs' = [refs EXCEPT ![held[w]] = @ - 1]
  BY DEF Release
<1>2. Holders(e)' = Holders(e) \ {w}
  BY <1>1, HoldersAfterGoto DEF IInv, Leasing
<1>3. refs[e] = Cardinality(Holders(e)) /\ refs \in [Entry -> Nat]
  BY DEF IInv, LeasesCounted, TypeOK
<1>4. CASE e = held[w]
  <2>1. w \in Holders(e)
    BY <1>4 DEF Holders
  <2>2. Cardinality(Holders(e)') = Cardinality(Holders(e)) - 1
    BY <2>1, <1>2, HoldersFinite, FS_RemoveElement
  <2> QED
    BY <2>2, <1>1, <1>3, <1>4
<1>5. CASE e # held[w]
  <2>1. Holders(e)' = Holders(e)
    BY <1>5, <1>2 DEF Holders
  <2> QED
    BY <2>1, <1>1, <1>3, <1>5
<1> QED
  BY <1>4, <1>5

\* A lease that starts adds one to the count of its own entry.
LEMMA TakeLeaseCounted ==
    ASSUME IInv, NEW w \in Worker, TakeLease(w)
    PROVE  LeasesCounted'
<1> SUFFICES ASSUME NEW e \in Entry PROVE refs'[e] = Cardinality(Holders(e)')
  BY DEF LeasesCounted
<1>1. Goto(w, "leased", held[w]) /\ refs' = [refs EXCEPT ![held[w]] = @ + 1]
  BY DEF TakeLease
<1>2. w \notin Holders(e)
  BY DEF TakeLease, Holders, Leasing
<1>3. refs[e] = Cardinality(Holders(e)) /\ refs \in [Entry -> Nat]
  BY DEF IInv, LeasesCounted, TypeOK
<1>4. CASE e = held[w]
  <2>1. Holders(e)' = Holders(e) \cup {w}
    BY <1>1, <1>4, HoldersAfterGoto DEF IInv, Leasing
  <2>2. Cardinality(Holders(e)') = Cardinality(Holders(e)) + 1
    BY <2>1, <1>2, HoldersFinite, FS_AddElement
  <2> QED
    BY <2>2, <1>1, <1>3, <1>4
<1>5. CASE e # held[w]
  <2>1. Holders(e)' = Holders(e)
    BY <1>1, <1>2, <1>5, HoldersAfterGoto DEF IInv
  <2> QED
    BY <2>1, <1>1, <1>3, <1>5
<1> QED
  BY <1>4, <1>5

\* Every step keeps the counts of references.
LEMMA StepCounted ==
    ASSUME IInv, [Next]_vars
    PROVE  LeasesCounted'
<1> USE DEF IInv
<1>1. ASSUME NEW w \in Worker, NEW k \in Key, StartCompile(w, k) PROVE LeasesCounted'
  BY <1>1, CountKept DEF StartCompile, Leasing, codeVars
<1>2. ASSUME NEW w \in Worker, NEW k \in Key, StartWait(w, k) PROVE LeasesCounted'
  BY <1>2, CountKept DEF StartWait, Leasing, codeVars
<1>3. ASSUME NEW w \in Worker, CompileOk(w) PROVE LeasesCounted'
  BY <1>3, CountKept DEF CompileOk, Leasing
<1>4. ASSUME NEW w \in Worker, CompileError(w) PROVE LeasesCounted'
  BY <1>4, CountKept DEF CompileError, Leasing, codeVars
<1>5. ASSUME NEW w \in Worker, WaitReady(w) PROVE LeasesCounted'
  BY <1>5, CountKept DEF WaitReady, Leasing, codeVars
<1>6. ASSUME NEW w \in Worker, WaitCancelled(w) PROVE LeasesCounted'
  BY <1>6, CountKept DEF WaitCancelled, Leasing, codeVars
<1>7. ASSUME NEW w \in Worker, RefuseLease(w) PROVE LeasesCounted'
  BY <1>7, CountKept DEF RefuseLease, Leasing, codeVars
<1>8. ASSUME NEW w \in Worker, StartInstance(w) PROVE LeasesCounted'
  BY <1>8, CountKept DEF StartInstance, Leasing, codeVars
<1>9. ASSUME NEW w \in Worker, InstanceUp(w) PROVE LeasesCounted'
  BY <1>9, CountKept DEF InstanceUp, Leasing, codeVars
<1>10. ASSUME NEW w \in Worker, StopInstance(w) PROVE LeasesCounted'
  BY <1>10, CountKept DEF StopInstance, Leasing, codeVars
<1>11. ASSUME NEW w \in Worker, CloseLease(w) \/ InstanceError(w) \/ CloseInstance(w)
       PROVE LeasesCounted'
  BY <1>11, ReleaseCounted DEF CloseLease, InstanceError, CloseInstance, Leasing
<1>12. ASSUME UNCHANGED <<refs, pc, held>> PROVE LeasesCounted'
  BY <1>12 DEF LeasesCounted, Holders
<1>13. (\E k \in Key : Evict(k)) \/ Close \/ (\E e \in Entry : FreeCode(e)) \/ UNCHANGED vars
         => UNCHANGED <<refs, pc, held>>
  BY DEF Evict, Close, Retire, FreeCode, vars, workerVars
<1> QED
  BY <1>1, <1>2, <1>3, <1>4, <1>5, <1>6, <1>7, <1>8, <1>9, <1>10, <1>11, <1>12,
     <1>13, TakeLeaseCounted DEF Next, WorkerStep

----------------------------------------------------------------------------

\* Every step keeps what positions say of entries.
LEMMA StepPositions ==
    ASSUME IInv, [Next]_vars
    PROVE  Positions'
<1> USE MaxEntriesAssumption DEF IInv, TypeOK, Positions, Entry, NoEntry, PC, Leasing, Goto,
                                 cacheVars, codeVars, workerVars
<1>1. ASSUME NEW w \in Worker, NEW k \in Key, StartCompile(w, k) PROVE Positions'
  BY <1>1, SMTT(30) DEF StartCompile
<1>2. ASSUME NEW w \in Worker, NEW k \in Key, StartWait(w, k) PROVE Positions'
  BY <1>2 DEF StartWait, MapLive
<1>3. ASSUME NEW w \in Worker, CompileOk(w) PROVE Positions'
  BY <1>3, SMTT(30) DEF CompileOk
<1>4. ASSUME NEW w \in Worker, CompileError(w) PROVE Positions'
  BY <1>4 DEF CompileError
<1>5. ASSUME NEW w \in Worker, WaitReady(w) PROVE Positions'
  BY <1>5 DEF WaitReady
<1>6. ASSUME NEW w \in Worker, WaitCancelled(w) PROVE Positions'
  BY <1>6 DEF WaitCancelled
<1>7. ASSUME NEW w \in Worker, TakeLease(w) PROVE Positions'
  BY <1>7 DEF TakeLease, Leasable
<1>8. ASSUME NEW w \in Worker, RefuseLease(w) PROVE Positions'
  BY <1>8 DEF RefuseLease
<1>9. ASSUME NEW w \in Worker, StartInstance(w) \/ InstanceUp(w) \/ StopInstance(w)
      PROVE Positions'
  <2>1. CASE StartInstance(w)
    BY <2>1 DEF StartInstance
  <2>2. CASE InstanceUp(w)
    BY <2>2 DEF InstanceUp
  <2>3. CASE StopInstance(w)
    BY <2>3 DEF StopInstance
  <2> QED
    BY <1>9, <2>1, <2>2, <2>3
<1>10. ASSUME NEW w \in Worker, Release(w) PROVE Positions'
  BY <1>10 DEF Release
<1>11. ASSUME UNCHANGED <<pc, held, status, allocated>> PROVE Positions'
  BY <1>11
<1>12. (\E k \in Key : Evict(k)) \/ Close \/ (\E e \in Entry : FreeCode(e)) \/ UNCHANGED vars
         => UNCHANGED <<pc, held, status, allocated>>
  BY DEF Evict, Close, Retire, FreeCode, vars
<1> QED
  BY <1>1, <1>2, <1>3, <1>4, <1>5, <1>6, <1>7, <1>8, <1>9, <1>10, <1>11, <1>12
     DEF Next, WorkerStep, CloseLease, InstanceError, CloseInstance

\* Every step keeps unallocated entries untouched.
LEMMA StepFresh ==
    ASSUME IInv, [Next]_vars
    PROVE  Fresh'
<1> USE MaxEntriesAssumption DEF IInv, TypeOK, Fresh, Entry, NoEntry
<1>1. ASSUME NEW w \in Worker, NEW k \in Key, StartCompile(w, k) PROVE Fresh'
  BY <1>1 DEF StartCompile, codeVars
<1>2. ASSUME NEW w \in Worker, CompileOk(w) PROVE Fresh'
  <2>1. held[w] \in 1..allocated
    BY <1>2 DEF CompileOk, Positions
  <2> QED
    BY <1>2, <2>1 DEF CompileOk
<1>3. ASSUME NEW w \in Worker, pc[w] \in Leasing, Release(w) PROVE Fresh'
  <2>1. held[w] \in 1..allocated
    BY <1>3 DEF Positions, Leasing
  <2> QED
    BY <1>3, <2>1 DEF Release, cacheVars
<1>4. ASSUME NEW ks \in SUBSET Key, Retire(ks) PROVE Fresh'
  <2>1. \A k \in ks : entries[k] # NoEntry => entries[k] \in 1..allocated
    BY DEF MapLive
  <2> QED
    BY <1>4, <2>1 DEF Retire, Idle
<1>5. ASSUME UNCHANGED <<allocated, status, evicted, closeNow>> PROVE Fresh'
  BY <1>5
<1>6. ASSUME NEW w \in Worker, CompileError(w) PROVE Fresh'
  <2>1. held[w] \in 1..allocated
    BY <1>6 DEF CompileError, Positions
  <2> QED
    BY <1>6, <2>1 DEF CompileError, codeVars
<1> QED
  BY <1>1, <1>2, <1>3, <1>4, <1>5, <1>6
     DEF Next, WorkerStep, StartWait, WaitReady, WaitCancelled, TakeLease,
         RefuseLease, StartInstance, InstanceUp, StopInstance, CloseLease, InstanceError,
         CloseInstance, Evict, Close, FreeCode, Leasing, vars, cacheVars, codeVars

\* Every step keeps what the map lists.
LEMMA StepMapLive ==
    ASSUME IInv, [Next]_vars
    PROVE  MapLive'
<1> USE MaxEntriesAssumption DEF IInv, TypeOK, MapLive, Entry, NoEntry
<1>1. ASSUME NEW w \in Worker, NEW k \in Key, StartCompile(w, k) PROVE MapLive'
  BY <1>1 DEF StartCompile, Fresh
<1>2. ASSUME NEW w \in Worker, CompileOk(w) PROVE MapLive'
  <2>1. \A k \in Key : entries'[k] = NoEntry \/ entries'[k] = entries[k]
    BY <1>2 DEF CompileOk
  <2> QED
    BY <1>2, <2>1 DEF CompileOk
<1>3. ASSUME NEW w \in Worker, CompileError(w) PROVE MapLive'
  BY <1>3 DEF CompileError
<1>4. ASSUME NEW k \in Key, Evict(k) PROVE MapLive'
  <2>1. \A q \in Key : entries'[q] # NoEntry => q # k /\ entries'[q] = entries[q]
    BY <1>4 DEF Evict, Retire
  <2>2. \A q \in Key : entries'[q] # NoEntry => entries[q] # entries[k]
    BY <1>4, <2>1 DEF Evict
  <2>3. \A q \in Key : entries'[q] # NoEntry => ~evicted'[entries[q]]
    BY <1>4, <2>1, <2>2 DEF Evict, Retire
  <2> QED
    BY <1>4, <2>1, <2>3 DEF Evict, Retire
<1>5. ASSUME Close PROVE MapLive'
  BY <1>5 DEF Close, Retire
<1>6. ASSUME UNCHANGED <<allocated, keyOf, evicted, entries, closed>> PROVE MapLive'
  BY <1>6
<1> QED
  BY <1>1, <1>2, <1>3, <1>4, <1>5, <1>6
     DEF Next, WorkerStep, StartWait, WaitReady, WaitCancelled, TakeLease,
         RefuseLease, StartInstance, InstanceUp, StopInstance, CloseLease, InstanceError,
         CloseInstance, Release, FreeCode, vars, cacheVars

\* Every step keeps when an entry may be closed.
LEMMA StepPicked ==
    ASSUME IInv, [Next]_vars
    PROVE  Picked'
<1> USE DEF IInv, Picked, Retired
<1>1. ASSUME NEW w \in Worker, NEW k \in Key, StartCompile(w, k) PROVE Picked'
  BY <1>1 DEF StartCompile, codeVars, Fresh, TypeOK, Entry
<1>2. ASSUME NEW w \in Worker, CompileOk(w) PROVE Picked'
  <2>1. held[w] \in Entry /\ status[held[w]] = "compiling"
    BY <1>2, MaxEntriesAssumption DEF CompileOk, Positions, TypeOK, Entry
  <2>2. refs[held[w]] = 0
    <3>1. \A v \in Worker : held[v] = held[w] => pc[v] \notin Leasing
      BY <2>1 DEF Positions
    <3>2. Holders(held[w]) = {}
      BY <3>1 DEF Holders
    <3> QED
      BY <2>1, <3>2, FS_EmptySet DEF LeasesCounted
  <2> QED
    BY <1>2, <2>1, <2>2 DEF CompileOk, TypeOK
<1>3. ASSUME NEW w \in Worker, CompileError(w) PROVE Picked'
  <2>1. held[w] \in Entry /\ status[held[w]] = "compiling"
    BY <1>3, MaxEntriesAssumption DEF CompileError, Positions, TypeOK, Entry
  <2> QED
    BY <1>3, <2>1 DEF CompileError, TypeOK, codeVars
<1>4. ASSUME NEW w \in Worker, TakeLease(w) PROVE Picked'
  BY <1>4 DEF TakeLease, Leasable, TypeOK, cacheVars
<1>5. ASSUME NEW w \in Worker, pc[w] \in Leasing, Release(w) PROVE Picked'
  <2>1. held[w] \in Entry /\ status[held[w]] = "ready"
    BY <1>5, MaxEntriesAssumption DEF Positions, TypeOK, Entry, Leasing
  <2>2. closeNow[held[w]] = 0
    BY <1>5, <2>1 DEF Release, TypeOK
  <2> QED
    BY <1>5, <2>1, <2>2 DEF Release, LastOut, TypeOK, cacheVars
<1>6. ASSUME NEW ks \in SUBSET Key, Retire(ks), closed' \in BOOLEAN, closed => closed'
      PROVE Picked'
  <2>1. \A e \in Idle(ks) : ~Retired(e) /\ closeNow[e] = 0
    BY DEF Idle, MapLive, Entry, NoEntry, TypeOK
  <2>2. \A e \in Idle(ks) : evicted'[e]
    BY <1>6 DEF Retire, Idle
  <2> QED
    BY <1>6, <2>1, <2>2 DEF Retire, Idle, TypeOK
<1>7. ASSUME NEW e \in Entry, FreeCode(e) PROVE Picked'
  BY <1>7 DEF FreeCode, TypeOK, cacheVars
<1>8. ASSUME UNCHANGED <<closed, evicted, status, refs, closeNow, freed>> PROVE Picked'
  BY <1>8
<1> QED
  BY <1>1, <1>2, <1>3, <1>4, <1>5, <1>6, <1>7, <1>8
     DEF Next, WorkerStep, StartWait, WaitReady, WaitCancelled,
         RefuseLease, StartInstance, InstanceUp, StopInstance, CloseLease, InstanceError,
         CloseInstance, Evict, Close, Leasing, vars, cacheVars, codeVars, TypeOK

\* The invariant is inductive.
LEMMA Inductive == IInv /\ [Next]_vars => IInv'
  BY StepType, StepCounted, StepPositions, StepFresh, StepMapLive, StepPicked DEF IInv

----------------------------------------------------------------------------
(* The theorems *)

\* The inductive invariant holds in every reachable state.
THEOREM Invariance == Spec => []IInv
<1> QED
  BY InitIInv, Inductive, PTL DEF Spec

\* Every variable of the cache keeps its type; in particular the reference
\* counts that release decrements stay natural numbers.
THEOREM TypeCorrect == Spec => []TypeOK
<1>1. IInv => TypeOK
  BY DEF IInv
<1> QED
  BY <1>1, Invariance, PTL

\* entry.refs counts the unreleased leases exactly.
THEOREM RefsCountLeases == Spec => []LeasesCounted
<1>1. IInv => LeasesCounted
  BY DEF IInv
<1> QED
  BY <1>1, Invariance, PTL

\* Evict, Close and release never close code that a lease still uses.
THEOREM NoUseAfterClose == Spec => []LeasedCodeIsOpen
<1>1. IInv => LeasedCodeIsOpen
  <2> SUFFICES ASSUME IInv, NEW w \in Worker, pc[w] \in Leasing
               PROVE  closeNow[held[w]] = 0
    BY DEF LeasedCodeIsOpen
  <2>1. held[w] \in Entry
    BY MaxEntriesAssumption DEF IInv, Positions, TypeOK, Entry, Leasing
  <2>2. refs[held[w]] # 0
    BY <2>1, HolderIsCounted DEF IInv
  <2> QED
    BY <2>1, <2>2 DEF IInv, Picked, TypeOK
<1> QED
  BY <1>1, Invariance, PTL

\* Compiled code is picked for closing at most once.
THEOREM NoDoubleClose == Spec => []ClosedOnce
<1>1. IInv => ClosedOnce
  BY DEF IInv, Picked, ClosedOnce
<1> QED
  BY <1>1, Invariance, PTL

----------------------------------------------------------------------------
(* Refinement *)

\* The phase of an entry in terms of the entry's own fields.
LEMMA PhaseCases ==
    ASSUME NEW e \in Entry, TypeOK
    PROVE  /\ freed[e] => PhaseOf(e) = "freed"
           /\ ~freed[e] /\ status[e] # "ready" => PhaseOf(e) = "absent"
           /\ ~freed[e] /\ status[e] = "ready" /\ Retired(e) => PhaseOf(e) = "retired"
           /\ ~freed[e] /\ status[e] = "ready" /\ ~Retired(e) => PhaseOf(e) = "live"
  BY DEF PhaseOf

\* The cache starts where CodeLifetime does.
LEMMA RefineInit == Init => Promise!Init
<1> SUFFICES ASSUME Init PROVE Promise!Init
  OBVIOUS
<1>1. TypeOK
  BY InitIInv DEF IInv
<1>2. \A e \in Entry : PhaseOf(e) = "absent"
  BY <1>1, PhaseCases DEF Init
<1>3. \A e \in Entry : Holders(e) = {}
  BY DEF Init, Holders, Leasing
<1> QED
  BY <1>2, <1>3 DEF Promise!Init, Phase, Users

\* A step that moves no lease and changes no phase is a stutter.
LEMMA RefineStutter ==
    ASSUME \A e \in Entry : PhaseOf(e)' = PhaseOf(e),
           \A e \in Entry : Holders(e)' = Holders(e)
    PROVE  UNCHANGED <<Phase, Users>>
  BY DEF Phase, Users

\* A worker that moves without starting or ending a lease leaves Users alone.
LEMMA HoldersKept ==
    ASSUME TypeOK, NEW w \in Worker, NEW at, NEW x, Goto(w, at, x),
           \/ pc[w] \notin Leasing /\ at \notin Leasing
           \/ pc[w] \in Leasing /\ at \in Leasing /\ x = held[w]
    PROVE  \A e \in Entry : Holders(e)' = Holders(e)
  BY HoldersAfterGoto DEF Holders

\* A step that changes neither what a phase depends on nor a lease.
LEMMA PhaseKept ==
    ASSUME UNCHANGED <<closed, status, evicted, freed>>
    PROVE  \A e \in Entry : PhaseOf(e)' = PhaseOf(e)
  BY DEF PhaseOf, Retired

\* Allocating an entry and failing to compile it are invisible: such an entry
\* never becomes code.
LEMMA RefineNoCode ==
    ASSUME IInv, IInv', NEW w \in Worker,
           (\E k \in Key : StartCompile(w, k)) \/ CompileError(w)
    PROVE  UNCHANGED <<Phase, Users>>
<1> USE DEF IInv
<1>1. \A e \in Entry : (status[e] = "ready" <=> status'[e] = "ready")
  <2>1. CASE \E k \in Key : StartCompile(w, k)
    BY <2>1, MaxEntriesAssumption DEF StartCompile, TypeOK, Fresh, Entry
  <2>2. CASE CompileError(w)
    BY <2>2 DEF CompileError, TypeOK, Positions
  <2> QED
    BY <2>1, <2>2
<1>2. UNCHANGED <<closed, evicted, freed>>
  BY DEF StartCompile, CompileError, codeVars
<1>3. \A e \in Entry : PhaseOf(e)' = PhaseOf(e)
  BY <1>1, <1>2 DEF PhaseOf, Retired
<1>4. \A e \in Entry : Holders(e)' = Holders(e)
  BY HoldersKept DEF StartCompile, CompileError, Leasing
<1> QED
  BY <1>3, <1>4, RefineStutter

\* The moves of a worker that neither start nor end a lease are invisible.
LEMMA RefineMove ==
    ASSUME IInv, NEW w \in Worker,
           \/ \E k \in Key : StartWait(w, k)
           \/ WaitReady(w) \/ WaitCancelled(w) \/ RefuseLease(w)
           \/ StartInstance(w) \/ InstanceUp(w) \/ StopInstance(w)
    PROVE  UNCHANGED <<Phase, Users>>
<1> USE DEF IInv
<1>1. UNCHANGED <<closed, status, evicted, freed>>
  BY DEF StartWait, WaitReady, WaitCancelled, RefuseLease, StartInstance, InstanceUp,
         StopInstance, cacheVars, codeVars
<1>2. \A e \in Entry : Holders(e)' = Holders(e)
  <2>1. CASE StartInstance(w) \/ InstanceUp(w) \/ StopInstance(w)
    BY <2>1, HoldersKept DEF StartInstance, InstanceUp, StopInstance, Leasing
  <2>2. CASE ~(StartInstance(w) \/ InstanceUp(w) \/ StopInstance(w))
    BY <2>2, HoldersKept DEF StartWait, WaitReady, WaitCancelled, RefuseLease, Leasing
  <2> QED
    BY <2>1, <2>2
<1> QED
  BY <1>1, <1>2, PhaseKept, RefineStutter

\* A finished compilation is code that appears, live or already retired.
LEMMA RefineCompileOk ==
    ASSUME IInv, IInv', NEW w \in Worker, CompileOk(w)
    PROVE  Promise!Appear(held[w])
<1> USE DEF IInv
<1>0. held[w] \in Entry
  BY MaxEntriesAssumption DEF CompileOk, Positions, TypeOK, Entry
<1> SUFFICES ASSUME NEW c \in Entry, c = held[w]
             PROVE  Promise!Appear(c)
  BY <1>0
<1>1. status[c] = "compiling"
  BY DEF CompileOk, Positions
<1>2. ~freed[c] /\ ~freed'[c]
  BY <1>1 DEF Picked, TypeOK, CompileOk
<1>3. PhaseOf(c) = "absent"
  BY <1>1, <1>2, PhaseCases
<1>4. PhaseOf(c)' \in {"live", "retired"}
  <2>1. status'[c] = "ready"
    BY <1>1 DEF CompileOk, TypeOK
  <2>2. ~freed'[c]
    BY <1>2
  <2> QED
    BY <2>1, <2>2 DEF PhaseOf
<1>5. \A e \in Entry : e # c => PhaseOf(e)' = PhaseOf(e)
  BY <1>1 DEF CompileOk, PhaseOf, Retired, TypeOK
<1>6. Phase' = [Phase EXCEPT ![c] = PhaseOf(c)']
  BY <1>1, <1>5 DEF Phase
<1>7. Users' = Users
  <2>1. \A e \in Entry : Holders(e)' = Holders(e)
    BY HoldersKept DEF CompileOk, Leasing
  <2> QED
    BY <2>1 DEF Users
<1> QED
  BY <1>1, <1>3, <1>4, <1>6, <1>7 DEF Promise!Appear, Phase

\* A lease is handed out on live code only.
LEMMA RefineTakeLease ==
    ASSUME IInv, NEW w \in Worker, TakeLease(w)
    PROVE  Promise!Lease(held[w], w)
<1> USE DEF IInv
<1> DEFINE c == held[w]
<1>1. c \in Entry /\ status[c] = "ready"
  BY MaxEntriesAssumption DEF TakeLease, Positions, TypeOK, Entry, Leasable
<1>2. PhaseOf(c) = "live"
  <2>1. ~Retired(c)
    BY DEF TakeLease, Leasable, Retired
  <2>2. ~freed[c]
    BY <1>1, <2>1 DEF Picked, TypeOK
  <2> QED
    BY <1>1, <2>1, <2>2, PhaseCases
<1>3. w \notin Holders(c)
  BY DEF TakeLease, Holders, Leasing
<1>4. \A e \in Entry : Holders(e)' = IF e = c THEN Holders(e) \cup {w} ELSE Holders(e)
  BY HoldersAfterGoto DEF TakeLease, Leasing, Holders
<1>5. \A e \in Entry : PhaseOf(e)' = PhaseOf(e)
  BY PhaseKept DEF TakeLease, cacheVars
<1> QED
  BY <1>1, <1>2, <1>3, <1>4, <1>5 DEF Promise!Lease, Phase, Users

\* Giving a lease back is a user that leaves.
LEMMA RefineRelease ==
    ASSUME IInv, NEW w \in Worker, pc[w] \in Leasing, Release(w)
    PROVE  Promise!Leave(held[w], w)
<1> USE DEF IInv
<1> DEFINE c == held[w]
<1>1. c \in Entry
  BY MaxEntriesAssumption DEF Positions, TypeOK, Entry, Leasing
<1>2. w \in Holders(c)
  BY DEF Holders
<1>3. \A e \in Entry : Holders(e)' = IF e = c THEN Holders(e) \ {w} ELSE Holders(e)
  BY HoldersAfterGoto DEF Release, Leasing, Holders
<1>4. \A e \in Entry : PhaseOf(e)' = PhaseOf(e)
  BY PhaseKept DEF Release, cacheVars
<1> QED
  BY <1>1, <1>2, <1>3, <1>4 DEF Promise!Leave, Phase, Users

\* Evict and Close retire live code and do nothing else that shows.
LEMMA RefineRetire ==
    ASSUME IInv, NEW ks \in SUBSET Key, Retire(ks), closed' \in BOOLEAN, closed => closed'
    PROVE  \E cs \in SUBSET Entry : Promise!Retire(cs)
<1> USE DEF IInv
<1> DEFINE cs == {e \in Entry : PhaseOf(e) = "live" /\ Retired(e)'}
<1>1. \A e \in Entry : PhaseOf(e)' = IF e \in cs THEN "retired" ELSE PhaseOf(e)
  <2> SUFFICES ASSUME NEW e \in Entry
               PROVE  PhaseOf(e)' = IF e \in cs THEN "retired" ELSE PhaseOf(e)
    OBVIOUS
  <2>1. status'[e] = status[e] /\ freed'[e] = freed[e]
    BY DEF Retire
  <2>2. Retired(e) => Retired(e)'
    BY DEF Retire, Retired, TypeOK
  <2> QED
    BY <2>1, <2>2, PhaseCases DEF PhaseOf, TypeOK
<1>2. \A e \in Entry : Holders(e)' = Holders(e)
  BY DEF Retire, Holders, workerVars
<1>3. Promise!Retire(cs)
  BY <1>1, <1>2 DEF Promise!Retire, Phase, Users
<1> QED
  BY <1>3

\* Code is freed when it is retired and nobody leases it.
LEMMA RefineFree ==
    ASSUME IInv, NEW e \in Entry, FreeCode(e)
    PROVE  Promise!Free(e)
<1> USE DEF IInv
<1>1. status[e] = "ready" /\ refs[e] = 0 /\ Retired(e) /\ ~freed[e]
  BY DEF FreeCode, Picked
<1>2. PhaseOf(e) = "retired"
  BY <1>1, PhaseCases
<1>3. Holders(e) = {}
  BY <1>1, HoldersFinite, FS_EmptySet DEF LeasesCounted
<1>4. \A x \in Entry : PhaseOf(x)' = IF x = e THEN "freed" ELSE PhaseOf(x)
  BY DEF FreeCode, cacheVars, TypeOK, PhaseOf, Retired
<1>5. \A x \in Entry : Holders(x)' = Holders(x)
  BY DEF FreeCode, Holders, workerVars
<1> QED
  BY <1>2, <1>3, <1>4, <1>5 DEF Promise!Free, Phase, Users

\* Every step of the cache is a step of CodeLifetime or invisible to it.
LEMMA RefineStep ==
    ASSUME IInv, IInv', [Next]_vars
    PROVE  [Promise!Next]_<<Phase, Users>>
<1>1. ASSUME NEW w \in Worker, WorkerStep(w)
      PROVE  [Promise!Next]_<<Phase, Users>>
  <2>1. CASE (\E k \in Key : StartCompile(w, k)) \/ CompileError(w)
    BY <2>1, RefineNoCode
  <2>2. CASE \/ \E k \in Key : StartWait(w, k)
             \/ WaitReady(w) \/ WaitCancelled(w) \/ RefuseLease(w)
             \/ StartInstance(w) \/ InstanceUp(w) \/ StopInstance(w)
    BY <2>2, RefineMove
  <2>3. CASE pc[w] # "idle" /\ CompileOk(w)
    <3>1. held[w] \in Entry
      BY <2>3, MaxEntriesAssumption DEF IInv, TypeOK, Positions, Entry
    <3> QED
      BY <2>3, <3>1, RefineCompileOk DEF Promise!Next
  <2>4. CASE pc[w] # "idle" /\ TakeLease(w)
    <3>1. held[w] \in Entry
      BY <2>4, MaxEntriesAssumption DEF IInv, TypeOK, Positions, Entry
    <3> QED
      BY <2>4, <3>1, RefineTakeLease DEF Promise!Next
  <2>5. CASE pc[w] \in Leasing /\ Release(w)
    <3>1. held[w] \in Entry
      BY <2>5, MaxEntriesAssumption DEF IInv, TypeOK, Positions, Entry, Leasing
    <3> QED
      BY <2>5, <3>1, RefineRelease DEF Promise!Next
  <2> QED
    BY <1>1, <2>1, <2>2, <2>3, <2>4, <2>5
       DEF WorkerStep, CompileOk, TakeLease, CloseLease, InstanceError, CloseInstance, Leasing
<1>2. ASSUME NEW k \in Key, Evict(k) PROVE Promise!Next
  <2>1. closed' \in BOOLEAN /\ (closed => closed') /\ Retire({k})
    BY <1>2 DEF Evict, IInv, TypeOK
  <2> QED
    BY <2>1, RefineRetire DEF Promise!Next
<1>3. ASSUME Close PROVE Promise!Next
  <2>1. closed' \in BOOLEAN /\ (closed => closed') /\ Retire(Key)
    BY <1>3 DEF Close
  <2> QED
    BY <2>1, RefineRetire DEF Promise!Next
<1>4. ASSUME NEW e \in Entry, FreeCode(e) PROVE Promise!Next
  BY <1>4, RefineFree DEF Promise!Next
<1>5. ASSUME UNCHANGED vars PROVE UNCHANGED <<Phase, Users>>
  <2>1. \A e \in Entry : PhaseOf(e)' = PhaseOf(e)
    BY <1>5, PhaseKept DEF vars
  <2>2. \A e \in Entry : Holders(e)' = Holders(e)
    BY <1>5 DEF vars, Holders
  <2> QED
    BY <2>1, <2>2, RefineStutter
<1> QED
  BY <1>1, <1>2, <1>3, <1>4, <1>5 DEF Next

\* The cache implements CodeLifetime: whatever the interleaving of acquire,
\* release, Evict and Close, leases are handed out on live code only and code
\* is freed once, when it is retired and its last lease has been released.
THEOREM Refinement == Spec => KeepsPromise
<1> QED
  BY RefineInit, RefineStep, Invariance, PTL DEF Spec, KeepsPromise, Promise!Spec

============================================================================
