---------------------------- MODULE ModuleCache ----------------------------
(***************************************************************************)
(* The cache of compiled WASM modules (internal/host/modulecache.go).      *)
(*                                                                         *)
(* A key stands for the triple (scope id, digest, fingerprint) under which *)
(* compiled code is shared.  A moduleCacheEntry is a heap object: the map  *)
(* holds a pointer to it, and so does every goroutine that looked it up,   *)
(* also after the map has forgotten it.  Entries are therefore numbered in *)
(* the order they are allocated.  A worker is a goroutine that loads one   *)
(* cell after another: it acquires a lease on compiled code, instantiates  *)
(* it, runs the instance and closes it.                                    *)
(*                                                                         *)
(* Every critical section under ModuleCache.mu is one action.  What the    *)
(* code does outside the lock (compile, wait for `ready`, instantiate,     *)
(* close compiled code) lies between two actions.                          *)
(***************************************************************************)
EXTENDS Naturals, FiniteSets

CONSTANTS
    Worker,      \* goroutines that load cells
    Key,         \* moduleCacheKey values
    NoKey,       \* the key of an entry that is not allocated yet
    MaxEntries   \* bound: entries allocated during a behaviour

ASSUME WorkerAssumption == IsFiniteSet(Worker)
ASSUME KeyAssumption == NoKey \notin Key
ASSUME MaxEntriesAssumption == MaxEntries \in Nat

Entry == 1..MaxEntries
NoEntry == 0

VARIABLES
    closed,      \* ModuleCache.closed
    entries,     \* ModuleCache.entries: the entry of a key, or NoEntry
    allocated,   \* how many entries have been allocated
    keyOf,       \* the key an entry was allocated for
    status,      \* "unborn", "compiling", "ready" (compiled # nil) or "failed"
    evicted,     \* moduleCacheEntry.evicted
    refs,        \* moduleCacheEntry.refs
    closeNow,    \* how often an entry's compiled code was picked to be closed
    freed,       \* whether Close has been called on the compiled code
    pc,          \* where a worker is
    held         \* the entry a worker points to, or NoEntry

cacheVars == <<closed, entries, allocated, keyOf, status, evicted>>
codeVars == <<refs, closeNow, freed>>
workerVars == <<pc, held>>
vars == <<closed, entries, allocated, keyOf, status, evicted,
          refs, closeNow, freed, pc, held>>

\* Where a worker can be.  In the last four it owns a CachedModule lease.
\*   compiling   CompileModule is running, the worker allocated the entry
\*   waiting     blocked on entry.ready
\*   compiled    past the first half of acquire, about to take the lock again
\*   leased      owns a CachedModule, not yet instantiated
\*   starting    in InstantiateModule on entry.compiled
\*   running     owns a CachedModuleInstance
\*   stopped     the instance is closed, its lease is not yet released
Leasing == {"leased", "starting", "running", "stopped"}
PC == {"idle", "compiling", "waiting", "compiled"} \cup Leasing

\* The workers whose lease on e has not been released.
Holders(e) == {w \in Worker : pc[w] \in Leasing /\ held[w] = e}

Init ==
    /\ closed = FALSE
    /\ entries = [k \in Key |-> NoEntry]
    /\ allocated = 0
    /\ keyOf = [e \in Entry |-> NoKey]
    /\ status = [e \in Entry |-> "unborn"]
    /\ evicted = [e \in Entry |-> FALSE]
    /\ refs = [e \in Entry |-> 0]
    /\ closeNow = [e \in Entry |-> 0]
    /\ freed = [e \in Entry |-> FALSE]
    /\ pc = [w \in Worker |-> "idle"]
    /\ held = [w \in Worker |-> NoEntry]

Goto(w, at, e) ==
    /\ pc' = [pc EXCEPT ![w] = at]
    /\ held' = [held EXCEPT ![w] = e]

----------------------------------------------------------------------------
(* acquire *)

\* acquire on a missing key: install a fresh entry and start compiling it.
StartCompile(w, k) ==
    /\ pc[w] = "idle"
    /\ ~closed
    /\ entries[k] = NoEntry
    /\ allocated < MaxEntries
    /\ LET e == allocated + 1
       IN  /\ allocated' = e
           /\ keyOf' = [keyOf EXCEPT ![e] = k]
           /\ entries' = [entries EXCEPT ![k] = e]
           /\ status' = [status EXCEPT ![e] = "compiling"]
           /\ Goto(w, "compiling", e)
    /\ UNCHANGED <<closed, evicted, codeVars>>

\* acquire on a present key: keep the entry and wait for its ready channel.
StartWait(w, k) ==
    /\ pc[w] = "idle"
    /\ ~closed
    /\ entries[k] # NoEntry
    /\ Goto(w, "waiting", entries[k])
    /\ UNCHANGED <<cacheVars, codeVars>>

\* What closes compiled code instead of keeping it for the next lease.
RetiredByClose(e) == closed     \* faulty variant: eviction is forgotten
Retired(e) == closed \/ evicted[e]

\* CompileModule returned code: publish it, wake the waiters and, when the
\* entry was retired meanwhile, drop whatever the map holds for the key and
\* close the code.
CompileOk(w) ==
    LET e == held[w]
    IN  /\ pc[w] = "compiling"
        /\ status' = [status EXCEPT ![e] = "ready"]
        /\ entries' = IF Retired(e)
                      THEN [entries EXCEPT ![keyOf[e]] = NoEntry]
                      ELSE entries
        /\ closeNow' = IF Retired(e)
                       THEN [closeNow EXCEPT ![e] = @ + 1]
                       ELSE closeNow
        /\ Goto(w, "compiled", e)
        /\ UNCHANGED <<closed, allocated, keyOf, evicted, refs, freed>>

\* Faulty variant: an error returns without closing entry.ready.
CompileErrorSilent(w) ==
    LET e == held[w]
    IN  /\ pc[w] = "compiling"
        /\ entries' = [entries EXCEPT ![keyOf[e]] = NoEntry]
        /\ Goto(w, "idle", NoEntry)
        /\ UNCHANGED <<closed, allocated, keyOf, status, evicted, codeVars>>

\* CompileModule failed: record the error, wake the waiters, drop the key.
CompileError(w) ==
    LET e == held[w]
    IN  /\ pc[w] = "compiling"
        /\ status' = [status EXCEPT ![e] = "failed"]
        /\ entries' = [entries EXCEPT ![keyOf[e]] = NoEntry]
        /\ Goto(w, "compiled", e)
        /\ UNCHANGED <<closed, allocated, keyOf, evicted, codeVars>>

\* entry.ready is closed.
WaitReady(w) ==
    /\ pc[w] = "waiting"
    /\ status[held[w]] \in {"ready", "failed"}
    /\ Goto(w, "compiled", held[w])
    /\ UNCHANGED <<cacheVars, codeVars>>

\* The waiter's own context ends first.
WaitCancelled(w) ==
    /\ pc[w] = "waiting"
    /\ Goto(w, "idle", NoEntry)
    /\ UNCHANGED <<cacheVars, codeVars>>

\* The checks of acquire's last critical section.
LeasableEvicted(e) == ~closed /\ status[e] # "failed"   \* faulty variant
Leasable(e) == ~closed /\ status[e] # "failed" /\ ~evicted[e]

\* acquire succeeds: count the lease.
TakeLease(w) ==
    /\ pc[w] = "compiled"
    /\ Leasable(held[w])
    /\ refs' = [refs EXCEPT ![held[w]] = @ + 1]
    /\ Goto(w, "leased", held[w])
    /\ UNCHANGED <<cacheVars, closeNow, freed>>

\* acquire fails: cache closed, compile error or entry evicted.
RefuseLease(w) ==
    /\ pc[w] = "compiled"
    /\ ~Leasable(held[w])
    /\ Goto(w, "idle", NoEntry)
    /\ UNCHANGED <<cacheVars, codeVars>>

----------------------------------------------------------------------------
(* the life of a lease *)

\* Instantiate marks the lease and enters wazero with the compiled code.
StartInstance(w) ==
    /\ pc[w] = "leased"
    /\ Goto(w, "starting", held[w])
    /\ UNCHANGED <<cacheVars, codeVars>>

InstanceUp(w) ==
    /\ pc[w] = "starting"
    /\ Goto(w, "running", held[w])
    /\ UNCHANGED <<cacheVars, codeVars>>

\* CachedModuleInstance.Close stops the module before it releases the lease.
StopInstance(w) ==
    /\ pc[w] = "running"
    /\ Goto(w, "stopped", held[w])
    /\ UNCHANGED <<cacheVars, codeVars>>

\* Whether the lease that ends now is the last one of retired code.
LastOut(e) == refs[e] = 1 /\ Retired(e)

\* ModuleCache.release; the last lease of retired code picks it for closing.
Release(w) ==
    LET e == held[w]
    IN  /\ refs[e] > 0
        /\ refs' = [refs EXCEPT ![e] = @ - 1]
        /\ closeNow' = IF LastOut(e)
                       THEN [closeNow EXCEPT ![e] = @ + 1]
                       ELSE closeNow
        /\ Goto(w, "idle", NoEntry)
        /\ UNCHANGED <<cacheVars, freed>>

\* The lease ends: the owner closes it unused, InstantiateModule failed, or
\* the stopped instance lets go of it.  A lease belongs to the goroutine that
\* acquired it; one that closed it while another instantiates it (the gap after
\* Close's check of `instantiated`) is not represented.
CloseLease(w) == pc[w] = "leased" /\ Release(w)
InstanceError(w) == pc[w] = "starting" /\ Release(w)
CloseInstance(w) == pc[w] = "stopped" /\ Release(w)

----------------------------------------------------------------------------
(* retirement *)

\* Faulty variant of Idle: code that is still leased counts as idle.
IdleOrBusy(ks) ==
    {e \in Entry : status[e] = "ready" /\ \E k \in ks : entries[k] = e}

\* Idle compiled code among the entries the map holds for the keys ks.
Idle(ks) ==
    {e \in Entry : refs[e] = 0 /\ status[e] = "ready" /\ \E k \in ks : entries[k] = e}

\* Retire the entries of ks: mark, forget, and pick the idle ones for closing.
Retire(ks) ==
    /\ evicted' = [e \in Entry |-> evicted[e] \/ \E k \in ks : entries[k] = e]
    /\ entries' = [k \in Key |-> IF k \in ks THEN NoEntry ELSE entries[k]]
    /\ closeNow' = [e \in Entry |->
                        IF e \in Idle(ks) THEN closeNow[e] + 1 ELSE closeNow[e]]
    /\ UNCHANGED <<allocated, keyOf, status, refs, freed, workerVars>>

\* ModuleCacheScope.Evict on a present key (on a missing one it is a no-op).
Evict(k) ==
    /\ entries[k] # NoEntry
    /\ Retire({k})
    /\ UNCHANGED closed

\* ModuleCache.Close, the first time (later calls are no-ops).
Close ==
    /\ ~closed
    /\ closed' = TRUE
    /\ Retire(Key)

\* closeNow.Close(ctx), called after the lock is dropped.
FreeCode(e) ==
    /\ closeNow[e] > 0
    /\ ~freed[e]
    /\ freed' = [freed EXCEPT ![e] = TRUE]
    /\ UNCHANGED <<cacheVars, refs, closeNow, workerVars>>

----------------------------------------------------------------------------

WorkerStep(w) ==
    \/ \E k \in Key : StartCompile(w, k)
    \/ \E k \in Key : StartWait(w, k)
    \/ CompileOk(w)
    \/ CompileError(w)
    \/ WaitReady(w)
    \/ WaitCancelled(w)
    \/ TakeLease(w)
    \/ RefuseLease(w)
    \/ StartInstance(w)
    \/ InstanceUp(w)
    \/ StopInstance(w)
    \/ CloseLease(w)
    \/ InstanceError(w)
    \/ CloseInstance(w)

Next ==
    \/ \E w \in Worker : WorkerStep(w)
    \/ \E k \in Key : Evict(k)
    \/ Close
    \/ \E e \in Entry : FreeCode(e)

\* What runs by itself once started: a compilation and an instantiation end,
\* acquire finishes, picked code is closed.  Cells are loaded, stopped and
\* evicted when somebody asks for it, so those steps are not fair, but a
\* stopped instance does release its lease.
Fairness ==
    /\ \A w \in Worker :
          /\ WF_vars(CompileOk(w) \/ CompileError(w))
          /\ WF_vars(WaitReady(w))
          /\ WF_vars(TakeLease(w) \/ RefuseLease(w))
          /\ WF_vars(InstanceUp(w) \/ InstanceError(w))
          /\ WF_vars(CloseInstance(w))
    /\ \A e \in Entry : WF_vars(FreeCode(e))

Spec == Init /\ [][Next]_vars /\ Fairness

----------------------------------------------------------------------------
(* properties *)

TypeOK ==
    /\ closed \in BOOLEAN
    /\ entries \in [Key -> Entry \cup {NoEntry}]
    /\ allocated \in 0..MaxEntries
    /\ keyOf \in [Entry -> Key \cup {NoKey}]
    /\ status \in [Entry -> {"unborn", "compiling", "ready", "failed"}]
    /\ evicted \in [Entry -> BOOLEAN]
    /\ refs \in [Entry -> Nat]
    /\ closeNow \in [Entry -> Nat]
    /\ freed \in [Entry -> BOOLEAN]
    /\ pc \in [Worker -> PC]
    /\ held \in [Worker -> Entry \cup {NoEntry}]

\* entry.refs is exactly the number of leases handed out and not released,
\* whatever eviction and Close do to the entry in between: release never
\* reports "lease released twice" and never closes code early.
LeasesCounted == \A e \in Entry : refs[e] = Cardinality(Holders(e))

\* Nobody instantiates from, or runs, freed compiled code (the promise at the
\* head of ModuleCache): a lease keeps its code from being picked for Close,
\* also when Evict or Close raced with the acquire that handed it out.
LeasedCodeIsOpen == \A w \in Worker : pc[w] \in Leasing => closeNow[held[w]] = 0

\* The three places that pick code for closing (acquire, evict and release)
\* never pick the same code twice.
ClosedOnce == \A e \in Entry : closeNow[e] <= 1

\* Every caller of Acquire gets an answer: a goroutine that waits for the one
\* that compiles is woken when compilation ends, also if it failed, if the
\* entry was evicted or if the cache was closed meanwhile.
AcquireReturns ==
    \A w \in Worker :
        pc[w] \in {"compiling", "waiting", "compiled"} ~> pc[w] \in {"idle", "leased"}

\* Evicted code that nobody leases is eventually closed, also when it was
\* evicted before its compilation ended.
EvictedCodeIsFreed ==
    \A e \in Entry :
        (evicted[e] /\ refs[e] = 0) ~> (freed[e] \/ status[e] = "failed")

\* Refinement mapping to what the cache promises about compiled code.
PhaseOf(e) ==
    CASE freed[e] -> "freed"
      [] ~freed[e] /\ status[e] # "ready" -> "absent"
      [] ~freed[e] /\ status[e] = "ready" /\ Retired(e) -> "retired"
      [] OTHER -> "live"

Phase == [e \in Entry |-> PhaseOf(e)]
Users == [e \in Entry |-> Holders(e)]

Promise == INSTANCE CodeLifetime WITH
    Code <- Entry, User <- Worker, phase <- Phase, users <- Users

\* The cache implements the promised lifetime of compiled code: leases are
\* only handed out on live code, and code is freed once, after its last lease.
KeepsPromise == Promise!Spec

============================================================================
