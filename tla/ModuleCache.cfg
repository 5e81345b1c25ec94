\* Two workers on two keys; three allocations let a key be evicted
\* and recompiled while an earlier entry of it is still in use.
CONSTANTS
    Worker = {w1, w2}
    Key = {k1, k2}
    NoKey = NoKey
    MaxEntries = 3
SPECIFICATION Spec
INVARIANTS LeasedCodeIsOpen
PROPERTIES KeepsPromise AcquireReturns EvictedCodeIsFreed
CHECK_DEADLOCK FALSE
