---------------------------- MODULE CodeLifetime ----------------------------
(***************************************************************************)
(* What ModuleCache promises about one piece of compiled code, without     *)
(* maps, locks, counters or compilation: users come and go while it is     *)
(* live, retirement only keeps new users out, and it is freed once, after  *)
(* its last user has left ("Eviction and Close defer closing a compiled    *)
(* module until every acquired instance has been closed").                 *)
(***************************************************************************)
CONSTANTS
    Code,     \* pieces of compiled code
    User      \* whoever can lease code

VARIABLES
    phase,    \* "absent", "live", "retired" or "freed"
    users     \* who leases it

Init ==
    /\ phase = [c \in Code |-> "absent"]
    /\ users = [c \in Code |-> {}]

\* Compilation delivers code, live or already retired.
Appear(c) ==
    /\ phase[c] = "absent"
    /\ \E p \in {"live", "retired"} : phase' = [phase EXCEPT ![c] = p]
    /\ UNCHANGED users

Lease(c, u) ==
    /\ phase[c] = "live"
    /\ u \notin users[c]
    /\ users' = [users EXCEPT ![c] = @ \cup {u}]
    /\ UNCHANGED phase

Leave(c, u) ==
    /\ u \in users[c]
    /\ users' = [users EXCEPT ![c] = @ \ {u}]
    /\ UNCHANGED phase

\* Any set of live code is retired at once.
Retire(cs) ==
    /\ \A c \in cs : phase[c] = "live"
    /\ phase' = [c \in Code |-> IF c \in cs THEN "retired" ELSE phase[c]]
    /\ UNCHANGED users

Free(c) ==
    /\ phase[c] = "retired"
    /\ users[c] = {}
    /\ phase' = [phase EXCEPT ![c] = "freed"]
    /\ UNCHANGED users

Next ==
    \/ \E c \in Code : Appear(c)
    \/ \E c \in Code, u \in User : Lease(c, u)
    \/ \E c \in Code, u \in User : Leave(c, u)
    \/ \E cs \in SUBSET Code : Retire(cs)
    \/ \E c \in Code : Free(c)

Spec == Init /\ [][Next]_<<phase, users>>
============================================================================
