-------------------------- MODULE OperatorCommands --------------------------
(***************************************************************************)
(* The operator commands of one application (run/operator_command.go) and  *)
(* the provider access through which they enter a runtime                  *)
(* (applicationProviderAccess in run/application_runtime.go).  They do not *)
(* pass through the router.  A runtime's access is identified with the     *)
(* runtime.  A command may be registered at any time, also after a runtime *)
(* has been bound; it is then active for nobody until the next bind.       *)
(***************************************************************************)
EXTENDS Naturals, RuntimeRouter

CONSTANTS
    Operator,    \* goroutines that invoke operator commands
    Command      \* names of the commands that may be registered

\* A goroutine invokes commands or calls through the router, not both.
ASSUME OperatorAssumption == Operator \cap Client = {}

VARIABLES
    registered,  \* registry.commands, the ones of this application
    active,      \* registry.active: the runtime a command goes to, or NoRuntime
    staged,      \* registry.staged: a prepared runtime, or NoRuntime
    open,        \* the runtimes whose applicationProviderAccess is active
    chosen,      \* the runtime an invocation has looked up, or NoRuntime
    entered      \* whether an invocation is counted in the access's calls

commandVars == <<registered, active, staged, open, chosen, entered>>

\* The runtime that the registered commands go to.
Routed(cmds, r) == [m \in Command |-> IF m \in cmds THEN r ELSE NoRuntime]

CommandsInit(r) ==
    /\ registered \in SUBSET Command
    /\ active = Routed(registered, r)
    /\ staged = NoRuntime
    /\ open = {r}
    /\ chosen = [o \in Operator |-> NoRuntime]
    /\ entered = [o \in Operator |-> FALSE]

CommandsReset(r) ==
    /\ registered' \in SUBSET Command
    /\ active' = Routed(registered', r)
    /\ staged' = NoRuntime
    /\ open' = {r} \ {NoRuntime}
    /\ chosen' = [o \in Operator |-> NoRuntime]
    /\ entered' = [o \in Operator |-> FALSE]

\* register: a name is taken once.
Register(m) ==
    /\ m \notin registered
    /\ registered' = registered \cup {m}
    /\ UNCHANGED <<active, staged, open, chosen, entered>>

\* The new access of a started runtime: bind makes it active for the commands
\* that no generation is active for, and stages it if there are others.
Bind(r) ==
    /\ open' = open \cup {r}
    /\ active' = [m \in Command |->
          IF m \in registered /\ active[m] = NoRuntime THEN r ELSE active[m]]
    /\ staged' = IF \E m \in registered : active[m] # NoRuntime THEN r ELSE staged
    /\ UNCHANGED <<registered, chosen, entered>>

\* activate: promote a generation for all commands.
Promote(r) ==
    /\ active' = Routed(registered, r)
    /\ staged' = NoRuntime
    /\ UNCHANGED <<registered, open, chosen, entered>>

\* unbind, and the locked part of revoke.
UnbindRevoke(r) ==
    /\ active' = [m \in Command |-> IF active[m] = r THEN NoRuntime ELSE active[m]]
    /\ staged' = IF staged = r THEN NoRuntime ELSE staged
    /\ open' = open \ {r}
    /\ UNCHANGED <<registered, chosen, entered>>

\* revoke ends: every call counted in the access is done.
RevokedUnjoined(r) == TRUE      \* faulty variant: nobody waits
Revoked(r) == \A o \in Operator : ~(entered[o] /\ chosen[o] = r)

\* invoke looks up the active access under the registry's lock, and drops it.
Invoke(o) ==
    /\ chosen[o] = NoRuntime
    /\ \E m \in registered :
          /\ active[m] # NoRuntime
          /\ chosen' = [chosen EXCEPT ![o] = active[m]]
    /\ UNCHANGED <<registered, active, staged, open, entered>>

\* CallProvider: a revoked access refuses, an active one counts the call.
Enter(o) ==
    /\ chosen[o] # NoRuntime
    /\ ~entered[o]
    /\ IF chosen[o] \in open
       THEN entered' = [entered EXCEPT ![o] = TRUE] /\ UNCHANGED chosen
       ELSE chosen' = [chosen EXCEPT ![o] = NoRuntime] /\ UNCHANGED entered
    /\ UNCHANGED <<registered, active, staged, open>>

\* CallProvider returns.
Return(o) ==
    /\ entered[o]
    /\ entered' = [entered EXCEPT ![o] = FALSE]
    /\ chosen' = [chosen EXCEPT ![o] = NoRuntime]
    /\ UNCHANGED <<registered, active, staged, open>>

CommandsTypeOK ==
    /\ registered \in SUBSET Command
    /\ active \in [Command -> Runtime \cup {NoRuntime}]
    /\ staged \in Runtime \cup {NoRuntime}
    /\ open \in SUBSET Runtime
    /\ chosen \in [Operator -> Runtime \cup {NoRuntime}]
    /\ entered \in [Operator -> BOOLEAN]

============================================================================
