----------------------------- MODULE CellCalls -----------------------------
(***************************************************************************)
(* Synchronous work in the cells of one running application: the steps of  *)
(* the step loops (run/run.go), provider calls between its cells           *)
(* (run/sibling.go), from other applications (run/cross_application.go)    *)
(* and from the host (run/application_runtime.go), snapshots               *)
(* (run/application_snapshot.go), the replacement of a module that wazero  *)
(* has closed, and the application's shutdown, down to the locks of        *)
(* host.Cell (internal/host/cell.go, snapshot.go).                         *)
(*                                                                         *)
(* A goroutine is a stack of frames, one per module it has entered: a      *)
(* guest that calls a sibling waits below the frame of the call.  A module *)
(* is a host.Cell object, numbered per cell; rt.cell points to the current *)
(* one and a frame keeps the one it has looked up.  Who holds Cell.mu and  *)
(* rt.execution follows from where the frames are.                         *)
(***************************************************************************)
EXTENDS Naturals, Sequences, FiniteSets, SequencesExt

CONSTANTS
    Cell,          \* the cells of the application
    Provider,      \* the cells that provide something
    Links,         \* pairs <<c, d>>: c consumes what d provides
    DependsOn,     \* pairs <<c, d>>: c names d in depends_on
    Inbound,       \* the cells that are also stepped without an event
    Restarting,    \* the cells with restart = on_crash or always
    Snapshotable,  \* the cells whose state a deployment carries over
    Granted,       \* the providers that other applications are granted
    Foreign,       \* goroutines of other applications that call providers
    Access,        \* goroutines of the host that call providers
    MaxInstances,  \* bound: modules of a cell
    MaxEvents,     \* bound: steps with an event
    MaxCalls,      \* bound: provider calls
    MaxDeadlines,  \* bound: contexts that end while they are used
    MaxSnapshots   \* bound: snapshots of a cell

Host == "host"     \* the goroutine that snapshots and stops the application

ASSUME CellsAssumption ==
    /\ IsFiniteSet(Cell) /\ IsFiniteSet(Foreign) /\ IsFiniteSet(Access)
    /\ Cell \cap Foreign = {} /\ Cell \cap Access = {} /\ Foreign \cap Access = {}
    /\ Host \notin Cell \cup Foreign \cup Access
    /\ Provider \subseteq Cell /\ Links \subseteq Cell \X Provider /\ DependsOn \subseteq Cell \X Cell
    /\ Inbound \subseteq Cell /\ Restarting \subseteq Cell /\ Snapshotable \subseteq Cell
    /\ Granted \subseteq Provider
ASSUME CallBoundsAssumption ==
    /\ MaxInstances \in Nat \ {0}
    /\ MaxEvents \in Nat /\ MaxCalls \in Nat /\ MaxDeadlines \in Nat /\ MaxSnapshots \in Nat

Instance == 1..MaxInstances
NoInstance == 0
Caller == Foreign \cup Access
Goroutine == Cell \cup Caller \cup {Host}   \* a step loop goes by its cell's name

VARIABLES
    stack,     \* the frames of a goroutine, innermost last
    current,   \* rt.cell
    failed,    \* rt.failed
    status,    \* of a module: none yet, open, dead (closed by wazero) or closed
    made,      \* modules of a cell made so far
    accused,   \* history: pairs <<c, i>>: the guest in module i of c has
               \* returned an error whose text reads like a closed module
    stop,      \* how far stopLocked is
    events, calls, deadlines, snapshots

countVars == <<events, calls, deadlines, snapshots>>
vars == <<stack, current, failed, status, made, accused, stop, countVars>>

\* queue: about to take providerCallLocks; rlock: about to take
\* execution.RLock; lock: about to take Cell.mu; guest: executing; wlock,
\* drain: about to announce and to own execution.Lock; load, swap: in
\* reinstantiateCell, before and after rt.cell is read; close: about to close
\* the old module.  late: the frame's context has ended.
Frame == [kind : {"step", "tick", "call", "snapshot", "shutdown"}, on : Cell,
          at : {"queue", "rlock", "lock", "guest", "wlock", "drain", "load", "swap", "close"},
          inst : Instance \cup {NoInstance}, new : Instance \cup {NoInstance}, late : BOOLEAN]

NewFrame(kind, c, at, i, late) ==
    [kind |-> kind, on |-> c, at |-> at, inst |-> i, new |-> NoInstance, late |-> late]

Idle(p) == stack[p] = <<>>
Top(p) == Last(stack[p])
At(p, at) == ~Idle(p) /\ Top(p).at = at
Goto(p, f) == stack' = [stack EXCEPT ![p] = Append(Front(@), f)]
Push(p, f) == stack' = [stack EXCEPT ![p] = Append(@, f)]
Return(p) == stack' = [stack EXCEPT ![p] = Front(@)]

Frames == UNION {{<<p, n>> : n \in DOMAIN stack[p]} : p \in Goroutine}
F(x) == stack[x[1]][x[2]]

\* Cell.mu of module i of c is held by whoever executes in it.
Free(c, i) == \A x \in Frames : ~(F(x).on = c /\ F(x).inst = i /\ F(x).at = "guest")

\* execution.RLock of c: steps and calls from before Cell.mu until they are out.
Readers(c) == {x \in Frames : /\ F(x).on = c
                              /\ F(x).kind \in {"step", "tick", "call"}
                              /\ F(x).at \in {"lock", "guest"}}

\* execution.Lock of c: a call that replaces the module, or a snapshot.
Writers(c) == {x \in Frames : /\ F(x).on = c
                              /\ \/ F(x).kind = "call" /\ F(x).at \in {"drain", "load", "swap", "close"}
                                 \/ F(x).kind = "snapshot" /\ F(x).at \in {"drain", "lock", "guest"}}

\* callWaiters: the calls that wait for the module or are in it.
CallWaiters(c, i) == {x \in Frames : /\ F(x).on = c /\ F(x).inst = i
                                     /\ F(x).kind = "call" /\ F(x).at \in {"lock", "guest"}}

Init ==
    /\ stack = [p \in Goroutine |-> <<>>]
    /\ current = [c \in Cell |-> 1]
    /\ failed = [c \in Cell |-> FALSE]
    /\ status = [c \in Cell |-> [i \in Instance |-> IF i = 1 THEN "open" ELSE "none"]]
    /\ made = [c \in Cell |-> 1]
    /\ accused = {}
    /\ stop = "no"
    /\ events = 0 /\ calls = 0 /\ deadlines = 0 /\ snapshots = 0

----------------------------------------------------------------------------
(* how work begins *)

\* stepCtx is cancelled only when no caller is left.
Stepping == stop \in {"no", "refusing", "revoking"}

\* The step loop of c takes an event.
BeginStep(c) ==
    /\ Stepping /\ Idle(c)
    /\ events < MaxEvents
    /\ events' = events + 1
    /\ Push(c, NewFrame("step", c, "rlock", NoInstance, FALSE))
    /\ UNCHANGED <<current, failed, status, made, accused, stop, calls, deadlines, snapshots>>

\* It finds none, and the cell schedules itself.
BeginTick(c) ==
    /\ Stepping /\ Idle(c)
    /\ c \in Inbound
    /\ Push(c, NewFrame("tick", c, "rlock", NoInstance, FALSE))
    /\ UNCHANGED <<current, failed, status, made, accused, stop, countVars>>

\* A call by p on c, unless c is known to have failed.
Call(p, c, late) ==
    /\ calls < MaxCalls
    /\ calls' = calls + 1
    /\ \/ failed[c] /\ UNCHANGED stack
       \/ ~failed[c] /\ Push(p, NewFrame("call", c, "rlock", NoInstance, late))
    /\ UNCHANGED <<current, failed, status, made, accused, stop, events, deadlines, snapshots>>

\* By another application that holds a lease on this one.
ForeignCalls(p, c) ==
    /\ stop = "no" /\ Idle(p)
    /\ c \in Granted
    /\ Call(p, c, FALSE)

\* By a guest, as far as both manifests declare it.  The call runs under the
\* context of the guest.
GuestCalls(p, c) ==
    /\ At(p, "guest")
    /\ status[Top(p).on][Top(p).inst] = "open"
    /\ <<Top(p).on, c>> \in Links
    /\ Call(p, c, Top(p).late)

\* By the host, while its access is not revoked: one call per cell at a time.
AccessCalls(p, c) ==
    /\ stop \in {"no", "refusing"} /\ Idle(p)
    /\ c \in Provider
    /\ calls < MaxCalls
    /\ calls' = calls + 1
    /\ Push(p, NewFrame("call", c, "queue", NoInstance, FALSE))
    /\ UNCHANGED <<current, failed, status, made, accused, stop, events, deadlines, snapshots>>

\* providerCallLocks: it is the turn of p, unless the cell has failed.
Turn(p) ==
    /\ At(p, "queue")
    /\ \A q \in Access \ {p} : Idle(q) \/ stack[q][1].on # Top(p).on \/ stack[q][1].at = "queue"
    /\ \/ failed[Top(p).on] /\ Return(p)
       \/ ~failed[Top(p).on] /\ Goto(p, [Top(p) EXCEPT !.at = "rlock"])
    /\ UNCHANGED <<current, failed, status, made, accused, stop, countVars>>

\* SnapshotLive reaches c.
BeginSnapshot(c) ==
    /\ stop = "no" /\ Idle(Host)
    /\ c \in Snapshotable
    /\ snapshots < MaxSnapshots
    /\ snapshots' = snapshots + 1
    /\ Push(Host, NewFrame("snapshot", c, "wlock", NoInstance, FALSE))
    /\ UNCHANGED <<current, failed, status, made, accused, stop, events, calls, deadlines>>

----------------------------------------------------------------------------
(* entering and leaving a module *)

\* execution.RLock waits for a writer, announced or inside; rt.cell is read.
RLock(p) ==
    /\ At(p, "rlock")
    /\ Writers(Top(p).on) = {}
    /\ Goto(p, [Top(p) EXCEPT !.at = "lock", !.inst = current[Top(p).on]])
    /\ UNCHANGED <<current, failed, status, made, accused, stop, countVars>>

\* Faulty variant: an idle step takes the module whoever waits for it.
MayEnterAlways(f) == Free(f.on, f.inst)

\* An idle step does not go ahead of a call.
MayEnter(f) ==
    /\ Free(f.on, f.inst)
    /\ f.kind = "tick" => CallWaiters(f.on, f.inst) = {}

\* A guest that is entered with an ended context is closed at once.
Lock(p) ==
    /\ At(p, "lock")
    /\ MayEnter(Top(p))
    /\ LET f == Top(p)
       IN  /\ status[f.on][f.inst] # "closed"
           /\ status' = [status EXCEPT ![f.on][f.inst] = IF f.late THEN "dead" ELSE @]
           /\ Goto(p, [f EXCEPT !.at = "guest"])
    /\ UNCHANGED <<current, failed, made, accused, stop, countVars>>

\* An idle step that would have to wait does nothing.
Yield(p) ==
    /\ At(p, "lock")
    /\ Top(p).kind = "tick"
    /\ ~MayEnter(Top(p))
    /\ Return(p)
    /\ UNCHANGED <<current, failed, status, made, accused, stop, countVars>>

\* lockForCall: a call whose context ends gives up (ErrReentrantCall), also if
\* the lock has just become free: the select is between two ready channels.
GiveUp(p) ==
    /\ At(p, "lock")
    /\ Top(p).kind = "call" /\ Top(p).late
    /\ Return(p)
    /\ UNCHANGED <<current, failed, status, made, accused, stop, countVars>>

\* superviseTrap: the step loop replaces the module after any error.
Supervised(f) == f.kind \in {"step", "tick"} /\ f.on \in Restarting /\ Stepping

\* closedModuleCallError looks for a phrase in the text of the error, which
\* has the diagnostic of the guest in it.
ReadsClosed(result) == result \in {"module closed", "diagnostic"}

\* rt.ctx of c is cancelled once its module was shut down.
Ended(c) == stop \in {"closing", "stopped"} /\ status[c][current[c]] = "closed"

\* callRuntimeProvider: a call replaces a module whose error reads closed.
MeetsDead(f, result) == f.kind = "call" /\ ReadsClosed(result) /\ ~Ended(f.on)

\* What follows once the locks of frame f of p are given back.
After(p, f, result) ==
    \/ MeetsDead(f, result) /\ Goto(p, [f EXCEPT !.at = "wlock"])
    \/ Supervised(f) /\ result # "ok" /\ Goto(p, [f EXCEPT !.at = "load"])
    \/ f.kind = "shutdown" /\ Goto(p, [f EXCEPT !.at = "close"])
    \/ /\ ~MeetsDead(f, result) /\ ~(Supervised(f) /\ result # "ok") /\ f.kind # "shutdown"
       /\ Return(p)

\* The module was closed by its replacement before this frame got in.
FindsClosed(p) ==
    /\ At(p, "lock")
    /\ Top(p).kind # "snapshot"
    /\ MayEnter(Top(p))
    /\ status[Top(p).on][Top(p).inst] = "closed"
    /\ After(p, Top(p), "error")
    /\ UNCHANGED <<current, failed, status, made, accused, stop, countVars>>

\* Close leaves snapshotFn set, so Snapshot goes on into a module that is nil,
\* and the process ends.
SnapshotPanics ==
    /\ At(Host, "lock")
    /\ Top(Host).kind = "snapshot"
    /\ status[Top(Host).on][Top(Host).inst] = "closed"
    /\ stack' = [p \in Goroutine |-> <<>>]
    /\ stop' = "panicked"
    /\ UNCHANGED <<current, failed, status, made, accused, countVars>>

\* The guest returns, fails, with a diagnostic that may say anything, or exits,
\* which closes its module; what runs in a module that is closed already ends
\* with that.
GuestEnds(p) ==
    /\ At(p, "guest")
    /\ LET f == Top(p)
       IN  \E result \in IF status[f.on][f.inst] = "dead" THEN {"module closed"}
                                                          ELSE {"ok", "error", "diagnostic", "module closed"} :
              /\ result = "diagnostic" => f.kind = "call"
              /\ accused' = IF result = "diagnostic" THEN accused \cup {<<f.on, f.inst>>} ELSE accused
              /\ status' = [status EXCEPT ![f.on][f.inst] = IF result = "module closed" THEN "dead" ELSE @]
              /\ After(p, f, result)
    /\ UNCHANGED <<current, failed, made, stop, countVars>>

\* The context of frame n of p ends, with those derived from it, and wazero
\* closes the modules that execute under them.
Deadline(p, n) ==
    /\ deadlines < MaxDeadlines
    /\ n \in DOMAIN stack[p]
    /\ ~stack[p][n].late
    /\ stack[p][n].at = "guest" \/ (n = 1 /\ p \in Caller)
    /\ deadlines' = deadlines + 1
    /\ stack' = [stack EXCEPT ![p] =
           [k \in DOMAIN @ |-> IF k >= n THEN [@[k] EXCEPT !.late = TRUE] ELSE @[k]]]
    /\ status' = [c \in Cell |-> [i \in Instance |->
           IF \E k \in n..Len(stack[p]) : /\ stack[p][k].on = c /\ stack[p][k].inst = i
                                          /\ stack[p][k].at = "guest"
           THEN "dead" ELSE status[c][i]]]
    /\ UNCHANGED <<current, failed, made, accused, stop, events, calls, snapshots>>

----------------------------------------------------------------------------
(* execution.Lock, and reinstantiateCell *)

\* Faulty variant: the lock is shared among those who replace the module.
NoWriterOrCall(c) == \A x \in Writers(c) : F(x).kind = "call"

NoWriter(c) == Writers(c) = {}

WLock(p) ==
    /\ At(p, "wlock")
    /\ NoWriter(Top(p).on)
    /\ Goto(p, [Top(p) EXCEPT !.at = "drain"])
    /\ UNCHANGED <<current, failed, status, made, accused, stop, countVars>>

\* Faulty variant: a writer goes ahead of the readers.
NoReaderNeeded(c) == TRUE

NoReader(c) == Readers(c) = {}

\* Faulty variant: the module is replaced, whoever has done so before.
StillCurrentAnyway(f) == TRUE

\* "Another failed caller may already have replaced this exact instance."
StillCurrent(f) == current[f.on] = f.inst

Drained(p) ==
    /\ At(p, "drain")
    /\ NoReader(Top(p).on)
    /\ LET f == Top(p)
       IN  \/ f.kind = "call" /\ StillCurrent(f) /\ Goto(p, [f EXCEPT !.at = "load"])
           \/ f.kind = "call" /\ ~StillCurrent(f) /\ Return(p)
           \/ f.kind = "snapshot" /\ failed[f.on] /\ Return(p)
           \/ f.kind = "snapshot" /\ ~failed[f.on] /\ Goto(p, [f EXCEPT !.at = "lock", !.inst = current[f.on]])
    /\ UNCHANGED <<current, failed, status, made, accused, stop, countVars>>

\* LoadScoped or Init fails, or the loop has restarted the cell too often: a
\* caller gives the cell up, the loop does not.
LoadFails(p) ==
    /\ At(p, "load")
    /\ failed' = [failed EXCEPT ![Top(p).on] = @ \/ Top(p).kind = "call"]
    /\ Return(p)
    /\ UNCHANGED <<current, status, made, accused, stop, countVars>>

\* The new module is up, and the old one is looked up.
LoadOk(p) ==
    /\ At(p, "load")
    /\ LET c == Top(p).on
       IN  /\ made[c] < MaxInstances
           /\ made' = [made EXCEPT ![c] = @ + 1]
           /\ status' = [status EXCEPT ![c][made'[c]] = "open"]
           /\ Goto(p, [Top(p) EXCEPT !.at = "swap", !.new = made'[c], !.inst = current[c]])
    /\ UNCHANGED <<current, failed, accused, stop, countVars>>

Swap(p) ==
    /\ At(p, "swap")
    /\ current' = [current EXCEPT ![Top(p).on] = Top(p).new]
    /\ Goto(p, [Top(p) EXCEPT !.at = "close"])
    /\ UNCHANGED <<failed, status, made, accused, stop, countVars>>

\* Faulty variant: Close does not wait for whoever is in the module.
MayCloseAnyway(f) == TRUE

\* Cell.Close takes Cell.mu.
MayClose(f) == Free(f.on, f.inst)

CloseModule(p) ==
    /\ At(p, "close")
    /\ MayClose(Top(p))
    /\ status' = [status EXCEPT ![Top(p).on][Top(p).inst] = "closed"]
    /\ Return(p)
    /\ UNCHANGED <<current, failed, made, accused, stop, countVars>>

----------------------------------------------------------------------------
(* stopLocked *)

StopGoes(to) ==
    /\ stop' = to
    /\ UNCHANGED <<stack, current, failed, status, made, accused, countVars>>

\* Faulty variant: leases are not waited for.
LeasesReturnedAnyway == TRUE

\* markUnavailable refuses new calls of other applications, and waits for
\* those that hold a lease.
LeasesReturned == \A p \in Foreign : Idle(p)

Stop == stop = "no" /\ Idle(Host) /\ StopGoes("refusing")

\* providerAccess.revoke
Revoke == stop = "refusing" /\ LeasesReturned /\ StopGoes("revoking")

\* rt.cancel
Cancel == stop = "revoking" /\ (\A p \in Access : Idle(p)) /\ StopGoes("cancelled")

\* stepWG.Wait
Joined == stop = "cancelled" /\ (\A c \in Cell : Idle(c)) /\ StopGoes("closing")

\* Shutdown and Close of the next cell in stop order.
ShutDown(c) ==
    /\ stop = "closing" /\ Idle(Host)
    /\ status[c][current[c]] # "closed"
    /\ \A d \in Cell : <<d, c>> \in DependsOn => status[d][current[d]] = "closed"
    /\ Push(Host, NewFrame("shutdown", c, "lock", current[c], FALSE))
    /\ UNCHANGED <<current, failed, status, made, accused, stop, countVars>>

Stopped == stop = "closing" /\ Idle(Host) /\ (\A c \in Cell : status[c][current[c]] = "closed") /\ StopGoes("stopped")

HostGoesOn == SnapshotPanics \/ Revoke \/ Cancel \/ Joined \/ Stopped \/ \E c \in Cell : ShutDown(c)

----------------------------------------------------------------------------

\* What a goroutine does once it has begun.
GoesOn(p) ==
    \/ Turn(p) \/ RLock(p) \/ Lock(p) \/ Yield(p) \/ GiveUp(p) \/ FindsClosed(p) \/ GuestEnds(p)
    \/ WLock(p) \/ Drained(p) \/ LoadFails(p) \/ LoadOk(p) \/ Swap(p) \/ CloseModule(p)

Next ==
    \/ \E c \in Cell : BeginStep(c) \/ BeginTick(c) \/ BeginSnapshot(c)
    \/ \E c \in Cell : (\E p \in Foreign : ForeignCalls(p, c)) \/ (\E p \in Access : AccessCalls(p, c))
    \/ \E p \in Goroutine, c \in Cell : GuestCalls(p, c)
    \/ \E p \in Goroutine : GoesOn(p) \/ \E n \in 1..(MaxCalls + 1) : Deadline(p, n)
    \/ Stop \/ HostGoesOn

\* A goroutine that can go on does, and a guest comes back: its context has a
\* deadline, and every cell is loaded Interruptible.  A call polls Cell.mu, so
\* it may miss it while others take it.  Nothing is assumed of deadlines, of
\* new work and of the request to stop.
Fairness ==
    /\ \A p \in Goroutine \ {Host} : WF_vars(GoesOn(p))
    /\ WF_vars(GoesOn(Host) \/ HostGoesOn)

Spec == Init /\ [][Next]_vars /\ Fairness

----------------------------------------------------------------------------
(* properties *)

TypeOK ==
    /\ stack \in [Goroutine -> Seq(Frame)]
    /\ current \in [Cell -> Instance]
    /\ failed \in [Cell -> BOOLEAN]
    /\ status \in [Cell -> [Instance -> {"none", "open", "dead", "closed"}]]
    /\ made \in [Cell -> Instance]
    /\ accused \in SUBSET (Cell \X Instance)
    /\ stop \in {"no", "refusing", "revoking", "cancelled", "closing", "stopped", "panicked"}

\* Calls, steps, a snapshot and a shutdown never execute in one module
\* together, and no module is torn down under one that executes in it, while
\* deadlines and replacements come and go (Cell.mu).
GuestOwnsModule ==
    \A x \in Frames : F(x).at = "guest" =>
        /\ status[F(x).on][F(x).inst] # "closed"
        /\ \A y \in Frames : F(y).at = "guest" /\ F(y).on = F(x).on /\ F(y).inst = F(x).inst => y = x

\* The module that is snapshotted stays the cell's current one, and nothing
\* has a hold on the cell, unless its step loop is restarting it: superviseTrap
\* does not take execution.Lock.
SnapshotIsQuiet ==
    \A x, y \in Frames :
        (F(x).kind = "snapshot" /\ F(x).at = "guest" /\ F(y).on = F(x).on /\ y # x) =>
            \/ F(y).at \in {"queue", "rlock", "wlock"} /\ (F(x).on \notin Restarting => current[F(x).on] = F(x).inst)
            \/ Supervised(F(y)) /\ F(y).at \in {"load", "swap", "close"}

\* The module that the call of frame f is replacing.
Replacing(f) == IF f.at = "load" THEN current[f.on] ELSE f.inst

\* Of a cell that its step loop does not restart, a failed call replaces the
\* module only if it is dead, or if the guest in that very module has reported
\* an error that reads like a closed module: however many calls have failed
\* before, the module that took its place, with the state it has gathered, is
\* not thrown away.
OnlyDeadReplaced ==
    \A x \in Frames :
        F(x).kind = "call" /\ F(x).on \notin Restarting /\ F(x).at \in {"load", "swap", "close"} =>
            \/ status[F(x).on][Replacing(F(x))] = "dead"
            \/ <<F(x).on, Replacing(F(x))>> \in accused

\* What the test of closedModuleCallError asks for
\* (run/synchronous_call_recovery_test.go:19-20): an ordinary error of the
\* application is not taken for a closed module.
OrdinaryErrorsKeepModule ==
    \A x \in Frames :
        F(x).kind = "call" /\ F(x).on \notin Restarting /\ F(x).at = "load" =>
            status[F(x).on][current[F(x).on]] # "open"

\* Of such a cell no module is lost: one that is not closed is current, or
\* somebody is about to install or to close it.
NoModuleLost == stop # "panicked" =>
    \A c \in Cell \ Restarting, i \in Instance : status[c][i] \in {"open", "dead"} =>
        \/ current[c] = i
        \/ \E x \in Frames : F(x).on = c /\ \/ F(x).at = "swap" /\ F(x).new = i
                                            \/ F(x).at = "close" /\ F(x).inst = i

\* When the first cell is shut down nobody else is in the application or on
\* the way into it, and a cell that shuts down can still call those that it
\* depends on.
StopsQuietly ==
    /\ stop \in {"closing", "stopped"} => \A p \in Goroutine \ {Host} : Idle(p)
    /\ \A x \in Frames : F(x).kind = "shutdown" =>
          \A d \in Cell : <<F(x).on, d>> \in DependsOn => status[d][current[d]] # "closed"

\* A snapshot and a shutdown come to an end without the help of a deadline,
\* and with them every step and call that they wait for: idle steps do not keep
\* a call out, and who replaces a module waits for nobody who waits for it (the
\* links have no cycle).
WorkEnds == (stop # "no" \/ ~Idle(Host)) ~> (stop \in {"no", "stopped", "panicked"} /\ Idle(Host))

============================================================================
