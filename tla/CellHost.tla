------------------------------ MODULE CellHost ------------------------------
(***************************************************************************)
(* The host process around the cells: the operations of the control socket *)
(* (run/ops.go, run/control.go) that shut down or reload a cell while the  *)
(* pollster and the step loops go on, and the end of run.Main              *)
(* (run/run.go), which a signal or the last shut-down cell brings about.   *)
(***************************************************************************)
EXTENDS CellEvents

CONSTANTS
    Conn,          \* control connections
    MaxReloads     \* bound: reloads

ASSUME MaxReloadsAssumption == MaxReloads \in Nat

VARIABLES
    stopped,     \* runtimeOps.stopped
    reloadMu,    \* the connection that holds runtimeOps.reloadMu, or none
    reloads,
    revived,     \* history: the cells a reload brought up again after they
                 \* had been marked stopped
    op,          \* what a connection is doing, on which cell, and for
                 \* shutdown_all which cells are left
    main,        \* where run.Main is
    todo,        \* the cells its loops have not reached
    victim       \* the cell it is shutting down

mainVars == <<main, todo, victim>>
hostVars == <<stopped, reloadMu, reloads, revived, op, mainVars>>
vars == <<eventVars, hostVars>>

\* mark: at the head of shutdownCell; join: waiting for stepDone; down, close:
\* shutting down and closing the module; drain: finalizing the queued events;
\* load: loading the module from disk; next: between two cells of shutdownAll.
NoOp == [do |-> "none", at |-> "none", on |-> {}, left |-> {}]
Do == {"none", "shutdown", "reload", "all"}
OpAt == {"none", "mark", "join", "down", "close", "drain", "load", "next"}
Main == {"run", "stoppoll", "join", "drain", "shutdown", "close", "stopctl", "exited"}

\* The cell a connection works on.
On(k) == CHOOSE c \in op[k].on : TRUE

Init ==
    /\ EventsInit
    /\ stopped = {}
    /\ reloadMu = {}
    /\ reloads = 0
    /\ revived = {}
    /\ op = [k \in Conn |-> NoOp]
    /\ main = "run"
    /\ todo = {}
    /\ victim = {}

At(k, at) == op[k].at = at
Go(k, at) == op' = [op EXCEPT ![k].at = at]

\* shutdownCell returns: to shutdownAll, or to the connection.
Return(k) == op' = [op EXCEPT ![k] = IF @.do = "all" THEN [@ EXCEPT !.at = "next", !.on = {}] ELSE NoOp]

----------------------------------------------------------------------------
(* requests *)

\* After stop no connection is accepted.
Accepting == main \notin {"stopctl", "exited"}

Cancel(cs) == cancelled' = [c \in Cell |-> cancelled[c] \/ c \in cs]

Request(k, do, at, on, left) ==
    /\ Accepting
    /\ At(k, "none")
    /\ op' = [op EXCEPT ![k] = [do |-> do, at |-> at, on |-> on, left |-> left]]
    /\ UNCHANGED <<pollVars, loopVars, cell, failed, stepDone, slots, mainVars>>

\* The head of shutdownCell: a stopped cell is refused, another one is marked
\* and its step loop is cancelled.
RequestShutdown(k, c) ==
    /\ c \notin stopped
    /\ stopped' = stopped \cup {c}
    /\ Cancel({c})
    /\ Request(k, "shutdown", "join", {c}, {})
    /\ UNCHANGED <<reloadMu, reloads, revived>>

\* The head of reloadCell, once the mutex is free: a stopped cell is refused.
RequestReload(k, c) ==
    /\ reloadMu = {}
    /\ c \notin stopped
    /\ reloads < MaxReloads
    /\ reloads' = reloads + 1
    /\ reloadMu' = {k}
    /\ Cancel({c})
    /\ Request(k, "reload", "join", {c}, {})
    /\ UNCHANGED <<stopped, revived>>

RequestShutdownAll(k) ==
    /\ Request(k, "all", "next", {}, Cell)
    /\ UNCHANGED <<stopped, reloadMu, reloads, revived, cancelled>>

\* shutdownAll: the next cell that is not stopped yet, or done.
NextCell(k) ==
    /\ At(k, "next")
    /\ IF op[k].left = {}
       THEN op' = [op EXCEPT ![k] = NoOp]
       ELSE \E c \in op[k].left :
                op' = [op EXCEPT ![k] = [do |-> @.do, on |-> {c}, left |-> @.left \ {c},
                                         at |-> IF c \in stopped THEN "next" ELSE "mark"]]
    /\ UNCHANGED <<eventVars, stopped, reloadMu, reloads, revived, mainVars>>

\* shutdownCell, called by shutdownAll, may find the cell stopped meanwhile.
Mark(k) ==
    /\ At(k, "mark")
    /\ IF On(k) \in stopped
       THEN Return(k) /\ UNCHANGED <<stopped, cancelled>>
       ELSE Go(k, "join") /\ stopped' = stopped \cup {On(k)} /\ Cancel({On(k)})
    /\ UNCHANGED <<pollVars, loopVars, cell, failed, stepDone, slots, reloadMu, reloads, revived, mainVars>>

----------------------------------------------------------------------------
(* shutdownCell and reloadCell *)

\* Faulty variant: the step loop is cancelled and not joined.
JoinCancelled(k) ==
    /\ At(k, "join")
    /\ Go(k, "down")
    /\ UNCHANGED <<eventVars, stopped, reloadMu, reloads, revived, mainVars>>

Join(k) ==
    /\ At(k, "join")
    /\ stepDone[On(k)]
    /\ Go(k, "down")
    /\ UNCHANGED <<eventVars, stopped, reloadMu, reloads, revived, mainVars>>

\* rt.cell.Shutdown, whatever it answers, if there is a module.
ShutDown(k) ==
    /\ At(k, "down")
    /\ Go(k, IF cell[On(k)] = "nil" THEN "drain" ELSE "close")
    /\ UNCHANGED <<eventVars, stopped, reloadMu, reloads, revived, mainVars>>

\* rt.cell.Close; rt.cell = nil.  TeardownCell of each capability follows.
CloseCell(k) ==
    /\ At(k, "close")
    /\ cell' = [cell EXCEPT ![On(k)] = "nil"]
    /\ panicked' = (cell[On(k)] = "nil")
    /\ Go(k, "drain")
    /\ UNCHANGED <<pollVars, queue, hand, loop, newest, restarts, traps, failed, cancelled,
                   stepDone, slots, stopped, reloadMu, reloads, revived, mainVars>>

\* One queued event of c is finalized by whoever tears the cell down.
DrainOne(c) ==
    /\ queue[c] # <<>>
    /\ queue' = [queue EXCEPT ![c] = Tail(@)]
    /\ Finalize(Head(queue[c]))
    /\ UNCHANGED <<pollVars, hand, loop, newest, restarts, traps, panicked, cellVars>>

Drain(k) ==
    /\ At(k, "drain")
    /\ DrainOne(On(k))
    /\ UNCHANGED hostVars

ShutdownDone(k) ==
    /\ At(k, "drain")
    /\ op[k].do # "reload"
    /\ queue[On(k)] = <<>>
    /\ Return(k)
    /\ UNCHANGED <<eventVars, stopped, reloadMu, reloads, revived, mainVars>>

\* A reload goes on with fresh contexts.
Refresh(k) ==
    /\ At(k, "drain")
    /\ op[k].do = "reload"
    /\ queue[On(k)] = <<>>
    /\ cancelled' = [cancelled EXCEPT ![On(k)] = FALSE]
    /\ Go(k, "load")
    /\ UNCHANGED <<pollVars, loopVars, cell, failed, stepDone, slots, stopped, reloadMu, reloads, revived, mainVars>>

\* The new module is up: launchStep.
LoadOk(k) ==
    /\ At(k, "load")
    /\ cell' = [cell EXCEPT ![On(k)] = "open"]
    /\ failed' = [failed EXCEPT ![On(k)] = FALSE]
    /\ stepDone' = [stepDone EXCEPT ![On(k)] = FALSE]
    /\ loop' = [loop EXCEPT ![On(k)] = "select"]
    /\ reloadMu' = {}
    /\ revived' = revived \cup ({On(k)} \cap stopped)
    /\ Return(k)
    /\ UNCHANGED <<pollVars, queue, hand, newest, restarts, traps, panicked, cancelled, slots,
                   stopped, reloads, mainVars>>

LoadError(k) ==
    /\ At(k, "load")
    /\ failed' = [failed EXCEPT ![On(k)] = TRUE]
    /\ reloadMu' = {}
    /\ Return(k)
    /\ UNCHANGED <<pollVars, loopVars, cell, cancelled, stepDone, slots, stopped, reloads, revived, mainVars>>

OpStep(k) ==
    \/ NextCell(k) \/ Mark(k) \/ Join(k) \/ ShutDown(k) \/ CloseCell(k) \/ Drain(k) \/ ShutdownDone(k) \/ Refresh(k) \/ LoadOk(k) \/ LoadError(k)

----------------------------------------------------------------------------
(* the end of run.Main *)

MainGoes(from, to) == main = from /\ main' = to

Signal ==
    /\ MainGoes("run", "stoppoll")
    /\ stopPoll' = TRUE
    /\ UNCHANGED <<polled, poller, pend, reached, loopVars, cellVars, slots, stopped, reloadMu, reloads, revived, op, todo, victim>>

\* allShutdown: some cell has not failed, and every such cell is stopped.
AllShutdown ==
    /\ \E c \in Cell : ~failed[c]
    /\ \A c \in Cell : failed[c] \/ c \in stopped
    /\ MainGoes("run", "stoppoll")
    /\ stopPoll' = TRUE
    /\ UNCHANGED <<polled, poller, pend, reached, loopVars, cellVars, slots, stopped, reloadMu, reloads, revived, op, todo, victim>>

\* pollWG.Wait, then every step context is cancelled.
PollstersJoined ==
    /\ poller = "done"
    /\ MainGoes("stoppoll", "join")
    /\ Cancel(Cell)
    /\ UNCHANGED <<pollVars, loopVars, cell, failed, stepDone, slots, stopped, reloadMu, reloads, revived, op, todo, victim>>

\* stepWG.Wait.
StepsJoined ==
    /\ \A c \in Cell : loop[c] = "off"
    /\ MainGoes("join", "drain")
    /\ todo' = Cell
    /\ UNCHANGED <<eventVars, stopped, reloadMu, reloads, revived, op, victim>>

\* Faulty variant: one event per cell is finalized.
DrainedOnce(c) == Len(queue[c]) <= 1
Drained(c) == queue[c] = <<>>

MainDrains(c) ==
    /\ main = "drain"
    /\ c \in todo
    /\ \/ DrainOne(c) /\ UNCHANGED todo
       \/ Drained(c) /\ todo' = todo \ {c} /\ UNCHANGED eventVars
    /\ UNCHANGED <<stopped, reloadMu, reloads, revived, op, main, victim>>

MainDrained ==
    /\ todo = {}
    /\ MainGoes("drain", "shutdown")
    /\ todo' = Cell
    /\ UNCHANGED <<eventVars, stopped, reloadMu, reloads, revived, op, victim>>

\* The final loop passes over cells that are stopped or have no module,
MainPicks(c) ==
    /\ main = "shutdown"
    /\ c \in todo
    /\ todo' = todo \ {c}
    /\ IF c \in stopped \/ cell[c] = "nil"
       THEN UNCHANGED <<main, victim>>
       ELSE main' = "close" /\ victim' = {c}
    /\ UNCHANGED <<eventVars, stopped, reloadMu, reloads, revived, op>>

\* and shuts down and closes the others.
MainCloses ==
    /\ MainGoes("close", "shutdown")
    /\ victim' = {}
    /\ panicked' = \E c \in victim : cell[c] = "nil"
    /\ cell' = [c \in Cell |-> IF c \in victim THEN "closed" ELSE cell[c]]
    /\ UNCHANGED <<pollVars, queue, hand, loop, newest, restarts, traps, failed, cancelled, stepDone,
                   slots, stopped, reloadMu, reloads, revived, op, todo>>

\* Each capability is torn down, and the control server is told to stop.
TearDown ==
    /\ todo = {}
    /\ MainGoes("shutdown", "stopctl")
    /\ UNCHANGED <<eventVars, stopped, reloadMu, reloads, revived, op, todo, victim>>

\* stop waits for the connections that are being handled.
Exit ==
    /\ \A k \in Conn : At(k, "none")
    /\ MainGoes("stopctl", "exited")
    /\ UNCHANGED <<eventVars, stopped, reloadMu, reloads, revived, op, todo, victim>>

MainStep ==
    \/ PollstersJoined \/ StepsJoined
    \/ \E c \in Cell : MainDrains(c) \/ MainPicks(c)
    \/ MainDrained \/ MainCloses \/ TearDown \/ Exit

----------------------------------------------------------------------------

Alive == main # "exited" /\ ~panicked

Next ==
    /\ Alive
    /\ \/ PollStep /\ UNCHANGED hostVars
       \/ \E c \in Cell : LoopStep(c) /\ UNCHANGED hostVars
       \/ \E k \in Conn, c \in Cell : RequestShutdown(k, c) \/ RequestReload(k, c)
       \/ \E k \in Conn : RequestShutdownAll(k) \/ OpStep(k)
       \/ Signal
       \/ AllShutdown
       \/ MainStep

\* A goroutine that can go on does: the pollster with the event at hand and
\* the request to stop, the step loops, the control operations, the watchdog
\* of allShutdown and run.Main.  Nothing is assumed of the extension's events,
\* of requests and of signals.
Fairness ==
    /\ WF_vars(Alive /\ (PollsterStops \/ \E c \in Cell : DeliverTo(c)) /\ UNCHANGED hostVars)
    /\ \A c \in Cell : WF_vars(Alive /\ LoopStep(c) /\ UNCHANGED hostVars)
    /\ \A k \in Conn : WF_vars(Alive /\ OpStep(k))
    /\ WF_vars(Alive /\ (AllShutdown \/ MainStep))

Spec == Init /\ [][Next]_vars /\ Fairness

----------------------------------------------------------------------------
(* properties *)

TypeOK ==
    /\ EventsTypeOK
    /\ stopped \in SUBSET Cell
    /\ reloadMu \in SUBSET Conn
    /\ reloads \in 0..MaxReloads
    /\ revived \in SUBSET Cell
    /\ op \in [Conn -> [do : Do, at : OpAt, on : SUBSET Cell, left : SUBSET Cell]]
    /\ main \in Main
    /\ todo \in SUBSET Cell
    /\ victim \in SUBSET Cell

Queued(e) == {c \in Cell : e \in Range(queue[c])}
InHand(e) == {c \in Cell : hand[c] = e}
Undelivered(e) == {p \in {"pollster"} : pend # {} /\ polled = e /\ ~reached}

\* No extension slot is lost or freed twice: an event needs as
\* many calls of Finalize as it has owners (the pollster, channels, step loops),
\* through full channels, push-backs, traps, reloads, shutdowns and the exit.
SlotsAccounted ==
    \A e \in Event :
        slots[e] = Cardinality(Queued(e)) + Cardinality(InHand(e)) + Cardinality(Undelivered(e))

\* Events reach an event-only cell in the order they were polled, across
\* dropped events, restarts and reloads.
EventOnlyCellsInOrder ==
    \A c \in Cell \ Inbound : loop[c] = "step" => hand[c] > newest[c]

\* A reload that had begun before a shutdown marked the cell has brought it
\* up again: the shutdown's <-rt.stepDone is no longer for the loop that runs.
Overtaken(k) == op[k].do # "reload" /\ On(k) \in revived

\* A control operation touches the module only when no step loop drives it,
\* whatever two connections do to the same cell, unless the operation is a
\* shutdown that a reload has overtaken (reloadMu does not keep it out).
TeardownJoinsLoop ==
    \A k \in Conn :
        op[k].at \in {"down", "close", "load"} => loop[On(k)] = "off" \/ Overtaken(k)

\* What the comment on reloadCell says of two control connections
\* (run/ops.go:249-250): they do not tear the same cell down twice.
TearsDownOnce ==
    \A j, k \in Conn :
        /\ op[j].at \in {"down", "close"}
        /\ op[k].at \in {"down", "close"}
        /\ On(j) = On(k)
        => j = k

\* A host that exits with its step loops joined leaves no event behind that
\* was not finalized.
QuietExit ==
    main = "exited" /\ (\A c \in Cell : loop[c] = "off") => \A e \in Event : slots[e] = 0

\* A control operation that waits for a step loop is not left waiting: the
\* loop has returned, or it runs and was told to stop.  Two waits have no
\* answer: for the loop of a cell that failed while booting, which was never
\* launched, and for the new loop of a cell that a reload brought up again.
JoinIsAnswered ==
    \A k \in Conn :
        At(k, "join") =>
            \/ stepDone[On(k)]
            \/ loop[On(k)] # "off" /\ cancelled[On(k)]
            \/ On(k) \in FailedAtStart
            \/ Overtaken(k)

\* What the comment on allShutdown says (run/ops.go:161-165): shutdown_all
\* ends the host without a signal.  (A process that panicked has ended too.)
ShutdownAllExits == \A k \in Conn : op[k].do = "all" ~> ~Alive

============================================================================
