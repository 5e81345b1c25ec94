----------------------------- MODULE CellEvents -----------------------------
(***************************************************************************)
(* The events of the cells of one host (run/run.go): a pollster takes them *)
(* from an extension and delivers them to the bounded channels of cells    *)
(* (runPollster, deliver), and the step loop of each cell (stepLoop) feeds *)
(* them to its WASM module, restarts a module that trapped, and finalizes  *)
(* each event so that the extension can free its slot.                     *)
(*                                                                         *)
(* One extension is modelled, declared by every cell; its events are       *)
(* numbered in the order they are polled.                                  *)
(***************************************************************************)
EXTENDS Naturals, Sequences, FiniteSets, SequencesExt

CONSTANTS
    Cell,            \* the cells of the host
    Inbound,         \* the cells that declare transport.http.inbound
    Restarting,      \* the cells with restart = on_crash or always
    FailedAtStart,   \* the cells whose Load or Init failed while booting
    ChanSize,        \* eventChanSize
    RestartLimit,    \* restarts per window (5 in the code)
    MaxEvents,       \* bound: events polled
    MaxTraps         \* bound: steps of a live module that fail

\* There is a pollster because some cell declares the extension.
ASSUME CellAssumption ==
    /\ IsFiniteSet(Cell) /\ Cell # {}
    /\ Inbound \subseteq Cell
    /\ Restarting \subseteq Cell
    /\ FailedAtStart \subseteq Cell
ASSUME ChanSizeAssumption == ChanSize \in Nat \ {0}
ASSUME EventBoundsAssumption == RestartLimit \in Nat /\ MaxEvents \in Nat /\ MaxTraps \in Nat

Event == 1..MaxEvents
NoEvent == 0

VARIABLES
    polled,      \* events polled so far; the last one's number
    poller,      \* the pollster: run or done
    pend,        \* the cells the event at hand is still to be delivered to
    reached,     \* whether it has reached a cell already
    stopPoll,    \* whether the pollsters are told to stop
    queue,       \* rt.events
    hand,        \* the event a step loop received, or NoEvent
    loop,        \* where the step loop of a cell is
    newest,      \* the newest event an event-only cell was stepped with
    restarts,    \* stepLoop's restarts
    cell,        \* rt.cell: nil, open, dead (it trapped) or closed
    failed,      \* rt.failed
    cancelled,   \* whether rt.stepCtx is cancelled
    stepDone,    \* whether rt.stepDone is closed
    slots,       \* how many calls of Finalize an event still needs: one from
                 \* the pollster, or one from each cell that it reaches
    traps,       \* steps of a live module that failed so far
    panicked     \* a goroutine used a nil rt.cell: the process is dead

pollVars == <<polled, poller, pend, reached, stopPoll>>
loopVars == <<queue, hand, loop, newest, restarts, traps, panicked>>
cellVars == <<cell, failed, cancelled, stepDone>>
eventVars == <<pollVars, loopVars, cellVars, slots>>

\* off: no goroutine; select: at the head of the loop; step: from receiving an
\* event to finalizing it; idling: in the back-off select; pushback: holding an
\* event that woke it up there.  Step and the restart that may follow are one
\* step: whoever else uses the module joins the loop first.
Loop == {"off", "select", "step", "idling", "pushback"}

EventsInit ==
    /\ polled = 0
    /\ poller = "run"
    /\ pend = {}
    /\ reached = FALSE
    /\ stopPoll = FALSE
    /\ queue = [c \in Cell |-> <<>>]
    /\ hand = [c \in Cell |-> NoEvent]
    /\ loop = [c \in Cell |-> IF c \in FailedAtStart THEN "off" ELSE "select"]
    /\ newest = [c \in Cell |-> NoEvent]
    /\ restarts = [c \in Cell |-> 0]
    /\ cell \in [Cell -> {"nil", "open"}]     \* open: Load succeeded, Init failed
    /\ \A c \in Cell : cell[c] = "nil" => c \in FailedAtStart
    /\ failed = [c \in Cell |-> c \in FailedAtStart]
    /\ cancelled = [c \in Cell |-> FALSE]
    /\ stepDone = [c \in Cell |-> FALSE]
    /\ slots = [e \in Event |-> 0]
    /\ traps = 0
    /\ panicked = FALSE

Finalize(e) == slots' = [slots EXCEPT ![e] = @ - 1]

----------------------------------------------------------------------------
(* the pollster *)

\* An event for the cells ts: one cell, or every cell that declares the
\* extension (a broadcast).
Poll(ts) ==
    /\ poller = "run"
    /\ pend = {}
    /\ ~stopPoll
    /\ polled < MaxEvents
    /\ polled' = polled + 1
    /\ slots' = [slots EXCEPT ![polled'] = 1]
    /\ pend' = ts
    /\ UNCHANGED <<poller, reached, stopPoll, loopVars, cellVars>>

\* An event for a cell nobody knows is finalized at once.
PollUnknown ==
    /\ poller = "run"
    /\ pend = {}
    /\ ~stopPoll
    /\ polled < MaxEvents
    /\ polled' = polled + 1
    /\ UNCHANGED <<poller, pend, reached, stopPoll, loopVars, cellVars, slots>>

\* Finalize calls due when the event reaches one more cell.
Due == IF reached THEN slots[polled] + 1 ELSE slots[polled]

\* deliver: an event that does not fit into the channel is finalized.
Deliver(c) ==
    IF Len(queue[c]) < ChanSize
    THEN /\ queue' = [queue EXCEPT ![c] = Append(@, polled)]
         /\ slots' = [slots EXCEPT ![polled] = Due]
    ELSE /\ slots' = [slots EXCEPT ![polled] = Due - 1]
         /\ UNCHANGED queue

\* The next cell: a failed one is passed over, and an event that has reached
\* no cell at the end is finalized by the pollster.
DeliverTo(c) ==
    /\ c \in pend
    /\ pend' = pend \ {c}
    /\ reached' = (pend' # {} /\ (reached \/ ~failed[c]))
    /\ \/ ~failed[c] /\ Deliver(c)
       \/ failed[c] /\ (reached \/ pend' # {}) /\ UNCHANGED <<queue, slots>>
       \/ failed[c] /\ ~reached /\ pend' = {} /\ Finalize(polled) /\ UNCHANGED queue
    /\ UNCHANGED <<polled, poller, stopPoll, hand, loop, newest, restarts, traps, panicked, cellVars>>

PollsterStops ==
    /\ poller = "run"
    /\ pend = {}
    /\ stopPoll
    /\ poller' = "done"
    /\ UNCHANGED <<polled, pend, reached, stopPoll, loopVars, cellVars, slots>>

----------------------------------------------------------------------------
(* the step loop of a cell *)

Goto(c, at) == loop' = [loop EXCEPT ![c] = at]

\* Faulty variant: stepDone is not closed.
LoopReturnsSilently(c) ==
    /\ loop[c] \in {"select", "idling"}
    /\ cancelled[c]
    /\ Goto(c, "off")
    /\ restarts' = [restarts EXCEPT ![c] = 0]
    /\ UNCHANGED <<pollVars, queue, hand, newest, traps, panicked, cellVars, slots>>

\* The step context is cancelled: the loop returns without draining.
LoopReturns(c) ==
    /\ loop[c] \in {"select", "idling"}
    /\ cancelled[c]
    /\ Goto(c, "off")
    /\ stepDone' = [stepDone EXCEPT ![c] = TRUE]
    /\ restarts' = [restarts EXCEPT ![c] = 0]
    /\ UNCHANGED <<pollVars, queue, hand, newest, traps, panicked, cell, failed, cancelled, slots>>

Receive(c, at) ==
    /\ queue[c] # <<>>
    /\ hand' = [hand EXCEPT ![c] = Head(queue[c])]
    /\ queue' = [queue EXCEPT ![c] = Tail(@)]
    /\ Goto(c, at)

TakeEvent(c) ==
    /\ loop[c] = "select"
    /\ Receive(c, "step")
    /\ UNCHANGED <<pollVars, newest, restarts, traps, panicked, cellVars, slots>>

\* The event at hand is finalized and the loop starts over.
EndEvent(c) ==
    /\ Finalize(hand[c])
    /\ hand' = [hand EXCEPT ![c] = NoEvent]
    /\ Goto(c, "select")

\* Step fails on a module that trapped or is closed.  On a live one it may
\* trap, or refuse an envelope that is too large.
StepError(c) ==
    /\ \/ cell[c] = "open" /\ traps < MaxTraps /\ traps' = traps + 1
       \/ cell[c] # "open" /\ UNCHANGED traps
    /\ panicked' = (cell[c] = "nil")

\* What a failed step leaves behind.
Left(c) == {cell} \cup (IF cell[c] = "open" THEN {[cell EXCEPT ![c] = "dead"]} ELSE {})

\* superviseTrap: nothing is restarted during a teardown or without the
\* policy, and only RestartLimit times in a window (r = 0: a new one begins).
\* reinstantiateCell may fail.
SuperviseTrap(c) ==
    LET mayRestart == ~cancelled[c] /\ c \in Restarting
    IN  \/ /\ ~mayRestart \/ restarts[c] >= RestartLimit
           /\ cell' \in Left(c)
           /\ UNCHANGED restarts
        \/ /\ mayRestart
           /\ \E r \in {restarts[c], 0} :
                 r < RestartLimit /\ restarts' = [restarts EXCEPT ![c] = r + 1]
           /\ cell' \in Left(c) \cup {[cell EXCEPT ![c] = "open"]}

Stepped(c) == newest' = IF c \in Inbound THEN newest ELSE [newest EXCEPT ![c] = hand[c]]

\* The event cannot be encoded, and no step is made.
EncodeFails(c) ==
    /\ loop[c] = "step"
    /\ EndEvent(c)
    /\ UNCHANGED <<pollVars, queue, newest, restarts, traps, panicked, cellVars>>

StepReturns(c) ==
    /\ loop[c] = "step"
    /\ cell[c] = "open"
    /\ Stepped(c)
    /\ EndEvent(c)
    /\ UNCHANGED <<pollVars, queue, restarts, traps, panicked, cellVars>>

\* Faulty variant: the event of a step that failed is not finalized.
StepFailsKept(c) ==
    /\ loop[c] = "step"
    /\ StepError(c)
    /\ SuperviseTrap(c)
    /\ Stepped(c)
    /\ hand' = [hand EXCEPT ![c] = NoEvent]
    /\ Goto(c, "select")
    /\ UNCHANGED <<pollVars, queue, failed, cancelled, stepDone, slots>>

\* The event is finalized after the restart.
StepFails(c) ==
    /\ loop[c] = "step"
    /\ StepError(c)
    /\ SuperviseTrap(c)
    /\ Stepped(c)
    /\ EndEvent(c)
    /\ UNCHANGED <<pollVars, queue, failed, cancelled, stepDone>>

\* Faulty variant: every cell is stepped without an event, and idles.
MayTickAll(c) ==
    /\ loop[c] = "select"
    /\ queue[c] = <<>>
    /\ ~cancelled[c]

\* A cell that schedules itself is stepped without an event when none waits.
MayTick(c) ==
    /\ loop[c] = "select"
    /\ c \in Inbound
    /\ queue[c] = <<>>
    /\ ~cancelled[c]

Tick(c) ==
    /\ MayTick(c)
    /\ cell[c] = "open"
    /\ Goto(c, "idling")
    /\ UNCHANGED <<pollVars, queue, hand, newest, restarts, traps, panicked, cellVars, slots>>

TickFails(c) ==
    /\ MayTick(c)
    /\ StepError(c)
    /\ SuperviseTrap(c)
    /\ Goto(c, "idling")
    /\ UNCHANGED <<pollVars, queue, hand, newest, failed, cancelled, stepDone, slots>>

\* The back-off ends with the timer, or an event arrives and is put back.
IdleTimer(c) ==
    /\ loop[c] = "idling"
    /\ Goto(c, "select")
    /\ UNCHANGED <<pollVars, queue, hand, newest, restarts, traps, panicked, cellVars, slots>>

IdleWakes(c) ==
    /\ loop[c] = "idling"
    /\ Receive(c, "pushback")
    /\ UNCHANGED <<pollVars, newest, restarts, traps, panicked, cellVars, slots>>

PushBack(c) ==
    /\ loop[c] = "pushback"
    /\ \/ /\ Len(queue[c]) < ChanSize
          /\ queue' = [queue EXCEPT ![c] = Append(@, hand[c])]
          /\ hand' = [hand EXCEPT ![c] = NoEvent]
          /\ Goto(c, "select")
          /\ UNCHANGED slots
       \/ /\ Len(queue[c]) = ChanSize
          /\ EndEvent(c)
          /\ UNCHANGED queue
    /\ UNCHANGED <<pollVars, newest, restarts, traps, panicked, cellVars>>

LoopStep(c) ==
    \/ LoopReturns(c) \/ TakeEvent(c) \/ EncodeFails(c) \/ StepReturns(c) \/ StepFails(c)
    \/ Tick(c) \/ TickFails(c) \/ IdleTimer(c) \/ IdleWakes(c) \/ PushBack(c)

PollStep ==
    \/ \E ts \in {{c} : c \in Cell} \cup {Cell} : Poll(ts)
    \/ PollUnknown
    \/ \E c \in Cell : DeliverTo(c)
    \/ PollsterStops

EventsTypeOK ==
    /\ polled \in 0..MaxEvents
    /\ poller \in {"run", "done"}
    /\ pend \in SUBSET Cell
    /\ reached \in BOOLEAN
    /\ stopPoll \in BOOLEAN
    /\ queue \in [Cell -> SeqOf(Event, ChanSize)]
    /\ hand \in [Cell -> Event \cup {NoEvent}]
    /\ loop \in [Cell -> Loop]
    /\ newest \in [Cell -> Event \cup {NoEvent}]
    /\ restarts \in [Cell -> 0..RestartLimit]
    /\ cell \in [Cell -> {"nil", "open", "dead", "closed"}]
    /\ failed \in [Cell -> BOOLEAN]
    /\ cancelled \in [Cell -> BOOLEAN]
    /\ stepDone \in [Cell -> BOOLEAN]
    /\ slots \in [Event -> Nat]
    /\ traps \in 0..MaxTraps
    /\ panicked \in BOOLEAN

============================================================================
