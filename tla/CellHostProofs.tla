--------------------------- MODULE CellHostProofs ---------------------------
(***************************************************************************)
(* Proofs about the events of a host and the control of its cells, for any *)
(* number of cells, events, connections and restarts.                      *)
(*                                                                         *)
(* The slots of an event are accounted for because no cell ever owns it    *)
(* twice (Once), because what a loop holds follows from where it is        *)
(* (Owned), and because the pollster never offers a cell an event that it  *)
(* has already got (Past).  That a reload never starts a second loop over  *)
(* a running one needs the mutex (Reloading).                              *)
(***************************************************************************)
EXTENDS CellHost, FiniteSetTheorems, SequenceTheorems, TLAPS

Distinct(s) == \A i, j \in 1..Len(s) : s[i] = s[j] => i = j
Ascending(s) == \A i, j \in 1..Len(s) : i < j => s[i] < s[j]

\* A loop holds an event exactly where it works on one.
Owned == \A c \in Cell : hand[c] # NoEvent <=> loop[c] \in {"step", "pushback"}

\* No cell has an event twice.
Once == \A c \in Cell : Distinct(queue[c]) /\ hand[c] \notin Range(queue[c])

\* What the cells have was polled, and is older than what is still to come.
Past ==
    /\ pend # {} => polled > 0 /\ poller = "run"
    /\ pend = {} => ~reached
    /\ \A c \in Cell : \A e \in Range(queue[c]) \cup {hand[c]} :
          e <= polled /\ (c \in pend => e < polled)

\* An event-only cell never idles, and has its events in order.
InOrder(c) ==
    /\ loop[c] \in {"off", "select", "step"}
    /\ Ascending(queue[c])
    /\ newest[c] <= polled /\ (c \in pend => newest[c] < polled)
    /\ \A e \in Range(queue[c]) : newest[c] < e /\ hand[c] < e
    /\ loop[c] = "step" => newest[c] < hand[c]
Sorted == \A c \in Cell \ Inbound : InOrder(c)

\* A connection works on one cell; a reload holds the mutex, and from the
\* join on the loop of its cell has returned.
Working == {"mark", "join", "down", "close", "drain", "load"}
Reloading ==
    /\ \A c \in Cell : stepDone[c] => loop[c] = "off"
    /\ \A k \in Conn :
          /\ op[k].at \in Working => \E c \in Cell : op[k].on = {c}
          /\ op[k].at = "none" => op[k].do = "none"
          /\ op[k].at = "load" => op[k].do = "reload"
          /\ op[k].do = "reload" => op[k].at \in {"join", "down", "close", "drain", "load"}
                /\ reloadMu = {k}
          /\ op[k].do = "reload" /\ op[k].at # "join" => stepDone[On(k)]

\* Once the step loops were joined nothing is queued any more, and a loop that
\* a late reload started puts nothing back.
Ending == {"drain", "shutdown", "close", "stopctl", "exited"}
Emptied ==
    /\ main = "join" => poller = "done"
    /\ main \in Ending =>
          /\ poller = "done"
          /\ \A c \in Cell : loop[c] # "pushback" /\ (loop[c] = "idling" => queue[c] = <<>>)
    /\ main = "drain" => \A c \in Cell \ todo : queue[c] = <<>>
    /\ main \in Ending \ {"drain"} => \A c \in Cell : queue[c] = <<>>

IInv == TypeOK /\ Owned /\ Once /\ Past /\ Sorted /\ Reloading /\ Emptied /\ SlotsAccounted

\* While a connection waits for a loop or works on its module, nobody starts
\* that loop but a reload that overtakes a shutdown, whose cell is stopped.
Joined ==
    \A k \in Conn :
        /\ op[k].at \in {"down", "close", "drain", "load"} => stepDone[On(k)] \/ Overtaken(k)
        /\ op[k].at = "join" => cancelled[On(k)] \/ stepDone[On(k)] \/ Overtaken(k)
        /\ op[k].at \in {"join", "down", "close", "drain"} /\ op[k].do # "reload" =>
              On(k) \in stopped

\* A loop that is off has closed its channel, or was never launched.
LoopsReturn == \A c \in Cell : loop[c] = "off" => stepDone[c] \/ c \in FailedAtStart

----------------------------------------------------------------------------
(* sequences *)

\* A channel is a sequence of events no longer than its buffer.
LEMMA ChannelIsSeq ==
    ASSUME NEW S, NEW n \in Nat, NEW q
    PROVE  q \in SeqOf(S, n) <=> q \in Seq(S) /\ Len(q) <= n
<1>1. ASSUME q \in SeqOf(S, n) PROVE q \in Seq(S) /\ Len(q) <= n
  <2>1. PICK m \in 0..n : q \in [1..m -> S]
    BY <1>1 DEF SeqOf
  <2>2. q \in Seq(S) /\ Len(q) = m
    BY <2>1
  <2> QED
    BY <2>1, <2>2
<1>2. ASSUME q \in Seq(S), Len(q) <= n PROVE q \in SeqOf(S, n)
  <2>1. q \in [1..Len(q) -> S] /\ Len(q) \in 0..n
    BY <1>2, LenProperties
  <2> QED
    BY <2>1 DEF SeqOf
<1> QED
  BY <1>1, <1>2

\* What receiving the first event leaves in a channel.
LEMMA Received ==
    ASSUME NEW S, NEW s \in Seq(S), s # <<>>
    PROVE  /\ Head(s) \in S /\ Tail(s) \in Seq(S) /\ Len(Tail(s)) = Len(s) - 1
           /\ Range(s) = Range(Tail(s)) \cup {Head(s)}
           /\ Distinct(s) => Distinct(Tail(s)) /\ Head(s) \notin Range(Tail(s))
<1>1. /\ Len(s) \in Nat /\ Len(s) # 0 /\ DOMAIN s = 1..Len(s)
      /\ Head(s) = s[1] /\ s[1] \in S
      /\ Tail(s) \in Seq(S) /\ Len(Tail(s)) = Len(s) - 1 /\ DOMAIN Tail(s) = 1..(Len(s) - 1)
      /\ \A i \in 1..(Len(s) - 1) : Tail(s)[i] = s[i + 1]
  OBVIOUS
<1>2. Range(s) = Range(Tail(s)) \cup {Head(s)}
  <2>1. ASSUME NEW i \in 1..Len(s) PROVE s[i] \in Range(Tail(s)) \cup {Head(s)}
    <3>1. CASE i = 1
      BY <3>1, <1>1
    <3>2. CASE i # 1
      <4>1. i - 1 \in 1..(Len(s) - 1) /\ s[i] = Tail(s)[i - 1]
        BY <3>2, <1>1
      <4> QED
        BY <4>1, <1>1 DEF Range
    <3> QED
      BY <3>1, <3>2
  <2>2. ASSUME NEW i \in 1..(Len(s) - 1) PROVE Tail(s)[i] \in Range(s)
    <3>1. i + 1 \in 1..Len(s)
      BY <1>1
    <3> QED
      BY <3>1, <1>1 DEF Range
  <2>3. Head(s) \in Range(s)
    BY <1>1 DEF Range
  <2> QED
    BY <2>1, <2>2, <2>3, <1>1 DEF Range
<1>3. ASSUME Distinct(s) PROVE Distinct(Tail(s)) /\ Head(s) \notin Range(Tail(s))
  <2>1. ASSUME NEW i \in 1..(Len(s) - 1), NEW j \in 1..(Len(s) - 1), Tail(s)[i] = Tail(s)[j]
        PROVE  i = j
    <3>1. i + 1 \in 1..Len(s) /\ j + 1 \in 1..Len(s) /\ s[i + 1] = s[j + 1]
      BY <2>1, <1>1
    <3>2. i + 1 = j + 1
      BY <3>1, <1>3 DEF Distinct
    <3> QED
      BY <3>2
  <2>2. ASSUME NEW i \in 1..(Len(s) - 1) PROVE Tail(s)[i] # Head(s)
    <3>1. i + 1 \in 1..Len(s) /\ 1 \in 1..Len(s) /\ i + 1 # 1 /\ Tail(s)[i] = s[i + 1]
      BY <1>1
    <3>2. s[i + 1] # s[1]
      BY <3>1, <1>3 DEF Distinct
    <3> QED
      BY <3>1, <3>2, <1>1
  <2> QED
    BY <2>1, <2>2, <1>1 DEF Distinct, Range
<1> QED
  BY <1>1, <1>2, <1>3

\* Receiving keeps the order of a channel.
LEMMA ReceivedInOrder ==
    ASSUME NEW S, NEW s \in Seq(S), s # <<>>, Ascending(s)
    PROVE  Ascending(Tail(s)) /\ \A e \in Range(Tail(s)) : Head(s) < e
<1>1. /\ Len(s) \in Nat /\ Len(s) # 0
      /\ Head(s) = s[1]
      /\ Len(Tail(s)) = Len(s) - 1 /\ DOMAIN Tail(s) = 1..(Len(s) - 1)
      /\ \A i \in 1..(Len(s) - 1) : Tail(s)[i] = s[i + 1]
  OBVIOUS
<1>2. Ascending(Tail(s))
  <2>1. ASSUME NEW i \in 1..(Len(s) - 1), NEW j \in 1..(Len(s) - 1), i < j
        PROVE  Tail(s)[i] < Tail(s)[j]
    <3>1. i + 1 \in 1..Len(s) /\ j + 1 \in 1..Len(s) /\ i + 1 < j + 1
      BY <2>1, <1>1
    <3>2. s[i + 1] < s[j + 1]
      BY <3>1 DEF Ascending
    <3> QED
      BY <3>2, <1>1
  <2> QED
    BY <2>1, <1>1 DEF Ascending
<1>3. ASSUME NEW i \in 1..(Len(s) - 1) PROVE Head(s) < Tail(s)[i]
  <2>1. 1 \in 1..Len(s) /\ i + 1 \in 1..Len(s) /\ 1 < i + 1
    BY <1>1
  <2>2. s[1] < s[i + 1]
    BY <2>1 DEF Ascending
  <2> QED
    BY <2>2, <1>1
<1> QED
  BY <1>1, <1>2, <1>3 DEF Range

\* What sending an event makes of a channel.
LEMMA Sent ==
    ASSUME NEW S, NEW s \in Seq(S), NEW e \in S
    PROVE  /\ Append(s, e) \in Seq(S) /\ Len(Append(s, e)) = Len(s) + 1
           /\ Range(Append(s, e)) = Range(s) \cup {e}
           /\ Distinct(s) /\ e \notin Range(s) => Distinct(Append(s, e))
<1>1. /\ Len(s) \in Nat /\ DOMAIN s = 1..Len(s)
      /\ Append(s, e) \in Seq(S) /\ Len(Append(s, e)) = Len(s) + 1
      /\ DOMAIN Append(s, e) = 1..(Len(s) + 1)
      /\ \A i \in 1..Len(s) : Append(s, e)[i] = s[i]
      /\ Append(s, e)[Len(s) + 1] = e
  OBVIOUS
<1>2. 1..(Len(s) + 1) = 1..Len(s) \cup {Len(s) + 1}
  BY <1>1
<1>3. Range(Append(s, e)) = Range(s) \cup {e}
  BY <1>1, <1>2 DEF Range
<1>4. ASSUME Distinct(s), e \notin Range(s) PROVE Distinct(Append(s, e))
  <2>1. \A i \in 1..Len(s) : s[i] # e
    BY <1>4, <1>1 DEF Range
  <2>2. ASSUME NEW i \in 1..(Len(s) + 1), NEW j \in 1..(Len(s) + 1), Append(s, e)[i] = Append(s, e)[j]
        PROVE  i = j
    BY <2>1, <2>2, <1>1, <1>2, <1>4 DEF Distinct
  <2> QED
    BY <2>2, <1>1 DEF Distinct
<1> QED
  BY <1>1, <1>3, <1>4

\* Sending what is newer than everything sent keeps the order.
LEMMA SentInOrder ==
    ASSUME NEW S, NEW s \in Seq(S), NEW e \in S, Ascending(s), \A x \in Range(s) : x < e
    PROVE  Ascending(Append(s, e))
<1>1. /\ Len(s) \in Nat /\ DOMAIN s = 1..Len(s)
      /\ Len(Append(s, e)) = Len(s) + 1
      /\ \A i \in 1..Len(s) : Append(s, e)[i] = s[i]
      /\ Append(s, e)[Len(s) + 1] = e
  OBVIOUS
<1>2. \A i \in 1..Len(s) : s[i] < e
  BY <1>1 DEF Range
<1>3. ASSUME NEW i \in 1..(Len(s) + 1), NEW j \in 1..(Len(s) + 1), i < j
      PROVE  Append(s, e)[i] < Append(s, e)[j]
  <2>1. i \in 1..Len(s) /\ (j \in 1..Len(s) \/ j = Len(s) + 1)
    BY <1>3, <1>1
  <2> QED
    BY <2>1, <1>1, <1>2, <1>3 DEF Ascending
<1> QED
  BY <1>1, <1>3 DEF Ascending

----------------------------------------------------------------------------
(* types *)

\* The parts of TypeOK.
HostTypeOK ==
    /\ stopped \in SUBSET Cell /\ reloadMu \in SUBSET Conn /\ reloads \in 0..MaxReloads
    /\ revived \in SUBSET Cell
    /\ main \in Main /\ todo \in SUBSET Cell /\ victim \in SUBSET Cell
OpTypeOK == op \in [Conn -> [do : Do, at : OpAt, on : SUBSET Cell, left : SUBSET Cell]]
LoopTypeOK ==
    /\ polled \in 0..MaxEvents /\ poller \in {"run", "done"} /\ pend \in SUBSET Cell
    /\ loop \in [Cell -> Loop] /\ newest \in [Cell -> Event \cup {NoEvent}]
    /\ restarts \in [Cell -> 0..RestartLimit]
    /\ cell \in [Cell -> {"nil", "open", "dead", "closed"}] /\ traps \in 0..MaxTraps
FlagTypeOK ==
    /\ reached \in BOOLEAN /\ stopPoll \in BOOLEAN /\ failed \in [Cell -> BOOLEAN]
    /\ cancelled \in [Cell -> BOOLEAN] /\ stepDone \in [Cell -> BOOLEAN] /\ panicked \in BOOLEAN
ChannelTypeOK ==
    /\ queue \in [Cell -> SeqOf(Event, ChanSize)]
    /\ hand \in [Cell -> Event \cup {NoEvent}]

\* The channels, as sequences.
LEMMA Channels ==
    ASSUME EventsTypeOK
    PROVE  queue \in [Cell -> Seq(Event)] /\ \A c \in Cell : Len(queue[c]) <= ChanSize
BY ChannelIsSeq, ChanSizeAssumption DEF EventsTypeOK

\* A connection at work is on one cell.
LEMMA OnCell ==
    ASSUME Reloading, NEW k \in Conn, op[k].at \in Working
    PROVE  On(k) \in Cell /\ op[k].on = {On(k)}
<1>1. PICK c \in Cell : op[k].on = {c}
  BY DEF Reloading
<1>2. On(k) = c
  BY <1>1 DEF On
<1> QED
  BY <1>1, <1>2

\* The state of the control operations and of run.Main.
LEMMA HostTypes == IInv /\ [Next]_vars => HostTypeOK'
<1> SUFFICES ASSUME IInv, [Next]_vars PROVE HostTypeOK'
  OBVIOUS
<1> USE MaxReloadsAssumption
<1> USE DEF HostTypeOK, IInv, TypeOK, Main, At, eventVars, pollVars, loopVars, cellVars, hostVars,
    mainVars
<1>1. ASSUME NEW ts \in {{c} : c \in Cell} \cup {Cell}, Poll(ts)
      /\ UNCHANGED hostVars PROVE HostTypeOK'
  BY <1>1 DEF Poll
<1>2. CASE PollUnknown /\ UNCHANGED hostVars
  BY <1>2 DEF PollUnknown
<1>3. ASSUME NEW c \in Cell, DeliverTo(c) /\ UNCHANGED hostVars PROVE HostTypeOK'
  BY <1>3 DEF DeliverTo, Deliver, Due, Finalize
<1>4. CASE PollsterStops /\ UNCHANGED hostVars
  BY <1>4 DEF PollsterStops
<1>5. ASSUME NEW c \in Cell, LoopReturns(c) /\ UNCHANGED hostVars PROVE HostTypeOK'
  BY <1>5 DEF LoopReturns, Goto
<1>6. ASSUME NEW c \in Cell, TakeEvent(c) /\ UNCHANGED hostVars PROVE HostTypeOK'
  BY <1>6 DEF TakeEvent, Receive, Goto
<1>7. ASSUME NEW c \in Cell, EncodeFails(c) /\ UNCHANGED hostVars PROVE HostTypeOK'
  BY <1>7 DEF EncodeFails, EndEvent, Finalize, Goto
<1>8. ASSUME NEW c \in Cell, StepReturns(c) /\ UNCHANGED hostVars PROVE HostTypeOK'
  BY <1>8 DEF StepReturns, Stepped, EndEvent, Finalize, Goto
<1>9. ASSUME NEW c \in Cell, StepFails(c) /\ UNCHANGED hostVars PROVE HostTypeOK'
  BY <1>9 DEF StepFails, StepError, SuperviseTrap, Left, Stepped, EndEvent, Finalize, Goto
<1>10. ASSUME NEW c \in Cell, Tick(c) /\ UNCHANGED hostVars PROVE HostTypeOK'
  BY <1>10 DEF Tick, MayTick, Goto
<1>11. ASSUME NEW c \in Cell, TickFails(c) /\ UNCHANGED hostVars PROVE HostTypeOK'
  BY <1>11 DEF TickFails, MayTick, StepError, SuperviseTrap, Left, Goto
<1>12. ASSUME NEW c \in Cell, IdleTimer(c) /\ UNCHANGED hostVars PROVE HostTypeOK'
  BY <1>12 DEF IdleTimer, Goto
<1>13. ASSUME NEW c \in Cell, IdleWakes(c) /\ UNCHANGED hostVars PROVE HostTypeOK'
  BY <1>13 DEF IdleWakes, Receive, Goto
<1>14. ASSUME NEW c \in Cell, PushBack(c) /\ UNCHANGED hostVars PROVE HostTypeOK'
  BY <1>14 DEF PushBack, EndEvent, Finalize, Goto
<1>15. ASSUME NEW k \in Conn, NEW c \in Cell, RequestShutdown(k, c) PROVE HostTypeOK'
  BY <1>15 DEF RequestShutdown, Request, Cancel
<1>16. ASSUME NEW k \in Conn, NEW c \in Cell, RequestReload(k, c) PROVE HostTypeOK'
  BY <1>16 DEF RequestReload, Request, Cancel
<1>17. ASSUME NEW k \in Conn, RequestShutdownAll(k) PROVE HostTypeOK'
  BY <1>17 DEF RequestShutdownAll, Request
<1>18. ASSUME NEW k \in Conn, NextCell(k) PROVE HostTypeOK'
  BY <1>18 DEF NextCell
<1>19. ASSUME NEW k \in Conn, Mark(k) PROVE HostTypeOK'
  <2>1. On(k) \in Cell /\ op[k].on = {On(k)}
    BY <1>19, OnCell DEF Mark, At, Working, IInv
  <2> QED
    BY <1>19, <2>1 DEF Mark, Return, Go, Cancel
<1>20. ASSUME NEW k \in Conn, Join(k) PROVE HostTypeOK'
  BY <1>20 DEF Join, Go
<1>21. ASSUME NEW k \in Conn, ShutDown(k) PROVE HostTypeOK'
  BY <1>21 DEF ShutDown, Go
<1>22. ASSUME NEW k \in Conn, CloseCell(k) PROVE HostTypeOK'
  BY <1>22 DEF CloseCell, Go
<1>23. ASSUME NEW k \in Conn, Drain(k) PROVE HostTypeOK'
  BY <1>23 DEF Drain, DrainOne, Finalize
<1>24. ASSUME NEW k \in Conn, ShutdownDone(k) PROVE HostTypeOK'
  BY <1>24 DEF ShutdownDone, Return
<1>25. ASSUME NEW k \in Conn, Refresh(k) PROVE HostTypeOK'
  BY <1>25 DEF Refresh, Go
<1>26. ASSUME NEW k \in Conn, LoadOk(k) PROVE HostTypeOK'
  BY <1>26 DEF LoadOk, Return
<1>27. ASSUME NEW k \in Conn, LoadError(k) PROVE HostTypeOK'
  BY <1>27 DEF LoadError, Return
<1>28. CASE Signal
  BY <1>28 DEF Signal, MainGoes
<1>29. CASE AllShutdown
  BY <1>29 DEF AllShutdown, MainGoes
<1>30. CASE PollstersJoined
  BY <1>30 DEF PollstersJoined, MainGoes, Cancel
<1>31. CASE StepsJoined
  BY <1>31 DEF StepsJoined, MainGoes
<1>32. ASSUME NEW c \in Cell, MainDrains(c) PROVE HostTypeOK'
  BY <1>32 DEF MainDrains, DrainOne, Finalize, Drained
<1>33. CASE MainDrained
  BY <1>33 DEF MainDrained, MainGoes
<1>34. ASSUME NEW c \in Cell, MainPicks(c) PROVE HostTypeOK'
  BY <1>34 DEF MainPicks
<1>35. CASE MainCloses
  BY <1>35 DEF MainCloses, MainGoes
<1>36. CASE TearDown
  BY <1>36 DEF TearDown, MainGoes
<1>37. CASE Exit
  BY <1>37 DEF Exit, MainGoes
<1>38. CASE UNCHANGED vars
  BY <1>38 DEF vars
<1> QED
  BY <1>1, <1>2, <1>3, <1>4, <1>5, <1>6, <1>7, <1>8, <1>9, <1>10, <1>11, <1>12, <1>13, <1>14,
     <1>15, <1>16, <1>17, <1>18, <1>19, <1>20, <1>21, <1>22, <1>23, <1>24, <1>25, <1>26, <1>27,
     <1>28, <1>29, <1>30, <1>31, <1>32, <1>33, <1>34, <1>35, <1>36, <1>37, <1>38 DEF Next,
     PollStep, LoopStep, OpStep, MainStep

\* An operation that ends leaves a record of its type.
LEMMA ReturnTypes ==
    ASSUME OpTypeOK, NEW k \in Conn, Return(k)
    PROVE  OpTypeOK'
<1> DEFINE Op == [do : Do, at : OpAt, on : SUBSET Cell, left : SUBSET Cell]
<1>1. PICK o \in Op : o = op[k]
  BY DEF OpTypeOK
<1>2. PICK p : p = IF o.do = "all" THEN [o EXCEPT !.at = "next", !.on = {}] ELSE NoOp
  OBVIOUS
<1>3. p \in Op
  <2>1. NoOp \in Op
    BY DEF NoOp, Do, OpAt
  <2>2. [o EXCEPT !.at = "next", !.on = {}] \in Op
    BY DEF Do, OpAt
  <2> QED
    BY <1>2, <2>1, <2>2
<1>4. op' = [op EXCEPT ![k] = p]
  BY <1>1, <1>2 DEF Return
<1> QED
  BY <1>3, <1>4 DEF OpTypeOK

\* What a connection does.
LEMMA OpTypes == IInv /\ [Next]_vars => OpTypeOK'
<1> SUFFICES ASSUME IInv, [Next]_vars PROVE OpTypeOK'
  OBVIOUS
<1> USE DEF OpTypeOK, IInv, TypeOK, Do, OpAt, NoOp, At, eventVars, pollVars, loopVars, cellVars,
    hostVars, mainVars
<1>1. ASSUME NEW ts \in {{c} : c \in Cell} \cup {Cell}, Poll(ts)
      /\ UNCHANGED hostVars PROVE OpTypeOK'
  BY <1>1 DEF Poll
<1>2. CASE PollUnknown /\ UNCHANGED hostVars
  BY <1>2 DEF PollUnknown
<1>3. ASSUME NEW c \in Cell, DeliverTo(c) /\ UNCHANGED hostVars PROVE OpTypeOK'
  BY <1>3 DEF DeliverTo, Deliver, Due, Finalize
<1>4. CASE PollsterStops /\ UNCHANGED hostVars
  BY <1>4 DEF PollsterStops
<1>5. ASSUME NEW c \in Cell, LoopReturns(c) /\ UNCHANGED hostVars PROVE OpTypeOK'
  BY <1>5 DEF LoopReturns, Goto
<1>6. ASSUME NEW c \in Cell, TakeEvent(c) /\ UNCHANGED hostVars PROVE OpTypeOK'
  BY <1>6 DEF TakeEvent, Receive, Goto
<1>7. ASSUME NEW c \in Cell, EncodeFails(c) /\ UNCHANGED hostVars PROVE OpTypeOK'
  BY <1>7 DEF EncodeFails, EndEvent, Finalize, Goto
<1>8. ASSUME NEW c \in Cell, StepReturns(c) /\ UNCHANGED hostVars PROVE OpTypeOK'
  BY <1>8 DEF StepReturns, Stepped, EndEvent, Finalize, Goto
<1>9. ASSUME NEW c \in Cell, StepFails(c) /\ UNCHANGED hostVars PROVE OpTypeOK'
  BY <1>9 DEF StepFails, StepError, SuperviseTrap, Left, Stepped, EndEvent, Finalize, Goto
<1>10. ASSUME NEW c \in Cell, Tick(c) /\ UNCHANGED hostVars PROVE OpTypeOK'
  BY <1>10 DEF Tick, MayTick, Goto
<1>11. ASSUME NEW c \in Cell, TickFails(c) /\ UNCHANGED hostVars PROVE OpTypeOK'
  BY <1>11 DEF TickFails, MayTick, StepError, SuperviseTrap, Left, Goto
<1>12. ASSUME NEW c \in Cell, IdleTimer(c) /\ UNCHANGED hostVars PROVE OpTypeOK'
  BY <1>12 DEF IdleTimer, Goto
<1>13. ASSUME NEW c \in Cell, IdleWakes(c) /\ UNCHANGED hostVars PROVE OpTypeOK'
  BY <1>13 DEF IdleWakes, Receive, Goto
<1>14. ASSUME NEW c \in Cell, PushBack(c) /\ UNCHANGED hostVars PROVE OpTypeOK'
  BY <1>14 DEF PushBack, EndEvent, Finalize, Goto
<1>15. ASSUME NEW k \in Conn, NEW c \in Cell, RequestShutdown(k, c) PROVE OpTypeOK'
  BY <1>15 DEF RequestShutdown, Request, Cancel
<1>16. ASSUME NEW k \in Conn, NEW c \in Cell, RequestReload(k, c) PROVE OpTypeOK'
  BY <1>16 DEF RequestReload, Request, Cancel
<1>17. ASSUME NEW k \in Conn, RequestShutdownAll(k) PROVE OpTypeOK'
  BY <1>17 DEF RequestShutdownAll, Request
<1>18. ASSUME NEW k \in Conn, NextCell(k) PROVE OpTypeOK'
  BY <1>18 DEF NextCell
<1>19. ASSUME NEW k \in Conn, Mark(k) PROVE OpTypeOK'
  <2>1. On(k) \in Cell /\ op[k].on = {On(k)}
    BY <1>19, OnCell DEF Mark, At, Working, IInv
  <2>2. CASE On(k) \in stopped
    <3>1. Return(k)
      BY <1>19, <2>2 DEF Mark
    <3> QED
      BY <3>1, ReturnTypes
  <2>3. CASE On(k) \notin stopped
    BY <1>19, <2>3 DEF Mark, Go
  <2> QED
    BY <2>2, <2>3
<1>20. ASSUME NEW k \in Conn, Join(k) PROVE OpTypeOK'
  BY <1>20 DEF Join, Go
<1>21. ASSUME NEW k \in Conn, ShutDown(k) PROVE OpTypeOK'
  BY <1>21 DEF ShutDown, Go
<1>22. ASSUME NEW k \in Conn, CloseCell(k) PROVE OpTypeOK'
  BY <1>22 DEF CloseCell, Go
<1>23. ASSUME NEW k \in Conn, Drain(k) PROVE OpTypeOK'
  BY <1>23 DEF Drain, DrainOne, Finalize
<1>24. ASSUME NEW k \in Conn, ShutdownDone(k) PROVE OpTypeOK'
  BY <1>24, ReturnTypes DEF ShutdownDone
<1>25. ASSUME NEW k \in Conn, Refresh(k) PROVE OpTypeOK'
  BY <1>25 DEF Refresh, Go
<1>26. ASSUME NEW k \in Conn, LoadOk(k) PROVE OpTypeOK'
  BY <1>26, ReturnTypes DEF LoadOk
<1>27. ASSUME NEW k \in Conn, LoadError(k) PROVE OpTypeOK'
  BY <1>27, ReturnTypes DEF LoadError
<1>28. CASE Signal
  BY <1>28 DEF Signal, MainGoes
<1>29. CASE AllShutdown
  BY <1>29 DEF AllShutdown, MainGoes
<1>30. CASE PollstersJoined
  BY <1>30 DEF PollstersJoined, MainGoes, Cancel
<1>31. CASE StepsJoined
  BY <1>31 DEF StepsJoined, MainGoes
<1>32. ASSUME NEW c \in Cell, MainDrains(c) PROVE OpTypeOK'
  BY <1>32 DEF MainDrains, DrainOne, Finalize, Drained
<1>33. CASE MainDrained
  BY <1>33 DEF MainDrained, MainGoes
<1>34. ASSUME NEW c \in Cell, MainPicks(c) PROVE OpTypeOK'
  BY <1>34 DEF MainPicks
<1>35. CASE MainCloses
  BY <1>35 DEF MainCloses, MainGoes
<1>36. CASE TearDown
  BY <1>36 DEF TearDown, MainGoes
<1>37. CASE Exit
  BY <1>37 DEF Exit, MainGoes
<1>38. CASE UNCHANGED vars
  BY <1>38 DEF vars
<1> QED
  BY <1>1, <1>2, <1>3, <1>4, <1>5, <1>6, <1>7, <1>8, <1>9, <1>10, <1>11, <1>12, <1>13, <1>14,
     <1>15, <1>16, <1>17, <1>18, <1>19, <1>20, <1>21, <1>22, <1>23, <1>24, <1>25, <1>26, <1>27,
     <1>28, <1>29, <1>30, <1>31, <1>32, <1>33, <1>34, <1>35, <1>36, <1>37, <1>38 DEF Next,
     PollStep, LoopStep, OpStep, MainStep

\* The pollster, the loops and the modules.
LEMMA LoopTypes == IInv /\ [Next]_vars => LoopTypeOK'
<1> SUFFICES ASSUME IInv, [Next]_vars PROVE LoopTypeOK'
  OBVIOUS
<1> USE EventBoundsAssumption
<1> USE DEF LoopTypeOK, IInv, TypeOK, EventsTypeOK, Loop, Event, NoEvent, eventVars, pollVars,
    loopVars, cellVars, hostVars, mainVars
<1>1. ASSUME NEW ts \in {{c} : c \in Cell} \cup {Cell}, Poll(ts)
      /\ UNCHANGED hostVars PROVE LoopTypeOK'
  BY <1>1 DEF Poll
<1>2. CASE PollUnknown /\ UNCHANGED hostVars
  BY <1>2 DEF PollUnknown
<1>3. ASSUME NEW c \in Cell, DeliverTo(c) /\ UNCHANGED hostVars PROVE LoopTypeOK'
  BY <1>3 DEF DeliverTo, Deliver, Due, Finalize
<1>4. CASE PollsterStops /\ UNCHANGED hostVars
  BY <1>4 DEF PollsterStops
<1>5. ASSUME NEW c \in Cell, LoopReturns(c) /\ UNCHANGED hostVars PROVE LoopTypeOK'
  BY <1>5 DEF LoopReturns, Goto
<1>6. ASSUME NEW c \in Cell, TakeEvent(c) /\ UNCHANGED hostVars PROVE LoopTypeOK'
  BY <1>6 DEF TakeEvent, Receive, Goto
<1>7. ASSUME NEW c \in Cell, EncodeFails(c) /\ UNCHANGED hostVars PROVE LoopTypeOK'
  BY <1>7 DEF EncodeFails, EndEvent, Finalize, Goto
<1>8. ASSUME NEW c \in Cell, StepReturns(c) /\ UNCHANGED hostVars PROVE LoopTypeOK'
  BY <1>8 DEF StepReturns, Stepped, EndEvent, Finalize, Goto
<1>9. ASSUME NEW c \in Cell, StepFails(c) /\ UNCHANGED hostVars PROVE LoopTypeOK'
  <2>1. (restarts \in [Cell -> 0..RestartLimit] /\ traps \in 0..MaxTraps)'
    <3>1. (traps \in 0..MaxTraps)'
      BY <1>9 DEF StepFails, StepError
    <3>2. UNCHANGED restarts \/ \E r \in {restarts[c], 0} : r < RestartLimit
          /\ restarts' = [restarts EXCEPT ![c] = r + 1]
      BY <1>9 DEF StepFails, SuperviseTrap
    <3>3. CASE UNCHANGED restarts
      BY <3>1, <3>3
    <3>4. ASSUME NEW r \in {restarts[c], 0}, r < RestartLimit, restarts' = [restarts EXCEPT ![c] = r + 1]
          PROVE  (restarts \in [Cell -> 0..RestartLimit])'
      <4>1. restarts[c] \in 0..RestartLimit
        OBVIOUS
      <4>2. r + 1 \in 0..RestartLimit
        BY <4>1, <3>4
      <4> QED
        BY <4>2, <3>4
    <3> QED
      BY <3>1, <3>2, <3>3, <3>4
  <2>2. (cell \in [Cell -> {"nil", "open", "dead", "closed"}])'
    BY <1>9 DEF StepFails, SuperviseTrap, Left
  <2>3. (loop \in [Cell -> Loop] /\ newest \in [Cell -> Event \cup {NoEvent}])'
    BY <1>9 DEF StepFails, Stepped, EndEvent, Goto
  <2> QED
    BY <1>9, <2>1, <2>2, <2>3 DEF StepFails
<1>10. ASSUME NEW c \in Cell, Tick(c) /\ UNCHANGED hostVars PROVE LoopTypeOK'
  BY <1>10 DEF Tick, MayTick, Goto
<1>11. ASSUME NEW c \in Cell, TickFails(c) /\ UNCHANGED hostVars PROVE LoopTypeOK'
  <2>1. (restarts \in [Cell -> 0..RestartLimit] /\ traps \in 0..MaxTraps)'
    <3>1. (traps \in 0..MaxTraps)'
      BY <1>11 DEF TickFails, StepError
    <3>2. UNCHANGED restarts \/ \E r \in {restarts[c], 0} : r < RestartLimit
          /\ restarts' = [restarts EXCEPT ![c] = r + 1]
      BY <1>11 DEF TickFails, SuperviseTrap
    <3>3. CASE UNCHANGED restarts
      BY <3>1, <3>3
    <3>4. ASSUME NEW r \in {restarts[c], 0}, r < RestartLimit, restarts' = [restarts EXCEPT ![c] = r + 1]
          PROVE  (restarts \in [Cell -> 0..RestartLimit])'
      <4>1. restarts[c] \in 0..RestartLimit
        OBVIOUS
      <4>2. r + 1 \in 0..RestartLimit
        BY <4>1, <3>4
      <4> QED
        BY <4>2, <3>4
    <3> QED
      BY <3>1, <3>2, <3>3, <3>4
  <2>2. (cell \in [Cell -> {"nil", "open", "dead", "closed"}])'
    BY <1>11 DEF TickFails, SuperviseTrap, Left
  <2>3. (loop \in [Cell -> Loop] /\ newest \in [Cell -> Event \cup {NoEvent}])'
    BY <1>11 DEF TickFails, Goto
  <2> QED
    BY <1>11, <2>1, <2>2, <2>3 DEF TickFails
<1>12. ASSUME NEW c \in Cell, IdleTimer(c) /\ UNCHANGED hostVars PROVE LoopTypeOK'
  BY <1>12 DEF IdleTimer, Goto
<1>13. ASSUME NEW c \in Cell, IdleWakes(c) /\ UNCHANGED hostVars PROVE LoopTypeOK'
  BY <1>13 DEF IdleWakes, Receive, Goto
<1>14. ASSUME NEW c \in Cell, PushBack(c) /\ UNCHANGED hostVars PROVE LoopTypeOK'
  <2>1. Goto(c, "select") /\ UNCHANGED <<pollVars, newest, restarts, traps, cellVars>>
    BY <1>14 DEF PushBack, EndEvent
  <2> QED
    BY <2>1 DEF Goto
<1>15. ASSUME NEW k \in Conn, NEW c \in Cell, RequestShutdown(k, c) PROVE LoopTypeOK'
  BY <1>15 DEF RequestShutdown, Request, Cancel
<1>16. ASSUME NEW k \in Conn, NEW c \in Cell, RequestReload(k, c) PROVE LoopTypeOK'
  BY <1>16 DEF RequestReload, Request, Cancel
<1>17. ASSUME NEW k \in Conn, RequestShutdownAll(k) PROVE LoopTypeOK'
  BY <1>17 DEF RequestShutdownAll, Request
<1>18. ASSUME NEW k \in Conn, NextCell(k) PROVE LoopTypeOK'
  BY <1>18 DEF NextCell
<1>19. ASSUME NEW k \in Conn, Mark(k) PROVE LoopTypeOK'
  BY <1>19 DEF Mark, Return, Go, Cancel
<1>20. ASSUME NEW k \in Conn, Join(k) PROVE LoopTypeOK'
  BY <1>20 DEF Join, Go
<1>21. ASSUME NEW k \in Conn, ShutDown(k) PROVE LoopTypeOK'
  BY <1>21 DEF ShutDown, Go
<1>22. ASSUME NEW k \in Conn, CloseCell(k) PROVE LoopTypeOK'
  BY <1>22 DEF CloseCell, Go
<1>23. ASSUME NEW k \in Conn, Drain(k) PROVE LoopTypeOK'
  BY <1>23 DEF Drain, DrainOne, Finalize
<1>24. ASSUME NEW k \in Conn, ShutdownDone(k) PROVE LoopTypeOK'
  BY <1>24 DEF ShutdownDone, Return
<1>25. ASSUME NEW k \in Conn, Refresh(k) PROVE LoopTypeOK'
  BY <1>25 DEF Refresh, Go
<1>26. ASSUME NEW k \in Conn, LoadOk(k) PROVE LoopTypeOK'
  BY <1>26 DEF LoadOk, Return
<1>27. ASSUME NEW k \in Conn, LoadError(k) PROVE LoopTypeOK'
  BY <1>27 DEF LoadError, Return
<1>28. CASE Signal
  BY <1>28 DEF Signal, MainGoes
<1>29. CASE AllShutdown
  BY <1>29 DEF AllShutdown, MainGoes
<1>30. CASE PollstersJoined
  BY <1>30 DEF PollstersJoined, MainGoes, Cancel
<1>31. CASE StepsJoined
  BY <1>31 DEF StepsJoined, MainGoes
<1>32. ASSUME NEW c \in Cell, MainDrains(c) PROVE LoopTypeOK'
  BY <1>32 DEF MainDrains, DrainOne, Finalize, Drained
<1>33. CASE MainDrained
  BY <1>33 DEF MainDrained, MainGoes
<1>34. ASSUME NEW c \in Cell, MainPicks(c) PROVE LoopTypeOK'
  BY <1>34 DEF MainPicks
<1>35. CASE MainCloses
  BY <1>35 DEF MainCloses, MainGoes
<1>36. CASE TearDown
  BY <1>36 DEF TearDown, MainGoes
<1>37. CASE Exit
  BY <1>37 DEF Exit, MainGoes
<1>38. CASE UNCHANGED vars
  BY <1>38 DEF vars
<1> QED
  BY <1>1, <1>2, <1>3, <1>4, <1>5, <1>6, <1>7, <1>8, <1>9, <1>10, <1>11, <1>12, <1>13, <1>14,
     <1>15, <1>16, <1>17, <1>18, <1>19, <1>20, <1>21, <1>22, <1>23, <1>24, <1>25, <1>26, <1>27,
     <1>28, <1>29, <1>30, <1>31, <1>32, <1>33, <1>34, <1>35, <1>36, <1>37, <1>38 DEF Next,
     PollStep, LoopStep, OpStep, MainStep

\* The flags.
LEMMA FlagTypes == IInv /\ [Next]_vars => FlagTypeOK'
<1> SUFFICES ASSUME IInv, [Next]_vars PROVE FlagTypeOK'
  OBVIOUS
<1> USE DEF FlagTypeOK, IInv, TypeOK, EventsTypeOK, eventVars, pollVars, loopVars, cellVars,
    hostVars, mainVars
<1>1. ASSUME NEW ts \in {{c} : c \in Cell} \cup {Cell}, Poll(ts)
      /\ UNCHANGED hostVars PROVE FlagTypeOK'
  BY <1>1 DEF Poll
<1>2. CASE PollUnknown /\ UNCHANGED hostVars
  BY <1>2 DEF PollUnknown
<1>3. ASSUME NEW c \in Cell, DeliverTo(c) /\ UNCHANGED hostVars PROVE FlagTypeOK'
  BY <1>3 DEF DeliverTo, Deliver, Due, Finalize
<1>4. CASE PollsterStops /\ UNCHANGED hostVars
  BY <1>4 DEF PollsterStops
<1>5. ASSUME NEW c \in Cell, LoopReturns(c) /\ UNCHANGED hostVars PROVE FlagTypeOK'
  BY <1>5 DEF LoopReturns, Goto
<1>6. ASSUME NEW c \in Cell, TakeEvent(c) /\ UNCHANGED hostVars PROVE FlagTypeOK'
  BY <1>6 DEF TakeEvent, Receive, Goto
<1>7. ASSUME NEW c \in Cell, EncodeFails(c) /\ UNCHANGED hostVars PROVE FlagTypeOK'
  BY <1>7 DEF EncodeFails, EndEvent, Finalize, Goto
<1>8. ASSUME NEW c \in Cell, StepReturns(c) /\ UNCHANGED hostVars PROVE FlagTypeOK'
  BY <1>8 DEF StepReturns, Stepped, EndEvent, Finalize, Goto
<1>9. ASSUME NEW c \in Cell, StepFails(c) /\ UNCHANGED hostVars PROVE FlagTypeOK'
  BY <1>9 DEF StepFails, StepError, SuperviseTrap, Left, Stepped, EndEvent, Finalize, Goto
<1>10. ASSUME NEW c \in Cell, Tick(c) /\ UNCHANGED hostVars PROVE FlagTypeOK'
  BY <1>10 DEF Tick, MayTick, Goto
<1>11. ASSUME NEW c \in Cell, TickFails(c) /\ UNCHANGED hostVars PROVE FlagTypeOK'
  BY <1>11 DEF TickFails, MayTick, StepError, SuperviseTrap, Left, Goto
<1>12. ASSUME NEW c \in Cell, IdleTimer(c) /\ UNCHANGED hostVars PROVE FlagTypeOK'
  BY <1>12 DEF IdleTimer, Goto
<1>13. ASSUME NEW c \in Cell, IdleWakes(c) /\ UNCHANGED hostVars PROVE FlagTypeOK'
  BY <1>13 DEF IdleWakes, Receive, Goto
<1>14. ASSUME NEW c \in Cell, PushBack(c) /\ UNCHANGED hostVars PROVE FlagTypeOK'
  BY <1>14 DEF PushBack, EndEvent, Finalize, Goto
<1>15. ASSUME NEW k \in Conn, NEW c \in Cell, RequestShutdown(k, c) PROVE FlagTypeOK'
  BY <1>15 DEF RequestShutdown, Request, Cancel
<1>16. ASSUME NEW k \in Conn, NEW c \in Cell, RequestReload(k, c) PROVE FlagTypeOK'
  BY <1>16 DEF RequestReload, Request, Cancel
<1>17. ASSUME NEW k \in Conn, RequestShutdownAll(k) PROVE FlagTypeOK'
  BY <1>17 DEF RequestShutdownAll, Request
<1>18. ASSUME NEW k \in Conn, NextCell(k) PROVE FlagTypeOK'
  BY <1>18 DEF NextCell
<1>19. ASSUME NEW k \in Conn, Mark(k) PROVE FlagTypeOK'
  BY <1>19 DEF Mark, Return, Go, Cancel
<1>20. ASSUME NEW k \in Conn, Join(k) PROVE FlagTypeOK'
  BY <1>20 DEF Join, Go
<1>21. ASSUME NEW k \in Conn, ShutDown(k) PROVE FlagTypeOK'
  BY <1>21 DEF ShutDown, Go
<1>22. ASSUME NEW k \in Conn, CloseCell(k) PROVE FlagTypeOK'
  BY <1>22 DEF CloseCell, Go
<1>23. ASSUME NEW k \in Conn, Drain(k) PROVE FlagTypeOK'
  BY <1>23 DEF Drain, DrainOne, Finalize
<1>24. ASSUME NEW k \in Conn, ShutdownDone(k) PROVE FlagTypeOK'
  BY <1>24 DEF ShutdownDone, Return
<1>25. ASSUME NEW k \in Conn, Refresh(k) PROVE FlagTypeOK'
  BY <1>25 DEF Refresh, Go
<1>26. ASSUME NEW k \in Conn, LoadOk(k) PROVE FlagTypeOK'
  BY <1>26 DEF LoadOk, Return
<1>27. ASSUME NEW k \in Conn, LoadError(k) PROVE FlagTypeOK'
  BY <1>27 DEF LoadError, Return
<1>28. CASE Signal
  BY <1>28 DEF Signal, MainGoes
<1>29. CASE AllShutdown
  BY <1>29 DEF AllShutdown, MainGoes
<1>30. CASE PollstersJoined
  BY <1>30 DEF PollstersJoined, MainGoes, Cancel
<1>31. CASE StepsJoined
  BY <1>31 DEF StepsJoined, MainGoes
<1>32. ASSUME NEW c \in Cell, MainDrains(c) PROVE FlagTypeOK'
  BY <1>32 DEF MainDrains, DrainOne, Finalize, Drained
<1>33. CASE MainDrained
  BY <1>33 DEF MainDrained, MainGoes
<1>34. ASSUME NEW c \in Cell, MainPicks(c) PROVE FlagTypeOK'
  BY <1>34 DEF MainPicks
<1>35. CASE MainCloses
  BY <1>35 DEF MainCloses, MainGoes
<1>36. CASE TearDown
  BY <1>36 DEF TearDown, MainGoes
<1>37. CASE Exit
  BY <1>37 DEF Exit, MainGoes
<1>38. CASE UNCHANGED vars
  BY <1>38 DEF vars
<1> QED
  BY <1>1, <1>2, <1>3, <1>4, <1>5, <1>6, <1>7, <1>8, <1>9, <1>10, <1>11, <1>12, <1>13, <1>14,
     <1>15, <1>16, <1>17, <1>18, <1>19, <1>20, <1>21, <1>22, <1>23, <1>24, <1>25, <1>26, <1>27,
     <1>28, <1>29, <1>30, <1>31, <1>32, <1>33, <1>34, <1>35, <1>36, <1>37, <1>38 DEF Next,
     PollStep, LoopStep, OpStep, MainStep


----------------------------------------------------------------------------
(* what a step does to the events *)

\* Nothing happens to an event: loops start, return, or idle with nothing
\* queued.
Calm ==
    /\ UNCHANGED <<polled, pend, reached, queue, hand, newest, slots>>
    /\ poller' = poller \/ pend = {}
    /\ \A c \in Cell :
          \/ loop'[c] = loop[c]
          \/ /\ loop[c] \in {"off", "select", "idling"}
             /\ loop'[c] \in {"off", "select", "idling"}
             /\ loop'[c] = "idling" => c \in Inbound

\* A loop receives an event,
Takes(c) ==
    /\ \/ loop[c] = "select" /\ Receive(c, "step")
       \/ loop[c] = "idling" /\ Receive(c, "pushback")
    /\ UNCHANGED <<polled, poller, pend, reached, newest, slots>>

\* finalizes it,
Ends(c) ==
    /\ loop[c] \in {"step", "pushback"}
    /\ EndEvent(c)
    /\ UNCHANGED newest \/ (loop[c] = "step" /\ Stepped(c))
    /\ UNCHANGED <<polled, poller, pend, reached, queue>>

\* or puts it back.
PutsBack(c) ==
    /\ loop[c] = "pushback"
    /\ Len(queue[c]) < ChanSize
    /\ queue' = [queue EXCEPT ![c] = Append(@, hand[c])]
    /\ hand' = [hand EXCEPT ![c] = NoEvent]
    /\ Goto(c, "select")
    /\ UNCHANGED <<polled, poller, pend, reached, newest, slots>>

\* Whoever tears the cell down finalizes an event of its channel.
Drops(c) ==
    /\ queue[c] # <<>>
    /\ queue' = [queue EXCEPT ![c] = Tail(@)]
    /\ Finalize(Head(queue[c]))
    /\ UNCHANGED <<polled, poller, pend, reached, hand, loop, newest>>

Effect ==
    \/ Calm
    \/ PollUnknown
    \/ \E ts \in {{c} : c \in Cell} \cup {Cell} : Poll(ts)
    \/ \E c \in Cell : DeliverTo(c) \/ Takes(c) \/ Ends(c) \/ PutsBack(c) \/ Drops(c)

\* Every step does one of these to the events.
LEMMA StepEffects == IInv /\ [Next]_vars => Effect
<1> SUFFICES ASSUME IInv, [Next]_vars PROVE Effect
  OBVIOUS
<1> USE DEF eventVars, pollVars, loopVars, cellVars, hostVars, mainVars
<1>1. ASSUME NEW ts \in {{c} : c \in Cell} \cup {Cell}, Poll(ts) /\ UNCHANGED hostVars PROVE Effect
  BY <1>1 DEF Effect
<1>2. CASE PollUnknown /\ UNCHANGED hostVars
  BY <1>2 DEF Effect
<1>3. ASSUME NEW c \in Cell, DeliverTo(c) /\ UNCHANGED hostVars PROVE Effect
  BY <1>3 DEF Effect
<1>4. CASE PollsterStops /\ UNCHANGED hostVars
  <2>1. Calm
    BY <1>4 DEF PollsterStops, Calm, IInv, TypeOK, EventsTypeOK
  <2> QED
    BY <2>1 DEF Effect
<1>5. ASSUME NEW c \in Cell, LoopReturns(c) /\ UNCHANGED hostVars PROVE Effect
  <2>1. Calm
    BY <1>5 DEF LoopReturns, Goto, Calm, IInv, TypeOK, EventsTypeOK
  <2> QED
    BY <2>1 DEF Effect
<1>6. ASSUME NEW c \in Cell, TakeEvent(c) /\ UNCHANGED hostVars PROVE Effect
  <2>1. Takes(c)
    BY <1>6 DEF TakeEvent, Takes
  <2> QED
    BY <2>1 DEF Effect
<1>7. ASSUME NEW c \in Cell, EncodeFails(c) /\ UNCHANGED hostVars PROVE Effect
  <2>1. Ends(c)
    BY <1>7 DEF EncodeFails, Ends
  <2> QED
    BY <2>1 DEF Effect
<1>8. ASSUME NEW c \in Cell, StepReturns(c) /\ UNCHANGED hostVars PROVE Effect
  <2>1. Ends(c)
    BY <1>8 DEF StepReturns, Ends
  <2> QED
    BY <2>1 DEF Effect
<1>9. ASSUME NEW c \in Cell, StepFails(c) /\ UNCHANGED hostVars PROVE Effect
  <2>1. Ends(c)
    BY <1>9 DEF StepFails, Ends
  <2> QED
    BY <2>1 DEF Effect
<1>10. ASSUME NEW c \in Cell, Tick(c) /\ UNCHANGED hostVars PROVE Effect
  <2>1. Calm
    BY <1>10 DEF Tick, MayTick, Goto, Calm, IInv, TypeOK, EventsTypeOK
  <2> QED
    BY <2>1 DEF Effect
<1>11. ASSUME NEW c \in Cell, TickFails(c) /\ UNCHANGED hostVars PROVE Effect
  <2>1. Calm
    BY <1>11 DEF TickFails, MayTick, StepError, SuperviseTrap, Left, Goto, Calm, IInv, TypeOK,
       EventsTypeOK
  <2> QED
    BY <2>1 DEF Effect
<1>12. ASSUME NEW c \in Cell, IdleTimer(c) /\ UNCHANGED hostVars PROVE Effect
  <2>1. Calm
    BY <1>12 DEF IdleTimer, Goto, Calm, IInv, TypeOK, EventsTypeOK
  <2> QED
    BY <2>1 DEF Effect
<1>13. ASSUME NEW c \in Cell, IdleWakes(c) /\ UNCHANGED hostVars PROVE Effect
  <2>1. Takes(c)
    BY <1>13 DEF IdleWakes, Takes
  <2> QED
    BY <2>1 DEF Effect
<1>14. ASSUME NEW c \in Cell, PushBack(c) /\ UNCHANGED hostVars PROVE Effect
  <2>1. PutsBack(c) \/ Ends(c)
    BY <1>14 DEF PushBack, PutsBack, Ends
  <2> QED
    BY <2>1 DEF Effect
<1>15. ASSUME NEW k \in Conn, NEW c \in Cell, RequestShutdown(k, c) PROVE Effect
  <2>1. Calm
    BY <1>15 DEF RequestShutdown, Request, Cancel, Calm, IInv, TypeOK, EventsTypeOK
  <2> QED
    BY <2>1 DEF Effect
<1>16. ASSUME NEW k \in Conn, NEW c \in Cell, RequestReload(k, c) PROVE Effect
  <2>1. Calm
    BY <1>16 DEF RequestReload, Request, Cancel, Calm, IInv, TypeOK, EventsTypeOK
  <2> QED
    BY <2>1 DEF Effect
<1>17. ASSUME NEW k \in Conn, RequestShutdownAll(k) PROVE Effect
  <2>1. Calm
    BY <1>17 DEF RequestShutdownAll, Request, Calm, IInv, TypeOK, EventsTypeOK
  <2> QED
    BY <2>1 DEF Effect
<1>18. ASSUME NEW k \in Conn, NextCell(k) PROVE Effect
  <2>1. Calm
    BY <1>18 DEF NextCell, Calm, IInv, TypeOK, EventsTypeOK
  <2> QED
    BY <2>1 DEF Effect
<1>19. ASSUME NEW k \in Conn, Mark(k) PROVE Effect
  <2>1. Calm
    BY <1>19 DEF Mark, Return, Go, Cancel, Calm, IInv, TypeOK, EventsTypeOK
  <2> QED
    BY <2>1 DEF Effect
<1>20. ASSUME NEW k \in Conn, Join(k) PROVE Effect
  <2>1. Calm
    BY <1>20 DEF Join, Go, Calm, IInv, TypeOK, EventsTypeOK
  <2> QED
    BY <2>1 DEF Effect
<1>21. ASSUME NEW k \in Conn, ShutDown(k) PROVE Effect
  <2>1. Calm
    BY <1>21 DEF ShutDown, Go, Calm, IInv, TypeOK, EventsTypeOK
  <2> QED
    BY <2>1 DEF Effect
<1>22. ASSUME NEW k \in Conn, CloseCell(k) PROVE Effect
  <2>1. Calm
    BY <1>22 DEF CloseCell, Go, Calm, IInv, TypeOK, EventsTypeOK
  <2> QED
    BY <2>1 DEF Effect
<1>23. ASSUME NEW k \in Conn, Drain(k) PROVE Effect
  <2>1. On(k) \in Cell
    BY <1>23, OnCell DEF Drain, At, Working, IInv
  <2>2. Drops(On(k))
    BY <1>23 DEF Drain, DrainOne, Drops
  <2> QED
    BY <2>1, <2>2 DEF Effect
<1>24. ASSUME NEW k \in Conn, ShutdownDone(k) PROVE Effect
  <2>1. Calm
    BY <1>24 DEF ShutdownDone, Return, Calm, IInv, TypeOK, EventsTypeOK
  <2> QED
    BY <2>1 DEF Effect
<1>25. ASSUME NEW k \in Conn, Refresh(k) PROVE Effect
  <2>1. Calm
    BY <1>25 DEF Refresh, Go, Calm, IInv, TypeOK, EventsTypeOK
  <2> QED
    BY <2>1 DEF Effect
<1>26. ASSUME NEW k \in Conn, LoadOk(k) PROVE Effect
  <2>1. On(k) \in Cell /\ loop[On(k)] = "off"
    BY <1>26, OnCell DEF LoadOk, At, Working, IInv, Reloading
  <2>2. Calm
    BY <1>26, <2>1 DEF LoadOk, Calm, IInv, TypeOK, EventsTypeOK
  <2> QED
    BY <2>2 DEF Effect
<1>27. ASSUME NEW k \in Conn, LoadError(k) PROVE Effect
  <2>1. Calm
    BY <1>27 DEF LoadError, Return, Calm, IInv, TypeOK, EventsTypeOK
  <2> QED
    BY <2>1 DEF Effect
<1>28. CASE Signal
  <2>1. Calm
    BY <1>28 DEF Signal, MainGoes, Calm, IInv, TypeOK, EventsTypeOK
  <2> QED
    BY <2>1 DEF Effect
<1>29. CASE AllShutdown
  <2>1. Calm
    BY <1>29 DEF AllShutdown, MainGoes, Calm, IInv, TypeOK, EventsTypeOK
  <2> QED
    BY <2>1 DEF Effect
<1>30. CASE PollstersJoined
  <2>1. Calm
    BY <1>30 DEF PollstersJoined, MainGoes, Cancel, Calm, IInv, TypeOK, EventsTypeOK
  <2> QED
    BY <2>1 DEF Effect
<1>31. CASE StepsJoined
  <2>1. Calm
    BY <1>31 DEF StepsJoined, MainGoes, Calm, IInv, TypeOK, EventsTypeOK
  <2> QED
    BY <2>1 DEF Effect
<1>32. ASSUME NEW c \in Cell, MainDrains(c) PROVE Effect
  <2>1. Drops(c) \/ Calm
    BY <1>32 DEF MainDrains, DrainOne, Drops, Calm
  <2> QED
    BY <2>1 DEF Effect
<1>33. CASE MainDrained
  <2>1. Calm
    BY <1>33 DEF MainDrained, MainGoes, Calm, IInv, TypeOK, EventsTypeOK
  <2> QED
    BY <2>1 DEF Effect
<1>34. ASSUME NEW c \in Cell, MainPicks(c) PROVE Effect
  <2>1. Calm
    BY <1>34 DEF MainPicks, Calm, IInv, TypeOK, EventsTypeOK
  <2> QED
    BY <2>1 DEF Effect
<1>35. CASE MainCloses
  <2>1. Calm
    BY <1>35 DEF MainCloses, MainGoes, Calm, IInv, TypeOK, EventsTypeOK
  <2> QED
    BY <2>1 DEF Effect
<1>36. CASE TearDown
  <2>1. Calm
    BY <1>36 DEF TearDown, MainGoes, Calm, IInv, TypeOK, EventsTypeOK
  <2> QED
    BY <2>1 DEF Effect
<1>37. CASE Exit
  <2>1. Calm
    BY <1>37 DEF Exit, MainGoes, Calm, IInv, TypeOK, EventsTypeOK
  <2> QED
    BY <2>1 DEF Effect
<1>38. CASE UNCHANGED vars
  BY <1>38 DEF vars, Effect, Calm
<1> QED
  BY <1>1, <1>2, <1>3, <1>4, <1>5, <1>6, <1>7, <1>8, <1>9, <1>10, <1>11, <1>12, <1>13, <1>14,
     <1>15, <1>16, <1>17, <1>18, <1>19, <1>20, <1>21, <1>22, <1>23, <1>24, <1>25, <1>26, <1>27,
     <1>28, <1>29, <1>30, <1>31, <1>32, <1>33, <1>34, <1>35, <1>36, <1>37, <1>38 DEF Next,
     PollStep, LoopStep, OpStep, MainStep


----------------------------------------------------------------------------
(* the channels and what the loops hold *)

\* What a channel has are events.
LEMMA QueuedEvents == IInv => \A c \in Cell : Range(queue[c]) \subseteq Event
<1> SUFFICES ASSUME IInv, NEW c \in Cell PROVE Range(queue[c]) \subseteq Event
  OBVIOUS
<1>1. queue[c] \in Seq(Event)
  BY Channels DEF IInv, TypeOK
<1>2. DOMAIN queue[c] = 1..Len(queue[c]) /\ \A i \in 1..Len(queue[c]) : queue[c][i] \in Event
  BY <1>1
<1> QED
  BY <1>2 DEF Range

\* A cell's channel, when its first event is received.
LEMMA FirstTaken ==
    ASSUME IInv, NEW c \in Cell, queue[c] # <<>>
    PROVE  /\ Head(queue[c]) \in Event /\ Tail(queue[c]) \in SeqOf(Event, ChanSize)
           /\ Range(queue[c]) = Range(Tail(queue[c])) \cup {Head(queue[c])}
           /\ Distinct(Tail(queue[c])) /\ Head(queue[c]) \notin Range(Tail(queue[c]))
<1>1. queue[c] \in Seq(Event) /\ Len(queue[c]) <= ChanSize
  BY Channels DEF IInv, TypeOK
<1>2. Distinct(queue[c])
  BY DEF IInv, Once
<1>3. /\ Head(queue[c]) \in Event /\ Tail(queue[c]) \in Seq(Event)
      /\ Len(Tail(queue[c])) = Len(queue[c]) - 1
      /\ Range(queue[c]) = Range(Tail(queue[c])) \cup {Head(queue[c])}
      /\ Distinct(Tail(queue[c])) /\ Head(queue[c]) \notin Range(Tail(queue[c]))
  BY <1>1, <1>2, Received
<1>4. Len(queue[c]) \in Nat
  BY <1>1
<1>5. Tail(queue[c]) \in SeqOf(Event, ChanSize)
  <2>1. Len(Tail(queue[c])) <= ChanSize
    BY <1>1, <1>3, <1>4, ChanSizeAssumption
  <2> QED
    BY <2>1, <1>3, ChannelIsSeq, ChanSizeAssumption
<1> QED
  BY <1>3, <1>5

\* The same for an event-only cell, whose channel is in order.
LEMMA FirstInOrder ==
    ASSUME IInv, NEW c \in Cell \ Inbound, queue[c] # <<>>
    PROVE  Ascending(Tail(queue[c])) /\ \A e \in Range(Tail(queue[c])) : Head(queue[c]) < e
<1>1. queue[c] \in Seq(Event)
  BY Channels DEF IInv, TypeOK
<1>2. Ascending(queue[c])
  BY DEF IInv, Sorted, InOrder
<1> QED
  BY <1>1, <1>2, ReceivedInOrder

\* A cell's channel, when an event is sent to it.
LEMMA LastAdded ==
    ASSUME IInv, NEW c \in Cell, NEW e \in Event, Len(queue[c]) < ChanSize, e \notin Range(queue[c])
    PROVE  /\ Append(queue[c], e) \in SeqOf(Event, ChanSize)
           /\ Range(Append(queue[c], e)) = Range(queue[c]) \cup {e}
           /\ Distinct(Append(queue[c], e))
<1>1. queue[c] \in Seq(Event) /\ Len(queue[c]) \in Nat
  BY Channels DEF IInv, TypeOK
<1>2. Distinct(queue[c])
  BY DEF IInv, Once
<1>3. /\ Append(queue[c], e) \in Seq(Event) /\ Len(Append(queue[c], e)) = Len(queue[c]) + 1
      /\ Range(Append(queue[c], e)) = Range(queue[c]) \cup {e}
      /\ Distinct(Append(queue[c], e))
  BY <1>1, <1>2, Sent
<1>4. Append(queue[c], e) \in SeqOf(Event, ChanSize)
  <2>1. Len(Append(queue[c], e)) <= ChanSize
    BY <1>1, <1>3, ChanSizeAssumption
  <2> QED
    BY <2>1, <1>3, ChannelIsSeq, ChanSizeAssumption
<1> QED
  BY <1>3, <1>4

\* The same for an event-only cell, when the event is newer than its channel.
LEMMA LastInOrder ==
    ASSUME IInv, NEW c \in Cell \ Inbound, NEW e \in Event, \A x \in Range(queue[c]) : x < e
    PROVE  Ascending(Append(queue[c], e))
<1>1. queue[c] \in Seq(Event)
  BY Channels DEF IInv, TypeOK
<1>2. Ascending(queue[c])
  BY DEF IInv, Sorted, InOrder
<1> QED
  BY <1>1, <1>2, SentInOrder

\* The event at the pollster's hand is new to the cells it is still to reach.
LEMMA AtHand ==
    ASSUME IInv, NEW c \in pend
    PROVE  /\ c \in Cell /\ polled \in Event /\ poller = "run"
           /\ polled \notin Range(queue[c]) /\ hand[c] # polled
           /\ \A x \in Range(queue[c]) : x < polled
<1>1. c \in Cell /\ polled \in 0..MaxEvents /\ polled > 0 /\ poller = "run"
  BY DEF IInv, TypeOK, EventsTypeOK, Past
<1>2. polled \in Event
  BY <1>1, EventBoundsAssumption DEF Event
<1>3. \A x \in Range(queue[c]) \cup {hand[c]} : x < polled
  BY <1>1 DEF IInv, Past
<1> QED
  BY <1>1, <1>2, <1>3

\* A loop in a step or putting back holds an event that its channel has not.
LEMMA Held ==
    ASSUME IInv, NEW c \in Cell, loop[c] \in {"step", "pushback"}
    PROVE  hand[c] \in Event /\ hand[c] \notin Range(queue[c])
BY DEF IInv, TypeOK, EventsTypeOK, Owned, Once

\* Channels stay within their buffers.
LEMMA ChannelTypes == IInv /\ Effect => ChannelTypeOK'
<1> SUFFICES ASSUME IInv, Effect PROVE ChannelTypeOK'
  OBVIOUS
<1>1. CASE Calm
  BY <1>1 DEF Calm, ChannelTypeOK, IInv, TypeOK, EventsTypeOK
<1>2. CASE PollUnknown
  BY <1>2 DEF PollUnknown, loopVars, cellVars, ChannelTypeOK, IInv, TypeOK, EventsTypeOK
<1>3. ASSUME NEW ts \in {{c} : c \in Cell} \cup {Cell}, Poll(ts) PROVE ChannelTypeOK'
  BY <1>3 DEF Poll, loopVars, cellVars, ChannelTypeOK, IInv, TypeOK, EventsTypeOK
<1>4. ASSUME NEW c \in Cell, DeliverTo(c) PROVE ChannelTypeOK'
  <2>1. polled \in Event /\ polled \notin Range(queue[c]) /\ hand[c] # polled /\ poller = "run"
    BY <1>4, AtHand DEF DeliverTo
  <2>2. CASE UNCHANGED queue
    BY <1>4, <2>1, <2>2 DEF DeliverTo, ChannelTypeOK, IInv, TypeOK, EventsTypeOK
  <2>3. CASE Len(queue[c]) < ChanSize /\ queue' = [queue EXCEPT ![c] = Append(@, polled)]
    <3>1. /\ Append(queue[c], polled) \in SeqOf(Event, ChanSize)
          /\ Range(Append(queue[c], polled)) = Range(queue[c]) \cup {polled}
          /\ Distinct(Append(queue[c], polled))
      BY <2>1, <2>3, LastAdded
    <3> QED
      BY <1>4, <2>1, <2>3, <3>1 DEF DeliverTo, ChannelTypeOK, IInv, TypeOK, EventsTypeOK
  <2> QED
    BY <1>4, <2>2, <2>3 DEF DeliverTo, Deliver
<1>5. ASSUME NEW c \in Cell, Takes(c) PROVE ChannelTypeOK'
  <2>1. queue[c] # <<>>
    BY <1>5 DEF Takes, Receive
  <2>2. Head(queue[c]) \in Event /\ Tail(queue[c]) \in SeqOf(Event, ChanSize)
    BY <2>1, FirstTaken
  <2>3. queue' = [queue EXCEPT ![c] = Tail(@)] /\ hand' = [hand EXCEPT ![c] = Head(queue[c])]
    BY <1>5 DEF Takes, Receive
  <2>4. queue \in [Cell -> SeqOf(Event, ChanSize)] /\ hand \in [Cell -> Event \cup {NoEvent}]
    BY DEF IInv, TypeOK, EventsTypeOK
  <2> QED
    BY <2>2, <2>3, <2>4 DEF ChannelTypeOK
<1>6. ASSUME NEW c \in Cell, Ends(c) PROVE ChannelTypeOK'
  BY <1>6 DEF Ends, EndEvent, Goto, Stepped, ChannelTypeOK, IInv, TypeOK, EventsTypeOK
<1>7. ASSUME NEW c \in Cell, PutsBack(c) PROVE ChannelTypeOK'
  <2>1. hand[c] \in Event /\ hand[c] \notin Range(queue[c]) /\ Len(queue[c]) < ChanSize
    BY <1>7, Held DEF PutsBack
  <2>2. /\ Append(queue[c], hand[c]) \in SeqOf(Event, ChanSize)
        /\ Range(Append(queue[c], hand[c])) = Range(queue[c]) \cup {hand[c]}
        /\ Distinct(Append(queue[c], hand[c]))
    BY <2>1, LastAdded
  <2> QED
    BY <1>7, <2>1, <2>2 DEF PutsBack, Goto, ChannelTypeOK, IInv, TypeOK, EventsTypeOK
<1>8. ASSUME NEW c \in Cell, Drops(c) PROVE ChannelTypeOK'
  <2>1. queue[c] # <<>>
    BY <1>8 DEF Drops
  <2>2. /\ Head(queue[c]) \in Event /\ Tail(queue[c]) \in SeqOf(Event, ChanSize)
        /\ Range(queue[c]) = Range(Tail(queue[c])) \cup {Head(queue[c])}
        /\ Distinct(Tail(queue[c])) /\ Head(queue[c]) \notin Range(Tail(queue[c]))
    BY <2>1, FirstTaken
  <2> QED
    BY <1>8, <2>2 DEF Drops, ChannelTypeOK, IInv, TypeOK, EventsTypeOK
<1> QED
  BY <1>1, <1>2, <1>3, <1>4, <1>5, <1>6, <1>7, <1>8 DEF Effect

\* Loops hold events only where they work on one.
LEMMA KeepsOwned == IInv /\ Effect => Owned'
<1> SUFFICES ASSUME IInv, Effect PROVE Owned'
  OBVIOUS
<1>1. CASE Calm
  BY <1>1 DEF Calm, IInv, TypeOK, EventsTypeOK, Owned
<1>2. CASE PollUnknown
  BY <1>2 DEF PollUnknown, loopVars, cellVars, IInv, TypeOK, EventsTypeOK, Owned
<1>3. ASSUME NEW ts \in {{c} : c \in Cell} \cup {Cell}, Poll(ts) PROVE Owned'
  BY <1>3 DEF Poll, loopVars, cellVars, IInv, TypeOK, EventsTypeOK, Owned
<1>4. ASSUME NEW c \in Cell, DeliverTo(c) PROVE Owned'
  BY <1>4 DEF DeliverTo, Deliver, Finalize, IInv, TypeOK, EventsTypeOK, Owned
<1>5. ASSUME NEW c \in Cell, Takes(c) PROVE Owned'
  <2>1. Head(queue[c]) \in Event
    BY <1>5, FirstTaken DEF Takes, Receive
  <2>2. Head(queue[c]) # NoEvent
    BY <2>1 DEF Event, NoEvent
  <2> QED
    BY <1>5, <2>2 DEF Takes, Receive, Goto, IInv, TypeOK, EventsTypeOK, Owned
<1>6. ASSUME NEW c \in Cell, Ends(c) PROVE Owned'
  BY <1>6 DEF Ends, EndEvent, Goto, Stepped, IInv, TypeOK, EventsTypeOK, Owned
<1>7. ASSUME NEW c \in Cell, PutsBack(c) PROVE Owned'
  BY <1>7 DEF PutsBack, Goto, IInv, TypeOK, EventsTypeOK, Owned
<1>8. ASSUME NEW c \in Cell, Drops(c) PROVE Owned'
  BY <1>8 DEF Drops, IInv, TypeOK, EventsTypeOK, Owned
<1> QED
  BY <1>1, <1>2, <1>3, <1>4, <1>5, <1>6, <1>7, <1>8 DEF Effect

\* No cell gets an event twice.
LEMMA KeepsOnce == IInv /\ Effect => Once'
<1> SUFFICES ASSUME IInv, Effect PROVE Once'
  OBVIOUS
<1>1. CASE Calm
  BY <1>1, QueuedEvents DEF Calm, IInv, TypeOK, EventsTypeOK, Once, Owned, Event, NoEvent
<1>2. CASE PollUnknown
  BY <1>2, QueuedEvents DEF PollUnknown, loopVars, cellVars, IInv, TypeOK, EventsTypeOK, Once,
     Owned, Event, NoEvent
<1>3. ASSUME NEW ts \in {{c} : c \in Cell} \cup {Cell}, Poll(ts) PROVE Once'
  BY <1>3, QueuedEvents DEF Poll, loopVars, cellVars, IInv, TypeOK, EventsTypeOK, Once, Owned,
     Event, NoEvent
<1>4. ASSUME NEW c \in Cell, DeliverTo(c) PROVE Once'
  <2>1. polled \in Event /\ polled \notin Range(queue[c]) /\ hand[c] # polled /\ poller = "run"
    BY <1>4, AtHand DEF DeliverTo
  <2>2. CASE UNCHANGED queue
    BY <1>4, <2>1, <2>2, QueuedEvents DEF DeliverTo, IInv, TypeOK, EventsTypeOK, Once, Owned,
       Event, NoEvent
  <2>3. CASE Len(queue[c]) < ChanSize /\ queue' = [queue EXCEPT ![c] = Append(@, polled)]
    <3>1. /\ Append(queue[c], polled) \in SeqOf(Event, ChanSize)
          /\ Range(Append(queue[c], polled)) = Range(queue[c]) \cup {polled}
          /\ Distinct(Append(queue[c], polled))
      BY <2>1, <2>3, LastAdded
    <3> QED
      BY <1>4, <2>1, <2>3, <3>1, QueuedEvents DEF DeliverTo, IInv, TypeOK, EventsTypeOK, Once,
         Owned, Event, NoEvent
  <2> QED
    BY <1>4, <2>2, <2>3 DEF DeliverTo, Deliver
<1>5. ASSUME NEW c \in Cell, Takes(c) PROVE Once'
  <2>1. queue[c] # <<>>
    BY <1>5 DEF Takes, Receive, Goto
  <2>2. /\ Head(queue[c]) \in Event /\ Tail(queue[c]) \in SeqOf(Event, ChanSize)
        /\ Range(queue[c]) = Range(Tail(queue[c])) \cup {Head(queue[c])}
        /\ Distinct(Tail(queue[c])) /\ Head(queue[c]) \notin Range(Tail(queue[c]))
    BY <2>1, FirstTaken
  <2> QED
    BY <1>5, <2>2, QueuedEvents DEF Takes, Receive, Goto, IInv, TypeOK, EventsTypeOK, Once, Owned,
       Event, NoEvent
<1>6. ASSUME NEW c \in Cell, Ends(c) PROVE Once'
  BY <1>6, QueuedEvents DEF Ends, EndEvent, Goto, Stepped, IInv, TypeOK, EventsTypeOK, Once, Owned,
     Event, NoEvent
<1>7. ASSUME NEW c \in Cell, PutsBack(c) PROVE Once'
  <2>1. hand[c] \in Event /\ hand[c] \notin Range(queue[c]) /\ Len(queue[c]) < ChanSize
    BY <1>7, Held DEF PutsBack
  <2>2. /\ Append(queue[c], hand[c]) \in SeqOf(Event, ChanSize)
        /\ Range(Append(queue[c], hand[c])) = Range(queue[c]) \cup {hand[c]}
        /\ Distinct(Append(queue[c], hand[c]))
    BY <2>1, LastAdded
  <2> QED
    BY <1>7, <2>1, <2>2, QueuedEvents, SMTT(30) DEF PutsBack, Goto, IInv, TypeOK, EventsTypeOK, Once, Owned,
       Event, NoEvent
<1>8. ASSUME NEW c \in Cell, Drops(c) PROVE Once'
  <2>1. queue[c] # <<>>
    BY <1>8 DEF Drops
  <2>2. /\ Head(queue[c]) \in Event /\ Tail(queue[c]) \in SeqOf(Event, ChanSize)
        /\ Range(queue[c]) = Range(Tail(queue[c])) \cup {Head(queue[c])}
        /\ Distinct(Tail(queue[c])) /\ Head(queue[c]) \notin Range(Tail(queue[c]))
    BY <2>1, FirstTaken
  <2> QED
    BY <1>8, <2>2, QueuedEvents DEF Drops, IInv, TypeOK, EventsTypeOK, Once, Owned, Event, NoEvent
<1> QED
  BY <1>1, <1>2, <1>3, <1>4, <1>5, <1>6, <1>7, <1>8 DEF Effect


\* What the cells have, as numbers.
LEMMA Older ==
    ASSUME IInv
    PROVE  /\ polled \in Nat
           /\ \A c \in Cell :
                 /\ hand[c] \in Nat /\ newest[c] \in Nat
                 /\ \A e \in Range(queue[c]) \cup {hand[c]} :
                       e \in Nat /\ e <= polled /\ (c \in pend => e < polled)
<1>1. polled \in Nat
  BY DEF IInv, TypeOK, EventsTypeOK
<1>2. \A c \in Cell : hand[c] \in Nat /\ newest[c] \in Nat
  BY EventBoundsAssumption DEF IInv, TypeOK, EventsTypeOK, Event, NoEvent
<1>3. \A c \in Cell : \A e \in Range(queue[c]) : e \in Nat
  BY QueuedEvents, EventBoundsAssumption DEF Event
<1> QED
  BY <1>1, <1>2, <1>3 DEF IInv, Past

\* What the cells have stays older than what is to come.
LEMMA KeepsPast == IInv /\ Effect => Past'
<1> SUFFICES ASSUME IInv, Effect PROVE Past'
  OBVIOUS
<1>1. CASE Calm
  BY <1>1 DEF Calm, IInv, TypeOK, EventsTypeOK, Past
<1>2. CASE PollUnknown
  <2>1. /\ polled' = polled + 1 /\ pend = {} /\ poller = "run" /\ poller' = "run"
        /\ reached' = reached /\ queue' = queue /\ hand' = hand
    BY <1>2 DEF PollUnknown, loopVars
  <2>2. \A c \in Cell : \A e \in Range(queue[c]) \cup {hand[c]} : e \in Nat /\ e <= polled
        /\ e < polled + 1
    BY Older
  <2>3. polled \in Nat /\ polled + 1 > 0
    BY Older
  <2>4. ~reached
    BY <2>1 DEF IInv, Past
  <2> QED
    BY <1>2, <2>1, <2>2, <2>3, <2>4 DEF PollUnknown, Past
<1>3. ASSUME NEW ts \in {{c} : c \in Cell} \cup {Cell}, Poll(ts) PROVE Past'
  <2>1. /\ polled' = polled + 1 /\ pend = {} /\ poller = "run" /\ poller' = "run"
        /\ reached' = reached /\ queue' = queue /\ hand' = hand
    BY <1>3 DEF Poll, loopVars
  <2>2. \A c \in Cell : \A e \in Range(queue[c]) \cup {hand[c]} : e \in Nat /\ e <= polled
        /\ e < polled + 1
    BY Older
  <2>3. polled \in Nat /\ polled + 1 > 0
    BY Older
  <2>4. ~reached
    BY <2>1 DEF IInv, Past
  <2> QED
    BY <1>3, <2>1, <2>2, <2>3, <2>4, CellAssumption DEF Poll, Past
<1>4. ASSUME NEW c \in Cell, DeliverTo(c) PROVE Past'
  <2>1. /\ polled \in Event /\ polled \notin Range(queue[c]) /\ poller = "run"
        /\ polled' = polled /\ poller' = poller /\ hand' = hand /\ pend' = pend \ {c}
        /\ pend' = {} => ~reached'
    BY <1>4, AtHand DEF DeliverTo
  <2>2. polled \in Nat /\ polled > 0
    BY <2>1 DEF Event
  <2>3. ASSUME NEW x \in Cell, NEW e \in Range(queue'[x]) \cup {hand[x]}
        PROVE  e <= polled /\ (x \in pend' => e < polled)
    <3>1. CASE UNCHANGED queue \/ x # c
      <4>1. queue'[x] = queue[x]
        BY <1>4, <3>1 DEF DeliverTo, Deliver, IInv, TypeOK, EventsTypeOK
      <4> QED
        BY <4>1, <2>1, <2>3, Older
    <3>2. CASE Len(queue[c]) < ChanSize /\ queue' = [queue EXCEPT ![c] = Append(@, polled)] /\ x = c
      <4>1. queue'[x] = Append(queue[c], polled)
        BY <3>2 DEF IInv, TypeOK, EventsTypeOK
      <4>2. Range(queue'[x]) = Range(queue[c]) \cup {polled}
        BY <4>1, <3>2, <2>1, LastAdded
      <4> QED
        BY <4>2, <3>2, <2>1, <2>2, <2>3, Older
    <3> QED
      BY <1>4, <3>1, <3>2 DEF DeliverTo, Deliver
  <2> QED
    BY <2>1, <2>2, <2>3 DEF Past
<1>5. ASSUME NEW c \in Cell, Takes(c) PROVE Past'
  <2>1. queue[c] # <<>>
    BY <1>5 DEF Takes, Receive
  <2>2. Range(queue[c]) = Range(Tail(queue[c])) \cup {Head(queue[c])}
    BY <2>1, FirstTaken
  <2>3. /\ polled' = polled /\ poller' = poller /\ pend' = pend /\ reached' = reached
        /\ queue' = [queue EXCEPT ![c] = Tail(@)] /\ hand' = [hand EXCEPT ![c] = Head(queue[c])]
    BY <1>5 DEF Takes, Receive
  <2> QED
    BY <2>2, <2>3 DEF Past, IInv, TypeOK, EventsTypeOK
<1>6. ASSUME NEW c \in Cell, Ends(c) PROVE Past'
  <2>1. \A x \in Cell : hand'[x] = hand[x] \/ hand'[x] = 0
    BY <1>6 DEF Ends, EndEvent, NoEvent, IInv, TypeOK, EventsTypeOK
  <2>2. polled' = polled /\ poller' = poller /\ pend' = pend /\ reached' = reached /\ queue' = queue
    BY <1>6 DEF Ends
  <2>3. polled \in Nat /\ (pend # {} => polled > 0)
    BY Older DEF IInv, Past
  <2> QED
    BY <2>1, <2>2, <2>3 DEF IInv, Past
<1>7. ASSUME NEW c \in Cell, PutsBack(c) PROVE Past'
  <2>1. hand[c] \in Event /\ hand[c] \notin Range(queue[c]) /\ Len(queue[c]) < ChanSize
    BY <1>7, Held DEF PutsBack
  <2>2. Range(Append(queue[c], hand[c])) = Range(queue[c]) \cup {hand[c]}
    BY <2>1, LastAdded
  <2>3. /\ polled' = polled /\ poller' = poller /\ pend' = pend /\ reached' = reached
        /\ \A x \in Cell : Range(queue'[x]) \cup {hand'[x]} \subseteq Range(queue[x]) \cup {hand[x], 0}
    BY <1>7, <2>2 DEF PutsBack, NoEvent, IInv, TypeOK, EventsTypeOK
  <2>4. polled \in Nat /\ (pend # {} => polled > 0)
    BY Older DEF IInv, Past
  <2> QED
    BY <2>3, <2>4 DEF IInv, Past
<1>8. ASSUME NEW c \in Cell, Drops(c) PROVE Past'
  <2>1. queue[c] # <<>>
    BY <1>8 DEF Drops
  <2>2. /\ Head(queue[c]) \in Event /\ Tail(queue[c]) \in SeqOf(Event, ChanSize)
        /\ Range(queue[c]) = Range(Tail(queue[c])) \cup {Head(queue[c])}
        /\ Distinct(Tail(queue[c])) /\ Head(queue[c]) \notin Range(Tail(queue[c]))
    BY <2>1, FirstTaken
  <2> QED
    BY <1>8, <2>2 DEF Drops, IInv, TypeOK, EventsTypeOK, Past
<1> QED
  BY <1>1, <1>2, <1>3, <1>4, <1>5, <1>6, <1>7, <1>8 DEF Effect

\* Event-only cells keep their events in order.
LEMMA KeepsSorted == IInv /\ Effect => Sorted'
<1> SUFFICES ASSUME IInv, Effect PROVE Sorted'
  OBVIOUS
<1>1. CASE Calm
  BY <1>1 DEF Calm, Sorted, InOrder, IInv
<1>2. CASE PollUnknown
  <2>1. \A c \in Cell : newest[c] \in Nat
    BY Older
  <2> QED
    BY <1>2, <2>1, Older DEF PollUnknown, loopVars, Sorted, InOrder, IInv
<1>3. ASSUME NEW ts \in {{c} : c \in Cell} \cup {Cell}, Poll(ts) PROVE Sorted'
  <2>1. \A c \in Cell \ Inbound : newest[c] \in Nat /\ newest[c] <= polled
        /\ newest[c] < polled + 1 /\ newest[c] <= polled + 1
    BY Older DEF IInv, Sorted, InOrder
  <2> QED
    BY <1>3, <2>1 DEF Poll, loopVars, Sorted, InOrder, IInv
<1>4. ASSUME NEW c \in Cell, DeliverTo(c) PROVE Sorted'
  <2>1. /\ polled \in Event /\ polled \notin Range(queue[c]) /\ hand[c] < polled
        /\ polled' = polled /\ hand' = hand /\ pend' = pend \ {c} /\ loop' = loop
              /\ newest' = newest
        /\ \A e \in Range(queue[c]) : e < polled
    BY <1>4, AtHand, Older DEF DeliverTo
  <2> SUFFICES ASSUME NEW x \in Cell \ Inbound PROVE InOrder(x)'
    BY DEF Sorted
  <2>2. InOrder(x)
    BY DEF IInv, Sorted, InOrder
  <2>3. CASE UNCHANGED queue \/ x # c
    <3>1. queue'[x] = queue[x]
      BY <1>4, <2>3 DEF DeliverTo, Deliver, IInv, TypeOK, EventsTypeOK
    <3> QED
      BY <2>1, <2>2, <3>1 DEF InOrder
  <2>4. CASE Len(queue[c]) < ChanSize /\ queue' = [queue EXCEPT ![c] = Append(@, polled)] /\ x = c
    <3>1. queue'[x] = Append(queue[c], polled)
      BY <2>4 DEF IInv, TypeOK, EventsTypeOK
    <3>2. Range(queue'[x]) = Range(queue[c]) \cup {polled}
      BY <3>1, <2>4, <2>1, LastAdded
    <3>3. Ascending(queue'[x])
      BY <3>1, <2>4, <2>1, LastInOrder
    <3>4. newest[c] < polled
      BY <1>4, <2>2, <2>4 DEF InOrder, DeliverTo
    <3> QED
      BY <2>1, <2>2, <2>4, <3>2, <3>3, <3>4 DEF InOrder
  <2> QED
    BY <1>4, <2>3, <2>4 DEF DeliverTo, Deliver
<1>5. ASSUME NEW c \in Cell, Takes(c) PROVE Sorted'
  <2>1. queue[c] # <<>>
    BY <1>5 DEF Takes, Receive
  <2>2. Range(queue[c]) = Range(Tail(queue[c])) \cup {Head(queue[c])}
    BY <2>1, FirstTaken
  <2>3. polled' = polled /\ pend' = pend /\ newest' = newest
    BY <1>5 DEF Takes
  <2>4. \A x \in Cell \ {c} : queue'[x] = queue[x] /\ hand'[x] = hand[x] /\ loop'[x] = loop[x]
    BY <1>5 DEF Takes, Receive, Goto, IInv, TypeOK, EventsTypeOK
  <2>5. ASSUME c \notin Inbound PROVE InOrder(c)'
    <3>1. InOrder(c)
      BY <2>5 DEF IInv, Sorted
    <3>2. loop'[c] = "step" /\ queue'[c] = Tail(queue[c]) /\ hand'[c] = Head(queue[c])
      BY <1>5, <3>1 DEF Takes, Receive, Goto, InOrder, IInv, TypeOK, EventsTypeOK
    <3>3. Ascending(Tail(queue[c])) /\ \A e \in Range(Tail(queue[c])) : Head(queue[c]) < e
      BY <2>1, <2>5, FirstInOrder
    <3> QED
      BY <2>2, <2>3, <3>1, <3>2, <3>3 DEF InOrder
  <2>6. ASSUME NEW x \in Cell \ Inbound PROVE InOrder(x)'
    BY <2>3, <2>4, <2>5 DEF InOrder, IInv, Sorted
  <2> QED
    BY <2>6 DEF Sorted
<1>6. ASSUME NEW c \in Cell, Ends(c) PROVE Sorted'
  <2>1. polled' = polled /\ pend' = pend /\ queue' = queue
    BY <1>6 DEF Ends
  <2>2. \A x \in Cell \ {c} : hand'[x] = hand[x] /\ loop'[x] = loop[x] /\ newest'[x] = newest[x]
    BY <1>6 DEF Ends, EndEvent, Goto, Stepped, IInv, TypeOK, EventsTypeOK
  <2>3. ASSUME c \notin Inbound PROVE InOrder(c)'
    <3>1. InOrder(c)
      BY <2>3 DEF IInv, Sorted
    <3>2. loop'[c] = "select" /\ hand'[c] = 0 /\ newest'[c] \in {newest[c], hand[c]}
      BY <1>6 DEF Ends, EndEvent, Goto, Stepped, NoEvent, IInv, TypeOK, EventsTypeOK
    <3>3. \A e \in Range(queue[c]) : 0 < e
      BY QueuedEvents DEF Event
    <3>4. hand[c] <= polled /\ (c \in pend => hand[c] < polled)
      BY Older
    <3> QED
      BY <2>1, <3>1, <3>2, <3>3, <3>4 DEF InOrder
  <2>4. ASSUME NEW x \in Cell \ Inbound PROVE InOrder(x)'
    BY <2>1, <2>2, <2>3 DEF InOrder, IInv, Sorted
  <2> QED
    BY <2>4 DEF Sorted
<1>7. ASSUME NEW c \in Cell, PutsBack(c) PROVE Sorted'
  <2>1. c \in Inbound
    BY <1>7 DEF PutsBack, IInv, Sorted, InOrder
  <2>2. polled' = polled /\ pend' = pend /\ newest' = newest
    BY <1>7 DEF PutsBack
  <2>3. \A x \in Cell \ {c} : queue'[x] = queue[x] /\ hand'[x] = hand[x] /\ loop'[x] = loop[x]
    BY <1>7 DEF PutsBack, Goto
  <2>4. ASSUME NEW x \in Cell \ Inbound PROVE InOrder(x)'
    BY <2>1, <2>2, <2>3 DEF InOrder, IInv, Sorted
  <2> QED
    BY <2>4 DEF Sorted
<1>8. ASSUME NEW c \in Cell, Drops(c) PROVE Sorted'
  <2>1. queue[c] # <<>>
    BY <1>8 DEF Drops
  <2>2. Range(queue[c]) = Range(Tail(queue[c])) \cup {Head(queue[c])}
    BY <2>1, FirstTaken
  <2>3. polled' = polled /\ pend' = pend /\ newest' = newest /\ hand' = hand /\ loop' = loop
    BY <1>8 DEF Drops
  <2>4. queue'[c] = Tail(queue[c]) /\ \A x \in Cell \ {c} : queue'[x] = queue[x]
    BY <1>8 DEF Drops, IInv, TypeOK, EventsTypeOK
  <2>5. ASSUME c \notin Inbound PROVE InOrder(c)'
    <3>1. InOrder(c)
      BY <2>5 DEF IInv, Sorted
    <3>2. Ascending(Tail(queue[c]))
      BY <2>1, <2>5, FirstInOrder
    <3> QED
      BY <2>2, <2>3, <2>4, <3>1, <3>2 DEF InOrder
  <2>6. ASSUME NEW x \in Cell \ Inbound PROVE InOrder(x)'
    BY <2>3, <2>4, <2>5 DEF InOrder, IInv, Sorted
  <2> QED
    BY <2>6 DEF Sorted
<1> QED
  BY <1>1, <1>2, <1>3, <1>4, <1>5, <1>6, <1>7, <1>8 DEF Effect

----------------------------------------------------------------------------
(* control operations and the end of run.Main *)

\* A reload keeps the mutex until the loop of its cell may start again.
LEMMA KeepsReloading == IInv /\ [Next]_vars => Reloading'
<1> SUFFICES ASSUME IInv, [Next]_vars PROVE Reloading'
  OBVIOUS
<1> USE DEF IInv, TypeOK, EventsTypeOK, Reloading, On, At, NoOp, Working, eventVars, pollVars,
    loopVars, cellVars, hostVars, mainVars
<1>1. ASSUME NEW ts \in {{c} : c \in Cell} \cup {Cell}, Poll(ts)
      /\ UNCHANGED hostVars PROVE Reloading'
  BY <1>1 DEF Poll
<1>2. CASE PollUnknown /\ UNCHANGED hostVars
  BY <1>2 DEF PollUnknown
<1>3. ASSUME NEW c \in Cell, DeliverTo(c) /\ UNCHANGED hostVars PROVE Reloading'
  BY <1>3 DEF DeliverTo, Deliver, Due, Finalize
<1>4. CASE PollsterStops /\ UNCHANGED hostVars
  BY <1>4 DEF PollsterStops
<1>5. ASSUME NEW c \in Cell, LoopReturns(c) /\ UNCHANGED hostVars PROVE Reloading'
  BY <1>5 DEF LoopReturns, Goto
<1>6. ASSUME NEW c \in Cell, TakeEvent(c) /\ UNCHANGED hostVars PROVE Reloading'
  BY <1>6 DEF TakeEvent, Receive, Goto
<1>7. ASSUME NEW c \in Cell, EncodeFails(c) /\ UNCHANGED hostVars PROVE Reloading'
  BY <1>7 DEF EncodeFails, EndEvent, Finalize, Goto
<1>8. ASSUME NEW c \in Cell, StepReturns(c) /\ UNCHANGED hostVars PROVE Reloading'
  BY <1>8 DEF StepReturns, Stepped, EndEvent, Finalize, Goto
<1>9. ASSUME NEW c \in Cell, StepFails(c) /\ UNCHANGED hostVars PROVE Reloading'
  BY <1>9 DEF StepFails, StepError, SuperviseTrap, Left, Stepped, EndEvent, Finalize, Goto
<1>10. ASSUME NEW c \in Cell, Tick(c) /\ UNCHANGED hostVars PROVE Reloading'
  BY <1>10 DEF Tick, MayTick, Goto
<1>11. ASSUME NEW c \in Cell, TickFails(c) /\ UNCHANGED hostVars PROVE Reloading'
  BY <1>11 DEF TickFails, MayTick, StepError, SuperviseTrap, Left, Goto
<1>12. ASSUME NEW c \in Cell, IdleTimer(c) /\ UNCHANGED hostVars PROVE Reloading'
  BY <1>12 DEF IdleTimer, Goto
<1>13. ASSUME NEW c \in Cell, IdleWakes(c) /\ UNCHANGED hostVars PROVE Reloading'
  BY <1>13 DEF IdleWakes, Receive, Goto
<1>14. ASSUME NEW c \in Cell, PushBack(c) /\ UNCHANGED hostVars PROVE Reloading'
  BY <1>14 DEF PushBack, EndEvent, Finalize, Goto
<1>15. ASSUME NEW k \in Conn, NEW c \in Cell, RequestShutdown(k, c) PROVE Reloading'
  BY <1>15 DEF RequestShutdown, Request, Cancel
<1>16. ASSUME NEW k \in Conn, NEW c \in Cell, RequestReload(k, c) PROVE Reloading'
  BY <1>16 DEF RequestReload, Request, Cancel
<1>17. ASSUME NEW k \in Conn, RequestShutdownAll(k) PROVE Reloading'
  BY <1>17 DEF RequestShutdownAll, Request
<1>18. ASSUME NEW k \in Conn, NextCell(k) PROVE Reloading'
  BY <1>18, SMTT(30) DEF NextCell
<1>19. ASSUME NEW k \in Conn, Mark(k) PROVE Reloading'
  <2>1. On(k) \in Cell /\ op[k].on = {On(k)} /\ op[k].at = "mark" /\ op[k].do # "reload"
    BY <1>19, OnCell DEF Mark
  <2>2. CASE On(k) \in stopped
    <3>1. Return(k) /\ UNCHANGED <<stepDone, loop, reloadMu>>
      BY <1>19, <2>2 DEF Mark
    <3> QED
      BY <3>1, <2>1 DEF Return
  <2>3. CASE On(k) \notin stopped
    <3>1. Go(k, "join") /\ UNCHANGED <<stepDone, loop, reloadMu>>
      BY <1>19, <2>3 DEF Mark
    <3>2. \A j \in Conn : op'[j].on = op[j].on /\ op'[j].do = op[j].do /\ (j # k => op'[j] = op[j])
      BY <3>1 DEF Go
    <3>3. op'[k].at = "join"
      BY <3>1 DEF Go
    <3>4. \A j \in Conn : On(j)' = On(j)
      BY <3>2 DEF On
    <3> HIDE DEF On
    <3> QED
      BY <3>1, <3>2, <3>3, <3>4, <2>1
  <2> QED
    BY <2>2, <2>3
<1>20. ASSUME NEW k \in Conn, Join(k) PROVE Reloading'
  <2>1. op' = [op EXCEPT ![k].at = "down"] /\ op[k].at = "join"
    BY <1>20 DEF Join, Go
  <2>2. \A j \in Conn : op'[j].on = op[j].on /\ op'[j].do = op[j].do /\ (j # k => op'[j] = op[j])
    BY <2>1
  <2>3. op'[k].at = "down"
    BY <2>1
  <2>4. \A j \in Conn : On(j)' = On(j)
    BY <2>2 DEF On
  <2> HIDE DEF On
  <2> QED
    BY <1>20, <2>1, <2>2, <2>3, <2>4 DEF Join
<1>21. ASSUME NEW k \in Conn, ShutDown(k) PROVE Reloading'
  BY <1>21 DEF ShutDown, Go
<1>22. ASSUME NEW k \in Conn, CloseCell(k) PROVE Reloading'
  BY <1>22 DEF CloseCell, Go
<1>23. ASSUME NEW k \in Conn, Drain(k) PROVE Reloading'
  BY <1>23 DEF Drain, DrainOne, Finalize
<1>24. ASSUME NEW k \in Conn, ShutdownDone(k) PROVE Reloading'
  BY <1>24 DEF ShutdownDone, Return
<1>25. ASSUME NEW k \in Conn, Refresh(k) PROVE Reloading'
  <2>1. op' = [op EXCEPT ![k].at = "load"] /\ op[k].at = "drain"
    BY <1>25 DEF Refresh, Go
  <2>2. \A j \in Conn : op'[j].on = op[j].on /\ op'[j].do = op[j].do /\ (j # k => op'[j] = op[j])
    BY <2>1
  <2>3. op'[k].at = "load"
    BY <2>1
  <2>4. \A j \in Conn : On(j)' = On(j)
    BY <2>2 DEF On
  <2> HIDE DEF On
  <2>5. op[k].do = "reload" /\ UNCHANGED <<stepDone, loop, reloadMu>>
    BY <1>25 DEF Refresh
  <2> QED
    BY <2>1, <2>2, <2>3, <2>4, <2>5
<1>26. ASSUME NEW k \in Conn, LoadOk(k) PROVE Reloading'
  <2>1. On(k) \in Cell /\ op[k].on = {On(k)} /\ op[k].at = "load"
    BY <1>26, OnCell DEF LoadOk
  <2>2. op' = [op EXCEPT ![k] = NoOp] /\ op[k].do = "reload" /\ reloadMu = {k}
    BY <1>26, <2>1 DEF LoadOk, Return
  <2>3. \A j \in Conn \ {k} : op'[j] = op[j] /\ On(j)' = On(j) /\ op[j].do # "reload"
    BY <2>2 DEF On
  <2>4. op'[k] = NoOp
    BY <2>2
  <2> HIDE DEF On
  <2> QED
    BY <1>26, <2>1, <2>3, <2>4 DEF LoadOk
<1>27. ASSUME NEW k \in Conn, LoadError(k) PROVE Reloading'
  <2>1. On(k) \in Cell /\ op[k].on = {On(k)} /\ op[k].at = "load"
    BY <1>27, OnCell DEF LoadError
  <2>2. op' = [op EXCEPT ![k] = NoOp] /\ op[k].do = "reload" /\ reloadMu = {k}
    BY <1>27, <2>1 DEF LoadError, Return
  <2>3. \A j \in Conn \ {k} : op'[j] = op[j] /\ On(j)' = On(j) /\ op[j].do # "reload"
    BY <2>2 DEF On
  <2>4. op'[k] = NoOp
    BY <2>2
  <2> HIDE DEF On
  <2> QED
    BY <1>27, <2>1, <2>3, <2>4 DEF LoadError
<1>28. CASE Signal
  BY <1>28 DEF Signal, MainGoes
<1>29. CASE AllShutdown
  BY <1>29 DEF AllShutdown, MainGoes
<1>30. CASE PollstersJoined
  BY <1>30 DEF PollstersJoined, MainGoes, Cancel
<1>31. CASE StepsJoined
  BY <1>31 DEF StepsJoined, MainGoes
<1>32. ASSUME NEW c \in Cell, MainDrains(c) PROVE Reloading'
  BY <1>32 DEF MainDrains, DrainOne, Finalize, Drained
<1>33. CASE MainDrained
  BY <1>33 DEF MainDrained, MainGoes
<1>34. ASSUME NEW c \in Cell, MainPicks(c) PROVE Reloading'
  BY <1>34 DEF MainPicks
<1>35. CASE MainCloses
  BY <1>35 DEF MainCloses, MainGoes
<1>36. CASE TearDown
  BY <1>36 DEF TearDown, MainGoes
<1>37. CASE Exit
  BY <1>37 DEF Exit, MainGoes
<1>38. CASE UNCHANGED vars
  BY <1>38 DEF vars
<1> QED
  BY <1>1, <1>2, <1>3, <1>4, <1>5, <1>6, <1>7, <1>8, <1>9, <1>10, <1>11, <1>12, <1>13, <1>14,
     <1>15, <1>16, <1>17, <1>18, <1>19, <1>20, <1>21, <1>22, <1>23, <1>24, <1>25, <1>26, <1>27,
     <1>28, <1>29, <1>30, <1>31, <1>32, <1>33, <1>34, <1>35, <1>36, <1>37, <1>38 DEF Next,
     PollStep, LoopStep, OpStep, MainStep

\* What the end of run.Main has emptied stays empty.
LEMMA KeepsEmptied == IInv /\ [Next]_vars => Emptied'
<1> SUFFICES ASSUME IInv, [Next]_vars PROVE Emptied'
  OBVIOUS
<1> USE DEF IInv, Emptied, Past, TypeOK, EventsTypeOK, Ending, eventVars, pollVars, loopVars,
    cellVars, hostVars, mainVars
<1>1. ASSUME NEW ts \in {{c} : c \in Cell} \cup {Cell}, Poll(ts)
      /\ UNCHANGED hostVars PROVE Emptied'
  BY <1>1 DEF Poll
<1>2. CASE PollUnknown /\ UNCHANGED hostVars
  BY <1>2 DEF PollUnknown
<1>3. ASSUME NEW c \in Cell, DeliverTo(c) /\ UNCHANGED hostVars PROVE Emptied'
  BY <1>3 DEF DeliverTo, Deliver, Due, Finalize
<1>4. CASE PollsterStops /\ UNCHANGED hostVars
  BY <1>4 DEF PollsterStops
<1>5. ASSUME NEW c \in Cell, LoopReturns(c) /\ UNCHANGED hostVars PROVE Emptied'
  BY <1>5 DEF LoopReturns, Goto
<1>6. ASSUME NEW c \in Cell, TakeEvent(c) /\ UNCHANGED hostVars PROVE Emptied'
  BY <1>6 DEF TakeEvent, Receive, Goto
<1>7. ASSUME NEW c \in Cell, EncodeFails(c) /\ UNCHANGED hostVars PROVE Emptied'
  BY <1>7 DEF EncodeFails, EndEvent, Finalize, Goto
<1>8. ASSUME NEW c \in Cell, StepReturns(c) /\ UNCHANGED hostVars PROVE Emptied'
  BY <1>8 DEF StepReturns, Stepped, EndEvent, Finalize, Goto
<1>9. ASSUME NEW c \in Cell, StepFails(c) /\ UNCHANGED hostVars PROVE Emptied'
  BY <1>9 DEF StepFails, StepError, SuperviseTrap, Left, Stepped, EndEvent, Finalize, Goto
<1>10. ASSUME NEW c \in Cell, Tick(c) /\ UNCHANGED hostVars PROVE Emptied'
  BY <1>10 DEF Tick, MayTick, Goto
<1>11. ASSUME NEW c \in Cell, TickFails(c) /\ UNCHANGED hostVars PROVE Emptied'
  BY <1>11 DEF TickFails, MayTick, StepError, SuperviseTrap, Left, Goto
<1>12. ASSUME NEW c \in Cell, IdleTimer(c) /\ UNCHANGED hostVars PROVE Emptied'
  BY <1>12 DEF IdleTimer, Goto
<1>13. ASSUME NEW c \in Cell, IdleWakes(c) /\ UNCHANGED hostVars PROVE Emptied'
  BY <1>13 DEF IdleWakes, Receive, Goto
<1>14. ASSUME NEW c \in Cell, PushBack(c) /\ UNCHANGED hostVars PROVE Emptied'
  BY <1>14 DEF PushBack, EndEvent, Finalize, Goto
<1>15. ASSUME NEW k \in Conn, NEW c \in Cell, RequestShutdown(k, c) PROVE Emptied'
  BY <1>15 DEF RequestShutdown, Request, Cancel
<1>16. ASSUME NEW k \in Conn, NEW c \in Cell, RequestReload(k, c) PROVE Emptied'
  BY <1>16 DEF RequestReload, Request, Cancel
<1>17. ASSUME NEW k \in Conn, RequestShutdownAll(k) PROVE Emptied'
  BY <1>17 DEF RequestShutdownAll, Request
<1>18. ASSUME NEW k \in Conn, NextCell(k) PROVE Emptied'
  BY <1>18 DEF NextCell
<1>19. ASSUME NEW k \in Conn, Mark(k) PROVE Emptied'
  BY <1>19 DEF Mark, Return, Go, Cancel
<1>20. ASSUME NEW k \in Conn, Join(k) PROVE Emptied'
  BY <1>20 DEF Join, Go
<1>21. ASSUME NEW k \in Conn, ShutDown(k) PROVE Emptied'
  BY <1>21 DEF ShutDown, Go
<1>22. ASSUME NEW k \in Conn, CloseCell(k) PROVE Emptied'
  BY <1>22 DEF CloseCell, Go
<1>23. ASSUME NEW k \in Conn, Drain(k) PROVE Emptied'
  BY <1>23 DEF Drain, DrainOne, Finalize
<1>24. ASSUME NEW k \in Conn, ShutdownDone(k) PROVE Emptied'
  BY <1>24 DEF ShutdownDone, Return
<1>25. ASSUME NEW k \in Conn, Refresh(k) PROVE Emptied'
  BY <1>25 DEF Refresh, Go
<1>26. ASSUME NEW k \in Conn, LoadOk(k) PROVE Emptied'
  BY <1>26 DEF LoadOk, Return
<1>27. ASSUME NEW k \in Conn, LoadError(k) PROVE Emptied'
  BY <1>27 DEF LoadError, Return
<1>28. CASE Signal
  BY <1>28 DEF Signal, MainGoes
<1>29. CASE AllShutdown
  BY <1>29 DEF AllShutdown, MainGoes
<1>30. CASE PollstersJoined
  BY <1>30 DEF PollstersJoined, MainGoes, Cancel
<1>31. CASE StepsJoined
  BY <1>31 DEF StepsJoined, MainGoes
<1>32. ASSUME NEW c \in Cell, MainDrains(c) PROVE Emptied'
  BY <1>32 DEF MainDrains, DrainOne, Finalize, Drained
<1>33. CASE MainDrained
  BY <1>33 DEF MainDrained, MainGoes
<1>34. ASSUME NEW c \in Cell, MainPicks(c) PROVE Emptied'
  BY <1>34 DEF MainPicks
<1>35. CASE MainCloses
  BY <1>35 DEF MainCloses, MainGoes
<1>36. CASE TearDown
  BY <1>36 DEF TearDown, MainGoes
<1>37. CASE Exit
  BY <1>37 DEF Exit, MainGoes
<1>38. CASE UNCHANGED vars
  BY <1>38 DEF vars
<1> QED
  BY <1>1, <1>2, <1>3, <1>4, <1>5, <1>6, <1>7, <1>8, <1>9, <1>10, <1>11, <1>12, <1>13, <1>14,
     <1>15, <1>16, <1>17, <1>18, <1>19, <1>20, <1>21, <1>22, <1>23, <1>24, <1>25, <1>26, <1>27,
     <1>28, <1>29, <1>30, <1>31, <1>32, <1>33, <1>34, <1>35, <1>36, <1>37, <1>38 DEF Next,
     PollStep, LoopStep, OpStep, MainStep


----------------------------------------------------------------------------
(* slots *)

\* How many owners there are when one cell joins them or leaves.
LEMMA Owners ==
    ASSUME NEW S \in SUBSET Cell, NEW c \in Cell
    PROVE  /\ Cardinality(S) \in Nat
           /\ c \notin S => Cardinality(S \cup {c}) = Cardinality(S) + 1
           /\ c \in S => Cardinality(S \ {c}) = Cardinality(S) - 1
<1>1. IsFiniteSet(S)
  BY FS_Subset, CellAssumption
<1> QED
  BY <1>1, FS_AddElement, FS_RemoveElement, FS_CardinalityType

\* What the pollster owes for an event.
Offer(e) == IF pend # {} /\ polled = e /\ ~reached THEN 1 ELSE 0

\* It owns the event or does not.
LEMMA PollsterOwns == \A e \in Event : Cardinality(Undelivered(e)) = Offer(e)
<1> SUFFICES ASSUME NEW e \in Event PROVE Cardinality(Undelivered(e)) = Offer(e)
  OBVIOUS
<1>1. CASE pend # {} /\ polled = e /\ ~reached
  <2>1. Undelivered(e) = {"pollster"}
    BY <1>1 DEF Undelivered
  <2> QED
    BY <1>1, <2>1, FS_Singleton DEF Offer
<1>2. CASE ~(pend # {} /\ polled = e /\ ~reached)
  <2>1. Undelivered(e) = {}
    BY <1>2 DEF Undelivered
  <2> QED
    BY <1>2, <2>1, FS_EmptySet DEF Offer
<1> QED
  BY <1>1, <1>2

\* The account of one event.
Account(e) == slots[e] = Cardinality(Queued(e)) + Cardinality(InHand(e)) + Offer(e)

\* The accounts of all events are what SlotsAccounted says.
LEMMA Accounts == SlotsAccounted <=> \A e \in Event : Account(e)
BY PollsterOwns DEF SlotsAccounted, Account

\* The numbers in an account.
LEMMA Numbers ==
    ASSUME IInv, NEW e \in Event
    PROVE  /\ Account(e) /\ slots[e] \in Nat /\ Offer(e) \in Nat
           /\ Queued(e) \in SUBSET Cell /\ Cardinality(Queued(e)) \in Nat
           /\ InHand(e) \in SUBSET Cell /\ Cardinality(InHand(e)) \in Nat
<1>1. Queued(e) \in SUBSET Cell /\ InHand(e) \in SUBSET Cell
  BY DEF Queued, InHand
<1>2. Cardinality(Queued(e)) \in Nat /\ Cardinality(InHand(e)) \in Nat
  BY <1>1, CellAssumption, Owners
<1> QED
  BY <1>1, <1>2, Accounts DEF IInv, TypeOK, EventsTypeOK, Offer

\* The same accounts, and the same numbers, after a step.
LEMMA AccountsNext == (SlotsAccounted <=> \A e \in Event : Account(e))'
BY Accounts, PTL

\* The same counts are numbers after a step.
LEMMA NumbersNext == \A e \in Event : Cardinality(Queued(e)') \in Nat
      /\ Cardinality(InHand(e)') \in Nat
<1> SUFFICES ASSUME NEW e \in Event
             PROVE  Cardinality(Queued(e)') \in Nat /\ Cardinality(InHand(e)') \in Nat
  OBVIOUS
<1>1. Queued(e)' \in SUBSET Cell /\ InHand(e)' \in SUBSET Cell
  BY DEF Queued, InHand
<1> QED
  BY <1>1, CellAssumption, Owners

\* Every step keeps every account.
LEMMA KeepsAccount ==
    ASSUME IInv, Effect, NEW e \in Event
    PROVE  Account(e)'
<1>1. CASE Calm
  <2>1. Queued(e)' = Queued(e) /\ InHand(e)' = InHand(e) /\ Offer(e)' = Offer(e) /\ slots' = slots
    BY <1>1 DEF Calm, Queued, InHand, Offer
  <2> QED
    BY <2>1, Numbers DEF Account
<1>2. CASE PollUnknown
  <2>1. Queued(e)' = Queued(e) /\ InHand(e)' = InHand(e) /\ Offer(e)' = Offer(e) /\ slots' = slots
    BY <1>2 DEF PollUnknown, loopVars, Queued, InHand, Offer
  <2> QED
    BY <2>1, Numbers DEF Account
<1>3. ASSUME NEW ts \in {{c} : c \in Cell} \cup {Cell}, Poll(ts) PROVE Account(e)'
  <2>1. Queued(e)' = Queued(e) /\ InHand(e)' = InHand(e)
    BY <1>3 DEF Poll, loopVars, Queued, InHand
  <2>2. pend = {} /\ polled' = polled + 1 /\ slots' = [slots EXCEPT ![polled + 1] = 1]
        /\ pend' # {} /\ ~reached'
    BY <1>3, CellAssumption DEF Poll, IInv, Past
  <2>3. Offer(e) = 0 /\ Offer(e)' = IF e = polled + 1 THEN 1 ELSE 0
    BY <2>2 DEF Offer
  <2>4. CASE e # polled + 1
    <3>1. slots'[e] = slots[e]
      BY <2>2, <2>4 DEF IInv, TypeOK, EventsTypeOK
    <3> QED
      BY <2>1, <2>3, <2>4, <3>1, Numbers DEF Account
  <2>5. CASE e = polled + 1
    <3>1. \A x \in Cell : e \notin Range(queue[x]) /\ hand[x] # e
      BY <2>5, Older
    <3>2. Queued(e) = {} /\ InHand(e) = {}
      BY <3>1 DEF Queued, InHand
    <3>3. slots'[e] = 1
      BY <2>2, <2>5 DEF IInv, TypeOK, EventsTypeOK
    <3> QED
      BY <2>1, <2>3, <2>5, <3>2, <3>3, FS_EmptySet DEF Account
  <2> QED
    BY <2>4, <2>5
<1>4. ASSUME NEW c \in Cell, DeliverTo(c) PROVE Account(e)'
  <2>1. /\ polled \in Event /\ polled \notin Range(queue[c])
        /\ polled' = polled /\ hand' = hand /\ pend' = pend \ {c} /\ c \in pend
        /\ reached' = (pend' # {} /\ (reached \/ ~failed[c]))
    BY <1>4, AtHand DEF DeliverTo
  <2>2. InHand(e)' = InHand(e)
    BY <2>1 DEF InHand
  <2>3. slots \in [Event -> Nat] /\ reached \in BOOLEAN /\ failed[c] \in BOOLEAN
    BY DEF IInv, TypeOK, EventsTypeOK
  <2>4. Offer(polled) = IF reached THEN 0 ELSE 1
    BY <2>1 DEF Offer
  <2>5. CASE ~failed[c] /\ Len(queue[c]) < ChanSize
    <3>1. queue' = [queue EXCEPT ![c] = Append(@, polled)]
          /\ slots' = [slots EXCEPT ![polled] = Due]
      BY <1>4, <2>5 DEF DeliverTo, Deliver
    <3>2. Range(Append(queue[c], polled)) = Range(queue[c]) \cup {polled}
      BY <2>1, <2>5, LastAdded
    <3>3. Offer(e)' = IF e = polled THEN 0 ELSE Offer(e)
      BY <2>1, <2>5 DEF Offer
    <3>4. \A x \in Cell : Range(queue'[x]) = IF x = c THEN Range(queue[c]) \cup {polled} ELSE Range(queue[x])
      BY <3>1, <3>2 DEF IInv, TypeOK, EventsTypeOK
    <3>5. CASE e # polled
      <4>1. Queued(e)' = Queued(e)
        BY <3>4, <3>5 DEF Queued
      <4>2. slots'[e] = slots[e]
        BY <3>1, <3>5, <2>3
      <4> QED
        BY <4>1, <4>2, <3>3, <3>5, <2>2, Numbers DEF Account
    <3>6. CASE e = polled
      <4>1. Queued(e)' = Queued(e) \cup {c} /\ c \notin Queued(e)
        BY <3>4, <3>6, <2>1 DEF Queued
      <4>2. Queued(e) \in SUBSET Cell
        BY Numbers
      <4>3. Cardinality(Queued(e)') = Cardinality(Queued(e)) + 1
        BY <4>1, <4>2, Owners
      <4>4. slots'[e] = Due
        BY <3>1, <3>6, <2>1, <2>3
      <4>5. Due = IF reached THEN slots[e] + 1 ELSE slots[e]
        BY <3>6 DEF Due
      <4>6. /\ Account(e) /\ slots[e] \in Nat /\ Offer(e) = IF reached THEN 0 ELSE 1
            /\ Cardinality(Queued(e)) \in Nat /\ Cardinality(InHand(e)) \in Nat
        BY <3>6, <2>4, Numbers
      <4> QED
        BY <4>3, <4>4, <4>5, <4>6, <3>3, <3>6, <2>2 DEF Account
    <3> QED
      BY <3>5, <3>6
  <2>6. CASE failed[c] \/ ~(Len(queue[c]) < ChanSize)
    <3>1. queue' = queue
      BY <1>4, <2>6 DEF DeliverTo, Deliver
    <3>2. Queued(e)' = Queued(e)
      BY <3>1 DEF Queued
    <3>3. CASE e # polled
      <4>1. slots'[e] = slots[e]
        BY <1>4, <3>3, <2>3 DEF DeliverTo, Deliver, Finalize
      <4>2. Offer(e)' = Offer(e)
        BY <3>3, <2>1 DEF Offer
      <4> QED
        BY <4>1, <4>2, <3>2, <2>2, Numbers DEF Account
    <3>4. CASE e = polled /\ ~failed[c]
      <4>1. slots' = [slots EXCEPT ![polled] = Due - 1]
        BY <1>4, <3>4, <2>6 DEF DeliverTo, Deliver
      <4>2. slots'[e] = Due - 1 /\ Due = IF reached THEN slots[e] + 1 ELSE slots[e]
        BY <4>1, <3>4, <2>1, <2>3 DEF Due
      <4>3. Offer(e)' = 0
        BY <3>4, <2>1 DEF Offer
      <4> QED
        BY <4>2, <4>3, <3>2, <3>4, <2>2, <2>4, Numbers DEF Account
    <3>5. CASE e = polled /\ failed[c] /\ (reached \/ pend' # {})
      <4>1. slots' = slots
        BY <1>4, <3>5 DEF DeliverTo
      <4>2. Offer(e)' = Offer(e)
        BY <3>5, <2>1 DEF Offer
      <4> QED
        BY <4>1, <4>2, <3>2, <2>2, Numbers DEF Account
    <3>6. CASE e = polled /\ failed[c] /\ ~reached /\ pend' = {}
      <4>1. slots' = [slots EXCEPT ![polled] = @ - 1]
        BY <1>4, <3>6 DEF DeliverTo, Finalize
      <4>2. slots'[e] = slots[e] - 1
        BY <4>1, <3>6, <2>1, <2>3
      <4>3. Offer(e)' = 0
        BY <3>6 DEF Offer
      <4> QED
        BY <4>2, <4>3, <3>2, <3>6, <2>2, <2>4, Numbers DEF Account
    <3> QED
      BY <3>3, <3>4, <3>5, <3>6
  <2> QED
    BY <2>5, <2>6
<1>5. ASSUME NEW c \in Cell, Takes(c) PROVE Account(e)'
  <2>1. queue[c] # <<>> /\ loop[c] \in {"select", "idling"}
    BY <1>5 DEF Takes, Receive
  <2>2. /\ Head(queue[c]) \in Event /\ Head(queue[c]) \notin Range(Tail(queue[c]))
        /\ Range(queue[c]) = Range(Tail(queue[c])) \cup {Head(queue[c])}
    BY <2>1, FirstTaken
  <2>3. /\ queue' = [queue EXCEPT ![c] = Tail(@)] /\ hand' = [hand EXCEPT ![c] = Head(queue[c])]
        /\ slots' = slots
    BY <1>5 DEF Takes, Receive
  <2>4. Offer(e)' = Offer(e)
    BY <1>5 DEF Takes, Offer
  <2>5. hand[c] = NoEvent /\ e # NoEvent
    BY <2>1 DEF IInv, Owned, Event, NoEvent
  <2>6. Queued(e)' = IF e = Head(queue[c]) THEN Queued(e) \ {c} ELSE Queued(e)
    BY <2>2, <2>3 DEF Queued, IInv, TypeOK, EventsTypeOK
  <2>7. InHand(e)' = IF e = Head(queue[c]) THEN InHand(e) \cup {c} ELSE InHand(e)
    BY <2>3, <2>5 DEF InHand, IInv, TypeOK, EventsTypeOK
  <2>8. CASE e # Head(queue[c])
    BY <2>3, <2>4, <2>6, <2>7, <2>8, Numbers DEF Account
  <2>9. CASE e = Head(queue[c])
    <3>1. c \in Queued(e) /\ c \notin InHand(e)
      BY <2>2, <2>5, <2>9 DEF Queued, InHand
    <3>2. Queued(e) \in SUBSET Cell /\ InHand(e) \in SUBSET Cell
      BY Numbers
    <3>3. Cardinality(Queued(e)') = Cardinality(Queued(e)) - 1
      BY <2>6, <2>9, <3>1, <3>2, Owners
    <3>4. Cardinality(InHand(e)') = Cardinality(InHand(e)) + 1
      BY <2>7, <2>9, <3>1, <3>2, Owners
    <3> QED
      BY <2>3, <2>4, <3>3, <3>4, Numbers DEF Account
  <2> QED
    BY <2>8, <2>9
<1>6. ASSUME NEW c \in Cell, Ends(c) PROVE Account(e)'
  <2>1. hand[c] \in Event
    BY <1>6, Held DEF Ends
  <2>2. queue' = queue /\ slots' = [slots EXCEPT ![hand[c]] = @ - 1]
        /\ hand' = [hand EXCEPT ![c] = NoEvent]
    BY <1>6 DEF Ends, EndEvent, Finalize
  <2>3. Offer(e)' = Offer(e)
    BY <1>6 DEF Ends, Offer
  <2>4. Queued(e)' = Queued(e)
    BY <2>2 DEF Queued
  <2>5. e # NoEvent
    BY DEF Event, NoEvent
  <2>6. InHand(e)' = IF e = hand[c] THEN InHand(e) \ {c} ELSE InHand(e)
    BY <2>2, <2>5 DEF InHand, IInv, TypeOK, EventsTypeOK
  <2>7. slots'[e] = IF e = hand[c] THEN slots[e] - 1 ELSE slots[e]
    BY <2>1, <2>2 DEF IInv, TypeOK, EventsTypeOK
  <2>8. CASE e # hand[c]
    BY <2>3, <2>4, <2>6, <2>7, <2>8, Numbers DEF Account
  <2>9. CASE e = hand[c]
    <3>1. c \in InHand(e) /\ InHand(e) \in SUBSET Cell
      BY <2>9, Numbers DEF InHand
    <3>2. Cardinality(InHand(e)') = Cardinality(InHand(e)) - 1
      BY <2>6, <2>9, <3>1, Owners
    <3> QED
      BY <2>3, <2>4, <2>7, <2>9, <3>2, Numbers DEF Account
  <2> QED
    BY <2>8, <2>9
<1>7. ASSUME NEW c \in Cell, PutsBack(c) PROVE Account(e)'
  <2>1. hand[c] \in Event /\ hand[c] \notin Range(queue[c]) /\ Len(queue[c]) < ChanSize
    BY <1>7, Held DEF PutsBack
  <2>2. Range(Append(queue[c], hand[c])) = Range(queue[c]) \cup {hand[c]}
    BY <2>1, LastAdded
  <2>3. /\ queue' = [queue EXCEPT ![c] = Append(@, hand[c])] /\ hand' = [hand EXCEPT ![c] = NoEvent]
        /\ slots' = slots
    BY <1>7 DEF PutsBack
  <2>4. Offer(e)' = Offer(e)
    BY <1>7 DEF PutsBack, Offer
  <2>5. e # NoEvent
    BY DEF Event, NoEvent
  <2>6. Queued(e)' = IF e = hand[c] THEN Queued(e) \cup {c} ELSE Queued(e)
    BY <2>2, <2>3 DEF Queued, IInv, TypeOK, EventsTypeOK
  <2>7. InHand(e)' = IF e = hand[c] THEN InHand(e) \ {c} ELSE InHand(e)
    BY <2>3, <2>5 DEF InHand, IInv, TypeOK, EventsTypeOK
  <2>8. CASE e # hand[c]
    BY <2>3, <2>4, <2>6, <2>7, <2>8, Numbers DEF Account
  <2>9. CASE e = hand[c]
    <3>1. c \notin Queued(e) /\ c \in InHand(e)
      BY <2>1, <2>9 DEF Queued, InHand
    <3>2. Queued(e) \in SUBSET Cell /\ InHand(e) \in SUBSET Cell
      BY Numbers
    <3>3. Cardinality(Queued(e)') = Cardinality(Queued(e)) + 1
      BY <2>6, <2>9, <3>1, <3>2, Owners
    <3>4. Cardinality(InHand(e)') = Cardinality(InHand(e)) - 1
      BY <2>7, <2>9, <3>1, <3>2, Owners
    <3> QED
      BY <2>3, <2>4, <3>3, <3>4, Numbers DEF Account
  <2> QED
    BY <2>8, <2>9
<1>8. ASSUME NEW c \in Cell, Drops(c) PROVE Account(e)'
  <2>1. queue[c] # <<>>
    BY <1>8 DEF Drops
  <2>2. /\ Head(queue[c]) \in Event /\ Head(queue[c]) \notin Range(Tail(queue[c]))
        /\ Range(queue[c]) = Range(Tail(queue[c])) \cup {Head(queue[c])}
    BY <2>1, FirstTaken
  <2>3. /\ queue' = [queue EXCEPT ![c] = Tail(@)] /\ hand' = hand
        /\ slots' = [slots EXCEPT ![Head(queue[c])] = @ - 1]
    BY <1>8 DEF Drops, Finalize
  <2>4. Offer(e)' = Offer(e)
    BY <1>8 DEF Drops, Offer
  <2>5. InHand(e)' = InHand(e)
    BY <2>3 DEF InHand
  <2>6. Queued(e)' = IF e = Head(queue[c]) THEN Queued(e) \ {c} ELSE Queued(e)
    BY <2>2, <2>3 DEF Queued, IInv, TypeOK, EventsTypeOK
  <2>7. slots'[e] = IF e = Head(queue[c]) THEN slots[e] - 1 ELSE slots[e]
    BY <2>2, <2>3 DEF IInv, TypeOK, EventsTypeOK
  <2>8. CASE e # Head(queue[c])
    BY <2>4, <2>5, <2>6, <2>7, <2>8, Numbers DEF Account
  <2>9. CASE e = Head(queue[c])
    <3>1. c \in Queued(e) /\ Queued(e) \in SUBSET Cell
      BY <2>2, <2>9, Numbers DEF Queued
    <3>2. Cardinality(Queued(e)') = Cardinality(Queued(e)) - 1
      BY <2>6, <2>9, <3>1, Owners
    <3> QED
      BY <2>4, <2>5, <2>7, <2>9, <3>2, Numbers DEF Account
  <2> QED
    BY <2>8, <2>9
<1> QED
  BY <1>1, <1>2, <1>3, <1>4, <1>5, <1>6, <1>7, <1>8 DEF Effect

\* Slots are numbers.
LEMMA SlotNumbers == IInv /\ Effect => slots' \in [Event -> Int]
<1> SUFFICES ASSUME IInv, Effect PROVE slots' \in [Event -> Int]
  OBVIOUS
<1>1. CASE Calm
  BY <1>1 DEF Calm, IInv, TypeOK, EventsTypeOK
<1>2. CASE PollUnknown
  BY <1>2 DEF PollUnknown, loopVars, cellVars, IInv, TypeOK, EventsTypeOK
<1>3. ASSUME NEW ts \in {{c} : c \in Cell} \cup {Cell}, Poll(ts) PROVE slots' \in [Event -> Int]
  <2>1. slots \in [Event -> Int] /\ slots' = [slots EXCEPT ![polled + 1] = 1]
    BY <1>3 DEF Poll, IInv, TypeOK, EventsTypeOK
  <2>2. polled + 1 \in Event
    BY <1>3, EventBoundsAssumption DEF Poll, Event, IInv, TypeOK, EventsTypeOK
  <2> QED
    BY <2>1, <2>2
<1>4. ASSUME NEW c \in Cell, DeliverTo(c) PROVE slots' \in [Event -> Int]
  BY <1>4 DEF DeliverTo, Deliver, Finalize, Due, IInv, TypeOK, EventsTypeOK
<1>5. ASSUME NEW c \in Cell, Takes(c) PROVE slots' \in [Event -> Int]
  BY <1>5 DEF Takes, Receive, Goto, IInv, TypeOK, EventsTypeOK
<1>6. ASSUME NEW c \in Cell, Ends(c) PROVE slots' \in [Event -> Int]
  <2>1. slots \in [Event -> Int] /\ slots' = [slots EXCEPT ![hand[c]] = @ - 1] /\ hand[c] \in Event
    BY <1>6, Held DEF Ends, EndEvent, Finalize, IInv, TypeOK, EventsTypeOK
  <2> QED
    BY <2>1
<1>7. ASSUME NEW c \in Cell, PutsBack(c) PROVE slots' \in [Event -> Int]
  BY <1>7 DEF PutsBack, Goto, IInv, TypeOK, EventsTypeOK
<1>8. ASSUME NEW c \in Cell, Drops(c) PROVE slots' \in [Event -> Int]
  <2>1. Head(queue[c]) \in Event
    BY <1>8, FirstTaken DEF Drops
  <2>2. slots \in [Event -> Int] /\ slots' = [slots EXCEPT ![Head(queue[c])] = @ - 1]
    BY <1>8 DEF Drops, Finalize, IInv, TypeOK, EventsTypeOK
  <2> QED
    BY <2>1, <2>2
<1> QED
  BY <1>1, <1>2, <1>3, <1>4, <1>5, <1>6, <1>7, <1>8 DEF Effect

\* So slots stay natural numbers, and accounted for.
LEMMA KeepsSlots == IInv /\ Effect => (SlotsAccounted /\ slots \in [Event -> Nat])'
<1> SUFFICES ASSUME IInv, Effect PROVE (SlotsAccounted /\ slots \in [Event -> Nat])'
  OBVIOUS
<1>1. \A e \in Event : Account(e)'
  BY KeepsAccount
<1>2. SlotsAccounted'
  BY <1>1, AccountsNext
<1>3. slots' \in [Event -> Int]
  BY SlotNumbers
<1>4. \A e \in Event : slots'[e] \in Nat
  BY <1>1, NumbersNext DEF Account, Offer
<1> QED
  BY <1>2, <1>3, <1>4

----------------------------------------------------------------------------
(* the invariant *)

\* The invariant holds at the start,
LEMMA Starts == Init => IInv
<1> SUFFICES ASSUME Init PROVE IInv
  OBVIOUS
<1> USE DEF Init, EventsInit
<1>1. \A c \in Cell : queue[c] = <<>> /\ hand[c] = NoEvent
  OBVIOUS
<1>2. /\ <<>> \in SeqOf(Event, ChanSize) /\ Range(<<>>) = {}
      /\ Distinct(<<>>) /\ Ascending(<<>>)
  <2>1. <<>> \in Seq(Event) /\ Len(<<>>) = 0 /\ DOMAIN <<>> = {}
    BY EmptySeq
  <2>2. <<>> \in SeqOf(Event, ChanSize)
    <3>1. Len(<<>>) <= ChanSize
      BY <2>1, ChanSizeAssumption
    <3> QED
      BY <3>1, <2>1, ChannelIsSeq, ChanSizeAssumption
  <2>3. Range(<<>>) = {}
    BY <2>1 DEF Range
  <2>4. 1..Len(<<>>) = {}
    BY <2>1
  <2> QED
    BY <2>2, <2>3, <2>4 DEF Distinct, Ascending
<1>3. EventsTypeOK
  <2>1. failed \in [Cell -> BOOLEAN]
    <3>1. failed = [c \in Cell |-> c \in FailedAtStart]
      OBVIOUS
    <3>2. \A c \in Cell : (c \in FailedAtStart) \in BOOLEAN
      OBVIOUS
    <3> HIDE DEF Init, EventsInit
    <3> QED
      BY <3>1, <3>2
  <2>2. queue \in [Cell -> SeqOf(Event, ChanSize)]
    BY <1>2
  <2>3. hand \in [Cell -> Event \cup {NoEvent}] /\ newest \in [Cell -> Event \cup {NoEvent}]
    OBVIOUS
  <2>4. restarts \in [Cell -> 0..RestartLimit] /\ slots \in [Event -> Nat]
        /\ polled \in 0..MaxEvents /\ traps \in 0..MaxTraps
    BY EventBoundsAssumption
  <2> QED
    BY <2>1, <2>2, <2>3, <2>4 DEF EventsTypeOK, Loop
<1>4. TypeOK
  BY <1>3, MaxReloadsAssumption DEF TypeOK, NoOp, Do, OpAt, Main
<1>5. Owned
  BY <1>1 DEF Owned
<1>6. Once
  BY <1>1, <1>2 DEF Once
<1>7. Past
  BY <1>1, <1>2 DEF Past, NoEvent
<1>8. Sorted
  BY <1>1, <1>2 DEF Sorted, InOrder, NoEvent
<1>9. Reloading
  BY DEF Reloading, NoOp, Working
<1>10. Emptied
  BY DEF Emptied, Ending
<1>11. SlotsAccounted
  <2> SUFFICES ASSUME NEW e \in Event PROVE Account(e)
    BY Accounts
  <2>1. Queued(e) = {}
    BY <1>1, <1>2 DEF Queued
  <2>2. InHand(e) = {}
    BY <1>1 DEF InHand, Event, NoEvent
  <2> QED
    BY <2>1, <2>2, FS_EmptySet DEF Account, Offer
<1> QED
  BY <1>4, <1>5, <1>6, <1>7, <1>8, <1>9, <1>10, <1>11 DEF IInv

\* and every step keeps it.
LEMMA Steps == IInv /\ [Next]_vars => IInv'
<1> SUFFICES ASSUME IInv, [Next]_vars PROVE IInv'
  OBVIOUS
<1>1. Effect
  BY StepEffects
<1>2. TypeOK'
  BY <1>1, HostTypes, OpTypes, LoopTypes, FlagTypes, ChannelTypes, KeepsSlots
     DEF TypeOK, EventsTypeOK, HostTypeOK, OpTypeOK, LoopTypeOK, FlagTypeOK, ChannelTypeOK
<1>3. (Owned /\ Once /\ Past /\ Sorted)'
  BY <1>1, KeepsOwned, KeepsOnce, KeepsPast, KeepsSorted
<1>4. (Reloading /\ Emptied)'
  BY KeepsReloading, KeepsEmptied
<1>5. SlotsAccounted'
  BY <1>1, KeepsSlots
<1> QED
  BY <1>2, <1>3, <1>4, <1>5 DEF IInv

\* The invariant holds in every state of the host, for any set of cells, any
\* number of connections, and whichever cells failed while booting.
THEOREM HostInvariant == Spec => []IInv
<1>1. Init => IInv
  BY Starts
<1>2. IInv /\ [Next]_vars => IInv'
  BY Steps
<1> QED
  BY <1>1, <1>2, PTL DEF Spec

\* Every variable keeps its type; a channel never outgrows its buffer.
THEOREM HostTypesOK == Spec => []TypeOK
<1>1. IInv => TypeOK
  BY DEF IInv
<1> QED
  BY <1>1, HostInvariant, PTL

\* No slot is lost or freed twice: Finalize is still to be called for an event
\* exactly as often as the event has owners, through deliver, the push-back of
\* stepLoop, superviseTrap, and the drains of ops.go and run.Main.
THEOREM SlotsAreAccounted == Spec => []SlotsAccounted
<1>1. IInv => SlotsAccounted
  BY DEF IInv
<1> QED
  BY <1>1, HostInvariant, PTL

\* The step loop of a cell without inbound transport never steps its module
\* with an event older than one it was stepped with before.
THEOREM EventsInOrder == Spec => []EventOnlyCellsInOrder
<1>1. IInv => EventOnlyCellsInOrder
  <2> SUFFICES ASSUME IInv, NEW c \in Cell \ Inbound, loop[c] = "step" PROVE hand[c] > newest[c]
    BY DEF EventOnlyCellsInOrder
  <2>1. newest[c] < hand[c]
    BY DEF IInv, Sorted, InOrder
  <2> QED
    BY <2>1, Older
<1> QED
  BY <1>1, HostInvariant, PTL

\* When run.Main has returned and no loop runs, every slot is free: the final
\* drain leaves nothing queued, and a cell that a late reload started cannot
\* fill a channel again.
THEOREM ExitIsQuiet == Spec => []QuietExit
<1>1. IInv => QuietExit
  <2> SUFFICES ASSUME IInv, main = "exited", \A c \in Cell : loop[c] = "off", NEW e \in Event
               PROVE  slots[e] = 0
    BY DEF QuietExit
  <2>1. \A c \in Cell : queue[c] = <<>> /\ poller = "done"
    BY DEF IInv, Emptied, Ending
  <2>2. Range(<<>>) = {}
    BY EmptySeq DEF Range
  <2>3. Queued(e) = {}
    BY <2>1, <2>2 DEF Queued
  <2>4. \A c \in Cell : hand[c] = NoEvent
    BY DEF IInv, Owned
  <2>5. InHand(e) = {}
    BY <2>4 DEF InHand, Event, NoEvent
  <2>6. pend = {}
    BY <2>1, CellAssumption DEF IInv, Past
  <2>7. Offer(e) = 0
    BY <2>6 DEF Offer
  <2>8. slots[e] = Cardinality(Queued(e)) + Cardinality(InHand(e)) + Offer(e)
    BY Numbers DEF Account
  <2>9. Cardinality({}) = 0
    BY FS_EmptySet
  <2> QED
    BY <2>3, <2>5, <2>7, <2>8, <2>9
<1> QED
  BY <1>1, HostInvariant, PTL

----------------------------------------------------------------------------
(* joining the loops *)

\* Nobody disturbs the loop that a connection has joined, but a reload that
\* overtakes a shutdown.
LEMMA KeepsJoined == IInv /\ Joined /\ [Next]_vars => Joined'
<1> SUFFICES ASSUME IInv, Joined, [Next]_vars PROVE Joined'
  OBVIOUS
<1> USE DEF IInv, TypeOK, EventsTypeOK, Joined, Overtaken, On, At, NoOp, eventVars, pollVars, loopVars,
    cellVars, hostVars, mainVars
<1>1. ASSUME NEW ts \in {{c} : c \in Cell} \cup {Cell}, Poll(ts) /\ UNCHANGED hostVars PROVE Joined'
  BY <1>1 DEF Poll
<1>2. CASE PollUnknown /\ UNCHANGED hostVars
  BY <1>2 DEF PollUnknown
<1>3. ASSUME NEW c \in Cell, DeliverTo(c) /\ UNCHANGED hostVars PROVE Joined'
  BY <1>3 DEF DeliverTo, Deliver, Due, Finalize
<1>4. CASE PollsterStops /\ UNCHANGED hostVars
  BY <1>4 DEF PollsterStops
<1>5. ASSUME NEW c \in Cell, LoopReturns(c) /\ UNCHANGED hostVars PROVE Joined'
  BY <1>5 DEF LoopReturns, Goto
<1>6. ASSUME NEW c \in Cell, TakeEvent(c) /\ UNCHANGED hostVars PROVE Joined'
  BY <1>6 DEF TakeEvent, Receive, Goto
<1>7. ASSUME NEW c \in Cell, EncodeFails(c) /\ UNCHANGED hostVars PROVE Joined'
  BY <1>7 DEF EncodeFails, EndEvent, Finalize, Goto
<1>8. ASSUME NEW c \in Cell, StepReturns(c) /\ UNCHANGED hostVars PROVE Joined'
  BY <1>8 DEF StepReturns, Stepped, EndEvent, Finalize, Goto
<1>9. ASSUME NEW c \in Cell, StepFails(c) /\ UNCHANGED hostVars PROVE Joined'
  BY <1>9 DEF StepFails, StepError, SuperviseTrap, Left, Stepped, EndEvent, Finalize, Goto
<1>10. ASSUME NEW c \in Cell, Tick(c) /\ UNCHANGED hostVars PROVE Joined'
  BY <1>10 DEF Tick, MayTick, Goto
<1>11. ASSUME NEW c \in Cell, TickFails(c) /\ UNCHANGED hostVars PROVE Joined'
  BY <1>11 DEF TickFails, MayTick, StepError, SuperviseTrap, Left, Goto
<1>12. ASSUME NEW c \in Cell, IdleTimer(c) /\ UNCHANGED hostVars PROVE Joined'
  BY <1>12 DEF IdleTimer, Goto
<1>13. ASSUME NEW c \in Cell, IdleWakes(c) /\ UNCHANGED hostVars PROVE Joined'
  BY <1>13 DEF IdleWakes, Receive, Goto
<1>14. ASSUME NEW c \in Cell, PushBack(c) /\ UNCHANGED hostVars PROVE Joined'
  BY <1>14 DEF PushBack, EndEvent, Finalize, Goto
<1>15. ASSUME NEW k \in Conn, NEW c \in Cell, RequestShutdown(k, c) PROVE Joined'
  <2>1. op' = [op EXCEPT ![k] = [do |-> "shutdown", at |-> "join", on |-> {c}, left |-> {}]]
    BY <1>15 DEF RequestShutdown, Request
  <2>2. op'[k].at = "join" /\ op'[k].on = {c} /\ \A j \in Conn \ {k} : op'[j] = op[j]
    BY <2>1
  <2>3. On(k)' = c /\ \A j \in Conn \ {k} : On(j)' = On(j)
    BY <2>2 DEF On
  <2>4. /\ stepDone' = stepDone /\ cancelled'[c] /\ \A x \in Cell : cancelled[x] => cancelled'[x]
        /\ revived' = revived /\ stopped' = stopped \cup {c}
    BY <1>15 DEF RequestShutdown, Request, Cancel
  <2> HIDE DEF On
  <2> QED
    BY <2>2, <2>3, <2>4, OnCell DEF Working
<1>16. ASSUME NEW k \in Conn, NEW c \in Cell, RequestReload(k, c) PROVE Joined'
  <2>1. op' = [op EXCEPT ![k] = [do |-> "reload", at |-> "join", on |-> {c}, left |-> {}]]
    BY <1>16 DEF RequestReload, Request
  <2>2. /\ op'[k].at = "join" /\ op'[k].on = {c} /\ op'[k].do = "reload"
        /\ \A j \in Conn \ {k} : op'[j] = op[j]
    BY <2>1
  <2>3. On(k)' = c /\ \A j \in Conn \ {k} : On(j)' = On(j)
    BY <2>2 DEF On
  <2>4. /\ stepDone' = stepDone /\ cancelled'[c] /\ \A x \in Cell : cancelled[x] => cancelled'[x]
        /\ revived' = revived /\ stopped' = stopped
    BY <1>16 DEF RequestReload, Request, Cancel
  <2> HIDE DEF On
  <2> QED
    BY <2>2, <2>3, <2>4, OnCell DEF Working
<1>17. ASSUME NEW k \in Conn, RequestShutdownAll(k) PROVE Joined'
  BY <1>17 DEF RequestShutdownAll, Request
<1>18. ASSUME NEW k \in Conn, NextCell(k) PROVE Joined'
  BY <1>18 DEF NextCell
<1>19. ASSUME NEW k \in Conn, Mark(k) PROVE Joined'
  <2>1. On(k) \in Cell /\ op[k].at = "mark"
    BY <1>19, OnCell DEF Mark, Working
  <2>2. CASE On(k) \in stopped
    <3>1. Return(k) /\ UNCHANGED <<stepDone, cancelled, stopped, revived>>
      BY <1>19, <2>2 DEF Mark
    <3>2. op'[k].at \in {"none", "next"} /\ \A j \in Conn \ {k} : op'[j] = op[j]
      BY <3>1 DEF Return
    <3>3. \A j \in Conn \ {k} : On(j)' = On(j)
      BY <3>2 DEF On
    <3> HIDE DEF On
    <3> QED
      BY <3>1, <3>2, <3>3
  <2>3. CASE On(k) \notin stopped
    <3>1. Go(k, "join") /\ UNCHANGED <<stepDone, revived>> /\ stopped' = stopped \cup {On(k)}
      BY <1>19, <2>3 DEF Mark
    <3>2. cancelled'[On(k)] /\ \A x \in Cell : cancelled[x] => cancelled'[x]
      <4> HIDE DEF On
      <4>1. Cancel({On(k)})
        BY <1>19, <2>3 DEF Mark
      <4> QED
        BY <2>1, <4>1 DEF Cancel
    <3>3. op'[k].at = "join" /\ op'[k].on = op[k].on /\ \A j \in Conn \ {k} : op'[j] = op[j]
      BY <3>1 DEF Go
    <3>4. \A j \in Conn : On(j)' = On(j)
      BY <3>3 DEF On
    <3> HIDE DEF On
    <3> QED
      BY <3>1, <3>2, <3>3, <3>4, OnCell DEF Working
  <2> QED
    BY <2>2, <2>3
<1>20. ASSUME NEW k \in Conn, Join(k) PROVE Joined'
  BY <1>20 DEF Join, Go
<1>21. ASSUME NEW k \in Conn, ShutDown(k) PROVE Joined'
  BY <1>21 DEF ShutDown, Go
<1>22. ASSUME NEW k \in Conn, CloseCell(k) PROVE Joined'
  <2>1. op' = [op EXCEPT ![k].at = "drain"] /\ op[k].at = "close"
        /\ UNCHANGED <<stepDone, cancelled, stopped, revived>>
    BY <1>22 DEF CloseCell, Go
  <2>2. /\ op'[k].at = "drain" /\ op'[k].on = op[k].on /\ op'[k].do = op[k].do
        /\ \A j \in Conn \ {k} : op'[j] = op[j]
    BY <2>1
  <2>3. \A j \in Conn : On(j)' = On(j)
    BY <2>2 DEF On
  <2> HIDE DEF On
  <2> QED
    BY <2>1, <2>2, <2>3
<1>23. ASSUME NEW k \in Conn, Drain(k) PROVE Joined'
  BY <1>23 DEF Drain, DrainOne, Finalize
<1>24. ASSUME NEW k \in Conn, ShutdownDone(k) PROVE Joined'
  BY <1>24 DEF ShutdownDone, Return
<1>25. ASSUME NEW k \in Conn, Refresh(k) PROVE Joined'
  <2>1. /\ op' = [op EXCEPT ![k].at = "load"] /\ op[k].at = "drain" /\ op[k].do = "reload"
        /\ stepDone' = stepDone /\ stopped' = stopped /\ revived' = revived
    BY <1>25 DEF Refresh, Go
  <2>2. /\ op'[k].at = "load" /\ op'[k].on = op[k].on /\ op'[k].do = op[k].do
        /\ \A j \in Conn \ {k} : op'[j] = op[j]
    BY <2>1
  <2>3. \A j \in Conn : On(j)' = On(j)
    BY <2>2 DEF On
  <2> HIDE DEF On
  <2>4. stepDone[On(k)] /\ On(k) \in Cell
    BY <2>1, OnCell DEF Reloading, Working
  <2>5. \A x \in Cell \ {On(k)} : cancelled'[x] = cancelled[x]
    BY <1>25, <2>4 DEF Refresh
  <2> QED
    BY <2>1, <2>2, <2>3, <2>4, <2>5, OnCell DEF Working
<1>26. ASSUME NEW k \in Conn, LoadOk(k) PROVE Joined'
  <2>1. op[k].do = "reload" /\ reloadMu = {k}
    BY <1>26 DEF LoadOk, Reloading
  <2>2. op' = [op EXCEPT ![k] = NoOp] /\ stopped' = stopped /\ cancelled' = cancelled
    BY <1>26, <2>1 DEF LoadOk, Return
  <2>3. op'[k].at = "none" /\ \A j \in Conn \ {k} : op'[j] = op[j] /\ op[j].do # "reload"
    BY <2>1, <2>2 DEF Reloading
  <2>4. \A j \in Conn \ {k} : On(j)' = On(j)
    BY <2>3 DEF On
  <2> HIDE DEF On
  <2>5. /\ \A x \in Cell \ {On(k)} : stepDone'[x] = stepDone[x]
        /\ revived' = revived \cup ({On(k)} \cap stopped)
    BY <1>26 DEF LoadOk
  <2>6. SUFFICES ASSUME NEW j \in Conn \ {k}, op[j].at \in {"join", "down", "close", "drain", "load"}
                 PROVE  /\ op[j].at # "load" /\ On(j) \in stopped
                        /\ op[j].at # "join" => stepDone'[On(j)] \/ On(j) \in revived'
                        /\ op[j].at = "join" =>
                              cancelled[On(j)] \/ stepDone'[On(j)] \/ On(j) \in revived'
    BY <2>2, <2>3, <2>4
  <2>7. op[j].at # "load" /\ On(j) \in stopped
    BY <2>3, <2>6 DEF Reloading
  <2>8. On(j) \in Cell
    BY <2>6, OnCell DEF Working
  <2> QED
    BY <2>3, <2>5, <2>6, <2>7, <2>8
<1>27. ASSUME NEW k \in Conn, LoadError(k) PROVE Joined'
  BY <1>27 DEF LoadError, Return
<1>28. CASE Signal
  BY <1>28 DEF Signal, MainGoes
<1>29. CASE AllShutdown
  BY <1>29 DEF AllShutdown, MainGoes
<1>30. CASE PollstersJoined
  <2>1. UNCHANGED <<op, stepDone, stopped, revived>> /\ \A x \in Cell : cancelled'[x]
    BY <1>30 DEF PollstersJoined, Cancel
  <2>2. \A j \in Conn : On(j)' = On(j)
    BY <2>1 DEF On
  <2> HIDE DEF On
  <2> QED
    BY <2>1, <2>2, OnCell DEF Working
<1>31. CASE StepsJoined
  BY <1>31 DEF StepsJoined, MainGoes
<1>32. ASSUME NEW c \in Cell, MainDrains(c) PROVE Joined'
  BY <1>32 DEF MainDrains, DrainOne, Finalize, Drained
<1>33. CASE MainDrained
  BY <1>33 DEF MainDrained, MainGoes
<1>34. ASSUME NEW c \in Cell, MainPicks(c) PROVE Joined'
  BY <1>34 DEF MainPicks
<1>35. CASE MainCloses
  BY <1>35 DEF MainCloses, MainGoes
<1>36. CASE TearDown
  BY <1>36 DEF TearDown, MainGoes
<1>37. CASE Exit
  BY <1>37 DEF Exit, MainGoes
<1>38. CASE UNCHANGED vars
  BY <1>38 DEF vars
<1> QED
  BY <1>1, <1>2, <1>3, <1>4, <1>5, <1>6, <1>7, <1>8, <1>9, <1>10, <1>11, <1>12, <1>13, <1>14,
     <1>15, <1>16, <1>17, <1>18, <1>19, <1>20, <1>21, <1>22, <1>23, <1>24, <1>25, <1>26, <1>27,
     <1>28, <1>29, <1>30, <1>31, <1>32, <1>33, <1>34, <1>35, <1>36, <1>37, <1>38 DEF Next,
     PollStep, LoopStep, OpStep, MainStep

\* A loop that is off has closed its channel.
LEMMA KeepsLoopsReturn == IInv /\ LoopsReturn /\ [Next]_vars => LoopsReturn'
<1> SUFFICES ASSUME IInv, LoopsReturn, [Next]_vars PROVE LoopsReturn'
  OBVIOUS
<1> USE DEF IInv, TypeOK, EventsTypeOK, LoopsReturn, eventVars, pollVars, loopVars, cellVars,
    hostVars, mainVars
<1>1. ASSUME NEW ts \in {{c} : c \in Cell} \cup {Cell}, Poll(ts)
      /\ UNCHANGED hostVars PROVE LoopsReturn'
  BY <1>1 DEF Poll
<1>2. CASE PollUnknown /\ UNCHANGED hostVars
  BY <1>2 DEF PollUnknown
<1>3. ASSUME NEW c \in Cell, DeliverTo(c) /\ UNCHANGED hostVars PROVE LoopsReturn'
  BY <1>3 DEF DeliverTo, Deliver, Due, Finalize
<1>4. CASE PollsterStops /\ UNCHANGED hostVars
  BY <1>4 DEF PollsterStops
<1>5. ASSUME NEW c \in Cell, LoopReturns(c) /\ UNCHANGED hostVars PROVE LoopsReturn'
  BY <1>5 DEF LoopReturns, Goto
<1>6. ASSUME NEW c \in Cell, TakeEvent(c) /\ UNCHANGED hostVars PROVE LoopsReturn'
  BY <1>6 DEF TakeEvent, Receive, Goto
<1>7. ASSUME NEW c \in Cell, EncodeFails(c) /\ UNCHANGED hostVars PROVE LoopsReturn'
  BY <1>7 DEF EncodeFails, EndEvent, Finalize, Goto
<1>8. ASSUME NEW c \in Cell, StepReturns(c) /\ UNCHANGED hostVars PROVE LoopsReturn'
  BY <1>8 DEF StepReturns, Stepped, EndEvent, Finalize, Goto
<1>9. ASSUME NEW c \in Cell, StepFails(c) /\ UNCHANGED hostVars PROVE LoopsReturn'
  BY <1>9 DEF StepFails, StepError, SuperviseTrap, Left, Stepped, EndEvent, Finalize, Goto
<1>10. ASSUME NEW c \in Cell, Tick(c) /\ UNCHANGED hostVars PROVE LoopsReturn'
  BY <1>10 DEF Tick, MayTick, Goto
<1>11. ASSUME NEW c \in Cell, TickFails(c) /\ UNCHANGED hostVars PROVE LoopsReturn'
  BY <1>11 DEF TickFails, MayTick, StepError, SuperviseTrap, Left, Goto
<1>12. ASSUME NEW c \in Cell, IdleTimer(c) /\ UNCHANGED hostVars PROVE LoopsReturn'
  BY <1>12 DEF IdleTimer, Goto
<1>13. ASSUME NEW c \in Cell, IdleWakes(c) /\ UNCHANGED hostVars PROVE LoopsReturn'
  BY <1>13 DEF IdleWakes, Receive, Goto
<1>14. ASSUME NEW c \in Cell, PushBack(c) /\ UNCHANGED hostVars PROVE LoopsReturn'
  BY <1>14 DEF PushBack, EndEvent, Finalize, Goto
<1>15. ASSUME NEW k \in Conn, NEW c \in Cell, RequestShutdown(k, c) PROVE LoopsReturn'
  BY <1>15 DEF RequestShutdown, Request, Cancel
<1>16. ASSUME NEW k \in Conn, NEW c \in Cell, RequestReload(k, c) PROVE LoopsReturn'
  BY <1>16 DEF RequestReload, Request, Cancel
<1>17. ASSUME NEW k \in Conn, RequestShutdownAll(k) PROVE LoopsReturn'
  BY <1>17 DEF RequestShutdownAll, Request
<1>18. ASSUME NEW k \in Conn, NextCell(k) PROVE LoopsReturn'
  BY <1>18 DEF NextCell
<1>19. ASSUME NEW k \in Conn, Mark(k) PROVE LoopsReturn'
  BY <1>19 DEF Mark, Return, Go, Cancel
<1>20. ASSUME NEW k \in Conn, Join(k) PROVE LoopsReturn'
  BY <1>20 DEF Join, Go
<1>21. ASSUME NEW k \in Conn, ShutDown(k) PROVE LoopsReturn'
  BY <1>21 DEF ShutDown, Go
<1>22. ASSUME NEW k \in Conn, CloseCell(k) PROVE LoopsReturn'
  BY <1>22 DEF CloseCell, Go
<1>23. ASSUME NEW k \in Conn, Drain(k) PROVE LoopsReturn'
  BY <1>23 DEF Drain, DrainOne, Finalize
<1>24. ASSUME NEW k \in Conn, ShutdownDone(k) PROVE LoopsReturn'
  BY <1>24 DEF ShutdownDone, Return
<1>25. ASSUME NEW k \in Conn, Refresh(k) PROVE LoopsReturn'
  BY <1>25 DEF Refresh, Go
<1>26. ASSUME NEW k \in Conn, LoadOk(k) PROVE LoopsReturn'
  BY <1>26 DEF LoadOk, Return
<1>27. ASSUME NEW k \in Conn, LoadError(k) PROVE LoopsReturn'
  BY <1>27 DEF LoadError, Return
<1>28. CASE Signal
  BY <1>28 DEF Signal, MainGoes
<1>29. CASE AllShutdown
  BY <1>29 DEF AllShutdown, MainGoes
<1>30. CASE PollstersJoined
  BY <1>30 DEF PollstersJoined, MainGoes, Cancel
<1>31. CASE StepsJoined
  BY <1>31 DEF StepsJoined, MainGoes
<1>32. ASSUME NEW c \in Cell, MainDrains(c) PROVE LoopsReturn'
  BY <1>32 DEF MainDrains, DrainOne, Finalize, Drained
<1>33. CASE MainDrained
  BY <1>33 DEF MainDrained, MainGoes
<1>34. ASSUME NEW c \in Cell, MainPicks(c) PROVE LoopsReturn'
  BY <1>34 DEF MainPicks
<1>35. CASE MainCloses
  BY <1>35 DEF MainCloses, MainGoes
<1>36. CASE TearDown
  BY <1>36 DEF TearDown, MainGoes
<1>37. CASE Exit
  BY <1>37 DEF Exit, MainGoes
<1>38. CASE UNCHANGED vars
  BY <1>38 DEF vars
<1> QED
  BY <1>1, <1>2, <1>3, <1>4, <1>5, <1>6, <1>7, <1>8, <1>9, <1>10, <1>11, <1>12, <1>13, <1>14,
     <1>15, <1>16, <1>17, <1>18, <1>19, <1>20, <1>21, <1>22, <1>23, <1>24, <1>25, <1>26, <1>27,
     <1>28, <1>29, <1>30, <1>31, <1>32, <1>33, <1>34, <1>35, <1>36, <1>37, <1>38 DEF Next,
     PollStep, LoopStep, OpStep, MainStep


\* The rest of the invariant.
LEMMA JoinInvariant == Spec => [](IInv /\ Joined /\ LoopsReturn)
<1>1. Init => Joined /\ LoopsReturn
  BY DEF Init, EventsInit, NoOp, Joined, LoopsReturn
<1>2. Joined /\ LoopsReturn /\ IInv /\ [Next]_vars => (Joined /\ LoopsReturn)'
  BY KeepsJoined, KeepsLoopsReturn
<1> QED
  BY <1>1, <1>2, HostInvariant, PTL DEF Spec

\* shutdownCell and reloadCell touch a module only after its loop returned,
\* for any number of connections: the exception is a shutdown of a cell that a
\* reload under way brings up again.
THEOREM TeardownIsJoined == Spec => []TeardownJoinsLoop
<1>1. IInv /\ Joined => TeardownJoinsLoop
  <2> SUFFICES ASSUME IInv, Joined, NEW k \in Conn, op[k].at \in {"down", "close", "load"}
               PROVE  loop[On(k)] = "off" \/ Overtaken(k)
    BY DEF TeardownJoinsLoop
  <2>1. On(k) \in Cell
    BY OnCell DEF IInv, Working
  <2>2. stepDone[On(k)] \/ Overtaken(k)
    BY DEF Joined
  <2> QED
    BY <2>1, <2>2 DEF IInv, Reloading
<1> QED
  BY <1>1, JoinInvariant, PTL

\* A connection that waits for a step loop gets its answer: the loop has
\* returned, or it still runs and was told to stop.  The exceptions are the
\* cells that failed while booting and a shutdown that a reload overtakes.
THEOREM JoinsAreAnswered == Spec => []JoinIsAnswered
<1>1. IInv /\ Joined /\ LoopsReturn => JoinIsAnswered
  <2> SUFFICES ASSUME IInv, Joined, LoopsReturn, NEW k \in Conn, op[k].at = "join"
               PROVE  \/ stepDone[On(k)]
                      \/ loop[On(k)] # "off" /\ cancelled[On(k)]
                      \/ On(k) \in FailedAtStart
                      \/ Overtaken(k)
    BY DEF JoinIsAnswered, At
  <2>1. On(k) \in Cell
    BY OnCell DEF IInv, Working
  <2> QED
    BY <2>1 DEF Joined, LoopsReturn
<1> QED
  BY <1>1, JoinInvariant, PTL

============================================================================
