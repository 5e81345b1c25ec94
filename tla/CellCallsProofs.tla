-------------------------- MODULE CellCallsProofs --------------------------
(***************************************************************************)
(* Proofs about the synchronous work in the cells of an application, for   *)
(* any number of cells, goroutines, modules and calls, and whatever the    *)
(* links between the cells are.                                            *)
(*                                                                         *)
(* Two locks carry the argument.  Cell.mu is held by the one frame that    *)
(* executes in a module.  execution.Lock is held by one writer per cell    *)
(* (OneWriter), and a snapshot that has it meets no reader (Undisturbed).  *)
(* What superviseTrap does without that lock is bounded by Unused: a new   *)
(* module is nobody's before it is installed, so the installed one is      *)
(* never the one that is being closed (Replaced).                          *)
(***************************************************************************)
EXTENDS CellCalls, SequenceTheorems, TLAPS

\* Where the frames of each kind can be, and what they know there.
Places(kind) ==
    CASE kind \in {"step", "tick"} -> {"rlock", "lock", "guest", "load", "swap", "close"}
      [] kind = "call" -> {"queue", "rlock", "lock", "guest", "wlock", "drain", "load", "swap", "close"}
      [] kind = "snapshot" -> {"wlock", "drain", "lock", "guest"}
      [] kind = "shutdown" -> {"lock", "guest", "close"}

Shaped(f) ==
    /\ f.at \in Places(f.kind)
    /\ f.kind \in {"step", "tick"} /\ f.at \in {"load", "swap", "close"} => f.on \in Restarting
    /\ f.at \in {"lock", "guest", "swap", "close"} => f.inst \in Instance
    /\ f.kind = "call" /\ f.at \in {"wlock", "drain"} => f.inst \in Instance
    /\ f.at = "swap" => f.new \in Instance
Shape == \A x \in Frames : Shaped(F(x))

\* Only the bottom frame of a goroutine is not a call; the host's snapshots
\* and shutdowns are its bottom frame.
Bottoms ==
    \A x \in Frames :
        /\ x[2] > 1 => F(x).kind = "call"
        /\ F(x).kind \in {"snapshot", "shutdown"} => x = <<Host, 1>>
        /\ F(x).kind = "snapshot" => stop = "no"
        /\ F(x).kind = "shutdown" => stop = "closing" /\ (F(x).at # "guest" => Len(stack[Host]) = 1)

\* stopLocked lets everybody out before it goes on.
Quiet ==
    /\ stop \in {"revoking", "cancelled", "closing", "stopped"} => \A p \in Foreign : Idle(p)
    /\ stop \in {"cancelled", "closing", "stopped"} => \A p \in Access : Idle(p)
    /\ stop \in {"closing", "stopped"} => \A p \in Cell : Idle(p)

\* Modules are numbered in the order they are made.
Numbered ==
    /\ \A c \in Cell : current[c] <= made[c]
    /\ \A c \in Cell, i \in Instance : status[c][i] = "none" <=> i > made[c]
    /\ \A x \in Frames : F(x).inst <= made[F(x).on] /\ F(x).new <= made[F(x).on]

\* A module that is not installed yet is nobody else's.
Unused ==
    \A x \in Frames : F(x).at = "swap" =>
        /\ F(x).new # current[F(x).on]
        /\ status[F(x).on][F(x).new] # "closed"
        /\ \A y \in Frames : F(y).on = F(x).on =>
              /\ F(y).inst # F(x).new
              /\ F(y).at = "swap" /\ y # x => F(y).new # F(x).new

\* A module that is about to be closed for its successor is not installed.
Replaced == \A x \in Frames : F(x).at = "close" /\ F(x).kind # "shutdown" => F(x).inst # current[F(x).on]

\* Before the cells are shut down, the installed modules are not closed.
Installed == stop \notin {"closing", "stopped"} => \A c \in Cell : status[c][current[c]] # "closed"

\* One frame at a time holds execution.Lock of a cell,
Writing(f) ==
    \/ f.kind = "call" /\ f.at \in {"drain", "load", "swap", "close"}
    \/ f.kind = "snapshot" /\ f.at \in {"drain", "lock", "guest"}
Reading(f) == f.kind \in {"step", "tick", "call"} /\ f.at \in {"lock", "guest"}
OneWriter == \A x, y \in Frames : F(x).on = F(y).on /\ Writing(F(x)) /\ Writing(F(y)) => x = y

\* and no reader is there when it snapshots.
Undisturbed ==
    \A x, y \in Frames :
        F(x).kind = "snapshot" /\ F(x).at \in {"lock", "guest"} /\ F(y).on = F(x).on => ~Reading(F(y))

\* Of a cell that its loop does not restart, who holds the lock knows the
\* installed module,
Known ==
    \A x \in Frames : F(x).on \notin Restarting =>
        /\ F(x).at = "swap" => F(x).inst = current[F(x).on]
        /\ F(x).kind = "snapshot" /\ F(x).at \in {"lock", "guest"} => F(x).inst = current[F(x).on]

\* and replaces it because it is dead, or because of what its guest said.
Blamed(c, i) == status[c][i] = "dead" \/ <<c, i>> \in accused
Died ==
    \A x \in Frames : F(x).kind = "call" /\ F(x).on \notin Restarting =>
        /\ F(x).at \in {"wlock", "drain"} => Blamed(F(x).on, F(x).inst) \/ status[F(x).on][F(x).inst] = "closed"
        /\ F(x).at = "load" => Blamed(F(x).on, current[F(x).on])
        /\ F(x).at \in {"swap", "close"} => Blamed(F(x).on, F(x).inst)

\* A cell that is being shut down is not entered, whoever calls it waits,
\* and nobody who depends on it is left.
Waits(f) == f.kind = "call" /\ (f.at = "rlock" \/ (f.at = "lock" /\ f.inst = current[f.on]))
Closed(c) == status[c][current[c]] = "closed"
ShutAlone ==
    \A x \in Frames : F(x).kind = "shutdown" =>
        /\ F(x).inst = current[F(x).on] /\ status[F(x).on][F(x).inst] # "closed"
        /\ \A y \in Frames : F(y).on = F(x).on /\ y # x => Waits(F(y))
        /\ \A d \in Cell : <<d, F(x).on>> \in DependsOn => Closed(d)

\* A cell that is shut down stays so, and so do those that depend on it.
ShutDownFor ==
    stop \in {"closing", "stopped"} =>
        /\ \A c \in Cell : Closed(c) => \A x \in Frames : F(x).on = c => Waits(F(x))
        /\ \A c, d \in Cell : <<d, c>> \in DependsOn /\ Closed(c) => Closed(d)

IInv ==
    /\ TypeOK /\ Shape /\ Bottoms /\ Quiet /\ Numbered /\ Unused /\ Replaced /\ Installed
    /\ OneWriter /\ Undisturbed /\ Known /\ Died /\ ShutAlone /\ ShutDownFor
    /\ GuestOwnsModule /\ NoModuleLost

----------------------------------------------------------------------------
(* frames *)

\* The innermost frame of a goroutine.
Inner(p) == <<p, Len(stack[p])>>

\* What the frames of a state are.
LEMMA FramesAre ==
    ASSUME TypeOK
    PROVE  /\ \A p \in Goroutine : Len(stack[p]) \in Nat /\ DOMAIN stack[p] = 1..Len(stack[p])
           /\ Frames = UNION {{<<p, n>> : n \in 1..Len(stack[p])} : p \in Goroutine}
           /\ \A x \in Frames : F(x) \in Frame /\ F(x).on \in Cell
<1>1. \A p \in Goroutine : stack[p] \in Seq(Frame)
  BY DEF TypeOK
<1>2. \A p \in Goroutine : /\ Len(stack[p]) \in Nat /\ DOMAIN stack[p] = 1..Len(stack[p])
                           /\ \A n \in 1..Len(stack[p]) : stack[p][n] \in Frame
  BY <1>1
<1>3. Frames = UNION {{<<p, n>> : n \in 1..Len(stack[p])} : p \in Goroutine}
  BY <1>2 DEF Frames
<1>4. \A x \in Frames : F(x) \in Frame
  BY <1>2, <1>3 DEF F
<1>5. \A f \in Frame : f.on \in Cell
  BY DEF Frame
<1> QED
  BY <1>2, <1>3, <1>4, <1>5

\* The innermost frame, where there is one.
LEMMA InnerIs ==
    ASSUME TypeOK, NEW p \in Goroutine, ~Idle(p)
    PROVE  Inner(p) \in Frames /\ F(Inner(p)) = Top(p) /\ Len(stack[p]) >= 1
<1>1. stack[p] \in Seq(Frame) /\ stack[p] # <<>>
  BY DEF TypeOK, Idle
<1>2. Len(stack[p]) \in Nat /\ Len(stack[p]) # 0
  BY <1>1
<1>3. Inner(p) \in Frames
  BY <1>2, FramesAre DEF Inner
<1> QED
  BY <1>2, <1>3 DEF F, Inner, Top, Last

\* A goroutine without frames has none, and one with frames is not idle.
LEMMA IdleIs ==
    ASSUME TypeOK, NEW p \in Goroutine
    PROVE  Idle(p) <=> Len(stack[p]) = 0
<1>1. stack[p] \in Seq(Frame)
  BY DEF TypeOK
<1> QED
  BY <1>1, EmptySeq DEF Idle

\* All frames of a goroutine but the innermost.
LEMMA AllButLast ==
    ASSUME NEW S, NEW s \in Seq(S), s # <<>>
    PROVE  /\ Len(s) \in Nat \ {0} /\ Front(s) \in Seq(S) /\ Len(Front(s)) = Len(s) - 1
           /\ DOMAIN Front(s) = 1..(Len(s) - 1)
           /\ \A n \in 1..(Len(s) - 1) : Front(s)[n] = s[n]
<1>1. Len(s) \in Nat \ {0} /\ \A n \in 1..Len(s) : s[n] \in S
  BY EmptySeq
<1> DEFINE m == Len(s) - 1
<1>2. m \in Nat /\ m \in Int /\ 1 \in Int /\ \A n \in 1..m : s[n] \in S
  BY <1>1
<1>3. Front(s) = SubSeq(s, 1, m)
  BY DEF Front
<1> HIDE DEF m
<1>4. /\ SubSeq(s, 1, m) \in Seq(S)
      /\ Len(SubSeq(s, 1, m)) = IF 1 <= m THEN m - 1 + 1 ELSE 0
      /\ \A i \in 1..(m - 1 + 1) : SubSeq(s, 1, m)[i] = s[1 + i - 1]
  BY <1>2, SubSeqProperties
<1>5. Front(s) \in Seq(S) /\ Len(Front(s)) = m /\ \A n \in 1..m : Front(s)[n] = s[n]
  BY <1>2, <1>3, <1>4
<1>6. DOMAIN Front(s) = 1..m
  BY <1>5
<1> QED
  BY <1>1, <1>5, <1>6 DEF m

\* A frame is pushed.
LEMMA Pushed ==
    ASSUME TypeOK, NEW p \in Goroutine, NEW f \in Frame, Push(p, f), NEW z, z = <<p, Len(stack[p]) + 1>>
    PROVE  /\ (stack \in [Goroutine -> Seq(Frame)])'
           /\ z \notin Frames /\ Frames' = Frames \cup {z} /\ F(z)' = f
           /\ \A x \in Frames : F(x)' = F(x)
           /\ Len(stack'[p]) = Len(stack[p]) + 1
           /\ \A q \in Goroutine \ {p} : stack'[q] = stack[q]
<1>1. stack[p] \in Seq(Frame) /\ stack \in [Goroutine -> Seq(Frame)]
  BY DEF TypeOK
<1>2. stack' = [stack EXCEPT ![p] = Append(stack[p], f)]
  BY DEF Push
<1>3. /\ Append(stack[p], f) \in Seq(Frame) /\ Len(stack[p]) \in Nat
      /\ Len(Append(stack[p], f)) = Len(stack[p]) + 1
      /\ DOMAIN Append(stack[p], f) = 1..(Len(stack[p]) + 1)
      /\ \A n \in 1..Len(stack[p]) : Append(stack[p], f)[n] = stack[p][n]
      /\ Append(stack[p], f)[Len(stack[p]) + 1] = f
  BY <1>1
<1>4. (stack \in [Goroutine -> Seq(Frame)])'
  BY <1>1, <1>2, <1>3
<1>5. stack'[p] = Append(stack[p], f) /\ \A q \in Goroutine \ {p} : stack'[q] = stack[q]
  BY <1>1, <1>2
<1>6. Frames = UNION {{<<q, n>> : n \in 1..Len(stack[q])} : q \in Goroutine}
  BY FramesAre
<1>7. \A q \in Goroutine : DOMAIN stack'[q] = IF q = p THEN 1..(Len(stack[p]) + 1) ELSE 1..Len(stack[q])
  BY <1>3, <1>5, FramesAre
<1>8. 1..(Len(stack[p]) + 1) = 1..Len(stack[p]) \cup {Len(stack[p]) + 1}
  BY <1>3
<1>9. Frames' = Frames \cup {z}
  <2>1. Frames' = UNION {{<<q, n>> : n \in DOMAIN stack'[q]} : q \in Goroutine}
    BY DEF Frames
  <2>2. \A x : x \in Frames' <=> \E q \in Goroutine : \E n \in DOMAIN stack'[q] : x = <<q, n>>
    BY <2>1
  <2>3. \A x : x \in Frames <=> \E q \in Goroutine : \E n \in 1..Len(stack[q]) : x = <<q, n>>
    BY <1>6
  <2>4. \A q \in Goroutine : \A n :
          n \in DOMAIN stack'[q] <=> n \in 1..Len(stack[q]) \/ (q = p /\ n = Len(stack[p]) + 1)
    BY <1>7, <1>8
  <2> QED
    BY <2>2, <2>3, <2>4
<1>10. z \notin Frames
  BY <1>3, <1>6
<1>11. F(z)' = f
  BY <1>3, <1>5 DEF F
<1>12. \A x \in Frames : F(x)' = F(x)
  <2> SUFFICES ASSUME NEW q \in Goroutine, NEW n \in 1..Len(stack[q])
               PROVE  F(<<q, n>>)' = F(<<q, n>>)
    BY <1>6
  <2>1. CASE q # p
    BY <2>1, <1>5 DEF F
  <2>2. CASE q = p
    BY <2>2, <1>3, <1>5 DEF F
  <2> QED
    BY <2>1, <2>2
<1> QED
  BY <1>3, <1>4, <1>5, <1>9, <1>10, <1>11, <1>12

\* The innermost frame goes on.
LEMMA Moved ==
    ASSUME TypeOK, NEW p \in Goroutine, ~Idle(p), NEW f \in Frame, Goto(p, f), NEW z, z = Inner(p)
    PROVE  /\ (stack \in [Goroutine -> Seq(Frame)])'
           /\ Frames' = Frames /\ F(z)' = f
           /\ \A x \in Frames \ {z} : F(x)' = F(x)
           /\ Len(stack'[p]) = Len(stack[p])
           /\ \A q \in Goroutine \ {p} : stack'[q] = stack[q]
<1>1. stack[p] \in Seq(Frame) /\ stack[p] # <<>> /\ stack \in [Goroutine -> Seq(Frame)]
  BY DEF TypeOK, Idle
<1> DEFINE s == Append(Front(stack[p]), f)
<1>2. stack' = [stack EXCEPT ![p] = s]
  BY DEF Goto
<1>3. Len(stack[p]) \in Nat /\ Len(stack[p]) # 0
  BY <1>1, AllButLast
<1>4. /\ Front(stack[p]) \in Seq(Frame) /\ Len(Front(stack[p])) = Len(stack[p]) - 1
      /\ \A n \in 1..(Len(stack[p]) - 1) : Front(stack[p])[n] = stack[p][n]
  BY <1>1, AllButLast
<1>5. /\ s \in Seq(Frame) /\ Len(s) = Len(stack[p]) /\ DOMAIN s = 1..Len(stack[p])
      /\ \A n \in 1..(Len(stack[p]) - 1) : s[n] = stack[p][n]
      /\ s[Len(stack[p])] = f
  BY <1>3, <1>4
<1> HIDE DEF s
<1>6. (stack \in [Goroutine -> Seq(Frame)])'
  BY <1>1, <1>2, <1>5
<1>7. stack'[p] = s /\ \A q \in Goroutine \ {p} : stack'[q] = stack[q]
  BY <1>1, <1>2
<1>8. Frames = UNION {{<<q, n>> : n \in 1..Len(stack[q])} : q \in Goroutine}
  BY FramesAre
<1>9. \A q \in Goroutine : DOMAIN stack'[q] = DOMAIN stack[q]
  BY <1>5, <1>7, FramesAre
<1>10. Frames' = Frames
  BY <1>9 DEF Frames
<1>11. F(z)' = f
  BY <1>5, <1>7 DEF F, Inner
<1>12. \A x \in Frames \ {z} : F(x)' = F(x)
  <2> SUFFICES ASSUME NEW q \in Goroutine, NEW n \in 1..Len(stack[q]), <<q, n>> # z
               PROVE  F(<<q, n>>)' = F(<<q, n>>)
    BY <1>8
  <2>1. CASE q # p
    BY <2>1, <1>7 DEF F
  <2>2. CASE q = p
    <3>1. n \in 1..(Len(stack[p]) - 1)
      BY <2>2, <1>3 DEF Inner
    <3> QED
      BY <3>1, <2>2, <1>5, <1>7 DEF F
  <2> QED
    BY <2>1, <2>2
<1> QED
  BY <1>5, <1>6, <1>7, <1>10, <1>11, <1>12

\* The innermost frame returns.
LEMMA Popped ==
    ASSUME TypeOK, NEW p \in Goroutine, ~Idle(p), Return(p), NEW z, z = Inner(p)
    PROVE  /\ (stack \in [Goroutine -> Seq(Frame)])'
           /\ Frames' = Frames \ {z}
           /\ \A x \in Frames : x # z => F(x)' = F(x)
           /\ Len(stack'[p]) = Len(stack[p]) - 1
           /\ \A q \in Goroutine \ {p} : stack'[q] = stack[q]
<1>1. stack[p] \in Seq(Frame) /\ stack[p] # <<>> /\ stack \in [Goroutine -> Seq(Frame)]
  BY DEF TypeOK, Idle
<1> DEFINE s == Front(stack[p])
<1>2. stack' = [stack EXCEPT ![p] = s]
  BY DEF Return
<1>3. Len(stack[p]) \in Nat /\ Len(stack[p]) # 0
  BY <1>1, AllButLast
<1>4. /\ s \in Seq(Frame) /\ Len(s) = Len(stack[p]) - 1 /\ DOMAIN s = 1..(Len(stack[p]) - 1)
      /\ \A n \in 1..(Len(stack[p]) - 1) : s[n] = stack[p][n]
  BY <1>1, AllButLast
<1> HIDE DEF s
<1>5. (stack \in [Goroutine -> Seq(Frame)])'
  BY <1>1, <1>2, <1>4
<1>6. stack'[p] = s /\ \A q \in Goroutine \ {p} : stack'[q] = stack[q]
  BY <1>1, <1>2
<1>7. Frames = UNION {{<<q, n>> : n \in 1..Len(stack[q])} : q \in Goroutine}
  BY FramesAre
<1>8. Frames' = Frames \ {z}
  <2>1. Frames' = UNION {{<<q, n>> : n \in DOMAIN stack'[q]} : q \in Goroutine}
    BY DEF Frames
  <2>2. \A x : x \in Frames' <=> \E q \in Goroutine : \E n \in DOMAIN stack'[q] : x = <<q, n>>
    BY <2>1
  <2>3. \A x : x \in Frames <=> \E q \in Goroutine : \E n \in 1..Len(stack[q]) : x = <<q, n>>
    BY <1>7
  <2>4. \A q \in Goroutine : \A n :
          n \in DOMAIN stack'[q] <=> n \in 1..Len(stack[q]) /\ ~(q = p /\ n = Len(stack[p]))
    BY <1>3, <1>4, <1>6, FramesAre
  <2>5. \A q \in Goroutine : \A n : <<q, n>> = z <=> q = p /\ n = Len(stack[p])
    BY DEF Inner
  <2> QED
    BY <2>2, <2>3, <2>4, <2>5
<1>9. \A x \in Frames : x # z => F(x)' = F(x)
  <2> SUFFICES ASSUME NEW q \in Goroutine, NEW n \in 1..Len(stack[q]), <<q, n>> # z
               PROVE  F(<<q, n>>)' = F(<<q, n>>)
    BY <1>7
  <2>1. CASE q # p
    BY <2>1, <1>6 DEF F
  <2>2. CASE q = p
    <3>1. n \in 1..(Len(stack[p]) - 1)
      BY <2>2, <1>3 DEF Inner
    <3> QED
      BY <3>1, <2>2, <1>4, <1>6 DEF F
  <2> QED
    BY <2>1, <2>2
<1> QED
  BY <1>4, <1>5, <1>6, <1>8, <1>9


----------------------------------------------------------------------------
(* steps that install and close nothing *)

\* wazero may have closed modules that were open.
Ages ==
    /\ status' \in [Cell -> [Instance -> {"none", "open", "dead", "closed"}]]
    /\ \A c \in Cell, i \in Instance :
          status'[c][i] = status[c][i] \/ (status'[c][i] = "dead" /\ status[c][i] \in {"open", "dead"})

\* The modules stay, and the shutdown does not go on.
Stays ==
    /\ UNCHANGED <<current, made, stop>> /\ Ages
    /\ failed' \in [Cell -> BOOLEAN]
    /\ accused' \in SUBSET (Cell \X Instance) /\ accused \subseteq accused'

\* A frame returns that neither installs nor closes a module.
LEMMA Leaves ==
    ASSUME IInv, NEW p \in Goroutine, ~Idle(p), Top(p).at \notin {"swap", "close"}, Return(p), Stays
    PROVE  IInv'
<1> DEFINE z == Inner(p)
<1>1. TypeOK
  BY DEF IInv
<1>2. z \in Frames /\ z = <<p, Len(stack[p])>> /\ Len(stack[p]) \in Nat /\ F(z) = Top(p) /\ Host \in Goroutine
  BY <1>1, FramesAre, InnerIs DEF Inner, Goroutine
<1>3. \A x \in Frames : F(x) \in Frame /\ F(x).on \in Cell
  BY <1>1, FramesAre
<1>4. /\ (stack \in [Goroutine -> Seq(Frame)])'
      /\ Frames' = Frames \ {z}
      /\ \A x \in Frames : x # z => F(x)' = F(x)
      /\ Len(stack'[p]) = Len(stack[p]) - 1
      /\ \A q \in Goroutine \ {p} : stack'[q] = stack[q]
  BY <1>1, Popped
<1>5. \A x \in Frames' : x \in Frames /\ x # z /\ F(x)' = F(x) /\ F(x) \in Frame /\ F(x).on \in Cell
  BY <1>3, <1>4
<1>6. \A q \in Goroutine : Idle(q) => q # p /\ Idle(q)'
  BY <1>4 DEF Idle
<1>7. /\ current \in [Cell -> Instance] /\ current' = current /\ made' = made /\ stop' = stop /\ Ages
      /\ accused \subseteq accused'
  BY <1>1 DEF TypeOK, Stays
<1>8. \A c \in Cell : Closed(c)' <=> Closed(c)
  BY <1>7 DEF Closed, Ages
<1> HIDE DEF z
<1>t. TypeOK'
  BY <1>2, <1>5, <1>7, <1>4, <1>1 DEF IInv, TypeOK, Stays, Ages
<1>s1. Shape'
  BY <1>2, <1>5, <1>7 DEF IInv, Shape, Shaped, Places, Bottoms
<1>s2. Bottoms'
  BY <1>2, <1>4, <1>5, <1>7 DEF IInv, Bottoms
<1>s3. Quiet'
  BY <1>6, <1>7 DEF IInv, Quiet, Goroutine, Caller
<1>s4. Numbered'
  BY <1>2, <1>5, <1>7 DEF IInv, Numbered, Shape, Shaped, Places, Ages
<1>s5. Unused'
  BY <1>2, <1>5, <1>7 DEF IInv, Unused, Numbered, Shape, Shaped, Places, Ages
<1>s6. Replaced'
  BY <1>2, <1>5, <1>7 DEF IInv, Replaced, Unused, Shape, Shaped, Places
<1>s7. Installed'
  BY <1>2, <1>5, <1>7 DEF IInv, Installed, Replaced, Bottoms, Unused, Ages
<1>s8. OneWriter'
  BY <1>2, <1>5, <1>7 DEF IInv, OneWriter, Writing, Shape, Shaped, Places
<1>s9. Undisturbed'
  BY <1>2, <1>5, <1>7 DEF IInv, Undisturbed, Reading, Shape, Shaped, Places, OneWriter, Writing,
     Bottoms
<1>s10. Known'
  BY <1>2, <1>5, <1>7 DEF IInv, Known, Shape, Shaped, Places, OneWriter, Writing, Bottoms
<1>s11. Died'
  BY <1>2, <1>5, <1>7 DEF IInv, Died, Blamed, Shape, Shaped, Places, OneWriter, Writing, Installed,
     ShutDownFor, Waits, Closed, Numbered, Replaced, ShutAlone, Bottoms, Ages
<1>s12. ShutAlone'
  BY <1>5, <1>7, <1>8 DEF IInv, ShutAlone, Waits, Shape, Shaped, Ages
<1>s13. ShutDownFor'
  BY <1>5, <1>7, <1>8 DEF IInv, ShutDownFor, Waits
<1>s14. GuestOwnsModule'
  BY <1>2, <1>5, <1>7 DEF IInv, GuestOwnsModule, Shape, Shaped, Places, Numbered, Ages
<1>s15. NoModuleLost'
  <2> SUFFICES ASSUME stop # "panicked", NEW c \in Cell \ Restarting, NEW i \in Instance,
                      status'[c][i] \in {"open", "dead"}, current[c] # i
               PROVE  \E x \in Frames' : F(x)'.on = c /\ (\/ F(x)'.at = "swap" /\ F(x)'.new = i
                                                          \/ F(x)'.at = "close" /\ F(x)'.inst = i)
    BY <1>7 DEF NoModuleLost
  <2>1. status[c][i] \in {"open", "dead"}
    BY <1>7 DEF Ages
  <2>2. PICK x \in Frames : F(x).on = c /\ (\/ F(x).at = "swap" /\ F(x).new = i
                                            \/ F(x).at = "close" /\ F(x).inst = i)
    BY <2>1 DEF IInv, NoModuleLost
  <2>3. x # z
    BY <2>2, <1>2
  <2> QED
    BY <2>2, <2>3, <1>4
<1> QED
  BY <1>t, <1>s1, <1>s2, <1>s3, <1>s4, <1>s5, <1>s6, <1>s7, <1>s8, <1>s9, <1>s10, <1>s11, <1>s12,
     <1>s13, <1>s14, <1>s15 DEF IInv

\* While a cell shuts down, only what it calls itself goes on.
LEMMA ShutIsBelow ==
    ASSUME IInv, NEW x \in Frames, F(x).kind = "shutdown", NEW y \in Frames, y # x
    PROVE  F(x).at = "guest" /\ y[1] = Host
<1>1. TypeOK /\ x = <<Host, 1>> /\ stop = "closing" /\ (F(x).at # "guest" => Len(stack[Host]) = 1)
  BY DEF IInv, Bottoms
<1>2. PICK q \in Goroutine : \E n \in 1..Len(stack[q]) : y = <<q, n>>
  BY <1>1, FramesAre
<1>3. Len(stack[q]) # 0 /\ Len(stack[q]) \in Nat
  BY <1>1, <1>2, FramesAre
<1>4. q = Host
  BY <1>1, <1>3, IdleIs DEF IInv, Quiet, Goroutine, Caller
<1>5. PICK n \in 1..Len(stack[Host]) : y = <<Host, n>>
  BY <1>2, <1>4
<1>6. ASSUME Len(stack[Host]) = 1 PROVE FALSE
  <2>1. n \in 1..1
    BY <1>6
  <2>2. n = 1
    BY <2>1
  <2> QED
    BY <2>2, <1>1, <1>5
<1> QED
  BY <1>1, <1>5, <1>6

\* Where a frame goes on without installing or closing a module, and what it
\* has made sure of.
Moves(f, g) ==
    /\ g \in Frame /\ g.kind = f.kind /\ g.on = f.on /\ g.new = f.new
    /\ g.inst = (IF g.at = "lock" THEN current[f.on] ELSE f.inst)
    /\ \/ f.at = "queue" /\ g.at = "rlock"
       \/ f.at = "rlock" /\ g.at = "lock" /\ NoWriter(f.on)
       \/ f.at = "lock" /\ g.at = "guest" /\ Free(f.on, f.inst) /\ status[f.on][f.inst] # "closed"
       \/ /\ f.at = "guest" /\ g.at = "wlock" /\ f.kind = "call"
          /\ status'[f.on][f.inst] = "dead" \/ <<f.on, f.inst>> \in accused'
       \/ f.at \in {"lock", "guest"} /\ g.at = "load" /\ f.kind \in {"step", "tick"} /\ f.on \in Restarting
       \/ f.at \in {"lock", "guest"} /\ g.at = "close" /\ f.kind = "shutdown"
       \/ f.at = "wlock" /\ g.at = "drain" /\ NoWriter(f.on)
       \/ f.at = "drain" /\ g.at = "load" /\ f.kind = "call" /\ current[f.on] = f.inst
       \/ f.at = "drain" /\ g.at = "lock" /\ f.kind = "snapshot" /\ NoReader(f.on)

\* A frame goes on without installing or closing a module.
LEMMA GoesOnInside ==
    ASSUME IInv, NEW p \in Goroutine, ~Idle(p), NEW g, Moves(Top(p), g), Goto(p, g), Stays
    PROVE  IInv'
<1>z. PICK z : z = Inner(p)
  OBVIOUS
<1>f. PICK f : f = Top(p)
  OBVIOUS
<1>1. TypeOK
  BY DEF IInv
<1>2. z \in Frames /\ z = <<p, Len(stack[p])>> /\ Len(stack[p]) \in Nat /\ F(z) = f /\ Host \in Goroutine
  BY <1>z, <1>f, <1>1, FramesAre, InnerIs DEF Inner, Goroutine
<1>3. \A x \in Frames : F(x) \in Frame /\ F(x).on \in Cell
  BY <1>1, FramesAre
<1>4. /\ (stack \in [Goroutine -> Seq(Frame)])'
      /\ Frames' = Frames /\ F(z)' = g
      /\ \A x \in Frames \ {z} : F(x)' = F(x)
      /\ Len(stack'[p]) = Len(stack[p])
      /\ \A q \in Goroutine \ {p} : stack'[q] = stack[q]
  BY <1>z, <1>f, <1>1, Moved DEF Moves
<1>5. /\ Frames' = Frames /\ F(z)' = g /\ g \in Frame
      /\ \A x \in Frames : x # z => F(x)' = F(x)
  BY <1>f, <1>3, <1>4 DEF Moves
<1>6. \A q \in Goroutine : /\ Idle(q) => q # p /\ Idle(q)'
                           /\ Len(stack'[q]) = Len(stack[q])
  BY <1>4 DEF Idle
<1>7. /\ current \in [Cell -> Instance] /\ current' = current /\ made' = made /\ stop' = stop /\ Ages
      /\ accused \subseteq accused'
  BY <1>1 DEF TypeOK, Stays
<1>8. \A c \in Cell : Closed(c)' <=> Closed(c)
  BY <1>7 DEF Closed, Ages
<1>9. /\ F(z) = f /\ g.kind = f.kind /\ g.on = f.on /\ g.new = f.new
      /\ g.inst = (IF g.at = "lock" THEN current[f.on] ELSE f.inst)
      /\ \/ f.at = "queue" /\ g.at = "rlock"
         \/ f.at = "rlock" /\ g.at = "lock" /\ \A x \in Frames : F(x).on = f.on => ~Writing(F(x))
         \/ /\ f.at = "lock" /\ g.at = "guest" /\ status[f.on][f.inst] # "closed"
            /\ \A x \in Frames : ~(F(x).on = f.on /\ F(x).inst = f.inst /\ F(x).at = "guest")
         \/ /\ f.at = "guest" /\ g.at = "wlock" /\ f.kind = "call"
            /\ status'[f.on][f.inst] = "dead" \/ <<f.on, f.inst>> \in accused'
         \/ f.at \in {"lock", "guest"} /\ g.at = "load" /\ f.kind \in {"step", "tick"} /\ f.on \in Restarting
         \/ f.at \in {"lock", "guest"} /\ g.at = "close" /\ f.kind = "shutdown"
         \/ f.at = "wlock" /\ g.at = "drain" /\ \A x \in Frames : F(x).on = f.on => ~Writing(F(x))
         \/ f.at = "drain" /\ g.at = "load" /\ f.kind = "call" /\ current[f.on] = f.inst
         \/ /\ f.at = "drain" /\ g.at = "lock" /\ f.kind = "snapshot"
            /\ \A x \in Frames : F(x).on = f.on => ~Reading(F(x))
  BY <1>f, <1>2 DEF Moves, NoWriter, NoReader, Writers, Readers, Free, Writing, Reading
<1>t. TypeOK'
  BY <1>2, <1>3, <1>5, <1>7, <1>9, <1>4, <1>1 DEF IInv, TypeOK, Stays, Ages
<1>s1. Shape'
  <2>1. Shaped(g)
    BY <1>2, <1>3, <1>5, <1>7, <1>9 DEF IInv, Shape, Shaped, Places, Frame
  <2> QED
    BY <2>1, <1>5 DEF IInv, Shape
<1>s2. Bottoms'
  <2>1. g.kind = f.kind /\ stop' = stop /\ Len(stack'[Host]) = Len(stack[Host])
    BY <1>2, <1>6, <1>7, <1>9
  <2>2. f.kind = "shutdown" => z = <<Host, 1>> /\ stop = "closing"
    BY <1>2 DEF IInv, Bottoms
  <2>3. f.kind = "shutdown" => Len(stack[Host]) = 1
    BY <2>2, <1>2
  <2>4. /\ z[2] > 1 => g.kind = "call"
        /\ g.kind \in {"snapshot", "shutdown"} => z = <<Host, 1>>
        /\ g.kind = "snapshot" => stop = "no"
    BY <2>1, <1>2 DEF IInv, Bottoms
  <2> QED
    BY <2>1, <2>2, <2>3, <2>4, <1>5 DEF IInv, Bottoms
<1>s3. Quiet'
  BY <1>6, <1>7 DEF IInv, Quiet, Goroutine, Caller
<1>s4. Numbered'
  <2>1. g.inst <= made[g.on] /\ g.new <= made[g.on]
    BY <1>2, <1>3, <1>7, <1>9 DEF IInv, Numbered
  <2>2. \A c \in Cell, i \in Instance : status'[c][i] = "none" <=> i > made[c]
    BY <1>7 DEF IInv, Numbered, Ages
  <2>3. \A x \in Frames : F(x)'.inst <= made[F(x)'.on] /\ F(x)'.new <= made[F(x)'.on]
    BY <2>1, <1>5 DEF IInv, Numbered
  <2>4. \A c \in Cell : current[c] <= made[c]
    BY DEF IInv, Numbered
  <2> QED
    BY <2>2, <2>3, <2>4, <1>5, <1>7 DEF Numbered
<1>s5. Unused'
  <2>1. g.at # "swap"
    BY <1>9
  <2>2. g.inst = f.inst \/ g.inst = current[f.on]
    BY <1>9
  <2>3. g.on = f.on
    BY <1>9
  <2> SUFFICES ASSUME NEW x \in Frames, F(x)'.at = "swap"
               PROVE  /\ F(x)'.new # current[F(x)'.on] /\ status'[F(x)'.on][F(x)'.new] # "closed"
                      /\ \A y \in Frames : F(y)'.on = F(x)'.on =>
                            /\ F(y)'.inst # F(x)'.new
                            /\ F(y)'.at = "swap" /\ y # x => F(y)'.new # F(x)'.new
    BY <1>5, <1>7 DEF Unused
  <2>4. F(x)' = F(x) /\ F(x).at = "swap" /\ F(x).new \in Instance /\ F(x).on \in Cell
    BY <2>1, <1>3, <1>5 DEF IInv, Shape, Shaped
  <2>5. F(x).new # current[F(x).on] /\ status[F(x).on][F(x).new] # "closed"
    BY <2>4 DEF IInv, Unused
  <2>6. status'[F(x).on][F(x).new] # "closed"
    BY <2>4, <2>5, <1>7 DEF Ages
  <2>7. ASSUME NEW y \in Frames, F(y)'.on = F(x).on
        PROVE  F(y)'.inst # F(x).new /\ (F(y)'.at = "swap" /\ y # x => F(y)'.new # F(x).new)
    <3>1. F(y).on = F(x).on
      BY <2>3, <2>7, <1>2, <1>5
    <3>2. F(y).inst # F(x).new /\ (F(y).at = "swap" /\ y # x => F(y).new # F(x).new)
      BY <2>4, <3>1 DEF IInv, Unused
    <3> QED
      BY <2>1, <2>2, <2>3, <2>5, <3>1, <3>2, <2>7, <1>2, <1>5
  <2> QED
    BY <2>4, <2>5, <2>6, <2>7
<1>s6. Replaced'
  BY <1>2, <1>3, <1>5, <1>7, <1>9 DEF IInv, Replaced, Unused, Shape, Shaped, Places
<1>s7. Installed'
  BY <1>5, <1>7, <1>8 DEF IInv, Installed, Closed
<1>s8. OneWriter'
  BY <1>2, <1>3, <1>5, <1>7, <1>9 DEF IInv, OneWriter, Writing, Shape, Shaped, Places
<1>s9. Undisturbed'
  BY <1>2, <1>3, <1>5, <1>7, <1>9 DEF IInv, Undisturbed, Reading, Shape, Shaped, Places, OneWriter,
     Writing, Bottoms
<1>s10. Known'
  BY <1>2, <1>3, <1>5, <1>7, <1>9 DEF IInv, Known, Shape, Shaped, Places, OneWriter, Writing,
     Bottoms
<1>s11. Died'
  <2> SUFFICES ASSUME NEW x \in Frames, F(x)'.kind = "call", F(x)'.on \notin Restarting
               PROVE  LET c == F(x)'.on
                          h == F(x)'
                      IN  /\ h.at \in {"wlock", "drain"} =>
                                status'[c][h.inst] \in {"dead", "closed"} \/ <<c, h.inst>> \in accused'
                          /\ h.at = "load" => status'[c][current[c]] = "dead" \/ <<c, current[c]>> \in accused'
                          /\ h.at \in {"swap", "close"} => status'[c][h.inst] = "dead" \/ <<c, h.inst>> \in accused'
    BY <1>5, <1>7 DEF Died, Blamed
  <2>1. F(x).on \in Cell /\ Shaped(F(x))
    BY <1>3 DEF IInv, Shape
  <2>2. ASSUME F(x).kind = "call", F(x).on \notin Restarting
        PROVE  /\ F(x).at \in {"wlock", "drain"} =>
                     \/ status'[F(x).on][F(x).inst] \in {"dead", "closed"}
                     \/ <<F(x).on, F(x).inst>> \in accused'
               /\ F(x).at = "load" =>
                     \/ status'[F(x).on][current[F(x).on]] = "dead"
                     \/ <<F(x).on, current[F(x).on]>> \in accused'
               /\ F(x).at \in {"swap", "close"} =>
                     \/ status'[F(x).on][F(x).inst] = "dead"
                     \/ <<F(x).on, F(x).inst>> \in accused'
    BY <2>1, <2>2, <1>7 DEF IInv, Died, Blamed, Ages, Shaped
  <2>3. CASE x # z
    BY <2>2, <2>3, <1>5
  <2>4. CASE x = z
    <3>1. F(x)' = g /\ F(x) = f /\ g.on = f.on /\ f.kind = "call" /\ f.on \notin Restarting
      BY <2>4, <1>5, <1>9
    <3>2. g.at \in {"swap", "close"} => FALSE
      BY <3>1, <1>9
    <3>3. g.at \in {"wlock", "drain", "load"} => g.inst = f.inst
      BY <1>9
    <3>4. g.at = "wlock" => status'[f.on][f.inst] = "dead" \/ <<f.on, f.inst>> \in accused'
      BY <1>9
    <3>5. g.at = "drain" => f.at = "wlock"
      BY <1>9
    <3>6. g.at = "load" => f.at = "drain" /\ current[f.on] = f.inst
      BY <3>1, <1>9
    <3>7. g.at = "load" => status'[f.on][f.inst] # "closed"
      <4>1. ASSUME g.at = "load", Closed(f.on) PROVE FALSE
        <5>1. f.at = "drain" /\ f \in Frame /\ z \in Frames
          BY <4>1, <3>6, <1>2, <1>3
        <5>2. stop \in {"closing", "stopped"}
          BY <4>1, <2>1, <3>1 DEF IInv, Installed, Closed
        <5>3. Waits(f)
          BY <4>1, <5>1, <5>2, <2>1, <3>1, <1>2 DEF IInv, ShutDownFor
        <5> QED
          BY <5>1, <5>3 DEF Waits
      <4> QED
        BY <4>1, <3>1, <3>6, <2>1, <1>7, <1>8 DEF Closed
    <3> QED
      BY <3>1, <3>2, <3>3, <3>4, <3>5, <3>6, <3>7, <2>2
  <2> QED
    BY <2>3, <2>4
<1>s12. ShutAlone'
  <2> SUFFICES ASSUME NEW x \in Frames, F(x)'.kind = "shutdown"
               PROVE  /\ F(x)'.inst = current[F(x)'.on] /\ status'[F(x)'.on][F(x)'.inst] # "closed"
                      /\ \A y \in Frames : F(y)'.on = F(x)'.on /\ y # x => Waits(F(y))'
                      /\ \A d \in Cell : <<d, F(x)'.on>> \in DependsOn => Closed(d)'
    BY <1>5, <1>7 DEF ShutAlone
  <2>1. F(x).kind = "shutdown" /\ F(x)'.on = F(x).on /\ F(x)'.inst = F(x).inst /\ F(x).on \in Cell
    BY <1>2, <1>3, <1>5, <1>9 DEF IInv, Shape, Shaped, Places, ShutAlone
  <2>2. F(x).inst = current[F(x).on] /\ status[F(x).on][F(x).inst] # "closed"
    BY <2>1 DEF IInv, ShutAlone
  <2>3. status'[F(x).on][F(x).inst] # "closed"
    BY <2>1, <2>2, <1>7 DEF Ages
  <2>4. \A d \in Cell : <<d, F(x).on>> \in DependsOn => Closed(d)'
    BY <2>1, <1>8 DEF IInv, ShutAlone
  <2>5. ASSUME NEW y \in Frames, F(y)'.on = F(x)'.on, y # x PROVE Waits(F(y))'
    <3>1. F(y).on = F(x).on
      BY <2>1, <2>5, <1>2, <1>5, <1>9
    <3>2. Waits(F(y))
      BY <2>1, <2>5, <3>1 DEF IInv, ShutAlone
    <3>3. F(x).at = "guest"
      BY <2>1, <2>5, ShutIsBelow
    <3>4. CASE y # z
      BY <3>2, <3>4, <1>5, <1>7 DEF Waits
    <3>5. CASE y = z
      BY <2>1, <2>2, <3>1, <3>2, <3>3, <3>5, <1>2, <1>5, <1>7, <1>9 DEF Waits
    <3> QED
      BY <3>4, <3>5
  <2> QED
    BY <2>1, <2>2, <2>3, <2>4, <2>5
<1>s13. ShutDownFor'
  BY <1>2, <1>3, <1>5, <1>7, <1>9, <1>8 DEF IInv, ShutDownFor, Waits, Shape, Shaped, Places, Closed
<1>s14. GuestOwnsModule'
  <2> SUFFICES ASSUME NEW x \in Frames, F(x)'.at = "guest"
               PROVE  /\ status'[F(x)'.on][F(x)'.inst] # "closed"
                      /\ \A y \in Frames : F(y)'.at = "guest" /\ F(y)'.on = F(x)'.on /\ F(y)'.inst = F(x)'.inst => y = x
    BY <1>5, <1>7 DEF GuestOwnsModule
  <2>1. F(x)'.on \in Cell /\ F(x)'.inst \in Instance /\ F(x)'.inst = F(x).inst /\ F(x)'.on = F(x).on
    BY <1>2, <1>3, <1>5, <1>9 DEF IInv, Shape, Shaped
  <2>2. status[F(x).on][F(x).inst] # "closed"
    BY <1>2, <1>5, <1>9 DEF IInv, GuestOwnsModule
  <2>3. status'[F(x).on][F(x).inst] # "closed"
    BY <2>1, <2>2, <1>7 DEF Ages
  <2>4. \A y \in Frames : F(y)'.at = "guest" /\ F(y)'.on = F(x)'.on /\ F(y)'.inst = F(x)'.inst => y = x
    BY <2>1, <1>2, <1>5, <1>9 DEF IInv, GuestOwnsModule
  <2> QED
    BY <2>1, <2>3, <2>4
<1>s15. NoModuleLost'
  <2> SUFFICES ASSUME stop # "panicked", NEW c \in Cell \ Restarting, NEW i \in Instance,
                      status'[c][i] \in {"open", "dead"}, current[c] # i
               PROVE  \E x \in Frames' : F(x)'.on = c /\ (\/ F(x)'.at = "swap" /\ F(x)'.new = i
                                                          \/ F(x)'.at = "close" /\ F(x)'.inst = i)
    BY <1>7 DEF NoModuleLost
  <2>1. status[c][i] \in {"open", "dead"}
    BY <1>7 DEF Ages
  <2>2. PICK x \in Frames : F(x).on = c /\ (\/ F(x).at = "swap" /\ F(x).new = i
                                            \/ F(x).at = "close" /\ F(x).inst = i)
    BY <2>1 DEF IInv, NoModuleLost
  <2>3. F(x).at = "swap" \/ (F(x).at = "close" /\ F(x).inst = i)
    BY <2>2
  <2>4. x # z
    BY <2>3, <1>9
  <2> QED
    BY <2>2, <2>4, <1>4
<1> QED
  BY <1>t, <1>s1, <1>s2, <1>s3, <1>s4, <1>s5, <1>s6, <1>s7, <1>s8, <1>s9, <1>s10, <1>s11, <1>s12,
     <1>s13, <1>s14, <1>s15 DEF IInv

----------------------------------------------------------------------------
(* steps that begin work *)

\* What p may begin.
Enters(p, f) ==
    /\ f \in Frame /\ f.new = NoInstance
    /\ f.kind # "shutdown" => f.inst = NoInstance
    /\ \/ f.kind \in {"step", "tick"} /\ f.at = "rlock" /\ p \in Cell /\ Idle(p) /\ Stepping
       \/ f.kind = "call" /\ f.at = "rlock" /\ p \in Foreign /\ Idle(p) /\ stop = "no"
       \/ f.kind = "call" /\ f.at = "rlock" /\ At(p, "guest")
       \/ f.kind = "call" /\ f.at = "queue" /\ p \in Access /\ Idle(p) /\ stop \in {"no", "refusing"}
       \/ f.kind = "snapshot" /\ f.at = "wlock" /\ p = Host /\ Idle(p) /\ stop = "no"
       \/ /\ f.kind = "shutdown" /\ f.at = "lock" /\ p = Host /\ Idle(p) /\ stop = "closing"
          /\ f.inst = current[f.on] /\ ~Closed(f.on)
          /\ \A d \in Cell : <<d, f.on>> \in DependsOn => Closed(d)

\* Work begins.
LEMMA Begins ==
    ASSUME IInv, NEW p \in Goroutine, NEW f, Enters(p, f), Push(p, f),
           UNCHANGED <<current, failed, status, made, accused, stop>>
    PROVE  IInv'
<1>1. TypeOK /\ Host \in Goroutine /\ Len(stack[p]) \in Nat
  BY FramesAre DEF IInv, Goroutine
<1>z. PICK z : z = <<p, Len(stack[p]) + 1>>
  OBVIOUS
<1>3. \A x \in Frames : F(x) \in Frame /\ F(x).on \in Cell
  BY <1>1, FramesAre
<1>4. /\ (stack \in [Goroutine -> Seq(Frame)])'
      /\ z \notin Frames /\ Frames' = Frames \cup {z} /\ F(z)' = f
      /\ \A x \in Frames : F(x)' = F(x)
      /\ Len(stack'[p]) = Len(stack[p]) + 1
      /\ \A q \in Goroutine \ {p} : stack'[q] = stack[q]
  BY <1>1, <1>z, Pushed DEF Enters
<1>5. /\ z \notin Frames /\ Frames' = Frames \cup {z} /\ F(z)' = f /\ f \in Frame /\ f.on \in Cell
      /\ \A x \in Frames : F(x)' = F(x)
  BY <1>3, <1>4 DEF Enters, Frame
<1>6. \A q \in Goroutine : q # p /\ Idle(q) => Idle(q)'
  BY <1>4 DEF Idle
<1>7. /\ current \in [Cell -> Instance] /\ current' = current /\ made' = made /\ stop' = stop /\ status' = status
      /\ accused' = accused
      /\ made \in [Cell -> Instance] /\ NoInstance = 0 /\ \A i \in Instance : i \in Nat /\ i # 0
  BY <1>1, CallBoundsAssumption DEF TypeOK, NoInstance, Instance
<1>8. ~Idle(p) => <<p, Len(stack[p])>> \in Frames /\ F(<<p, Len(stack[p])>>) = Top(p)
  BY <1>1, InnerIs DEF Inner
<1>9. Idle(p) <=> Len(stack[p]) = 0
  BY <1>1, IdleIs
<1>10. f.kind = "shutdown" => Frames = {}
  <2> SUFFICES ASSUME f.kind = "shutdown" PROVE \A q \in Goroutine : Len(stack[q]) = 0
    BY <1>1, FramesAre
  <2>1. stop = "closing" /\ Idle(Host)
    BY DEF Enters
  <2> QED
    BY <2>1, <1>1, IdleIs DEF IInv, Quiet, Goroutine, Caller
<1>t. TypeOK'
  BY <1>3, <1>5, <1>7, <1>4, <1>1 DEF IInv, TypeOK
<1>s1. Shape'
  <2>1. f.at # "swap" /\ f.at # "close" /\ f.at # "load" /\ f.at \in Places(f.kind)
    BY DEF Enters, Places
  <2>2. f.at \in {"lock", "guest"} => f.inst \in Instance
    BY <1>5, <1>7 DEF Enters
  <2>3. Shaped(f)
    BY <2>1, <2>2 DEF Enters, Shaped
  <2> QED
    BY <2>3, <1>5 DEF IInv, Shape
<1>s2. Bottoms'
  <2> SUFFICES ASSUME NEW x \in Frames'
               PROVE  /\ x[2] > 1 => F(x)'.kind = "call"
                      /\ F(x)'.kind \in {"snapshot", "shutdown"} => x = <<Host, 1>>
                      /\ F(x)'.kind = "snapshot" => stop = "no"
                      /\ F(x)'.kind = "shutdown" => stop = "closing" /\ (F(x)'.at # "guest" => Len(stack'[Host]) = 1)
    BY <1>7 DEF Bottoms
  <2>1. CASE x = z
    <3>1. F(x)' = f /\ x = <<p, Len(stack[p]) + 1>>
      BY <2>1, <1>z, <1>5
    <3>2. f.kind # "call" => x = <<p, 1>> /\ Len(stack'[p]) = 1
      BY <3>1, <1>4, <1>9 DEF Enters
    <3> QED
      BY <3>1, <3>2 DEF Enters
  <2>2. CASE x \in Frames
    <3>1. /\ x[2] > 1 => F(x).kind = "call"
          /\ F(x).kind \in {"snapshot", "shutdown"} => x = <<Host, 1>>
          /\ F(x).kind = "snapshot" => stop = "no"
          /\ F(x).kind = "shutdown" => stop = "closing" /\ (F(x).at # "guest" => Len(stack[Host]) = 1)
      BY <2>2 DEF IInv, Bottoms
    <3>2. CASE p # Host
      BY <3>1, <3>2, <2>2, <1>1, <1>4
    <3>3. CASE p = Host /\ F(x).kind \in {"snapshot", "shutdown"}
      <4>1. x = <<Host, 1>> /\ Len(stack[Host]) # 0
        BY <3>1, <3>3, <2>2, <1>1, FramesAre
      <4>2. At(p, "guest")
        BY <4>1, <3>3, <1>9 DEF Enters
      <4>3. Len(stack[Host]) = 1 => F(x) = Top(p)
        BY <4>1, <3>3, <1>8, <1>9
      <4> QED
        BY <4>2, <4>3, <3>1, <2>2, <1>4 DEF At
    <3>4. CASE F(x).kind \notin {"snapshot", "shutdown"}
      BY <3>1, <3>4, <2>2, <1>4
    <3> QED
      BY <3>2, <3>3, <3>4
  <2> QED
    BY <2>1, <2>2, <1>5
<1>s3. Quiet'
  BY <1>6, <1>7, CellsAssumption DEF IInv, Quiet, Goroutine, Caller, Enters, At, Stepping
<1>s4. Numbered'
  BY <1>3, <1>5, <1>7 DEF IInv, Numbered, Enters
<1>s5. Unused'
  BY <1>3, <1>5, <1>7, <1>10 DEF IInv, Unused, Enters, Shape, Shaped
<1>s6. Replaced'
  BY <1>3, <1>5, <1>7 DEF IInv, Replaced, Enters
<1>s7. Installed'
  BY <1>3, <1>5, <1>7 DEF IInv, Installed
<1>s8. OneWriter'
  BY <1>3, <1>5, <1>7 DEF IInv, OneWriter, Writing, Enters
<1>s9. Undisturbed'
  BY <1>3, <1>5, <1>7 DEF IInv, Undisturbed, Reading, Enters
<1>s10. Known'
  BY <1>3, <1>5, <1>7 DEF IInv, Known, Enters
<1>s11. Died'
  BY <1>3, <1>5, <1>7 DEF IInv, Died, Blamed, Enters
<1>s12. ShutAlone'
  BY <1>3, <1>5, <1>7, <1>10 DEF IInv, ShutAlone, Waits, Enters, Closed, Bottoms, Stepping
<1>s13. ShutDownFor'
  BY <1>3, <1>5, <1>7, <1>10 DEF IInv, ShutDownFor, Waits, Enters, Closed, Stepping
<1>s14. GuestOwnsModule'
  BY <1>3, <1>5, <1>7 DEF IInv, GuestOwnsModule, Enters
<1>s15. NoModuleLost'
  BY <1>3, <1>5, <1>7 DEF IInv, NoModuleLost
<1> QED
  BY <1>t, <1>s1, <1>s2, <1>s3, <1>s4, <1>s5, <1>s6, <1>s7, <1>s8, <1>s9, <1>s10, <1>s11, <1>s12,
     <1>s13, <1>s14, <1>s15 DEF IInv

----------------------------------------------------------------------------
(* reinstantiateCell, and Cell.Close *)

\* A new module is made.
LEMMA Loads ==
    ASSUME IInv, NEW p \in Goroutine, LoadOk(p)
    PROVE  IInv'
<1>1. TypeOK /\ ~Idle(p) /\ Top(p).at = "load"
  BY DEF IInv, LoadOk, At
<1>z. PICK z : z = Inner(p)
  OBVIOUS
<1>f. PICK f : f = Top(p)
  OBVIOUS
<1>2. z \in Frames /\ z = <<p, Len(stack[p])>> /\ Len(stack[p]) \in Nat /\ F(z) = f /\ Host \in Goroutine
  BY <1>z, <1>f, <1>1, FramesAre, InnerIs DEF Inner, Goroutine
<1>3. \A x \in Frames : F(x) \in Frame /\ F(x).on \in Cell
  BY <1>1, FramesAre
<1>k. PICK k : k = made[f.on] + 1
  OBVIOUS
<1>7. /\ f \in Frame /\ f.on \in Cell /\ f.at = "load"
      /\ k \in Instance /\ made[f.on] \in Instance /\ made[f.on] < k /\ k # current[f.on] /\ current[f.on] <= made[f.on]
      /\ \A i \in Instance : i \in Nat
      /\ \A i \in Instance : i <= made[f.on] => i # k
  BY <1>f, <1>k, <1>1, <1>2, <1>3, CallBoundsAssumption DEF LoadOk, TypeOK, Instance, IInv, Numbered
<1>8. /\ made' = [made EXCEPT ![f.on] = k] /\ made'[f.on] = k
      /\ status' = [status EXCEPT ![f.on][k] = "open"]
      /\ current' = current /\ failed' = failed /\ stop' = stop /\ accused' = accused
      /\ current \in [Cell -> Instance] /\ made \in [Cell -> Instance]
  BY <1>f, <1>k, <1>1, <1>7 DEF LoadOk, TypeOK
<1>9. /\ status' \in [Cell -> [Instance -> {"none", "open", "dead", "closed"}]]
      /\ made' \in [Cell -> Instance]
      /\ status'[f.on][k] = "open" /\ status[f.on][k] = "none"
      /\ \A c \in Cell, i \in Instance : c # f.on \/ i # k => status'[c][i] = status[c][i]
      /\ \A c \in Cell : c # f.on => made'[c] = made[c]
  BY <1>1, <1>7, <1>8 DEF TypeOK, IInv, Numbered
<1>g. PICK g : g = [f EXCEPT !.at = "swap", !.new = k, !.inst = current[f.on]]
  OBVIOUS
<1>10. /\ g \in Frame /\ g.kind = f.kind /\ g.on = f.on /\ g.at = "swap" /\ g.new = k
       /\ g.inst = current[f.on]
  BY <1>g, <1>7, <1>8 DEF Frame
<1>11. Goto(p, g)
  BY <1>f, <1>g, <1>8 DEF LoadOk
<1>12. \A c \in Cell : Closed(c)' <=> Closed(c)
  BY <1>7, <1>8, <1>9 DEF Closed

<1>4. /\ (stack \in [Goroutine -> Seq(Frame)])'
      /\ Frames' = Frames /\ F(z)' = g
      /\ \A x \in Frames \ {z} : F(x)' = F(x)
      /\ Len(stack'[p]) = Len(stack[p])
      /\ \A q \in Goroutine \ {p} : stack'[q] = stack[q]
  BY <1>z, <1>f, <1>1, <1>10, <1>11, Moved
<1>5. /\ Frames' = Frames /\ F(z)' = g
      /\ \A x \in Frames : x # z => F(x)' = F(x)
  BY <1>4
<1>6. \A q \in Goroutine : /\ Idle(q) => q # p /\ Idle(q)'
                           /\ Len(stack'[q]) = Len(stack[q])
  BY <1>1, <1>4 DEF Idle
<1>13. \A x \in Frames : /\ F(x).inst \in Nat /\ F(x).new \in Nat
                         /\ F(x).on = f.on => F(x).inst # k /\ F(x).new # k
  BY <1>3, <1>7, <1>9 DEF IInv, Numbered, Frame, Instance, NoInstance
<1>v. /\ f.on \in Cell /\ f.at = "load" /\ current' = current /\ stop' = stop /\ accused' = accused
      /\ current \in [Cell -> Instance]
  BY <1>7, <1>8
<1>w. \A c \in Cell, i \in Instance : status[c][i] # "none" => status'[c][i] = status[c][i]
  BY <1>7, <1>9
<1>t. TypeOK'
  BY <1>2, <1>3, <1>5, <1>10, <1>v, <1>4, <1>1, <1>8, <1>9 DEF IInv, TypeOK
<1>s1. Shape'
  <2>1. Shaped(g)
    <3>1. Shaped(f)
      BY <1>2 DEF IInv, Shape
    <3> QED
      BY <3>1, <1>7, <1>10, <1>v DEF Shaped, Places, Frame
  <2> QED
    BY <2>1, <1>2, <1>5 DEF IInv, Shape
<1>s2. Bottoms'
  BY <1>2, <1>3, <1>5, <1>10, <1>v, <1>6 DEF IInv, Bottoms
<1>s3. Quiet'
  BY <1>6, <1>8 DEF IInv, Quiet, Goroutine, Caller
<1>s4. Numbered'
  <2>1. \A c \in Cell : current[c] <= made'[c]
    BY <1>7, <1>8, <1>9 DEF IInv, Numbered
  <2>2. \A c \in Cell, i \in Instance : status'[c][i] = "none" <=> i > made'[c]
    <3> SUFFICES ASSUME NEW c \in Cell, NEW i \in Instance PROVE status'[c][i] = "none" <=> i > made'[c]
      OBVIOUS
    <3>1. status[c][i] = "none" <=> i > made[c]
      BY DEF IInv, Numbered
    <3>2. i \in Nat /\ made[f.on] \in Nat /\ k = made[f.on] + 1
      BY <1>k, <1>7
    <3> QED
      BY <3>1, <3>2, <1>8, <1>9
  <2>3. ASSUME NEW x \in Frames PROVE F(x)'.inst <= made'[F(x)'.on] /\ F(x)'.new <= made'[F(x)'.on]
    <3>1. F(x).inst <= made[F(x).on] /\ F(x).new <= made[F(x).on]
      BY DEF IInv, Numbered
    <3>2. k \in Nat /\ made[f.on] \in Nat /\ current[f.on] \in Nat /\ F(x).inst \in Nat /\ F(x).new \in Nat
      BY <1>7, <1>v, <1>13
    <3> QED
      BY <3>1, <3>2, <1>2, <1>3, <1>5, <1>7, <1>8, <1>9, <1>10, SMTT(30)
  <2> QED
    BY <2>1, <2>2, <2>3, <1>5, <1>8 DEF Numbered
<1>s5. Unused'
  <2> SUFFICES ASSUME NEW x \in Frames, F(x)'.at = "swap"
               PROVE  /\ F(x)'.new # current[F(x)'.on] /\ status'[F(x)'.on][F(x)'.new] # "closed"
                      /\ \A y \in Frames : F(y)'.on = F(x)'.on =>
                            /\ F(y)'.inst # F(x)'.new
                            /\ F(y)'.at = "swap" /\ y # x => F(y)'.new # F(x)'.new
    BY <1>5, <1>8 DEF Unused
  <2>1. CASE x = z
    <3>1. F(x)' = g /\ g.on = f.on /\ g.new = k /\ g.inst = current[f.on] /\ g.at = "swap"
      BY <2>1, <1>5, <1>10
    <3>2. k # current[f.on] /\ status'[f.on][k] # "closed"
      BY <1>7, <1>9
    <3>3. \A y \in Frames : y # x /\ F(y)'.on = f.on => F(y)'.inst # k /\ F(y)'.new # k
      BY <2>1, <1>5, <1>13
    <3> QED
      BY <3>1, <3>2, <3>3
  <2>2. CASE x # z
    <3>1. F(x)' = F(x) /\ F(x).new \in Instance /\ F(x).on \in Cell /\ (F(x).on = f.on => F(x).new # k)
      <4>1. F(x)' = F(x) /\ F(x).at = "swap" /\ F(x).on \in Cell /\ (F(x).on = f.on => F(x).new # k)
        BY <2>2, <1>3, <1>5, <1>13
      <4> QED
        BY <4>1 DEF IInv, Shape, Shaped
    <3>2. /\ F(x).new # current[F(x).on] /\ status[F(x).on][F(x).new] # "closed"
          /\ \A y \in Frames : F(y).on = F(x).on =>
                            /\ F(y).inst # F(x).new
                            /\ F(y).at = "swap" /\ y # x => F(y).new # F(x).new
      BY <3>1 DEF IInv, Unused
    <3>3. status'[F(x).on][F(x).new] # "closed"
      BY <3>1, <3>2, <1>7, <1>9
    <3> QED
      BY <3>1, <3>2, <3>3, <2>2, <1>2, <1>5, <1>10
  <2> QED
    BY <2>1, <2>2
<1>s6. Replaced'
  BY <1>2, <1>3, <1>5, <1>10, <1>v DEF IInv, Replaced
<1>s7. Installed'
  BY <1>2, <1>3, <1>5, <1>10, <1>v, <1>12 DEF IInv, Installed, Closed
<1>s8. OneWriter'
  BY <1>2, <1>3, <1>5, <1>10, <1>v DEF IInv, OneWriter, Writing, Shape, Shaped
<1>s9. Undisturbed'
  BY <1>2, <1>3, <1>5, <1>10, <1>v DEF IInv, Undisturbed, Reading, Shape, Shaped, Places
<1>s10. Known'
  BY <1>2, <1>3, <1>5, <1>10, <1>v DEF IInv, Known
<1>s11. Died'
  <2> SUFFICES ASSUME NEW x \in Frames, F(x)'.kind = "call", F(x)'.on \notin Restarting
               PROVE  LET c == F(x)'.on
                          h == F(x)'
                      IN  /\ h.at \in {"wlock", "drain"} =>
                                status'[c][h.inst] \in {"dead", "closed"} \/ <<c, h.inst>> \in accused
                          /\ h.at = "load" => status'[c][current[c]] = "dead" \/ <<c, current[c]>> \in accused
                          /\ h.at \in {"swap", "close"} => status'[c][h.inst] = "dead" \/ <<c, h.inst>> \in accused
    BY <1>5, <1>v DEF Died, Blamed
  <2>1. /\ F(x).kind = "call" => /\ F(x).at \in {"wlock", "drain"} => F(x).inst \in Instance
                                 /\ F(x).at \in {"swap", "close"} => F(x).inst \in Instance
        /\ F(x).on \in Cell
    BY <1>3 DEF IInv, Shape, Shaped
  <2>2. CASE x = z
    <3>1. F(x)' = g /\ F(x) = f /\ g.on = f.on /\ g.at = "swap" /\ g.inst = current[f.on] /\ f.at = "load"
      BY <2>2, <1>2, <1>5, <1>10, <1>v
    <3>2. f.kind = "call" /\ f.on \notin Restarting
      BY <3>1, <1>10
    <3>3. status[f.on][current[f.on]] = "dead" \/ <<f.on, current[f.on]>> \in accused
      BY <3>1, <3>2 DEF IInv, Died, Blamed
    <3>4. status[f.on][current[f.on]] = "dead" => status'[f.on][current[f.on]] = "dead"
      BY <1>v, <1>w
    <3> QED
      BY <3>1, <3>3, <3>4
  <2>3. CASE x # z
    BY <2>1, <2>3, <1>5, <1>v, <1>w DEF IInv, Died, Blamed
  <2> QED
    BY <2>2, <2>3
<1>s12. ShutAlone'
  BY <1>2, <1>3, <1>5, <1>10, <1>v, <1>12 DEF IInv, ShutAlone, Waits, Shape, Shaped, Places, Closed
<1>s13. ShutDownFor'
  BY <1>2, <1>3, <1>5, <1>10, <1>v, <1>12 DEF IInv, ShutDownFor, Waits
<1>s14. GuestOwnsModule'
  <2> SUFFICES ASSUME NEW x \in Frames, F(x)'.at = "guest"
               PROVE  /\ status'[F(x)'.on][F(x)'.inst] # "closed"
                      /\ \A y \in Frames :
                            F(y)'.at = "guest" /\ F(y)'.on = F(x)'.on /\ F(y)'.inst = F(x)'.inst => y = x
    BY <1>5 DEF GuestOwnsModule
  <2>1. x # z /\ F(x)' = F(x)
    BY <1>5, <1>10
  <2>2. F(x).on \in Cell /\ F(x).inst \in Instance /\ status[F(x).on][F(x).inst] # "closed"
    BY <2>1, <1>3 DEF IInv, GuestOwnsModule, Shape, Shaped
  <2>3. \A y \in Frames : F(y)'.at = "guest" => F(y)' = F(y)
    BY <1>5, <1>10
  <2> QED
    BY <2>1, <2>2, <2>3, <1>9 DEF IInv, GuestOwnsModule
<1>s15. NoModuleLost'
  <2> SUFFICES ASSUME stop # "panicked", NEW c \in Cell \ Restarting, NEW i \in Instance,
                      status'[c][i] \in {"open", "dead"}, current[c] # i
               PROVE  \E x \in Frames' : F(x)'.on = c /\ (\/ F(x)'.at = "swap" /\ F(x)'.new = i
                                                          \/ F(x)'.at = "close" /\ F(x)'.inst = i)
    BY <1>8 DEF NoModuleLost
  <2>1. CASE c = f.on /\ i = k
    BY <2>1, <1>2, <1>5, <1>10
  <2>2. CASE c # f.on \/ i # k
    <3>1. status[c][i] \in {"open", "dead"}
      BY <2>2, <1>9
    <3>2. PICK x \in Frames : F(x).on = c /\ (\/ F(x).at = "swap" /\ F(x).new = i
                                              \/ F(x).at = "close" /\ F(x).inst = i)
      BY <3>1 DEF IInv, NoModuleLost
    <3>3. x # z
      BY <3>2, <1>2, <1>7
    <3> QED
      BY <3>2, <3>3, <1>5
  <2> QED
    BY <2>1, <2>2
<1> QED
  BY <1>t, <1>s1, <1>s2, <1>s3, <1>s4, <1>s5, <1>s6, <1>s7, <1>s8, <1>s9, <1>s10, <1>s11, <1>s12,
     <1>s13, <1>s14, <1>s15 DEF IInv

\* rt.cell is set to the new module.
LEMMA Swaps ==
    ASSUME IInv, NEW p \in Goroutine, Swap(p)
    PROVE  IInv'
<1>1. TypeOK /\ ~Idle(p) /\ Top(p).at = "swap"
  BY DEF IInv, Swap, At
<1>z. PICK z : z = Inner(p)
  OBVIOUS
<1>f. PICK f : f = Top(p)
  OBVIOUS
<1>2. z \in Frames /\ z = <<p, Len(stack[p])>> /\ Len(stack[p]) \in Nat /\ F(z) = f /\ Host \in Goroutine
  BY <1>z, <1>f, <1>1, FramesAre, InnerIs DEF Inner, Goroutine
<1>3. \A x \in Frames : F(x) \in Frame /\ F(x).on \in Cell
  BY <1>1, FramesAre
<1>7. /\ f \in Frame /\ f.on \in Cell /\ f.at = "swap" /\ f.new \in Instance /\ f.inst \in Instance
      /\ f.new # f.inst /\ f.kind \in {"step", "tick", "call"}
      /\ f.kind \in {"step", "tick"} => f.on \in Restarting
  BY <1>f, <1>1, <1>2, <1>3 DEF IInv, Shape, Shaped, Places, Unused, Frame
<1>g. PICK g : g = [f EXCEPT !.at = "close"]
  OBVIOUS
<1>10. /\ g \in Frame /\ g.kind = f.kind /\ g.on = f.on /\ g.at = "close" /\ g.new = f.new /\ g.inst = f.inst
  BY <1>g, <1>7 DEF Frame
<1>11. Goto(p, g)
  BY <1>f, <1>g DEF Swap

<1>4. /\ (stack \in [Goroutine -> Seq(Frame)])'
      /\ Frames' = Frames /\ F(z)' = g
      /\ \A x \in Frames \ {z} : F(x)' = F(x)
      /\ Len(stack'[p]) = Len(stack[p])
      /\ \A q \in Goroutine \ {p} : stack'[q] = stack[q]
  BY <1>z, <1>f, <1>1, <1>10, <1>11, Moved
<1>5. /\ Frames' = Frames /\ F(z)' = g
      /\ \A x \in Frames : x # z => F(x)' = F(x)
  BY <1>4
<1>6. \A q \in Goroutine : /\ Idle(q) => q # p /\ Idle(q)'
                           /\ Len(stack'[q]) = Len(stack[q])
  BY <1>1, <1>4 DEF Idle
<1>8. /\ current' = [current EXCEPT ![f.on] = f.new] /\ current' \in [Cell -> Instance]
      /\ failed' = failed
  BY <1>f, <1>1, <1>7 DEF Swap, TypeOK
<1>v. /\ f.on \in Cell /\ f.at = "swap" /\ status' = status /\ made' = made /\ stop' = stop
      /\ accused' = accused
      /\ current \in [Cell -> Instance] /\ current'[f.on] = f.new
      /\ \A c \in Cell : c # f.on => current'[c] = current[c]
  BY <1>f, <1>1, <1>7, <1>8 DEF Swap, TypeOK
<1>u. /\ f.new # current[f.on] /\ status[f.on][f.new] # "closed" /\ f.new <= made[f.on]
      /\ \A y \in Frames : F(y).on = f.on => /\ F(y).inst # f.new
                                             /\ F(y).at = "swap" /\ y # z => F(y).new # f.new
  BY <1>2, <1>7 DEF IInv, Unused, Numbered
<1>w. f.on \notin Restarting =>
        \A y \in Frames : F(y).on = f.on /\ y # z => ~Writing(F(y)) /\ F(y).at \notin {"load", "swap"}
  <2> SUFFICES ASSUME f.on \notin Restarting, NEW y \in Frames, F(y).on = f.on, y # z
               PROVE  ~Writing(F(y)) /\ F(y).at \notin {"load", "swap"}
    OBVIOUS
  <2>1. Writing(F(z))
    BY <1>2, <1>7 DEF Writing
  <2>2. ~Writing(F(y))
    BY <2>1, <1>2 DEF IInv, OneWriter
  <2>3. F(y).kind \in {"step", "tick"} => F(y).at \notin {"load", "swap"}
    BY DEF IInv, Shape, Shaped
  <2>4. F(y).kind = "call" => F(y).at \notin {"load", "swap"}
    BY <2>2 DEF Writing
  <2>5. F(y).kind \in {"snapshot", "shutdown"} => F(y).at \notin {"load", "swap"}
    BY DEF IInv, Shape, Shaped, Places
  <2> QED
    BY <2>2, <2>3, <2>4, <2>5, <1>3 DEF Frame
<1>t. TypeOK'
  BY <1>2, <1>3, <1>5, <1>10, <1>v, <1>4, <1>1, <1>8 DEF IInv, TypeOK
<1>s1. Shape'
  <2>1. Shaped(g)
    BY <1>7, <1>10 DEF Shaped, Places, Frame
  <2> QED
    BY <2>1, <1>2, <1>5 DEF IInv, Shape
<1>s2. Bottoms'
  BY <1>2, <1>3, <1>5, <1>10, <1>v, <1>6, <1>7 DEF IInv, Bottoms
<1>s3. Quiet'
  BY <1>6, <1>v DEF IInv, Quiet, Goroutine, Caller
<1>s4. Numbered'
  BY <1>2, <1>3, <1>5, <1>10, <1>v, <1>u DEF IInv, Numbered
<1>s5. Unused'
  BY <1>2, <1>3, <1>5, <1>10, <1>v, <1>u DEF IInv, Unused
<1>s6. Replaced'
  BY <1>2, <1>3, <1>5, <1>10, <1>v, <1>u DEF IInv, Replaced
<1>s7. Installed'
  BY <1>2, <1>3, <1>5, <1>10, <1>v, <1>u DEF IInv, Installed
<1>s8. OneWriter'
  BY <1>2, <1>3, <1>5, <1>10, <1>v, <1>7 DEF IInv, OneWriter, Writing
<1>s9. Undisturbed'
  BY <1>2, <1>3, <1>5, <1>10, <1>v, <1>7 DEF IInv, Undisturbed, Reading
<1>s10. Known'
  BY <1>2, <1>3, <1>5, <1>10, <1>v, <1>w, <1>7 DEF IInv, Known, Writing
<1>s11. Died'
  <2> SUFFICES ASSUME NEW x \in Frames, F(x)'.kind = "call", F(x)'.on \notin Restarting
               PROVE  LET c == F(x)'.on
                          h == F(x)'
                      IN  /\ h.at \in {"wlock", "drain"} =>
                                status[c][h.inst] \in {"dead", "closed"} \/ <<c, h.inst>> \in accused
                          /\ h.at = "load" => status[c][current'[c]] = "dead" \/ <<c, current'[c]>> \in accused
                          /\ h.at \in {"swap", "close"} => status[c][h.inst] = "dead" \/ <<c, h.inst>> \in accused
    BY <1>5, <1>v DEF Died, Blamed
  <2>1. ASSUME F(x).kind = "call", F(x).on \notin Restarting
        PROVE  LET c == F(x).on
                   h == F(x)
               IN  /\ h.at \in {"wlock", "drain"} =>
                         status[c][h.inst] \in {"dead", "closed"} \/ <<c, h.inst>> \in accused
                   /\ h.at = "load" => status[c][current[c]] = "dead" \/ <<c, current[c]>> \in accused
                   /\ h.at \in {"swap", "close"} => status[c][h.inst] = "dead" \/ <<c, h.inst>> \in accused
    BY <2>1 DEF IInv, Died, Blamed
  <2>2. CASE x = z
    BY <2>1, <2>2, <1>2, <1>5, <1>10, <1>v
  <2>3. CASE x # z
    <3>1. F(x)' = F(x) /\ F(x).on \in Cell
      BY <2>3, <1>3, <1>5
    <3>2. F(x).at = "load" => current'[F(x).on] = current[F(x).on]
      BY <3>1, <2>3, <1>v, <1>w
    <3> QED
      BY <3>1, <3>2, <2>1
  <2> QED
    BY <2>2, <2>3
<1>s12. ShutAlone'
  <2>1. \A x \in Frames : F(x).kind = "shutdown" => F(x).on # f.on
    BY <1>2, <1>7 DEF IInv, ShutAlone, Waits
  <2>2. \A d \in Cell : stop \in {"closing", "stopped"} /\ Closed(d) => Closed(d)'
    BY <1>2, <1>v DEF IInv, ShutDownFor, Closed, Waits
  <2>3. \A x \in Frames : F(x).kind = "shutdown" => stop = "closing"
    BY DEF IInv, Bottoms
  <2> QED
    BY <2>1, <2>2, <2>3, <1>2, <1>3, <1>5, <1>7, <1>10, <1>v DEF IInv, ShutAlone, Waits
<1>s13. ShutDownFor'
  <2> SUFFICES ASSUME stop \in {"closing", "stopped"}
               PROVE  /\ \A c \in Cell : Closed(c)' => \A x \in Frames : F(x)'.on = c => Waits(F(x))'
                      /\ \A c, d \in Cell : <<d, c>> \in DependsOn /\ Closed(c)' => Closed(d)'
    BY <1>5, <1>v DEF ShutDownFor
  <2>1. ~Closed(f.on)
    BY <1>2, <1>v DEF IInv, ShutDownFor, Waits
  <2>2. ~Closed(f.on)'
    BY <1>v, <1>u DEF Closed
  <2>3. \A c \in Cell : c # f.on => (Closed(c)' <=> Closed(c))
    BY <1>v DEF Closed
  <2>4. \A c \in Cell : Closed(c)' <=> Closed(c)
    BY <2>1, <2>2, <2>3
  <2> QED
    BY <2>1, <2>4, <1>2, <1>3, <1>5, <1>10, <1>v DEF IInv, ShutDownFor, Waits
<1>s14. GuestOwnsModule'
  BY <1>2, <1>3, <1>5, <1>10, <1>v DEF IInv, GuestOwnsModule
<1>s15. NoModuleLost'
  <2> SUFFICES ASSUME stop # "panicked", NEW c \in Cell \ Restarting, NEW i \in Instance,
                      status[c][i] \in {"open", "dead"}, current'[c] # i
               PROVE  \E x \in Frames' : F(x)'.on = c /\ (\/ F(x)'.at = "swap" /\ F(x)'.new = i
                                                          \/ F(x)'.at = "close" /\ F(x)'.inst = i)
    BY <1>v DEF NoModuleLost
  <2>1. CASE current[c] = i
    <3>1. c = f.on /\ f.inst = i
      BY <2>1, <1>2, <1>7, <1>v DEF IInv, Known
    <3> QED
      BY <3>1, <1>2, <1>5, <1>10
  <2>2. CASE current[c] # i
    <3>1. PICK x \in Frames : F(x).on = c /\ (\/ F(x).at = "swap" /\ F(x).new = i
                                              \/ F(x).at = "close" /\ F(x).inst = i)
      BY <2>2 DEF IInv, NoModuleLost
    <3>2. x # z
      BY <3>1, <1>2, <1>v
    <3> QED
      BY <3>1, <3>2, <1>5
  <2> QED
    BY <2>1, <2>2
<1> QED
  BY <1>t, <1>s1, <1>s2, <1>s3, <1>s4, <1>s5, <1>s6, <1>s7, <1>s8, <1>s9, <1>s10, <1>s11, <1>s12,
     <1>s13, <1>s14, <1>s15 DEF IInv

\* A module is closed.
LEMMA Closes ==
    ASSUME IInv, NEW p \in Goroutine, CloseModule(p)
    PROVE  IInv'
<1>1. TypeOK /\ ~Idle(p) /\ Top(p).at = "close"
  BY DEF IInv, CloseModule, At
<1>z. PICK z : z = Inner(p)
  OBVIOUS
<1>f. PICK f : f = Top(p)
  OBVIOUS
<1>2. z \in Frames /\ z = <<p, Len(stack[p])>> /\ Len(stack[p]) \in Nat /\ F(z) = f /\ Host \in Goroutine
  BY <1>z, <1>f, <1>1, FramesAre, InnerIs DEF Inner, Goroutine
<1>3. \A x \in Frames : F(x) \in Frame /\ F(x).on \in Cell
  BY <1>1, FramesAre
<1>7. /\ f \in Frame /\ f.on \in Cell /\ f.at = "close" /\ f.inst \in Instance
      /\ f.kind \in {"step", "tick"} => f.on \in Restarting
      /\ f.kind \in {"step", "tick", "call", "shutdown"}
  BY <1>f, <1>1, <1>2, <1>3 DEF IInv, Shape, Shaped, Places, Frame
<1>4. /\ (stack \in [Goroutine -> Seq(Frame)])'
      /\ Frames' = Frames \ {z}
      /\ \A x \in Frames : x # z => F(x)' = F(x)
      /\ Len(stack'[p]) = Len(stack[p]) - 1
      /\ \A q \in Goroutine \ {p} : stack'[q] = stack[q]
  BY <1>z, <1>1, Popped DEF CloseModule
<1>5. \A x \in Frames' : x \in Frames /\ x # z /\ F(x)' = F(x) /\ F(x) \in Frame /\ F(x).on \in Cell
  BY <1>3, <1>4
<1>6. \A q \in Goroutine : Idle(q) => q # p /\ Idle(q)'
  BY <1>1, <1>4 DEF Idle
<1>8. /\ status' = [status EXCEPT ![f.on][f.inst] = "closed"] /\ failed' = failed
      /\ current' = current /\ made' = made /\ stop' = stop /\ accused' = accused
  BY <1>f DEF CloseModule
<1>v. /\ current' = current /\ made' = made /\ stop' = stop /\ current \in [Cell -> Instance]
      /\ accused' = accused
      /\ status' \in [Cell -> [Instance -> {"none", "open", "dead", "closed"}]]
      /\ status'[f.on][f.inst] = "closed"
      /\ \A c \in Cell, i \in Instance : c # f.on \/ i # f.inst => status'[c][i] = status[c][i]
  BY <1>1, <1>7, <1>8 DEF TypeOK
<1>u. /\ \A x \in Frames : ~(F(x).on = f.on /\ F(x).inst = f.inst /\ F(x).at = "guest")
      /\ f.kind = "shutdown" \/ f.inst # current[f.on]
  BY <1>f, <1>2, <1>7 DEF CloseModule, MayClose, Free, IInv, Replaced
<1>w. \A c \in Cell : Closed(c)' <=> Closed(c) \/ (c = f.on /\ f.kind = "shutdown")
  <2>1. f.kind = "shutdown" => f.inst = current[f.on]
    BY <1>2 DEF IInv, ShutAlone
  <2> QED
    BY <2>1, <1>7, <1>v, <1>u DEF Closed
<1>t. TypeOK'
  BY <1>2, <1>5, <1>v, <1>4, <1>1, <1>8 DEF IInv, TypeOK
<1>s1. Shape'
  BY <1>5 DEF IInv, Shape
<1>s2. Bottoms'
  BY <1>2, <1>4, <1>5, <1>8 DEF IInv, Bottoms
<1>s3. Quiet'
  BY <1>6, <1>v DEF IInv, Quiet, Goroutine, Caller
<1>s4. Numbered'
  <2>1. f.inst <= made[f.on] /\ status[f.on][f.inst] # "none"
    <3>1. f.inst <= made[f.on] /\ made[f.on] \in Instance
      BY <1>1, <1>2, <1>7 DEF IInv, Numbered, TypeOK
    <3> QED
      BY <3>1, <1>7, CallBoundsAssumption DEF IInv, Numbered, Instance
  <2>2. \A c \in Cell, i \in Instance : status'[c][i] = "none" <=> status[c][i] = "none"
    BY <2>1, <1>7, <1>v
  <2> QED
    BY <2>2, <1>5, <1>v DEF IInv, Numbered
<1>s5. Unused'
  BY <1>2, <1>5, <1>v, <1>7 DEF IInv, Unused, Shape, Shaped
<1>s6. Replaced'
  BY <1>2, <1>5, <1>v DEF IInv, Replaced
<1>s7. Installed'
  <2>1. f.kind = "shutdown" => stop = "closing"
    BY <1>2 DEF IInv, Bottoms
  <2> QED
    BY <2>1, <1>v, <1>w DEF IInv, Installed, Closed
<1>s8. OneWriter'
  BY <1>2, <1>5, <1>v DEF IInv, OneWriter
<1>s9. Undisturbed'
  BY <1>2, <1>5, <1>v DEF IInv, Undisturbed
<1>s10. Known'
  BY <1>2, <1>5, <1>v DEF IInv, Known
<1>s11. Died'
  <2> SUFFICES ASSUME NEW x \in Frames, x # z, F(x).kind = "call", F(x).on \notin Restarting
               PROVE  /\ F(x).at \in {"wlock", "drain"} =>
                            status'[F(x).on][F(x).inst] \in {"dead", "closed"} \/ <<F(x).on, F(x).inst>> \in accused
                      /\ F(x).at = "load" =>
                            \/ status'[F(x).on][current[F(x).on]] = "dead"
                            \/ <<F(x).on, current[F(x).on]>> \in accused
                      /\ F(x).at \in {"swap", "close"} =>
                            status'[F(x).on][F(x).inst] = "dead" \/ <<F(x).on, F(x).inst>> \in accused
    BY <1>5, <1>v DEF Died, Blamed
  <2>1. CASE F(x).on # f.on
    BY <2>1, <1>3, <1>7, <1>v DEF IInv, Died, Blamed, Shape, Shaped
  <2>2. CASE F(x).on = f.on
    <3>1. f.kind = "call" \/ f.kind = "shutdown"
      BY <2>2, <1>7
    <3>2. CASE f.kind = "call"
      <4>1. Writing(f)
        BY <3>2, <1>7 DEF Writing
      <4>2. ~Writing(F(x))
        BY <4>1, <2>2, <1>2 DEF IInv, OneWriter
      <4>3. F(x).at \notin {"load", "swap", "close"}
        BY <4>2 DEF Writing
      <4>4. F(x).at \in {"wlock", "drain"} =>
               /\ status[F(x).on][F(x).inst] \in {"dead", "closed"} \/ <<F(x).on, F(x).inst>> \in accused
               /\ F(x).inst \in Instance
        BY DEF IInv, Died, Blamed, Shape, Shaped
      <4> QED
        BY <4>3, <4>4, <2>2, <1>7, <1>v
    <3>3. CASE f.kind = "shutdown"
      BY <3>3, <2>2, <1>2 DEF IInv, ShutAlone, Waits
    <3> QED
      BY <3>1, <3>2, <3>3
  <2> QED
    BY <2>1, <2>2
<1>s12. ShutAlone'
  <2> SUFFICES ASSUME NEW x \in Frames, x # z, F(x).kind = "shutdown"
               PROVE  /\ F(x).inst = current[F(x).on] /\ status'[F(x).on][F(x).inst] # "closed"
                      /\ \A y \in Frames : F(y).on = F(x).on /\ y # x => Waits(F(y))
                      /\ \A d \in Cell : <<d, F(x).on>> \in DependsOn => Closed(d)'
    BY <1>5, <1>v DEF ShutAlone, Waits
  <2>1. /\ F(x).inst = current[F(x).on] /\ status[F(x).on][F(x).inst] # "closed"
        /\ \A y \in Frames : F(y).on = F(x).on /\ y # x => Waits(F(y))
        /\ \A d \in Cell : <<d, F(x).on>> \in DependsOn => Closed(d)
    BY DEF IInv, ShutAlone
  <2>2. F(x).on # f.on
    BY <2>1, <1>2, <1>7 DEF Waits
  <2> QED
    BY <2>1, <2>2, <1>3, <1>v, <1>w
<1>s13. ShutDownFor'
  <2> SUFFICES ASSUME stop \in {"closing", "stopped"}
               PROVE  /\ \A c \in Cell : Closed(c)' => \A x \in Frames : x # z /\ F(x).on = c => Waits(F(x))
                      /\ \A c, d \in Cell : <<d, c>> \in DependsOn /\ Closed(c)' => Closed(d)'
    BY <1>5, <1>v DEF ShutDownFor, Waits
  <2>1. /\ \A c \in Cell : Closed(c) => \A x \in Frames : F(x).on = c => Waits(F(x))
        /\ \A c, d \in Cell : <<d, c>> \in DependsOn /\ Closed(c) => Closed(d)
    BY DEF IInv, ShutDownFor
  <2>2. f.kind = "shutdown" => /\ \A x \in Frames : x # z /\ F(x).on = f.on => Waits(F(x))
                               /\ \A d \in Cell : <<d, f.on>> \in DependsOn => Closed(d)
    BY <1>2 DEF IInv, ShutAlone
  <2> QED
    BY <2>1, <2>2, <1>w
<1>s14. GuestOwnsModule'
  BY <1>2, <1>5, <1>v, <1>u DEF IInv, GuestOwnsModule, Shape, Shaped
<1>s15. NoModuleLost'
  <2> SUFFICES ASSUME stop # "panicked", NEW c \in Cell \ Restarting, NEW i \in Instance,
                      status'[c][i] \in {"open", "dead"}, current[c] # i
               PROVE  \E x \in Frames' : F(x)'.on = c /\ (\/ F(x)'.at = "swap" /\ F(x)'.new = i
                                                          \/ F(x)'.at = "close" /\ F(x)'.inst = i)
    BY <1>v DEF NoModuleLost
  <2>1. ~(c = f.on /\ i = f.inst) /\ status[c][i] \in {"open", "dead"}
    BY <1>v
  <2>2. PICK x \in Frames : F(x).on = c /\ (\/ F(x).at = "swap" /\ F(x).new = i
                                            \/ F(x).at = "close" /\ F(x).inst = i)
    BY <2>1 DEF IInv, NoModuleLost
  <2>3. x # z
    BY <2>1, <2>2, <1>2, <1>7
  <2> QED
    BY <2>2, <2>3, <1>4
<1> QED
  BY <1>t, <1>s1, <1>s2, <1>s3, <1>s4, <1>s5, <1>s6, <1>s7, <1>s8, <1>s9, <1>s10, <1>s11, <1>s12,
     <1>s13, <1>s14, <1>s15 DEF IInv

----------------------------------------------------------------------------
(* contexts, and the shutdown *)

\* A context ends.
LEMMA ContextEnds ==
    ASSUME IInv, NEW p \in Goroutine, NEW n \in Nat, Deadline(p, n)
    PROVE  IInv'
<1>1. TypeOK /\ stack \in [Goroutine -> Seq(Frame)] /\ stack[p] \in Seq(Frame)
  BY DEF IInv, TypeOK
<1>s. PICK s : s = stack[p]
  OBVIOUS
<1>2. s \in Seq(Frame) /\ Len(s) \in Nat /\ DOMAIN s = 1..Len(s) /\ n \in 1..Len(s)
      /\ \A k \in 1..Len(s) : s[k] \in Frame
  BY <1>1, <1>s DEF Deadline
<1>m. PICK t : t = [k \in 1..Len(s) |-> IF k >= n THEN [s[k] EXCEPT !.late = TRUE] ELSE s[k]]
  OBVIOUS
<1>3. /\ \A k \in 1..Len(s) : /\ t[k] \in Frame /\ t[k].kind = s[k].kind /\ t[k].on = s[k].on
                              /\ t[k].at = s[k].at /\ t[k].inst = s[k].inst /\ t[k].new = s[k].new
      /\ t \in Seq(Frame) /\ Len(t) = Len(s) /\ DOMAIN t = 1..Len(s)
  <2>1. \A h \in Frame : LET u == [h EXCEPT !.late = TRUE]
                         IN  /\ u \in Frame /\ u.kind = h.kind /\ u.on = h.on
                             /\ u.at = h.at /\ u.inst = h.inst /\ u.new = h.new
    BY DEF Frame
  <2>2. \A k \in 1..Len(s) : t[k] = s[k] \/ t[k] = [s[k] EXCEPT !.late = TRUE]
    BY <1>m
  <2>3. \A k \in 1..Len(s) : /\ t[k] \in Frame /\ t[k].kind = s[k].kind /\ t[k].on = s[k].on
                             /\ t[k].at = s[k].at /\ t[k].inst = s[k].inst /\ t[k].new = s[k].new
    BY <2>1, <2>2, <1>2
  <2>4. t \in [1..Len(s) -> Frame]
    BY <2>3, <1>m
  <2> QED
    BY <2>3, <2>4, <1>2
<1>4. stack' = [stack EXCEPT ![p] = t]
  BY <1>s, <1>m, <1>2 DEF Deadline
<1>5. /\ (stack \in [Goroutine -> Seq(Frame)])' /\ stack'[p] = t
      /\ \A q \in Goroutine \ {p} : stack'[q] = stack[q]
  BY <1>1, <1>3, <1>4
<1>6. \A q \in Goroutine : /\ DOMAIN stack'[q] = DOMAIN stack[q] /\ Len(stack'[q]) = Len(stack[q])
                           /\ Idle(q) => Idle(q)'
  <2>1. DOMAIN stack'[p] = DOMAIN stack[p] /\ Len(stack'[p]) = Len(stack[p]) /\ ~Idle(p)
    BY <1>s, <1>2, <1>3, <1>5 DEF Idle
  <2> QED
    BY <2>1, <1>5 DEF Idle
<1>7. Frames' = Frames
  BY <1>6 DEF Frames
<1>8. \A x \in Frames : /\ F(x)'.kind = F(x).kind /\ F(x)'.on = F(x).on /\ F(x)'.at = F(x).at
                        /\ F(x)'.inst = F(x).inst /\ F(x)'.new = F(x).new /\ F(x).on \in Cell
  <2> SUFFICES ASSUME NEW q \in Goroutine, NEW m \in 1..Len(stack[q])
               PROVE  LET x == <<q, m>>
                      IN  /\ F(x)'.kind = F(x).kind /\ F(x)'.on = F(x).on /\ F(x)'.at = F(x).at
                          /\ F(x)'.inst = F(x).inst /\ F(x)'.new = F(x).new
    BY <1>1, FramesAre
  <2>1. CASE q # p
    BY <2>1, <1>5 DEF F
  <2>2. CASE q = p
    BY <2>2, <1>s, <1>3, <1>5 DEF F
  <2> QED
    BY <2>1, <2>2
<1>9. ASSUME NEW c \in Cell, NEW i \in Instance
      PROVE  status'[c][i] = status[c][i] \/ (status'[c][i] = "dead" /\ status[c][i] \in {"open", "dead"})
  <2>1. status'[c][i] = IF \E k \in n..Len(stack[p]) : /\ stack[p][k].on = c /\ stack[p][k].inst = i
                                                       /\ stack[p][k].at = "guest"
                        THEN "dead" ELSE status[c][i]
    BY DEF Deadline
  <2>2. CASE \E k \in n..Len(stack[p]) : /\ stack[p][k].on = c /\ stack[p][k].inst = i
                                         /\ stack[p][k].at = "guest"
    <3>1. PICK k \in n..Len(stack[p]) : /\ stack[p][k].on = c /\ stack[p][k].inst = i
                                        /\ stack[p][k].at = "guest"
      BY <2>2
    <3>2. k \in 1..Len(stack[p])
      BY <3>1, <1>2, <1>s
    <3>3. <<p, k>> \in Frames /\ F(<<p, k>>) = stack[p][k]
      BY <3>2, <1>1, FramesAre DEF F
    <3>4. status[c][i] # "closed" /\ i <= made[c]
      BY <3>1, <3>3 DEF IInv, GuestOwnsModule, Numbered
    <3>5. status[c][i] # "none"
      <4>1. made[c] \in Nat /\ i \in Nat
        BY <1>1, CallBoundsAssumption DEF TypeOK, Instance
      <4> QED
        BY <4>1, <3>4 DEF IInv, Numbered
    <3> QED
      BY <3>4, <3>5, <2>1, <2>2, <1>1 DEF TypeOK
  <2> QED
    BY <2>1, <2>2
<1>10. /\ status' \in [Cell -> [Instance -> {"none", "open", "dead", "closed"}]]
       /\ current' = current /\ made' = made /\ stop' = stop /\ failed' = failed
       /\ accused' = accused
       /\ current \in [Cell -> Instance]
  <2>1. \A c \in Cell, i \in Instance : (IF \E k \in n..Len(stack[p]) : /\ stack[p][k].on = c /\ stack[p][k].inst = i
                                                                        /\ stack[p][k].at = "guest"
                        THEN "dead" ELSE status[c][i]) \in {"none", "open", "dead", "closed"}
    BY <1>1 DEF TypeOK
  <2> QED
    BY <2>1, <1>1 DEF Deadline, TypeOK
<1>11. Ages
  BY <1>9, <1>10 DEF Ages
<1>12. \A c \in Cell : Closed(c)' <=> Closed(c)
  BY <1>10, <1>11 DEF Closed, Ages
<1>v. /\ Frames' = Frames /\ current' = current /\ made' = made /\ stop' = stop /\ current \in [Cell -> Instance]
      /\ accused' = accused
  BY <1>7, <1>10
<1>t. TypeOK'
  BY <1>8, <1>v, <1>1, <1>5, <1>10 DEF IInv, TypeOK
<1>s1. Shape'
  BY <1>8, <1>v DEF IInv, Shape, Shaped
<1>s2. Bottoms'
  BY <1>8, <1>v, <1>6 DEF IInv, Bottoms, Goroutine
<1>s3. Quiet'
  BY <1>6, <1>v DEF IInv, Quiet, Goroutine, Caller
<1>s4. Numbered'
  <2>1. \A c \in Cell, i \in Instance : status'[c][i] = "none" <=> status[c][i] = "none"
    BY <1>11 DEF Ages
  <2> QED
    BY <2>1, <1>8, <1>v DEF IInv, Numbered
<1>s5. Unused'
  BY <1>8, <1>v, <1>11 DEF IInv, Unused, Shape, Shaped, Ages
<1>s6. Replaced'
  BY <1>8, <1>v DEF IInv, Replaced
<1>s7. Installed'
  BY <1>8, <1>v, <1>12 DEF IInv, Installed, Closed
<1>s8. OneWriter'
  BY <1>8, <1>v DEF IInv, OneWriter, Writing
<1>s9. Undisturbed'
  BY <1>8, <1>v DEF IInv, Undisturbed, Reading
<1>s10. Known'
  BY <1>8, <1>v DEF IInv, Known
<1>s11. Died'
  BY <1>8, <1>v, <1>11 DEF IInv, Died, Blamed, Shape, Shaped, Ages
<1>s12. ShutAlone'
  BY <1>8, <1>v, <1>11, <1>12 DEF IInv, ShutAlone, Shape, Shaped, Waits, Ages
<1>s13. ShutDownFor'
  BY <1>8, <1>v, <1>12 DEF IInv, ShutDownFor, Waits
<1>s14. GuestOwnsModule'
  BY <1>8, <1>v, <1>11 DEF IInv, GuestOwnsModule, Shape, Shaped, Ages
<1>s15. NoModuleLost'
  BY <1>8, <1>v, <1>11 DEF IInv, NoModuleLost, Ages
<1> QED
  BY <1>t, <1>s1, <1>s2, <1>s3, <1>s4, <1>s5, <1>s6, <1>s7, <1>s8, <1>s9, <1>s10, <1>s11, <1>s12,
     <1>s13, <1>s14, <1>s15 DEF IInv

\* The process ends with everything in it.
LEMMA Panics ==
    ASSUME IInv, SnapshotPanics
    PROVE  IInv'
<1>1. TypeOK /\ ~Idle(Host) /\ Top(Host).kind = "snapshot" /\ Host \in Goroutine
  BY DEF IInv, SnapshotPanics, At, Goroutine
<1>2. stop = "no" /\ stop' = "panicked"
  BY <1>1, InnerIs DEF IInv, Bottoms, SnapshotPanics
<1>3. (stack \in [Goroutine -> Seq(Frame)])' /\ Frames' = {}
  <2>1. stack' = [p \in Goroutine |-> <<>>] /\ <<>> \in Seq(Frame)
    BY DEF SnapshotPanics
  <2>2. \A p \in Goroutine : DOMAIN stack'[p] = {}
    BY <2>1
  <2> QED
    BY <2>1, <2>2 DEF Frames
<1>4. UNCHANGED <<current, failed, status, made, accused>>
  BY DEF SnapshotPanics
<1>t. TypeOK'
  BY <1>2, <1>3, <1>4, <1>1 DEF IInv, TypeOK
<1>s1. Shape'
  BY <1>2, <1>3, <1>4 DEF IInv, Shape
<1>s2. Bottoms'
  BY <1>2, <1>3, <1>4 DEF IInv, Bottoms
<1>s3. Quiet'
  BY <1>2, <1>3, <1>4 DEF IInv, Quiet
<1>s4. Numbered'
  BY <1>2, <1>3, <1>4 DEF IInv, Numbered
<1>s5. Unused'
  BY <1>2, <1>3, <1>4 DEF IInv, Unused
<1>s6. Replaced'
  BY <1>2, <1>3, <1>4 DEF IInv, Replaced
<1>s7. Installed'
  BY <1>2, <1>3, <1>4 DEF IInv, Installed
<1>s8. OneWriter'
  BY <1>2, <1>3, <1>4 DEF IInv, OneWriter
<1>s9. Undisturbed'
  BY <1>2, <1>3, <1>4 DEF IInv, Undisturbed
<1>s10. Known'
  BY <1>2, <1>3, <1>4 DEF IInv, Known
<1>s11. Died'
  BY <1>2, <1>3, <1>4 DEF IInv, Died, Blamed
<1>s12. ShutAlone'
  BY <1>2, <1>3, <1>4 DEF IInv, ShutAlone
<1>s13. ShutDownFor'
  BY <1>2, <1>3, <1>4 DEF IInv, ShutDownFor
<1>s14. GuestOwnsModule'
  BY <1>2, <1>3, <1>4 DEF IInv, GuestOwnsModule
<1>s15. NoModuleLost'
  BY <1>2, <1>3, <1>4 DEF IInv, NoModuleLost
<1> QED
  BY <1>t, <1>s1, <1>s2, <1>s3, <1>s4, <1>s5, <1>s6, <1>s7, <1>s8, <1>s9, <1>s10, <1>s11, <1>s12,
     <1>s13, <1>s14, <1>s15 DEF IInv

\* stopLocked goes on.
LEMMA StopGoesOn ==
    ASSUME IInv, NEW to, StopGoes(to), stop \in {"no", "closing"} => Idle(Host),
           \/ stop = "no" /\ to = "refusing"
           \/ stop = "refusing" /\ to = "revoking" /\ \A p \in Foreign : Idle(p)
           \/ stop = "revoking" /\ to = "cancelled" /\ \A p \in Access : Idle(p)
           \/ stop = "cancelled" /\ to = "closing" /\ \A p \in Cell : Idle(p)
           \/ stop = "closing" /\ to = "stopped"
    PROVE  IInv'
<1>1. TypeOK /\ stop' = to /\ UNCHANGED <<stack, current, failed, status, made, accused>>
  BY DEF IInv, StopGoes
<1>2. Frames' = Frames /\ \A x \in Frames : F(x)' = F(x) /\ F(x).on \in Cell
  BY <1>1, FramesAre DEF Frames, F
<1>3. \A c \in Cell : Closed(c)' <=> Closed(c)
  BY <1>1 DEF Closed
<1>4. \A q \in Goroutine : Idle(q)' <=> Idle(q)
  BY <1>1 DEF Idle
<1>5. \A x \in Frames : F(x).kind \notin {"snapshot", "shutdown"}
  <2>1. ASSUME NEW x \in Frames, F(x).kind \in {"snapshot", "shutdown"} PROVE FALSE
    <3>1. x = <<Host, 1>> /\ Host \in Goroutine
      BY <2>1 DEF IInv, Bottoms, Goroutine
    <3>2. ~Idle(Host)
      BY <1>1, <3>1, FramesAre, IdleIs
    <3>3. stop \in {"no", "closing"}
      BY <2>1 DEF IInv, Bottoms
    <3> QED
      BY <3>2, <3>3
  <2> QED
    BY <2>1
<1>t. TypeOK'
  BY <1>1, <1>2, <1>5 DEF IInv, TypeOK
<1>s1. Shape'
  BY <1>1, <1>2, <1>5 DEF IInv, Shape
<1>s2. Bottoms'
  BY <1>1, <1>2, <1>5 DEF IInv, Bottoms
<1>s3. Quiet'
  BY <1>1, <1>4 DEF IInv, Quiet, Goroutine, Caller
<1>s4. Numbered'
  BY <1>1, <1>2, <1>5 DEF IInv, Numbered
<1>s5. Unused'
  BY <1>1, <1>2, <1>5 DEF IInv, Unused
<1>s6. Replaced'
  BY <1>1, <1>2, <1>5 DEF IInv, Replaced
<1>s7. Installed'
  BY <1>1, <1>2, <1>5 DEF IInv, Installed
<1>s8. OneWriter'
  BY <1>1, <1>2, <1>5 DEF IInv, OneWriter
<1>s9. Undisturbed'
  BY <1>1, <1>2, <1>5 DEF IInv, Undisturbed
<1>s10. Known'
  BY <1>1, <1>2, <1>5 DEF IInv, Known
<1>s11. Died'
  BY <1>1, <1>2, <1>5 DEF IInv, Died, Blamed
<1>s12. ShutAlone'
  BY <1>1, <1>2, <1>5 DEF IInv, ShutAlone
<1>s13. ShutDownFor'
  BY <1>1, <1>2, <1>3 DEF IInv, ShutDownFor, Installed, Closed, Waits
<1>s14. GuestOwnsModule'
  BY <1>1, <1>2, <1>5 DEF IInv, GuestOwnsModule
<1>s15. NoModuleLost'
  BY <1>1, <1>2, <1>5 DEF IInv, NoModuleLost
<1> QED
  BY <1>t, <1>s1, <1>s2, <1>s3, <1>s4, <1>s5, <1>s6, <1>s7, <1>s8, <1>s9, <1>s10, <1>s11, <1>s12,
     <1>s13, <1>s14, <1>s15 DEF IInv

----------------------------------------------------------------------------
(* the actions *)

\* A step that changes none of the state that the invariant is about.
LEMMA Idles ==
    ASSUME IInv, UNCHANGED <<stack, current, failed, status, made, accused, stop>>
    PROVE  IInv'
<1>1. Frames' = Frames /\ (\A x : F(x)' = F(x)) /\ (\A q : Idle(q)' <=> Idle(q)) /\ (\A c : Closed(c)' <=> Closed(c))
  BY DEF Frames, F, Idle, Closed
<1>2. TypeOK' /\ Shape' /\ Bottoms' /\ Quiet' /\ Numbered' /\ Unused' /\ Replaced' /\ Installed'
  BY <1>1 DEF IInv, TypeOK, Shape, Bottoms, Quiet, Numbered, Unused, Replaced, Installed
<1>3. OneWriter' /\ Undisturbed' /\ Known' /\ Died' /\ ShutAlone' /\ ShutDownFor'
  BY <1>1 DEF IInv, OneWriter, Undisturbed, Known, Died, Blamed, ShutAlone, ShutDownFor, Waits
<1>4. GuestOwnsModule' /\ NoModuleLost'
  BY <1>1 DEF IInv, GuestOwnsModule, NoModuleLost
<1> QED
  BY <1>2, <1>3, <1>4 DEF IInv

\* A frame that changes no module and returns.
LEMMA OnlyReturns ==
    ASSUME IInv, NEW p \in Goroutine, ~Idle(p), Top(p).at \notin {"swap", "close"}, Return(p),
           UNCHANGED <<current, status, made, accused, stop>>, failed' \in [Cell -> BOOLEAN]
    PROVE  IInv'
<1>1. Stays
  BY DEF Stays, Ages, IInv, TypeOK
<1> QED
  BY <1>1, Leaves

\* A frame that changes no module and goes on.
LEMMA OnlyMoves ==
    ASSUME IInv, NEW p \in Goroutine, ~Idle(p), NEW g, Moves(Top(p), g), Goto(p, g),
           UNCHANGED <<current, failed, status, made, accused, stop>>
    PROVE  IInv'
<1>1. Stays
  BY DEF Stays, Ages, IInv, TypeOK
<1> QED
  BY <1>1, GoesOnInside

\* A call begins, or is refused.
LEMMA CallBegins ==
    ASSUME IInv, NEW p \in Goroutine, NEW c \in Cell, NEW late \in BOOLEAN, Call(p, c, late),
           (p \in Foreign /\ Idle(p) /\ stop = "no") \/ At(p, "guest")
    PROVE  IInv'
<1>1. CASE UNCHANGED stack
  BY <1>1, Idles DEF Call
<1>2. CASE Push(p, NewFrame("call", c, "rlock", NoInstance, late))
  <2>1. PICK f : f = NewFrame("call", c, "rlock", NoInstance, late)
    OBVIOUS
  <2>2. Enters(p, f)
    BY <2>1 DEF Enters, NewFrame, Frame
  <2> QED
    BY <1>2, <2>1, <2>2, Begins DEF Call
<1> QED
  BY <1>1, <1>2 DEF Call

\* The actions that begin work.
LEMMA BeginNext ==
    ASSUME IInv, NEW c \in Cell,
           \/ BeginStep(c) \/ BeginTick(c) \/ BeginSnapshot(c) \/ ShutDown(c)
           \/ \E p \in Foreign : ForeignCalls(p, c)
           \/ \E p \in Access : AccessCalls(p, c)
           \/ \E p \in Goroutine : GuestCalls(p, c)
    PROVE  IInv'
<1> USE DEF Goroutine, Caller
<1>1. CASE BeginStep(c)
  <2>1. PICK f : f = NewFrame("step", c, "rlock", NoInstance, FALSE)
    OBVIOUS
  <2>2. Enters(c, f)
    BY <1>1, <2>1 DEF BeginStep, Enters, NewFrame, Frame
  <2> QED
    BY <1>1, <2>1, <2>2, Begins DEF BeginStep
<1>2. CASE BeginTick(c)
  <2>1. PICK f : f = NewFrame("tick", c, "rlock", NoInstance, FALSE)
    OBVIOUS
  <2>2. Enters(c, f)
    BY <1>2, <2>1 DEF BeginTick, Enters, NewFrame, Frame
  <2> QED
    BY <1>2, <2>1, <2>2, Begins DEF BeginTick
<1>3. CASE BeginSnapshot(c)
  <2>1. PICK f : f = NewFrame("snapshot", c, "wlock", NoInstance, FALSE)
    OBVIOUS
  <2>2. Enters(Host, f)
    BY <1>3, <2>1 DEF BeginSnapshot, Enters, NewFrame, Frame
  <2> QED
    BY <1>3, <2>1, <2>2, Begins DEF BeginSnapshot
<1>4. CASE ShutDown(c)
  <2>1. PICK f : f = NewFrame("shutdown", c, "lock", current[c], FALSE)
    OBVIOUS
  <2>2. Enters(Host, f)
    BY <1>4, <2>1 DEF ShutDown, Enters, NewFrame, Frame, Closed, IInv, TypeOK
  <2> QED
    BY <1>4, <2>1, <2>2, Begins DEF ShutDown
<1>5. CASE \E p \in Foreign : ForeignCalls(p, c)
  BY <1>5, CallBegins DEF ForeignCalls
<1>6. CASE \E p \in Access : AccessCalls(p, c)
  <2>1. PICK p \in Access : AccessCalls(p, c)
    BY <1>6
  <2>2. PICK f : f = NewFrame("call", c, "queue", NoInstance, FALSE)
    OBVIOUS
  <2>3. Enters(p, f)
    BY <2>1, <2>2 DEF AccessCalls, Enters, NewFrame, Frame
  <2> QED
    BY <2>1, <2>2, <2>3, Begins DEF AccessCalls
<1>7. CASE \E p \in Goroutine : GuestCalls(p, c)
  <2>1. PICK p \in Goroutine : GuestCalls(p, c)
    BY <1>7
  <2>2. Top(p).late \in BOOLEAN
    <3>1. Top(p) \in Frame
      BY <2>1, InnerIs, FramesAre DEF GuestCalls, At, IInv
    <3> QED
      BY <3>1 DEF Frame
  <2>3. PICK late \in BOOLEAN : Call(p, c, late)
    BY <2>1, <2>2 DEF GuestCalls
  <2> QED
    BY <2>1, <2>3, CallBegins DEF GuestCalls
<1> QED
  BY <1>1, <1>2, <1>3, <1>4, <1>5, <1>6, <1>7

\* A frame that has gone to another place.
LEMMA PlaceOf ==
    ASSUME NEW f \in Frame, NEW a \in {"queue", "rlock", "lock", "guest", "wlock", "drain", "load", "swap", "close"},
           NEW g, g = [f EXCEPT !.at = a]
    PROVE  g \in Frame /\ g.kind = f.kind /\ g.on = f.on /\ g.new = f.new /\ g.inst = f.inst /\ g.at = a
BY DEF Frame

\* The actions of a goroutine that has begun.
LEMMA GoesOnNext ==
    ASSUME IInv, NEW p \in Goroutine, GoesOn(p)
    PROVE  IInv'
<1>0. ASSUME ~Idle(p) PROVE Top(p) \in Frame /\ Shaped(Top(p)) /\ Top(p).on \in Cell
  BY <1>0, InnerIs, FramesAre DEF IInv, Shape
<1>i. current \in [Cell -> Instance] /\ NoInstance \in Instance \cup {NoInstance} /\ failed \in [Cell -> BOOLEAN]
  BY DEF IInv, TypeOK
<1>1. CASE Turn(p)
  <2>1. ~Idle(p) /\ Top(p).at = "queue" /\ UNCHANGED <<current, failed, status, made, accused, stop>>
    BY <1>1 DEF Turn, At
  <2>2. CASE Return(p)
    BY <2>1, <2>2, <1>i, OnlyReturns
  <2>3. CASE Goto(p, [Top(p) EXCEPT !.at = "rlock"])
    <3>1. PICK g : g = [Top(p) EXCEPT !.at = "rlock"]
      OBVIOUS
    <3>2. Moves(Top(p), g)
      <4>1. Top(p) \in Frame
        BY <1>0, <2>1
      <4>2. /\ g \in Frame /\ g.kind = Top(p).kind /\ g.on = Top(p).on /\ g.new = Top(p).new
            /\ g.inst = Top(p).inst /\ g.at = "rlock"
        BY <3>1, <4>1, PlaceOf
      <4> QED
        BY <4>2, <2>1 DEF Moves
    <3> QED
      BY <2>1, <2>3, <3>1, <3>2, OnlyMoves
  <2> QED
    BY <1>1, <2>2, <2>3 DEF Turn
<1>2. CASE RLock(p)
  <2>1. ~Idle(p) /\ Top(p).at = "rlock" /\ UNCHANGED <<current, failed, status, made, accused, stop>> /\ NoWriter(Top(p).on)
    BY <1>2 DEF RLock, At, NoWriter
  <2>2. PICK g : g = [Top(p) EXCEPT !.at = "lock", !.inst = current[Top(p).on]]
    OBVIOUS
  <2>3. Moves(Top(p), g)
    <3>1. current[Top(p).on] \in Instance /\ Top(p) \in Frame
      BY <1>0, <1>i, <2>1
    <3>2. /\ g \in Frame /\ g.kind = Top(p).kind /\ g.on = Top(p).on /\ g.new = Top(p).new
          /\ g.inst = current[Top(p).on] /\ g.at = "lock"
      BY <2>2, <3>1 DEF Frame
    <3> QED
      BY <3>2, <2>1 DEF Moves
  <2> QED
    BY <1>2, <2>1, <2>2, <2>3, OnlyMoves DEF RLock
<1>3. CASE Lock(p)
  <2>1. /\ ~Idle(p) /\ Top(p).at = "lock" /\ UNCHANGED <<current, failed, made, accused, stop>>
        /\ Free(Top(p).on, Top(p).inst) /\ status[Top(p).on][Top(p).inst] # "closed"
        /\ status' = [status EXCEPT ![Top(p).on][Top(p).inst] = IF Top(p).late THEN "dead" ELSE @]
    BY <1>3 DEF Lock, At, MayEnter
  <2>2. PICK g : g = [Top(p) EXCEPT !.at = "guest"]
    OBVIOUS
  <2>3. Moves(Top(p), g)
    <3>1. Top(p) \in Frame
      BY <1>0, <2>1
    <3>2. /\ g \in Frame /\ g.kind = Top(p).kind /\ g.on = Top(p).on /\ g.new = Top(p).new
          /\ g.inst = Top(p).inst /\ g.at = "guest"
      BY <2>2, <3>1, PlaceOf
    <3> QED
      BY <3>2, <2>1 DEF Moves
  <2>4. Stays
    <3>1. PICK c, i : c = Top(p).on /\ i = Top(p).inst
      OBVIOUS
    <3>2. c \in Cell /\ i \in Instance /\ i <= made[c]
      BY <3>1, <2>1, <1>0, InnerIs DEF Shaped, IInv, Numbered
    <3>3. i \in Nat /\ made[c] \in Nat
      BY <3>2, CallBoundsAssumption DEF IInv, TypeOK, Instance
    <3>4. status[c][i] \in {"open", "dead"} /\ status \in [Cell -> [Instance -> {"none", "open", "dead", "closed"}]]
      BY <3>1, <3>2, <3>3, <2>1 DEF IInv, Numbered, TypeOK
    <3>5. status' = [status EXCEPT ![c][i] = "dead"] \/ status' = status
      BY <3>1, <3>2, <3>4, <2>1
    <3>6. Ages
      BY <3>2, <3>4, <3>5 DEF Ages
    <3> QED
      BY <3>6, <2>1, <1>i DEF Stays, IInv, TypeOK
  <2> QED
    BY <1>3, <2>1, <2>2, <2>3, <2>4, GoesOnInside DEF Lock
<1>4. CASE Yield(p)
  BY <1>4, <1>i, OnlyReturns DEF Yield, At
<1>5. CASE GiveUp(p)
  BY <1>5, <1>i, OnlyReturns DEF GiveUp, At
<1>6. CASE FindsClosed(p) \/ GuestEnds(p)
  <2>1. PICK result : /\ After(p, Top(p), result) /\ ~Idle(p) /\ Top(p).at \in {"lock", "guest"}
                      /\ UNCHANGED <<current, failed, made, stop>>
                      /\ \/ status' = status /\ accused' = accused /\ ~ReadsClosed(result)
                         \/ /\ Top(p).at = "guest"
                            /\ accused' = IF result = "diagnostic" THEN accused \cup {<<Top(p).on, Top(p).inst>>}
                                                                    ELSE accused
                            /\ status' = [status EXCEPT ![Top(p).on][Top(p).inst] =
                                              IF result = "module closed" THEN "dead" ELSE @]
    <3>1. CASE FindsClosed(p)
      <4>1. /\ After(p, Top(p), "error") /\ ~Idle(p) /\ Top(p).at = "lock"
            /\ UNCHANGED <<current, failed, status, made, accused, stop>>
        BY <3>1 DEF FindsClosed, At
      <4>2. ~ReadsClosed("error")
        BY DEF ReadsClosed
      <4> QED
        BY <4>1, <4>2
    <3>2. CASE GuestEnds(p)
      BY <3>2 DEF GuestEnds, At
    <3> QED
      BY <3>1, <3>2, <1>6
  <2>2. PICK c, i : c = Top(p).on /\ i = Top(p).inst
    OBVIOUS
  <2>3. c \in Cell /\ i \in Instance /\ i <= made[c]
    BY <2>1, <2>2, <1>0, InnerIs DEF Shaped, IInv, Numbered
  <2>4. i \in Nat /\ made[c] \in Nat
    BY <2>3, CallBoundsAssumption DEF IInv, TypeOK, Instance
  <2>5. /\ status \in [Cell -> [Instance -> {"none", "open", "dead", "closed"}]]
        /\ Top(p).at = "guest" => status[c][i] \in {"open", "dead"}
    <3>1. status[c][i] # "none" /\ status \in [Cell -> [Instance -> {"none", "open", "dead", "closed"}]]
      BY <2>3, <2>4 DEF IInv, Numbered, TypeOK
    <3>2. Inner(p) \in Frames /\ F(Inner(p)) = Top(p)
      BY <2>1, InnerIs DEF IInv
    <3>3. Top(p).at = "guest" => status[c][i] # "closed"
      BY <3>2, <2>2 DEF IInv, GuestOwnsModule
    <3>4. status[c][i] \in {"none", "open", "dead", "closed"}
      BY <3>1, <2>3
    <3> QED
      BY <3>1, <3>3, <3>4
  <2>6. \/ status' = status
        \/ Top(p).at = "guest" /\ status' = [status EXCEPT ![c][i] = "dead"]
    <3>1. CASE result = "module closed"
      BY <3>1, <2>1, <2>2
    <3>2. CASE result # "module closed"
      <4>1. [status EXCEPT ![c][i] = status[c][i]] = status
        BY <2>3, <2>5
      <4> QED
        BY <4>1, <3>2, <2>1, <2>2
    <3> QED
      BY <3>1, <3>2
  <2>7. Ages
    BY <2>3, <2>5, <2>6 DEF Ages
  <2>a. accused' \in SUBSET (Cell \X Instance) /\ accused \subseteq accused'
    <3>1. accused \in SUBSET (Cell \X Instance) /\ <<c, i>> \in Cell \X Instance
      BY <2>3 DEF IInv, TypeOK
    <3>2. accused' = accused \/ accused' = accused \cup {<<c, i>>}
      BY <2>1, <2>2
    <3> QED
      BY <3>1, <3>2
  <2>b. MeetsDead(Top(p), result) => Top(p).at = "guest" /\ (status'[c][i] = "dead" \/ <<c, i>> \in accused')
    <3> SUFFICES ASSUME MeetsDead(Top(p), result)
                 PROVE  Top(p).at = "guest" /\ (status'[c][i] = "dead" \/ <<c, i>> \in accused')
      OBVIOUS
    <3>1. ReadsClosed(result)
      BY DEF MeetsDead
    <3>2. /\ Top(p).at = "guest"
          /\ accused' = IF result = "diagnostic" THEN accused \cup {<<c, i>>} ELSE accused
          /\ status' = [status EXCEPT ![c][i] = IF result = "module closed" THEN "dead" ELSE @]
      BY <3>1, <2>1, <2>2
    <3>3. CASE result = "diagnostic"
      BY <3>2, <3>3
    <3>4. CASE result = "module closed"
      <4>1. status'[c][i] = "dead"
        BY <3>2, <3>4, <2>3, <2>5
      <4> QED
        BY <4>1, <3>2
    <3> QED
      BY <3>1, <3>3, <3>4 DEF ReadsClosed
  <2>8. Stays
    BY <2>1, <2>7, <2>a, <1>i DEF Stays
  <2>9. CASE Return(p)
    BY <2>1, <2>8, <2>9, Leaves
  <2>10. CASE MeetsDead(Top(p), result) /\ Goto(p, [Top(p) EXCEPT !.at = "wlock"])
    <3>1. PICK g : g = [Top(p) EXCEPT !.at = "wlock"]
      OBVIOUS
    <3>2. Moves(Top(p), g)
      <4>1. Top(p) \in Frame
        BY <1>0, <2>1
      <4>2. /\ g \in Frame /\ g.kind = Top(p).kind /\ g.on = Top(p).on /\ g.new = Top(p).new
            /\ g.inst = Top(p).inst /\ g.at = "wlock"
        BY <3>1, <4>1, PlaceOf
      <4> QED
        BY <4>2, <2>1, <2>2, <2>b, <2>10 DEF Moves, MeetsDead
    <3> QED
      BY <2>1, <2>8, <2>10, <3>1, <3>2, GoesOnInside
  <2>11. CASE Supervised(Top(p)) /\ Goto(p, [Top(p) EXCEPT !.at = "load"])
    <3>1. PICK g : g = [Top(p) EXCEPT !.at = "load"]
      OBVIOUS
    <3>2. Moves(Top(p), g)
      <4>1. Top(p) \in Frame
        BY <1>0, <2>1
      <4>2. /\ g \in Frame /\ g.kind = Top(p).kind /\ g.on = Top(p).on /\ g.new = Top(p).new
            /\ g.inst = Top(p).inst /\ g.at = "load"
        BY <3>1, <4>1, PlaceOf
      <4> QED
        BY <4>2, <2>1, <2>11 DEF Moves, Supervised
    <3> QED
      BY <2>1, <2>8, <2>11, <3>1, <3>2, GoesOnInside
  <2>12. CASE Top(p).kind = "shutdown" /\ Goto(p, [Top(p) EXCEPT !.at = "close"])
    <3>1. PICK g : g = [Top(p) EXCEPT !.at = "close"]
      OBVIOUS
    <3>2. Moves(Top(p), g)
      <4>1. Top(p) \in Frame
        BY <1>0, <2>1
      <4>2. /\ g \in Frame /\ g.kind = Top(p).kind /\ g.on = Top(p).on /\ g.new = Top(p).new
            /\ g.inst = Top(p).inst /\ g.at = "close"
        BY <3>1, <4>1, PlaceOf
      <4> QED
        BY <4>2, <2>1, <2>12 DEF Moves
    <3> QED
      BY <2>1, <2>8, <2>12, <3>1, <3>2, GoesOnInside
  <2> QED
    BY <2>1, <2>9, <2>10, <2>11, <2>12 DEF After
<1>7. CASE WLock(p)
  <2>1. ~Idle(p) /\ Top(p).at = "wlock" /\ UNCHANGED <<current, failed, status, made, accused, stop>> /\ NoWriter(Top(p).on)
    BY <1>7 DEF WLock, At
  <2>2. PICK g : g = [Top(p) EXCEPT !.at = "drain"]
    OBVIOUS
  <2>3. Moves(Top(p), g)
    <3>1. Top(p) \in Frame
      BY <1>0, <2>1
    <3>2. /\ g \in Frame /\ g.kind = Top(p).kind /\ g.on = Top(p).on /\ g.new = Top(p).new
          /\ g.inst = Top(p).inst /\ g.at = "drain"
      BY <2>2, <3>1, PlaceOf
    <3> QED
      BY <3>2, <2>1 DEF Moves
  <2> QED
    BY <1>7, <2>1, <2>2, <2>3, OnlyMoves DEF WLock
<1>8. CASE Drained(p)
  <2>1. ~Idle(p) /\ Top(p).at = "drain" /\ UNCHANGED <<current, failed, status, made, accused, stop>> /\ NoReader(Top(p).on)
    BY <1>8 DEF Drained, At
  <2>2. CASE Return(p)
    BY <2>1, <2>2, <1>i, OnlyReturns
  <2>3. CASE Top(p).kind = "call" /\ StillCurrent(Top(p)) /\ Goto(p, [Top(p) EXCEPT !.at = "load"])
    <3>1. PICK g : g = [Top(p) EXCEPT !.at = "load"]
      OBVIOUS
    <3>2. Moves(Top(p), g)
      <4>1. Top(p) \in Frame
        BY <1>0, <2>1
      <4>2. /\ g \in Frame /\ g.kind = Top(p).kind /\ g.on = Top(p).on /\ g.new = Top(p).new
            /\ g.inst = Top(p).inst /\ g.at = "load"
        BY <3>1, <4>1, PlaceOf
      <4> QED
        BY <4>2, <2>1, <2>3 DEF Moves, StillCurrent
    <3> QED
      BY <2>1, <2>3, <3>1, <3>2, OnlyMoves
  <2>4. CASE Top(p).kind = "snapshot" /\ Goto(p, [Top(p) EXCEPT !.at = "lock", !.inst = current[Top(p).on]])
    <3>1. PICK g : g = [Top(p) EXCEPT !.at = "lock", !.inst = current[Top(p).on]]
      OBVIOUS
    <3>2. Moves(Top(p), g)
      <4>1. current[Top(p).on] \in Instance /\ Top(p) \in Frame
        BY <1>0, <1>i, <2>1
      <4>2. /\ g \in Frame /\ g.kind = Top(p).kind /\ g.on = Top(p).on /\ g.new = Top(p).new
            /\ g.inst = current[Top(p).on] /\ g.at = "lock"
        BY <3>1, <4>1 DEF Frame
      <4> QED
        BY <4>2, <2>1, <2>4 DEF Moves
    <3> QED
      BY <2>1, <2>4, <3>1, <3>2, OnlyMoves
  <2> QED
    BY <1>8, <2>2, <2>3, <2>4 DEF Drained
<1>9. CASE LoadFails(p)
  <2>1. failed' \in [Cell -> BOOLEAN]
    BY <1>9, <1>i DEF LoadFails
  <2> QED
    BY <1>9, <2>1, OnlyReturns DEF LoadFails, At
<1>10. CASE LoadOk(p)
  BY <1>10, Loads
<1>11. CASE Swap(p)
  BY <1>11, Swaps
<1>12. CASE CloseModule(p)
  BY <1>12, Closes
<1> QED
  BY <1>1, <1>2, <1>3, <1>4, <1>5, <1>6, <1>7, <1>8, <1>9, <1>10, <1>11, <1>12 DEF GoesOn

\* The actions of the host that stops the application.
LEMMA HostNext ==
    ASSUME IInv, Stop \/ HostGoesOn
    PROVE  IInv'
<1>1. CASE Stop
  BY <1>1, StopGoesOn DEF Stop
<1>2. CASE Revoke
  BY <1>2, StopGoesOn DEF Revoke, LeasesReturned
<1>3. CASE Cancel
  BY <1>3, StopGoesOn DEF Cancel
<1>4. CASE Joined
  BY <1>4, StopGoesOn DEF Joined
<1>5. CASE Stopped
  BY <1>5, StopGoesOn DEF Stopped
<1> QED
  BY <1>1, <1>2, <1>3, <1>4, <1>5, Panics, BeginNext DEF HostGoesOn

----------------------------------------------------------------------------
(* the invariant, and what it says *)

\* The invariant holds in the running application before any work.
LEMMA InvInit == Init => IInv
<1> SUFFICES ASSUME Init PROVE IInv
  OBVIOUS
<1>1. 1 \in Instance /\ \A i \in Instance : i \in Nat /\ (i > 1 <=> i # 1)
  BY CallBoundsAssumption DEF Instance
<1>2. TypeOK
  <2>1. stack \in [Goroutine -> Seq(Frame)]
    BY DEF Init
  <2>2. \A i \in Instance : (IF i = 1 THEN "open" ELSE "none") \in {"none", "open", "dead", "closed"}
    OBVIOUS
  <2> QED
    BY <1>1, <2>1, <2>2 DEF Init, TypeOK
<1>3. \A p \in Goroutine : Idle(p) /\ DOMAIN stack[p] = {}
  BY DEF Init, Idle
<1>4. Frames = {}
  BY <1>3 DEF Frames
<1>5. Quiet
  BY <1>3 DEF Quiet, Goroutine, Caller
<1>6. Numbered
  BY <1>1, <1>4 DEF Init, Numbered
<1>7. /\ Shape /\ Bottoms /\ Unused /\ Replaced /\ OneWriter /\ Undisturbed
      /\ Known /\ Died /\ ShutAlone /\ GuestOwnsModule
  BY <1>4 DEF Shape, Bottoms, Unused, Replaced, OneWriter, Undisturbed, Known, Died, ShutAlone,
     GuestOwnsModule
<1>8. Installed /\ ShutDownFor /\ NoModuleLost
  BY <1>1, <1>4 DEF Init, Installed, ShutDownFor, NoModuleLost
<1> QED
  BY <1>2, <1>5, <1>6, <1>7, <1>8 DEF IInv

\* Every step keeps it.
LEMMA InvNext == IInv /\ [Next]_vars => IInv'
<1> SUFFICES ASSUME IInv, [Next]_vars PROVE IInv'
  OBVIOUS
<1>1. CASE UNCHANGED vars
  BY <1>1, Idles DEF vars
<1>2. CASE Next
  <2>1. CASE \E c \in Cell : BeginStep(c) \/ BeginTick(c) \/ BeginSnapshot(c)
    BY <2>1, BeginNext
  <2>2. CASE \E c \in Cell : (\E p \in Foreign : ForeignCalls(p, c)) \/ (\E p \in Access : AccessCalls(p, c))
    BY <2>2, BeginNext
  <2>3. CASE \E p \in Goroutine, c \in Cell : GuestCalls(p, c)
    BY <2>3, BeginNext
  <2>4. CASE \E p \in Goroutine : GoesOn(p)
    BY <2>4, GoesOnNext
  <2>5. CASE \E p \in Goroutine : \E n \in 1..(MaxCalls + 1) : Deadline(p, n)
    <3>1. \A n \in 1..(MaxCalls + 1) : n \in Nat
      BY CallBoundsAssumption
    <3> QED
      BY <2>5, <3>1, ContextEnds
  <2>6. CASE Stop \/ HostGoesOn
    BY <2>6, HostNext
  <2> QED
    BY <1>2, <2>1, <2>2, <2>3, <2>4, <2>5, <2>6 DEF Next
<1> QED
  BY <1>1, <1>2

\* The invariant holds throughout, whatever the cells, the links between them
\* (cyclic ones included), the callers, and the numbers of modules, calls,
\* deadlines and snapshots.
THEOREM CallsInvariant == Spec => []IInv
<1>1. Init => IInv
  BY InvInit
<1>2. IInv /\ [Next]_vars => IInv'
  BY InvNext
<1> QED
  BY <1>1, <1>2, PTL DEF Spec

\* rt.cell, rt.failed and the frames of every goroutine keep their types.
THEOREM CallTypes == Spec => []TypeOK
<1>1. IInv => TypeOK
  BY DEF IInv
<1> QED
  BY <1>1, CallsInvariant, PTL

\* Cell.mu: at most one goroutine executes in a module, and no module is torn
\* down under it, whatever calls, steps, deadlines and replacements do.
THEOREM OneGuestPerModule == Spec => []GuestOwnsModule
<1>1. IInv => GuestOwnsModule
  BY DEF IInv
<1> QED
  BY <1>1, CallsInvariant, PTL

\* A snapshot is taken of the cell's current module with nothing in the cell,
\* except for what superviseTrap does without execution.Lock.
THEOREM SnapshotsAreQuiet == Spec => []SnapshotIsQuiet
<1>1. IInv => SnapshotIsQuiet
  <2> SUFFICES ASSUME IInv, NEW x \in Frames, NEW y \in Frames, F(x).kind = "snapshot", F(x).at = "guest",
                      F(y).on = F(x).on, y # x
               PROVE  \/ /\ F(y).at \in {"queue", "rlock", "wlock"}
                         /\ F(x).on \notin Restarting => current[F(x).on] = F(x).inst
                      \/ Supervised(F(y)) /\ F(y).at \in {"load", "swap", "close"}
    BY DEF SnapshotIsQuiet
  <2>1. F(x).on \notin Restarting => current[F(x).on] = F(x).inst
    BY DEF IInv, Known
  <2>2. ~Reading(F(y))
    BY DEF IInv, Undisturbed
  <2>3. ~Writing(F(y))
    BY DEF IInv, OneWriter, Writing
  <2>4. F(y).kind \notin {"snapshot", "shutdown"}
    BY DEF IInv, Bottoms
  <2>5. stop = "no"
    BY DEF IInv, Bottoms
  <2>6. Shaped(F(y)) /\ F(y) \in Frame
    BY FramesAre DEF IInv, Shape
  <2> QED
    BY <2>1, <2>2, <2>3, <2>4, <2>5, <2>6 DEF Shaped, Places, Reading, Writing, Supervised,
       Stepping, Frame
<1> QED
  BY <1>1, CallsInvariant, PTL

\* Of a cell that its step loop does not restart, a failed call replaces no
\* module but one that is dead, or whose own guest has reported an error that
\* reads like a closed module: never the one that took its place.
THEOREM HealthyModulesStay == Spec => []OnlyDeadReplaced
<1>1. IInv => OnlyDeadReplaced
  BY DEF IInv, Died, Blamed, OnlyDeadReplaced, Replacing
<1> QED
  BY <1>1, CallsInvariant, PTL

\* Of such a cell no module that is not closed is ever out of everybody's
\* reach.
THEOREM ModulesAreKept == Spec => []NoModuleLost
<1>1. IInv => NoModuleLost
  BY DEF IInv
<1> QED
  BY <1>1, CallsInvariant, PTL

\* When the first cell is shut down nobody else is in the application, and a
\* cell that shuts down can still call those that it depends on.
THEOREM StopIsQuiet == Spec => []StopsQuietly
<1>1. IInv => StopsQuietly
  <2> SUFFICES ASSUME IInv PROVE StopsQuietly
    OBVIOUS
  <2>1. stop \in {"closing", "stopped"} => \A p \in Goroutine \ {Host} : Idle(p)
    BY DEF IInv, Quiet, Goroutine, Caller
  <2>2. ASSUME NEW x \in Frames, F(x).kind = "shutdown", NEW d \in Cell, <<F(x).on, d>> \in DependsOn, Closed(d)
        PROVE  FALSE
    <3>1. F(x).on \in Cell /\ stop = "closing"
      BY <2>2, FramesAre DEF IInv, Bottoms
    <3>2. Closed(F(x).on)
      BY <2>2, <3>1 DEF IInv, ShutDownFor
    <3> QED
      BY <2>2, <3>1, <3>2 DEF IInv, ShutAlone, Closed
  <2> QED
    BY <2>1, <2>2 DEF StopsQuietly, Closed
<1> QED
  BY <1>1, CallsInvariant, PTL
============================================================================
