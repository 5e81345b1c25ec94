------------------------ MODULE LiveDeploymentProofs ------------------------
(***************************************************************************)
(* Proofs about the replacement of a live application, for any number of   *)
(* clients, operators, runtimes, transactions, faults and crashes.         *)
(*                                                                         *)
(* What holds between transactions depends on everything that happened in  *)
(* the last one, so the inductive invariant says for every position of the *)
(* reconciler which runtimes live (Lives), where the router sends calls    *)
(* and which calls can be in flight (Routes), and where the writes of the  *)
(* drained calls are (Carries).                                            *)
(***************************************************************************)
EXTENDS LiveDeployment, FiniteSetTheorems, SequenceTheorems, WellFoundedInduction, TLAPS

----------------------------------------------------------------------------
(* the lines of the journal and what RecoveryState reads from them, for a   *)
(* file of any length                                                       *)

\* The scans of RecoveryState find something: among finitely many positions
\* there is a newest one.
LEMMA NewestExists ==
    ASSUME NEW n \in Nat, NEW S \in SUBSET (1..n), S # {}
    PROVE  Newest(S) \in S /\ \A m \in S : m <= Newest(S)
<1> DEFINE below == OpToRel(<, Nat)
           T == {n - i : i \in S}
<1>1. T \subseteq Nat /\ T # {}
  <2>1. \A i \in S : n - i \in Nat
    OBVIOUS
  <2> QED
    BY <2>1
<1>2. PICK t \in T : \A y \in T : ~(<<y, t>> \in below)
  BY <1>1, NatLessThanWellFounded, WFMin
<1>3. PICK i \in S : t = n - i
  BY <1>2
<1>4. \A m \in S : m <= i
  <2> TAKE m \in S
  <2>1. n - m \in Nat /\ n - i \in Nat
    OBVIOUS
  <2>2. n - m < n - i => <<n - m, n - i>> \in below
    BY <2>1 DEF OpToRel
  <2>3. <<n - m, n - i>> \notin below
    BY <1>2, <1>3
  <2> HIDE DEF below
  <2> QED
    BY <2>2, <2>3
<1> QED
  BY <1>4 DEF Newest

\* The newest of a set of positions that holds the last one is the last one.
LEMMA NewestIsLast ==
    ASSUME NEW n \in Nat, NEW S \in SUBSET (1..n), n \in S
    PROVE  Newest(S) = n
<1>1. Newest(S) \in S /\ n <= Newest(S)
  BY NewestExists
<1>2. Newest(S) \in 1..n
  BY <1>1
<1> QED
  BY <1>1, <1>2

----------------------------------------------------------------------------

Line == Whole \cup {Torn, Glued}

\* Record writes whole entries.
LEMMA EntryType ==
    ASSUME JournalTypeOK, NEW rec \in Record
    PROVE  EntryFor(rec) \in Whole
<1>1. entries # <<>> => Last(entries) \in Whole
  BY EmptySeq, LenProperties DEF JournalTypeOK, Last
<1>2. lastHash \in Nat
  BY <1>1 DEF lastHash, Whole
<1>3. Len(entries) \in Nat /\ hashes \in Nat
  BY LenProperties DEF JournalTypeOK
<1> QED
  BY <1>2, <1>3 DEF EntryFor, Whole

\* All but the last line of a file.
LEMMA FrontType ==
    ASSUME NEW S, NEW s \in Seq(S), s # <<>>
    PROVE  /\ Front(s) \in Seq(S)
           /\ Len(Front(s)) = Len(s) - 1
           /\ \A i \in 1..Len(Front(s)) : Front(s)[i] = s[i]
<1>1. Len(s) \in Nat /\ Len(s) > 0 /\ \A i \in 1..(Len(s) - 1) : s[i] \in S
  BY EmptySeq, LenProperties
<1> DEFINE n == Len(s) - 1
<1>2. n \in Int /\ 1 \in Int
  BY <1>1
<1>3. /\ SubSeq(s, 1, n) \in Seq(S)
      /\ Len(SubSeq(s, 1, n)) = IF 1 <= n THEN n - 1 + 1 ELSE 0
      /\ \A i \in 1..(n - 1 + 1) : SubSeq(s, 1, n)[i] = s[1 + i - 1]
  <2> HIDE DEF n
  <2>1. \A i \in 1..n : s[i] \in S
    BY <1>1 DEF n
  <2> QED
    BY <1>2, <2>1, SubSeqProperties
<1> QED
  <2>1. n - 1 + 1 = Len(s) - 1 /\ \A i \in 1..n : 1 + i - 1 = i
    BY <1>1
  <2>2. Front(s) = SubSeq(s, 1, n)
    BY DEF Front
  <2> QED
    BY <1>1, <1>3, <2>1, <2>2

\* A file stays a sequence of lines when Record or a crash writes to it.
LEMMA WriteLineType ==
    ASSUME JournalTypeOK, NEW line \in Line
    PROVE  WriteLine(line) \in Seq(Line)
BY FrontType DEF JournalTypeOK, WriteLine, Line

\* What loadFileJournal keeps of a file is a sequence of lines.
LEMMA CompleteType ==
    ASSUME JournalTypeOK
    PROVE  Complete \in Seq(Line)
BY FrontType DEF JournalTypeOK, Complete, Line

\* What passes the checks of OpenFileJournal consists of entries.
LEMMA IntactType ==
    ASSUME JournalTypeOK, Intact
    PROVE  Complete \in Seq(Whole)
<1>1. \A i \in 1..Len(Complete) : Complete[i] \in Whole
  BY CompleteType DEF Intact, Line, Whole, Torn, Glued
<1> QED
  BY <1>1, CompleteType

\* RecoveryState names a graph, whatever the journal holds.
LEMMA RecoveredType ==
    ASSUME NEW js \in Seq(Whole)
    PROVE  Recovered(js) \in Graph
<1>1. Len(js) \in Nat /\ DOMAIN js = 1..Len(js)
  BY LenProperties
<1>2. \A i \in 1..Len(js) : js[i].rec.previous \in Graph /\ js[i].rec.desired \in Graph
  <2> TAKE i \in 1..Len(js)
  <2>1. js[i] \in Whole
    BY ElementOfSeq
  <2>2. js[i].rec \in Record
    BY <2>1 DEF Whole
  <2> QED
    BY <2>2 DEF Record
<1>3. Incomplete(js) \subseteq 1..Len(js) /\ Committed(js) \subseteq 1..Len(js)
  BY <1>1 DEF Incomplete, Committed
<1>4. Incomplete(js) # {} => Newest(Incomplete(js)) \in 1..Len(js)
  BY <1>1, <1>3, NewestExists
<1>5. Committed(js) # {} => Newest(Committed(js)) \in 1..Len(js)
  BY <1>1, <1>3, NewestExists
<1> QED
  BY <1>2, <1>4, <1>5, InitialGraphAssumption DEF Recovered, LastCommitted

\* Every operation of the journal keeps its state well-formed.
LEMMA RecordType ==
    ASSUME JournalTypeOK, NEW rec \in Record
    PROVE  RecordOk(rec) \/ RecordError(rec) => JournalTypeOK'
<1>1. EntryFor(rec) \in Whole
  BY EntryType
<1>2. \A line \in {EntryFor(rec), Torn} : WriteLine(line) \in Seq(Line)
  BY <1>1, WriteLineType DEF Line
<1>3. Append(entries, EntryFor(rec)) \in Seq(Whole)
  BY <1>1, AppendProperties DEF JournalTypeOK
<1>4. disk \in Seq(Line) /\ hashes + 1 \in Nat
  BY DEF JournalTypeOK, Line
<1> QED
  BY <1>2, <1>3, <1>4 DEF JournalTypeOK, RecordOk, RecordError, Line

\* OpenFileJournal keeps the types of the journal.
LEMMA OpenType ==
    ASSUME JournalTypeOK, OpenJournal
    PROVE  JournalTypeOK'
BY CompleteType, IntactType DEF JournalTypeOK, OpenJournal, Line

----------------------------------------------------------------------------
(* A file that holds what the journal acknowledged, and one line more.     *)

LEMMA WholeIsNotTorn == \A w \in Whole : w # Torn
BY DEF Whole, Torn

\* The last of the entries is an entry.
LEMMA LastOfEntries ==
    ASSUME NEW s \in Seq(Whole), s # <<>>
    PROVE  Last(s) \in Whole
BY EmptySeq, LenProperties DEF Last

\* What is appended is the last line, behind those that were there.
LEMMA LastAppended ==
    ASSUME NEW s \in Seq(Line), NEW line \in Line
    PROVE  /\ Append(s, line) # <<>>
           /\ Last(Append(s, line)) = line
           /\ Front(Append(s, line)) = s
<1>1. /\ Append(s, line) \in Seq(Line) /\ Append(s, line) # <<>>
      /\ Len(Append(s, line)) = Len(s) + 1 /\ Len(s) \in Nat
      /\ \A i \in 1..Len(s) : Append(s, line)[i] = s[i]
      /\ Append(s, line)[Len(s) + 1] = line
  BY AppendProperties, LenProperties
<1>2. /\ Front(Append(s, line)) \in Seq(Line)
      /\ Len(Front(Append(s, line))) = Len(s)
      /\ \A i \in 1..Len(s) : Front(Append(s, line))[i] = s[i]
  <2> DEFINE t == Append(s, line)
  <2>1. /\ Front(t) \in Seq(Line)
        /\ Len(Front(t)) = Len(t) - 1
        /\ \A i \in 1..Len(Front(t)) : Front(t)[i] = t[i]
    <3> HIDE DEF t
    <3>1. t \in Seq(Line) /\ t # <<>>
      BY <1>1 DEF t
    <3> QED
      BY <3>1, FrontType
  <2>2. Len(Front(t)) = Len(s)
    BY <1>1, <2>1
  <2> QED
    BY <1>1, <2>1, <2>2
<1>3. Front(Append(s, line)) = s
  BY <1>2, SeqEqual
<1> QED
  BY <1>1, <1>3 DEF Last

\* A whole file is opened as it is, a torn line behind it is cut off, and an
\* entry behind it that nobody acknowledged is kept.
LEMMA CompleteCases ==
    ASSUME entries \in Seq(Whole)
    PROVE  /\ disk = entries => Complete = entries
           /\ disk = Append(entries, Torn) => Complete = entries
           /\ \A w \in Whole : disk = Append(entries, w) => Complete = Append(entries, w)
<1>1. entries \in Seq(Line)
  BY DEF Line
<1>2. Torn \in Line /\ Whole \subseteq Line
  BY DEF Line
<1>3. disk = entries => Complete = entries
  BY LastOfEntries, WholeIsNotTorn DEF Complete
<1>4. disk = Append(entries, Torn) => Complete = entries
  BY <1>1, <1>2, LastAppended DEF Complete
<1>5. \A w \in Whole : disk = Append(entries, w) => Complete = Append(entries, w)
  BY <1>1, <1>2, LastAppended, WholeIsNotTorn DEF Complete
<1> QED
  BY <1>3, <1>4, <1>5

\* Behind a file without a torn tail a line is appended.
LEMMA WriteBehindWhole ==
    ASSUME entries \in Seq(Whole), disk = entries, NEW line
    PROVE  WriteLine(line) = Append(entries, line)
BY LastOfEntries, WholeIsNotTorn DEF WriteLine

\* Appending keeps what was there as a prefix.
LEMMA PrefixOfAppend ==
    ASSUME NEW s \in Seq(Whole), NEW w \in Whole
    PROVE  IsPrefix(s, Append(s, w))
<1> DEFINE t == Append(s, w)
           n == Len(s)
<1>1. /\ t \in Seq(Whole) /\ Len(t) = n + 1 /\ n \in Nat
      /\ \A i \in 1..n : t[i] = s[i]
  BY AppendProperties, LenProperties
<1>2. \A i \in 1..n : s[i] \in Whole /\ t[i] \in Whole
  BY <1>1, ElementOfSeq
<1>3. /\ SubSeq(s, 1, n) \in Seq(Whole) /\ SubSeq(t, 1, n) \in Seq(Whole)
      /\ Len(SubSeq(s, 1, n)) = Len(SubSeq(t, 1, n))
      /\ \A i \in 1..Len(SubSeq(s, 1, n)) : SubSeq(s, 1, n)[i] = SubSeq(t, 1, n)[i]
  <2> HIDE DEF t, n
  <2> QED
    BY <1>1, <1>2, SubSeqProperties
<1>4. SubSeq(s, 1, n) = SubSeq(t, 1, n)
  BY <1>3, SeqEqual
<1> QED
  BY <1>1, <1>4 DEF IsPrefix

\* The chain OpenFileJournal checks.
Chained(js) ==
    \A i \in 1..Len(js) : js[i].seq = i /\ js[i].prev = IF i = 1 THEN 0 ELSE js[i - 1].hash

Links(js, w) ==
    /\ w.seq = Len(js) + 1
    /\ w.prev = IF js = <<>> THEN 0 ELSE Last(js).hash

\* An entry that links to the last one prolongs the hash chain.
LEMMA ChainGrows ==
    ASSUME NEW js \in Seq(Whole), Chained(js), NEW w \in Whole, Links(js, w)
    PROVE  Chained(Append(js, w))
<1>1. /\ Len(Append(js, w)) = Len(js) + 1 /\ Len(js) \in Nat
      /\ \A i \in 1..Len(js) : Append(js, w)[i] = js[i]
      /\ Append(js, w)[Len(js) + 1] = w
  BY AppendProperties, LenProperties
<1>2. js = <<>> <=> Len(js) = 0
  BY EmptySeq
<1> QED
  BY <1>1, <1>2 DEF Chained, Links, Last

\* A chain of entries passes the checks of loadFileJournal.
LEMMA ChainedIsIntact ==
    ASSUME Complete \in Seq(Whole), Chained(Complete)
    PROVE  Intact
<1>1. DOMAIN Complete = 1..Len(Complete)
  BY LenProperties
<1>2. \A i \in 1..Len(Complete) : Complete[i] \in Whole
  BY ElementOfSeq
<1>3. \A i \in 1..Len(Complete) : Complete[i].kind = "whole"
  BY <1>2 DEF Whole
<1> QED
  BY <1>1, <1>3 DEF Intact, Chained

----------------------------------------------------------------------------
(* What the records of one transaction do to the recovery state.  The      *)
(* journal js is an older one, base, continued by records of transaction k *)
(* alone.                                                                  *)

\* A transaction committed after an unfinished one.
Overtaken(js) == \E i \in Incomplete(js), n \in Committed(js) : i < n

Continues(js, base, k) ==
    /\ Len(base) <= Len(js)
    /\ \A i \in 1..Len(base) : js[i] = base[i] /\ js[i].rec.tx < k
    /\ \A i \in (Len(base) + 1)..Len(js) : js[i].rec.tx = k

Ended(rec) == rec.status \in {"committed", "rolled_back"}

\* A transaction is terminal when some entry ends it.
LEMMA InTerminal ==
    ASSUME NEW js \in Seq(Whole), NEW t
    PROVE  t \in Terminal(js) <=> \E n \in 1..Len(js) : js[n].rec.tx = t /\ Ended(js[n].rec)
BY LenProperties DEF Terminal, Ended

\* A position is incomplete when it is the last of a transaction that nothing ends.
LEMMA InIncomplete ==
    ASSUME NEW js \in Seq(Whole), NEW i \in 1..Len(js)
    PROVE  i \in Incomplete(js) <=>
             /\ \A n \in 1..Len(js) : ~(js[n].rec.tx = js[i].rec.tx /\ Ended(js[n].rec))
             /\ \A n \in 1..Len(js) : js[n].rec.tx = js[i].rec.tx => n <= i
BY LenProperties, InTerminal DEF Incomplete

\* What RecoveryState looks at are positions of records.
LEMMA Positions ==
    ASSUME NEW js \in Seq(Whole)
    PROVE  /\ Len(js) \in Nat
           /\ Incomplete(js) \in SUBSET (1..Len(js))
           /\ Committed(js) \in SUBSET (1..Len(js))
           /\ \A i \in 1..Len(js) : js[i] \in Whole /\ js[i].rec \in Record /\ js[i].rec.tx \in Nat
<1>1. Len(js) \in Nat /\ DOMAIN js = 1..Len(js)
  BY LenProperties
<1>2. \A i \in 1..Len(js) : js[i] \in Whole
  BY ElementOfSeq
<1>3. \A i \in 1..Len(js) : js[i].rec \in Record
  BY <1>2 DEF Whole
<1>4. \A i \in 1..Len(js) : js[i].rec.tx \in Nat
  BY <1>3, MaxTxAssumption DEF Record
<1> QED
  BY <1>1, <1>2, <1>3, <1>4 DEF Incomplete, Committed

\* A further record of the same transaction.
LEMMA ContinuesAppend ==
    ASSUME NEW js \in Seq(Whole), NEW base \in Seq(Whole), NEW k \in Nat, Continues(js, base, k),
           NEW e \in Whole, e.rec.tx = k
    PROVE  /\ Continues(Append(js, e), base, k)
           /\ Append(js, e) \in Seq(Whole)
           /\ Len(Append(js, e)) = Len(js) + 1
           /\ Len(base) < Len(Append(js, e))
           /\ Append(js, e)[Len(js) + 1] = e
           /\ \A i \in 1..Len(js) : Append(js, e)[i] = js[i]
<1>1. /\ Append(js, e) \in Seq(Whole)
      /\ Len(Append(js, e)) = Len(js) + 1
      /\ Append(js, e)[Len(js) + 1] = e
      /\ \A i \in 1..Len(js) : Append(js, e)[i] = js[i]
  BY AppendProperties
<1>2. Len(js) \in Nat /\ Len(base) \in Nat /\ Len(base) <= Len(js)
  BY LenProperties DEF Continues
<1>3. \A i \in 1..Len(base) : Append(js, e)[i] = base[i] /\ Append(js, e)[i].rec.tx < k
  BY <1>1, <1>2 DEF Continues
<1>4. \A i \in (Len(base) + 1)..Len(Append(js, e)) : Append(js, e)[i].rec.tx = k
  <2> TAKE i \in (Len(base) + 1)..Len(Append(js, e))
  <2>1. i \in (Len(base) + 1)..Len(js) \/ i = Len(js) + 1
    BY <1>1, <1>2
  <2>2. i \in (Len(base) + 1)..Len(js) => i \in 1..Len(js)
    BY <1>2
  <2> QED
    BY <1>1, <2>1, <2>2 DEF Continues
<1>5. Len(base) < Len(js) + 1
  BY <1>2
<1> QED
  BY <1>1, <1>2, <1>3, <1>4, <1>5 DEF Continues

\* Nothing is read differently from what was there before.
LEMMA OlderKept ==
    ASSUME NEW js \in Seq(Whole), NEW base \in Seq(Whole), NEW k \in Nat, Continues(js, base, k)
    PROVE  /\ Committed(base) = Committed(js) \cap (1..Len(base))
           /\ Incomplete(base) = Incomplete(js) \cap (1..Len(base))
<1>1. Len(js) \in Nat /\ Len(base) \in Nat /\ Len(base) <= Len(js)
  BY Positions DEF Continues
<1>2. Committed(base) = Committed(js) \cap (1..Len(base))
  BY <1>1, LenProperties DEF Committed, Continues
<1>3. ASSUME NEW i \in 1..Len(base)
      PROVE  i \in Incomplete(base) <=> i \in Incomplete(js)
  <2>1. i \in 1..Len(js)
    BY <1>1
  <2>2. ASSUME NEW n \in 1..Len(js), js[n].rec.tx = js[i].rec.tx
        PROVE  n \in 1..Len(base)
    BY <1>1, <2>1, <2>2, Positions DEF Continues
  <2>3. \A n \in 1..Len(base) : n \in 1..Len(js) /\ js[n] = base[n]
    BY <1>1 DEF Continues
  <2>4. i \in Incomplete(js) <=>
          /\ \A n \in 1..Len(js) : ~(js[n].rec.tx = js[i].rec.tx /\ Ended(js[n].rec))
          /\ \A n \in 1..Len(js) : js[n].rec.tx = js[i].rec.tx => n <= i
    BY <2>1, InIncomplete
  <2>5. i \in Incomplete(base) <=>
          /\ \A n \in 1..Len(base) : ~(base[n].rec.tx = base[i].rec.tx /\ Ended(base[n].rec))
          /\ \A n \in 1..Len(base) : base[n].rec.tx = base[i].rec.tx => n <= i
    BY InIncomplete
  <2> QED
    BY <2>2, <2>3, <2>4, <2>5
<1>4. Incomplete(base) \subseteq 1..Len(base)
  BY Positions
<1> QED
  BY <1>2, <1>3, <1>4

\* While the transaction is under way, recovery goes back to where it began.
LEMMA UnderWay ==
    ASSUME NEW js \in Seq(Whole), NEW base \in Seq(Whole), NEW k \in Nat, Continues(js, base, k),
           Len(base) < Len(js),
           \A i \in (Len(base) + 1)..Len(js) : ~Ended(js[i].rec)
    PROVE  Recovered(js) = js[Len(js)].rec.previous
<1>1. Len(js) \in Nat /\ Len(base) \in Nat /\ Len(js) \in (Len(base) + 1)..Len(js)
  BY Positions
<1>2. \A n \in 1..Len(js) : js[n].rec.tx = k => n \in (Len(base) + 1)..Len(js)
  BY <1>1, Positions DEF Continues
<1>3. Len(js) \in Incomplete(js)
  BY <1>1, <1>2, InIncomplete DEF Continues
<1>4. Newest(Incomplete(js)) = Len(js)
  BY <1>1, <1>3, Positions, NewestIsLast
<1> QED
  BY <1>3, <1>4 DEF Recovered

\* A rollback record undoes the transaction's trace.
LEMMA AfterRollback ==
    ASSUME NEW js \in Seq(Whole), NEW base \in Seq(Whole), NEW k \in Nat, Continues(js, base, k),
           Len(base) < Len(js), js[Len(js)].rec.status = "rolled_back",
           \A i \in (Len(base) + 1)..Len(js) : js[i].rec.status # "committed"
    PROVE  Recovered(js) = Recovered(base) /\ (Overtaken(js) <=> Overtaken(base))
<1>1. Len(js) \in Nat /\ Len(base) \in Nat /\ Len(js) \in (Len(base) + 1)..Len(js)
  BY Positions
<1>2. Ended(js[Len(js)].rec)
  BY DEF Ended
<1>3. \A i \in (Len(base) + 1)..Len(js) : i \notin Incomplete(js) /\ i \notin Committed(js)
  BY <1>1, <1>2, InIncomplete DEF Continues, Committed
<1>4. Incomplete(js) = Incomplete(base) /\ Committed(js) = Committed(base)
  <2>1. Incomplete(js) \subseteq 1..Len(base) /\ Committed(js) \subseteq 1..Len(base)
    BY <1>1, <1>3, Positions
  <2>2. /\ Committed(base) = Committed(js) \cap (1..Len(base))
        /\ Incomplete(base) = Incomplete(js) \cap (1..Len(base))
    BY OlderKept
  <2> QED
    BY <2>1, <2>2, Zenon
<1>5. \A i \in Incomplete(base) \cup Committed(base) : js[i] = base[i]
  BY Positions DEF Continues
<1>6. Incomplete(base) # {} => Newest(Incomplete(base)) \in Incomplete(base)
  BY Positions, NewestExists
<1>7. Committed(base) # {} => Newest(Committed(base)) \in Committed(base)
  BY Positions, NewestExists
<1> QED
  BY <1>4, <1>5, <1>6, <1>7 DEF Recovered, LastCommitted, Overtaken

\* A commit record makes its graph the one to restore, unless an unfinished
\* transaction is in the way.
LEMMA AfterCommit ==
    ASSUME NEW js \in Seq(Whole), NEW base \in Seq(Whole), NEW k \in Nat, Continues(js, base, k),
           Len(base) < Len(js), js[Len(js)].rec.status = "committed", ~Overtaken(js)
    PROVE  Recovered(js) = js[Len(js)].rec.desired
<1>1. Len(js) \in Nat /\ Len(base) \in Nat /\ Len(js) \in (Len(base) + 1)..Len(js)
  BY Positions
<1>2. Len(js) \in Committed(js)
  BY <1>1, LenProperties DEF Committed
<1>3. Ended(js[Len(js)].rec)
  BY DEF Ended
<1>4. \A i \in (Len(base) + 1)..Len(js) : i \notin Incomplete(js)
  BY <1>1, <1>3, InIncomplete DEF Continues
<1>5. Incomplete(js) = {}
  BY <1>1, <1>2, <1>4, Positions DEF Overtaken
<1>6. Newest(Committed(js)) = Len(js)
  BY <1>1, <1>2, Positions, NewestIsLast
<1> QED
  BY <1>2, <1>5, <1>6 DEF Recovered, LastCommitted

----------------------------------------------------------------------------
(* the transactions                                                         *)

\* The stretches of a transaction, by what the router does: it still admits
\* calls to the previous runtime; it admits none and no call is in flight;
\* it admits calls to the candidate only.
Before ==
    \/ at \in {"start", "observe", "abandon"}
    \/ at \in {"call", "record"} /\ stage = "prepare"
    \/ InPhase("quiesce")
Quiet ==
    \/ at = "record" /\ stage = "quiesce"
    \/ at \in {"call", "record"} /\ stage \in {"snapshot", "migrate"}
    \/ InPhase("swap")
    \/ at = "switch"
Swapped ==
    \/ at = "record" /\ stage = "swap"
    \/ at \in {"call", "record"} /\ stage = "health"
    \/ InPhase("commit")
    \/ at \in {"retiring", "publish", "acknowledge"}

Busy == {c \in Client : lease[c] # NoRuntime}

\* The position fits the stage, and a transaction has an id.
Position ==
    /\ at \notin {"idle", "down"} => tx > 0
    /\ at \in {"idle", "start", "observe", "abandon"} => stage = "prepare"
    /\ at = "wait" => stage = "quiesce"
    /\ at = "switch" => stage = "swap"
    /\ at \in {"retiring", "publish", "acknowledge"} => stage = "commit"
    /\ at = "record" => stage # "commit"

\* The candidate is the newest runtime and never the one it replaces.
Replaces ==
    /\ at \notin {"acknowledge", "down"} => previous = current
    /\ at = "acknowledge" => current.rt = candidate
    /\ previous.rt <= created
    /\ current.rt <= created
    /\ candidate # NoRuntime => candidate = created /\ previous.rt < created
    /\ at \in {"observe", "abandon"} => previous.rt < created
    /\ at \in {"idle", "start", "observe", "abandon"} => candidate = NoRuntime
    /\ InPhase("prepare") => candidate = NoRuntime
    /\ at = "start" \/ InPhase("prepare") => created < MaxRuntimes
    /\ at = "call" /\ stage # "prepare" => candidate # NoRuntime
    /\ at \in {"wait", "switch", "record", "retiring", "publish", "acknowledge", "dispose", "disposing"}
          => candidate # NoRuntime

\* The runtimes that live, and which of them is being stopped.
Alive == {r \in Runtime : life[r] \in {"running", "stopping"}}
Newcomer == IF at \in {"observe", "abandon"} THEN created ELSE candidate
Lives ==
    /\ \A r \in Runtime : r > created => life[r] = "none"
    /\ at = "down" => Alive = {}
    /\ at # "down" => Alive \subseteq {previous.rt, Newcomer}
    /\ at \in {"publish", "acknowledge"} => Alive \subseteq {candidate}
    /\ at \in {"conclude", "idle"} => Alive \subseteq {previous.rt}
    /\ at = "retiring" => life[previous.rt] = "stopping"
    /\ at = "disposing" => life[candidate] = "stopping"
    /\ at = "abandon" => life[created] = "stopping"
    /\ \A r \in Runtime : life[r] = "stopping" =>
          \/ at = "retiring" /\ r = previous.rt
          \/ at = "disposing" /\ r = candidate
          \/ at = "abandon" /\ r = created

\* Provider access is open on running runtimes only, and a command that
\* entered is on a runtime whose cells are still there.
Access ==
    /\ \A r \in open : life[r] = "running"
    /\ \A o \in Operator : entered[o] => chosen[o] \in Alive

\* The router's count is exact, so its drain means what it says.
Counts ==
    /\ inflight = Cardinality(Busy)
    /\ drained => inflight # 0

Routes ==
    /\ at = "idle" \/ Before => accepting /\ target = previous.rt
    /\ at = "wait" => ~accepting /\ (drained \/ inflight = 0)
    /\ Quiet => ~accepting /\ Busy = {}
    /\ Swapped => accepting /\ target = candidate /\ \A c \in Busy : lease[c] = candidate
    /\ at \in {"dispose", "disposing", "conclude"} => accepting /\ target = previous.rt
    /\ at = "down" => target = NoRuntime /\ Busy = {}

\* Calls reach the new runtime after the swap only, also in a rollback.
Late ==
    \/ Swapped
    \/ /\ at \in {"rollback", "restore", "dispose", "disposing", "conclude"}
       /\ stage \in {"swap", "health", "commit"}
Leased ==
    /\ target <= created /\ \A c \in Busy : lease[c] <= created
    /\ at \notin {"idle", "down"} /\ ~Late =>
          target = previous.rt /\ \A c \in Busy : lease[c] # Newcomer

\* The writes of the calls the previous runtime served.
Served == store[previous.rt] \cap Client
Carries ==
    /\ at = "record" /\ stage = "snapshot" => Served \subseteq snapshot
    /\ InPhase("migrate") => Served \subseteq snapshot
    /\ at = "record" /\ stage = "migrate" => Served \subseteq store[candidate]
    /\ at \in {"call", "record"} /\ stage \in {"swap", "health", "commit"}
          => Served \subseteq store[candidate]
    /\ at = "switch" => Served \subseteq store[candidate]

IInv ==
    /\ TypeOK
    /\ Position /\ Replaces /\ Lives /\ Access /\ Counts /\ Routes /\ Leased /\ Carries

----------------------------------------------------------------------------
(* what the steps need to know *)

\* The stages in their order, and the positions at which Record is called.
LEMMA StageNames ==
    /\ Stage = {"prepare", "quiesce", "snapshot", "migrate", "swap", "health", "commit"}
    /\ NextStage["prepare"] = "quiesce"
    /\ NextStage["quiesce"] = "snapshot"
    /\ NextStage["snapshot"] = "migrate"
    /\ NextStage["migrate"] = "swap"
    /\ NextStage["swap"] = "health"
    /\ NextStage["health"] = "commit"
    /\ DOMAIN Writing = {"start", "record", "acknowledge", "conclude"}
BY DEF Stage, NextStage, Writing


\* What Record leaves behind, whichever way it returns.
LEMMA RecordedJournal ==
    ASSUME TypeOK, tx > 0, NEW status \in Status, NEW ok, NEW err, Recorded(status, ok, err)
    PROVE  JournalTypeOK' /\ faults' \in 0..MaxFaults /\ at' \in {ok, err}
<1>1. RecordOf(status) \in Record
  BY MaxTxAssumption DEF TypeOK, RecordOf, Record, Deployment
<1>2. JournalTypeOK'
  BY <1>1, RecordType DEF TypeOK, Recorded, JournalTypeOK, journalVars
<1>3. faults' \in 0..MaxFaults
  BY BudgetAssumption DEF TypeOK, Recorded
<1> QED
  BY <1>2, <1>3 DEF Recorded

\* The journal stays well-formed: only Record, a crash and a restart touch it.
LEMMA JournalStep == IInv /\ [Next]_vars => JournalTypeOK'
<1> SUFFICES ASSUME IInv, [Next]_vars PROVE JournalTypeOK'
  OBVIOUS
<1> USE DEF IInv
<1>1. CASE RecordStarted \/ RecordCompleted \/ RecordCommitted \/ RecordRolledBack
  <2>1. tx > 0
    BY <1>1 DEF Position, RecordStarted, RecordCompleted, RecordCommitted, RecordRolledBack
  <2>2. \A status \in Status : \A ok, err : Recorded(status, ok, err) => JournalTypeOK'
    BY <2>1, RecordedJournal
  <2> QED
    BY <1>1, <2>2 DEF Status, RecordStarted, RecordCompleted, RecordCommitted, RecordRolledBack
<1>2. CASE Crash
  <2>1. at \in DOMAIN Writing => RecordOf(Writing[at]) \in Record
    BY StageNames, MaxTxAssumption DEF Position, TypeOK, Writing, RecordOf, Record, Deployment, Status
  <2> QED
    BY <1>2, <2>1, RecordType DEF Crash, TypeOK, JournalTypeOK, journalVars
<1>3. CASE Restart
  BY <1>3, OpenType DEF Restart, TypeOK
<1>4. UNCHANGED journalVars => JournalTypeOK'
  BY DEF TypeOK, JournalTypeOK, journalVars
<1>5. CASE UNCHANGED vars
  BY <1>4, <1>5 DEF vars
<1>6. ASSUME NEW g \in Graph, Begin(g) PROVE JournalTypeOK'
  BY <1>4, <1>6 DEF Begin
<1>7. ASSUME NEW c \in Client, Call(c) \/ CallExecutes(c) \/ CallReturns(c) PROVE JournalTypeOK'
  BY <1>4, <1>7 DEF Call, CallExecutes, CallReturns, Elsewhere
<1>8. ASSUME NEW o \in Operator, CommandInvoked(o) \/ CommandEnters(o) \/ CommandExecutes(o) PROVE JournalTypeOK'
  BY <1>4, <1>8 DEF CommandInvoked, CommandEnters, CommandExecutes, Elsewhere
<1>9. CASE Unrecorded
  BY <1>4, <1>9 DEF Unrecorded
<1>10. ASSUME NEW m \in Command, RegisterCommand(m) PROVE JournalTypeOK'
  BY <1>4, <1>10 DEF RegisterCommand
<1> QED
  BY <1>1, <1>2, <1>3, <1>5, <1>6, <1>7, <1>8, <1>9, <1>10
  DEF Next, ReconcileStep, PrepareStart, PrepareError, PrepareOk, StartFailure, Abandon, Quiesce, QuiesceDrained, QuiesceCancelled,
      Snapshot, Migrate, SwapCommands, SwapRouter, Health, Retire, Retired, Publish, RollbackCommands,
      RollbackRouter, Dispose, Disposed

\* The set of admitted clients, which inflight counts.
LEMMA BusyAfter ==
    ASSUME RouterTypeOK, NEW c \in Client, NEW r \in Runtime \cup {NoRuntime},
           lease' = [lease EXCEPT ![c] = r]
    PROVE  Busy' = IF r = NoRuntime THEN Busy \ {c} ELSE Busy \cup {c}
BY DEF Busy, RouterTypeOK, Runtime, NoRuntime

\* The calls in a runtime can be counted.
LEMMA BusyFinite == IsFiniteSet(Busy) /\ Cardinality(Busy) \in Nat
<1>1. Busy \in SUBSET Client
  BY DEF Busy
<1> QED
  BY <1>1, ClientAssumption, FS_Subset, FS_CardinalityType

\* The count that drains wait for is zero when nobody is inside.
LEMMA BusyEmpty == Cardinality(Busy) = 0 <=> Busy = {}
BY BusyFinite, FS_EmptySet

----------------------------------------------------------------------------
(* one lemma per part of the invariant, one step per action *)

\* Types, the position and the candidate.
LEMMA ControlStep == IInv /\ [Next]_vars => (TypeOK /\ Position /\ Replaces)'
<1> SUFFICES ASSUME IInv, [Next]_vars PROVE (TypeOK /\ Position /\ Replaces)'
  OBVIOUS
<1> USE MaxRuntimesAssumption, BudgetAssumption, MaxTxAssumption, InitialGraphAssumption, StageNames, JournalStep
<1> USE DEF TypeOK, Position, Replaces, IInv, Deployment, Runtime, NoRuntime, At, InPhase, RouterTypeOK, CommandsTypeOK, Unrecorded, Elsewhere, txVars, runtimeVars, budgetVars, routerVars, commandVars
<1>1. ASSUME NEW g \in Graph, Begin(g) PROVE (TypeOK /\ Position /\ Replaces)'
  BY <1>1 DEF Begin, txVars
<1>2. ASSUME NEW c \in Client, Call(c) PROVE (TypeOK /\ Position /\ Replaces)'
  BY <1>2 DEF Call, Acquire
<1>3. ASSUME NEW c \in Client, CallExecutes(c) PROVE (TypeOK /\ Position /\ Replaces)'
  BY <1>3 DEF CallExecutes, Execute
<1>4. ASSUME NEW c \in Client, CallReturns(c) PROVE (TypeOK /\ Position /\ Replaces)'
  <2>1. c \in Busy
    BY <1>4 DEF CallReturns, Release, Busy
  <2>2. inflight \in Nat \ {0}
    BY <2>1, BusyFinite, BusyEmpty DEF Counts
  <2> QED
    BY <1>4, <2>2 DEF CallReturns, Release
<1>5. ASSUME NEW o \in Operator, CommandInvoked(o) PROVE (TypeOK /\ Position /\ Replaces)'
  BY <1>5 DEF CommandInvoked, Invoke
<1>6. ASSUME NEW o \in Operator, CommandEnters(o) PROVE (TypeOK /\ Position /\ Replaces)'
  <2>1. CommandsTypeOK'
    <3>1. entered' \in [Operator -> BOOLEAN]
      BY <1>6, Zenon DEF CommandEnters, Enter
    <3> QED
      BY <1>6, <3>1 DEF CommandEnters, Enter
  <2> QED
    BY <1>6, <2>1 DEF CommandEnters
<1>7. ASSUME NEW o \in Operator, CommandExecutes(o) PROVE (TypeOK /\ Position /\ Replaces)'
  <2>1. CommandsTypeOK'
    <3>1. entered' \in [Operator -> BOOLEAN]
      BY <1>7, Zenon DEF CommandExecutes, Return
    <3> QED
      BY <1>7, <3>1 DEF CommandExecutes, Return
  <2>2. chosen[o] \in Runtime
    BY <1>7 DEF CommandExecutes, Return, Access, Alive
  <2>3. store' \in [Runtime -> SUBSET (Client \cup Operator)]
    BY <1>7, <2>2 DEF CommandExecutes, Execute
  <2> QED
    BY <1>7, <2>1, <2>3 DEF CommandExecutes
<1>8. CASE RecordStarted
  BY <1>8 DEF RecordStarted, Recorded, Finish
<1>9. CASE RecordCompleted
  BY <1>9 DEF RecordCompleted, Recorded
<1>10. CASE RecordCommitted
  BY <1>10 DEF RecordCommitted, Recorded, Finish
<1>11. CASE RecordRolledBack
  BY <1>11 DEF RecordRolledBack, Recorded, Finish
<1>12. CASE PrepareStart
  BY <1>12 DEF PrepareStart, StartRuntime, Bind
<1>13. CASE PrepareError
  BY <1>13 DEF PrepareError, PhaseError
<1>14. CASE PrepareOk
  BY <1>14 DEF PrepareOk, PhaseOk
<1>15. CASE StartFailure
  BY <1>15 DEF StartFailure, StopBegin, UnbindRevoke
<1>16. CASE Abandon
  BY <1>16 DEF Abandon, StopEnd, PhaseError, Revoked
<1>17. CASE Quiesce
  BY <1>17 DEF Quiesce, CloseAdmission
<1>18. CASE QuiesceDrained
  BY <1>18 DEF QuiesceDrained, DrainDone, PhaseOk
<1>19. CASE Snapshot
  BY <1>19 DEF Snapshot, PhaseOk, PhaseError
<1>20. CASE Migrate
  BY <1>20 DEF Migrate, PhaseOk, PhaseError
<1>21. CASE SwapCommands
  BY <1>21 DEF SwapCommands, Promote, Routed
<1>22. CASE SwapRouter
  BY <1>22 DEF SwapRouter, Activate, PhaseOk
<1>23. CASE Health
  BY <1>23 DEF Health, PhaseOk, PhaseError
<1>24. CASE Retire
  <2>1. CommandsTypeOK'
    <3>1. CASE UNCHANGED commandVars
      BY <3>1
    <3>2. CASE UnbindRevoke(previous.rt)
      BY <3>2 DEF UnbindRevoke
    <3> QED
      BY <1>24, <3>1, <3>2 DEF Retire, StopBegin
  <2>2. RouterTypeOK' /\ JournalTypeOK'
    BY <1>24 DEF Retire
  <2>3. life' \in [Runtime -> {"none", "running", "stopping", "stopped"}]
    BY <1>24 DEF Retire, StopBegin
  <2> QED
    BY <1>24, <2>1, <2>2, <2>3 DEF Retire
<1>25. CASE Retired
  BY <1>25 DEF Retired, StopEnd, Revoked
<1>26. CASE Publish
  BY <1>26 DEF Publish
<1>27. CASE RollbackCommands
  <2>1. CommandsTypeOK'
    <3>1. CASE UNCHANGED commandVars
      BY <3>1
    <3>2. CASE Promote(previous.rt)
      BY <3>2 DEF Promote, Routed
    <3> QED
      BY <1>27, <3>1, <3>2 DEF RollbackCommands
  <2>2. RouterTypeOK' /\ JournalTypeOK'
    BY <1>27 DEF RollbackCommands
  <2> QED
    BY <1>27, <2>1, <2>2 DEF RollbackCommands
<1>28. CASE RollbackRouter
  BY <1>28 DEF RollbackRouter, Activate
<1>29. CASE Dispose
  BY <1>29 DEF Dispose, StopBegin, UnbindRevoke
<1>30. CASE Disposed
  BY <1>30 DEF Disposed, StopEnd, Revoked
<1>31. CASE QuiesceCancelled
  BY <1>31 DEF QuiesceCancelled, PhaseError
<1>32. CASE Crash
  <2>1. CommandsTypeOK' /\ RouterTypeOK'
    BY <1>32 DEF Crash, CommandsReset, Routed, RouterReset
  <2>2. /\ life' \in [Runtime -> {"none", "running", "stopping", "stopped"}]
        /\ store' \in [Runtime -> SUBSET (Client \cup Operator)]
    BY <1>32 DEF Crash
  <2> QED
    BY <1>32, <2>1, <2>2 DEF Crash
<1>33. CASE Restart
  <2>1. created + 1 \in Runtime
    BY <1>33 DEF Restart
  <2>2. CommandsTypeOK' /\ RouterTypeOK'
    BY <1>33, <2>1 DEF Restart, CommandsReset, Routed, RouterReset
  <2>3. Recovered(Complete) \in Graph
    BY <1>33, IntactType, RecoveredType DEF Restart, OpenJournal
  <2>4. current' \in Deployment
    BY <1>33, <2>1, <2>3 DEF Restart
  <2> QED
    BY <1>33, <2>1, <2>2, <2>4, SMTT(30) DEF Restart
<1>34. CASE UNCHANGED vars
  BY <1>34, SMTT(30) DEF vars, JournalTypeOK
<1>35. ASSUME NEW m \in Command, RegisterCommand(m) PROVE (TypeOK /\ Position /\ Replaces)'
  BY <1>35 DEF RegisterCommand, Register
<1> QED
  BY <1>1, <1>2, <1>3, <1>4, <1>5, <1>6, <1>7, <1>8, <1>9, <1>10, <1>11, <1>12, <1>13, <1>14, <1>15, <1>16, <1>17, <1>18, <1>19, <1>20, <1>21, <1>22, <1>23, <1>24, <1>25, <1>26, <1>27, <1>28, <1>29, <1>30, <1>31, <1>32, <1>33, <1>34, <1>35 DEF Next, ReconcileStep

\* The runtimes and the access to them.  A stop waits for the commands that
\* entered, and access is closed before the stop begins.
LEMMA LivesStep == IInv /\ [Next]_vars => (Lives /\ Access)'
<1> SUFFICES ASSUME IInv, [Next]_vars PROVE (Lives /\ Access)'
  OBVIOUS
<1> USE MaxRuntimesAssumption, StageNames
<1> USE DEF IInv, TypeOK, Position, Replaces, Lives, Access, Alive, Newcomer, Deployment, Runtime, NoRuntime, InPhase, RouterTypeOK, CommandsTypeOK, Unrecorded, Elsewhere, txVars, runtimeVars, budgetVars, routerVars, commandVars
<1>1. ASSUME NEW g \in Graph, Begin(g) PROVE (Lives /\ Access)'
  BY <1>1 DEF Begin, txVars
<1>2. ASSUME NEW c \in Client, Call(c) PROVE (Lives /\ Access)'
  BY <1>2 DEF Call, Acquire
<1>3. ASSUME NEW c \in Client, CallExecutes(c) PROVE (Lives /\ Access)'
  BY <1>3 DEF CallExecutes, Execute
<1>4. ASSUME NEW c \in Client, CallReturns(c) PROVE (Lives /\ Access)'
  BY <1>4 DEF CallReturns, Release
<1>5. ASSUME NEW o \in Operator, CommandInvoked(o) PROVE (Lives /\ Access)'
  BY <1>5 DEF CommandInvoked, Invoke
<1>6. ASSUME NEW o \in Operator, CommandEnters(o) PROVE (Lives /\ Access)'
  <2>1. Lives'
    BY <1>6 DEF CommandEnters, Enter
  <2>2. (\A r \in open : life[r] = "running")'
    BY <1>6 DEF CommandEnters, Enter
  <2>3. (\A q \in Operator : entered[q] => chosen[q] \in Alive)'
    <3>1. CASE chosen[o] \in open
      BY <1>6, <3>1 DEF CommandEnters, Enter
    <3>2. CASE chosen[o] \notin open
      BY <1>6, <3>2, SMTT(30) DEF CommandEnters, Enter
    <3> QED
      BY <3>1, <3>2
  <2> QED
    BY <2>1, <2>2, <2>3
<1>7. ASSUME NEW o \in Operator, CommandExecutes(o) PROVE (Lives /\ Access)'
  BY <1>7 DEF CommandExecutes, Return, Execute
<1>8. CASE RecordStarted
  BY <1>8 DEF RecordStarted, Recorded, Finish
<1>9. CASE RecordCompleted
  BY <1>9 DEF RecordCompleted, Recorded
<1>10. CASE RecordCommitted
  BY <1>10 DEF RecordCommitted, Recorded, Finish
<1>11. CASE RecordRolledBack
  BY <1>11 DEF RecordRolledBack, Recorded, Finish
<1>12. CASE PrepareStart
  BY <1>12 DEF PrepareStart, StartRuntime, Bind
<1>13. CASE PrepareError
  BY <1>13 DEF PrepareError, PhaseError
<1>14. CASE PrepareOk
  BY <1>14 DEF PrepareOk, PhaseOk
<1>15. CASE StartFailure
  BY <1>15 DEF StartFailure, StopBegin, UnbindRevoke
<1>16. CASE Abandon
  <2>1. Lives'
    BY <1>16 DEF Abandon, StopEnd, PhaseError, Revoked
  <2>2. (\A r \in open : life[r] = "running")'
    BY <1>16 DEF Abandon, StopEnd, PhaseError, Revoked
  <2>3. (\A q \in Operator : entered[q] => chosen[q] \in Alive)'
    BY <1>16 DEF Abandon, StopEnd, PhaseError, Revoked
  <2> QED
    BY <2>1, <2>2, <2>3
<1>17. CASE Quiesce
  BY <1>17 DEF Quiesce, CloseAdmission
<1>18. CASE QuiesceDrained
  BY <1>18 DEF QuiesceDrained, DrainDone, PhaseOk
<1>19. CASE Snapshot
  BY <1>19 DEF Snapshot, PhaseOk, PhaseError
<1>20. CASE Migrate
  BY <1>20 DEF Migrate, PhaseOk, PhaseError
<1>21. CASE SwapCommands
  BY <1>21 DEF SwapCommands, Promote
<1>22. CASE SwapRouter
  BY <1>22 DEF SwapRouter, Activate, PhaseOk
<1>23. CASE Health
  BY <1>23 DEF Health, PhaseOk, PhaseError
<1>24. CASE Retire
  <2>1. Lives'
    BY <1>24 DEF Retire, StopBegin, UnbindRevoke
  <2>2. (\A r \in open : life[r] = "running")'
    <3>1. CASE StopBegin(previous.rt)
      BY <3>1 DEF StopBegin, UnbindRevoke
    <3>2. CASE UNCHANGED <<life, commandVars>>
      BY <3>2
    <3> QED
      BY <1>24, <3>1, <3>2 DEF Retire
  <2>3. (\A q \in Operator : entered[q] => chosen[q] \in Alive)'
    BY <1>24 DEF Retire, StopBegin, UnbindRevoke
  <2> QED
    BY <2>1, <2>2, <2>3
<1>25. CASE Retired
  <2>1. Lives'
    BY <1>25 DEF Retired, StopEnd, Revoked
  <2>2. (\A r \in open : life[r] = "running")'
    BY <1>25 DEF Retired, StopEnd, Revoked
  <2>3. (\A q \in Operator : entered[q] => chosen[q] \in Alive)'
    BY <1>25 DEF Retired, StopEnd, Revoked
  <2> QED
    BY <2>1, <2>2, <2>3
<1>26. CASE Publish
  BY <1>26 DEF Publish
<1>27. CASE RollbackCommands
  <2>1. Lives'
    BY <1>27 DEF RollbackCommands, Promote
  <2>2. (\A r \in open : life[r] = "running")'
    BY <1>27 DEF RollbackCommands, Promote
  <2>3. (\A q \in Operator : entered[q] => chosen[q] \in Alive)'
    BY <1>27 DEF RollbackCommands, Promote
  <2> QED
    BY <2>1, <2>2, <2>3
<1>28. CASE RollbackRouter
  BY <1>28 DEF RollbackRouter, Activate
<1>29. CASE Dispose
  BY <1>29 DEF Dispose, StopBegin, UnbindRevoke
<1>30. CASE Disposed
  <2>1. Lives'
    BY <1>30 DEF Disposed, StopEnd, Revoked
  <2>2. (\A r \in open : life[r] = "running")'
    BY <1>30 DEF Disposed, StopEnd, Revoked
  <2>3. (\A q \in Operator : entered[q] => chosen[q] \in Alive)'
    BY <1>30 DEF Disposed, StopEnd, Revoked
  <2> QED
    BY <2>1, <2>2, <2>3
<1>31. CASE QuiesceCancelled
  BY <1>31 DEF QuiesceCancelled, PhaseError
<1>32. CASE Crash
  BY <1>32 DEF Crash, RouterReset, CommandsReset
<1>33. CASE Restart
  BY <1>33 DEF Restart, RouterReset, CommandsReset
<1>34. CASE UNCHANGED vars
  BY <1>34 DEF vars
<1>35. ASSUME NEW m \in Command, RegisterCommand(m) PROVE (Lives /\ Access)'
  BY <1>35 DEF RegisterCommand, Register
<1> QED
  BY <1>1, <1>2, <1>3, <1>4, <1>5, <1>6, <1>7, <1>8, <1>9, <1>10, <1>11, <1>12, <1>13, <1>14, <1>15, <1>16, <1>17, <1>18, <1>19, <1>20, <1>21, <1>22, <1>23, <1>24, <1>25, <1>26, <1>27, <1>28, <1>29, <1>30, <1>31, <1>32, <1>33, <1>34, <1>35 DEF Next, ReconcileStep

\* inflight is the number of admitted clients.
LEMMA CountsStep == IInv /\ [Next]_vars => Counts'
<1> SUFFICES ASSUME IInv, [Next]_vars PROVE Counts'
  OBVIOUS
<1> USE DEF IInv, Counts
<1>1. ASSUME NEW c \in Client, Call(c) PROVE Counts'
  <2>1. c \notin Busy /\ Busy' = Busy \cup {c}
    BY <1>1, BusyAfter DEF Call, Acquire, Busy, TypeOK, RouterTypeOK
  <2>2. Cardinality(Busy') = Cardinality(Busy) + 1
    BY <2>1, BusyFinite, FS_AddElement
  <2> QED
    BY <1>1, <2>2, BusyFinite DEF Call, Acquire
<1>2. ASSUME NEW c \in Client, CallReturns(c) PROVE Counts'
  <2>1. c \in Busy /\ Busy' = Busy \ {c}
    BY <1>2, BusyAfter DEF CallReturns, Release, Busy, TypeOK
  <2>2. Cardinality(Busy') = Cardinality(Busy) - 1
    BY <2>1, BusyFinite, FS_RemoveElement
  <2> QED
    BY <1>2, <2>2 DEF CallReturns, Release
<1>3. lease' = lease => Busy' = Busy
  BY DEF Busy
<1>4. CASE Quiesce
  BY <1>3, <1>4 DEF Quiesce, CloseAdmission
<1>5. CASE Crash \/ Restart
  <2>1. Busy' = {}
    BY <1>5 DEF Busy, Crash, Restart, RouterReset
  <2> QED
    BY <1>5, <2>1, FS_EmptySet DEF Crash, Restart, RouterReset
<1>6. CASE UNCHANGED <<inflight, drained, lease>>
  BY <1>3, <1>6
<1>7. UNCHANGED routerVars => UNCHANGED <<inflight, drained, lease>>
  BY DEF routerVars
<1>8. ASSUME NEW r, Activate(r) PROVE UNCHANGED <<inflight, drained, lease>>
  BY <1>8 DEF Activate
<1>9. UNCHANGED vars => UNCHANGED routerVars
  BY DEF vars
<1> QED
  BY <1>1, <1>2, <1>4, <1>5, <1>6, <1>7, <1>8, <1>9
  DEF Next, ReconcileStep, RegisterCommand, Begin, RecordStarted, RecordCompleted, RecordCommitted, RecordRolledBack,
      PrepareStart, PrepareError, PrepareOk, StartFailure, Abandon, QuiesceDrained, QuiesceCancelled,
      Snapshot, Migrate, SwapCommands, SwapRouter, Health, Retire, Retired, Publish, RollbackCommands,
      RollbackRouter, Dispose, Disposed, CallExecutes, CommandInvoked, CommandEnters, CommandExecutes

\* So a counter at zero means that no call is in flight.
LEMMA DrainedMeansIdle == IInv => (inflight = 0 <=> \A c \in Client : lease[c] = NoRuntime)
BY BusyEmpty DEF IInv, Counts, Busy

\* Where calls go: nothing is admitted between quiesce and swap, and after the
\* swap only the candidate has calls.
LEMMA RoutesStep == IInv /\ [Next]_vars => Routes'
<1> SUFFICES ASSUME IInv, [Next]_vars PROVE Routes'
  OBVIOUS
<1> USE MaxRuntimesAssumption, StageNames, DrainedMeansIdle
<1> USE DEF IInv, TypeOK, Position, Replaces, Routes, Before, Quiet, Swapped, Busy, Deployment, Runtime, NoRuntime, InPhase, RouterTypeOK, Unrecorded, Elsewhere, txVars, runtimeVars, budgetVars, routerVars, commandVars
<1>1. ASSUME NEW g \in Graph, Begin(g) PROVE Routes'
  BY <1>1 DEF Begin, txVars
<1>2. ASSUME NEW c \in Client, Call(c) PROVE Routes'
  BY <1>2 DEF Call, Acquire
<1>3. ASSUME NEW c \in Client, CallExecutes(c) PROVE Routes'
  BY <1>3 DEF CallExecutes, Execute
<1>4. ASSUME NEW c \in Client, CallReturns(c) PROVE Routes'
  BY <1>4 DEF CallReturns, Release
<1>5. ASSUME NEW o \in Operator, CommandInvoked(o) PROVE Routes'
  BY <1>5 DEF CommandInvoked, Invoke
<1>6. ASSUME NEW o \in Operator, CommandEnters(o) PROVE Routes'
  BY <1>6 DEF CommandEnters, Enter
<1>7. ASSUME NEW o \in Operator, CommandExecutes(o) PROVE Routes'
  BY <1>7 DEF CommandExecutes, Return, Execute
<1>8. CASE RecordStarted
  BY <1>8 DEF RecordStarted, Recorded, Finish
<1>9. CASE RecordCompleted
  BY <1>9 DEF RecordCompleted, Recorded
<1>10. CASE RecordCommitted
  BY <1>10 DEF RecordCommitted, Recorded, Finish
<1>11. CASE RecordRolledBack
  BY <1>11 DEF RecordRolledBack, Recorded, Finish
<1>12. CASE PrepareStart
  BY <1>12 DEF PrepareStart, StartRuntime, Bind
<1>13. CASE PrepareError
  BY <1>13 DEF PrepareError, PhaseError
<1>14. CASE PrepareOk
  BY <1>14 DEF PrepareOk, PhaseOk
<1>15. CASE StartFailure
  BY <1>15 DEF StartFailure, StopBegin, UnbindRevoke
<1>16. CASE Abandon
  BY <1>16 DEF Abandon, StopEnd, PhaseError, Revoked
<1>17. CASE Quiesce
  <2>1. at' = "wait" => drained'
    BY <1>17 DEF Quiesce, CloseAdmission
  <2>2. at' = "record" => \A c \in Client : lease'[c] = NoRuntime
    <3>1. at' = "record" => inflight = 0
      BY <1>17 DEF Quiesce
    <3>2. lease' = lease
      BY <1>17 DEF Quiesce, CloseAdmission
    <3> QED
      BY <3>1, <3>2, DrainedMeansIdle
  <2> QED
    BY <1>17, <2>1, <2>2 DEF Quiesce, CloseAdmission
<1>18. CASE QuiesceDrained
  BY <1>18 DEF QuiesceDrained, DrainDone, PhaseOk
<1>19. CASE Snapshot
  BY <1>19 DEF Snapshot, PhaseOk, PhaseError
<1>20. CASE Migrate
  BY <1>20 DEF Migrate, PhaseOk, PhaseError
<1>21. CASE SwapCommands
  BY <1>21 DEF SwapCommands, Promote
<1>22. CASE SwapRouter
  BY <1>22 DEF SwapRouter, Activate, PhaseOk
<1>23. CASE Health
  BY <1>23 DEF Health, PhaseOk, PhaseError
<1>24. CASE Retire
  BY <1>24 DEF Retire, StopBegin, UnbindRevoke
<1>25. CASE Retired
  BY <1>25 DEF Retired, StopEnd, Revoked
<1>26. CASE Publish
  BY <1>26 DEF Publish
<1>27. CASE RollbackCommands
  BY <1>27 DEF RollbackCommands, Promote
<1>28. CASE RollbackRouter
  BY <1>28 DEF RollbackRouter, Activate
<1>29. CASE Dispose
  BY <1>29 DEF Dispose, StopBegin, UnbindRevoke
<1>30. CASE Disposed
  BY <1>30 DEF Disposed, StopEnd, Revoked
<1>31. CASE QuiesceCancelled
  BY <1>31 DEF QuiesceCancelled, PhaseError
<1>32. CASE Crash
  BY <1>32 DEF Crash, RouterReset, CommandsReset
<1>33. CASE Restart
  BY <1>33 DEF Restart, RouterReset, CommandsReset
<1>34. CASE UNCHANGED vars
  BY <1>34 DEF vars
<1>35. ASSUME NEW m \in Command, RegisterCommand(m) PROVE Routes'
  BY <1>35 DEF RegisterCommand, Register
<1> QED
  BY <1>1, <1>2, <1>3, <1>4, <1>5, <1>6, <1>7, <1>8, <1>9, <1>10, <1>11, <1>12, <1>13, <1>14, <1>15, <1>16, <1>17, <1>18, <1>19, <1>20, <1>21, <1>22, <1>23, <1>24, <1>25, <1>26, <1>27, <1>28, <1>29, <1>30, <1>31, <1>32, <1>33, <1>34, <1>35 DEF Next, ReconcileStep

\* The candidate gets its first call after the swap.
LEMMA LeasedStep == IInv /\ [Next]_vars => Leased'
<1> SUFFICES ASSUME IInv, [Next]_vars PROVE Leased'
  OBVIOUS
<1> USE MaxRuntimesAssumption, StageNames, DrainedMeansIdle
<1> USE DEF IInv, TypeOK, Position, Replaces, Routes, Before, Quiet, Swapped, Busy, Late, Leased, Newcomer, Deployment, Runtime, NoRuntime, InPhase, RouterTypeOK, Unrecorded, Elsewhere, txVars, runtimeVars, budgetVars, routerVars, commandVars
<1>1. ASSUME NEW g \in Graph, Begin(g) PROVE Leased'
  BY <1>1 DEF Begin, txVars
<1>2. ASSUME NEW c \in Client, Call(c) PROVE Leased'
  BY <1>2 DEF Call, Acquire
<1>3. ASSUME NEW c \in Client, CallExecutes(c) PROVE Leased'
  BY <1>3 DEF CallExecutes, Execute
<1>4. ASSUME NEW c \in Client, CallReturns(c) PROVE Leased'
  BY <1>4 DEF CallReturns, Release
<1>5. ASSUME NEW o \in Operator, CommandInvoked(o) PROVE Leased'
  BY <1>5 DEF CommandInvoked, Invoke
<1>6. ASSUME NEW o \in Operator, CommandEnters(o) PROVE Leased'
  BY <1>6 DEF CommandEnters, Enter
<1>7. ASSUME NEW o \in Operator, CommandExecutes(o) PROVE Leased'
  BY <1>7 DEF CommandExecutes, Return, Execute
<1>8. CASE RecordStarted
  BY <1>8 DEF RecordStarted, Recorded, Finish
<1>9. CASE RecordCompleted
  BY <1>9 DEF RecordCompleted, Recorded
<1>10. CASE RecordCommitted
  BY <1>10 DEF RecordCommitted, Recorded, Finish
<1>11. CASE RecordRolledBack
  BY <1>11 DEF RecordRolledBack, Recorded, Finish
<1>12. CASE PrepareStart
  BY <1>12 DEF PrepareStart, StartRuntime, Bind
<1>13. CASE PrepareError
  BY <1>13 DEF PrepareError, PhaseError
<1>14. CASE PrepareOk
  BY <1>14 DEF PrepareOk, PhaseOk
<1>15. CASE StartFailure
  BY <1>15 DEF StartFailure, StopBegin, UnbindRevoke
<1>16. CASE Abandon
  BY <1>16 DEF Abandon, StopEnd, PhaseError, Revoked
<1>17. CASE Quiesce
  BY <1>17 DEF Quiesce, CloseAdmission
<1>18. CASE QuiesceDrained
  BY <1>18 DEF QuiesceDrained, DrainDone, PhaseOk
<1>19. CASE Snapshot
  BY <1>19 DEF Snapshot, PhaseOk, PhaseError
<1>20. CASE Migrate
  BY <1>20 DEF Migrate, PhaseOk, PhaseError
<1>21. CASE SwapCommands
  BY <1>21 DEF SwapCommands, Promote
<1>22. CASE SwapRouter
  BY <1>22 DEF SwapRouter, Activate, PhaseOk
<1>23. CASE Health
  BY <1>23 DEF Health, PhaseOk, PhaseError
<1>24. CASE Retire
  BY <1>24 DEF Retire, StopBegin, UnbindRevoke
<1>25. CASE Retired
  BY <1>25 DEF Retired, StopEnd, Revoked
<1>26. CASE Publish
  BY <1>26 DEF Publish
<1>27. CASE RollbackCommands
  BY <1>27 DEF RollbackCommands, Promote
<1>28. CASE RollbackRouter
  BY <1>28 DEF RollbackRouter, Activate
<1>29. CASE Dispose
  BY <1>29 DEF Dispose, StopBegin, UnbindRevoke
<1>30. CASE Disposed
  BY <1>30 DEF Disposed, StopEnd, Revoked
<1>31. CASE QuiesceCancelled
  BY <1>31 DEF QuiesceCancelled, PhaseError
<1>32. CASE Crash
  BY <1>32 DEF Crash, RouterReset, CommandsReset
<1>33. CASE Restart
  BY <1>33 DEF Restart, RouterReset, CommandsReset
<1>34. CASE UNCHANGED vars
  BY <1>34 DEF vars
<1>35. ASSUME NEW m \in Command, RegisterCommand(m) PROVE Leased'
  BY <1>35 DEF RegisterCommand, Register
<1> QED
  BY <1>1, <1>2, <1>3, <1>4, <1>5, <1>6, <1>7, <1>8, <1>9, <1>10, <1>11, <1>12, <1>13, <1>14, <1>15, <1>16, <1>17, <1>18, <1>19, <1>20, <1>21, <1>22, <1>23, <1>24, <1>25, <1>26, <1>27, <1>28, <1>29, <1>30, <1>31, <1>32, <1>33, <1>34, <1>35 DEF Next, ReconcileStep

\* Nobody writes through the router to the previous runtime after the snapshot.
LEMMA CarriesStep == IInv /\ [Next]_vars => Carries'
<1> SUFFICES ASSUME IInv, [Next]_vars PROVE Carries'
  OBVIOUS
<1> USE MaxRuntimesAssumption, StageNames, OperatorAssumption
<1> USE DEF IInv, TypeOK, Position, Replaces, Routes, Before, Quiet, Swapped, Carries, Served, Busy, Deployment, Runtime, NoRuntime, InPhase, RouterTypeOK, CommandsTypeOK, Unrecorded, Elsewhere, txVars, runtimeVars, budgetVars, routerVars, commandVars
<1>1. ASSUME NEW g \in Graph, Begin(g) PROVE Carries'
  BY <1>1 DEF Begin, txVars
<1>2. ASSUME NEW c \in Client, Call(c) PROVE Carries'
  BY <1>2 DEF Call, Acquire
<1>3. ASSUME NEW c \in Client, CallExecutes(c) PROVE Carries'
  BY <1>3 DEF CallExecutes, Execute
<1>4. ASSUME NEW c \in Client, CallReturns(c) PROVE Carries'
  BY <1>4 DEF CallReturns, Release
<1>5. ASSUME NEW o \in Operator, CommandInvoked(o) PROVE Carries'
  BY <1>5 DEF CommandInvoked, Invoke
<1>6. ASSUME NEW o \in Operator, CommandEnters(o) PROVE Carries'
  BY <1>6 DEF CommandEnters, Enter
<1>7. ASSUME NEW o \in Operator, CommandExecutes(o) PROVE Carries'
  BY <1>7 DEF CommandExecutes, Return, Execute
<1>8. CASE RecordStarted
  BY <1>8 DEF RecordStarted, Recorded, Finish
<1>9. CASE RecordCompleted
  BY <1>9 DEF RecordCompleted, Recorded
<1>10. CASE RecordCommitted
  BY <1>10 DEF RecordCommitted, Recorded, Finish
<1>11. CASE RecordRolledBack
  BY <1>11 DEF RecordRolledBack, Recorded, Finish
<1>12. CASE PrepareStart
  BY <1>12 DEF PrepareStart, StartRuntime, Bind
<1>13. CASE PrepareError
  BY <1>13 DEF PrepareError, PhaseError
<1>14. CASE PrepareOk
  BY <1>14 DEF PrepareOk, PhaseOk
<1>15. CASE StartFailure
  BY <1>15 DEF StartFailure, StopBegin, UnbindRevoke
<1>16. CASE Abandon
  BY <1>16 DEF Abandon, StopEnd, PhaseError, Revoked
<1>17. CASE Quiesce
  BY <1>17 DEF Quiesce, CloseAdmission
<1>18. CASE QuiesceDrained
  BY <1>18 DEF QuiesceDrained, DrainDone, PhaseOk
<1>19. CASE Snapshot
  BY <1>19 DEF Snapshot, PhaseOk, PhaseError
<1>20. CASE Migrate
  BY <1>20 DEF Migrate, PhaseOk, PhaseError
<1>21. CASE SwapCommands
  BY <1>21 DEF SwapCommands, Promote
<1>22. CASE SwapRouter
  BY <1>22 DEF SwapRouter, Activate, PhaseOk
<1>23. CASE Health
  BY <1>23 DEF Health, PhaseOk, PhaseError
<1>24. CASE Retire
  BY <1>24 DEF Retire, StopBegin, UnbindRevoke
<1>25. CASE Retired
  BY <1>25 DEF Retired, StopEnd, Revoked
<1>26. CASE Publish
  BY <1>26 DEF Publish
<1>27. CASE RollbackCommands
  BY <1>27 DEF RollbackCommands, Promote
<1>28. CASE RollbackRouter
  BY <1>28 DEF RollbackRouter, Activate
<1>29. CASE Dispose
  BY <1>29 DEF Dispose, StopBegin, UnbindRevoke
<1>30. CASE Disposed
  BY <1>30 DEF Disposed, StopEnd, Revoked
<1>31. CASE QuiesceCancelled
  BY <1>31 DEF QuiesceCancelled, PhaseError
<1>32. CASE Crash
  BY <1>32 DEF Crash, RouterReset, CommandsReset
<1>33. CASE Restart
  BY <1>33 DEF Restart, RouterReset, CommandsReset
<1>34. CASE UNCHANGED vars
  BY <1>34 DEF vars
<1>35. ASSUME NEW m \in Command, RegisterCommand(m) PROVE Carries'
  BY <1>35 DEF RegisterCommand, Register
<1> QED
  BY <1>1, <1>2, <1>3, <1>4, <1>5, <1>6, <1>7, <1>8, <1>9, <1>10, <1>11, <1>12, <1>13, <1>14, <1>15, <1>16, <1>17, <1>18, <1>19, <1>20, <1>21, <1>22, <1>23, <1>24, <1>25, <1>26, <1>27, <1>28, <1>29, <1>30, <1>31, <1>32, <1>33, <1>34, <1>35 DEF Next, ReconcileStep

----------------------------------------------------------------------------
(* the replacement of a live application *)

LEMMA IInvInit == Init => IInv
<1> SUFFICES ASSUME Init PROVE IInv
  OBVIOUS
<1> USE MaxRuntimesAssumption, BudgetAssumption, MaxTxAssumption, InitialGraphAssumption, StageNames
<1> USE DEF Init, RouterInit, CommandsInit, JournalInit, Deployment, Runtime, NoRuntime
<1>1. TypeOK
  <2>1. RouterTypeOK
    <3>1. target \in Runtime /\ inflight \in Nat
      OBVIOUS
    <3>2. lease \in [Client -> Runtime \cup {NoRuntime}]
      OBVIOUS
    <3>3. accepting \in BOOLEAN /\ drained \in BOOLEAN
      OBVIOUS
    <3> QED
      BY <3>1, <3>2, <3>3 DEF RouterTypeOK
  <2>2. CommandsTypeOK
    BY DEF CommandsTypeOK, Routed
  <2>3. JournalTypeOK
    <3>1. failed \in BOOLEAN
      OBVIOUS
    <3> QED
      BY <3>1 DEF JournalTypeOK
  <2>4. /\ life \in [Runtime -> {"none", "running", "stopping", "stopped"}]
        /\ store \in [Runtime -> SUBSET (Client \cup Operator)]
    OBVIOUS
  <2> QED
    BY <2>1, <2>2, <2>3, <2>4 DEF TypeOK, At
<1>2. Counts /\ Busy = {}
  <2>1. Busy = {}
    BY DEF Busy
  <2> QED
    BY <2>1, FS_EmptySet DEF Counts
<1>3. Position /\ Replaces /\ Lives /\ Access
  BY DEF Position, Replaces, Lives, Access, Alive, Newcomer, InPhase
<1>4. Routes /\ Carries /\ Leased
  BY <1>2 DEF Routes, Leased, Carries, Before, Quiet, Swapped, InPhase
<1> QED
  BY <1>1, <1>2, <1>3, <1>4 DEF IInv

\* The inductive invariant holds in every behaviour.
THEOREM DeploymentInvariant == Spec => []IInv
<1>1. IInv /\ [Next]_vars => IInv'
  BY ControlStep, LivesStep, CountsStep, RoutesStep, LeasedStep, CarriesStep DEF IInv
<1> QED
  BY <1>1, IInvInit, PTL DEF Spec

\* Every variable keeps its type in ReconcileWithEvidence, the router, the
\* operator commands and the journal.
THEOREM DeploymentTypes == Spec => []TypeOK
BY DeploymentInvariant, PTL DEF IInv

\* Between transactions the router admits calls, and to the runtime the
\* reconciler reports, whichever phase, record or process failed before.
THEOREM RouterAgrees == Spec => []RouterFollowsReconciler
<1>1. IInv => RouterFollowsReconciler
  BY DEF IInv, Routes, Replaces, RouterFollowsReconciler
<1> QED
  BY <1>1, DeploymentInvariant, PTL

\* No transaction leaves a second runtime alive, however it ended.
THEOREM NothingLeftRunning == Spec => []OnlyCurrentRuns
<1>1. IInv => OnlyCurrentRuns
  BY DEF IInv, Lives, Alive, Replaces, OnlyCurrentRuns
<1> QED
  BY <1>1, DeploymentInvariant, PTL

\* A stopping runtime has router calls in it only when a candidate is rolled
\* back after the swap; the revocation joins commands always.
THEOREM StopsJoinWork == Spec => []WorkIsJoined
<1>1. IInv => WorkIsJoined
  <2> SUFFICES ASSUME IInv PROVE WorkIsJoined
    OBVIOUS
  <2>1. ASSUME NEW r \in Runtime, life[r] = "stopping", Admitted(r) # {}
        PROVE  at = "disposing" /\ stage \in {"swap", "health", "commit"}
    <3>1. PICK c \in Client : lease[c] = r
      BY <2>1 DEF Admitted
    <3>2. c \in Busy
      BY <3>1 DEF Busy, Runtime, NoRuntime
    <3>3. at # "abandon"
      BY <2>1, <3>1, <3>2 DEF IInv, Lives, Leased, Late, Swapped, Newcomer, InPhase
    <3>4. at # "retiring"
      BY <2>1, <3>1, <3>2 DEF IInv, TypeOK, Lives, Routes, Swapped, Replaces, Deployment, Runtime, NoRuntime
    <3>5. at = "disposing" /\ r = candidate
      BY <2>1, <3>3, <3>4 DEF IInv, Lives
    <3> QED
      BY <3>1, <3>2, <3>5 DEF IInv, Leased, Late, Swapped, Newcomer, InPhase
  <2>2. \A o \in Operator : entered[o] => life[chosen[o]] \in {"running", "stopping"}
    BY DEF IInv, Access, Alive
  <2> QED
    BY <2>1, <2>2 DEF WorkIsJoined
<1> QED
  BY <1>1, DeploymentInvariant, PTL

\* Every write of a call the previous runtime served is in the candidate when
\* the transaction commits.
THEOREM CommitKeepsWrites == Spec => []CommitKeepsCalls
<1>1. IInv => CommitKeepsCalls
  BY DEF IInv, Carries, Served, CommitKeepsCalls, InPhase
<1> QED
  BY <1>1, DeploymentInvariant, PTL

----------------------------------------------------------------------------
(* the journal *)

\* As long as Record never failed in a live process, the file holds what was
\* acknowledged; a crash adds one line at most, torn or whole.
Kept ==
    faults = 0 =>
        /\ Chained(entries)
        /\ at # "down" => disk = entries
        /\ at = "down" => \/ disk \in {entries, Append(entries, Torn)}
                          \/ \E w \in Whole : disk = Append(entries, w) /\ Links(entries, w)

\* The graph a restart finds in js, unless a commit overtook an unfinished
\* transaction.
Names(js, G) == Overtaken(js) \/ Recovered(js) \in G

\* The journal before the transaction names the graph the transaction
\* replaces, and everything behind it is the transaction's own.
BeginsAt(base) ==
    /\ Continues(entries, base, tx)
    /\ Names(base, {previous.graph})
    /\ at = "start" <=> Len(base) = Len(entries)
    /\ \A i \in (Len(base) + 1)..Len(entries) :
          ~Ended(entries[i].rec) /\ entries[i].rec.previous = previous.graph

Authority ==
    Durable /\ faults = 0 =>
        /\ \A i \in 1..Len(entries) : entries[i].rec.tx <= tx
        /\ at = "idle" => Names(entries, {current.graph})
        /\ at = "acknowledge" => current.graph = desired
        /\ at \notin {"idle", "down"} => \E base \in Seq(Whole) : BeginsAt(base)
        /\ at = "down" => /\ Names(Complete, {current.graph, previous.graph})
                          /\ \A i \in 1..Len(Complete) : Complete[i].rec.tx <= tx

\* A step that begins, records and ends nothing, as the journal sees it.
Between ==
    /\ UNCHANGED <<disk, entries, hashes, failed, faults, tx, previous, desired>>
    /\ \A x \in {"idle", "down", "start"} : at = x <=> at' = x
    /\ \/ current' = current /\ (at' = "acknowledge" => at = "acknowledge")
       \/ at = "publish" /\ at' = "acknowledge" /\ current'.graph = desired

\* Which steps touch the journal, the reconciler's graph, or neither.
LEMMA JournalEffects ==
    IInv /\ [Next]_vars =>
        \/ Between
        \/ \E g \in Graph : Begin(g)
        \/ RecordStarted \/ RecordCompleted \/ RecordCommitted \/ RecordRolledBack
        \/ Crash \/ Restart
<1> SUFFICES ASSUME IInv, [Next]_vars,
                    ~(\E g \in Graph : Begin(g)), ~RecordStarted, ~RecordCompleted,
                    ~RecordCommitted, ~RecordRolledBack, ~Crash, ~Restart
             PROVE  Between
  OBVIOUS
<1> USE DEF Between, InPhase, Unrecorded, Elsewhere, txVars, budgetVars, journalVars, PhaseOk, PhaseError
<1>1. CASE UNCHANGED vars
  BY <1>1 DEF vars
<1>2. ASSUME NEW c \in Client, Call(c) \/ CallExecutes(c) \/ CallReturns(c) PROVE Between
  BY <1>2 DEF Call, CallExecutes, CallReturns
<1>3. ASSUME NEW o \in Operator, CommandInvoked(o) \/ CommandEnters(o) \/ CommandExecutes(o) PROVE Between
  BY <1>3 DEF CommandInvoked, CommandEnters, CommandExecutes
<1>4. CASE PrepareStart \/ PrepareError \/ PrepareOk \/ StartFailure \/ Abandon
  BY <1>4 DEF PrepareStart, PrepareError, PrepareOk, StartFailure, Abandon
<1>5. CASE Quiesce \/ QuiesceDrained \/ QuiesceCancelled \/ Snapshot \/ Migrate
  BY <1>5 DEF Quiesce, QuiesceDrained, QuiesceCancelled, Snapshot, Migrate
<1>6. CASE SwapCommands \/ SwapRouter \/ Health \/ Retire \/ Retired
  BY <1>6 DEF SwapCommands, SwapRouter, Health, Retire, Retired
<1>7. CASE Publish
  BY <1>7 DEF Publish
<1>8. CASE RollbackCommands \/ RollbackRouter \/ Dispose \/ Disposed
  BY <1>8 DEF RollbackCommands, RollbackRouter, Dispose, Disposed
<1>9. ASSUME NEW m \in Command, RegisterCommand(m) PROVE Between
  BY <1>9 DEF RegisterCommand
<1> QED
  BY <1>1, <1>2, <1>3, <1>4, <1>5, <1>6, <1>7, <1>8, <1>9 DEF Next, ReconcileStep

\* The records of a transaction, as Record builds them.
LEMMA EntryOf ==
    ASSUME IInv, at \notin {"idle", "down"}, NEW status \in Status
    PROVE  /\ EntryFor(RecordOf(status)) \in Whole
           /\ EntryFor(RecordOf(status)).rec = RecordOf(status)
           /\ Links(entries, EntryFor(RecordOf(status)))
           /\ entries \in Seq(Whole)
<1>1. RecordOf(status) \in Record
  BY MaxTxAssumption DEF IInv, Position, TypeOK, RecordOf, Record, Deployment
<1>2. EntryFor(RecordOf(status)) \in Whole
  BY <1>1, EntryType DEF IInv, TypeOK
<1> QED
  BY <1>2 DEF EntryFor, Links, lastHash, IInv, TypeOK, JournalTypeOK

\* What is recorded at each position is a status.
LEMMA WritingStatus == \A x \in DOMAIN Writing : Writing[x] \in Status
BY StageNames DEF Writing, Status

\* Record and a crash only add to the file; a restart reads it back.
LEMMA KeptStep == IInv /\ Kept /\ [Next]_vars => Kept'
<1> SUFFICES ASSUME IInv, Kept, [Next]_vars, faults' = 0 PROVE Kept'
  BY DEF Kept
<1>1. faults = 0 /\ (faults' = faults)
  BY JournalEffects, BudgetAssumption
  DEF IInv, TypeOK, Between, Begin, RecordStarted, RecordCompleted, RecordCommitted, RecordRolledBack,
      Recorded, Crash, Restart, budgetVars
<1>2. entries \in Seq(Whole) /\ Chained(entries)
  BY <1>1 DEF IInv, TypeOK, JournalTypeOK, Kept
<1>3. CASE Between
  BY <1>1, <1>3 DEF Between, Kept
<1>4. ASSUME NEW g \in Graph, Begin(g) PROVE Kept'
  BY <1>1, <1>4 DEF Begin, Kept, journalVars
<1>5. ASSUME NEW status \in Status, NEW ok, NEW err, at \notin {"idle", "down"},
             ok # "down", Recorded(status, ok, err)
      PROVE  Kept'
  <2> DEFINE e == EntryFor(RecordOf(status))
  <2>1. disk = entries
    BY <1>1, <1>5 DEF Kept
  <2>2. CASE UNCHANGED journalVars /\ at' = ok
    BY <1>2, <1>5, <2>1, <2>2 DEF Kept, journalVars
  <2>3. CASE RecordOk(RecordOf(status)) /\ at' = ok
    <3>1. disk' = Append(entries, e) /\ entries' = Append(entries, e)
      BY <1>2, <2>1, <2>3, WriteBehindWhole DEF RecordOk
    <3>2. Chained(Append(entries, e))
      BY <1>2, <1>5, EntryOf, ChainGrows
    <3> QED
      BY <1>5, <2>3, <3>1, <3>2 DEF Kept
  <2> QED
    BY <1>1, <1>5, <2>2, <2>3 DEF Recorded
<1>6. CASE RecordStarted \/ RecordCompleted \/ RecordCommitted \/ RecordRolledBack
  <2>1. at \notin {"idle", "down"}
    BY <1>6 DEF RecordStarted, RecordCompleted, RecordCommitted, RecordRolledBack
  <2>2. \E status \in Status : \E ok \in {"call", "idle"}, err \in {"idle", "rollback"} : Recorded(status, ok, err)
    BY <1>6 DEF RecordStarted, RecordCompleted, RecordCommitted, RecordRolledBack, Status
  <2> QED
    BY <1>5, <2>1, <2>2
<1>7. CASE Crash
  <2>1. at # "down" /\ at' = "down" /\ disk = entries
    BY <1>1, <1>7 DEF Crash, Kept
  <2>2. CASE UNCHANGED journalVars
    BY <1>2, <2>1, <2>2 DEF Kept, journalVars
  <2>3. CASE at \in DOMAIN Writing /\ RecordError(RecordOf(Writing[at]))
    <3> DEFINE e == EntryFor(RecordOf(Writing[at]))
    <3>1. disk' \in {entries, Append(entries, Torn), Append(entries, e)} /\ entries' = entries
      BY <1>2, <2>1, <2>3, WriteBehindWhole DEF RecordError
    <3>2. e \in Whole /\ Links(entries, e)
      BY <2>1, <2>3, EntryOf, WritingStatus, StageNames
    <3> QED
      BY <1>2, <2>1, <3>1, <3>2 DEF Kept
  <2> QED
    BY <1>7, <2>2, <2>3 DEF Crash
<1>8. CASE Restart
  <2>1. at' # "down" /\ at = "down" /\ disk' = Complete /\ entries' = Complete
    BY <1>8 DEF Restart, OpenJournal
  <2>2. Chained(Complete)
    <3>1. CASE disk \in {entries, Append(entries, Torn)}
      BY <1>2, <3>1, CompleteCases
    <3>2. CASE \E w \in Whole : disk = Append(entries, w) /\ Links(entries, w)
      BY <1>2, <3>2, CompleteCases, ChainGrows
    <3> QED
      BY <1>1, <2>1, <3>1, <3>2 DEF Kept
  <2> QED
    BY <2>1, <2>2 DEF Kept
<1> QED
  BY <1>3, <1>4, <1>6, <1>7, <1>8, JournalEffects

\* A process none of whose Records failed has in its file what it has in
\* memory.
Fresh == at # "down" /\ ~failed => disk = entries

\* A file of entries has no torn tail.
LEMMA WholeFile ==
    ASSUME NEW js \in Seq(Whole), disk = js
    PROVE  Complete = js /\ \A line : WriteLine(line) = Append(js, line)
BY LastOfEntries, WholeIsNotTorn DEF Complete, WriteLine

\* A successful Record keeps such a file so.
LEMMA FreshStep == IInv /\ Fresh /\ [Next]_vars => Fresh'
<1> SUFFICES ASSUME IInv, Fresh, [Next]_vars, at' # "down", ~failed' PROVE disk' = entries'
  BY DEF Fresh
<1>0. entries \in Seq(Whole)
  BY DEF IInv, TypeOK, JournalTypeOK
<1>1. CASE Between
  BY <1>1 DEF Between, Fresh
<1>2. ASSUME NEW g \in Graph, Begin(g) PROVE disk' = entries'
  BY <1>2 DEF Begin, Fresh, journalVars
<1>3. ASSUME NEW status \in Status, NEW ok, NEW err, at # "down", Recorded(status, ok, err)
      PROVE  disk' = entries'
  <2>1. CASE UNCHANGED journalVars
    BY <1>3, <2>1 DEF Fresh, journalVars
  <2>2. CASE RecordOk(RecordOf(status))
    <3>1. disk = entries
      BY <1>3, <2>2 DEF Fresh, RecordOk
    <3> QED
      BY <1>0, <2>2, <3>1, WholeFile DEF RecordOk
  <2>3. CASE RecordError(RecordOf(status))
    BY <2>3 DEF RecordError
  <2> QED
    BY <1>3, <2>1, <2>2, <2>3 DEF Recorded, journalVars
<1>4. CASE RecordStarted \/ RecordCompleted \/ RecordCommitted \/ RecordRolledBack
  <2>1. at # "down"
    BY <1>4 DEF RecordStarted, RecordCompleted, RecordCommitted, RecordRolledBack
  <2>2. \E status \in Status : \E ok \in {"call", "idle"}, err \in {"idle", "rollback"} : Recorded(status, ok, err)
    BY <1>4 DEF RecordStarted, RecordCompleted, RecordCommitted, RecordRolledBack, Status
  <2> QED
    BY <1>3, <2>1, <2>2
<1>5. CASE Crash
  BY <1>5 DEF Crash
<1>6. CASE Restart
  BY <1>6 DEF Restart, OpenJournal
<1> QED
  BY <1>1, <1>2, <1>4, <1>5, <1>6, JournalEffects

\* What OpenFileJournal reads from a readable file is a chain of entries.
LEMMA ReadableChain ==
    ASSUME IInv, Readable
    PROVE  Complete \in Seq(Whole) /\ Chained(Complete)
<1>1. Complete \in Seq(Whole)
  BY IntactType DEF IInv, TypeOK, Readable
<1>2. DOMAIN Complete = 1..Len(Complete)
  BY <1>1, LenProperties
<1> QED
  BY <1>1, <1>2 DEF Readable, Intact, Chained

\* A file that is chained entries after a step, and begins with those that
\* were acknowledged, is readable.
LEMMA ChainedNext ==
    ASSUME NEW js \in Seq(Whole), Chained(js), Complete' = js, IsPrefix(entries', js)
    PROVE  Readable'
<1>1. DOMAIN js = 1..Len(js)
  BY LenProperties
<1>2. \A i \in 1..Len(js) : js[i] \in Whole
  BY ElementOfSeq
<1>3. \A i \in 1..Len(js) : js[i].kind = "whole"
  BY <1>2 DEF Whole
<1> QED
  BY <1>1, <1>3 DEF Readable, Intact, Chained

\* A whole line changes the file it is written to.
LEMMA WriteIsSeen ==
    ASSUME JournalTypeOK, NEW e \in Whole
    PROVE  WriteLine(e) # disk
<1>1. CASE disk # <<>> /\ Last(disk) = Torn
  <2>1. Front(disk) \in Seq(Line) /\ Glued \in Line
    BY <1>1, FrontType DEF JournalTypeOK, Line
  <2>2. WriteLine(e) = Append(Front(disk), Glued)
    BY <1>1, WholeIsNotTorn DEF WriteLine
  <2>3. Last(WriteLine(e)) = Glued
    BY <2>1, <2>2, LastAppended
  <2> QED
    BY <1>1, <2>3 DEF Torn, Glued
<1>2. CASE ~(disk # <<>> /\ Last(disk) = Torn)
  <2>1. WriteLine(e) = Append(disk, e)
    BY <1>2 DEF WriteLine
  <2>2. Len(Append(disk, e)) = Len(disk) + 1 /\ Len(disk) \in Nat
    BY AppendProperties, LenProperties DEF JournalTypeOK
  <2> QED
    BY <2>1, <2>2
<1> QED
  BY <1>1, <1>2

\* Every file is a prefix of itself.
LEMMA PrefixOfSelf ==
    ASSUME NEW js \in Seq(Whole)
    PROVE  IsPrefix(js, js)
BY LenProperties DEF IsPrefix

\* A Record, whatever becomes of it, behind a file that holds what was
\* acknowledged leaves that readable.
LEMMA RecordBehindWhole ==
    ASSUME IInv, Readable, disk = entries, at \notin {"idle", "down"}, NEW status \in Status,
           RecordOk(RecordOf(status)) \/ RecordError(RecordOf(status))
    PROVE  Readable'
<1> DEFINE e == EntryFor(RecordOf(status))
<1>1. entries \in Seq(Whole) /\ e \in Whole /\ Links(entries, e)
  BY EntryOf
<1>2. Complete = entries /\ \A line : WriteLine(line) = Append(entries, line)
  BY <1>1, WholeFile
<1>3. Chained(entries)
  BY <1>2, ReadableChain
<1>4. Append(entries, e) \in Seq(Whole) /\ Chained(Append(entries, e))
  BY <1>1, <1>3, ChainGrows, AppendProperties
<1>5. CASE disk' = Append(entries, e) /\ entries' = Append(entries, e)
  <2>1. Complete' = Append(entries, e)
    BY <1>4, <1>5, LastOfEntries, WholeIsNotTorn DEF Complete
  <2>2. IsPrefix(entries', Append(entries, e))
    BY <1>4, <1>5, PrefixOfSelf
  <2> QED
    BY <1>4, <2>1, <2>2, ChainedNext
<1>6. CASE disk' = Append(entries, e) /\ entries' = entries
  <2>1. Complete' = Append(entries, e)
    BY <1>4, <1>6, LastOfEntries, WholeIsNotTorn DEF Complete
  <2>2. IsPrefix(entries', Append(entries, e))
    BY <1>1, <1>6, PrefixOfAppend
  <2> QED
    BY <1>4, <2>1, <2>2, ChainedNext
<1>7. CASE disk' \in {entries, Append(entries, Torn)} /\ entries' = entries
  <2>1. Complete' = entries
    <3>1. entries \in Seq(Line) /\ Torn \in Line
      BY <1>1 DEF Line
    <3> QED
      BY <1>1, <1>7, <3>1, LastOfEntries, LastAppended, WholeIsNotTorn DEF Complete
  <2>2. IsPrefix(entries', entries)
    BY <1>1, <1>7, PrefixOfSelf
  <2> QED
    BY <1>1, <1>3, <2>1, <2>2, ChainedNext
<1> QED
  BY <1>2, <1>5, <1>6, <1>7 DEF RecordOk, RecordError

\* Everything Record acknowledged is found again: crashes and failed writes
\* only add to the file, what they tear is cut off, and a restart reads back
\* what is there.  Only a Record behind the remains of a failed one can end it.
THEOREM JournalKeepsAcknowledged == Spec => AcknowledgedSurvives
<1>1. Init => Fresh
  BY DEF Init, JournalInit, Fresh
<1>2. IInv /\ Fresh /\ [Next]_vars => (Readable => Readable' \/ WritesBehindRemains)
  <2> SUFFICES ASSUME IInv, Fresh, [Next]_vars, Readable, ~WritesBehindRemains PROVE Readable'
    OBVIOUS
  <2>1. UNCHANGED <<disk, entries>> => Readable'
    BY DEF Readable, Intact, Complete
  <2>2. ASSUME NEW status \in Status, at \notin {"idle", "down"},
               RecordOk(RecordOf(status)) \/ RecordError(RecordOf(status))
        PROVE  Readable'
    <3>1. CASE disk = entries
      BY <2>2, <3>1, RecordBehindWhole
    <3>2. CASE disk # entries
      <4>1. failed
        BY <2>2, <3>2 DEF Fresh
      <4>2. disk' = disk
        BY <2>2, <3>2, <4>1 DEF WritesBehindRemains
      <4>3. CASE RecordError(RecordOf(status))
        BY <2>1, <4>2, <4>3 DEF RecordError
      <4>4. CASE RecordOk(RecordOf(status))
        BY <2>2, <4>2, <4>4, WriteIsSeen, EntryOf DEF RecordOk, IInv, TypeOK
      <4> QED
        BY <2>2, <4>3, <4>4
    <3> QED
      BY <3>1, <3>2
  <2>3. CASE Between
    BY <2>1, <2>3 DEF Between
  <2>4. ASSUME NEW g \in Graph, Begin(g) PROVE Readable'
    BY <2>1, <2>4 DEF Begin, journalVars
  <2>5. CASE RecordStarted \/ RecordCompleted \/ RecordCommitted \/ RecordRolledBack
    <3>1. at \notin {"idle", "down"}
      BY <2>5 DEF RecordStarted, RecordCompleted, RecordCommitted, RecordRolledBack
    <3>2. \E status \in Status : \E ok \in {"call", "idle"}, err \in {"idle", "rollback"} : Recorded(status, ok, err)
      BY <2>5 DEF RecordStarted, RecordCompleted, RecordCommitted, RecordRolledBack, Status
    <3> QED
      BY <2>1, <2>2, <3>1, <3>2 DEF Recorded, journalVars
  <2>6. CASE Crash
    BY <2>1, <2>2, <2>6, WritingStatus, StageNames DEF Crash, journalVars
  <2>7. CASE Restart
    <3>1. Complete \in Seq(Whole) /\ Chained(Complete)
      BY ReadableChain
    <3>2. disk' = Complete /\ entries' = Complete
      BY <2>7 DEF Restart, OpenJournal
    <3>3. Complete' = Complete
      BY <3>1, <3>2, LastOfEntries, WholeIsNotTorn DEF Complete
    <3>4. IsPrefix(entries', Complete)
      BY <3>1, <3>2, PrefixOfSelf
    <3> QED
      BY <3>1, <3>3, <3>4, ChainedNext
  <2> QED
    BY <2>3, <2>4, <2>5, <2>6, <2>7, JournalEffects
<1> QED
  BY <1>1, <1>2, FreshStep, DeploymentInvariant, PTL DEF Spec, AcknowledgedSurvives

\* What a restart would find while a transaction is under way.
LEMMA NamesUnderWay ==
    ASSUME IInv, NEW base \in Seq(Whole), BeginsAt(base)
    PROVE  Names(entries, {previous.graph})
<1>1. entries \in Seq(Whole) /\ tx \in Nat /\ Len(entries) \in Nat /\ Len(base) \in Nat /\ Len(base) <= Len(entries)
  BY MaxTxAssumption, LenProperties DEF IInv, TypeOK, JournalTypeOK, BeginsAt, Continues
<1>2. CASE Len(base) = Len(entries)
  <2>1. base = entries
    BY <1>1, <1>2, SeqEqual DEF BeginsAt, Continues
  <2> QED
    BY <2>1 DEF BeginsAt
<1>3. CASE Len(base) < Len(entries)
  <2>1. Recovered(entries) = entries[Len(entries)].rec.previous
    BY <1>1, <1>3, UnderWay DEF BeginsAt
  <2> QED
    BY <1>1, <1>3, <2>1 DEF BeginsAt, Names
<1> QED
  BY <1>1, <1>2, <1>3

\* What it would find once the record being written is in the file.
LEMMA NamesAfterRecord ==
    ASSUME IInv, NEW base \in Seq(Whole), BeginsAt(base), at \in DOMAIN Writing,
           at = "acknowledge" => current.graph = desired,
           NEW e \in Whole, e.rec = RecordOf(Writing[at])
    PROVE  /\ Names(Append(entries, e), IF at = "acknowledge" THEN {current.graph} ELSE {previous.graph})
           /\ Append(entries, e) \in Seq(Whole)
           /\ Continues(Append(entries, e), base, tx)
           /\ Len(base) < Len(Append(entries, e))
           /\ \A i \in 1..Len(Append(entries, e)) : Append(entries, e)[i].rec.tx <= tx
           /\ at \in {"start", "record"} =>
                \A i \in (Len(base) + 1)..Len(Append(entries, e)) :
                    /\ ~Ended(Append(entries, e)[i].rec)
                    /\ Append(entries, e)[i].rec.previous = previous.graph
<1> DEFINE js == Append(entries, e)
<1>1. entries \in Seq(Whole) /\ tx \in Nat /\ Len(entries) \in Nat /\ Len(base) \in Nat
  BY MaxTxAssumption, LenProperties DEF IInv, TypeOK, JournalTypeOK
<1>2. /\ e.rec.tx = tx /\ e.rec.previous = previous.graph /\ e.rec.desired = desired
      /\ e.rec.status = Writing[at]
  BY DEF RecordOf
<1>3. /\ Continues(js, base, tx) /\ js \in Seq(Whole) /\ Len(js) = Len(entries) + 1
      /\ Len(base) < Len(js) /\ js[Len(js)] = e
      /\ \A i \in 1..Len(entries) : js[i] = entries[i]
  BY <1>1, <1>2, ContinuesAppend DEF BeginsAt
<1> HIDE DEF js
<1>4. \A i \in 1..Len(js) : js[i].rec.tx <= tx
  <2>1. /\ \A i \in 1..Len(base) : js[i].rec.tx < tx
        /\ \A i \in (Len(base) + 1)..Len(js) : js[i].rec.tx = tx
    BY <1>3 DEF Continues
  <2>2. \A i \in 1..Len(js) : js[i].rec.tx \in Nat
    BY <1>3, Positions
  <2>3. \A i \in 1..Len(js) : i \in 1..Len(base) \/ i \in (Len(base) + 1)..Len(js)
    BY <1>1, <1>3
  <2> QED
    BY <1>1, <2>1, <2>2, <2>3
<1>5. \A i \in (Len(base) + 1)..(Len(js) - 1) : ~Ended(js[i].rec) /\ js[i].rec.previous = previous.graph
  BY <1>1, <1>3 DEF BeginsAt
<1>6. at \in {"start", "record", "acknowledge", "conclude"}
  BY StageNames
<1>7. CASE at \in {"start", "record"}
  <2>1. ~Ended(e.rec)
    BY <1>2, <1>7 DEF Writing, Ended
  <2>2. \A i \in (Len(base) + 1)..Len(js) : ~Ended(js[i].rec) /\ js[i].rec.previous = previous.graph
    BY <1>1, <1>2, <1>3, <1>5, <2>1
  <2>3. Recovered(js) = previous.graph
    BY <1>1, <1>2, <1>3, <2>2, UnderWay
  <2> QED
    BY <1>3, <1>4, <1>7, <2>2, <2>3 DEF Names, js
<1>8. CASE at = "acknowledge"
  <2>1. js[Len(js)].rec.status = "committed"
    BY <1>2, <1>3, <1>8 DEF Writing
  <2>2. Names(js, {current.graph})
    BY <1>1, <1>2, <1>3, <1>8, <2>1, AfterCommit DEF Names
  <2> QED
    BY <1>3, <1>4, <1>8, <2>2 DEF js
<1>9. CASE at = "conclude"
  <2>1. js[Len(js)].rec.status = "rolled_back"
    BY <1>2, <1>3, <1>9 DEF Writing
  <2>2. \A i \in (Len(base) + 1)..Len(js) : js[i].rec.status # "committed"
    BY <1>1, <1>3, <1>5, <2>1 DEF Ended
  <2>3. Recovered(js) = Recovered(base) /\ (Overtaken(js) <=> Overtaken(base))
    BY <1>1, <1>3, <2>1, <2>2, AfterRollback
  <2>4. Names(js, {previous.graph})
    BY <2>3 DEF Names, BeginsAt
  <2> QED
    BY <1>3, <1>4, <1>9, <2>4 DEF js
<1> QED
  BY <1>6, <1>7, <1>8, <1>9

\* What a restart would read back from the file after the step.
LEMMA CompleteCasesNext ==
    ASSUME entries' \in Seq(Whole)
    PROVE  /\ disk' = Append(entries', Torn) => Complete' = entries'
           /\ \A w \in Whole : disk' = Append(entries', w) => Complete' = Append(entries', w)
<1>1. entries' \in Seq(Line)
  BY DEF Line
<1>2. Torn \in Line /\ Whole \subseteq Line
  BY DEF Line
<1>3. \A line \in Line : /\ Append(entries', line) # <<>>
                         /\ Last(Append(entries', line)) = line
                         /\ Front(Append(entries', line)) = entries'
  BY <1>1, LastAppended
<1>4. disk' = Append(entries', Torn) => Complete' = entries'
  BY <1>2, <1>3 DEF Complete
<1>5. \A w \in Whole : disk' = Append(entries', w) => Complete' = Append(entries', w)
  BY <1>2, <1>3, WholeIsNotTorn DEF Complete
<1> QED
  BY <1>4, <1>5

\* Every record, crash and restart leaves the journal naming the graph that
\* serves.
LEMMA AuthorityStep == IInv /\ IInv' /\ Kept /\ Authority /\ [Next]_vars => Authority'
<1> SUFFICES ASSUME IInv, IInv', Kept, Authority, [Next]_vars, Durable, faults' = 0 PROVE Authority'
  BY DEF Authority
<1>1. faults = 0 /\ faults' = faults
  BY JournalEffects, BudgetAssumption
  DEF IInv, TypeOK, Between, Begin, RecordStarted, RecordCompleted, RecordCommitted, RecordRolledBack,
      Recorded, Crash, Restart, budgetVars
<1>2. entries \in Seq(Whole) /\ Len(entries) \in Nat /\ tx \in Nat
  BY MaxTxAssumption, LenProperties DEF IInv, TypeOK, JournalTypeOK
<1>3. at # "down" => disk = entries /\ Complete = entries
  BY <1>1, <1>2, CompleteCases DEF Kept
<1>4. \A i \in 1..Len(entries) : entries[i].rec.tx <= tx
  BY <1>1 DEF Authority
<1>5. CASE Between
  <2>1. /\ tx' = tx /\ entries' = entries /\ previous' = previous /\ Complete' = Complete
        /\ (at = "idle" <=> at' = "idle") /\ (at = "down" <=> at' = "down") /\ (at = "start" <=> at' = "start")
    BY <1>5 DEF Between, Complete
  <2>2. \A base : BeginsAt(base)' <=> BeginsAt(base)
    BY <2>1 DEF BeginsAt
  <2>3. at' = "acknowledge" => (current.graph = desired)'
    BY <1>1, <1>5 DEF Between, Authority
  <2>4. at' \in {"idle", "down"} => current' = current
    BY <1>5, <2>1 DEF Between
  <2> QED
    BY <1>1, <2>1, <2>2, <2>3, <2>4 DEF Authority
<1>6. ASSUME NEW g \in Graph, Begin(g) PROVE Authority'
  <2>1. /\ at = "idle" /\ at' = "start" /\ tx' = tx + 1 /\ entries' = entries /\ previous' = current
    BY <1>6 DEF Begin, journalVars
  <2>2. \A i \in 1..Len(entries) : entries[i].rec.tx <= tx + 1 /\ entries[i].rec.tx < tx + 1
    BY <1>2, <1>4, Positions
  <2>3. BeginsAt(entries)'
    BY <1>1, <1>2, <2>1, <2>2 DEF BeginsAt, Continues, Authority
  <2> QED
    BY <1>2, <2>1, <2>2, <2>3 DEF Authority
<1>7. ASSUME at \in DOMAIN Writing, RecordOk(RecordOf(Writing[at]))
      PROVE  /\ \E base \in Seq(Whole) :
                  /\ BeginsAt(base)
                  /\ Continues(entries', base, tx)
                  /\ Len(base) < Len(entries')
                  /\ at \in {"start", "record"} =>
                        \A i \in (Len(base) + 1)..Len(entries') :
                            ~Ended(entries'[i].rec) /\ entries'[i].rec.previous = previous.graph
             /\ Names(entries', IF at = "acknowledge" THEN {current.graph} ELSE {previous.graph})
             /\ \A i \in 1..Len(entries') : entries'[i].rec.tx <= tx
  <2> DEFINE e == EntryFor(RecordOf(Writing[at]))
  <2>1. at \notin {"idle", "down"}
    BY <1>7, StageNames
  <2>2. e \in Whole /\ e.rec = RecordOf(Writing[at]) /\ entries' = Append(entries, e)
    BY <1>7, <2>1, EntryOf, WritingStatus DEF RecordOk
  <2>3. PICK base \in Seq(Whole) : BeginsAt(base)
    BY <1>1, <2>1 DEF Authority
  <2>4. at = "acknowledge" => current.graph = desired
    BY <1>1 DEF Authority
  <2> HIDE DEF e
  <2> QED
    BY <1>7, <2>2, <2>3, <2>4, NamesAfterRecord
<1>8. CASE RecordStarted \/ RecordCompleted
  <2>1. /\ at \in {"start", "record"} /\ at' = "call" /\ RecordOk(RecordOf(Writing[at]))
        /\ tx' = tx /\ previous' = previous
    BY <1>1, <1>8 DEF RecordStarted, RecordCompleted, Recorded, Writing, txVars
  <2>2. at \in DOMAIN Writing
    BY <2>1, StageNames
  <2>3. PICK base \in Seq(Whole) :
          /\ BeginsAt(base)
          /\ Continues(entries', base, tx)
          /\ Len(base) < Len(entries')
          /\ \A i \in (Len(base) + 1)..Len(entries') :
                ~Ended(entries'[i].rec) /\ entries'[i].rec.previous = previous.graph
    BY <1>7, <2>1, <2>2
  <2>4. BeginsAt(base)'
    BY <2>1, <2>3, LenProperties DEF BeginsAt
  <2> QED
    BY <1>7, <2>1, <2>2, <2>4 DEF Authority
<1>9. CASE RecordCommitted \/ RecordRolledBack
  <2>1. /\ at \in {"acknowledge", "conclude"} /\ at' = "idle" /\ RecordOk(RecordOf(Writing[at]))
        /\ tx' = tx /\ current' = current
    BY <1>1, <1>9 DEF RecordCommitted, RecordRolledBack, Recorded, Finish, Writing
  <2>2. at \in DOMAIN Writing
    BY <2>1, StageNames
  <2>3. at = "conclude" => previous = current
    BY DEF IInv, Replaces
  <2>4. Names(entries', {current.graph})
    BY <1>7, <2>1, <2>2, <2>3
  <2> QED
    BY <1>7, <2>1, <2>2, <2>4 DEF Authority
<1>10. CASE Crash
  <2>1. /\ at # "down" /\ at' = "down" /\ tx' = tx /\ current' = current /\ previous' = previous
        /\ entries' = entries
    BY <1>10 DEF Crash, txVars, RecordError, journalVars
  <2>2. Names(entries, {current.graph, previous.graph})
    <3>1. CASE at = "idle"
      BY <1>1, <3>1 DEF Authority, Names
    <3>2. CASE at # "idle"
      BY <1>1, <2>1, <3>2, NamesUnderWay DEF Authority, Names
    <3> QED
      BY <3>1, <3>2
  <2>3. CASE Complete' = entries
    BY <1>2, <1>4, <2>1, <2>2, <2>3 DEF Authority
  <2>4. CASE disk' = disk
    BY <1>3, <2>1, <2>3, <2>4 DEF Complete
  <2>5. CASE at \in DOMAIN Writing /\ RecordError(RecordOf(Writing[at])) /\ disk' # disk
    <3> DEFINE e == EntryFor(RecordOf(Writing[at]))
    <3>1. at \notin {"idle", "down"}
      BY <2>5, StageNames
    <3>2. e \in Whole /\ e.rec = RecordOf(Writing[at])
      BY <2>5, <3>1, EntryOf, WritingStatus
    <3>3. disk' \in {Append(entries, Torn), Append(entries, e)}
      BY <1>2, <1>3, <2>1, <2>5, WriteBehindWhole DEF RecordError
    <3> HIDE DEF e
    <3>4. entries' \in Seq(Whole)
      BY <1>2, <2>1
    <3>5. CASE disk' = Append(entries, Torn)
      <4>1. Complete' = entries
        BY <2>1, <3>4, <3>5, CompleteCasesNext
      <4> QED
        BY <2>3, <4>1
    <3>6. CASE disk' = Append(entries, e)
      <4>1. Complete' = Append(entries, e)
        BY <2>1, <3>2, <3>4, <3>6, CompleteCasesNext
      <4>2. PICK base \in Seq(Whole) : BeginsAt(base)
        BY <1>1, <3>1 DEF Authority
      <4>3. at = "acknowledge" => current.graph = desired
        BY <1>1 DEF Authority
      <4>4. /\ Names(Append(entries, e), IF at = "acknowledge" THEN {current.graph} ELSE {previous.graph})
            /\ \A i \in 1..Len(Append(entries, e)) : Append(entries, e)[i].rec.tx <= tx
        BY <2>5, <3>2, <4>2, <4>3, NamesAfterRecord
      <4>5. Names(Append(entries, e), {current.graph, previous.graph})
        BY <4>4 DEF Names
      <4> QED
        BY <1>4, <2>1, <4>1, <4>4, <4>5 DEF Authority
    <3> QED
      BY <3>3, <3>5, <3>6
  <2> QED
    BY <1>10, <2>4, <2>5 DEF Crash, journalVars
<1>11. CASE Restart
  <2>1. /\ at = "down" /\ at' = "idle" /\ tx' = tx /\ entries' = Complete
        /\ current'.graph = Recovered(Complete)
    BY <1>11 DEF Restart, OpenJournal
  <2> QED
    BY <1>1, <2>1 DEF Authority, Names
<1> QED
  BY <1>5, <1>6, <1>8, <1>9, <1>10, <1>11, JournalEffects

\* With a recorder, a restart restores the graph that served: the current one,
\* or between a commit and its record the previous one, unless a later
\* transaction committed over an unfinished one.
THEOREM RecoveryIsAuthoritative == Durable => (Spec => []RecoveryFindsAuthority)
<1> SUFFICES ASSUME Durable PROVE Spec => []RecoveryFindsAuthority
  OBVIOUS
<1>1. Init => Kept /\ Authority
  <2> SUFFICES ASSUME Init PROVE Kept /\ Authority
    OBVIOUS
  <2>1. entries = <<>> /\ disk = <<>> /\ at = "idle"
    BY DEF Init, JournalInit
  <2>2. Kept
    BY <2>1, EmptySeq DEF Kept, Chained
  <2>3. entries \in Seq(Whole) /\ Len(entries) = 0
    BY <2>1, EmptySeq
  <2>4. Incomplete(entries) = {} /\ Committed(entries) = {}
    <3>1. Incomplete(entries) \in SUBSET (1..0) /\ Committed(entries) \in SUBSET (1..0)
      BY <2>3, Positions
    <3>2. 1..0 = {}
      OBVIOUS
    <3> QED
      BY <3>1, <3>2
  <2>5. Recovered(entries) = current.graph
    BY <2>4 DEF Recovered, Init
  <2> QED
    BY <2>1, <2>2, <2>3, <2>5 DEF Authority, Names
<1>2. IInv /\ Kept /\ Authority => RecoveryFindsAuthority
  <2> SUFFICES ASSUME IInv, Kept, Authority, faults = 0
               PROVE  Names(Complete, {current.graph} \cup
                            (IF at \in {"acknowledge", "down"} THEN {previous.graph} ELSE {}))
    BY DEF RecoveryFindsAuthority, Names, Overtaken
  <2>1. entries \in Seq(Whole)
    BY DEF IInv, TypeOK, JournalTypeOK
  <2>2. at # "down" => Complete = entries
    BY <2>1, CompleteCases DEF Kept
  <2>3. CASE at \in {"idle", "down"}
    BY <2>2, <2>3 DEF Authority, Names
  <2>4. CASE at \notin {"idle", "down"}
    <3>1. Names(entries, {previous.graph})
      BY <2>4, NamesUnderWay DEF Authority
    <3>2. at # "acknowledge" => previous = current
      BY <2>4 DEF IInv, Replaces
    <3> QED
      BY <2>2, <2>4, <3>1, <3>2 DEF Names
  <2> QED
    BY <2>3, <2>4
<1> QED
  BY <1>1, <1>2, KeptStep, AuthorityStep, DeploymentInvariant, PTL DEF Spec

============================================================================
