------------------------- MODULE DeploymentJournal -------------------------
(***************************************************************************)
(* FileJournal (internal/reconcile/file_journal.go): the hash-chained,     *)
(* append-only file in which the reconciler records every transition, and  *)
(* what RecoveryState reads from it after a restart.                       *)
(*                                                                         *)
(* The file is a sequence of lines.  A whole line is an entry; its hash is *)
(* a number no other entry has (it covers the time and the previous hash). *)
(* A torn line is the beginning of an entry without its newline, and a     *)
(* glued line is a torn one continued by the next append: it ends in a     *)
(* newline and is not JSON.                                                *)
(***************************************************************************)
EXTENDS Naturals, Sequences, SequencesExt

CONSTANTS
    Graph,          \* graph revisions
    InitialGraph,   \* the graph the host was configured with
    MaxTx           \* bound: transactions begun during a behaviour

ASSUME InitialGraphAssumption == InitialGraph \in Graph
ASSUME MaxTxAssumption == MaxTx \in Nat

VARIABLES
    disk,       \* the lines of the file
    entries,    \* FileJournal.entries
    hashes,     \* how many entries have been hashed
    failed      \* history: whether a Record of this process did not succeed

journalVars == <<disk, entries, hashes, failed>>

Status == {"started", "completed", "committed", "rolled_back"}
Record == [tx : 1..MaxTx, status : Status, previous : Graph, desired : Graph]
Whole == [kind : {"whole"}, seq : Nat, prev : Nat, hash : Nat, rec : Record]
Torn == [kind |-> "torn"]
Glued == [kind |-> "glued"]

lastHash == IF entries = <<>> THEN 0 ELSE Last(entries).hash

\* The entry Record builds for rec.
EntryFor(rec) ==
    [kind |-> "whole", seq |-> Len(entries) + 1, prev |-> lastHash,
     hash |-> hashes + 1, rec |-> rec]

\* Writing a line behind a torn one continues that line.
WriteLine(line) ==
    IF disk # <<>> /\ Last(disk) = Torn
    THEN Append(Front(disk), IF line = Torn THEN Torn ELSE Glued)
    ELSE Append(disk, line)

JournalInit == disk = <<>> /\ entries = <<>> /\ hashes = 0 /\ failed = FALSE

\* Record succeeds: the line is written and synced, then kept in memory.
RecordOk(rec) ==
    /\ disk' = WriteLine(EntryFor(rec))
    /\ entries' = Append(entries, EntryFor(rec))
    /\ hashes' = hashes + 1
    /\ UNCHANGED failed

\* Record does not succeed: Write fails before or in the middle of the line,
\* Sync fails after it, or the process dies in between.  The entry is not
\* kept in memory.
RecordError(rec) ==
    /\ disk' \in {disk, WriteLine(Torn), WriteLine(EntryFor(rec))}
    /\ hashes' = hashes + 1
    /\ failed' = TRUE
    /\ UNCHANGED entries

\* Opening the file: a torn last line is cut off ...
Complete == IF disk # <<>> /\ Last(disk) = Torn THEN Front(disk) ELSE disk

\* ... and every other line must continue the chain.
Intact ==
    /\ \A i \in DOMAIN Complete : Complete[i].kind = "whole"
    /\ \A i \in DOMAIN Complete :
          /\ Complete[i].seq = i
          /\ Complete[i].prev = IF i = 1 THEN 0 ELSE Complete[i - 1].hash

\* Faulty variant: the torn line is skipped and stays in the file.
OpenJournalUncut ==
    /\ Intact
    /\ entries' = Complete
    /\ failed' = FALSE
    /\ UNCHANGED <<disk, hashes>>

\* OpenFileJournal succeeds.
OpenJournal ==
    /\ Intact
    /\ disk' = Complete
    /\ entries' = Complete
    /\ failed' = FALSE
    /\ UNCHANGED hashes

----------------------------------------------------------------------------
(* RecoveryState of a loaded journal js *)

Terminal(js) ==
    {js[i].rec.tx : i \in {n \in DOMAIN js : js[n].rec.status \in {"committed", "rolled_back"}}}

\* The newest entry of every transaction without a terminal entry.
Incomplete(js) ==
    {i \in DOMAIN js :
        /\ js[i].rec.tx \notin Terminal(js)
        /\ \A n \in DOMAIN js : js[n].rec.tx = js[i].rec.tx => n <= i}

Committed(js) == {i \in DOMAIN js : js[i].rec.status = "committed"}

Newest(S) == CHOOSE i \in S : \A n \in S : n <= i
Oldest(S) == CHOOSE i \in S : \A n \in S : i <= n

\* Faulty variant: the scan keeps the first committed entry of the file.
LastCommittedOldest(js) == js[Oldest(Committed(js))].rec
LastCommitted(js) == js[Newest(Committed(js))].rec

\* The graph a host restores: the one an unfinished transaction started
\* from, else the last committed one, else the one it is configured with.
Recovered(js) ==
    IF Incomplete(js) # {} THEN js[Newest(Incomplete(js))].rec.previous
    ELSE IF Committed(js) # {} THEN LastCommitted(js).desired
    ELSE InitialGraph

JournalTypeOK ==
    /\ disk \in Seq(Whole \cup {Torn, Glued})
    /\ entries \in Seq(Whole)
    /\ hashes \in Nat
    /\ failed \in BOOLEAN

============================================================================
