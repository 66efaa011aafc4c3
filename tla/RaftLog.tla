------------------------------- MODULE RaftLog -------------------------------
(***************************************************************************)
(* The on-disk Raft log, raft/storage.go: a store file of records (a       *)
(* length, then the encoded entry) and an index file of 8-byte positions.  *)
(*                                                                         *)
(* A file is a sequence of words of the width of the length field.  A      *)
(* record is its length word followed by the words of its payload; an      *)
(* index entry is the high and the low word of a position.  A write may    *)
(* put down any prefix of its words before it fails or the process dies.   *)
(* r.mu is held through each operation, so nothing but a crash or a failed *)
(* call comes between two writes of one operation.                         *)
(***************************************************************************)
EXTENDS Integers, Sequences, FiniteSets

CONSTANTS Entry,        \* the entries raft.go appends
          Dummy,        \* the entry of term 0 that newRaftLog appends
          Size,         \* payload words of an entry
          TornErrors,   \* TRUE: a call that returns an error may have done part
          MaxWords      \* bound on the length of the store file

Record(e) == [w \in 1..(Size[e] + 1) |-> [entry |-> e, part |-> w - 1]]

\* One word no record is made of: what a write past the end of the file leaves
\* in the gap.  As a length it is 0, and an empty payload does not decode.
Gap == [entry |-> Dummy, part |-> -1]

\* Larger than every position: the weight of the high word of an index entry.
Wide == MaxWords + 1

ASSUME EntryAssumption == Dummy \notin Entry
ASSUME SizeAssumption == Size \in [Entry \cup {Dummy} -> Nat \ {0}]
ASSUME LogSwitchAssumption == TornErrors \in BOOLEAN
ASSUME WordsAssumption == MaxWords \in Nat /\ MaxWords >= Size[Dummy] + 1

VARIABLES store, index,     \* the words of log.store and log.index
          sOff, iOff,       \* the offsets the next Write of each file goes to
          sSize, count,     \* RaftLog.sSize and RaftLog.count
          open,             \* openRaftLog has returned, raft.go uses the log
          pc,               \* what the running operation does next
          arg               \* its argument: record length or truncate index

files == <<store, index>>
vars == <<store, index, sOff, iOff, sSize, count, open, pc, arg>>

Words == UNION {{[entry |-> e, part |-> k] : k \in 0..Size[e]}
                  : e \in Entry \cup {Dummy}}

-----------------------------------------------------------------------------
(***************************************************************************)
(* Files.                                                                  *)
(***************************************************************************)
\* The file after words w are written at offset off.
WriteAt(f, off, w, gap) ==
    LET end == IF off + Len(w) > Len(f) THEN off + Len(w) ELSE Len(f)
    IN  [i \in 1..end |-> IF i \in (off + 1)..(off + Len(w)) THEN w[i - off]
                          ELSE IF i <= Len(f) THEN f[i] ELSE gap]

Cut(f, n) == SubSeq(f, 1, n)

\* Mutant of IndexEntry: the position before the record.
IndexEntryBefore(position) == <<0, position - 1>>

IndexEntry(position) == <<0, position>>

\* getPosition: the i-th index entry (from 0) read back as a position.
Position(f, i) == f[2 * i + 1] * Wide + f[2 * i + 2]

\* validateRecord, readAtPosition: a whole record starts at the position.
\* A record torn in two and overlaid by another is counted as undecodable.
ValidRecord(f, position) ==
    /\ position < Len(f)
    /\ f[position + 1].part = 0
    /\ position + Size[f[position + 1].entry] + 1 <= Len(f)
    /\ \A k \in 1..Size[f[position + 1].entry] :
          f[position + 1 + k] = [entry |-> f[position + 1].entry, part |-> k]

EntryAt(f, position) == f[position + 1].entry
EndOf(f, position) == position + 1 + Size[EntryAt(f, position)]

\* Mutant of Kept: the loop ends one index entry too early.
KeptButLast(s, x) ==
    LET n == Len(x) \div 2
        Good(k) == \A i \in 0..(k - 1) : ValidRecord(s, Position(x, i))
    IN  IF n = 0 THEN 0
        ELSE CHOOSE k \in 0..(n - 1) : Good(k) /\ (k < n - 1 => ~Good(k + 1))

\* The number of leading index entries whose record is whole: the loop of
\* recover, which stops at the first that is not.
Kept(s, x) ==
    LET n == Len(x) \div 2
        Good(k) == \A i \in 0..(k - 1) : ValidRecord(s, Position(x, i))
    IN  CHOOSE k \in 0..n : Good(k) /\ (k < n => ~Good(k + 1))

\* What recover would make of the two files.
Recovered ==
    [i \in 1..Kept(store, index) |-> EntryAt(store, Position(index, i - 1))]

\* Get(i): the entry, or an error.
Unreadable == "unreadable"
ASSUME UnreadableAssumption == Unreadable \notin Entry \cup {Dummy}
Get(i) ==
    IF /\ 2 * i + 2 <= Len(index)
       /\ ValidRecord(store, Position(index, i))
    THEN EntryAt(store, Position(index, i))
    ELSE Unreadable

\* What raft.go reads through Get, GetRange and LastTerm.
View == [i \in 1..count |-> Get(i - 1)]

-----------------------------------------------------------------------------
Init ==
    /\ store = <<>> /\ index = <<>>
    /\ sOff = 0 /\ iOff = 0
    /\ sSize = 0 /\ count = 0
    /\ open = FALSE
    /\ pc = "down" /\ arg = 0

\* An error goes back to raft.go, which keeps using the log; in newRaftLog it
\* makes openRaftLog fail, and the process ends.
AfterError == IF open THEN "idle" ELSE "down"

(***************************************************************************)
(* recover, in two steps because the process may die between the two       *)
(* truncations: first the index loses its invalid tail, then the store.    *)
(***************************************************************************)
RecoverIndex ==
    /\ pc = "down"
    /\ arg' = IF Kept(store, index) = 0 THEN 0
              ELSE EndOf(store, Position(index, Kept(store, index) - 1))
    /\ index' = Cut(index, 2 * Kept(store, index))
    /\ pc' = "recover"
    /\ UNCHANGED <<store, sOff, iOff, sSize, count, open>>

RecoverStore ==
    /\ pc = "recover"
    /\ store' = Cut(store, arg)
    /\ sSize' = arg
    /\ sOff' = arg
    /\ count' = Len(index) \div 2
    /\ iOff' = Len(index)
    /\ open' = (count' > 0)
    /\ pc' = IF count' > 0 THEN "idle" ELSE "dummy"
    /\ arg' = 0
    /\ UNCHANGED <<index>>

\* newRaftLog syncs both files after it has appended the dummy.
Sync ==
    /\ pc = "sync"
    /\ open' = TRUE
    /\ pc' = "idle"
    /\ UNCHANGED <<store, index, sOff, iOff, sSize, count, arg>>

\* How many of n words a failing call may have written.
Done(n) == IF TornErrors THEN 0..n ELSE {0}

(***************************************************************************)
(* Append, its two writes.                                                 *)
(***************************************************************************)
MayAppend(e) ==
    /\ \/ pc = "idle" /\ e \in Entry
       \/ pc = "dummy" /\ e = Dummy
    /\ sOff + Size[e] + 1 <= MaxWords

AppendStore(e) ==
    /\ MayAppend(e)
    /\ store' = WriteAt(store, sOff, Record(e), Gap)
    /\ sOff' = sOff + Size[e] + 1
    /\ arg' = Size[e] + 1
    /\ pc' = "index"
    /\ UNCHANGED <<index, iOff, sSize, count, open>>

AppendIndex ==
    /\ pc = "index"
    /\ index' = WriteAt(index, iOff, IndexEntry(sSize), 0)
    /\ iOff' = iOff + 2
    /\ sSize' = sSize + arg
    /\ count' = count + 1
    /\ pc' = IF open THEN "idle" ELSE "sync"
    /\ arg' = 0
    /\ UNCHANGED <<store, sOff, open>>

\* The store write fails: Append returns, nothing is put back, and the words
\* that were written, and the offset they moved, stay.
AppendStoreFails(e, k) ==
    /\ MayAppend(e)
    /\ store' = WriteAt(store, sOff, SubSeq(Record(e), 1, k), Gap)
    /\ sOff' = sOff + k
    /\ pc' = AfterError
    /\ UNCHANGED <<index, iOff, sSize, count, open, arg>>

\* Mutant of AppendIndexFails: the record stays behind in the store.
AppendIndexFailsNoRollback(k) ==
    /\ pc = "index"
    /\ index' = WriteAt(index, iOff, SubSeq(IndexEntry(sSize), 1, k), 0)
    /\ iOff' = iOff + k
    /\ pc' = AfterError
    /\ arg' = 0
    /\ UNCHANGED <<store, sOff, sSize, count, open>>

\* The index write fails: the store is put back to where the record began,
\* the index is not.
AppendIndexFails(k) ==
    /\ pc = "index"
    /\ index' = WriteAt(index, iOff, SubSeq(IndexEntry(sSize), 1, k), 0)
    /\ iOff' = iOff + k
    /\ store' = Cut(store, sSize)
    /\ sOff' = sSize
    /\ pc' = AfterError
    /\ arg' = 0
    /\ UNCHANGED <<sSize, count, open>>

(***************************************************************************)
(* TruncateFrom(i), its two truncations.  raft.go asks for 1 <= i < count; *)
(* the early returns for other arguments change nothing.                   *)
(***************************************************************************)
TruncateStore(i) ==
    /\ pc = "idle"
    /\ i \in 1..(count - 1)
    /\ store' = Cut(store, Position(index, i))
    /\ arg' = i
    /\ pc' = "truncate"
    /\ UNCHANGED <<index, sOff, iOff, sSize, count, open>>

\* When the second truncation fails, the store is already cut while sSize,
\* count and both offsets stay what they were.
TruncateIndex(done) ==
    /\ pc = "truncate"
    /\ IF done
       THEN /\ sSize' = Position(index, arg)
            /\ sOff' = Position(index, arg)
            /\ index' = Cut(index, 2 * arg)
            /\ iOff' = 2 * arg
            /\ count' = arg
       ELSE UNCHANGED <<index, sOff, iOff, sSize, count>>
    /\ pc' = "idle"
    /\ arg' = 0
    /\ UNCHANGED <<store, open>>

(***************************************************************************)
(* The process dies; the files keep what was written to them.  (What a     *)
(* power loss leaves is another matter: Append never syncs.)               *)
(***************************************************************************)
Die(s, x) ==
    /\ store' = s
    /\ index' = x
    /\ sOff' = 0 /\ iOff' = 0
    /\ sSize' = 0 /\ count' = 0
    /\ open' = FALSE
    /\ pc' = "down" /\ arg' = 0

Crash == pc # "down" /\ Die(store, index)

CrashInStoreWrite(e, k) ==
    /\ MayAppend(e)
    /\ Die(WriteAt(store, sOff, SubSeq(Record(e), 1, k), Gap), index)

CrashInIndexWrite ==
    /\ pc = "index"
    /\ Die(store, WriteAt(index, iOff, SubSeq(IndexEntry(sSize), 1, 1), 0))

-----------------------------------------------------------------------------
Next ==
    \/ RecoverIndex
    \/ RecoverStore
    \/ Sync
    \/ \E e \in Entry \cup {Dummy} : AppendStore(e)
    \/ AppendIndex
    \/ \E e \in Entry \cup {Dummy} : \E k \in Done(Size[e]) : AppendStoreFails(e, k)
    \/ \E k \in Done(1) : AppendIndexFails(k)
    \/ \E i \in 1..(count - 1) : TruncateStore(i)
    \/ \E done \in {TRUE, ~TornErrors} : TruncateIndex(done)
    \/ Crash
    \/ \E e \in Entry \cup {Dummy} : \E k \in 1..Size[e] : CrashInStoreWrite(e, k)
    \/ CrashInIndexWrite

Spec == Init /\ [][Next]_vars
-----------------------------------------------------------------------------
(***************************************************************************)
(* Correctness.                                                            *)
(***************************************************************************)
\* Every variable has the type of the field or file it stands for.
TypeOK ==
    /\ store \in Seq(Words \cup {Gap})
    /\ index \in Seq(Nat)
    /\ sOff \in Nat /\ iOff \in Nat
    /\ sSize \in Nat /\ count \in Nat
    /\ open \in BOOLEAN
    /\ pc \in {"down", "recover", "dummy", "index", "sync", "idle", "truncate"}
    /\ arg \in Nat

\* Between two operations the memory and the files of an open log agree: the
\* next record goes where sSize says, the index has one entry per counted
\* record, the records follow each other without a gap, and every entry that
\* Append has acknowledged can be read back (Append, TruncateFrom and recover
\* each restore this, storage.go:109-156, 314-368, 387-470).
Tiled ==
    LET end(i) == IF i = count THEN sSize ELSE Position(index, i)
    IN  \A i \in 0..(count - 1) :
            /\ ValidRecord(store, Position(index, i))
            /\ EndOf(store, Position(index, i)) = end(i + 1)
FilesAgree ==
    pc = "idle" => /\ sSize = Len(store) /\ sOff = sSize
                   /\ 2 * count = Len(index) /\ iOff = Len(index)
                   /\ count > 0 /\ Position(index, 0) = 0
                   /\ Tiled

\* The files and the crashes implement the durable log: what raft.go reads
\* between two operations, and what recover finds after a crash at any point
\* of Append, TruncateFrom or recover itself, is one sequence of entries that
\* only Append and TruncateFrom change.
Durable == INSTANCE DurableLog
             WITH content <- IF pc = "idle" THEN View ELSE Recovered
ImplementsDurableLog == Durable!Spec

-----------------------------------------------------------------------------
(* The inductive invariant behind these properties, when a call that       *)
(* returns an error has done nothing (TornErrors = FALSE).                 *)

\* Where the first n records end.
EndOfFirst(s, x, n) == IF n = 0 THEN 0 ELSE EndOf(s, Position(x, n - 1))

\* The first n index entries of x name n whole records of s, each beginning
\* where the one before it ends.
Laid(s, x, n) ==
    /\ 2 * n <= Len(x)
    /\ \A i \in 0..(n - 1) :
          ValidRecord(s, Position(x, i)) /\ Position(x, i) = EndOfFirst(s, x, i)
    /\ \A i, j \in 0..n : i <= j => EndOfFirst(s, x, i) <= EndOfFirst(s, x, j)

\* recover keeps n records of the files.
Recovers(s, x, n) ==
    /\ Laid(s, x, n)
    /\ 2 * n + 2 <= Len(x) => ~ValidRecord(s, Position(x, n))

\* The index has an entry for each counted record, and the next goes behind it.
Counted ==
    /\ Len(index) = 2 * count /\ iOff = Len(index)
    /\ Laid(store, index, count) /\ sSize = EndOfFirst(store, index, count)

\* After a crash recover finds whole records; while it runs, and between any two
\* writes of an operation, the records that count lie in front of everything
\* else, and only the store is ever ahead.
LogInv ==
    /\ pc = "down" => ~open /\ \E n \in 0..Len(index) : Recovers(store, index, n)
    /\ pc = "recover" => /\ ~open /\ Len(index) = 2 * (Len(index) \div 2)
                         /\ Laid(store, index, Len(index) \div 2)
                         /\ arg = EndOfFirst(store, index, Len(index) \div 2)
    /\ pc = "dummy" => ~open /\ count = 0 /\ store = <<>>
    /\ pc = "sync" => ~open /\ count = 1
    /\ pc = "idle" => open /\ count > 0
    /\ pc \in {"dummy", "sync", "idle"} =>
          Counted /\ sSize = Len(store) /\ sOff = Len(store)
    /\ pc = "index" => /\ Counted /\ sSize + arg = Len(store) /\ sOff = Len(store)
                       /\ ValidRecord(store, sSize) /\ EndOf(store, sSize) = Len(store)
                       /\ IF open THEN count > 0 /\ EntryAt(store, sSize) \in Entry
                          ELSE count = 0 /\ EntryAt(store, sSize) = Dummy
    /\ pc = "truncate" => /\ open /\ Len(index) = 2 * count /\ arg \in 1..(count - 1)
                          /\ Laid(store, index, arg) /\ Position(index, arg) = Len(store)
                          /\ EndOfFirst(store, index, arg) = Len(store)
=============================================================================
