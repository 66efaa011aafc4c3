--------------------------------- MODULE Wal ---------------------------------
(***************************************************************************)
(* The write-ahead log of one partition, wal/log: segments of a store file *)
(* (records) and an index file (their positions), each written through a   *)
(* bufio.Writer, so that what was appended reaches the files later than it *)
(* reaches memory.                                                         *)
(*                                                                         *)
(* Files are sequences of 4-byte words.  A store record is a header word   *)
(* and the words of its value; an index entry is the relative offset and   *)
(* the high and low word of a position.  The records come from the apply   *)
(* loop of the partition: the one for Raft index n + 1 is n, the offset it *)
(* should get.  After a restart Raft applies again from NextOffset on.     *)
(***************************************************************************)
EXTENDS Integers, Sequences, FiniteSets, Functions

CONSTANTS Reader,       \* goroutines that may be in wal.read together
          ValueWords,   \* words of the value of a record
          MaxStore,     \* maxStoreBytes: a segment this long is full
          StoreBuf, IndexBuf,   \* capacities of the two bufio.Writers
          Unclean,      \* TRUE: the process may die without a shutdown, and
                        \* records may be applied behind a shutdown's close
          MaxRecords    \* bound on the records Raft applies

Offset == 0..(MaxRecords - 1)

ASSUME ValueAssumption == ValueWords \in [Offset -> Nat]
ASSUME CapacityAssumption == /\ MaxStore \in Nat \ {0}
                             /\ StoreBuf \in Nat \ {0} /\ IndexBuf \in Nat \ {0}
ASSUME UncleanAssumption == Unclean \in BOOLEAN
ASSUME RecordsAssumption == MaxRecords \in Nat \ {0}

VARIABLES disk,     \* base offset -> the files of that segment
          segs,     \* wal.segments; the last one is wal.active
          applied,  \* raft.lastApplied of the partition
          deleted,  \* history: the offsets of the segments retention removed
          unclean,  \* history: it has happened that the process died without
                    \* a shutdown, or applied records behind the close
          todo,     \* flushes the holder of w.mu still has to do
          reading,  \* reader -> where it is in wal.read
          pc        \* "down", "up", "flush", "close", or "late": a record was
                    \* applied behind the close, to a segment made for it

vars == <<disk, segs, applied, deleted, unclean, todo, reading, pc>>

Record(n) == [w \in 1..(ValueWords[n] + 1) |-> [rec |-> n, part |-> w - 1]]
Wide == 1 + MaxRecords * (1 + MaxStore)     \* above every position
IndexEntry(rel, position) == <<rel, 0, position>>

-----------------------------------------------------------------------------
(***************************************************************************)
(* bufio.Writer: buf holds what the file does not have yet; a write that   *)
(* does not fit fills the buffer, sends it down, and keeps the rest, or    *)
(* goes to the file directly when the buffer is empty.                     *)
(***************************************************************************)
BufWrite(f, w, cap) ==
    LET room == cap - Len(f.buf)
        rest == SubSeq(w, room + 1, Len(w))
    IN  IF Len(w) <= room
        THEN [file |-> f.file, buf |-> f.buf \o w]
        ELSE IF f.buf = <<>>
        THEN [file |-> f.file \o w, buf |-> <<>>]
        ELSE LET sent == f.file \o f.buf \o SubSeq(w, 1, room)
             IN  IF Len(rest) <= cap THEN [file |-> sent, buf |-> rest]
                 ELSE [file |-> sent \o rest, buf |-> <<>>]

\* All that was written, whether or not it has reached the file.
Written(f) == f.file \o f.buf

\* logStore.Append: the header and the value.
StoreAppend(f, n) ==
    BufWrite(BufWrite(f, SubSeq(Record(n), 1, 1), StoreBuf),
             SubSeq(Record(n), 2, Len(Record(n))), StoreBuf)

\* index.Write: the relative offset and the position.
IndexWrite(f, rel, position) ==
    BufWrite(BufWrite(f, SubSeq(IndexEntry(rel, position), 1, 1), IndexBuf),
             SubSeq(IndexEntry(rel, position), 2, 3), IndexBuf)

\* The files of a new segment: store, index, and the meta file, which is made
\* and then written.  A removed file lives on for those who have it open.
NewFiles == [store |-> <<>>, index |-> <<>>, meta |-> "written",
             expired |-> FALSE, linked |-> TRUE]
Linked == {b \in DOMAIN disk : disk[b].linked}

\* Mutants of OpenSegment: positions start at 0 again; the records in the index
\* are not counted; words are counted for entries.
OpenAtZero(b, f) ==
    [base |-> b, next |-> b + Len(f.index) \div 3, size |-> 0,
     sbuf |-> <<>>, ibuf |-> <<>>]
OpenAsEmpty(b, f) ==
    [base |-> b, next |-> b, size |-> Len(f.store), sbuf |-> <<>>, ibuf |-> <<>>]
OpenCountingWords(b, f) ==
    [base |-> b, next |-> b + Len(f.index), size |-> Len(f.store),
     sbuf |-> <<>>, ibuf |-> <<>>]

\* newSegment on the files of base b: nextOff from the size of the index file,
\* the position of the next record from the size of the store file.
OpenSegment(b, f) ==
    [base |-> b, next |-> b + Len(f.index) \div 3, size |-> Len(f.store),
     sbuf |-> <<>>, ibuf |-> <<>>]

Store(s) == [file |-> disk[s.base].store, buf |-> s.sbuf]
Index(s) == [file |-> disk[s.base].index, buf |-> s.ibuf]

Active == Len(segs)
NextOffset == segs[Active].next
IsMaxed(s) == s.size >= MaxStore
NoReader == \A r \in Reader : reading[r].at = "idle"

-----------------------------------------------------------------------------
Init ==
    /\ disk = <<>>
    /\ segs = <<>>
    /\ applied = 0
    /\ deleted = {}
    /\ unclean = FALSE
    /\ todo = <<>>
    /\ reading = [r \in Reader |-> [at |-> "idle", seg |-> 0]]
    /\ pc = "down"

\* The numbers in S, the smallest first.
InOrder(S) == [i \in 1..Cardinality(S) |->
                  CHOOSE x \in S : Cardinality({y \in S : y <= x}) = i]

\* newWAL, then SetLastApplied(wal.NextOffset()) in newPartition.
Opened(d) ==
    LET bases == InOrder(DOMAIN d)
    IN  [i \in 1..Len(bases) |-> OpenSegment(bases[i], d[bases[i]])]

\* Unmarshal fails on a meta file without contents, newSegment and newWAL with
\* it: the broker does not start.
Openable == \A b \in DOMAIN disk : disk[b].meta # "empty"

newWALFails == pc = "down" /\ ~Openable /\ UNCHANGED vars

\* Mutant of newWAL: existing files are opened with O_TRUNC.
newWALTruncating ==
    /\ pc = "down"
    /\ Openable
    /\ disk' = [b \in DOMAIN disk \cup {0} |-> NewFiles]
    /\ segs' = Opened(disk')
    /\ applied' = segs'[Len(segs')].next
    /\ pc' = "up"
    /\ UNCHANGED <<deleted, unclean, todo, reading>>

newWAL ==
    /\ pc = "down"
    /\ Openable
    /\ disk' = IF DOMAIN disk = {} THEN [b \in {0} |-> NewFiles]
               ELSE [b \in DOMAIN disk |-> [disk[b] EXCEPT !.meta = "written"]]
    /\ segs' = Opened(disk')
    /\ applied' = segs'[Len(segs')].next
    /\ pc' = "up"
    /\ UNCHANGED <<deleted, unclean, todo, reading>>

\* rotate: a segment of its own for the next offset, behind the full one,
\* whose buffers stay as they are.
Rotated(b) ==
    IF b \in DOMAIN disk THEN disk
    ELSE [c \in DOMAIN disk \cup {b} |->
             IF c = b THEN NewFiles ELSE disk[c]]

Grown == IF IsMaxed(segs[Active])
         THEN Append(segs, OpenSegment(NextOffset, Rotated(NextOffset)[NextOffset]))
         ELSE segs
GrownDisk == IF IsMaxed(segs[Active]) THEN Rotated(NextOffset) ELSE disk

\* Shutdown does not stop the apply loop: between Topic.Close and the end of
\* the process it may append.
Behind == Unclean /\ pc \in {"close", "late"} /\ todo = <<>>
MayAppend == \/ pc = "up" /\ NoReader
             \/ Behind /\ (pc = "late" \/ IsMaxed(segs[Active]))

\* wal.append of the next record Raft applies: rotate when the active segment
\* is full, then store record, index entry and nextOff++ (segment.Append).
append ==
    LET n == Len(Grown)
        a == Grown[n]
        s == StoreAppend([file |-> GrownDisk[a.base].store, buf |-> a.sbuf], applied)
        x == IndexWrite([file |-> GrownDisk[a.base].index, buf |-> a.ibuf],
                        a.next - a.base, a.size)
    IN  /\ MayAppend
        /\ applied < MaxRecords
        /\ disk' = [GrownDisk EXCEPT ![a.base].store = s.file,
                                     ![a.base].index = x.file]
        /\ segs' = [Grown EXCEPT ![n].sbuf = s.buf, ![n].ibuf = x.buf,
                                 ![n].size = @ + Len(Record(applied)),
                                 ![n].next = @ + 1]
        /\ applied' = applied + 1
        /\ pc' = IF pc = "up" THEN "up" ELSE "late"
        /\ unclean' = (unclean \/ pc # "up")
        /\ UNCHANGED <<deleted, todo, reading>>

\* The same on a segment whose files are closed: the store ignores that it
\* cannot write, the index only has the room that is left in its buffer.
appendClosed ==
    LET a == segs[Active]
        fits == Len(a.ibuf) + 3 <= IndexBuf
    IN  /\ Behind /\ pc = "close" /\ ~IsMaxed(a)
        /\ applied < MaxRecords
        /\ segs' = [segs EXCEPT ![Active].size = @ + Len(Record(applied)),
                                ![Active].next = IF fits THEN @ + 1 ELSE @,
                                ![Active].ibuf = IF fits THEN @ \o IndexEntry(a.next - a.base, a.size)
                                                 ELSE @]
        /\ applied' = applied + 1
        /\ unclean' = TRUE
        /\ UNCHANGED <<disk, deleted, todo, reading, pc>>

(***************************************************************************)
(* Flushing, one bufio.Flush per step: the process may die in between.     *)
(***************************************************************************)
FlushOf(i) == <<[seg |-> i, what |-> "index"], [seg |-> i, what |-> "store"]>>

\* wal.flush, every 30 seconds: the active segment only, its index first.
flush == /\ pc = "up" /\ NoReader
         /\ todo' = FlushOf(Active)
         /\ pc' = "flush"
         /\ UNCHANGED <<disk, segs, applied, deleted, unclean, reading>>

\* Mutant of close: only the active segment is flushed.
closeActiveOnly ==
    /\ pc = "up" /\ NoReader
    /\ todo' = FlushOf(Active)
    /\ pc' = "close"
    /\ UNCHANGED <<disk, segs, applied, deleted, unclean, reading>>

\* wal.close on shutdown: the active segment, then every segment.
close == /\ pc = "up" /\ NoReader
         /\ todo' = FlushOf(Active) \o [k \in 1..(2 * Len(segs)) |->
                                           FlushOf((k + 1) \div 2)[2 - (k % 2)]]
         /\ pc' = "close"
         /\ UNCHANGED <<disk, segs, applied, deleted, unclean, reading>>

SendStore(i) == [disk EXCEPT ![segs[i].base].store = @ \o segs[i].sbuf]
SendIndex(i) == [disk EXCEPT ![segs[i].base].index = @ \o segs[i].ibuf]

FlushStep ==
    /\ pc \in {"flush", "close"}
    /\ todo # <<>>
    /\ LET i == Head(todo).seg
       IN  IF Head(todo).what = "index"
           THEN /\ disk' = SendIndex(i)
                /\ segs' = [segs EXCEPT ![i].ibuf = <<>>]
           ELSE /\ disk' = SendStore(i)
                /\ segs' = [segs EXCEPT ![i].sbuf = <<>>]
    /\ todo' = Tail(todo)
    /\ UNCHANGED <<applied, deleted, unclean, reading, pc>>

FlushDone ==
    /\ pc = "flush" /\ todo = <<>>
    /\ pc' = "up"
    /\ UNCHANGED <<disk, segs, applied, deleted, unclean, todo, reading>>

\* The process has shut down, or has died: memory is gone.
MemoryGone == /\ segs' = <<>>
              /\ applied' = 0
              /\ todo' = <<>>
              /\ reading' = [r \in Reader |-> [at |-> "idle", seg |-> 0]]
              /\ pc' = "down"
              /\ UNCHANGED deleted
Gone == MemoryGone /\ disk' = [b \in Linked |-> disk[b]]

Closed == pc \in {"close", "late"} /\ todo = <<>> /\ Gone /\ UNCHANGED unclean
Crash == Unclean /\ pc # "down" /\ Gone /\ unclean' = TRUE

\* newWAL, or rotate in an append, may be opening the segment of base b, and
\* finds these files there.
Opening(b) ==
    \/ pc = "down" /\ Openable /\ b \in DOMAIN disk
    \/ pc = "down" /\ DOMAIN disk = {} /\ b = 0
    \/ pc # "down" /\ MayAppend /\ applied < MaxRecords /\ IsMaxed(segs[Active]) /\ b = NextOffset
FilesAt(b) == IF b \in DOMAIN disk THEN disk[b] ELSE [NewFiles EXCEPT !.meta = "none"]

\* Mutant of Unfinished: the meta file is written anew on every opening.
UnfinishedRewrites(f) == {f, [f EXCEPT !.meta = "empty"]}

\* What newSegment leaves of files f when the process dies in it: a meta file
\* that is there is only read, one that is missing is made before it is
\* written.
Unfinished(f) == IF f.meta = "none" THEN {f, [f EXCEPT !.meta = "empty"]} ELSE {f}

CrashOpening ==
    /\ Unclean
    /\ \E b \in 0..MaxRecords : \E f \in Unfinished(FilesAt(b)) :
          /\ Opening(b)
          /\ disk' = [d \in Linked \cup {b} |-> IF d = b THEN f ELSE disk[d]]
    /\ MemoryGone
    /\ unclean' = TRUE

-----------------------------------------------------------------------------
(***************************************************************************)
(* wal.read(offset), under the read lock, which several readers may hold:  *)
(* index.Read flushes the index buffer and reads the position, then        *)
(* logStore.Read flushes the store buffer and reads the record.  A flush   *)
(* first writes what the buffer holds, then empties it.                    *)
(***************************************************************************)
\* The parts of wal.segments the binary search narrows down: low and high.
Spans == (1..(Len(segs) + 1)) \X (0..Len(segs))

\* Mutant of findSegment: the offset just past a segment is taken for its own.
findSegmentPastEnd(offset) ==
    LET search[span \in Spans] ==
          LET low == span[1]
              high == span[2]
              mid == (low + high) \div 2
          IN  IF low > high THEN 0
              ELSE IF offset < segs[mid].base THEN search[<<low, mid - 1>>]
              ELSE IF offset > segs[mid].next THEN search[<<mid + 1, high>>]
              ELSE mid
    IN  search[<<1, Len(segs)>>]

findSegment(offset) ==
    LET search[span \in Spans] ==
          LET low == span[1]
              high == span[2]
              mid == (low + high) \div 2
          IN  IF low > high THEN 0
              ELSE IF offset < segs[mid].base THEN search[<<low, mid - 1>>]
              ELSE IF offset >= segs[mid].next THEN search[<<mid + 1, high>>]
              ELSE mid
    IN  search[<<1, Len(segs)>>]

ReadBegin(r, offset) ==
    /\ pc = "up"
    /\ reading[r].at = "idle"
    /\ \E i \in 1..Len(segs) :
          /\ findSegment(offset) = i
          /\ reading' = [reading EXCEPT ![r] = [at |-> "index", seg |-> i]]
    /\ UNCHANGED <<disk, segs, applied, deleted, unclean, todo, pc>>

ReadWritesIndex(r) ==
    /\ reading[r].at = "index"
    /\ disk' = SendIndex(reading[r].seg)
    /\ reading' = [reading EXCEPT ![r].at = "indexSent"]
    /\ UNCHANGED <<segs, applied, deleted, unclean, todo, pc>>

ReadEmptiesIndex(r) ==
    /\ reading[r].at = "indexSent"
    /\ segs' = [segs EXCEPT ![reading[r].seg].ibuf = <<>>]
    /\ reading' = [reading EXCEPT ![r].at = "store"]
    /\ UNCHANGED <<disk, applied, deleted, unclean, todo, pc>>

ReadWritesStore(r) ==
    /\ reading[r].at = "store"
    /\ disk' = SendStore(reading[r].seg)
    /\ reading' = [reading EXCEPT ![r].at = "storeSent"]
    /\ UNCHANGED <<segs, applied, deleted, unclean, todo, pc>>

ReadEnd(r) ==
    /\ reading[r].at = "storeSent"
    /\ segs' = [segs EXCEPT ![reading[r].seg].sbuf = <<>>]
    /\ reading' = [reading EXCEPT ![r] = [at |-> "idle", seg |-> 0]]
    /\ UNCHANGED <<disk, applied, deleted, unclean, todo, pc>>

(***************************************************************************)
(* Retention.                                                              *)
(***************************************************************************)
\* The clock passes the ExpireAt of a segment's meta file.
Expire(b) ==
    /\ b \in DOMAIN disk
    /\ ~disk[b].expired
    /\ disk' = [disk EXCEPT ![b].expired = TRUE]
    /\ UNCHANGED <<segs, applied, deleted, unclean, todo, reading, pc>>

\* Every expired segment but the active one is closed and loses its files.
\* One step: a death between two segments leaves what this step leaves when
\* only the first ones have expired yet, followed by Crash; a segment whose
\* store file is gone is not found by newWAL, whatever else is left of it.
Stays(s) == s = segs[Active] \/ ~disk[s.base].expired

deleteExpiredSegments ==
    LET gone == {s \in Range(segs) : ~Stays(s)}
        bases == {s.base : s \in gone}
        remaining == InOrder({i \in 1..Len(segs) : Stays(segs[i])})
    IN  /\ pc = "up" /\ NoReader
        /\ gone # {}
        /\ segs' = [k \in 1..Len(remaining) |-> segs[remaining[k]]]
        /\ disk' = [b \in (Linked \ bases) \cup {s.base : s \in Range(segs')} |->
                       [disk[b] EXCEPT !.linked = @ /\ b \notin bases]]
        /\ deleted' = deleted \cup UNION {s.base..(s.next - 1) : s \in gone}
        /\ UNCHANGED <<applied, unclean, todo, reading, pc>>

-----------------------------------------------------------------------------
Next ==
    \/ newWAL
    \/ newWALFails
    \/ append
    \/ appendClosed
    \/ flush
    \/ close
    \/ FlushStep
    \/ FlushDone
    \/ Closed
    \/ Crash
    \/ CrashOpening
    \/ \E r \in Reader, offset \in Offset : ReadBegin(r, offset)
    \/ \E r \in Reader : ReadWritesIndex(r)
    \/ \E r \in Reader : ReadEmptiesIndex(r)
    \/ \E r \in Reader : ReadWritesStore(r)
    \/ \E r \in Reader : ReadEnd(r)
    \/ \E b \in DOMAIN disk : Expire(b)
    \/ deleteExpiredSegments

Spec == Init /\ [][Next]_vars

-----------------------------------------------------------------------------
(***************************************************************************)
(* Correctness.                                                            *)
(***************************************************************************)
\* Every variable has the type of the field or file it stands for.
TypeOK ==
    /\ DOMAIN disk \subseteq 0..MaxRecords
    /\ \A i \in 1..Len(segs) :
          /\ segs[i].base \in DOMAIN disk
          /\ segs[i].next \in Nat /\ segs[i].size \in Nat
    /\ applied \in 0..MaxRecords
    /\ deleted \subseteq Offset
    /\ unclean \in BOOLEAN
    /\ pc \in {"down", "up", "flush", "close", "late"}
    /\ \A r \in Reader :
          reading[r].at \in {"idle", "index", "indexSent", "store", "storeSent"}

\* segment.Read over given contents of the store and the index: the record the
\* index entry points to, or none.
None == -1
RecordFound(store, index, rel) ==
    LET position == index[3 * rel + 2] * Wide + index[3 * rel + 3]
        header == store[position + 1]
    IN  IF /\ 3 * rel + 3 <= Len(index)
           /\ position < Len(store)
           /\ header.part = 0
           /\ position + 1 + ValueWords[header.rec] <= Len(store)
           /\ \A k \in 1..ValueWords[header.rec] :
                 store[position + 1 + k] = [rec |-> header.rec, part |-> k]
        THEN header.rec
        ELSE None

\* What wal.read(offset) returns.
Lookup(offset) ==
    LET i == findSegment(offset)
    IN  IF i = 0 THEN None
        ELSE RecordFound(Written(Store(segs[i])), Written(Index(segs[i])),
                         offset - segs[i].base)

Serving == pc = "up" /\ NoReader

\* As long as every process that had the log open shut down in an orderly way,
\* every offset below NextOffset reads back the record Raft applied for it,
\* unless retention has removed its segment: through buffers that spill,
\* flushes, rotations, shutdowns and reopening (wal.go:27-190).
EveryOffsetReadsBack ==
    Serving /\ ~unclean => \A offset \in 0..(NextOffset - 1) :
                  Lookup(offset) = offset \/ offset \in deleted

\* No offset below NextOffset is missing: one of the segments covers it, unless
\* retention has removed it.
NoGap ==
    Serving => \A offset \in 0..(NextOffset - 1) :
                  findSegment(offset) # 0 \/ offset \in deleted

\* The binary search of wal.go:118-136 finds a segment exactly when one holds
\* the offset.
FindsTheSegment ==
    \A offset \in 0..MaxRecords :
        LET holders == {i \in 1..Len(segs) : offset \in segs[i].base..(segs[i].next - 1)}
        IN  IF holders = {} THEN findSegment(offset) = 0
            ELSE findSegment(offset) \in holders

\* The record and the index entry of an offset are both in the files of b.
OnDiskIn(b, offset) ==
    /\ b <= offset
    /\ RecordFound(disk[b].store, disk[b].index, offset - b) = offset
OnDisk(offset) == \E b \in Linked : OnDiskIn(b, offset)

\* What has reached both files stays there: no crash, reopening, rotation or
\* later write damages it, and nothing but the end of its retention time lets
\* it go (segment.go:31-110, 166-184).
FlushedIsKept ==
    [][\A offset \in Offset :
          OnDisk(offset) => \/ OnDisk(offset)'
                            \/ \E b \in Linked : OnDiskIn(b, offset) /\ disk[b].expired]_vars

\* What has reached both files is served after any restart.
FlushedIsServed ==
    Serving => \A offset \in Offset : OnDisk(offset) => Lookup(offset) = offset

\* A restart at any time would tell Raft of no record that was not applied:
\* SetLastApplied(NextOffset) never goes forward (partition.go:50).
RestartNeverSkips ==
    pc # "down" => LET again == Opened([b \in Linked |-> disk[b]])
                   IN  again # <<>> => again[Len(again)].next <= applied

\* A meta file without contents, which keeps the broker from starting, is one
\* of the newest segment, and that segment has no record: removing its files
\* costs nothing (segment.go:66-104).
EmptyMetaHoldsNothing ==
    \A b \in Linked : disk[b].meta = "empty" =>
        /\ disk[b].store = <<>> /\ disk[b].index = <<>>
        /\ \A d \in Linked : d <= b
=============================================================================
