---------------------------- MODULE WalInvariants ----------------------------
(***************************************************************************)
(* Why the write-ahead log is right, in three layers.                      *)
(*                                                                         *)
(* FilesInv holds with any number of readers: files are only written at    *)
(* their end, buffers stay within their capacity, the active segment is    *)
(* the newest there are files of.  What has reached both files of a        *)
(* segment therefore stays (FlushedIsKept), and a meta file can be missing *)
(* or empty only where nothing was written (EmptyMetaHoldsNothing).        *)
(*                                                                         *)
(* CountInv holds with one reader at a time: segments follow each other    *)
(* without overlap, and what an index file and the buffer before it count  *)
(* is never more than the segment counts, hence never more than was        *)
(* applied (RestartNeverSkips).                                            *)
(*                                                                         *)
(* HoldInv holds with one reader, as long as shutdowns are orderly: it is  *)
(* about contents.  Files and buffers together are exactly the records     *)
(* applied: every offset reads back its own (EveryOffsetReadsBack).        *)
(***************************************************************************)
EXTENDS Wal

\* The contents of the variables.
Word == [rec : Offset, part : Nat]
File == [store : Seq(Word), index : Seq(Nat), meta : {"none", "empty", "written"},
         expired : BOOLEAN, linked : BOOLEAN]
Segment == [base : Nat, next : Nat, size : Nat, sbuf : Seq(Word), ibuf : Seq(Nat)]
Stage == {"idle", "index", "indexSent", "store", "storeSent"}
Flush == [seg : Nat, what : {"index", "store"}]

\* The files of a log.
Files(d) == /\ DOMAIN d \in SUBSET Nat
            /\ IsFiniteSet(DOMAIN d)
            /\ d \in [DOMAIN d -> File]

\* The segments in memory with their buffers.
Segments(d, s) ==
    /\ s \in Seq(Segment)
    /\ \A i \in 1..Len(s) :
          /\ s[i].base \in DOMAIN d
          /\ s[i].base <= s[i].next
          /\ Len(s[i].sbuf) <= StoreBuf /\ Len(s[i].ibuf) <= IndexBuf

\* A log that is open: every file has its meta file, and the active segment is
\* the newest one there are files of.
OpenLog(d, s) ==
    /\ Files(d)
    /\ Segments(d, s)
    /\ \A b \in DOMAIN d : d[b].meta = "written"
    /\ Len(s) > 0
    /\ \A b \in DOMAIN d : b <= s[Len(s)].base

\* A log that is not open: only the newest files can lack their meta file, and
\* nothing was ever written to those.
ShutLog(d) ==
    /\ Files(d)
    /\ \A b \in DOMAIN d : d[b].meta # "written" =>
          /\ d[b].store = <<>> /\ d[b].index = <<>>
          /\ \A c \in DOMAIN d : c <= b

\* Where the goroutines are.
StagesOK ==
    /\ applied \in Nat
    /\ pc \in {"down", "up", "flush", "close", "late"}
    /\ todo \in Seq(Flush)
    /\ reading \in [Reader -> [at : Stage, seg : Nat]]
    /\ \A k \in 1..Len(todo) : todo[k].seg \in 1..Len(segs)
    /\ \A r \in Reader : reading[r].at # "idle" => reading[r].seg \in 1..Len(segs)
    /\ pc # "up" => NoReader
    /\ pc \notin {"flush", "close"} => todo = <<>>

\* The invariant of the files and of who works on them.
FilesInv ==
    /\ StagesOK
    /\ pc = "down" => segs = <<>> /\ ShutLog(disk)
    /\ pc # "down" => OpenLog(disk, segs)

-----------------------------------------------------------------------------
\* Segment i is the one that writes to the files of its base: a full segment
\* whose index was lost is opened a second time by rotate.
Owner(s, i) == \A j \in 1..Len(s) : j > i => s[j].base # s[i].base

\* The segments whose index buffer a reader has written and not yet emptied.
Sent == {i \in 1..Len(segs) :
            \E r \in Reader : reading[r].at = "indexSent" /\ reading[r].seg = i}

\* The words the index file of segment i has once its buffer has been written,
\* and the entries in n words.
Indexed(d, s, sent, i) ==
    Len(d[s[i].base].index) + (IF i \in sent THEN 0 ELSE Len(s[i].ibuf))
Entries(n) == n \div 3

\* The segments follow each other without overlap.
Follow(s) == \A i, j \in 1..Len(s) : i < j => s[i].next <= s[j].base

\* The index file of a segment counts no more than the segment does.
CountOf(d, s, sent, i) ==
    /\ s[i].next = s[i].base => s[i].ibuf = <<>>
    /\ Owner(s, i) => s[i].base + Entries(Indexed(d, s, sent, i)) <= s[i].next
Counts(d, s, sent) == \A i \in 1..Len(s) : CountOf(d, s, sent, i)

\* All files that are not removed belong to a segment.
Owned(d, s) == \A b \in DOMAIN d : d[b].linked =>
                  \E i \in 1..Len(s) : s[i].base = b /\ Owner(s, i)

\* What the segments of an open log count.
OpenCounts(d, s, sent) == Follow(s) /\ Counts(d, s, sent) /\ Owned(d, s)

\* The same of files that are not open.
ShutCounts(d) ==
    \A b \in DOMAIN d :
        /\ b + Entries(Len(d[b].index)) <= MaxRecords
        /\ \A c \in DOMAIN d : b < c => b + Entries(Len(d[b].index)) <= c

\* No segment, and no index file behind its buffer, counts a record that was
\* not applied, and none counts a record of the next: through spills, flushes,
\* reads, deaths, appends behind the close and reopening (wal.go:27-190,
\* segment.go:31-110).
CountInv ==
    /\ applied <= MaxRecords
    /\ DOMAIN disk \subseteq 0..MaxRecords
    /\ deleted \subseteq Offset
    /\ unclean \in BOOLEAN
    /\ pc = "down" => ShutCounts(disk)
    /\ pc # "down" => OpenCounts(disk, segs, Sent) /\ segs[Len(segs)].next <= applied

-----------------------------------------------------------------------------
\* The segments whose store buffer a reader has written and not yet emptied.
StoreSent == {i \in 1..Len(segs) :
                 \E r \in Reader : reading[r].at = "storeSent" /\ reading[r].seg = i}

\* What the files of segment i hold once its buffers have been written.
StoreOf(d, s, sent, i) == d[s[i].base].store \o (IF i \in sent THEN <<>> ELSE s[i].sbuf)
IndexOf(d, s, sent, i) == d[s[i].base].index \o (IF i \in sent THEN <<>> ELSE s[i].ibuf)

\* A store and an index hold the records of the offsets from b to before n, and
\* nothing else.
Holds(store, index, b, n) ==
    /\ Len(index) = 3 * (n - b)
    /\ n = b => store = <<>>
    /\ \A offset \in b..(n - 1) : RecordFound(store, index, offset - b) = offset

\* Every segment of an open log holds the records it counts, and knows where the
\* next one goes; only the active segment may be empty.
HoldsOf(d, s, sx, ss, i) ==
    /\ Holds(StoreOf(d, s, ss, i), IndexOf(d, s, sx, i), s[i].base, s[i].next)
    /\ s[i].size = Len(StoreOf(d, s, ss, i))
    /\ d[s[i].base].linked
    /\ i < Len(s) => s[i].base < s[i].next
OpenHolds(d, s, sx, ss) == \A i \in 1..Len(s) : HoldsOf(d, s, sx, ss, i)

\* No offset before n is missing, but for those that retention has removed.
Covers(s, gone, n) ==
    \A offset \in 0..(n - 1) :
        offset \in gone \/ \E i \in 1..Len(s) : offset \in s[i].base..(s[i].next - 1)

\* Where the records of files that are not open end.
EndOf(d, b) == b + Entries(Len(d[b].index))

\* The same of files that are not open.
ShutHolds(d) ==
    \A b \in DOMAIN d :
        /\ Holds(d[b].store, d[b].index, b, EndOf(d, b))
        /\ d[b].linked
        /\ \A c \in DOMAIN d : b < c => b < EndOf(d, b)
ShutCovers(d, gone) ==
    \A b \in DOMAIN d : \A offset \in 0..(EndOf(d, b) - 1) :
        offset \in gone \/ \E c \in DOMAIN d : offset \in c..(EndOf(d, c) - 1)

\* What a shutdown has not flushed yet, it still has to flush.
Flushing(s, left) ==
    \A i \in 1..Len(s) :
        /\ s[i].ibuf = <<>> \/ \E k \in 1..Len(left) : left[k] = [seg |-> i, what |-> "index"]
        /\ s[i].sbuf = <<>> \/ \E k \in 1..Len(left) : left[k] = [seg |-> i, what |-> "store"]

\* As long as every process shut down in an orderly way, what the files of a
\* segment and the buffers before them hold are exactly the records applied for
\* its offsets, each where its index entry says; a shutdown leaves nothing in a
\* buffer; and the segments have every offset that retention has not removed
\* (wal.go:27-190, segment.go:31-164).
HoldInv ==
    ~unclean =>
        /\ pc = "down" => ShutHolds(disk) /\ ShutCovers(disk, deleted)
        /\ pc # "down" => /\ OpenHolds(disk, segs, Sent, StoreSent)
                          /\ segs[Len(segs)].next = applied
                          /\ Covers(segs, deleted, applied)
        /\ pc = "close" => Flushing(segs, todo)
        /\ pc # "late"

\* One goroutine at a time is in wal.read.
OneReader == \A r, q \in Reader : r = q
=============================================================================
