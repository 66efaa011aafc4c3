---------------------------- MODULE RaftLogProofs ----------------------------
(***************************************************************************)
(* The Raft log storage keeps its promise: for every set of entries, every *)
(* size of theirs and every sequence of appends, truncations, failed calls *)
(* and crashes, what raft.go reads and what recover finds is one sequence  *)
(* that only Append and TruncateFrom change.  A call that returns an error *)
(* has done nothing (TornErrors = FALSE); a crash may still come between   *)
(* any two words of a write.                                               *)
(***************************************************************************)
EXTENDS RaftLog, TLAPS, SequenceTheorems

\* What a word of the store is.
StoreWord == Words \cup {Gap}

\* A word belongs to an entry that has a size, and Gap begins no record.
LEMMA WordType ==
    ASSUME NEW w \in StoreWord
    PROVE  /\ w.entry \in Entry \cup {Dummy}
           /\ Size[w.entry] \in Nat /\ Size[w.entry] > 0
<1>1. CASE w \in Words
  <2>1. PICK e \in Entry \cup {Dummy} : w \in {[entry |-> e, part |-> k] : k \in 0..Size[e]}
    BY <1>1 DEF Words
  <2>2. w.entry = e
    BY <2>1
  <2> QED  BY <2>2, SizeAssumption
<1>2. CASE w = Gap
  BY <1>2, SizeAssumption DEF Gap
<1> QED  BY <1>1, <1>2 DEF StoreWord

\* A record is a sequence of words, one more than its entry has.
LEMMA RecordType ==
    ASSUME NEW e \in Entry \cup {Dummy}
    PROVE  /\ Size[e] \in Nat /\ Size[e] > 0
           /\ Record(e) \in Seq(StoreWord) /\ Len(Record(e)) = Size[e] + 1
           /\ \A k \in 0..Size[e] : Record(e)[k + 1] = [entry |-> e, part |-> k]
<1>1. Size[e] \in Nat /\ Size[e] > 0
  BY SizeAssumption
<1>2. ASSUME NEW w \in 1..(Size[e] + 1)  PROVE [entry |-> e, part |-> w - 1] \in StoreWord
  <2>1. w - 1 \in 0..Size[e]
    BY <1>1
  <2>2. [entry |-> e, part |-> w - 1] \in {[entry |-> e, part |-> k] : k \in 0..Size[e]}
    BY <2>1
  <2> QED  BY <2>2 DEF Words, StoreWord
<1>3. Record(e) \in [1..(Size[e] + 1) -> StoreWord]
  BY <1>2 DEF Record
<1>4. Record(e) \in Seq(StoreWord) /\ Len(Record(e)) = Size[e] + 1
  BY <1>1, <1>3
<1>5. \A k \in 0..Size[e] : Record(e)[k + 1] = [entry |-> e, part |-> k]
  BY <1>1 DEF Record
<1> QED  BY <1>1, <1>4, <1>5

-----------------------------------------------------------------------------
(* Files.                                                                  *)

\* Two files hold the same words up to n.
SameUpTo(f, g, n) == n <= Len(f) /\ n <= Len(g) /\ \A i \in 1..n : f[i] = g[i]

\* Cutting a file.
LEMMA CutFile ==
    ASSUME NEW S, NEW f \in Seq(S), NEW n \in 0..Len(f)
    PROVE  Cut(f, n) \in Seq(S) /\ Len(Cut(f, n)) = n /\ SameUpTo(f, Cut(f, n), n)
<1>1. Len(f) \in Nat
  BY LenProperties
<1>2. Cut(f, n) = [i \in 1..n |-> f[i]]
  BY <1>1 DEF Cut
<1>3. \A i \in 1..n : f[i] \in S
  BY <1>1, ElementOfSeq
<1>4. Cut(f, n) \in Seq(S) /\ Len(Cut(f, n)) = n
  BY <1>2, <1>3
<1> QED  BY <1>1, <1>2, <1>4 DEF SameUpTo

\* Writing at the end of a file.
LEMMA WriteAtEnd ==
    ASSUME NEW S, NEW f \in Seq(S), NEW w \in Seq(S), NEW gap
    PROVE  LET g == WriteAt(f, Len(f), w, gap)
           IN  /\ g \in Seq(S) /\ Len(g) = Len(f) + Len(w) /\ SameUpTo(f, g, Len(f))
               /\ \A i \in 1..Len(w) : g[Len(f) + i] = w[i]
<1> DEFINE g == WriteAt(f, Len(f), w, gap)
<1>1. Len(f) \in Nat /\ Len(w) \in Nat
  BY LenProperties
<1>2. g = [i \in 1..(Len(f) + Len(w)) |->
              IF i \in (Len(f) + 1)..(Len(f) + Len(w)) THEN w[i - Len(f)]
              ELSE IF i <= Len(f) THEN f[i] ELSE gap]
  <2>1. (IF Len(f) + Len(w) > Len(f) THEN Len(f) + Len(w) ELSE Len(f)) = Len(f) + Len(w)
    BY <1>1
  <2> QED  BY <2>1 DEF WriteAt
<1>3. \A i \in 1..Len(f) : g[i] = f[i] /\ f[i] \in S
  BY <1>1, <1>2, ElementOfSeq
<1>4. \A i \in 1..Len(w) : g[Len(f) + i] = w[i] /\ w[i] \in S
  BY <1>1, <1>2, ElementOfSeq
<1>5. ASSUME NEW i \in 1..(Len(f) + Len(w))  PROVE g[i] \in S
  <2>1. CASE i <= Len(f)
    BY <1>1, <1>3, <2>1
  <2>2. CASE i > Len(f)
    <3>1. i - Len(f) \in 1..Len(w) /\ i = Len(f) + (i - Len(f))
      BY <1>1, <2>2
    <3> QED  BY <1>4, <3>1
  <2> QED  BY <1>1, <2>1, <2>2
<1> HIDE DEF g
<1>6. g = [i \in 1..(Len(f) + Len(w)) |-> g[i]]
  BY <1>2
<1>7. g \in [1..(Len(f) + Len(w)) -> S]
  BY <1>5, <1>6
<1>8. g \in Seq(S) /\ Len(g) = Len(f) + Len(w)
  BY <1>1, <1>7, SMTT(40)
<1>9. SameUpTo(f, g, Len(f))
  BY <1>1, <1>3, <1>8 DEF SameUpTo
<1> QED  BY <1>4, <1>8, <1>9 DEF g

\* Writing nothing.
LEMMA WriteNothing ==
    ASSUME NEW S, NEW f \in Seq(S), NEW gap
    PROVE  WriteAt(f, Len(f), <<>>, gap) = f
<1>1. <<>> \in Seq(S) /\ Len(<<>>) = 0
  OBVIOUS
<1>2. LET g == WriteAt(f, Len(f), <<>>, gap)
      IN  g \in Seq(S) /\ Len(g) = Len(f) + Len(<<>>) /\ SameUpTo(f, g, Len(f))
  BY <1>1, WriteAtEnd
<1>3. PICK g \in Seq(S) : /\ g = WriteAt(f, Len(f), <<>>, gap)
                          /\ Len(g) = Len(f) + 0 /\ SameUpTo(f, g, Len(f))
  BY <1>1, <1>2
<1>4. Len(g) = Len(f)
  BY <1>3, LenProperties
<1>5. \A i \in 1..Len(f) : f[i] = g[i]
  BY <1>3 DEF SameUpTo
<1>6. f = g
  BY <1>4, <1>5, SeqEqual
<1> QED  BY <1>3, <1>6

-----------------------------------------------------------------------------
(* Records.                                                                *)

\* An index entry is a position.
LEMMA PositionType ==
    ASSUME NEW x \in Seq(Nat), NEW i \in Nat, 2 * i + 2 <= Len(x)
    PROVE  Position(x, i) \in Nat
<1>1. 2 * i + 1 \in 1..Len(x) /\ 2 * i + 2 \in 1..Len(x)
  BY LenProperties
<1>2. x[2 * i + 1] \in Nat /\ x[2 * i + 2] \in Nat
  BY <1>1, ElementOfSeq
<1>3. Wide \in Nat
  BY WordsAssumption DEF Wide
<1>4. x[2 * i + 1] * Wide \in Nat
  BY <1>2, <1>3, SMTT(40)
<1> QED  BY <1>2, <1>4, SMTT(40) DEF Position

\* Files with the same words have the same positions.
LEMMA PositionSame ==
    ASSUME NEW x, NEW y, NEW n \in Nat, SameUpTo(x, y, 2 * n), NEW i \in 0..(n - 1)
    PROVE  Position(y, i) = Position(x, i)
<1>1. 2 * i + 1 \in 1..(2 * n) /\ 2 * i + 2 \in 1..(2 * n)
  OBVIOUS
<1>2. x[2 * i + 1] = y[2 * i + 1] /\ x[2 * i + 2] = y[2 * i + 2]
  BY <1>1 DEF SameUpTo
<1> QED  BY <1>2 DEF Position

\* A record lies within its file.
LEMMA RecordWithin ==
    ASSUME NEW s \in Seq(StoreWord), NEW p \in Nat, ValidRecord(s, p)
    PROVE  /\ EntryAt(s, p) \in Entry \cup {Dummy}
           /\ EndOf(s, p) \in Nat /\ p < EndOf(s, p) /\ EndOf(s, p) <= Len(s)
           /\ EndOf(s, p) = p + 1 + Size[EntryAt(s, p)]
<1>1. p + 1 \in 1..Len(s)
  BY LenProperties DEF ValidRecord
<1>2. /\ s[p + 1].entry \in Entry \cup {Dummy}
      /\ Size[s[p + 1].entry] \in Nat /\ Size[s[p + 1].entry] > 0
  BY <1>1, ElementOfSeq, WordType
<1>3. p + Size[s[p + 1].entry] + 1 <= Len(s)
  BY DEF ValidRecord
<1>4. Len(s) \in Nat
  BY LenProperties
<1> QED  BY <1>2, <1>3, <1>4, SMTT(90) DEF EntryAt, EndOf

\* Files with the same words have the same records.
LEMMA RecordSame ==
    ASSUME NEW s \in Seq(StoreWord), NEW t \in Seq(StoreWord), NEW p \in Nat, ValidRecord(s, p),
           SameUpTo(s, t, EndOf(s, p))
    PROVE  ValidRecord(t, p) /\ EntryAt(t, p) = EntryAt(s, p) /\ EndOf(t, p) = EndOf(s, p)
<1>1. PICK e, m : e = s[p + 1].entry /\ m = Size[e]
  OBVIOUS
<1>2. EndOf(s, p) = p + 1 + m /\ m \in Nat /\ EndOf(s, p) <= Len(s)
  <2>1. EntryAt(s, p) = e
    BY <1>1 DEF EntryAt
  <2>2. e \in Entry \cup {Dummy} /\ EndOf(s, p) = p + 1 + m /\ EndOf(s, p) <= Len(s)
    BY <1>1, <2>1, RecordWithin
  <2> QED  BY <1>1, <2>2, SizeAssumption
<1>3. Len(t) \in Nat /\ p + 1 + m <= Len(t) /\ \A i \in 1..(p + 1 + m) : s[i] = t[i]
  BY <1>2, LenProperties DEF SameUpTo
<1>4. s[p + 1].part = 0 /\ \A k \in 1..m : s[p + 1 + k] = [entry |-> e, part |-> k]
  BY <1>1, Zenon DEF ValidRecord
<1>5. ASSUME NEW k \in 0..m  PROVE t[p + 1 + k] = s[p + 1 + k]
  <2>1. p + 1 + k \in 1..(p + 1 + m)
    BY <1>2
  <2> QED  BY <1>3, <2>1
<1>6. /\ p < Len(t) /\ t[p + 1].part = 0 /\ t[p + 1].entry = e
      /\ p + m + 1 <= Len(t)
      /\ \A k \in 1..m : t[p + 1 + k] = [entry |-> e, part |-> k]
  <2>1. t[p + 1] = s[p + 1]
    <3>1. 0 \in 0..m /\ p + 1 + 0 = p + 1
      BY <1>2
    <3> QED  BY <1>5, <3>1
  <2>2. ASSUME NEW k \in 1..m  PROVE t[p + 1 + k] = [entry |-> e, part |-> k]
    <3>1. k \in 0..m
      BY <1>2
    <3>2. s[p + 1 + k] = [entry |-> e, part |-> k]
      BY <1>4
    <3> QED  BY <1>5, <3>1, <3>2
  <2>3. p < Len(t) /\ p + m + 1 <= Len(t)
    BY <1>2, <1>3
  <2> QED  BY <1>1, <1>4, <2>1, <2>2, <2>3
<1>7. ValidRecord(t, p)
  BY <1>1, <1>6 DEF ValidRecord
<1> QED  BY <1>1, <1>6, <1>7 DEF EntryAt, EndOf

\* A record written at the end of a file is one, and ends where the file does.
LEMMA RecordWritten ==
    ASSUME NEW s \in Seq(StoreWord), NEW t \in Seq(StoreWord), NEW e \in Entry \cup {Dummy},
           Len(t) = Len(s) + Size[e] + 1,
           \A i \in 1..(Size[e] + 1) : t[Len(s) + i] = Record(e)[i]
    PROVE  ValidRecord(t, Len(s)) /\ EntryAt(t, Len(s)) = e /\ EndOf(t, Len(s)) = Len(t)
<1>1. PICK m : m = Size[e]
  OBVIOUS
<1>2. /\ Len(s) \in Nat /\ m \in Nat /\ Len(t) = Len(s) + m + 1
      /\ \A k \in 0..m : Record(e)[k + 1] = [entry |-> e, part |-> k]
  BY <1>1, RecordType, LenProperties
<1>3. ASSUME NEW k \in 0..m  PROVE t[Len(s) + 1 + k] = [entry |-> e, part |-> k]
  <2>1. k + 1 \in 1..(m + 1) /\ Len(s) + (k + 1) = Len(s) + 1 + k
    BY <1>2
  <2>2. t[Len(s) + (k + 1)] = Record(e)[k + 1]
    BY <1>1, <2>1
  <2> QED  BY <1>2, <2>1, <2>2
<1>4. t[Len(s) + 1] = [entry |-> e, part |-> 0]
  <2>1. 0 \in 0..m /\ Len(s) + 1 + 0 = Len(s) + 1
    BY <1>2
  <2> QED  BY <1>3, <2>1
<1>5. t[Len(s) + 1].entry = e /\ t[Len(s) + 1].part = 0
  BY <1>4
<1>6. \A k \in 1..m : t[Len(s) + 1 + k] = [entry |-> e, part |-> k]
  BY <1>2, <1>3
<1>7. Len(s) < Len(t) /\ Len(s) + m + 1 <= Len(t) /\ Len(s) + 1 + m = Len(t)
  BY <1>2
<1>8. ValidRecord(t, Len(s))
  BY <1>1, <1>5, <1>6, <1>7 DEF ValidRecord
<1> QED  BY <1>1, <1>5, <1>7, <1>8 DEF EntryAt, EndOf

-----------------------------------------------------------------------------
(* Records one after another.                                              *)

\* The ends of laid-out records are positions in the file.
LEMMA EndWithin ==
    ASSUME NEW s \in Seq(StoreWord), NEW x \in Seq(Nat), NEW n \in Nat, Laid(s, x, n),
           NEW i \in 0..n
    PROVE  EndOfFirst(s, x, i) \in Nat /\ EndOfFirst(s, x, i) <= Len(s)
<1>1. CASE i = 0
  BY <1>1, LenProperties DEF EndOfFirst
<1>2. CASE i # 0
  <2>1. i - 1 \in 0..(n - 1) /\ i - 1 \in Nat /\ 2 * (i - 1) + 2 <= Len(x)
    BY <1>2, LenProperties DEF Laid
  <2>2. Position(x, i - 1) \in Nat
    BY <2>1, PositionType
  <2>3. ValidRecord(s, Position(x, i - 1))
    BY <2>1 DEF Laid
  <2>4. EndOfFirst(s, x, i) = EndOf(s, Position(x, i - 1))
    BY <1>2 DEF EndOfFirst
  <2> QED  BY <2>2, <2>3, <2>4, RecordWithin
<1> QED  BY <1>1, <1>2

\* Fewer records are laid out when more are.
LEMMA LaidLess ==
    ASSUME NEW s, NEW x \in Seq(Nat), NEW n \in Nat, Laid(s, x, n), NEW k \in 0..n
    PROVE  Laid(s, x, k)
<1>1. 2 * k <= Len(x)
  BY LenProperties DEF Laid
<1>2. \A i \in 0..(k - 1) : i \in 0..(n - 1)
  OBVIOUS
<1>3. \A i \in 0..k : i \in 0..n
  OBVIOUS
<1> QED  BY <1>1, <1>2, <1>3 DEF Laid

\* One more record that begins where the last one ends.
LEMMA LaidMore ==
    ASSUME NEW s \in Seq(StoreWord), NEW x \in Seq(Nat), NEW n \in Nat, Laid(s, x, n),
           2 * n + 2 <= Len(x), ValidRecord(s, Position(x, n)),
           Position(x, n) = EndOfFirst(s, x, n)
    PROVE  Laid(s, x, n + 1) /\ EndOfFirst(s, x, n + 1) = EndOf(s, Position(x, n))
<1>1. Position(x, n) \in Nat
  BY PositionType
<1>2. EndOfFirst(s, x, n + 1) = EndOf(s, Position(x, n))
  BY DEF EndOfFirst
<1>3. EndOfFirst(s, x, n + 1) \in Nat /\ EndOfFirst(s, x, n) < EndOfFirst(s, x, n + 1)
  BY <1>1, <1>2, RecordWithin
<1>4. ASSUME NEW i \in 0..n
      PROVE  ValidRecord(s, Position(x, i)) /\ Position(x, i) = EndOfFirst(s, x, i)
  BY DEF Laid
<1>5. ASSUME NEW i \in 0..(n + 1), NEW j \in 0..(n + 1), i <= j
      PROVE  EndOfFirst(s, x, i) <= EndOfFirst(s, x, j)
  <2>1. CASE j <= n
    BY <1>5, <2>1 DEF Laid
  <2>2. CASE i = n + 1
    <3>1. j = n + 1
      BY <1>5, <2>2
    <3> QED  BY <1>3, <2>2, <3>1
  <2>3. CASE i <= n /\ j = n + 1
    <3>1. i \in 0..n /\ n \in 0..n
      BY <2>3
    <3>2. EndOfFirst(s, x, i) \in Nat /\ EndOfFirst(s, x, n) \in Nat
      BY <3>1, EndWithin
    <3>3. EndOfFirst(s, x, i) <= EndOfFirst(s, x, n)
      BY <3>1 DEF Laid
    <3> QED  BY <1>3, <2>3, <3>2, <3>3
  <2> QED  BY <1>5, <2>1, <2>2, <2>3
<1>6. 2 * (n + 1) <= Len(x)
  BY LenProperties
<1>7. \A i \in 0..((n + 1) - 1) : i \in 0..n
  OBVIOUS
<1> QED  BY <1>2, <1>4, <1>5, <1>6, <1>7 DEF Laid

\* The entries that the first n index entries name.
Entries(s, x, n) == [i \in 1..n |-> EntryAt(s, Position(x, i - 1))]

\* The entries of laid-out records are entries.
LEMMA EntriesType ==
    ASSUME NEW s \in Seq(StoreWord), NEW x \in Seq(Nat), NEW n \in Nat, Laid(s, x, n)
    PROVE  Entries(s, x, n) \in Seq(Entry \cup {Dummy}) /\ Len(Entries(s, x, n)) = n
<1>1. ASSUME NEW i \in 1..n  PROVE EntryAt(s, Position(x, i - 1)) \in Entry \cup {Dummy}
  <2>1. i - 1 \in 0..(n - 1) /\ i - 1 \in Nat /\ 2 * (i - 1) + 2 <= Len(x)
    BY LenProperties DEF Laid
  <2>2. Position(x, i - 1) \in Nat /\ ValidRecord(s, Position(x, i - 1))
    BY <2>1, PositionType DEF Laid
  <2> QED  BY <2>2, RecordWithin
<1>2. Entries(s, x, n) \in [1..n -> Entry \cup {Dummy}]
  BY <1>1 DEF Entries
<1> QED  BY <1>2

\* Files that hold the same words where the first n records and their index
\* entries are hold the same records.
LEMMA LaidSame ==
    ASSUME NEW s \in Seq(StoreWord), NEW t \in Seq(StoreWord),
           NEW x \in Seq(Nat), NEW y \in Seq(Nat), NEW n \in Nat, Laid(s, x, n),
           SameUpTo(s, t, EndOfFirst(s, x, n)), SameUpTo(x, y, 2 * n)
    PROVE  /\ Laid(t, y, n)
           /\ EndOfFirst(t, y, n) = EndOfFirst(s, x, n)
           /\ Entries(t, y, n) = Entries(s, x, n)
<1>1. ASSUME NEW i \in 0..(n - 1)
      PROVE  /\ Position(y, i) = Position(x, i) /\ ValidRecord(t, Position(y, i))
             /\ EntryAt(t, Position(y, i)) = EntryAt(s, Position(x, i))
             /\ EndOfFirst(t, y, i + 1) = EndOfFirst(s, x, i + 1)
  <2>1. i \in Nat /\ 2 * i + 2 <= Len(x) /\ i + 1 \in 0..n /\ n \in 0..n /\ i + 1 <= n
    BY LenProperties DEF Laid
  <2>2. PICK p \in Nat : p = Position(x, i) /\ p = Position(y, i) /\ ValidRecord(s, p)
    <3>1. ValidRecord(s, Position(x, i))
      BY DEF Laid
    <3>2. Position(x, i) \in Nat
      BY <2>1, PositionType
    <3>3. Position(y, i) = Position(x, i)
      BY PositionSame
    <3> QED  BY <3>1, <3>2, <3>3
  <2>3. EndOfFirst(s, x, i + 1) = EndOf(s, p) /\ EndOfFirst(t, y, i + 1) = EndOf(t, p)
    <3>1. i + 1 # 0 /\ (i + 1) - 1 = i
      BY <2>1
    <3> QED  BY <2>2, <3>1 DEF EndOfFirst
  <2>4. EndOf(s, p) \in Nat /\ EndOfFirst(s, x, n) \in Nat /\ EndOf(s, p) <= EndOfFirst(s, x, n)
    <3>1. EndOfFirst(s, x, n) \in Nat
      BY <2>1, EndWithin
    <3>2. EndOfFirst(s, x, i + 1) <= EndOfFirst(s, x, n)
      BY <2>1 DEF Laid
    <3> QED  BY <2>2, <2>3, <3>1, <3>2, RecordWithin
  <2>5. SameUpTo(s, t, EndOf(s, p))
    BY <2>4, LenProperties, SMTT(40) DEF SameUpTo
  <2>6. ValidRecord(t, p) /\ EntryAt(t, p) = EntryAt(s, p) /\ EndOf(t, p) = EndOf(s, p)
    BY <2>2, <2>5, RecordSame
  <2> QED  BY <2>2, <2>3, <2>6
<1>2. ASSUME NEW i \in 0..n  PROVE EndOfFirst(t, y, i) = EndOfFirst(s, x, i)
  <2>1. CASE i = 0
    BY <2>1 DEF EndOfFirst
  <2>2. CASE i # 0
    <3>1. i - 1 \in 0..(n - 1) /\ (i - 1) + 1 = i
      BY <2>2
    <3> QED  BY <1>1, <3>1
  <2> QED  BY <2>1, <2>2
<1>3. \A i \in 0..(n - 1) : ValidRecord(t, Position(y, i)) /\ Position(y, i) = EndOfFirst(t, y, i)
  <2> SUFFICES ASSUME NEW i \in 0..(n - 1)
               PROVE  ValidRecord(t, Position(y, i)) /\ Position(y, i) = EndOfFirst(t, y, i)
    OBVIOUS
  <2>1. Position(x, i) = EndOfFirst(s, x, i)
    BY DEF Laid
  <2>2. i \in 0..n
    OBVIOUS
  <2> QED  BY <1>1, <1>2, <2>1, <2>2
<1>4. \A i, j \in 0..n : i <= j => EndOfFirst(t, y, i) <= EndOfFirst(t, y, j)
  BY <1>2 DEF Laid
<1>5. 2 * n <= Len(y)
  BY DEF SameUpTo
<1>6. Laid(t, y, n)
  BY <1>3, <1>4, <1>5 DEF Laid
<1>7. ASSUME NEW i \in 1..n  PROVE EntryAt(t, Position(y, i - 1)) = EntryAt(s, Position(x, i - 1))
  <2>1. i - 1 \in 0..(n - 1)
    OBVIOUS
  <2> QED  BY <1>1, <2>1
<1>8. Entries(t, y, n) = Entries(s, x, n)
  BY <1>7 DEF Entries
<1>9. n \in 0..n
  OBVIOUS
<1> QED  BY <1>2, <1>6, <1>8, <1>9

\* The loop of recover stops behind the last whole record.
LEMMA KeptIs ==
    ASSUME NEW s, NEW x \in Seq(Nat), NEW n \in Nat, Recovers(s, x, n)
    PROVE  Kept(s, x) = n
<1> DEFINE all == Len(x) \div 2
           Good(k) == \A i \in 0..(k - 1) : ValidRecord(s, Position(x, i))
           Stop(k) == Good(k) /\ (k < all => ~Good(k + 1))
<1>1. Len(x) \in Nat /\ all \in Nat /\ 2 * all <= Len(x) /\ Len(x) <= 2 * all + 1
  BY LenProperties
<1>2. n \in 0..all
  BY <1>1 DEF Recovers, Laid
<1>3. Good(n)
  BY DEF Recovers, Laid
<1>4. n < all => ~Good(n + 1)
  <2>1. SUFFICES ASSUME n < all  PROVE ~Good(n + 1)
    OBVIOUS
  <2>2. 2 * n + 2 <= Len(x)
    BY <1>1, <2>1
  <2>3. ~ValidRecord(s, Position(x, n))
    BY <2>2 DEF Recovers
  <2>4. n \in 0..((n + 1) - 1)
    OBVIOUS
  <2> QED  BY <2>3, <2>4
<1>5. ASSUME NEW k \in 0..all, Stop(k)  PROVE k = n
  <2>1. CASE k < n
    <3>1. \A i \in 0..((k + 1) - 1) : i \in 0..(n - 1)
      BY <2>1
    <3>2. Good(k + 1)
      BY <1>3, <3>1
    <3>3. k < all
      BY <1>1, <1>2, <2>1
    <3> QED  BY <1>5, <3>2, <3>3
  <2>2. CASE n < k
    <3>1. \A i \in 0..((n + 1) - 1) : i \in 0..(k - 1)
      BY <2>2
    <3>2. Good(n + 1)
      BY <1>5, <3>1
    <3>3. n < all
      BY <1>1, <2>2
    <3> QED  BY <1>4, <3>2, <3>3
  <2> QED  BY <2>1, <2>2
<1>6. Stop(n)
  BY <1>3, <1>4
<1>7. Kept(s, x) = CHOOSE k \in 0..all : Stop(k)
  BY DEF Kept
<1> HIDE DEF Stop, all
<1> QED  BY <1>2, <1>5, <1>6, <1>7

-----------------------------------------------------------------------------
(* What the log is, seen from outside.                                     *)

\* The abstract sequence, of any state.
ContentOf(p, c, s, x) ==
    IF p = "idle"
    THEN [i \in 1..c |-> IF 2 * (i - 1) + 2 <= Len(x) /\ ValidRecord(s, Position(x, i - 1))
                         THEN EntryAt(s, Position(x, i - 1)) ELSE Unreadable]
    ELSE [i \in 1..Kept(s, x) |-> EntryAt(s, Position(x, i - 1))]
Content == IF pc = "idle" THEN View ELSE Recovered

\* Content is a function of the variables, before a step and after it.
LEMMA ContentIs ==
    Content = ContentOf(pc, count, store, index) /\ Content' = ContentOf(pc', count', store', index')
BY DEF Content, ContentOf, View, Recovered, Get

\* Whatever the program is doing, its content is what recover would find.
LEMMA ContentIsRecovered ==
    ASSUME NEW s, NEW x \in Seq(Nat), NEW n \in Nat, Recovers(s, x, n), NEW p, NEW c,
           p = "idle" => c = n
    PROVE  ContentOf(p, c, s, x) = Entries(s, x, n)
<1>1. CASE p = "idle"
  <2>1. ASSUME NEW i \in 1..n
        PROVE  2 * (i - 1) + 2 <= Len(x) /\ ValidRecord(s, Position(x, i - 1))
    <3>1. i - 1 \in 0..(n - 1)
      OBVIOUS
    <3>2. 2 * n <= Len(x)
      BY DEF Recovers, Laid
    <3>3. ValidRecord(s, Position(x, i - 1))
      BY <3>1 DEF Recovers, Laid
    <3> QED  BY <3>2, <3>3, LenProperties
  <2> QED  BY <1>1, <2>1 DEF ContentOf, Entries
<1>2. CASE p # "idle"
  <2>1. Kept(s, x) = n
    BY KeptIs
  <2> QED  BY <1>2, <2>1 DEF ContentOf, Entries
<1> QED  BY <1>1, <1>2

\* What recover would find in each state.
LEMMA StateRecovers ==
    ASSUME TypeOK, LogInv
    PROVE  \E n \in Nat : /\ Recovers(store, index, n)
                          /\ pc \in {"dummy", "sync", "idle", "index"} => n = count
                          /\ pc = "truncate" => n = arg
                          /\ pc = "recover" => n = Len(index) \div 2
<1>1. index \in Seq(Nat) /\ Len(index) \in Nat /\ count \in Nat /\ arg \in Nat
  BY LenProperties DEF TypeOK
<1>2. ASSUME NEW n \in Nat, Laid(store, index, n), Len(index) = 2 * n
      PROVE  Recovers(store, index, n)
  BY <1>2 DEF Recovers
<1>3. CASE pc = "down"
  <2>1. PICK n \in 0..Len(index) : Recovers(store, index, n)
    BY <1>3 DEF LogInv
  <2>2. n \in Nat
    BY <1>1
  <2> QED  BY <1>3, <2>1, <2>2
<1>4. CASE pc = "recover"
  <2>1. Len(index) \div 2 \in Nat
    BY <1>1
  <2>2. Recovers(store, index, Len(index) \div 2)
    BY <1>2, <1>4, <2>1 DEF LogInv
  <2> QED  BY <1>4, <2>1, <2>2
<1>5. CASE pc \in {"dummy", "sync", "idle", "index"}
  <2>1. Counted
    BY <1>5 DEF LogInv
  <2>2. Recovers(store, index, count)
    BY <1>1, <1>2, <2>1 DEF Counted
  <2> QED  BY <1>1, <1>5, <2>2
<1>6. CASE pc = "truncate"
  <2>1. Laid(store, index, arg) /\ Position(index, arg) = Len(store)
    BY <1>6 DEF LogInv
  <2>2. ~ValidRecord(store, Position(index, arg))
    <3>1. Len(store) \in Nat
      BY LenProperties DEF TypeOK
    <3> QED  BY <2>1, <3>1 DEF ValidRecord
  <2>3. Recovers(store, index, arg)
    BY <2>1, <2>2 DEF Recovers
  <2> QED  BY <1>1, <1>6, <2>3
<1> QED  BY <1>3, <1>4, <1>5, <1>6 DEF TypeOK

\* What a step may do to the content c of the log, which d is after it.
ContentStep(c, d) ==
    \/ d = c /\ (open' = open \/ (open' = FALSE) \/ (c # <<>> /\ open' = TRUE))
    \/ open = FALSE /\ open' = open /\ c = <<>> /\ d = <<Dummy>>
    \/ open = TRUE /\ open' = open /\ \E e \in Entry : d = Append(c, e)
    \/ open = TRUE /\ open' = open /\ \E i \in 1..Len(c) : d = SubSeq(c, 1, i)

\* A step that is right: it keeps the invariant, and does to the content what
\* the durable log may do.
GoodStep ==
    /\ TypeOK' /\ LogInv'
    /\ \E n, m \in Nat : /\ Recovers(store, index, n) /\ Recovers(store', index', m)
                         /\ ContentStep(Entries(store, index, n), Entries(store', index', m))

-----------------------------------------------------------------------------
(* The steps.                                                              *)

\* The types the proofs use of TypeOK, with the lengths of the two files.
LEMMA Types ==
    ASSUME TypeOK
    PROVE  /\ store \in Seq(StoreWord) /\ Len(store) \in Nat
           /\ index \in Seq(Nat) /\ Len(index) \in Nat
           /\ sOff \in Nat /\ iOff \in Nat /\ sSize \in Nat /\ count \in Nat /\ arg \in Nat
           /\ open \in BOOLEAN
BY LenProperties DEF TypeOK, StoreWord

\* A file is the same as itself.
LEMMA SameFile ==
    ASSUME NEW S, NEW f \in Seq(S), NEW n \in 0..Len(f)
    PROVE  SameUpTo(f, f, n)
BY LenProperties DEF SameUpTo

\* A process that dies leaves files from which recover finds what it did before.
LEMMA DieStep ==
    ASSUME TypeOK, LogInv, NEW s \in Seq(StoreWord), NEW x \in Seq(Nat), Die(s, x),
           NEW n \in Nat, Recovers(store, index, n), Recovers(s, x, n),
           Entries(s, x, n) = Entries(store, index, n)
    PROVE  GoodStep
<1>1. /\ store' = s /\ index' = x /\ sOff' = 0 /\ iOff' = 0 /\ sSize' = 0 /\ count' = 0
      /\ open' = FALSE /\ pc' = "down" /\ arg' = 0
  BY DEF Die
<1>2. TypeOK'
  BY <1>1 DEF TypeOK, StoreWord
<1>3. n \in 0..Len(index')
  <2>1. 2 * n <= Len(x) /\ Len(x) \in Nat
    BY LenProperties DEF Recovers, Laid
  <2> QED  BY <1>1, <2>1
<1>4. Recovers(store', index', n)
  BY <1>1
<1>5. LogInv'
  <2>1. \E k \in 0..Len(index') : Recovers(store', index', k)
    BY <1>3, <1>4
  <2> QED  BY <1>1, <2>1 DEF LogInv, Recovers, Laid
<1>6. ContentStep(Entries(store, index, n), Entries(store', index', n))
  BY <1>1 DEF ContentStep
<1> QED  BY <1>2, <1>4, <1>5, <1>6 DEF GoodStep

\* The process dies between two writes.
LEMMA CrashStep ==
    ASSUME TypeOK, LogInv, Crash
    PROVE  GoodStep
<1>1. PICK n \in Nat : Recovers(store, index, n)
  BY StateRecovers
<1> QED  BY <1>1, Types, DieStep DEF Crash

\* The process dies inside the write of a record: what it leaves behind the
\* last whole record has no index entry.
LEMMA CrashInStoreWriteStep ==
    ASSUME TypeOK, LogInv, NEW e \in Entry \cup {Dummy}, NEW k \in 1..Size[e], CrashInStoreWrite(e, k)
    PROVE  GoodStep
<1> DEFINE w == SubSeq(Record(e), 1, k)
           s == WriteAt(store, Len(store), w, Gap)
<1>1. /\ store \in Seq(StoreWord) /\ index \in Seq(Nat) /\ count \in Nat
      /\ Len(index) \in Nat /\ Len(store) \in Nat
  BY Types
<1>2. Counted /\ sOff = Len(store)
  BY DEF CrashInStoreWrite, MayAppend, LogInv
<1>3. Die(s, index)
  BY <1>2 DEF CrashInStoreWrite
<1>4. w \in Seq(StoreWord)
  <2>1. Record(e) \in Seq(StoreWord) /\ k \in 0..Len(Record(e))
    BY RecordType
  <2> QED  BY <2>1, CutFile DEF Cut
<1> HIDE DEF w
<1>5. s \in Seq(StoreWord) /\ SameUpTo(store, s, Len(store))
  BY <1>1, <1>4, WriteAtEnd
<1> HIDE DEF s
<1>6. Laid(store, index, count) /\ Len(index) = 2 * count
  BY <1>2 DEF Counted
<1>7. SameUpTo(store, s, EndOfFirst(store, index, count)) /\ SameUpTo(index, index, 2 * count)
  <2>1. count \in 0..count
    BY <1>1
  <2>2. EndOfFirst(store, index, count) \in Nat /\ EndOfFirst(store, index, count) <= Len(store)
    BY <1>1, <1>6, <2>1, EndWithin
  <2>3. Len(s) \in Nat
    BY <1>5, LenProperties
  <2>4. SameUpTo(store, s, EndOfFirst(store, index, count))
    BY <1>1, <1>5, <2>2, <2>3 DEF SameUpTo
  <2> QED  BY <1>1, <1>6, <2>4, SameFile
<1>8. Laid(s, index, count) /\ Entries(s, index, count) = Entries(store, index, count)
  BY <1>1, <1>5, <1>6, <1>7, LaidSame
<1>9. Recovers(store, index, count) /\ Recovers(s, index, count)
  BY <1>1, <1>6, <1>8 DEF Recovers
<1> QED  BY <1>1, <1>3, <1>5, <1>8, <1>9, DieStep

\* The process dies inside the write of an index entry: recover drops half an
\* index entry, and the record that was written for it.
LEMMA CrashInIndexWriteStep ==
    ASSUME TypeOK, LogInv, CrashInIndexWrite
    PROVE  GoodStep
<1> DEFINE w == SubSeq(IndexEntry(sSize), 1, 1)
           x == WriteAt(index, Len(index), w, 0)
<1>1. /\ store \in Seq(StoreWord) /\ index \in Seq(Nat) /\ count \in Nat /\ sSize \in Nat
      /\ Len(index) \in Nat /\ Len(store) \in Nat
  BY Types
<1>2. Counted
  BY DEF CrashInIndexWrite, LogInv
<1>3. Laid(store, index, count) /\ Len(index) = 2 * count /\ iOff = Len(index)
  BY <1>2 DEF Counted
<1>4. Die(store, x)
  BY <1>3 DEF CrashInIndexWrite
<1>5. w \in Seq(Nat) /\ Len(w) = 1
  <2>1. IndexEntry(sSize) \in Seq(Nat) /\ 1 \in 0..Len(IndexEntry(sSize))
    BY <1>1 DEF IndexEntry
  <2> QED  BY <2>1, CutFile DEF Cut
<1> HIDE DEF w
<1>6. x \in Seq(Nat) /\ SameUpTo(index, x, Len(index)) /\ Len(x) = Len(index) + 1
  <2>1. x \in Seq(Nat) /\ SameUpTo(index, x, Len(index)) /\ Len(x) = Len(index) + Len(w)
    BY <1>1, <1>5, WriteAtEnd, ZenonT(60)
  <2> QED  BY <1>5, <2>1
<1> HIDE DEF x
<1>7. SameUpTo(store, store, EndOfFirst(store, index, count)) /\ SameUpTo(index, x, 2 * count)
  <2>1. count \in 0..count
    BY <1>1
  <2>2. EndOfFirst(store, index, count) \in Nat /\ EndOfFirst(store, index, count) <= Len(store)
    BY <1>1, <1>3, <2>1, EndWithin
  <2>3. EndOfFirst(store, index, count) \in 0..Len(store)
    BY <1>1, <2>2
  <2> QED  BY <1>1, <1>3, <1>6, <2>3, SameFile
<1>8. Laid(store, x, count) /\ Entries(store, x, count) = Entries(store, index, count)
  BY <1>1, <1>3, <1>6, <1>7, LaidSame
<1>9. Recovers(store, index, count) /\ Recovers(store, x, count)
  BY <1>1, <1>3, <1>6, <1>8 DEF Recovers
<1> QED  BY <1>1, <1>4, <1>6, <1>8, <1>9, DieStep

\* What holds between two operations, put together from its parts.
LEMMA Settles ==
    ASSUME TypeOK', pc' \in {"dummy", "sync", "idle"}, Counted',
           sSize' = Len(store'), sOff' = Len(store'),
           pc' = "dummy" => open' = FALSE /\ count' = 0 /\ store' = <<>>,
           pc' = "sync" => open' = FALSE /\ count' = 1,
           pc' = "idle" => open' = TRUE /\ count' > 0
    PROVE  LogInv'
BY DEF LogInv

\* recover, the index.
LEMMA RecoverIndexStep ==
    ASSUME TypeOK, LogInv, RecoverIndex
    PROVE  GoodStep
<1>1. /\ store \in Seq(StoreWord) /\ index \in Seq(Nat) /\ Len(index) \in Nat /\ Len(store) \in Nat
  BY Types
<1>2. pc = "down" /\ open = FALSE
  BY Types DEF RecoverIndex, LogInv
<1>3. PICK n \in Nat : Recovers(store, index, n)
  BY StateRecovers
<1>4. Kept(store, index) = n
  BY <1>1, <1>3, KeptIs
<1>5. /\ arg' = EndOfFirst(store, index, n) /\ index' = Cut(index, 2 * n)
      /\ pc' = "recover" /\ store' = store /\ open' = open
      /\ UNCHANGED <<sOff, iOff, sSize, count>>
  BY <1>4 DEF RecoverIndex, EndOfFirst
<1>6. Laid(store, index, n) /\ 2 * n \in 0..Len(index) /\ n \in 0..n
  BY <1>1, <1>3 DEF Recovers, Laid
<1>7. index' \in Seq(Nat) /\ Len(index') = 2 * n /\ SameUpTo(index, index', 2 * n)
  BY <1>1, <1>5, <1>6, CutFile
<1>8. EndOfFirst(store, index, n) \in 0..Len(store)
  <2>1. EndOfFirst(store, index, n) \in Nat /\ EndOfFirst(store, index, n) <= Len(store)
    BY <1>1, <1>6, EndWithin
  <2> QED  BY <1>1, <2>1
<1>9. SameUpTo(store, store, EndOfFirst(store, index, n))
  BY <1>1, <1>8, SameFile
<1>10. /\ Laid(store, index', n) /\ EndOfFirst(store, index', n) = EndOfFirst(store, index, n)
       /\ Entries(store, index', n) = Entries(store, index, n)
  BY <1>1, <1>6, <1>7, <1>9, LaidSame
<1>11. TypeOK'
  BY <1>1, <1>5, <1>7, <1>8 DEF TypeOK
<1>12. Len(index') \div 2 = n
  BY <1>7
<1>13. LogInv'
  <2>1. /\ Len(index') = 2 * (Len(index') \div 2) /\ Laid(store', index', Len(index') \div 2)
        /\ arg' = EndOfFirst(store', index', Len(index') \div 2)
    BY <1>5, <1>7, <1>10, <1>12
  <2> QED  BY <1>2, <1>5, <2>1 DEF LogInv
<1>14. Recovers(store', index', n)
  BY <1>5, <1>7, <1>10 DEF Recovers
<1>15. ContentStep(Entries(store, index, n), Entries(store', index', n))
  BY <1>5, <1>10 DEF ContentStep
<1> QED  BY <1>3, <1>11, <1>13, <1>14, <1>15 DEF GoodStep

\* recover, the store: the log is open again, unless it has no entry yet.
LEMMA RecoverStoreStep ==
    ASSUME TypeOK, LogInv, RecoverStore
    PROVE  GoodStep
<1>1. /\ store \in Seq(StoreWord) /\ index \in Seq(Nat) /\ Len(index) \in Nat /\ Len(store) \in Nat
  BY Types
<1>2. PICK n : n = Len(index) \div 2
  OBVIOUS
<1>3. /\ n \in Nat /\ open = FALSE /\ Len(index) = 2 * n /\ Laid(store, index, n)
      /\ arg = EndOfFirst(store, index, n)
  BY <1>1, <1>2, Types DEF RecoverStore, LogInv
<1>4. /\ store' = Cut(store, arg) /\ sSize' = arg /\ sOff' = arg /\ count' = n /\ iOff' = Len(index)
      /\ open' = (n > 0) /\ pc' = (IF n > 0 THEN "idle" ELSE "dummy") /\ arg' = 0 /\ index' = index
  BY <1>2 DEF RecoverStore
<1>5. arg \in 0..Len(store)
  <2>1. n \in 0..n
    BY <1>3
  <2>2. arg \in Nat /\ arg <= Len(store)
    BY <1>1, <1>3, <2>1, EndWithin
  <2> QED  BY <1>1, <2>2
<1>6. store' \in Seq(StoreWord) /\ Len(store') = arg /\ SameUpTo(store, store', arg)
  BY <1>1, <1>4, <1>5, CutFile
<1>7. SameUpTo(index, index, 2 * n)
  BY <1>1, <1>3, SameFile
<1>8. /\ Laid(store', index, n) /\ EndOfFirst(store', index, n) = arg
      /\ Entries(store', index, n) = Entries(store, index, n)
  BY <1>1, <1>3, <1>6, <1>7, LaidSame
<1>9. TypeOK'
  BY <1>1, <1>3, <1>4, <1>5, <1>6 DEF TypeOK, StoreWord
<1>10. LogInv'
  <2>1. Counted' /\ sSize' = Len(store') /\ sOff' = Len(store')
    BY <1>3, <1>4, <1>6, <1>8 DEF Counted
  <2>2. CASE n > 0
    <3>1. pc' = "idle" /\ open' = TRUE /\ count' > 0
      BY <1>4, <2>2
    <3> QED  BY <1>9, <2>1, <3>1, Settles
  <2>3. CASE n = 0
    <3>1. pc' = "dummy" /\ open' = FALSE /\ count' = 0
      <4>1. (n > 0) = FALSE
        BY <2>3
      <4>2. pc' = "dummy" /\ count' = 0
        BY <1>4, <2>3
      <4> QED  BY <1>4, <4>1, <4>2, Zenon
    <3>2. Len(store') = 0
      BY <1>3, <1>6, <2>3 DEF EndOfFirst
    <3>3. store' = <<>>
      BY <1>6, <3>2, EmptySeq
    <3> QED  BY <1>9, <2>1, <3>1, <3>3, Settles
  <2> QED  BY <1>3, <2>2, <2>3
<1>11. Recovers(store, index, n) /\ Recovers(store', index', n)
  BY <1>3, <1>4, <1>8 DEF Recovers
<1>12. ContentStep(Entries(store, index, n), Entries(store', index', n))
  <2>1. Len(Entries(store, index, n)) = n
    BY <1>1, <1>3, EntriesType
  <2>2. n > 0 => Entries(store, index, n) # <<>>
    BY <1>3, <2>1
  <2>3. open' = FALSE \/ (open' = TRUE /\ n > 0)
    <3>1. CASE n = 0
      <4>1. (n > 0) = FALSE
        BY <3>1
      <4>2. open' = FALSE
        BY <1>4, <4>1, Zenon
      <4> QED  BY <4>2
    <3>2. CASE n > 0
      BY <1>4, <3>2
    <3>3. n = 0 \/ n > 0
      BY <1>3
    <3> QED  BY <3>1, <3>2, <3>3, Zenon
  <2>4. Entries(store', index', n) = Entries(store, index, n)
    BY <1>4, <1>8
  <2> QED  BY <2>2, <2>3, <2>4 DEF ContentStep
<1> QED  BY <1>3, <1>9, <1>10, <1>11, <1>12 DEF GoodStep

\* The dummy is synced, the log is open.
LEMMA SyncStep ==
    ASSUME TypeOK, LogInv, Sync
    PROVE  GoodStep
<1>1. /\ store \in Seq(StoreWord) /\ index \in Seq(Nat) /\ count = 1 /\ open = FALSE
  BY Types DEF Sync, LogInv
<1>2. /\ Counted /\ sSize = Len(store) /\ sOff = Len(store)
  BY DEF Sync, LogInv
<1>3. /\ pc' = "idle" /\ open' = TRUE
      /\ UNCHANGED <<store, index, sOff, iOff, sSize, count, arg>>
  BY DEF Sync
<1>4. TypeOK'
  BY <1>3 DEF TypeOK
<1>5. Counted'
  BY <1>2, <1>3 DEF Counted
<1>6. LogInv'
  BY <1>1, <1>2, <1>3, <1>4, <1>5, Settles
<1>7. Recovers(store, index, 1) /\ Recovers(store', index', 1)
  <2>1. Laid(store, index, 1) /\ Len(index) = 2
    BY <1>1, <1>2 DEF Counted
  <2>2. Recovers(store, index, 1)
    BY <2>1 DEF Recovers
  <2> QED  BY <1>3, <2>2
<1>8. Entries(store, index, 1) # <<>>
  <2>1. Laid(store, index, 1)
    BY <1>7 DEF Recovers
  <2>2. Len(Entries(store, index, 1)) = 1
    BY <1>1, <2>1, EntriesType
  <2> QED  BY <2>2
<1>9. ContentStep(Entries(store, index, 1), Entries(store', index', 1))
  <2>1. Entries(store', index', 1) = Entries(store, index, 1)
    BY <1>3
  <2> QED  BY <1>1, <1>3, <1>8, <2>1 DEF ContentStep
<1> QED  BY <1>4, <1>6, <1>7, <1>9 DEF GoodStep

\* The files keep their records when words are written behind them, or words
\* behind them are cut.
LEMMA StoreTail ==
    ASSUME NEW s \in Seq(StoreWord), NEW t \in Seq(StoreWord), NEW x \in Seq(Nat),
           NEW n \in Nat, Laid(s, x, n), NEW k \in Nat, SameUpTo(s, t, k),
           EndOfFirst(s, x, n) <= k
    PROVE  /\ Laid(t, x, n) /\ EndOfFirst(t, x, n) = EndOfFirst(s, x, n)
           /\ Entries(t, x, n) = Entries(s, x, n)
<1>1. n \in 0..n /\ 2 * n \in 0..Len(x)
  BY LenProperties DEF Laid
<1>2. EndOfFirst(s, x, n) \in Nat
  BY <1>1, EndWithin
<1>3. SameUpTo(s, t, EndOfFirst(s, x, n))
  BY <1>2, LenProperties DEF SameUpTo
<1>4. SameUpTo(x, x, 2 * n)
  BY <1>1, SameFile
<1> QED  BY <1>3, <1>4, LaidSame

\* Append, the store.
LEMMA AppendStoreStep ==
    ASSUME TypeOK, LogInv, NEW e \in Entry \cup {Dummy}, AppendStore(e)
    PROVE  GoodStep
<1>1. /\ store \in Seq(StoreWord) /\ index \in Seq(Nat) /\ Len(store) \in Nat /\ count \in Nat
      /\ open \in BOOLEAN
  BY Types
<1>2. \/ pc = "idle" /\ e \in Entry /\ open = TRUE /\ count > 0
      \/ pc = "dummy" /\ e = Dummy /\ open = FALSE /\ count = 0
  BY <1>1 DEF AppendStore, MayAppend, LogInv
<1>3. Counted /\ sSize = Len(store) /\ sOff = Len(store)
  BY <1>2 DEF LogInv
<1>4. /\ store' = WriteAt(store, Len(store), Record(e), Gap)
      /\ sOff' = Len(store) + Size[e] + 1 /\ arg' = Size[e] + 1 /\ pc' = "index"
      /\ UNCHANGED <<index, iOff, sSize, count, open>>
  BY <1>3 DEF AppendStore
<1>5. Size[e] \in Nat /\ Record(e) \in Seq(StoreWord) /\ Len(Record(e)) = Size[e] + 1
  BY RecordType
<1>6. /\ store' \in Seq(StoreWord) /\ Len(store') = Len(store) + Len(Record(e))
      /\ SameUpTo(store, store', Len(store))
      /\ \A i \in 1..Len(Record(e)) : store'[Len(store) + i] = Record(e)[i]
  BY <1>1, <1>4, <1>5, WriteAtEnd, SMTT(40)
<1>7. Len(store') = Len(store) + Size[e] + 1 /\ Len(store') \in Nat
  BY <1>1, <1>5, <1>6
<1>8. /\ ValidRecord(store', Len(store)) /\ EntryAt(store', Len(store)) = e
      /\ EndOf(store', Len(store)) = Len(store')
  BY <1>1, <1>5, <1>6, <1>7, RecordWritten
<1>9. Laid(store, index, count) /\ Len(store) = EndOfFirst(store, index, count) /\ Len(index) = 2 * count
  BY <1>3 DEF Counted
<1>10. EndOfFirst(store, index, count) <= Len(store)
  BY <1>1, <1>9
<1>11. /\ Laid(store', index, count) /\ EndOfFirst(store', index, count) = Len(store)
       /\ Entries(store', index, count) = Entries(store, index, count)
  BY <1>1, <1>6, <1>9, <1>10, StoreTail
<1>12. TypeOK'
  BY <1>1, <1>4, <1>5, <1>6, SMTT(30) DEF TypeOK, StoreWord
<1>13. LogInv'
  <2>1. Counted'
    BY <1>3, <1>4, <1>11 DEF Counted
  <2>2. sSize' + arg' = Len(store') /\ sOff' = Len(store')
    BY <1>1, <1>3, <1>4, <1>5, <1>7
  <2>3. ValidRecord(store', sSize') /\ EndOf(store', sSize') = Len(store') /\ EntryAt(store', sSize') = e
    BY <1>3, <1>4, <1>8
  <2>4. \/ open' = TRUE /\ count' > 0 /\ e \in Entry
        \/ open' = FALSE /\ count' = 0 /\ e = Dummy
    BY <1>2, <1>4
  <2> QED  BY <1>4, <2>1, <2>2, <2>3, <2>4 DEF LogInv
<1>14. Recovers(store, index, count) /\ Recovers(store', index', count)
  BY <1>1, <1>4, <1>9, <1>11 DEF Recovers
<1>15. ContentStep(Entries(store, index, count), Entries(store', index', count))
  BY <1>4, <1>11 DEF ContentStep
<1> QED  BY <1>1, <1>12, <1>13, <1>14, <1>15 DEF GoodStep

\* Append, the index: now, and not before, the entry is part of the log.
LEMMA AppendIndexStep ==
    ASSUME TypeOK, LogInv, AppendIndex
    PROVE  GoodStep
<1>1. /\ store \in Seq(StoreWord) /\ index \in Seq(Nat) /\ Len(store) \in Nat /\ count \in Nat
      /\ open \in BOOLEAN /\ sSize \in Nat /\ arg \in Nat /\ sOff \in Nat
  BY Types
<1>2. /\ Counted /\ sSize + arg = Len(store) /\ sOff = Len(store)
      /\ ValidRecord(store, sSize) /\ EndOf(store, sSize) = Len(store)
  BY DEF AppendIndex, LogInv
<1>3. PICK e : e = EntryAt(store, sSize)
  OBVIOUS
<1>4. \/ open = TRUE /\ count > 0 /\ e \in Entry
      \/ open = FALSE /\ count = 0 /\ e = Dummy
  BY <1>1, <1>3 DEF AppendIndex, LogInv
<1>5. /\ Laid(store, index, count) /\ sSize = EndOfFirst(store, index, count)
      /\ Len(index) = 2 * count /\ iOff = Len(index)
  BY <1>2 DEF Counted
<1>6. /\ index' = WriteAt(index, Len(index), <<0, sSize>>, 0) /\ iOff' = Len(index) + 2
      /\ sSize' = sSize + arg /\ count' = count + 1 /\ pc' = (IF open THEN "idle" ELSE "sync")
      /\ arg' = 0 /\ UNCHANGED <<store, sOff, open>>
  BY <1>5 DEF AppendIndex, IndexEntry
<1>7. PICK w \in Seq(Nat) : w = <<0, sSize>> /\ Len(w) = 2 /\ w[1] = 0 /\ w[2] = sSize
  <2>1. /\ <<0, sSize>> \in Seq(Nat) /\ Len(<<0, sSize>>) = 2
        /\ <<0, sSize>>[1] = 0 /\ <<0, sSize>>[2] = sSize
    BY <1>1
  <2> QED  BY <2>1, Zenon
<1>8. /\ index' \in Seq(Nat) /\ Len(index') = Len(index) + Len(w)
      /\ SameUpTo(index, index', Len(index))
      /\ \A i \in 1..Len(w) : index'[Len(index) + i] = w[i]
  <2>1. index' = WriteAt(index, Len(index), w, 0)
    BY <1>6, <1>7
  <2> QED  BY <1>1, <2>1, WriteAtEnd, SMTT(40)
<1>9. Len(index') = 2 * count + 2 /\ index'[2 * count + 1] = 0 /\ index'[2 * count + 2] = sSize
  BY <1>1, <1>5, <1>7, <1>8
<1>10. Position(index', count) = sSize
  <2>1. Wide \in Nat
    BY WordsAssumption DEF Wide
  <2>2. 0 * Wide = 0
    BY <2>1
  <2> QED  BY <1>1, <1>9, <2>2 DEF Position
<1>11. /\ Laid(store, index', count) /\ EndOfFirst(store, index', count) = sSize
       /\ Entries(store, index', count) = Entries(store, index, count)
  <2>1. sSize \in 0..Len(store)
    BY <1>1, <1>2
  <2>2. SameUpTo(store, store, EndOfFirst(store, index, count)) /\ SameUpTo(index, index', 2 * count)
    BY <1>1, <1>5, <1>8, <2>1, SameFile
  <2> QED  BY <1>1, <1>5, <1>8, <2>2, LaidSame
<1>12. Laid(store, index', count + 1) /\ EndOfFirst(store, index', count + 1) = Len(store)
  <2>1. 2 * count + 2 <= Len(index')
    BY <1>1, <1>9
  <2> QED  BY <1>1, <1>2, <1>8, <1>10, <1>11, <2>1, LaidMore, SMTT(40)
<1>13. TypeOK'
  <2>1. pc' \in {"idle", "sync"}
    BY <1>6
  <2>2. iOff' \in Nat
    BY <1>1, <1>5, <1>6
  <2> QED  BY <1>1, <1>6, <1>8, <2>1, <2>2 DEF TypeOK
<1>14. LogInv'
  <2>1. Counted' /\ sSize' = Len(store') /\ sOff' = Len(store')
    <3>1. Len(index') = 2 * count' /\ iOff' = Len(index') /\ sSize' = Len(store)
      BY <1>1, <1>2, <1>5, <1>6, <1>9
    <3> QED  BY <1>2, <1>6, <1>12, <3>1 DEF Counted
  <2>2. \/ pc' = "idle" /\ open' = TRUE /\ count' > 0
        \/ pc' = "sync" /\ open' = FALSE /\ count' = 1
    BY <1>1, <1>4, <1>6
  <2> QED  BY <1>13, <2>1, <2>2, Settles
<1>15. Recovers(store, index, count) /\ Recovers(store', index', count + 1)
  <2>1. Recovers(store, index, count)
    BY <1>1, <1>5 DEF Recovers
  <2>2. Recovers(store, index', count + 1)
    BY <1>1, <1>9, <1>12 DEF Recovers
  <2> QED  BY <1>6, <2>1, <2>2
<1>16. ContentStep(Entries(store, index, count), Entries(store', index', count + 1))
  <2> DEFINE c == Entries(store, index, count)
             d == Entries(store', index', count + 1)
  <2>1. c \in Seq(Entry \cup {Dummy}) /\ Len(c) = count
    BY <1>1, <1>5, EntriesType
  <2>2. d \in Seq(Entry \cup {Dummy}) /\ Len(d) = count + 1
    BY <1>1, <1>6, <1>8, <1>12, EntriesType
  <2>3. \A i \in 1..count : d[i] = c[i]
    <3>1. \A i \in 1..count : Entries(store, index', count)[i] = EntryAt(store, Position(index', i - 1))
      BY <1>1 DEF Entries
    <3>2. \A i \in 1..count : d[i] = EntryAt(store, Position(index', i - 1))
      BY <1>1, <1>6 DEF Entries
    <3> QED  BY <1>11, <3>1, <3>2
  <2>4. d[count + 1] = e
    <3>1. d[count + 1] = EntryAt(store, Position(index', (count + 1) - 1))
      BY <1>1, <1>6 DEF Entries
    <3>2. (count + 1) - 1 = count
      BY <1>1
    <3> QED  BY <1>3, <1>10, <3>1, <3>2
  <2> HIDE DEF c, d
  <2>5. e \in Entry \cup {Dummy}
    BY <1>4
  <2>6. d = Append(c, e)
    <3>1. /\ Append(c, e) \in Seq(Entry \cup {Dummy}) /\ Len(Append(c, e)) = count + 1
          /\ \A i \in 1..count : Append(c, e)[i] = c[i]
          /\ Append(c, e)[count + 1] = e
      BY <2>1, <2>5, AppendProperties
    <3>2. \A i \in 1..Len(d) : d[i] = Append(c, e)[i]
      BY <1>1, <2>2, <2>3, <2>4, <3>1
    <3> QED  BY <2>2, <3>1, <3>2, SeqEqual
  <2>7. count = 0 => c = <<>>
    BY <2>1, EmptySeq
  <2>8. c = <<>> /\ e = Dummy => d = <<Dummy>>
    BY <2>6
  <2>9. ContentStep(c, d)
    BY <1>4, <1>6, <2>6, <2>7, <2>8 DEF ContentStep
  <2> QED  BY <2>9 DEF c, d
<1>17. count + 1 \in Nat
  BY <1>1
<1> QED  BY <1>1, <1>13, <1>14, <1>15, <1>16, <1>17 DEF GoodStep

\* Append fails at the store: nothing has happened.
LEMMA AppendStoreFailsStep ==
    ASSUME TypeOK, LogInv, NEW e \in Entry \cup {Dummy}, AppendStoreFails(e, 0)
    PROVE  GoodStep
<1>1. /\ store \in Seq(StoreWord) /\ index \in Seq(Nat) /\ Len(store) \in Nat /\ count \in Nat
      /\ open \in BOOLEAN /\ sOff \in Nat
  BY Types
<1>2. \/ pc = "idle" /\ open = TRUE /\ count > 0
      \/ pc = "dummy" /\ open = FALSE
  BY <1>1 DEF AppendStoreFails, MayAppend, LogInv
<1>3. Counted /\ sSize = Len(store) /\ sOff = Len(store)
  BY <1>2 DEF LogInv
<1>4. store' = store
  <2>1. SubSeq(Record(e), 1, 0) = <<>>
    <3>1. Record(e) \in Seq(StoreWord) /\ 0 \in 0..Len(Record(e))
      BY RecordType
    <3>2. Cut(Record(e), 0) \in Seq(StoreWord) /\ Len(Cut(Record(e), 0)) = 0
      BY <3>1, CutFile
    <3> QED  BY <3>2, EmptySeq DEF Cut
  <2>2. store' = WriteAt(store, Len(store), <<>>, Gap)
    BY <1>3, <2>1 DEF AppendStoreFails
  <2> QED  BY <1>1, <2>2, WriteNothing
<1>5. /\ sOff' = sOff /\ UNCHANGED <<index, iOff, sSize, count, open, arg>>
      /\ pc' = IF open THEN "idle" ELSE "down"
  BY <1>1 DEF AppendStoreFails, AfterError
<1>6. TypeOK'
  BY <1>4, <1>5 DEF TypeOK
<1>7. Laid(store, index, count) /\ Len(index) = 2 * count
  BY <1>3 DEF Counted
<1>8. Recovers(store, index, count)
  BY <1>1, <1>7 DEF Recovers
<1>9. LogInv'
  <2>1. CASE pc = "idle"
    <3>1. pc' = "idle" /\ open' = TRUE /\ count' > 0
      BY <1>2, <1>5, <2>1
    <3>2. Counted' /\ sSize' = Len(store') /\ sOff' = Len(store')
      BY <1>3, <1>4, <1>5 DEF Counted
    <3> QED  BY <1>6, <3>1, <3>2, Settles
  <2>2. CASE pc = "dummy"
    <3>1. pc' = "down" /\ open' = FALSE
      BY <1>2, <1>5, <2>2
    <3>2. count \in 0..Len(index') /\ Recovers(store', index', count)
      BY <1>1, <1>4, <1>5, <1>7, <1>8
    <3>3. \E n \in 0..Len(index') : Recovers(store', index', n)
      BY <3>2
    <3> QED  BY <3>1, <3>3 DEF LogInv, Recovers, Laid
  <2> QED  BY <1>2, <2>1, <2>2
<1>10. ContentStep(Entries(store, index, count), Entries(store', index', count))
  BY <1>4, <1>5 DEF ContentStep
<1>11. Recovers(store', index', count)
  BY <1>4, <1>5, <1>8
<1> QED  BY <1>1, <1>6, <1>8, <1>9, <1>10, <1>11 DEF GoodStep

\* Append fails at the index: the record is taken back.
LEMMA AppendIndexFailsStep ==
    ASSUME TypeOK, LogInv, AppendIndexFails(0)
    PROVE  GoodStep
<1>1. /\ store \in Seq(StoreWord) /\ index \in Seq(Nat) /\ Len(store) \in Nat /\ count \in Nat
      /\ open \in BOOLEAN /\ sSize \in Nat /\ arg \in Nat /\ iOff \in Nat
  BY Types
<1>2. /\ Counted /\ sSize + arg = Len(store) /\ sOff = Len(store)
      /\ \/ open = TRUE /\ count > 0
         \/ open = FALSE /\ count = 0
  BY <1>1 DEF AppendIndexFails, LogInv
<1>3. /\ Laid(store, index, count) /\ sSize = EndOfFirst(store, index, count)
      /\ Len(index) = 2 * count /\ iOff = Len(index)
  BY <1>2 DEF Counted
<1>4. index' = index
  <2>1. SubSeq(IndexEntry(sSize), 1, 0) = <<>>
    <3>1. IndexEntry(sSize) \in Seq(Nat) /\ 0 \in 0..Len(IndexEntry(sSize))
      BY <1>1 DEF IndexEntry
    <3>2. Cut(IndexEntry(sSize), 0) \in Seq(Nat) /\ Len(Cut(IndexEntry(sSize), 0)) = 0
      BY <3>1, CutFile
    <3> QED  BY <3>2, EmptySeq DEF Cut
  <2>2. index' = WriteAt(index, Len(index), <<>>, 0)
    BY <1>3, <2>1 DEF AppendIndexFails
  <2> QED  BY <1>1, <2>2, WriteNothing
<1>5. /\ iOff' = iOff /\ store' = Cut(store, sSize) /\ sOff' = sSize /\ arg' = 0
      /\ UNCHANGED <<sSize, count, open>> /\ pc' = IF open THEN "idle" ELSE "down"
  BY <1>1 DEF AppendIndexFails, AfterError
<1>6. store' \in Seq(StoreWord) /\ Len(store') = sSize /\ SameUpTo(store, store', sSize)
  <2>1. sSize \in 0..Len(store)
    BY <1>1, <1>2
  <2> QED  BY <1>1, <1>5, <2>1, CutFile
<1>7. /\ Laid(store', index, count) /\ EndOfFirst(store', index, count) = sSize
      /\ Entries(store', index, count) = Entries(store, index, count)
  <2>1. EndOfFirst(store, index, count) <= sSize
    BY <1>1, <1>3
  <2> QED  BY <1>1, <1>3, <1>6, <2>1, StoreTail
<1>8. TypeOK'
  BY <1>1, <1>4, <1>5, <1>6 DEF TypeOK, StoreWord
<1>9. Recovers(store, index, count) /\ Recovers(store', index', count)
  BY <1>1, <1>3, <1>4, <1>7 DEF Recovers
<1>10. LogInv'
  <2>1. CASE open = TRUE
    <3>1. pc' = "idle" /\ open' = TRUE /\ count' > 0
      BY <1>2, <1>5, <2>1
    <3>2. Counted' /\ sSize' = Len(store') /\ sOff' = Len(store')
      BY <1>3, <1>4, <1>5, <1>6, <1>7 DEF Counted
    <3> QED  BY <1>8, <3>1, <3>2, Settles
  <2>2. CASE open = FALSE
    <3>1. pc' = "down" /\ open' = FALSE
      BY <1>5, <2>2
    <3>2. count \in 0..Len(index')
      BY <1>1, <1>3, <1>4
    <3>3. \E n \in 0..Len(index') : Recovers(store', index', n)
      BY <1>9, <3>2
    <3> QED  BY <3>1, <3>3 DEF LogInv, Recovers, Laid
  <2> QED  BY <1>1, <2>1, <2>2
<1>11. ContentStep(Entries(store, index, count), Entries(store', index', count))
  BY <1>4, <1>5, <1>7 DEF ContentStep
<1> QED  BY <1>1, <1>8, <1>9, <1>10, <1>11 DEF GoodStep

\* TruncateFrom(i), the store: the entries from i on are gone for good, though
\* their index entries are still there.
LEMMA TruncateStoreStep ==
    ASSUME TypeOK, LogInv, NEW i \in 1..(count - 1), TruncateStore(i)
    PROVE  GoodStep
<1>1. /\ store \in Seq(StoreWord) /\ index \in Seq(Nat) /\ Len(store) \in Nat /\ count \in Nat
      /\ Len(index) \in Nat
  BY Types
<1>2. Counted /\ open = TRUE
  BY Types DEF TruncateStore, LogInv
<1>3. Laid(store, index, count) /\ Len(index) = 2 * count
  BY <1>2 DEF Counted
<1>4. PICK n \in Nat : n = i
  BY <1>1
<1>5. n \in 0..count /\ n \in 0..(count - 1) /\ n \in 1..count
  BY <1>1, <1>4
<1>6. Laid(store, index, n) /\ Position(index, n) = EndOfFirst(store, index, n)
  BY <1>1, <1>3, <1>5, LaidLess DEF Laid
<1>7. EndOfFirst(store, index, n) \in 0..Len(store)
  <2>1. EndOfFirst(store, index, n) \in Nat /\ EndOfFirst(store, index, n) <= Len(store)
    BY <1>1, <1>3, <1>5, EndWithin
  <2> QED  BY <1>1, <2>1
<1>8. /\ store' = Cut(store, EndOfFirst(store, index, n)) /\ arg' = n /\ pc' = "truncate"
      /\ UNCHANGED <<index, sOff, iOff, sSize, count, open>>
  BY <1>4, <1>6 DEF TruncateStore
<1>9. /\ store' \in Seq(StoreWord) /\ Len(store') = EndOfFirst(store, index, n)
      /\ SameUpTo(store, store', EndOfFirst(store, index, n))
  BY <1>1, <1>7, <1>8, CutFile
<1>10. SameUpTo(index, index, 2 * n)
  <2>1. 2 * n \in 0..Len(index)
    BY <1>1, <1>3, <1>5
  <2> QED  BY <1>1, <2>1, SameFile
<1>11. /\ Laid(store', index, n) /\ EndOfFirst(store', index, n) = Len(store')
       /\ Entries(store', index, n) = Entries(store, index, n)
  BY <1>1, <1>6, <1>9, <1>10, LaidSame
<1>12. TypeOK'
  BY <1>8, <1>9 DEF TypeOK, StoreWord
<1>13. Position(index, n) = Len(store') /\ Len(store') \in Nat
  BY <1>6, <1>7, <1>9
<1>14. LogInv'
  BY <1>2, <1>3, <1>4, <1>8, <1>11, <1>13 DEF LogInv
<1>15. Recovers(store, index, count) /\ Recovers(store', index', n)
  <2>1. Recovers(store, index, count)
    BY <1>1, <1>3 DEF Recovers
  <2>2. ~ValidRecord(store', Position(index, n))
    BY <1>13 DEF ValidRecord
  <2> QED  BY <1>8, <1>11, <2>1, <2>2 DEF Recovers
<1>16. ContentStep(Entries(store, index, count), Entries(store', index', n))
  <2> DEFINE c == Entries(store, index, count)
  <2>1. c \in Seq(Entry \cup {Dummy}) /\ Len(c) = count
    BY <1>1, <1>3, EntriesType
  <2>2. \A k \in 1..count : c[k] = EntryAt(store, Position(index, k - 1))
    BY DEF Entries
  <2> HIDE DEF c
  <2>3. SubSeq(c, 1, n) = [k \in 1..n |-> c[k]]
    BY <1>1, <1>5, <2>1
  <2>4. SubSeq(c, 1, n) = [k \in 1..n |-> EntryAt(store, Position(index, k - 1))]
    <3>1. \A k \in 1..n : k \in 1..count
      BY <1>1, <1>5
    <3> QED  BY <2>2, <2>3, <3>1
  <2>5. Entries(store', index', n) = SubSeq(c, 1, n)
    BY <1>8, <1>11, <2>4 DEF Entries
  <2>6. n \in 1..Len(c)
    BY <1>5, <2>1
  <2>7. ContentStep(c, Entries(store', index', n))
    BY <1>2, <1>8, <2>5, <2>6 DEF ContentStep
  <2> QED  BY <2>7 DEF c
<1> QED  BY <1>1, <1>12, <1>14, <1>15, <1>16 DEF GoodStep

\* TruncateFrom, the index.
LEMMA TruncateIndexStep ==
    ASSUME TypeOK, LogInv, TruncateIndex(TRUE)
    PROVE  GoodStep
<1>1. /\ store \in Seq(StoreWord) /\ index \in Seq(Nat) /\ Len(store) \in Nat /\ count \in Nat
      /\ Len(index) \in Nat /\ arg \in Nat
  BY Types
<1>2. /\ open = TRUE /\ Len(index) = 2 * count /\ arg \in 1..(count - 1)
      /\ Laid(store, index, arg) /\ Position(index, arg) = Len(store)
      /\ EndOfFirst(store, index, arg) = Len(store)
  BY Types DEF TruncateIndex, LogInv
<1>3. /\ sSize' = Len(store) /\ sOff' = Len(store) /\ index' = Cut(index, 2 * arg)
      /\ iOff' = 2 * arg /\ count' = arg /\ pc' = "idle" /\ arg' = 0 /\ store' = store /\ open' = open
  BY <1>2 DEF TruncateIndex
<1>4. index' \in Seq(Nat) /\ Len(index') = 2 * arg /\ SameUpTo(index, index', 2 * arg)
  <2>1. 2 * arg \in 0..Len(index)
    BY <1>1, <1>2
  <2> QED  BY <1>1, <1>3, <2>1, CutFile
<1>5. SameUpTo(store, store, EndOfFirst(store, index, arg))
  <2>1. Len(store) \in 0..Len(store)
    BY <1>1
  <2> QED  BY <1>1, <1>2, <2>1, SameFile
<1>6. /\ Laid(store, index', arg) /\ EndOfFirst(store, index', arg) = Len(store)
      /\ Entries(store, index', arg) = Entries(store, index, arg)
  BY <1>1, <1>2, <1>4, <1>5, LaidSame, SMTT(40)
<1>7. TypeOK'
  BY <1>1, <1>3, <1>4 DEF TypeOK, StoreWord
<1>8. LogInv'
  <2>1. Counted' /\ sSize' = Len(store') /\ sOff' = Len(store')
    BY <1>3, <1>4, <1>6 DEF Counted
  <2>2. pc' = "idle" /\ open' = TRUE /\ count' > 0
    BY <1>1, <1>2, <1>3
  <2> QED  BY <1>7, <2>1, <2>2, Settles
<1>9. Recovers(store, index, arg) /\ Recovers(store', index', arg)
  <2>1. ~ValidRecord(store, Position(index, arg))
    BY <1>1, <1>2 DEF ValidRecord
  <2>2. Recovers(store, index, arg)
    BY <1>2, <2>1 DEF Recovers
  <2>3. Recovers(store, index', arg)
    BY <1>1, <1>4, <1>6 DEF Recovers
  <2> QED  BY <1>3, <2>2, <2>3
<1>10. ContentStep(Entries(store, index, arg), Entries(store', index', arg))
  BY <1>3, <1>6 DEF ContentStep
<1> QED  BY <1>1, <1>7, <1>8, <1>9, <1>10 DEF GoodStep

-----------------------------------------------------------------------------
(* The log.                                                                *)

\* Every step of the log is right, if a call that fails has done nothing.
LEMMA EveryStep ==
    ASSUME TornErrors = FALSE, TypeOK, LogInv, [Next]_vars
    PROVE  GoodStep
<1>1. CASE UNCHANGED vars
  <2>1. PICK n \in Nat : Recovers(store, index, n)
    BY StateRecovers
  <2>2. TypeOK' /\ LogInv'
    BY <1>1 DEF vars, TypeOK, LogInv, Counted
  <2>3. Recovers(store', index', n) /\ Entries(store', index', n) = Entries(store, index, n)
    BY <1>1, <2>1 DEF vars
  <2>4. ContentStep(Entries(store, index, n), Entries(store', index', n))
    BY <1>1, <2>3 DEF ContentStep, vars
  <2> QED  BY <2>1, <2>2, <2>3, <2>4 DEF GoodStep
<1>2. \A n : Done(n) = {0}
  BY DEF Done
<1>3. ASSUME NEW e \in Entry \cup {Dummy}, NEW k \in Done(Size[e]), AppendStoreFails(e, k)
      PROVE  GoodStep
  BY <1>2, <1>3, AppendStoreFailsStep
<1>4. ASSUME NEW k \in Done(1), AppendIndexFails(k)  PROVE GoodStep
  BY <1>2, <1>4, AppendIndexFailsStep
<1>5. ASSUME NEW done \in {TRUE, ~TornErrors}, TruncateIndex(done)  PROVE GoodStep
  <2>1. done = TRUE
    BY Zenon
  <2> QED  BY <1>5, <2>1, TruncateIndexStep
<1> QED
  BY <1>1, <1>3, <1>4, <1>5, RecoverIndexStep, RecoverStoreStep, SyncStep, AppendStoreStep,
     AppendIndexStep, TruncateStoreStep, CrashStep, CrashInStoreWriteStep, CrashInIndexWriteStep
  DEF Next

\* The empty files of a new log hold no records.
LEMMA NewLog == Init => TypeOK /\ LogInv
<1> SUFFICES ASSUME Init  PROVE TypeOK /\ LogInv
  OBVIOUS
<1>1. TypeOK
  <2>1. <<>> \in Seq(StoreWord) /\ <<>> \in Seq(Nat)
    BY EmptySeq
  <2> QED  BY <2>1 DEF Init, TypeOK, StoreWord
<1>2. Recovers(store, index, 0)
  BY DEF Init, Recovers, Laid, EndOfFirst
<1>3. \E n \in 0..Len(index) : Recovers(store, index, n)
  BY <1>2 DEF Init
<1> QED  BY <1>1, <1>3 DEF Init, LogInv

\* In every state, after any crash and any failed call, the two files hold whole
\* records one after another with an index entry each, followed at most by what
\* recover drops; and memory agrees with them between two operations.
THEOREM LogInvariant ==
    ASSUME TornErrors = FALSE
    PROVE  Spec => [](TypeOK /\ LogInv)
<1>1. TypeOK /\ LogInv /\ [Next]_vars => TypeOK' /\ LogInv'
  BY EveryStep DEF GoodStep
<1> QED  BY <1>1, NewLog, PTL DEF Spec

\* Every field and file keeps its type.
THEOREM LogTypeCorrect ==
    ASSUME TornErrors = FALSE
    PROVE  Spec => []TypeOK
BY LogInvariant, PTL

\* Between two operations sSize, count and the file offsets say exactly what is
\* in the files, and the records lie without a gap: the next Append writes where
\* recover will look for it.
THEOREM FilesAlwaysAgree ==
    ASSUME TornErrors = FALSE
    PROVE  Spec => []FilesAgree
<1>1. TypeOK /\ LogInv => FilesAgree
  <2> SUFFICES ASSUME TypeOK, LogInv, pc = "idle"
               PROVE  /\ sSize = Len(store) /\ sOff = sSize
                      /\ 2 * count = Len(index) /\ iOff = Len(index)
                      /\ count > 0 /\ Position(index, 0) = 0
                      /\ Tiled
    BY DEF FilesAgree
  <2>1. Counted /\ sSize = Len(store) /\ sOff = Len(store) /\ count > 0
    BY DEF LogInv
  <2>2. count \in Nat /\ Laid(store, index, count) /\ sSize = EndOfFirst(store, index, count)
    BY <2>1, Types DEF Counted
  <2>3. ASSUME NEW i \in 0..(count - 1)
        PROVE  /\ ValidRecord(store, Position(index, i))
               /\ Position(index, i) = EndOfFirst(store, index, i)
               /\ EndOfFirst(store, index, i + 1) = EndOf(store, Position(index, i))
    <3>1. i + 1 # 0 /\ (i + 1) - 1 = i
      BY <2>2
    <3> QED  BY <2>2, <3>1 DEF Laid, EndOfFirst
  <2>4. Position(index, 0) = 0
    <3>1. 0 \in 0..(count - 1)
      BY <2>1, <2>2
    <3> QED  BY <2>3, <3>1 DEF EndOfFirst
  <2>5. ASSUME NEW i \in 0..(count - 1)
        PROVE  EndOf(store, Position(index, i)) =
                  IF i + 1 = count THEN sSize ELSE Position(index, i + 1)
    <3>1. CASE i + 1 = count
      BY <2>2, <2>3, <3>1
    <3>2. CASE i + 1 # count
      <4>1. i + 1 \in 0..(count - 1)
        BY <2>2, <3>2
      <4>2. Position(index, i + 1) = EndOfFirst(store, index, i + 1)
        BY <2>3, <4>1
      <4> QED  BY <2>3, <3>2, <4>2
    <3> QED  BY <3>1, <3>2
  <2>6. Tiled
    BY <2>3, <2>5 DEF Tiled
  <2> QED  BY <2>1, <2>4, <2>6 DEF Counted
<1> QED  BY <1>1, LogInvariant, PTL

\* The two files, the writes that fail or are torn by a crash, and recover
\* implement one durable sequence of entries that only Append and TruncateFrom
\* change, each in one step.
THEOREM LogIsDurable ==
    ASSUME TornErrors = FALSE
    PROVE  Spec => ImplementsDurableLog
<1>1. Init => Durable!Init
  <2> SUFFICES ASSUME Init  PROVE Content = <<>> /\ open = FALSE
    BY DEF Durable!Init, Content
  <2>1. Recovers(store, index, 0) /\ index \in Seq(Nat) /\ pc # "idle"
    BY DEF Init, Recovers, Laid, EndOfFirst
  <2>2. Content = Entries(store, index, 0)
    BY <2>1, ContentIs, ContentIsRecovered
  <2>3. Entries(store, index, 0) = <<>>
    BY DEF Entries
  <2> QED  BY <2>2, <2>3 DEF Init
<1>2. TypeOK /\ LogInv /\ [Next]_vars => [Durable!Next]_(Durable!vars)
  <2> SUFFICES ASSUME TypeOK, LogInv, [Next]_vars  PROVE [Durable!Next]_(Durable!vars)
    OBVIOUS
  <2>1. PICK n, m \in Nat : /\ Recovers(store, index, n) /\ Recovers(store', index', m)
                            /\ ContentStep(Entries(store, index, n), Entries(store', index', m))
    BY EveryStep DEF GoodStep
  <2>2. TypeOK' /\ LogInv'
    BY EveryStep DEF GoodStep
  <2>3. Content = Entries(store, index, n)
    <3>1. index \in Seq(Nat) /\ count \in Nat
      BY Types
    <3>2. pc = "idle" => count = n
      <4>1. PICK k \in Nat : Recovers(store, index, k) /\ (pc = "idle" => k = count)
        BY StateRecovers
      <4>2. k = n
        BY <2>1, <3>1, <4>1, KeptIs
      <4> QED  BY <4>1, <4>2
    <3> QED  BY <2>1, <3>1, <3>2, ContentIs, ContentIsRecovered
  <2>4. Content' = Entries(store', index', m)
    <3>1. index' \in Seq(Nat) /\ Len(index') \in Nat /\ count' \in Nat
      BY <2>2, LenProperties DEF TypeOK
    <3>2. pc' = "idle" => count' = m
      <4>1. SUFFICES ASSUME pc' = "idle"  PROVE count' = m
        OBVIOUS
      <4>2. Laid(store', index', count') /\ Len(index') = 2 * count'
        BY <2>2, <4>1 DEF LogInv, Counted
      <4>3. Recovers(store', index', count')
        <5>1. ASSUME NEW c \in Nat, NEW len, len = 2 * c  PROVE ~(2 * c + 2 <= len)
          BY <5>1
        <5>2. ~(2 * count' + 2 <= Len(index'))
          BY <3>1, <4>2, <5>1
        <5> QED  BY <4>2, <5>2 DEF Recovers
      <4> QED  BY <2>1, <3>1, <4>3, KeptIs
    <3> QED  BY <2>1, <3>1, <3>2, ContentIs, ContentIsRecovered
  <2>5. ContentStep(Content, Content')
    BY <2>1, <2>3, <2>4
  <2>6. open \in BOOLEAN /\ open' \in BOOLEAN
    BY <2>2 DEF TypeOK
  <2> HIDE DEF Content
  <2>7. \/ Content' = Content /\ open' = open
        \/ Content' = Content /\ open /\ ~open'
        \/ Content' = Content /\ Content # <<>> /\ ~open /\ open' = TRUE
        \/ ~open /\ open' = open /\ Content = <<>> /\ Content' = <<Dummy>>
        \/ open /\ open' = open /\ \E e \in Entry : Content' = Append(Content, e)
        \/ open /\ open' = open /\ \E i \in 1..Len(Content) : Content' = SubSeq(Content, 1, i)
    BY <2>5, <2>6 DEF ContentStep
  <2> QED
    BY <2>6, <2>7 DEF Content, Durable!Next, Durable!vars, Durable!Initialise, Durable!Open, Durable!Extend,
       Durable!Cut, Durable!Crash
<1> QED  BY <1>1, <1>2, LogInvariant, PTL DEF Spec, ImplementsDurableLog, Durable!Spec
=============================================================================
