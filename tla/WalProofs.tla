------------------------------- MODULE WalProofs -------------------------------
(***************************************************************************)
(* Proofs about Wal, from the invariants of WalInvariants: one lemma per   *)
(* action for FilesInv, together with what the step keeps of the files,    *)
(* and one for CountInv.                                                   *)
(***************************************************************************)
EXTENDS WalInvariants, TLAPS, FiniteSetTheorems, SequenceTheorems

-----------------------------------------------------------------------------
(***************************************************************************)
(* Facts about InOrder and the buffered writer.                            *)
(***************************************************************************)
\* How many elements of S are not above x.
Rank(S, x) == Cardinality({y \in S : y <= x})

\* InOrder enumerates a finite set of numbers, smaller ones first.
LEMMA InOrderSorts ==
    ASSUME NEW S \in SUBSET Nat, IsFiniteSet(S)
    PROVE  /\ InOrder(S) \in [1..Cardinality(S) -> S]
           /\ Cardinality(S) \in Nat
           /\ \A i, j \in 1..Cardinality(S) : i < j => InOrder(S)[i] < InOrder(S)[j]
           /\ \A x \in S : \E i \in 1..Cardinality(S) : InOrder(S)[i] = x
  <1> DEFINE n == Cardinality(S)
             Below(x) == {y \in S : y <= x}
             f == [x \in S |-> Rank(S, x)]
  <1>1. n \in Nat
    BY FS_CardinalityType
  <1>2. \A x \in S : IsFiniteSet(Below(x)) /\ Rank(S, x) \in 1..n
    <2> SUFFICES ASSUME NEW x \in S
                 PROVE  IsFiniteSet(Below(x)) /\ Rank(S, x) \in 1..n
      OBVIOUS
    <2>1. Below(x) \in SUBSET S /\ x \in Below(x)
      OBVIOUS
    <2>2. IsFiniteSet(Below(x)) /\ Cardinality(Below(x)) <= n
      BY <2>1, FS_Subset
    <2>3. Cardinality(Below(x)) \in Nat /\ Cardinality(Below(x)) # 0
      BY <2>1, <2>2, FS_CardinalityType, FS_EmptySet
    <2> QED BY <1>1, <2>2, <2>3 DEF Rank
  <1>3. \A x, y \in S : x < y => Rank(S, x) < Rank(S, y)
    <2> SUFFICES ASSUME NEW x \in S, NEW y \in S, x < y
                 PROVE  Rank(S, x) < Rank(S, y)
      OBVIOUS
    <2>1. Below(x) \in SUBSET Below(y) /\ Below(x) # Below(y)
      <3>1. x \in Nat /\ y \in Nat
        OBVIOUS
      <3>2. y \in Below(y) /\ y \notin Below(x)
        BY <3>1
      <3>3. \A z \in S : z <= x => z <= y
        BY <3>1
      <3> QED BY <3>2, <3>3
    <2>2. Cardinality(Below(x)) <= Cardinality(Below(y))
          /\ Cardinality(Below(x)) # Cardinality(Below(y))
      BY <1>2, <2>1, FS_Subset
    <2>3. Cardinality(Below(x)) \in Nat /\ Cardinality(Below(y)) \in Nat
      BY <1>2, FS_CardinalityType
    <2> QED BY <2>2, <2>3 DEF Rank
  <1>4. f \in Injection(S, 1..n)
    <2>1. f \in [S -> 1..n]
      BY <1>2
    <2>2. \A x, y \in S : f[x] = f[y] => x = y
      <3> SUFFICES ASSUME NEW x \in S, NEW y \in S, x # y
                   PROVE  Rank(S, x) # Rank(S, y)
        OBVIOUS
      <3>1. x < y \/ y < x
        OBVIOUS
      <3>2. Rank(S, x) \in Nat /\ Rank(S, y) \in Nat
        <4>1. \A k \in 1..n : k \in Nat
          BY <1>1
        <4> QED BY <1>2, <4>1
      <3> QED BY <1>3, <3>1, <3>2
    <2> QED BY <2>1, <2>2 DEF Injection, IsInjective
  <1>5. \A i \in 1..n : \E x \in S : Rank(S, x) = i
    <2>1. IsFiniteSet(1..n) /\ Cardinality(1..n) = n
      BY <1>1, FS_Interval
    <2>2. f \in Surjection(S, 1..n)
      BY <1>4, <2>1, FS_Injection
    <2> QED BY <2>2 DEF Surjection
  <1>6. \A i \in 1..n : InOrder(S)[i] \in S /\ Rank(S, InOrder(S)[i]) = i
    <2> SUFFICES ASSUME NEW i \in 1..n
                 PROVE  InOrder(S)[i] \in S /\ Rank(S, InOrder(S)[i]) = i
      OBVIOUS
    <2>1. InOrder(S)[i] = CHOOSE x \in S : Rank(S, x) = i
      BY DEF InOrder, Rank
    <2> QED BY <1>5, <2>1
  <1>7. InOrder(S) \in [1..n -> S]
    BY <1>6 DEF InOrder
  <1>8. ASSUME NEW i \in 1..n, NEW j \in 1..n, i < j
        PROVE  InOrder(S)[i] < InOrder(S)[j]
    <2>1. InOrder(S)[i] \in Nat /\ InOrder(S)[j] \in Nat
      BY <1>6
    <2>2. CASE InOrder(S)[i] = InOrder(S)[j]
      BY <1>6, <1>8, <2>2
    <2>3. CASE InOrder(S)[j] < InOrder(S)[i]
      <3>1. Rank(S, InOrder(S)[j]) < Rank(S, InOrder(S)[i])
        BY <1>3, <1>6, <2>3
      <3>2. j < i
        BY <1>6, <3>1
      <3> QED BY <1>1, <1>8, <3>2
    <2> QED BY <2>1, <2>2, <2>3
  <1>9. ASSUME NEW x \in S
        PROVE  \E i \in 1..n : InOrder(S)[i] = x
    <2>1. PICK i \in 1..n : i = Rank(S, x)
      BY <1>2
    <2>2. Rank(S, InOrder(S)[i]) = Rank(S, x) /\ InOrder(S)[i] \in S
      BY <1>6, <2>1
    <2>3. f[InOrder(S)[i]] = f[x]
      BY <2>2
    <2>4. InOrder(S)[i] = x
      BY <1>4, <2>2, <2>3 DEF Injection, IsInjective
    <2> QED BY <2>4
  <1> QED BY <1>1, <1>7, <1>8, <1>9

\* A part of a sequence.
LEMMA PartOfSeq ==
    ASSUME NEW T, NEW w \in Seq(T), NEW m \in Nat, m >= 1, NEW n \in Nat, n <= Len(w),
           m <= n + 1
    PROVE  SubSeq(w, m, n) \in Seq(T) /\ Len(SubSeq(w, m, n)) = n - m + 1
  <1>1. m \in Int /\ n \in Int
    OBVIOUS
  <1>2. \A i \in m..n : w[i] \in T
    OBVIOUS
  <1>3. SubSeq(w, m, n) \in Seq(T)
        /\ Len(SubSeq(w, m, n)) = IF m <= n THEN n - m + 1 ELSE 0
    BY <1>1, <1>2, SubSeqProperties
  <1> QED BY <1>3

\* The first words of a sequence.
LEMMA FirstPart ==
    ASSUME NEW T, NEW w \in Seq(T), NEW m \in Nat, m <= Len(w)
    PROVE  SubSeq(w, 1, m) \in Seq(T) /\ Len(SubSeq(w, 1, m)) = m
  <1>1. 1 \in Nat /\ 1 >= 1 /\ 1 <= m + 1 /\ m - 1 + 1 = m
    OBVIOUS
  <1>2. SubSeq(w, 1, m) \in Seq(T) /\ Len(SubSeq(w, 1, m)) = m - 1 + 1
    BY <1>1, PartOfSeq, SMTT(60)
  <1> QED BY <1>1, <1>2

\* Its last words.
LEMMA LastPart ==
    ASSUME NEW T, NEW w \in Seq(T), NEW m \in Nat, m <= Len(w)
    PROVE  SubSeq(w, m + 1, Len(w)) \in Seq(T) /\ Len(SubSeq(w, m + 1, Len(w))) = Len(w) - m
  <1>1. PICK k, n : k = m + 1 /\ n = Len(w)
    OBVIOUS
  <1>2. k \in Nat /\ k >= 1 /\ n \in Nat /\ n <= Len(w) /\ k <= n + 1 /\ n - k + 1 = n - m
    BY <1>1
  <1>3. SubSeq(w, k, n) \in Seq(T) /\ Len(SubSeq(w, k, n)) = n - k + 1
    BY <1>2, PartOfSeq, SMTT(60)
  <1> QED BY <1>1, <1>2, <1>3

\* A sequence in two parts.
LEMMA Rejoined ==
    ASSUME NEW T, NEW w \in Seq(T), NEW m \in Nat, m <= Len(w)
    PROVE  SubSeq(w, 1, m) \o SubSeq(w, m + 1, Len(w)) = w
  <1>1. PICK n : n = Len(w)
    OBVIOUS
  <1>2. n \in Nat
    BY <1>1
  <1>3. 1 \in 1..(n + 1) /\ m \in (1 - 1)..n /\ n \in m..n
    BY <1>1, <1>2
  <1>4. SubSeq(w, 1, m) \o SubSeq(w, m + 1, n) = SubSeq(w, 1, n)
    BY <1>1, <1>3, ConcatAdjacentSubSeq, Zenon
  <1>5. SubSeq(w, 1, n) = w
    BY <1>1, SubSeqFull, Zenon
  <1> QED BY <1>1, <1>4, <1>5, Zenon

\* f is what is left in file and buffer when the words w of T were written behind
\* those that were there.
Added(T, file, buf, w, cap, f) ==
    \E u, b \in Seq(T) : /\ f = [file |-> file \o u, buf |-> b]
                         /\ Len(b) <= cap
                         /\ u \o b = buf \o w

\* A buffered write adds to the file only at the end, loses nothing, and leaves
\* a buffer within its capacity.
LEMMA BufWriteAdds ==
    ASSUME NEW T, NEW file \in Seq(T), NEW buf \in Seq(T), NEW w \in Seq(T),
           NEW cap \in Nat, Len(buf) <= cap
    PROVE  Added(T, file, buf, w, cap, BufWrite([file |-> file, buf |-> buf], w, cap))
  <1>a. Len(buf) \in Nat
    OBVIOUS
  <1>b. cap - Len(buf) \in Nat
    BY <1>a
  <1>0. PICK room \in Nat : room = cap - Len(buf)
    BY <1>b
  <1>1. Len(w) \in Nat /\ Len(buf) \in Nat /\ Len(file) \in Nat /\ <<>> \in Seq(T) /\ Len(<<>>) = 0
    OBVIOUS
  <1>2. CASE Len(w) <= room
    <2>1. BufWrite([file |-> file, buf |-> buf], w, cap) = [file |-> file, buf |-> buf \o w]
      BY <1>0, <1>2 DEF BufWrite
    <2>2. file = file \o <<>>
      BY ConcatEmptySeq
    <2>3. buf \o w \in Seq(T) /\ Len(buf \o w) = Len(buf) + Len(w)
      BY ConcatProperties
    <2>4. Len(buf \o w) <= cap
      BY <1>0, <1>1, <1>2, <2>3
    <2>5. <<>> \o (buf \o w) = buf \o w
      BY <2>3, ConcatEmptySeq, Zenon
    <2>6. BufWrite([file |-> file, buf |-> buf], w, cap) = [file |-> file \o <<>>, buf |-> buf \o w]
      BY <2>1, <2>2
    <2> QED BY <1>1, <2>3, <2>4, <2>5, <2>6, Zenon DEF Added
  <1>3. CASE Len(w) > room /\ buf = <<>>
    <2>1. BufWrite([file |-> file, buf |-> buf], w, cap) = [file |-> file \o w, buf |-> <<>>]
      BY <1>0, <1>1, <1>3 DEF BufWrite
    <2>2. Len(<<>>) <= cap
      BY <1>1
    <2>3. w \o <<>> = w /\ <<>> \o w = w
      BY ConcatEmptySeq, Zenon
    <2>4. w \o <<>> = buf \o w
      BY <1>3, <2>3, Zenon
    <2> QED BY <1>1, <2>1, <2>2, <2>4, Zenon DEF Added
  <1>4. CASE Len(w) > room /\ buf # <<>>
    <2>1. PICK fst, rest : fst = SubSeq(w, 1, room) /\ rest = SubSeq(w, room + 1, Len(w))
      OBVIOUS
    <2>a. room <= Len(w)
      BY <1>0, <1>1, <1>4
    <2>2. fst \in Seq(T) /\ Len(fst) = room
      BY <2>1, <2>a, FirstPart, Zenon
    <2>3. rest \in Seq(T) /\ Len(rest) = Len(w) - room
      BY <2>1, <2>a, LastPart, Zenon
    <2>b. fst \o rest = w
      BY <2>1, <2>a, Rejoined, Zenon
    <2>4. PICK bf : bf = buf \o fst
      OBVIOUS
    <2>5. bf \in Seq(T)
      BY <2>2, <2>4, ConcatProperties
    <2>6. (file \o buf) \o fst = file \o bf
      BY <2>2, <2>4, SMTT(60)
    <2>c. bf \o rest = buf \o w
      <3>1. (buf \o fst) \o rest = buf \o (fst \o rest)
        BY <2>2, <2>3, SMTT(60)
      <3> QED BY <2>4, <2>b, <3>1, Zenon
    <2>7. ~(Len(w) <= cap - Len(buf))
      BY <1>0, <1>1, <1>4
    <2>8. CASE Len(rest) <= cap
      <3>1. BufWrite([file |-> file, buf |-> buf], w, cap) =
                [file |-> (file \o buf) \o fst, buf |-> rest]
        BY <1>0, <1>4, <2>1, <2>7, <2>8, Zenon DEF BufWrite
      <3>2. BufWrite([file |-> file, buf |-> buf], w, cap) = [file |-> file \o bf, buf |-> rest]
        BY <2>6, <3>1
      <3> QED BY <2>3, <2>5, <2>8, <2>c, <3>2, Zenon DEF Added
    <2>9. CASE ~(Len(rest) <= cap)
      <3>1. BufWrite([file |-> file, buf |-> buf], w, cap) =
                [file |-> ((file \o buf) \o fst) \o rest, buf |-> <<>>]
        BY <1>0, <1>4, <2>1, <2>7, <2>9, Zenon DEF BufWrite
      <3>2. PICK u : u = bf \o rest
        OBVIOUS
      <3>3. u \in Seq(T)
        BY <2>3, <2>5, <3>2, ConcatProperties
      <3>4. (file \o bf) \o rest = file \o u
        BY <2>3, <2>5, <3>2, SMTT(60)
      <3>5. BufWrite([file |-> file, buf |-> buf], w, cap) = [file |-> file \o u, buf |-> <<>>]
        BY <2>6, <3>1, <3>4
      <3>6. Len(<<>>) <= cap
        BY <1>1
      <3>7. u \o <<>> = buf \o w
        <4>1. u \o <<>> = u
          BY <3>3, ConcatEmptySeq, Zenon
        <4> QED BY <2>c, <3>2, <4>1, Zenon
      <3> QED BY <1>1, <3>3, <3>5, <3>6, <3>7, Zenon DEF Added
    <2> QED BY <2>8, <2>9
  <1>5. Len(w) <= room \/ Len(w) > room
    BY <1>0, <1>1
  <1> QED BY <1>2, <1>3, <1>4, <1>5

\* The same of two writes in a row.
LEMMA BufWriteTwice ==
    ASSUME NEW T, NEW file \in Seq(T), NEW buf \in Seq(T), NEW v \in Seq(T), NEW w \in Seq(T),
           NEW cap \in Nat, Len(buf) <= cap
    PROVE  Added(T, file, buf, v \o w, cap,
                 BufWrite(BufWrite([file |-> file, buf |-> buf], v, cap), w, cap))
  <1>0. Added(T, file, buf, v, cap, BufWrite([file |-> file, buf |-> buf], v, cap))
    BY BufWriteAdds
  <1>1. PICK x, y \in Seq(T) :
           /\ BufWrite([file |-> file, buf |-> buf], v, cap) = [file |-> file \o x, buf |-> y]
           /\ Len(y) <= cap
           /\ x \o y = buf \o v
    BY <1>0, Zenon DEF Added
  <1>2. PICK fx : fx = file \o x
    OBVIOUS
  <1>3. fx \in Seq(T)
    BY <1>1, <1>2, ConcatProperties
  <1>f. Added(T, fx, y, w, cap, BufWrite([file |-> fx, buf |-> y], w, cap))
    BY <1>1, <1>3, BufWriteAdds
  <1>4. PICK z, b \in Seq(T) :
           /\ BufWrite([file |-> fx, buf |-> y], w, cap) = [file |-> fx \o z, buf |-> b]
           /\ Len(b) <= cap
           /\ z \o b = y \o w
    BY <1>f, Zenon DEF Added
  <1>5. PICK u : u = x \o z
    OBVIOUS
  <1>6. u \in Seq(T)
    BY <1>1, <1>4, <1>5, ConcatProperties
  <1>7. fx \o z = file \o u
    <2>0. x \in Seq(T) /\ z \in Seq(T)
      BY <1>1, <1>4, Zenon
    <2>1. (file \o x) \o z = file \o (x \o z)
      BY <2>0, SMTT(60)
    <2> QED BY <1>2, <1>5, <2>1, Zenon
  <1>8. u \o b = buf \o (v \o w)
    <2>0. x \in Seq(T) /\ y \in Seq(T) /\ z \in Seq(T) /\ b \in Seq(T)
      BY <1>1, <1>4, Zenon
    <2>1. (x \o z) \o b = x \o (z \o b)
      BY <2>0, SMTT(60)
    <2>2. (x \o y) \o w = x \o (y \o w)
      BY <2>0, SMTT(60)
    <2>3. (buf \o v) \o w = buf \o (v \o w)
      BY SMTT(60)
    <2>4. x \o (z \o b) = x \o (y \o w) /\ (x \o y) \o w = (buf \o v) \o w
      BY <1>1, <1>4, Zenon
    <2> QED BY <1>5, <2>1, <2>2, <2>3, <2>4
  <1>9. BufWrite(BufWrite([file |-> file, buf |-> buf], v, cap), w, cap) =
            [file |-> file \o u, buf |-> b]
    BY <1>1, <1>2, <1>4, <1>7, Zenon
  <1> QED BY <1>4, <1>6, <1>8, <1>9, Zenon DEF Added

\* A record in the store is a header and as many words as its value has.
LEMMA RecordIs ==
    ASSUME NEW n \in Offset
    PROVE  Record(n) \in Seq(Word) /\ Len(Record(n)) = ValueWords[n] + 1 /\ ValueWords[n] \in Nat
  <1>1. ValueWords[n] \in Nat
    BY ValueAssumption
  <1>2. PICK m \in Nat : m = ValueWords[n] + 1
    BY <1>1
  <1>3. \A w \in 1..m : [rec |-> n, part |-> w - 1] \in Word
    BY <1>2 DEF Word
  <1>4. Record(n) = [w \in 1..m |-> [rec |-> n, part |-> w - 1]]
    BY <1>2 DEF Record
  <1> HIDE DEF Word
  <1>5. Record(n) \in [1..m -> Word]
    BY <1>3, <1>4
  <1>6. Record(n) \in Seq(Word) /\ Len(Record(n)) = m
    BY <1>4, <1>5
  <1> QED BY <1>1, <1>2, <1>6

\* logStore.Append adds a record to a store.
LEMMA StoreAppendAdds ==
    ASSUME NEW file \in Seq(Word), NEW buf \in Seq(Word), Len(buf) <= StoreBuf,
           NEW n \in Offset
    PROVE  Added(Word, file, buf, Record(n), StoreBuf,
                 StoreAppend([file |-> file, buf |-> buf], n))
  <1>1. PICK r : r = Record(n)
    OBVIOUS
  <1>2. r \in Seq(Word) /\ 1 <= Len(r) /\ 1 \in Nat /\ 1 + 1 = 2
    BY <1>1, RecordIs
  <1>3. PICK v, w : v = SubSeq(r, 1, 1) /\ w = SubSeq(r, 2, Len(r))
    OBVIOUS
  <1>4. w = SubSeq(r, 1 + 1, Len(r))
    BY <1>2, <1>3, Zenon
  <1>5. v \in Seq(Word)
    BY <1>2, <1>3, FirstPart, Zenon
  <1>6. w \in Seq(Word)
    BY <1>2, <1>4, LastPart, Zenon
  <1>7. v \o w = r
    BY <1>2, <1>3, <1>4, Rejoined, Zenon
  <1>8. StoreBuf \in Nat
    BY CapacityAssumption
  <1>9. StoreAppend([file |-> file, buf |-> buf], n) =
            BufWrite(BufWrite([file |-> file, buf |-> buf], v, StoreBuf), w, StoreBuf)
    BY <1>1, <1>3 DEF StoreAppend
  <1>10. Added(Word, file, buf, v \o w, StoreBuf,
               BufWrite(BufWrite([file |-> file, buf |-> buf], v, StoreBuf), w, StoreBuf))
    BY <1>5, <1>6, <1>8, BufWriteTwice
  <1> QED BY <1>1, <1>7, <1>9, <1>10, Zenon

\* index.Write adds an entry to an index.
LEMMA IndexWriteAdds ==
    ASSUME NEW file \in Seq(Nat), NEW buf \in Seq(Nat), Len(buf) <= IndexBuf,
           NEW rel \in Nat, NEW position \in Nat
    PROVE  Added(Nat, file, buf, IndexEntry(rel, position), IndexBuf,
                 IndexWrite([file |-> file, buf |-> buf], rel, position))
  <1>1. PICK e : e = IndexEntry(rel, position)
    OBVIOUS
  <1>2. e \in Seq(Nat) /\ Len(e) = 3
    BY <1>1 DEF IndexEntry
  <1>3. PICK v, w : v = SubSeq(e, 1, 1) /\ w = SubSeq(e, 2, 3)
    OBVIOUS
  <1>4. 1 \in Nat /\ 1 <= Len(e) /\ 1 + 1 = 2
    BY <1>2
  <1>5. w = SubSeq(e, 1 + 1, Len(e))
    BY <1>2, <1>3, <1>4, Zenon
  <1>6. v \in Seq(Nat)
    BY <1>2, <1>3, <1>4, FirstPart, Zenon
  <1>7. w \in Seq(Nat)
    BY <1>2, <1>4, <1>5, LastPart, Zenon
  <1>8. v \o w = e
    BY <1>2, <1>3, <1>4, <1>5, Rejoined, Zenon
  <1>9. IndexBuf \in Nat
    BY CapacityAssumption
  <1>10. IndexWrite([file |-> file, buf |-> buf], rel, position) =
            BufWrite(BufWrite([file |-> file, buf |-> buf], v, IndexBuf), w, IndexBuf)
    BY <1>1, <1>3 DEF IndexWrite
  <1>11. Added(Nat, file, buf, v \o w, IndexBuf,
               BufWrite(BufWrite([file |-> file, buf |-> buf], v, IndexBuf), w, IndexBuf))
    BY <1>6, <1>7, <1>9, BufWriteTwice
  <1> QED BY <1>1, <1>8, <1>10, <1>11, Zenon

-----------------------------------------------------------------------------
(***************************************************************************)
(* Facts about an open log.                                                *)
(***************************************************************************)
\* Whole index entries.
LEMMA WholeEntries ==
    ASSUME NEW n \in Nat
    PROVE  n \div 3 \in Nat
  OBVIOUS

\* What newSegment makes of files: a segment with empty buffers.
LEMMA OpenSegmentIs ==
    ASSUME NEW b \in Nat, NEW f \in File
    PROVE  /\ OpenSegment(b, f) \in Segment
           /\ OpenSegment(b, f).base = b
           /\ OpenSegment(b, f).next = b + Len(f.index) \div 3
           /\ b <= OpenSegment(b, f).next
           /\ OpenSegment(b, f).sbuf = <<>> /\ OpenSegment(b, f).ibuf = <<>>
  <1>1. f.index \in Seq(Nat) /\ f.store \in Seq(Word)
    BY DEF File
  <1>2. Len(f.index) \in Nat /\ Len(f.store) \in Nat
    BY <1>1
  <1>a. PICK q \in Nat : q = Len(f.index) \div 3
    BY <1>2, WholeEntries
  <1>3. PICK n \in Nat : n = b + q
    OBVIOUS
  <1>4. b <= n
    BY <1>3
  <1>5. <<>> \in Seq(Word) /\ <<>> \in Seq(Nat)
    OBVIOUS
  <1>6. OpenSegment(b, f) = [base |-> b, next |-> n, size |-> Len(f.store),
                             sbuf |-> <<>>, ibuf |-> <<>>]
    BY <1>a, <1>3 DEF OpenSegment
  <1>7. OpenSegment(b, f) \in Segment
    BY <1>2, <1>5, <1>6 DEF Segment
  <1>8. /\ OpenSegment(b, f).base = b /\ OpenSegment(b, f).next = n
        /\ OpenSegment(b, f).sbuf = <<>> /\ OpenSegment(b, f).ibuf = <<>>
    BY <1>6
  <1> QED BY <1>a, <1>3, <1>4, <1>7, <1>8, Zenon

\* newWAL opens the segments in the order of their bases, the newest one last.
LEMMA OpenedIs ==
    ASSUME NEW d, Files(d), DOMAIN d # {}
    PROVE  /\ Opened(d) \in Seq(Segment)
           /\ Len(Opened(d)) \in Nat /\ Len(Opened(d)) > 0
           /\ \A i \in 1..Len(Opened(d)) :
                 /\ Opened(d)[i].base \in DOMAIN d
                 /\ Opened(d)[i] = OpenSegment(Opened(d)[i].base, d[Opened(d)[i].base])
           /\ \A i, j \in 1..Len(Opened(d)) : i < j => Opened(d)[i].base < Opened(d)[j].base
           /\ \A b \in DOMAIN d : \E i \in 1..Len(Opened(d)) : Opened(d)[i].base = b
           /\ \A b \in DOMAIN d : b <= Opened(d)[Len(Opened(d))].base
  <1>1. PICK B : B = DOMAIN d
    OBVIOUS
  <1>2. B \in SUBSET Nat /\ IsFiniteSet(B) /\ B # {} /\ d \in [B -> File]
    BY <1>1 DEF Files
  <1>3. PICK n, o : n = Cardinality(B) /\ o = InOrder(B)
    OBVIOUS
  <1>4. /\ o \in [1..n -> B] /\ n \in Nat
        /\ \A i, j \in 1..n : i < j => o[i] < o[j]
        /\ \A x \in B : \E i \in 1..n : o[i] = x
    BY <1>2, <1>3, InOrderSorts
  <1>5. n > 0
    <2>1. PICK x \in B : TRUE
      BY <1>2
    <2>2. PICK i \in 1..n : o[i] = x
      BY <1>4
    <2> QED BY <1>4
  <1>6. Len(o) = n
    <2>1. o \in Seq(B)
      BY <1>4
    <2> QED BY <1>4, <2>1
  <1>7. Opened(d) = [i \in 1..n |-> OpenSegment(o[i], d[o[i]])]
    BY <1>1, <1>3, <1>6 DEF Opened
  <1>8. \A i \in 1..n : o[i] \in Nat /\ o[i] \in B /\ d[o[i]] \in File
    BY <1>2, <1>4
  <1>9. \A i \in 1..n : /\ OpenSegment(o[i], d[o[i]]) \in Segment
                        /\ OpenSegment(o[i], d[o[i]]).base = o[i]
    BY <1>8, OpenSegmentIs, Zenon
  <1>10. Opened(d) \in Seq(Segment) /\ Len(Opened(d)) = n
    <2>1. Opened(d) \in [1..n -> Segment]
      BY <1>7, <1>9, Zenon
    <2>2. Opened(d) \in Seq(Segment)
      BY <1>4, <2>1
    <2> QED BY <1>4, <2>1, <2>2
  <1>11. \A i \in 1..n : Opened(d)[i] = OpenSegment(o[i], d[o[i]]) /\ Opened(d)[i].base = o[i]
    BY <1>7, <1>9
  <1>12. \A i \in 1..n : o[i] <= o[n]
    <2> SUFFICES ASSUME NEW i \in 1..n
                 PROVE  o[i] <= o[n]
      OBVIOUS
    <2>1. n \in 1..n
      BY <1>4, <1>5
    <2>2. o[i] \in Nat /\ o[n] \in Nat
      BY <1>8, <2>1
    <2>3. CASE i < n
      BY <1>4, <2>1, <2>2, <2>3
    <2>4. CASE i = n
      BY <2>2, <2>4
    <2> QED BY <1>4, <2>3, <2>4
  <1>13. \A b \in B : b <= Opened(d)[n].base
    <2>1. n \in 1..n
      BY <1>4, <1>5
    <2> QED BY <1>4, <1>11, <1>12, <2>1
  <1>14. \A b \in B : \E i \in 1..n : Opened(d)[i].base = b
    BY <1>4, <1>11
  <1>15. \A i, j \in 1..n : i < j => Opened(d)[i].base < Opened(d)[j].base
    BY <1>4, <1>11
  <1>16. \A i \in 1..n : /\ Opened(d)[i].base \in B
                         /\ Opened(d)[i] = OpenSegment(Opened(d)[i].base, d[Opened(d)[i].base])
    BY <1>8, <1>11
  <1> QED BY <1>1, <1>4, <1>5, <1>10, <1>13, <1>14, <1>15, <1>16, Zenon

\* So it opens a log that has all of its meta files.
LEMMA OpenedIsOpen ==
    ASSUME NEW d, Files(d), DOMAIN d # {}, \A b \in DOMAIN d : d[b].meta = "written"
    PROVE  OpenLog(d, Opened(d))
  <1>1. PICK s : s = Opened(d)
    OBVIOUS
  <1>2. /\ s \in Seq(Segment) /\ Len(s) \in Nat /\ Len(s) > 0
        /\ \A i \in 1..Len(s) : /\ s[i].base \in DOMAIN d
                                /\ s[i] = OpenSegment(s[i].base, d[s[i].base])
        /\ \A b \in DOMAIN d : b <= s[Len(s)].base
    BY <1>1, OpenedIs
  <1>3. \A b \in DOMAIN d : b \in Nat /\ d[b] \in File
    BY DEF Files
  <1>4. StoreBuf \in Nat /\ IndexBuf \in Nat /\ Len(<<>>) = 0
    BY CapacityAssumption
  <1>5. ASSUME NEW i \in 1..Len(s)
        PROVE  /\ s[i].base \in DOMAIN d
               /\ s[i].base <= s[i].next
               /\ Len(s[i].sbuf) <= StoreBuf /\ Len(s[i].ibuf) <= IndexBuf
    <2>1. PICK b : b = s[i].base
      OBVIOUS
    <2>0. s[i].base \in DOMAIN d /\ s[i] = OpenSegment(s[i].base, d[s[i].base])
      BY <1>2
    <2>a. b \in DOMAIN d /\ s[i] = OpenSegment(b, d[b])
      BY <2>0, <2>1, Zenon
    <2>2. b \in Nat /\ d[b] \in File /\ s[i] = OpenSegment(b, d[b]) /\ b \in DOMAIN d
      BY <1>3, <2>a, Zenon
    <2>3. b <= s[i].next /\ s[i].sbuf = <<>> /\ s[i].ibuf = <<>>
      <3>1. /\ b <= OpenSegment(b, d[b]).next
            /\ OpenSegment(b, d[b]).sbuf = <<>> /\ OpenSegment(b, d[b]).ibuf = <<>>
        BY <2>2, OpenSegmentIs, ZenonT(90)
      <3> QED BY <2>2, <3>1, Zenon
    <2> QED BY <1>4, <2>1, <2>2, <2>3
  <1>6. Segments(d, s)
    BY <1>2, <1>5, Zenon DEF Segments
  <1> QED BY <1>1, <1>2, <1>6, Zenon DEF OpenLog

\* Files g are files f with something written behind what was there.
Extended(f, g) == \E u \in Seq(Word), x \in Seq(Nat) :
                     g.store = f.store \o u /\ g.index = f.index \o x

\* Files are only written to at their end.
Grows(d, e) == /\ e \in [DOMAIN d -> File]
               /\ \A b \in DOMAIN d : /\ e[b].meta = d[b].meta
                                      /\ e[b].linked = d[b].linked
                                      /\ Extended(d[b], e[b])

\* The parts of a file record.
LEMMA FileParts ==
    ASSUME NEW f \in File
    PROVE  /\ f.store \in Seq(Word) /\ f.index \in Seq(Nat)
           /\ f.meta \in {"none", "empty", "written"}
           /\ f.expired \in BOOLEAN /\ f.linked \in BOOLEAN
  BY DEF File

\* The parts of a segment.
LEMMA SegmentParts ==
    ASSUME NEW s \in Segment
    PROVE  /\ s.base \in Nat /\ s.next \in Nat /\ s.size \in Nat
           /\ s.sbuf \in Seq(Word) /\ s.ibuf \in Seq(Nat)
  BY DEF Segment

\* A file is itself with nothing written to it.
LEMMA SelfExtended ==
    ASSUME NEW f \in File
    PROVE  Extended(f, f)
  <1>1. f.store \in Seq(Word) /\ f.index \in Seq(Nat)
    BY FileParts
  <1>2. f.store = f.store \o <<>> /\ f.index = f.index \o <<>>
    BY <1>1, ConcatEmptySeq
  <1>3. <<>> \in Seq(Word) /\ <<>> \in Seq(Nat)
    OBVIOUS
  <1> QED BY <1>2, <1>3, Zenon DEF Extended

\* Writing store u and index x behind the files of one base.
LEMMA WritesGrow ==
    ASSUME NEW d, Files(d), NEW b \in DOMAIN d, NEW u \in Seq(Word), NEW x \in Seq(Nat),
           NEW e, e = [d EXCEPT ![b].store = d[b].store \o u, ![b].index = d[b].index \o x]
    PROVE  Grows(d, e)
  <1>1. \A c \in DOMAIN d : d[c] \in File
    BY DEF Files
  <1>2. d \in [DOMAIN d -> File]
    BY DEF Files
  <1>3. PICK f : f = d[b]
    OBVIOUS
  <1>4. f \in File
    BY <1>1, <1>3
  <1>5. PICK g : g = [f EXCEPT !.store = f.store \o u, !.index = f.index \o x]
    OBVIOUS
  <1>6. f.store \o u \in Seq(Word) /\ f.index \o x \in Seq(Nat)
    BY <1>4, FileParts, ConcatProperties
  <1>7. /\ g \in File /\ g.meta = f.meta /\ g.linked = f.linked
        /\ g.store = f.store \o u /\ g.index = f.index \o x
    BY <1>4, <1>5, <1>6 DEF File
  <1>8. Extended(f, g)
    BY <1>7, Zenon DEF Extended
  <1>9. e = [d EXCEPT ![b] = g]
    BY <1>2, <1>3, <1>5
  <1>10. e \in [DOMAIN d -> File]
    BY <1>2, <1>7, <1>9
  <1>11. ASSUME NEW c \in DOMAIN d
         PROVE  e[c].meta = d[c].meta /\ e[c].linked = d[c].linked /\ Extended(d[c], e[c])
    <2>1. CASE c = b
      <3>1. e[c] = g
        BY <1>2, <1>9, <2>1
      <3> QED BY <1>3, <1>7, <1>8, <2>1, <3>1
    <2>2. CASE c # b
      <3>1. e[c] = d[c]
        BY <1>2, <1>9, <2>2
      <3> QED BY <1>1, <3>1, SelfExtended
    <2> QED BY <2>1, <2>2
  <1> QED BY <1>10, <1>11, Zenon DEF Grows

\* An open log stays one when files grow and segments keep their bases.
LEMMA StaysOpen ==
    ASSUME NEW d, NEW s, OpenLog(d, s), NEW e, Grows(d, e),
           NEW t \in Seq(Segment), Len(t) = Len(s),
           \A i \in 1..Len(s) : /\ t[i].base = s[i].base
                                /\ t[i].base <= t[i].next
                                /\ Len(t[i].sbuf) <= StoreBuf /\ Len(t[i].ibuf) <= IndexBuf
    PROVE  OpenLog(e, t)
  <1>1. DOMAIN e = DOMAIN d /\ e \in [DOMAIN e -> File]
    BY DEF Grows
  <1>2. Files(e)
    BY <1>1 DEF OpenLog, Files
  <1>3. \A i \in 1..Len(s) : s[i].base \in DOMAIN d
    BY DEF OpenLog, Segments
  <1>4. Segments(e, t)
    BY <1>1, <1>3 DEF Segments
  <1>5. \A b \in DOMAIN e : e[b].meta = "written"
    BY <1>1 DEF OpenLog, Grows
  <1>6. Len(s) > 0 /\ Len(s) \in Nat
    BY DEF OpenLog, Segments
  <1>7. Len(s) \in 1..Len(s)
    BY <1>6
  <1>8. \A b \in DOMAIN e : b <= t[Len(t)].base
    BY <1>1, <1>7 DEF OpenLog
  <1> QED BY <1>2, <1>4, <1>5, <1>6, <1>8 DEF OpenLog

\* A flush of the buffers of segment i writes at the end of its files.
LEMMA SendsGrow ==
    ASSUME OpenLog(disk, segs), NEW i \in 1..Len(segs)
    PROVE  Grows(disk, SendStore(i)) /\ Grows(disk, SendIndex(i))
  <1>1. PICK b : b = segs[i].base
    OBVIOUS
  <1>2. b \in DOMAIN disk /\ segs[i] \in Segment
    BY <1>1 DEF OpenLog, Segments
  <1>3. Files(disk) /\ disk \in [DOMAIN disk -> File] /\ disk[b] \in File
    BY <1>2 DEF OpenLog, Files
  <1>4. PICK u, x : u = segs[i].sbuf /\ x = segs[i].ibuf
    OBVIOUS
  <1>5. u \in Seq(Word) /\ x \in Seq(Nat) /\ <<>> \in Seq(Word) /\ <<>> \in Seq(Nat)
    BY <1>2, <1>4, SegmentParts
  <1>6. disk[b].store = disk[b].store \o <<>> /\ disk[b].index = disk[b].index \o <<>>
    BY <1>3, FileParts, ConcatEmptySeq
  <1>7. SendStore(i) = [disk EXCEPT ![b].store = disk[b].store \o u,
                                    ![b].index = disk[b].index \o <<>>]
    <2>1. SendStore(i) = [disk EXCEPT ![b] = [disk[b] EXCEPT !.store = disk[b].store \o u]]
      BY <1>1, <1>3, <1>4 DEF SendStore
    <2>2. [disk[b] EXCEPT !.store = disk[b].store \o u] =
             [disk[b] EXCEPT !.store = disk[b].store \o u, !.index = disk[b].index \o <<>>]
      BY <1>3, <1>6 DEF File
    <2> QED BY <1>2, <1>3, <2>1, <2>2
  <1>8. SendIndex(i) = [disk EXCEPT ![b].store = disk[b].store \o <<>>,
                                    ![b].index = disk[b].index \o x]
    <2>1. SendIndex(i) = [disk EXCEPT ![b] = [disk[b] EXCEPT !.index = disk[b].index \o x]]
      BY <1>1, <1>3, <1>4 DEF SendIndex
    <2>2. [disk[b] EXCEPT !.index = disk[b].index \o x] =
             [disk[b] EXCEPT !.store = disk[b].store \o <<>>, !.index = disk[b].index \o x]
      BY <1>3, <1>6 DEF File
    <2> QED BY <1>2, <1>3, <2>1, <2>2
  <1>9. Grows(disk, SendStore(i))
    BY <1>2, <1>3, <1>5, <1>7, WritesGrow, Zenon
  <1>10. Grows(disk, SendIndex(i))
    BY <1>2, <1>3, <1>5, <1>8, WritesGrow, Zenon
  <1> QED BY <1>9, <1>10

\* The buffers of segment i emptied.
LEMMA EmptiedIs ==
    ASSUME OpenLog(disk, segs), NEW i \in 1..Len(segs), NEW t,
           \/ t = [segs EXCEPT ![i].ibuf = <<>>]
           \/ t = [segs EXCEPT ![i].sbuf = <<>>]
    PROVE  /\ t \in Seq(Segment) /\ Len(t) = Len(segs)
           /\ \A j \in 1..Len(segs) : /\ t[j].base = segs[j].base /\ t[j].next = segs[j].next
                                      /\ t[j].base <= t[j].next
                                      /\ Len(t[j].sbuf) <= StoreBuf /\ Len(t[j].ibuf) <= IndexBuf
  <1>1. segs \in Seq(Segment)
    BY DEF OpenLog, Segments
  <1>2. PICK g : g \in {[segs[i] EXCEPT !.ibuf = <<>>], [segs[i] EXCEPT !.sbuf = <<>>]}
                 /\ t = [segs EXCEPT ![i] = g]
    BY <1>1
  <1>3. segs[i] \in Segment
    BY <1>1
  <1>4. StoreBuf \in Nat /\ IndexBuf \in Nat /\ Len(<<>>) = 0
        /\ <<>> \in Seq(Word) /\ <<>> \in Seq(Nat)
    BY CapacityAssumption
  <1>5. \A j \in 1..Len(segs) : /\ segs[j].base <= segs[j].next
                                /\ Len(segs[j].sbuf) <= StoreBuf /\ Len(segs[j].ibuf) <= IndexBuf
    BY DEF OpenLog, Segments
  <1>6. /\ g \in Segment /\ g.base = segs[i].base /\ g.next = segs[i].next
        /\ g.sbuf \in {<<>>, segs[i].sbuf} /\ g.ibuf \in {<<>>, segs[i].ibuf}
    BY <1>2, <1>3, <1>4 DEF Segment
  <1>7. g.base <= g.next /\ Len(g.sbuf) <= StoreBuf /\ Len(g.ibuf) <= IndexBuf
    <2>1. Len(g.sbuf) \in {0, Len(segs[i].sbuf)} /\ Len(g.ibuf) \in {0, Len(segs[i].ibuf)}
      BY <1>4, <1>6
    <2> QED BY <1>4, <1>5, <1>6, <2>1
  <1>8. t \in Seq(Segment) /\ Len(t) = Len(segs) /\ t[i] = g
        /\ \A j \in 1..Len(segs) : j # i => t[j] = segs[j]
    BY <1>1, <1>2, <1>6
  <1>9. ASSUME NEW j \in 1..Len(segs)
        PROVE  /\ t[j].base = segs[j].base /\ t[j].next = segs[j].next
               /\ t[j].base <= t[j].next
               /\ Len(t[j].sbuf) <= StoreBuf /\ Len(t[j].ibuf) <= IndexBuf
    <2>1. CASE j = i
      BY <1>6, <1>7, <1>8, <2>1
    <2>2. CASE j # i
      BY <1>5, <1>8, <2>2
    <2> QED BY <2>1, <2>2
  <1> QED BY <1>8, <1>9

\* rotate leaves an open log, with all that was there before.
LEMMA GrownIsOpen ==
    ASSUME OpenLog(disk, segs)
    PROVE  /\ OpenLog(GrownDisk, Grown)
           /\ \/ Grown = segs /\ GrownDisk = disk
              \/ /\ Len(Grown) = Len(segs) + 1
                 /\ \A i \in 1..Len(segs) : Grown[i] = segs[i]
                 /\ DOMAIN GrownDisk = DOMAIN disk \cup {NextOffset}
                 /\ \A b \in DOMAIN disk : GrownDisk[b] = disk[b]
                 /\ NextOffset \notin DOMAIN disk => GrownDisk[NextOffset] = NewFiles
                 /\ Grown[Len(Grown)] = OpenSegment(NextOffset, GrownDisk[NextOffset])
  <1>1. CASE ~IsMaxed(segs[Active])
    BY <1>1 DEF Grown, GrownDisk
  <1>2. CASE IsMaxed(segs[Active])
    <2>1. PICK b, d, o, t : b = NextOffset /\ d = Rotated(b) /\ o = OpenSegment(b, d[b])
                            /\ t = Append(segs, o)
      OBVIOUS
    <2>2. Grown = t /\ GrownDisk = d
      BY <1>2, <2>1 DEF Grown, GrownDisk
    <2>3. segs \in Seq(Segment) /\ Len(segs) \in Nat /\ Len(segs) > 0
      BY DEF OpenLog, Segments
    <2>4. b \in Nat /\ segs[Len(segs)].base <= b /\ segs[Len(segs)].base \in Nat
      <3>1. Len(segs) \in 1..Len(segs)
        BY <2>3
      <3>2. segs[Len(segs)] \in Segment
        BY <2>3, <3>1
      <3>3. segs[Len(segs)].base <= segs[Len(segs)].next
        BY <3>1 DEF OpenLog, Segments
      <3>4. b = segs[Len(segs)].next
        BY <2>1 DEF NextOffset, Active
      <3> QED BY <3>2, <3>3, <3>4, SegmentParts
    <2>5. /\ DOMAIN disk \in SUBSET Nat /\ IsFiniteSet(DOMAIN disk)
          /\ disk \in [DOMAIN disk -> File]
          /\ \A c \in DOMAIN disk : disk[c].meta = "written"
          /\ \A c \in DOMAIN disk : c <= segs[Len(segs)].base
      BY DEF OpenLog, Files
    <2>6. NewFiles \in File /\ NewFiles.meta = "written"
      <3>1. <<>> \in Seq(Word) /\ <<>> \in Seq(Nat)
        OBVIOUS
      <3> QED BY <3>1 DEF NewFiles, File
    <2>7. /\ DOMAIN d = DOMAIN disk \cup {b}
          /\ \A c \in DOMAIN disk : d[c] = disk[c]
          /\ b \notin DOMAIN disk => d[b] = NewFiles
      <3>1. CASE b \in DOMAIN disk
        BY <2>1, <3>1 DEF Rotated
      <3>2. CASE b \notin DOMAIN disk
        <4>1. d = [c \in DOMAIN disk \cup {b} |-> IF c = b THEN NewFiles ELSE disk[c]]
          BY <2>1, <3>2 DEF Rotated
        <4> QED BY <3>2, <4>1
      <3> QED BY <3>1, <3>2
    <2>8. \A c \in DOMAIN d : d[c] \in File /\ d[c].meta = "written" /\ c \in Nat
      <3> SUFFICES ASSUME NEW c \in DOMAIN d
                   PROVE  d[c] \in File /\ d[c].meta = "written" /\ c \in Nat
        OBVIOUS
      <3>1. CASE c \in DOMAIN disk
        BY <2>5, <2>7, <3>1
      <3>2. CASE c \notin DOMAIN disk
        <4>1. c = b /\ d[c] = NewFiles
          BY <2>7, <3>2
        <4> QED BY <2>4, <2>6, <4>1
      <3> QED BY <3>1, <3>2
    <2>9. d \in [DOMAIN d -> File]
      <3>1. d = [c \in DOMAIN d |-> d[c]]
        <4>1. CASE b \in DOMAIN disk
          BY <2>1, <2>5, <4>1 DEF Rotated
        <4>2. CASE b \notin DOMAIN disk
          BY <2>1, <4>2 DEF Rotated
        <4> QED BY <4>1, <4>2
      <3> QED BY <2>8, <3>1
    <2>10. Files(d)
      <3>1. IsFiniteSet(DOMAIN disk \cup {b})
        BY <2>5, FS_AddElement
      <3> QED BY <2>7, <2>8, <2>9, <3>1 DEF Files
    <2>11. d[b] \in File /\ b \in DOMAIN d
      BY <2>7, <2>8
    <2>12. /\ o \in Segment /\ o.base = b /\ b <= o.next
           /\ o.sbuf = <<>> /\ o.ibuf = <<>>
      BY <2>1, <2>4, <2>11, OpenSegmentIs, ZenonT(90)
    <2>13. /\ t \in Seq(Segment) /\ Len(t) = Len(segs) + 1 /\ t[Len(t)] = o
           /\ \A i \in 1..Len(segs) : t[i] = segs[i]
      BY <2>1, <2>3, <2>12
    <2>14. StoreBuf \in Nat /\ IndexBuf \in Nat /\ Len(<<>>) = 0
      BY CapacityAssumption
    <2>15. Segments(d, t)
      <3>1. ASSUME NEW i \in 1..Len(t)
            PROVE  /\ t[i].base \in DOMAIN d /\ t[i].base <= t[i].next
                   /\ Len(t[i].sbuf) <= StoreBuf /\ Len(t[i].ibuf) <= IndexBuf
        <4>1. CASE i \in 1..Len(segs)
          <5>1. t[i] = segs[i]
            BY <2>13, <4>1
          <5>2. /\ segs[i].base \in DOMAIN disk /\ segs[i].base <= segs[i].next
                /\ Len(segs[i].sbuf) <= StoreBuf /\ Len(segs[i].ibuf) <= IndexBuf
            BY <4>1 DEF OpenLog, Segments
          <5> QED BY <2>7, <5>1, <5>2
        <4>2. CASE i = Len(t)
          BY <2>11, <2>12, <2>13, <2>14, <4>2
        <4> QED BY <2>3, <2>13, <4>1, <4>2
      <3> QED BY <2>13, <3>1, Zenon DEF Segments
    <2>16. \A c \in DOMAIN d : c <= t[Len(t)].base
      <3> SUFFICES ASSUME NEW c \in DOMAIN d
                   PROVE  c <= b
        BY <2>12, <2>13
      <3>1. CASE c = b
        BY <2>4, <3>1
      <3>2. CASE c \in DOMAIN disk
        <4>1. c <= segs[Len(segs)].base /\ c \in Nat
          BY <2>5, <3>2
        <4> QED BY <2>4, <4>1
      <3> QED BY <2>7, <3>1, <3>2
    <2>17. OpenLog(d, t)
      <3>1. \A c \in DOMAIN d : d[c].meta = "written"
        BY <2>8
      <3>2. Len(t) > 0
        BY <2>3, <2>13
      <3> QED BY <2>10, <2>15, <2>16, <3>1, <3>2, Zenon DEF OpenLog
    <2> QED BY <2>1, <2>2, <2>7, <2>13, <2>17
  <1> QED BY <1>1, <1>2

\* append writes behind the files of the active segment of a log that rotate may
\* have grown, and leaves the rest of the record and the entry in its buffers.
LEMMA AppendIs ==
    ASSUME FilesInv, append
    PROVE  /\ OpenLog(disk, segs) /\ applied \in Offset /\ applied' = applied + 1
           /\ \E g \in Segment, u \in Seq(Word), x \in Seq(Nat) :
                LET n == Len(Grown)
                    a == Grown[n]
                    d == GrownDisk
                IN  /\ disk' = [d EXCEPT ![a.base].store = d[a.base].store \o u,
                                         ![a.base].index = d[a.base].index \o x]
                    /\ segs' = [Grown EXCEPT ![n] = g]
                    /\ g.base = a.base /\ g.next = a.next + 1
                    /\ Len(g.sbuf) <= StoreBuf /\ Len(g.ibuf) <= IndexBuf
                    /\ Len(x) + Len(g.ibuf) = Len(a.ibuf) + 3
                    /\ u \o g.sbuf = a.sbuf \o Record(applied)
                    /\ x \o g.ibuf = a.ibuf \o IndexEntry(a.next - a.base, a.size)
                    /\ g.size = a.size + Len(Record(applied))
  <1>0. MayAppend /\ applied < MaxRecords /\ applied' = applied + 1
    BY Zenon DEF append
  <1>a. pc # "down"
    BY <1>0, Zenon DEF MayAppend, Behind
  <1>1. OpenLog(disk, segs)
    BY <1>a, Zenon DEF FilesInv
  <1>2. applied \in Offset /\ applied' = applied + 1
    BY <1>0, RecordsAssumption DEF FilesInv, StagesOK, Offset
  <1> DEFINE n == Len(Grown)
             a == Grown[n]
             d == GrownDisk
  <1> HIDE DEF n, a, d
  <1>4. OpenLog(d, Grown)
    BY <1>1, GrownIsOpen DEF d
  <1>5. Grown \in Seq(Segment) /\ n \in 1..Len(Grown) /\ a \in Segment
    <2>1. Grown \in Seq(Segment) /\ Len(Grown) > 0
      BY <1>4 DEF OpenLog, Segments
    <2> QED BY <2>1 DEF n, a
  <1>6. /\ a.base \in DOMAIN d /\ a.base <= a.next
        /\ Len(a.sbuf) <= StoreBuf /\ Len(a.ibuf) <= IndexBuf
    BY <1>4, <1>5 DEF OpenLog, Segments, a
  <1>7. d \in [DOMAIN d -> File] /\ d[a.base] \in File
    BY <1>4, <1>6 DEF OpenLog, Files
  <1>8. PICK sf, xf, sb, ib : /\ sf = d[a.base].store /\ xf = d[a.base].index
                              /\ sb = a.sbuf /\ ib = a.ibuf
    OBVIOUS
  <1>9. sf \in Seq(Word) /\ sb \in Seq(Word) /\ xf \in Seq(Nat) /\ ib \in Seq(Nat)
    BY <1>5, <1>7, <1>8, FileParts, SegmentParts
  <1>10. a.next - a.base \in Nat /\ a.size \in Nat
    BY <1>5, <1>6, SegmentParts
  <1>11. PICK s, e : /\ s = StoreAppend([file |-> sf, buf |-> sb], applied)
                     /\ e = IndexWrite([file |-> xf, buf |-> ib], a.next - a.base, a.size)
    OBVIOUS
  <1>12. Added(Word, sf, sb, Record(applied), StoreBuf, s)
    BY <1>2, <1>6, <1>8, <1>9, <1>11, StoreAppendAdds
  <1>13. Added(Nat, xf, ib, IndexEntry(a.next - a.base, a.size), IndexBuf, e)
    BY <1>6, <1>8, <1>9, <1>10, <1>11, IndexWriteAdds
  <1>14. PICK u, y \in Seq(Word) : /\ s = [file |-> sf \o u, buf |-> y] /\ Len(y) <= StoreBuf
                                   /\ u \o y = sb \o Record(applied)
    BY <1>12, Zenon DEF Added
  <1>15. PICK x, z \in Seq(Nat) : /\ e = [file |-> xf \o x, buf |-> z] /\ Len(z) <= IndexBuf
                                  /\ x \o z = ib \o IndexEntry(a.next - a.base, a.size)
    BY <1>13, Zenon DEF Added
  <1>c. Len(x) + Len(z) = Len(ib) + 3
    <2>1. PICK en : en = IndexEntry(a.next - a.base, a.size)
      OBVIOUS
    <2>2. en \in Seq(Nat) /\ Len(en) = 3
      BY <1>10, <2>1 DEF IndexEntry
    <2>3. Len(x \o z) = Len(x) + Len(z)
      BY <1>15, ConcatProperties, Zenon
    <2>4. Len(ib \o en) = Len(ib) + Len(en)
      BY <1>9, <2>2, ConcatProperties, Zenon
    <2>5. x \o z = ib \o en
      BY <1>15, <2>1, Zenon
    <2> QED BY <2>2, <2>3, <2>4, <2>5, Zenon
  <1>16. /\ disk' = [d EXCEPT ![a.base].store = s.file, ![a.base].index = e.file]
         /\ segs' = [Grown EXCEPT ![n].sbuf = s.buf, ![n].ibuf = e.buf,
                                  ![n].size = @ + Len(Record(applied)), ![n].next = @ + 1]
    BY <1>8, <1>11, Zenon DEF append, n, a, d
  <1>17. s.file = sf \o u /\ s.buf = y /\ e.file = xf \o x /\ e.buf = z
    BY <1>14, <1>15
  <1>18. disk' = [d EXCEPT ![a.base].store = sf \o u, ![a.base].index = xf \o x]
    BY <1>16, <1>17
  <1>19. PICK g : /\ segs' = [Grown EXCEPT ![n] = g]
                  /\ g \in Segment /\ g.base = a.base /\ g.next = a.next + 1
                  /\ g.sbuf = y /\ g.ibuf = z /\ g.size = a.size + Len(Record(applied))
    <2>1. PICK nx, sz : nx = a.next + 1 /\ sz = a.size + Len(Record(applied))
      OBVIOUS
    <2>2. nx \in Nat /\ sz \in Nat
      BY <1>2, <1>5, <2>1, RecordIs, SegmentParts, SMTT(90)
    <2>3. segs' = [Grown EXCEPT ![n].sbuf = y, ![n].ibuf = z,
                                ![n].size = @ + Len(Record(applied)), ![n].next = @ + 1]
      BY <1>16, <1>17
    <2>4. segs' = [Grown EXCEPT ![n] = [a EXCEPT !.sbuf = y, !.ibuf = z,
                                                 !.size = sz, !.next = nx]]
      BY <1>5, <2>1, <2>3 DEF a
    <2>5. PICK g : g = [a EXCEPT !.sbuf = y, !.ibuf = z, !.size = sz, !.next = nx]
      OBVIOUS
    <2>6. g \in Segment /\ g.base = a.base /\ g.next = nx /\ g.sbuf = y /\ g.ibuf = z /\ g.size = sz
      BY <1>5, <1>14, <1>15, <2>2, <2>5 DEF Segment
    <2> QED BY <2>1, <2>4, <2>5, <2>6
  <1>20. \E g1 \in Segment, u1 \in Seq(Word), x1 \in Seq(Nat) :
            /\ disk' = [d EXCEPT ![a.base].store = d[a.base].store \o u1,
                                 ![a.base].index = d[a.base].index \o x1]
            /\ segs' = [Grown EXCEPT ![n] = g1]
            /\ g1.base = a.base /\ g1.next = a.next + 1
            /\ Len(g1.sbuf) <= StoreBuf /\ Len(g1.ibuf) <= IndexBuf
            /\ Len(x1) + Len(g1.ibuf) = Len(a.ibuf) + 3
            /\ u1 \o g1.sbuf = a.sbuf \o Record(applied)
            /\ x1 \o g1.ibuf = a.ibuf \o IndexEntry(a.next - a.base, a.size)
            /\ g1.size = a.size + Len(Record(applied))
    BY <1>8, <1>14, <1>15, <1>18, <1>19, <1>c, Zenon
  <1> QED BY <1>1, <1>2, <1>20, Zenon DEF n, a, d

-----------------------------------------------------------------------------
(***************************************************************************)
(* Every step keeps FilesInv, and every file whose retention time has not  *)
(* ended, with all that has been written to it.                            *)
(***************************************************************************)
Kept(d, e) == \A b \in DOMAIN d :
                 \/ ~d[b].linked
                 \/ d[b].expired
                 \/ b \in DOMAIN e /\ e[b].linked /\ Extended(d[b], e[b])
FilesKept == FilesInv' /\ Kept(disk, disk')

\* Files that only grow are kept.
LEMMA GrowsKeeps ==
    ASSUME NEW d, Files(d), NEW e, Grows(d, e)
    PROVE  Kept(d, e)
  <1>1. DOMAIN e = DOMAIN d
    BY DEF Grows
  <1> QED BY <1>1, Zenon DEF Kept, Grows

\* Files that are left alone have grown by nothing.
LEMMA SelfGrows ==
    ASSUME NEW d, Files(d)
    PROVE  Grows(d, d)
  BY SelfExtended DEF Grows, Files

\* An open log is one that may be shut at any time.
LEMMA OpenHasFiles ==
    ASSUME NEW d, NEW s, OpenLog(d, s)
    PROVE  Files(d) /\ s \in Seq(Segment) /\ Len(s) \in Nat /\ Len(s) > 0 /\ ShutLog(d)
  BY DEF OpenLog, Segments, ShutLog

\* There are files in every state.
LEMMA FilesInvHasFiles ==
    ASSUME FilesInv
    PROVE  Files(disk) /\ Kept(disk, disk)
  <1>1. Files(disk)
    BY OpenHasFiles DEF FilesInv, ShutLog
  <1> QED BY <1>1, GrowsKeeps, SelfGrows

\* Steps that leave files and segments alone.
LEMMA QuietFiles ==
    ASSUME FilesInv, UNCHANGED <<disk, segs>>, StagesOK',
           pc = "down" <=> pc' = "down"
    PROVE  FilesKept
  <1>1. Kept(disk, disk')
    BY FilesInvHasFiles
  <1>2. FilesInv'
    BY DEF FilesInv, StagesOK
  <1> QED BY <1>1, <1>2 DEF FilesKept

\* wal.flush: the flushes to do are of the active segment.
LEMMA flushFiles ==
    ASSUME FilesInv, flush
    PROVE  FilesKept
  <1>1. OpenLog(disk, segs) /\ Len(segs) \in Nat /\ Len(segs) > 0
    BY OpenHasFiles DEF flush, FilesInv
  <1>2. FlushOf(Active) \in Seq(Flush) /\ Len(FlushOf(Active)) = 2
        /\ \A k \in 1..2 : FlushOf(Active)[k].seg = Len(segs)
    BY <1>1 DEF FlushOf, Active, Flush
  <1>3. Len(segs) \in 1..Len(segs)
    BY <1>1
  <1>4. StagesOK'
    BY <1>2, <1>3 DEF flush, FilesInv, StagesOK, NoReader
  <1> QED BY <1>4, QuietFiles DEF flush

\* wal.close: the flushes to do are of segments there are.
LEMMA closeFiles ==
    ASSUME FilesInv, close
    PROVE  FilesKept
  <1>1. OpenLog(disk, segs) /\ Len(segs) \in Nat /\ Len(segs) > 0
    BY OpenHasFiles DEF close, FilesInv
  <1>2. FlushOf(Active) \in Seq(Flush) /\ Len(FlushOf(Active)) = 2
        /\ \A k \in 1..2 : FlushOf(Active)[k].seg = Len(segs)
    BY <1>1 DEF FlushOf, Active, Flush
  <1>3. Len(segs) \in 1..Len(segs)
    BY <1>1
  <1>4. PICK m \in Nat : m = 2 * Len(segs)
    BY <1>1
  <1>5. PICK rest : rest = [k \in 1..m |-> FlushOf((k + 1) \div 2)[2 - (k % 2)]]
    OBVIOUS
  <1>6. ASSUME NEW k \in 1..m
        PROVE  rest[k] \in Flush /\ rest[k].seg \in 1..Len(segs)
    <2>1. (k + 1) \div 2 \in 1..Len(segs) /\ 2 - (k % 2) \in {1, 2}
      BY <1>1, <1>4
    <2>2. PICK i \in 1..Len(segs), j \in {1, 2} : i = (k + 1) \div 2 /\ j = 2 - (k % 2)
      BY <2>1
    <2>3. rest[k] = FlushOf(i)[j]
      BY <1>5, <2>2
    <2>4. FlushOf(i)[j] \in Flush /\ FlushOf(i)[j].seg = i
      BY <1>1 DEF FlushOf, Flush
    <2> QED BY <2>3, <2>4
  <1>7. rest \in Seq(Flush) /\ Len(rest) = m
    <2>1. rest \in [1..m -> Flush]
      BY <1>5, <1>6
    <2> QED BY <1>5, <2>1
  <1>8. todo' = FlushOf(Active) \o rest
    BY <1>4, <1>5 DEF close
  <1>9. /\ todo' \in Seq(Flush) /\ Len(todo') = 2 + m
        /\ \A k \in 1..Len(todo') : todo'[k] = IF k <= 2 THEN FlushOf(Active)[k] ELSE rest[k - 2]
    <2>1. PICK fl \in Seq(Flush) : fl = FlushOf(Active) /\ Len(fl) = 2
      BY <1>2
    <2>2. /\ fl \o rest \in Seq(Flush) /\ Len(fl \o rest) = 2 + m
          /\ \A k \in 1..(2 + m) : (fl \o rest)[k] = IF k <= 2 THEN fl[k] ELSE rest[k - 2]
      <3>1. /\ fl \o rest \in Seq(Flush) /\ Len(fl \o rest) = Len(fl) + Len(rest)
            /\ \A k \in 1..(Len(fl) + Len(rest)) :
                  (fl \o rest)[k] = IF k <= Len(fl) THEN fl[k] ELSE rest[k - Len(fl)]
        BY <1>7, ConcatProperties, Zenon
      <3> QED BY <1>7, <2>1, <3>1
    <2>3. todo' = fl \o rest
      BY <1>8, <2>1
    <2> QED BY <2>1, <2>2, <2>3
  <1>10. ASSUME NEW k \in 1..Len(todo')
         PROVE  todo'[k].seg \in 1..Len(segs)
    <2>1. CASE k <= 2
      BY <1>2, <1>3, <1>9, <2>1, SMTT(90)
    <2>2. CASE ~(k <= 2)
      <3>1. k - 2 \in 1..m /\ todo'[k] = rest[k - 2]
        BY <1>9, <2>2, SMTT(90)
      <3> QED BY <1>6, <3>1
    <2> QED BY <2>1, <2>2
  <1>11. StagesOK'
    BY <1>9, <1>10 DEF close, FilesInv, StagesOK, NoReader
  <1> QED BY <1>11, QuietFiles DEF close

\* The end of wal.flush.
LEMMA FlushDoneFiles ==
    ASSUME FilesInv, FlushDone
    PROVE  FilesKept
  <1>1. StagesOK'
    BY DEF FlushDone, FilesInv, StagesOK, NoReader
  <1> QED BY <1>1, QuietFiles DEF FlushDone

\* A reader starts on a segment there is.
LEMMA ReadBeginFiles ==
    ASSUME FilesInv, NEW r \in Reader, NEW offset, ReadBegin(r, offset)
    PROVE  FilesKept
  <1>1. PICK i \in 1..Len(segs) : reading' = [reading EXCEPT ![r] = [at |-> "index", seg |-> i]]
    BY DEF ReadBegin
  <1>2. Len(segs) \in Nat
    BY OpenHasFiles DEF ReadBegin, FilesInv
  <1>3. reading \in [Reader -> [at : Stage, seg : Nat]]
    BY DEF FilesInv, StagesOK
  <1>4. [at |-> "index", seg |-> i] \in [at : Stage, seg : Nat]
    BY <1>2 DEF Stage
  <1>5. reading' \in [Reader -> [at : Stage, seg : Nat]]
    BY <1>1, <1>3, <1>4
  <1>6. ASSUME NEW q \in Reader, reading'[q].at # "idle"
        PROVE  reading'[q].seg \in 1..Len(segs)
    BY <1>1, <1>3, <1>6 DEF FilesInv, StagesOK
  <1>7. StagesOK'
    BY <1>5, <1>6 DEF ReadBegin, FilesInv, StagesOK
  <1> QED BY <1>7, QuietFiles DEF ReadBegin

\* Steps that write at the end of files and keep the segments.
LEMMA WritingFiles ==
    ASSUME FilesInv, OpenLog(disk, segs), Grows(disk, disk'), StagesOK', pc' # "down",
           segs' \in Seq(Segment), Len(segs') = Len(segs),
           \A i \in 1..Len(segs) : /\ segs'[i].base = segs[i].base
                                   /\ segs'[i].base <= segs'[i].next
                                   /\ Len(segs'[i].sbuf) <= StoreBuf
                                   /\ Len(segs'[i].ibuf) <= IndexBuf
    PROVE  FilesKept
  <1>1. Files(disk)
    BY OpenHasFiles
  <1>2. Kept(disk, disk')
    BY <1>1, GrowsKeeps
  <1>3. OpenLog(disk', segs')
    BY StaysOpen, Zenon
  <1>4. FilesInv'
    BY <1>3 DEF FilesInv
  <1> QED BY <1>2, <1>4 DEF FilesKept

\* Segments of an open log, as they are.
LEMMA SegmentsAre ==
    ASSUME OpenLog(disk, segs)
    PROVE  /\ segs \in Seq(Segment) /\ Len(segs) \in Nat
           /\ \A i \in 1..Len(segs) :
                 /\ segs[i] \in Segment /\ segs[i].base \in DOMAIN disk
                 /\ segs[i].base <= segs[i].next
                 /\ Len(segs[i].sbuf) <= StoreBuf /\ Len(segs[i].ibuf) <= IndexBuf
  BY DEF OpenLog, Segments

\* One bufio.Flush adds to one file and empties its buffer.
LEMMA FlushStepFiles ==
    ASSUME FilesInv, FlushStep
    PROVE  FilesKept
  <1>1. OpenLog(disk, segs)
    BY DEF FlushStep, FilesInv
  <1>2. todo \in Seq(Flush) /\ todo # <<>> /\ \A k \in 1..Len(todo) : todo[k].seg \in 1..Len(segs)
    BY DEF FlushStep, FilesInv, StagesOK
  <1>3. PICK i \in 1..Len(segs) : i = Head(todo).seg
    <2>1. 1 \in 1..Len(todo) /\ Head(todo) = todo[1]
      BY <1>2
    <2> QED BY <1>2, <2>1
  <1>4. \/ disk' = SendIndex(i) /\ segs' = [segs EXCEPT ![i].ibuf = <<>>]
        \/ disk' = SendStore(i) /\ segs' = [segs EXCEPT ![i].sbuf = <<>>]
    BY <1>3 DEF FlushStep
  <1>5. Grows(disk, disk')
    BY <1>1, <1>4, SendsGrow
  <1>6. \/ segs' = [segs EXCEPT ![i].ibuf = <<>>]
        \/ segs' = [segs EXCEPT ![i].sbuf = <<>>]
    BY <1>4
  <1>7. PICK t : t = segs'
    OBVIOUS
  <1>8. /\ t \in Seq(Segment) /\ Len(t) = Len(segs)
        /\ \A j \in 1..Len(segs) : /\ t[j].base = segs[j].base /\ t[j].next = segs[j].next
                                   /\ t[j].base <= t[j].next
                                   /\ Len(t[j].sbuf) <= StoreBuf /\ Len(t[j].ibuf) <= IndexBuf
    BY <1>1, <1>6, <1>7, EmptiedIs, ZenonT(90)
  <1>9. todo' \in Seq(Flush) /\ \A k \in 1..Len(todo') : todo'[k].seg \in 1..Len(segs)
    <2>1. todo' = Tail(todo)
      BY DEF FlushStep
    <2>2. todo' \in Seq(Flush) /\ \A k \in 1..Len(todo') : todo'[k] = todo[k + 1] /\ k + 1 \in 1..Len(todo)
      BY <1>2, <2>1
    <2> QED BY <1>2, <2>2
  <1>10. StagesOK'
    BY <1>7, <1>8, <1>9 DEF FlushStep, FilesInv, StagesOK, NoReader
  <1>11. pc' # "down"
    BY DEF FlushStep
  <1> QED BY <1>1, <1>5, <1>7, <1>8, <1>10, <1>11, WritingFiles

\* A reader in wal.read at its next stage.
LEMMA NextStage ==
    ASSUME FilesInv, NEW r \in Reader, reading[r].at # "idle", NEW st \in Stage,
           NEW x, x = [reading EXCEPT ![r].at = st] \/ x = [reading EXCEPT ![r] = [at |-> "idle", seg |-> 0]]
    PROVE  /\ x \in [Reader -> [at : Stage, seg : Nat]]
           /\ \A q \in Reader : x[q].at # "idle" => x[q].seg \in 1..Len(segs)
           /\ reading[r].seg \in 1..Len(segs) /\ pc = "up" /\ OpenLog(disk, segs)
  <1>1. reading \in [Reader -> [at : Stage, seg : Nat]]
        /\ \A q \in Reader : reading[q].at # "idle" => reading[q].seg \in 1..Len(segs)
    BY DEF FilesInv, StagesOK
  <1>2. PICK g : /\ x = [reading EXCEPT ![r] = g]
                 /\ g \in {[reading[r] EXCEPT !.at = st], [at |-> "idle", seg |-> 0]}
    BY <1>1
  <1>3. reading[r] \in [at : Stage, seg : Nat]
    BY <1>1
  <1>4. g \in [at : Stage, seg : Nat] /\ (g.at # "idle" => g.seg = reading[r].seg)
    BY <1>2, <1>3 DEF Stage
  <1>5. x \in [Reader -> [at : Stage, seg : Nat]] /\ x[r] = g
        /\ \A q \in Reader : q # r => x[q] = reading[q]
    BY <1>1, <1>2, <1>4
  <1>6. pc = "up"
    BY DEF FilesInv, StagesOK, NoReader
  <1>7. OpenLog(disk, segs)
    BY <1>6 DEF FilesInv
  <1> QED BY <1>1, <1>4, <1>5, <1>6, <1>7

\* index.Read writes the index buffer behind the index file.
LEMMA ReadWritesIndexFiles ==
    ASSUME FilesInv, NEW r \in Reader, ReadWritesIndex(r)
    PROVE  FilesKept
  <1>1. reading[r].at # "idle" /\ "indexSent" \in Stage
    BY DEF ReadWritesIndex, Stage
  <1>2. /\ reading' \in [Reader -> [at : Stage, seg : Nat]]
        /\ \A q \in Reader : reading'[q].at # "idle" => reading'[q].seg \in 1..Len(segs)
        /\ reading[r].seg \in 1..Len(segs) /\ pc = "up" /\ OpenLog(disk, segs)
    BY <1>1, NextStage DEF ReadWritesIndex
  <1>3. Grows(disk, disk')
    BY <1>2, SendsGrow DEF ReadWritesIndex
  <1>4. StagesOK' /\ segs' = segs /\ pc' # "down"
    BY <1>2 DEF ReadWritesIndex, FilesInv, StagesOK
  <1> QED BY <1>2, <1>3, <1>4, SegmentsAre, WritingFiles

\* logStore.Read writes the store buffer behind the store file.
LEMMA ReadWritesStoreFiles ==
    ASSUME FilesInv, NEW r \in Reader, ReadWritesStore(r)
    PROVE  FilesKept
  <1>1. reading[r].at # "idle" /\ "storeSent" \in Stage
    BY DEF ReadWritesStore, Stage
  <1>2. /\ reading' \in [Reader -> [at : Stage, seg : Nat]]
        /\ \A q \in Reader : reading'[q].at # "idle" => reading'[q].seg \in 1..Len(segs)
        /\ reading[r].seg \in 1..Len(segs) /\ pc = "up" /\ OpenLog(disk, segs)
    BY <1>1, NextStage DEF ReadWritesStore
  <1>3. Grows(disk, disk')
    BY <1>2, SendsGrow DEF ReadWritesStore
  <1>4. StagesOK' /\ segs' = segs /\ pc' # "down"
    BY <1>2 DEF ReadWritesStore, FilesInv, StagesOK
  <1> QED BY <1>2, <1>3, <1>4, SegmentsAre, WritingFiles

\* A reader empties the buffer it has written.
LEMMA ReadEmptiesFiles ==
    ASSUME FilesInv, NEW r \in Reader, ReadEmptiesIndex(r) \/ ReadEnd(r)
    PROVE  FilesKept
  <1>1. reading[r].at # "idle" /\ "store" \in Stage
    BY DEF ReadEmptiesIndex, ReadEnd, Stage
  <1>2. /\ reading' \in [Reader -> [at : Stage, seg : Nat]]
        /\ \A q \in Reader : reading'[q].at # "idle" => reading'[q].seg \in 1..Len(segs)
        /\ reading[r].seg \in 1..Len(segs) /\ pc = "up" /\ OpenLog(disk, segs)
    BY <1>1, NextStage, SMTT(90) DEF ReadEmptiesIndex, ReadEnd
  <1>3. PICK i \in 1..Len(segs) : i = reading[r].seg
    BY <1>2
  <1>4. PICK t : t = segs'
    OBVIOUS
  <1>5. t = [segs EXCEPT ![i].ibuf = <<>>] \/ t = [segs EXCEPT ![i].sbuf = <<>>]
    BY <1>3, <1>4 DEF ReadEmptiesIndex, ReadEnd
  <1>6. /\ t \in Seq(Segment) /\ Len(t) = Len(segs)
        /\ \A j \in 1..Len(segs) : /\ t[j].base = segs[j].base /\ t[j].next = segs[j].next
                                   /\ t[j].base <= t[j].next
                                   /\ Len(t[j].sbuf) <= StoreBuf /\ Len(t[j].ibuf) <= IndexBuf
    BY <1>2, <1>5, EmptiedIs, Zenon
  <1>7. Grows(disk, disk')
    BY <1>2, OpenHasFiles, SelfGrows DEF ReadEmptiesIndex, ReadEnd
  <1>8. StagesOK' /\ pc' # "down"
    BY <1>2, <1>4, <1>6 DEF ReadEmptiesIndex, ReadEnd, FilesInv, StagesOK
  <1> QED BY <1>2, <1>4, <1>6, <1>7, <1>8, WritingFiles

\* wal.append writes behind the files of the active segment, a new one included.
LEMMA appendFiles ==
    ASSUME FilesInv, append
    PROVE  FilesKept
  <1> DEFINE n == Len(Grown)
             a == Grown[n]
             d == GrownDisk
  <1>1. OpenLog(disk, segs) /\ applied \in Offset /\ applied' = applied + 1
    BY AppendIs, Zenon
  <1>2. PICK g \in Segment, u \in Seq(Word), x \in Seq(Nat) :
           /\ disk' = [d EXCEPT ![a.base].store = d[a.base].store \o u,
                                ![a.base].index = d[a.base].index \o x]
           /\ segs' = [Grown EXCEPT ![n] = g]
           /\ g.base = a.base /\ g.next = a.next + 1
           /\ Len(g.sbuf) <= StoreBuf /\ Len(g.ibuf) <= IndexBuf
    BY AppendIs, Zenon
  <1>s. /\ segs' = [Grown EXCEPT ![n] = g]
        /\ g.base = a.base /\ g.next = a.next + 1
        /\ Len(g.sbuf) <= StoreBuf /\ Len(g.ibuf) <= IndexBuf
    BY <1>2, Zenon
  <1>3. OpenLog(d, Grown)
    BY <1>1, GrownIsOpen
  <1>4. /\ Len(segs) \in Nat /\ Len(Grown) \in Nat /\ Len(segs) <= Len(Grown)
        /\ DOMAIN disk \in SUBSET DOMAIN d /\ \A b \in DOMAIN disk : d[b] = disk[b]
    BY <1>1, <1>3, GrownIsOpen, OpenHasFiles
  <1> HIDE DEF n, a, d
  <1>5. /\ Files(d) /\ Grown \in Seq(Segment) /\ n \in 1..Len(Grown) /\ a = Grown[n]
        /\ n = Len(Grown)
    BY <1>3, OpenHasFiles DEF n, a
  <1>6. \A i \in 1..Len(Grown) : /\ Grown[i].base \in DOMAIN d /\ Grown[i].base <= Grown[i].next
                                 /\ Len(Grown[i].sbuf) <= StoreBuf
                                 /\ Len(Grown[i].ibuf) <= IndexBuf
    BY <1>3 DEF OpenLog, Segments
  <1>7. Grows(d, disk')
    <2>1. a.base \in DOMAIN d
      BY <1>5, <1>6
    <2> QED BY <1>2, <1>5, <2>1, WritesGrow, ZenonT(90)
  <1>8. PICK t : t = segs'
    OBVIOUS
  <1>9. t \in Seq(Segment) /\ Len(t) = n /\ t[n] = g /\ \A i \in 1..n : i # n => t[i] = Grown[i]
    BY <1>s, <1>5, <1>8
  <1>10. g.base <= g.next
    <2>1. a.base \in Nat /\ a.next \in Nat /\ a.base <= a.next
      BY <1>5, <1>6, SegmentParts
    <2> QED BY <1>s, <2>1
  <1>11. \A i \in 1..Len(Grown) : /\ t[i].base = Grown[i].base /\ t[i].base <= t[i].next
                                  /\ Len(t[i].sbuf) <= StoreBuf /\ Len(t[i].ibuf) <= IndexBuf
    <2> SUFFICES ASSUME NEW i \in 1..Len(Grown)
                 PROVE  /\ t[i].base = Grown[i].base /\ t[i].base <= t[i].next
                        /\ Len(t[i].sbuf) <= StoreBuf /\ Len(t[i].ibuf) <= IndexBuf
      OBVIOUS
    <2>1. CASE i = n
      BY <1>s, <1>5, <1>9, <1>10, <2>1
    <2>2. CASE i # n
      BY <1>5, <1>6, <1>9, <2>2
    <2> QED BY <2>1, <2>2
  <1>12. OpenLog(disk', segs')
    BY <1>3, <1>5, <1>7, <1>8, <1>9, <1>11, StaysOpen, Zenon
  <1>13. Kept(disk, disk')
    <2>1. \A b \in DOMAIN d : /\ b \in DOMAIN disk'
                              /\ disk'[b].linked = d[b].linked /\ Extended(d[b], disk'[b])
      BY <1>7, Zenon DEF Grows
    <2> QED BY <1>4, <2>1 DEF Kept
  <1>14. pc' \in {"up", "late"} /\ NoReader /\ UNCHANGED <<todo, reading>> /\ applied' \in Nat
         /\ todo = <<>>
    <2>1. applied' \in Nat
      BY <1>1 DEF Offset
    <2>2. MayAppend /\ pc' = (IF pc = "up" THEN "up" ELSE "late") /\ UNCHANGED <<todo, reading>>
      BY Zenon DEF append
    <2>3. pc \in {"up", "close", "late"} /\ (pc # "up" => todo = <<>>)
      BY <2>2, Zenon DEF MayAppend, Behind
    <2>4. NoReader /\ todo = <<>>
      <3>1. pc = "up" => NoReader
        BY <2>2, Zenon DEF MayAppend, Behind
      <3>2. /\ pc # "up" => NoReader
            /\ pc \notin {"flush", "close"} => todo = <<>>
        BY Zenon DEF FilesInv, StagesOK
      <3> QED BY <2>3, <3>1, <3>2
    <2> QED BY <2>1, <2>2, <2>3, <2>4, Zenon
  <1>15. StagesOK'
    <2>1. \A k \in 1..Len(todo) : todo[k].seg \in 1..Len(segs')
      BY <1>4, <1>5, <1>8, <1>9 DEF FilesInv, StagesOK
    <2> QED BY <1>14, <2>1 DEF FilesInv, StagesOK, NoReader
  <1>16. FilesInv'
    BY <1>12, <1>14, <1>15 DEF FilesInv
  <1> QED BY <1>13, <1>16 DEF FilesKept

\* What appendClosed does to the active segment.
LEMMA AppendClosedIs ==
    ASSUME FilesInv, appendClosed
    PROVE  /\ OpenLog(disk, segs) /\ applied \in Offset /\ applied' = applied + 1
           /\ UNCHANGED <<disk, deleted, todo, reading, pc>>
           /\ \E g \in Segment :
                LET a == segs[Len(segs)]
                IN  /\ segs' = [segs EXCEPT ![Len(segs)] = g]
                    /\ g.base = a.base /\ g.sbuf = a.sbuf /\ Len(g.ibuf) <= IndexBuf
                    /\ \/ g.next = a.next /\ g.ibuf = a.ibuf
                       \/ g.next = a.next + 1 /\ Len(g.ibuf) = Len(a.ibuf) + 3
  <1>1. OpenLog(disk, segs)
    BY DEF FilesInv, appendClosed
  <1>2. applied \in Offset /\ applied' = applied + 1
    BY RecordsAssumption DEF FilesInv, StagesOK, appendClosed, Offset
  <1>3. UNCHANGED <<disk, deleted, todo, reading, pc>>
    BY DEF appendClosed
  <1>4. segs \in Seq(Segment) /\ Len(segs) \in 1..Len(segs)
    BY <1>1, OpenHasFiles
  <1>5. PICK n \in 1..Len(segs) : n = Len(segs)
    BY <1>4
  <1>6. PICK a \in Segment : a = segs[n]
    BY <1>4
  <1>7. /\ a.base <= a.next /\ a.base \in Nat /\ a.next \in Nat /\ a.size \in Nat
        /\ a.ibuf \in Seq(Nat) /\ a.sbuf \in Seq(Word) /\ Len(a.ibuf) <= IndexBuf
    BY <1>1, <1>6, SegmentParts, SegmentsAre
  <1> DEFINE fits == Len(a.ibuf) + 3 <= IndexBuf
  <1> HIDE DEF fits
  <1>9. PICK en : en = IndexEntry(a.next - a.base, a.size)
    OBVIOUS
  <1>10. en \in Seq(Nat) /\ Len(en) = 3
    BY <1>7, <1>9 DEF IndexEntry
  <1>11. PICK sz, nx, ib : /\ sz = a.size + Len(Record(applied))
                           /\ nx = IF fits THEN a.next + 1 ELSE a.next
                           /\ ib = IF fits THEN a.ibuf \o en ELSE a.ibuf
    OBVIOUS
  <1>12. sz \in Nat /\ nx \in Nat
    BY <1>2, <1>7, <1>11, RecordIs, SMTT(30)
  <1>13. \/ ~fits /\ nx = a.next /\ ib = a.ibuf
         \/ fits /\ nx = a.next + 1 /\ ib = a.ibuf \o en
    BY <1>11
  <1>14. ib \in Seq(Nat) /\ (fits => Len(ib) = Len(a.ibuf) + 3)
    <2>1. a.ibuf \o en \in Seq(Nat) /\ Len(a.ibuf \o en) = Len(a.ibuf) + 3
      <3>1. PICK ai \in Seq(Nat) : ai = a.ibuf
        BY <1>7
      <3>2. ai \o en \in Seq(Nat) /\ Len(ai \o en) = Len(ai) + Len(en)
        BY <1>10, ConcatProperties
      <3> QED BY <1>10, <3>1, <3>2
    <2>2. CASE fits
      BY <1>13, <2>1, <2>2, Zenon
    <2>3. CASE ~fits
      BY <1>7, <1>13, <2>3, Zenon
    <2> QED BY <2>2, <2>3
  <1>15. Len(ib) <= IndexBuf
    BY <1>7, <1>13, <1>14 DEF fits
  <1>16. segs' = [segs EXCEPT ![n].size = @ + Len(Record(applied)),
                              ![n].next = IF fits THEN @ + 1 ELSE @,
                              ![n].ibuf = IF fits THEN @ \o en ELSE @]
    BY <1>5, <1>6, <1>9 DEF appendClosed, Active, fits
  <1>17. segs' = [segs EXCEPT ![n] = [a EXCEPT !.size = sz, !.next = nx, !.ibuf = ib]]
    BY <1>4, <1>6, <1>11, <1>16
  <1>18. PICK g : g = [a EXCEPT !.size = sz, !.next = nx, !.ibuf = ib]
    OBVIOUS
  <1>19. g \in Segment /\ g.base = a.base /\ g.next = nx /\ g.sbuf = a.sbuf /\ g.ibuf = ib
    BY <1>12, <1>14, <1>18 DEF Segment
  <1>20. \/ g.next = a.next /\ g.ibuf = a.ibuf
         \/ g.next = a.next + 1 /\ Len(g.ibuf) = Len(a.ibuf) + 3
    BY <1>13, <1>14, <1>19
  <1>21. segs' = [segs EXCEPT ![n] = g]
    BY <1>17, <1>18
  <1> QED BY <1>1, <1>2, <1>3, <1>5, <1>6, <1>15, <1>19, <1>20, <1>21, Zenon

\* An append behind the close writes to no file.
LEMMA appendClosedFiles ==
    ASSUME FilesInv, appendClosed
    PROVE  FilesKept
  <1>1. /\ OpenLog(disk, segs) /\ applied \in Offset /\ applied' = applied + 1
        /\ UNCHANGED <<disk, deleted, todo, reading, pc>>
    BY AppendClosedIs, Zenon
  <1>2. PICK n : n = Len(segs)
    OBVIOUS
  <1>3. PICK a : a = segs[n]
    OBVIOUS
  <1>4. PICK g \in Segment : /\ segs' = [segs EXCEPT ![n] = g]
                             /\ g.base = a.base /\ g.sbuf = a.sbuf /\ Len(g.ibuf) <= IndexBuf
                             /\ g.next = a.next \/ g.next = a.next + 1
    BY <1>2, <1>3, AppendClosedIs, Zenon
  <1>5. segs \in Seq(Segment) /\ n \in 1..Len(segs) /\ Len(segs) = n
    BY <1>1, <1>2, OpenHasFiles
  <1>6. /\ a \in Segment /\ a.base <= a.next /\ Len(a.sbuf) <= StoreBuf
        /\ a.base \in Nat /\ a.next \in Nat
    BY <1>1, <1>3, <1>5, SegmentsAre, SegmentParts
  <1>7. g.base <= g.next /\ Len(g.sbuf) <= StoreBuf
    BY <1>4, <1>6
  <1>8. PICK t : t = segs'
    OBVIOUS
  <1>9. t \in Seq(Segment) /\ Len(t) = n /\ t[n] = g /\ \A i \in 1..n : i # n => t[i] = segs[i]
    BY <1>4, <1>5, <1>8
  <1>10. \A i \in 1..Len(segs) : /\ t[i].base = segs[i].base /\ t[i].base <= t[i].next
                                 /\ Len(t[i].sbuf) <= StoreBuf /\ Len(t[i].ibuf) <= IndexBuf
    <2> SUFFICES ASSUME NEW i \in 1..Len(segs)
                 PROVE  /\ t[i].base = segs[i].base /\ t[i].base <= t[i].next
                        /\ Len(t[i].sbuf) <= StoreBuf /\ Len(t[i].ibuf) <= IndexBuf
      OBVIOUS
    <2>1. CASE i = n
      BY <1>3, <1>4, <1>7, <1>9, <2>1
    <2>2. CASE i # n
      BY <1>1, <1>5, <1>9, <2>2, SegmentsAre
    <2> QED BY <2>1, <2>2
  <1>11. Grows(disk, disk')
    BY <1>1, OpenHasFiles, SelfGrows
  <1>12. StagesOK' /\ pc' # "down"
    <2>1. applied' \in Nat /\ Len(segs') = Len(segs)
      BY <1>1, <1>5, <1>8, <1>9 DEF FilesInv, StagesOK
    <2>2. pc # "down"
      BY DEF appendClosed
    <2> QED BY <1>1, <2>1, <2>2 DEF FilesInv, StagesOK, NoReader
  <1> QED BY <1>1, <1>5, <1>8, <1>9, <1>10, <1>11, <1>12, WritingFiles

\* A change of a file's flags writes nothing.
LEMMA SameContents ==
    ASSUME NEW f \in File, NEW g, g.store = f.store, g.index = f.index
    PROVE  Extended(f, g)
  <1>1. f.store \in Seq(Word) /\ f.index \in Seq(Nat)
    BY FileParts
  <1>2. g.store = f.store \o <<>> /\ g.index = f.index \o <<>>
    BY <1>1, ConcatEmptySeq
  <1>3. <<>> \in Seq(Word) /\ <<>> \in Seq(Nat)
    OBVIOUS
  <1> QED BY <1>2, <1>3, Zenon DEF Extended

\* The end of a retention time changes no contents.
LEMMA ExpireFiles ==
    ASSUME FilesInv, NEW b \in DOMAIN disk, Expire(b)
    PROVE  FilesKept
  <1>1. Files(disk) /\ disk \in [DOMAIN disk -> File] /\ disk[b] \in File
    BY FilesInvHasFiles DEF Files
  <1>2. PICK g : g = [disk[b] EXCEPT !.expired = TRUE]
    OBVIOUS
  <1>3. /\ g \in File /\ g.store = disk[b].store /\ g.index = disk[b].index
        /\ g.meta = disk[b].meta /\ g.linked = disk[b].linked
    BY <1>1, <1>2 DEF File
  <1>4. disk' = [disk EXCEPT ![b] = g]
    BY <1>1, <1>2 DEF Expire
  <1>5. \A c \in DOMAIN disk : /\ disk'[c].meta = disk[c].meta /\ disk'[c].linked = disk[c].linked
                               /\ disk'[c].store = disk[c].store /\ disk'[c].index = disk[c].index
    BY <1>1, <1>3, <1>4
  <1>6. disk' \in [DOMAIN disk -> File]
    BY <1>1, <1>3, <1>4
  <1>7. Grows(disk, disk')
    <2>1. \A c \in DOMAIN disk : disk[c] \in File
      BY <1>1
    <2>2. \A c \in DOMAIN disk : Extended(disk[c], disk'[c])
      BY <1>5, <2>1, SameContents
    <2> QED BY <1>5, <1>6, <2>2 DEF Grows
  <1>8. StagesOK' /\ UNCHANGED <<segs, pc>>
    BY DEF Expire, FilesInv, StagesOK, NoReader
  <1>9. CASE pc # "down"
    <2>1. OpenLog(disk, segs)
      BY <1>9 DEF FilesInv
    <2> QED BY <1>7, <1>8, <1>9, <2>1, SegmentsAre, WritingFiles
  <1>10. CASE pc = "down"
    <2>1. ShutLog(disk) /\ segs = <<>>
      BY <1>10 DEF FilesInv
    <2>2. Files(disk') /\ DOMAIN disk' = DOMAIN disk
      BY <1>1, <1>6 DEF Files
    <2>3. ShutLog(disk')
      BY <1>5, <2>1, <2>2 DEF ShutLog
    <2>4. FilesInv'
      BY <1>8, <1>10, <2>1, <2>3 DEF FilesInv
    <2> QED BY <1>1, <1>7, <2>4, GrowsKeeps DEF FilesKept
  <1> QED BY <1>9, <1>10

\* The process is gone: memory is empty and no goroutine is anywhere.
LEMMA MemoryGoneStages ==
    ASSUME FilesInv, MemoryGone
    PROVE  StagesOK' /\ segs' = <<>> /\ pc' = "down"
  <1>1. "idle" \in Stage /\ 0 \in Nat
    BY DEF Stage
  <1>2. /\ reading' \in [Reader -> [at : Stage, seg : Nat]]
        /\ \A r \in Reader : reading'[r].at = "idle"
    BY <1>1 DEF MemoryGone
  <1>3. todo' \in Seq(Flush) /\ Len(todo') = 0 /\ applied' \in Nat /\ pc' = "down" /\ segs' = <<>>
    BY DEF MemoryGone
  <1> QED BY <1>2, <1>3 DEF StagesOK, NoReader

\* Either way the files are those of a log that can be opened again.
LEMMA FilesInvIsShut ==
    ASSUME FilesInv
    PROVE  ShutLog(disk)
  BY OpenHasFiles DEF FilesInv

\* Shutdown and death leave the files that are not removed.
LEMMA GoneFiles ==
    ASSUME FilesInv, pc # "down", Gone
    PROVE  FilesKept
  <1>1. Files(disk) /\ \A b \in DOMAIN disk : disk[b].meta = "written"
    BY FilesInvHasFiles DEF FilesInv, OpenLog
  <1>2. Linked \in SUBSET DOMAIN disk
    BY DEF Linked
  <1>3. disk' = [b \in Linked |-> disk[b]]
    BY DEF Gone
  <1>4. Files(disk') /\ \A b \in DOMAIN disk' : disk'[b].meta = "written"
    <2>1. IsFiniteSet(Linked)
      BY <1>1, <1>2, FS_Subset DEF Files
    <2> QED BY <1>1, <1>2, <1>3, <2>1 DEF Files
  <1>5. ShutLog(disk')
    BY <1>4 DEF ShutLog
  <1>6. FilesInv'
    BY <1>5, MemoryGoneStages DEF FilesInv, Gone
  <1>7. \A b \in DOMAIN disk : Extended(disk[b], disk[b])
    BY <1>1, SelfExtended DEF Files
  <1>8. Kept(disk, disk')
    BY <1>3, <1>7 DEF Kept, Linked
  <1> QED BY <1>6, <1>8 DEF FilesKept

\* What a death while the files of base b are opened leaves.
LEMMA LeavesShut ==
    ASSUME FilesInv, NEW b \in Nat, NEW f \in File,
           f.meta # "written" => /\ f.store = <<>> /\ f.index = <<>>
                                 /\ \A c \in DOMAIN disk : c <= b,
           b \in DOMAIN disk \/ \A c \in DOMAIN disk : disk[c].meta = "written",
           b \in DOMAIN disk => /\ f.store = disk[b].store /\ f.index = disk[b].index
                                /\ f.linked = disk[b].linked,
           NEW e, e = [c \in Linked \cup {b} |-> IF c = b THEN f ELSE disk[c]]
    PROVE  ShutLog(e) /\ Kept(disk, e)
  <1>1. Files(disk) /\ ShutLog(disk)
    BY FilesInvHasFiles, FilesInvIsShut
  <1>2. Linked \in SUBSET DOMAIN disk /\ DOMAIN disk \in SUBSET Nat
        /\ disk \in [DOMAIN disk -> File] /\ IsFiniteSet(DOMAIN disk)
    BY <1>1 DEF Linked, Files
  <1>3. DOMAIN e = Linked \cup {b} /\ e[b] = f /\ \A c \in Linked : c # b => e[c] = disk[c]
    OBVIOUS
  <1>4. IsFiniteSet(Linked \cup {b})
    BY <1>2, FS_Subset, FS_AddElement
  <1>5. e \in [DOMAIN e -> File]
    BY <1>2
  <1>6. DOMAIN e \in SUBSET Nat
    BY <1>2, <1>3
  <1>7. Files(e)
    BY <1>3, <1>4, <1>5, <1>6 DEF Files
  <1>8. ASSUME NEW c \in DOMAIN e, e[c].meta # "written"
        PROVE  e[c].store = <<>> /\ e[c].index = <<>> /\ \A d \in DOMAIN e : d <= c
    <2>1. CASE c = b
      BY <1>2, <1>3, <1>8, <2>1
    <2>2. CASE c # b
      <3>1. c \in Linked /\ e[c] = disk[c] /\ c \in DOMAIN disk
        BY <1>2, <1>3, <2>2
      <3>2. disk[c].store = <<>> /\ disk[c].index = <<>> /\ \A d \in DOMAIN disk : d <= c
        BY <1>1, <1>8, <3>1 DEF ShutLog
      <3>3. b \in DOMAIN disk
        BY <1>8, <3>1
      <3> QED BY <1>2, <1>3, <3>1, <3>2, <3>3
    <2> QED BY <2>1, <2>2
  <1>9. ShutLog(e)
    BY <1>7, <1>8 DEF ShutLog
  <1>10. Kept(disk, e)
    <2> SUFFICES ASSUME NEW c \in DOMAIN disk, disk[c].linked
                 PROVE  c \in DOMAIN e /\ e[c].linked /\ Extended(disk[c], e[c])
      BY DEF Kept
    <2>1. c \in DOMAIN e /\ disk[c] \in File
      BY <1>2, <1>3 DEF Linked
    <2>2. CASE c = b
      BY <1>3, <2>1, <2>2, SameContents
    <2>3. CASE c # b
      BY <1>3, <2>1, <2>3, SelfExtended DEF Linked
    <2> QED BY <2>1, <2>2, <2>3
  <1> QED BY <1>9, <1>10

\* The files of a new segment, before its meta file is made.
LEMMA NewFilesAre ==
    /\ NewFiles \in File /\ NewFiles.meta = "written"
    /\ [NewFiles EXCEPT !.meta = "none"] \in File
    /\ [NewFiles EXCEPT !.meta = "none"].store = <<>>
    /\ [NewFiles EXCEPT !.meta = "none"].index = <<>>
    /\ [NewFiles EXCEPT !.meta = "none"].meta = "none"
  <1>1. <<>> \in Seq(Word) /\ <<>> \in Seq(Nat)
    OBVIOUS
  <1> QED BY <1>1 DEF NewFiles, File

\* Unfinished keeps the contents and makes nothing of a meta file that is there.
LEMMA UnfinishedIs ==
    ASSUME NEW f \in File, NEW g \in Unfinished(f)
    PROVE  /\ g \in File /\ g.store = f.store /\ g.index = f.index /\ g.linked = f.linked
           /\ g.meta # "written" => f.meta # "written"
  <1>1. g = f \/ (g = [f EXCEPT !.meta = "empty"] /\ f.meta = "none")
    <2>1. CASE f.meta = "none"
      <3>1. Unfinished(f) = {f, [f EXCEPT !.meta = "empty"]}
        BY <2>1, Zenon DEF Unfinished
      <3> QED BY <2>1, <3>1, Zenon
    <2>2. CASE f.meta # "none"
      <3>1. Unfinished(f) = {f}
        BY <2>2, Zenon DEF Unfinished
      <3>2. g = f
        BY <3>1
      <3> QED BY <3>2, Zenon
    <2> QED BY <2>1, <2>2, Zenon
  <1> QED BY <1>1 DEF File

\* A death in newSegment lacks a meta file at most for the newest segment.
LEMMA CrashOpeningFiles ==
    ASSUME FilesInv, CrashOpening
    PROVE  FilesKept
  <1>1. PICK b \in 0..MaxRecords : \E f \in Unfinished(FilesAt(b)) :
           /\ Opening(b)
           /\ disk' = [d \in Linked \cup {b} |-> IF d = b THEN f ELSE disk[d]]
    BY DEF CrashOpening
  <1>2. PICK f \in Unfinished(FilesAt(b)) :
           /\ Opening(b)
           /\ disk' = [d \in Linked \cup {b} |-> IF d = b THEN f ELSE disk[d]]
    BY <1>1
  <1>3. b \in Nat
    BY RecordsAssumption
  <1>4. Files(disk) /\ ShutLog(disk)
    BY FilesInvHasFiles, FilesInvIsShut
  <1>a. PICK e : e = disk'
    OBVIOUS
  <1>b. e = [c \in Linked \cup {b} |-> IF c = b THEN f ELSE disk[c]]
    BY <1>2, <1>a
  <1>c. StagesOK' /\ segs' = <<>> /\ pc' = "down"
    BY MemoryGoneStages DEF CrashOpening
  <1>d. ASSUME ShutLog(e) /\ Kept(disk, e)  PROVE FilesKept
    BY <1>a, <1>c, <1>d DEF FilesInv, FilesKept
  <1>5. CASE b \in DOMAIN disk
    <2>1. FilesAt(b) = disk[b] /\ disk[b] \in File
      BY <1>4, <1>5 DEF FilesAt, Files
    <2>2. /\ f \in File /\ f.store = disk[b].store /\ f.index = disk[b].index
          /\ f.linked = disk[b].linked /\ (f.meta # "written" => disk[b].meta # "written")
      BY <2>1, UnfinishedIs
    <2>3. f.meta # "written" => f.store = <<>> /\ f.index = <<>> /\ \A c \in DOMAIN disk : c <= b
      BY <1>4, <1>5, <2>2 DEF ShutLog
    <2>4. ShutLog(e) /\ Kept(disk, e)
      BY <1>3, <1>5, <1>b, <2>2, <2>3, LeavesShut, Zenon
    <2> QED BY <1>d, <2>4
  <1>6. CASE b \notin DOMAIN disk
    <2>1. FilesAt(b) = [NewFiles EXCEPT !.meta = "none"]
      BY <1>6 DEF FilesAt
    <2>2. PICK h : h = FilesAt(b)
      OBVIOUS
    <2>3. h \in File /\ h.store = <<>> /\ h.index = <<>>
      BY <2>1, <2>2, NewFilesAre
    <2>4. f \in File /\ f.store = <<>> /\ f.index = <<>>
      <3>1. f \in Unfinished(h)
        BY <2>2
      <3> QED BY <2>3, <3>1, UnfinishedIs
    <2>5. \A c \in DOMAIN disk : disk[c].meta = "written" /\ c <= b
      <3>1. CASE pc = "down"
        <4>1. DOMAIN disk = {}
          BY <1>2, <1>6, <3>1 DEF Opening
        <4> QED BY <4>1
      <3>2. CASE pc # "down"
        <4>1. OpenLog(disk, segs) /\ b = NextOffset
          BY <1>2, <3>2 DEF Opening, FilesInv
        <4>2. Len(segs) \in 1..Len(segs)
          BY <4>1, OpenHasFiles
        <4>3. segs[Len(segs)] \in Segment /\ segs[Len(segs)].base <= b
          BY <4>1, <4>2, SegmentsAre DEF NextOffset, Active
        <4>4. segs[Len(segs)].base \in Nat
          BY <4>3, SegmentParts
        <4>5. \A c \in DOMAIN disk : /\ disk[c].meta = "written" /\ c \in Nat
                                     /\ c <= segs[Len(segs)].base
          BY <4>1 DEF OpenLog, Files
        <4> QED BY <1>3, <4>3, <4>4, <4>5
      <3> QED BY <3>1, <3>2
    <2>6. ShutLog(e) /\ Kept(disk, e)
      BY <1>3, <1>6, <1>b, <2>4, <2>5, LeavesShut, Zenon
    <2> QED BY <1>d, <2>6
  <1> QED BY <1>5, <1>6

\* newWAL opens what is there.
LEMMA newWALFiles ==
    ASSUME FilesInv, newWAL
    PROVE  FilesKept
  <1>1. Files(disk) /\ pc = "down" /\ segs = <<>> /\ NoReader
    BY FilesInvHasFiles DEF newWAL, FilesInv, StagesOK
  <1>2. /\ Files(disk') /\ DOMAIN disk' # {} /\ Kept(disk, disk')
        /\ \A b \in DOMAIN disk' : disk'[b].meta = "written"
    <2>1. CASE DOMAIN disk = {}
      <3>1. disk' = [b \in {0} |-> NewFiles]
        BY <2>1 DEF newWAL
      <3>2. IsFiniteSet({0})
        BY FS_Singleton
      <3>3. Files(disk')
        BY <3>1, <3>2, NewFilesAre DEF Files
      <3> QED BY <2>1, <3>1, <3>3, NewFilesAre DEF Kept
    <2>2. CASE DOMAIN disk # {}
      <3>1. disk' = [b \in DOMAIN disk |-> [disk[b] EXCEPT !.meta = "written"]]
        BY <2>2 DEF newWAL
      <3>2. ASSUME NEW b \in DOMAIN disk
            PROVE  /\ disk'[b] \in File /\ disk'[b].meta = "written"
                   /\ disk'[b].linked = disk[b].linked /\ Extended(disk[b], disk'[b])
        <4>1. disk[b] \in File
          BY <1>1 DEF Files
        <4>2. PICK g : g = [disk[b] EXCEPT !.meta = "written"]
          OBVIOUS
        <4>3. /\ g \in File /\ g.meta = "written" /\ g.linked = disk[b].linked
              /\ g.store = disk[b].store /\ g.index = disk[b].index
          BY <4>1, <4>2 DEF File
        <4>4. disk'[b] = g
          BY <3>1, <4>2
        <4>5. Extended(disk[b], g)
          BY <4>1, <4>3, SameContents
        <4> QED BY <4>3, <4>4, <4>5
      <3>3. DOMAIN disk' = DOMAIN disk /\ disk' = [b \in DOMAIN disk' |-> disk'[b]]
        BY <3>1
      <3>4. Files(disk')
        BY <1>1, <3>2, <3>3 DEF Files
      <3> QED BY <2>2, <3>2, <3>3, <3>4 DEF Kept
    <2> QED BY <2>1, <2>2
  <1>3. segs' = Opened(disk')
    BY DEF newWAL
  <1>4. OpenLog(disk', segs')
    BY <1>2, <1>3, OpenedIsOpen
  <1>5. applied' \in Nat
    <2>1. segs' \in Seq(Segment) /\ Len(segs') \in 1..Len(segs')
      BY <1>4, OpenHasFiles
    <2>2. segs'[Len(segs')] \in Segment
      BY <2>1
    <2> QED BY <2>2, SegmentParts DEF newWAL
  <1>6. Len(todo) = 0 /\ todo' = todo /\ reading' = reading /\ pc' = "up"
    <2>1. todo \in Seq(Flush) /\ \A k \in 1..Len(todo) : todo[k].seg \in 1..0
      BY <1>1 DEF FilesInv, StagesOK
    <2>2. Len(todo) \in Nat
      BY <2>1
    <2>3. 1 \notin 1..Len(todo)
      BY <2>1
    <2>4. Len(todo) = 0
      BY <2>2, <2>3
    <2> QED BY <2>4 DEF newWAL
  <1>7. StagesOK'
    BY <1>1, <1>5, <1>6 DEF FilesInv, StagesOK, NoReader
  <1> QED BY <1>2, <1>4, <1>6, <1>7 DEF FilesInv, FilesKept

\* A start that fails changes nothing.
LEMMA newWALFailsFiles ==
    ASSUME FilesInv, UNCHANGED vars
    PROVE  FilesKept
  <1>1. StagesOK' /\ UNCHANGED <<disk, segs, pc>>
    BY DEF vars, FilesInv, StagesOK, NoReader
  <1> QED BY <1>1, QuietFiles

\* The segments retention leaves: in their order, and the active one last.
LEMMA RemainingIs ==
    ASSUME FilesInv, deleteExpiredSegments
    PROVE  /\ OpenLog(disk, segs) /\ pc = "up"
           /\ segs' \in Seq(Segment) /\ Len(segs') \in Nat /\ Len(segs') > 0
           /\ segs'[Len(segs')] = segs[Len(segs)]
           /\ \E o \in [1..Len(segs') -> 1..Len(segs)] :
                 /\ \A k \in 1..Len(segs') : segs'[k] = segs[o[k]] /\ Stays(segs[o[k]])
                 /\ \A k, l \in 1..Len(segs') : k < l => o[k] < o[l]
                 /\ \A i \in 1..Len(segs) : Stays(segs[i]) => \E k \in 1..Len(segs') : o[k] = i
  <1>1. OpenLog(disk, segs) /\ pc = "up"
    BY DEF FilesInv, deleteExpiredSegments
  <1>2. segs \in Seq(Segment) /\ Len(segs) \in Nat /\ Len(segs) > 0
    BY <1>1, OpenHasFiles
  <1>3. PICK K : K = {i \in 1..Len(segs) : Stays(segs[i])}
    OBVIOUS
  <1>4. K \in SUBSET Nat /\ IsFiniteSet(K) /\ K \in SUBSET (1..Len(segs))
    <2>1. K \in SUBSET (1..Len(segs))
      BY <1>3
    <2>2. IsFiniteSet(1..Len(segs))
      BY <1>2, FS_Interval
    <2>3. IsFiniteSet(K)
      BY <2>1, <2>2, FS_Subset
    <2>4. \A i \in 1..Len(segs) : i \in Nat
      BY <1>2
    <2> QED BY <2>1, <2>3, <2>4
  <1>5. Len(segs) \in K
    BY <1>2, <1>3 DEF Stays, Active
  <1>6. PICK n, o : n = Cardinality(K) /\ o = InOrder(K)
    OBVIOUS
  <1>7. /\ o \in [1..n -> K] /\ n \in Nat
        /\ \A i, j \in 1..n : i < j => o[i] < o[j]
        /\ \A x \in K : \E i \in 1..n : o[i] = x
    BY <1>4, <1>6, InOrderSorts
  <1>8. Len(o) = n
    <2>1. o \in Seq(K)
      BY <1>7
    <2> QED BY <1>7, <2>1
  <1>9. segs' = [k \in 1..n |-> segs[o[k]]]
    BY <1>3, <1>6, <1>8 DEF deleteExpiredSegments
  <1>10. \A k \in 1..n : o[k] \in 1..Len(segs) /\ segs[o[k]] \in Segment /\ Stays(segs[o[k]])
    BY <1>2, <1>3, <1>7
  <1>11. segs' \in Seq(Segment) /\ Len(segs') = n
    <2>1. segs' \in [1..n -> Segment]
      BY <1>9, <1>10
    <2> QED BY <1>7, <2>1
  <1>12. n > 0 /\ o[n] = Len(segs)
    <2>1. PICK k \in 1..n : o[k] = Len(segs)
      BY <1>5, <1>7
    <2>2. n \in 1..n /\ k \in Nat
      BY <1>7
    <2>3. o[n] \in 1..Len(segs)
      BY <1>10, <2>2
    <2>4. CASE k = n
      BY <2>1, <2>2, <2>4
    <2>5. CASE k < n
      <3>1. Len(segs) < o[n]
        BY <1>7, <2>1, <2>2, <2>5
      <3> QED BY <1>2, <2>3, <3>1
    <2> QED BY <1>7, <2>2, <2>4, <2>5
  <1>13. segs'[n] = segs[Len(segs)]
    BY <1>7, <1>9, <1>12
  <1>14. o \in [1..n -> 1..Len(segs)]
    BY <1>4, <1>7
  <1>15. \A i \in 1..Len(segs) : Stays(segs[i]) => \E k \in 1..n : o[k] = i
    BY <1>3, <1>7
  <1>16. \A k \in 1..n : segs'[k] = segs[o[k]] /\ Stays(segs[o[k]])
    BY <1>9, <1>10
  <1> QED BY <1>1, <1>7, <1>11, <1>12, <1>13, <1>14, <1>15, <1>16, Zenon

\* Retention removes only files whose time has ended.
LEMMA deleteExpiredSegmentsFiles ==
    ASSUME FilesInv, deleteExpiredSegments
    PROVE  FilesKept
  <1>1. /\ OpenLog(disk, segs) /\ pc = "up"
        /\ segs' \in Seq(Segment) /\ Len(segs') \in Nat /\ Len(segs') > 0
        /\ segs'[Len(segs')] = segs[Len(segs)]
    BY RemainingIs
  <1>2. PICK o \in [1..Len(segs') -> 1..Len(segs)] :
           \A k \in 1..Len(segs') : segs'[k] = segs[o[k]] /\ Stays(segs[o[k]])
    BY RemainingIs, Zenon
  <1>3. PICK gone, bases : /\ gone = {s \in Range(segs) : ~Stays(s)}
                           /\ bases = {s.base : s \in gone}
    OBVIOUS
  <1>4. PICK B : B = (Linked \ bases) \cup {s.base : s \in Range(segs')}
    OBVIOUS
  <1>5. disk' = [b \in B |-> [disk[b] EXCEPT !.linked = @ /\ b \notin bases]]
    BY <1>3, <1>4 DEF deleteExpiredSegments
  <1>6. Files(disk) /\ disk \in [DOMAIN disk -> File]
        /\ \A b \in DOMAIN disk : disk[b] \in File /\ disk[b].meta = "written"
    BY <1>1 DEF OpenLog, Files
  <1>7. \A k \in 1..Len(segs') : /\ segs'[k].base \in DOMAIN disk
                                 /\ segs'[k].base <= segs'[k].next
                                 /\ Len(segs'[k].sbuf) <= StoreBuf
                                 /\ Len(segs'[k].ibuf) <= IndexBuf
    BY <1>1, <1>2, SegmentsAre
  <1>8. B \in SUBSET DOMAIN disk /\ \A k \in 1..Len(segs') : segs'[k].base \in B
    <2>1. DOMAIN segs' = 1..Len(segs')
      BY <1>1
    <2> QED BY <1>4, <1>7, <2>1 DEF Range, Linked
  <1>9. ASSUME NEW b \in B
        PROVE  /\ disk'[b] \in File /\ disk'[b].meta = "written"
               /\ disk'[b].linked = (disk[b].linked /\ b \notin bases)
               /\ Extended(disk[b], disk'[b])
    <2>1. disk[b] \in File /\ disk[b].meta = "written"
      BY <1>6, <1>8
    <2>2. PICK l \in BOOLEAN : l = (disk[b].linked /\ b \notin bases)
      BY Zenon
    <2>3. PICK g : g = [disk[b] EXCEPT !.linked = l]
      OBVIOUS
    <2>4. disk'[b] = g
      BY <1>5, <2>2, <2>3
    <2>5. /\ g \in File /\ g.meta = "written" /\ g.linked = l
          /\ g.store = disk[b].store /\ g.index = disk[b].index
      BY <2>1, <2>3 DEF File
    <2>6. Extended(disk[b], g)
      BY <2>1, <2>5, SameContents
    <2> QED BY <2>2, <2>4, <2>5, <2>6, Zenon
  <1>10. DOMAIN disk' = B /\ disk' = [b \in DOMAIN disk' |-> disk'[b]]
    BY <1>5
  <1>11. Files(disk')
    <2>1. IsFiniteSet(B)
      BY <1>6, <1>8, FS_Subset DEF Files
    <2> QED BY <1>6, <1>8, <1>9, <1>10, <2>1 DEF Files
  <1>12. OpenLog(disk', segs')
    <2>1. Segments(disk', segs')
      BY <1>1, <1>7, <1>8, <1>10 DEF Segments
    <2>2. \A b \in DOMAIN disk' : b <= segs'[Len(segs')].base
      BY <1>1, <1>8, <1>10 DEF OpenLog
    <2>3. \A b \in DOMAIN disk' : disk'[b].meta = "written"
      BY <1>9, <1>10
    <2> QED BY <1>1, <1>11, <2>1, <2>2, <2>3 DEF OpenLog
  <1>13. Kept(disk, disk')
    <2> SUFFICES ASSUME NEW b \in DOMAIN disk, disk[b].linked, ~disk[b].expired
                 PROVE  b \in DOMAIN disk' /\ disk'[b].linked /\ Extended(disk[b], disk'[b])
      BY DEF Kept
    <2>1. b \notin bases
      <3>1. \A s \in gone : disk[s.base].expired
        BY <1>3 DEF Stays
      <3> QED BY <1>3, <3>1
    <2>2. b \in B
      BY <1>4, <2>1 DEF Linked
    <2> QED BY <1>9, <1>10, <2>1, <2>2
  <1>14. StagesOK'
    <2>1. NoReader /\ pc' = "up" /\ UNCHANGED <<applied, todo, reading>> /\ todo = <<>>
      BY DEF deleteExpiredSegments, FilesInv, StagesOK
    <2> QED BY <2>1 DEF FilesInv, StagesOK, NoReader
  <1>15. pc' # "down"
    BY DEF deleteExpiredSegments
  <1> QED BY <1>12, <1>13, <1>14, <1>15 DEF FilesInv, FilesKept

-----------------------------------------------------------------------------
(***************************************************************************)
(* What the files guarantee, with any number of readers.                   *)
(***************************************************************************)
LEMMA FilesStep ==
    ASSUME FilesInv, [Next]_vars
    PROVE  FilesKept
  <1>1. CASE newWAL
    BY <1>1, newWALFiles
  <1>2. CASE newWALFails
    BY <1>2, newWALFailsFiles DEF newWALFails
  <1>3. CASE append
    BY <1>3, appendFiles
  <1>4. CASE appendClosed
    BY <1>4, appendClosedFiles
  <1>5. CASE flush
    BY <1>5, flushFiles
  <1>6. CASE close
    BY <1>6, closeFiles
  <1>7. CASE FlushStep
    BY <1>7, FlushStepFiles
  <1>8. CASE FlushDone
    BY <1>8, FlushDoneFiles
  <1>9. CASE Closed
    BY <1>9, GoneFiles DEF Closed
  <1>10. CASE Crash
    BY <1>10, GoneFiles DEF Crash
  <1>11. CASE CrashOpening
    BY <1>11, CrashOpeningFiles
  <1>12. CASE \E r \in Reader, offset \in Offset : ReadBegin(r, offset)
    BY <1>12, ReadBeginFiles
  <1>13. CASE \E r \in Reader : ReadWritesIndex(r)
    BY <1>13, ReadWritesIndexFiles
  <1>14. CASE \E r \in Reader : ReadEmptiesIndex(r)
    BY <1>14, ReadEmptiesFiles
  <1>15. CASE \E r \in Reader : ReadWritesStore(r)
    BY <1>15, ReadWritesStoreFiles
  <1>16. CASE \E r \in Reader : ReadEnd(r)
    BY <1>16, ReadEmptiesFiles
  <1>17. CASE \E b \in DOMAIN disk : Expire(b)
    BY <1>17, ExpireFiles
  <1>18. CASE deleteExpiredSegments
    BY <1>18, deleteExpiredSegmentsFiles
  <1>19. CASE UNCHANGED vars
    BY <1>19, newWALFailsFiles
  <1> QED BY <1>1, <1>2, <1>3, <1>4, <1>5, <1>6, <1>7, <1>8, <1>9, <1>10, <1>11, <1>12,
             <1>13, <1>14, <1>15, <1>16, <1>17, <1>18, <1>19, Zenon DEF Next

\* The files and segments are well formed in every state: buffers within their
\* capacity, the active segment the newest, a meta file missing only behind a
\* death in newSegment (wal.go:27-190, segment.go:31-184).
THEOREM FilesInvariant == Spec => []FilesInv
  <1>1. Init => FilesInv
    <2> SUFFICES ASSUME Init
                 PROVE  FilesInv
      OBVIOUS
    <2>1. disk = <<>> /\ segs = <<>> /\ applied = 0 /\ todo = <<>> /\ pc = "down"
          /\ reading = [r \in Reader |-> [at |-> "idle", seg |-> 0]]
      BY DEF Init
    <2>2. DOMAIN disk = {} /\ disk \in [{} -> File]
      BY <2>1
    <2>3. ShutLog(disk)
      BY <2>2, FS_EmptySet DEF ShutLog, Files
    <2>4. "idle" \in Stage /\ 0 \in Nat
      BY DEF Stage
    <2>5. StagesOK
      BY <2>1, <2>4 DEF StagesOK, NoReader
    <2> QED BY <2>1, <2>3, <2>5 DEF FilesInv
  <1>2. FilesInv /\ [Next]_vars => FilesInv'
    BY FilesStep DEF FilesKept
  <1> QED BY <1>1, <1>2, PTL DEF Spec

\* High and low word of a position make a number.
LEMMA PositionIsNat ==
    ASSUME NEW i \in Nat, NEW j \in Nat, NEW k \in Nat
    PROVE  i * j + k \in Nat
  OBVIOUS

\* What segment.Read finds in files it finds when more was written to them.
LEMMA RecordStaysFound ==
    ASSUME NEW store \in Seq(Word), NEW index \in Seq(Nat), NEW u \in Seq(Word),
           NEW x \in Seq(Nat), NEW rel \in Nat, NEW offset \in Offset,
           RecordFound(store, index, rel) = offset
    PROVE  RecordFound(store \o u, index \o x, rel) = offset
  <1>1. PICK s, t : s = store \o u /\ t = index \o x
    OBVIOUS
  <1>2. /\ s \in Seq(Word) /\ Len(s) = Len(store) + Len(u)
        /\ \A i \in 1..Len(store) : s[i] = store[i]
    BY <1>1
  <1>3. /\ t \in Seq(Nat) /\ Len(t) = Len(index) + Len(x)
        /\ \A i \in 1..Len(index) : t[i] = index[i]
    BY <1>1
  <1> DEFINE position == index[3 * rel + 2] * Wide + index[3 * rel + 3]
             header == store[position + 1]
             found == /\ 3 * rel + 3 <= Len(index)
                      /\ position < Len(store)
                      /\ header.part = 0
                      /\ position + 1 + ValueWords[header.rec] <= Len(store)
                      /\ \A k \in 1..ValueWords[header.rec] :
                            store[position + 1 + k] = [rec |-> header.rec, part |-> k]
  <1>4. RecordFound(store, index, rel) = IF found THEN header.rec ELSE None
    BY Zenon DEF RecordFound
  <1>5. offset # None
    BY RecordsAssumption DEF Offset, None
  <1>6. found /\ header.rec = offset
    BY <1>4, <1>5, Zenon
  <1>7. Wide \in Nat
    <2>1. MaxRecords \in Nat /\ 1 + MaxStore \in Nat /\ 1 \in Nat
      BY RecordsAssumption, CapacityAssumption
    <2>2. MaxRecords * (1 + MaxStore) + 1 \in Nat
      BY <2>1, PositionIsNat, Zenon
    <2>3. PICK m : m = MaxRecords * (1 + MaxStore)
      OBVIOUS
    <2>4. m \in Int /\ m + 1 \in Nat
      BY <2>1, <2>2, <2>3
    <2>5. 1 + m \in Nat
      BY <2>4
    <2> QED BY <2>3, <2>5 DEF Wide
  <1>8. 3 * rel + 2 \in 1..Len(index) /\ 3 * rel + 3 \in 1..Len(index)
    BY <1>6
  <1>9. index[3 * rel + 2] \in Nat /\ index[3 * rel + 3] \in Nat
    BY <1>8, SMTT(90)
  <1>10. t[3 * rel + 2] = index[3 * rel + 2] /\ t[3 * rel + 3] = index[3 * rel + 3]
    BY <1>3, <1>8
  <1>11. position \in Nat
    BY <1>7, <1>9, PositionIsNat, Zenon
  <1>12. t[3 * rel + 2] * Wide + t[3 * rel + 3] = position
    BY <1>10
  <1>13. PICK p \in Nat : p = position
    BY <1>11
  <1>14. PICK h : h = store[p + 1]
    OBVIOUS
  <1>15. /\ 3 * rel + 3 <= Len(index) /\ p < Len(store) /\ h.part = 0 /\ h.rec = offset
         /\ p + 1 + ValueWords[offset] <= Len(store)
         /\ \A k \in 1..ValueWords[offset] : store[p + 1 + k] = [rec |-> offset, part |-> k]
    BY <1>6, <1>13, <1>14
  <1> HIDE DEF position, header, found
  <1>16. ValueWords[offset] \in Nat /\ Len(store) \in Nat /\ Len(u) \in Nat
         /\ Len(index) \in Nat /\ Len(x) \in Nat
    BY ValueAssumption
  <1>17. s[p + 1] = h
    BY <1>2, <1>14, <1>15, <1>16
  <1>18. 3 * rel + 3 <= Len(t) /\ p < Len(s) /\ p + 1 + ValueWords[offset] <= Len(s)
    <2>1. PICK ls, lu, li, lx, lv \in Nat :
             ls = Len(store) /\ lu = Len(u) /\ li = Len(index) /\ lx = Len(x)
             /\ lv = ValueWords[offset]
      BY <1>16, Zenon
    <2>2. 3 * rel + 3 <= li + lx /\ p < ls + lu /\ p + 1 + lv <= ls + lu
      <3>1. 3 * rel + 3 <= li /\ p < ls /\ p + 1 + lv <= ls
        BY <1>15, <2>1, Zenon
      <3>2. \A m, i, j \in Nat : (m <= i => m <= i + j) /\ (m < i => m < i + j)
        OBVIOUS
      <3>3. 3 * rel + 3 \in Nat /\ p + 1 + lv \in Nat
        BY <2>1
      <3> QED BY <3>1, <3>2, <3>3, Zenon
    <2> QED BY <1>2, <1>3, <2>1, <2>2, Zenon
  <1>19. \A k \in 1..ValueWords[offset] : s[p + 1 + k] = [rec |-> offset, part |-> k]
    <2> SUFFICES ASSUME NEW k \in 1..ValueWords[offset]
                 PROVE  s[p + 1 + k] = [rec |-> offset, part |-> k]
      OBVIOUS
    <2>1. p + 1 + k \in 1..Len(store)
      BY <1>15, <1>16, SMTT(30)
    <2> QED BY <1>2, <1>15, <2>1
  <1>20. t[3 * rel + 2] * Wide + t[3 * rel + 3] = p
    BY <1>12, <1>13
  <1>21. RecordFound(s, t, rel) = h.rec
    <2>1. PICK q : q = t[3 * rel + 2] * Wide + t[3 * rel + 3]
      OBVIOUS
    <2>2. RecordFound(s, t, rel) =
             IF /\ 3 * rel + 3 <= Len(t) /\ q < Len(s) /\ s[q + 1].part = 0
                /\ q + 1 + ValueWords[s[q + 1].rec] <= Len(s)
                /\ \A k \in 1..ValueWords[s[q + 1].rec] :
                      s[q + 1 + k] = [rec |-> s[q + 1].rec, part |-> k]
             THEN s[q + 1].rec ELSE None
      BY <2>1, Zenon DEF RecordFound
    <2>3. q = p /\ s[q + 1] = h /\ h.rec = offset /\ h.part = 0
      BY <1>15, <1>17, <1>20, <2>1, Zenon
    <2> QED BY <1>18, <1>19, <2>2, <2>3, Zenon
  <1> QED BY <1>1, <1>15, <1>21

\* THEOREM: what has reached both files stays there until its retention time
\* ends, whatever crashes, reopenings, rotations and writes come (FlushedIsKept).
THEOREM FlushedStaysOnDisk == Spec => FlushedIsKept
  <1>1. ASSUME FilesInv, [Next]_vars
        PROVE  \A offset \in Offset :
                  OnDisk(offset) =>
                     \/ OnDisk(offset)'
                     \/ \E b \in Linked : OnDiskIn(b, offset) /\ disk[b].expired
    <2> SUFFICES ASSUME NEW offset \in Offset, NEW b \in Linked, OnDiskIn(b, offset),
                        ~disk[b].expired
                 PROVE  OnDisk(offset)'
      BY Zenon DEF OnDisk
    <2>1. Kept(disk, disk') /\ FilesInv'
      BY <1>1, FilesStep DEF FilesKept
    <2>2. b \in DOMAIN disk /\ disk[b].linked
      BY DEF Linked
    <2>3. b \in DOMAIN disk' /\ disk'[b].linked /\ Extended(disk[b], disk'[b])
      BY <2>1, <2>2 DEF Kept
    <2>4. PICK u \in Seq(Word), x \in Seq(Nat) :
             disk'[b].store = disk[b].store \o u /\ disk'[b].index = disk[b].index \o x
      BY <2>3, Zenon DEF Extended
    <2>5. b \in Nat /\ disk[b] \in File
      BY <1>1, <2>2, FilesInvHasFiles DEF Files
    <2>6. disk[b].store \in Seq(Word) /\ disk[b].index \in Seq(Nat)
      BY <2>5, FileParts
    <2>7. offset - b \in Nat /\ RecordFound(disk[b].store, disk[b].index, offset - b) = offset
      BY <2>5, RecordsAssumption DEF OnDiskIn, Offset
    <2>8. RecordFound(disk'[b].store, disk'[b].index, offset - b) = offset
      BY <2>4, <2>6, <2>7, RecordStaysFound
    <2>9. b \in Linked' /\ OnDiskIn(b, offset)'
      BY <2>3, <2>8 DEF Linked, OnDiskIn
    <2> QED BY <2>9 DEF OnDisk
  <1>2. FilesInv /\ [Next]_vars => [\A offset \in Offset :
                  OnDisk(offset) =>
                     \/ OnDisk(offset)'
                     \/ \E b \in Linked : OnDiskIn(b, offset) /\ disk[b].expired]_vars
    BY <1>1
  <1> QED BY <1>2, FilesInvariant, PTL DEF Spec, FlushedIsKept

\* THEOREM: a meta file without contents is one of the newest segment, and that
\* segment has no record (EmptyMetaHoldsNothing).
THEOREM EmptyMetaIsNewest == Spec => []EmptyMetaHoldsNothing
  <1>1. FilesInv => EmptyMetaHoldsNothing
    BY FilesInvIsShut DEF ShutLog, Linked, EmptyMetaHoldsNothing
  <1> QED BY <1>1, FilesInvariant, PTL

-----------------------------------------------------------------------------
(***************************************************************************)
(* Counting entries.                                                       *)
(***************************************************************************)
LEMMA EntriesAre ==
    /\ \A n \in Nat : Entries(n) \in Nat /\ Entries(n + 3) = Entries(n) + 1
    /\ \A m, n \in Nat : m <= n => Entries(m) <= Entries(n)
    /\ Entries(0) = 0
  BY DEF Entries

\* The numbers of a segment of an open log.
LEMMA SegmentNumbers ==
    ASSUME NEW d, NEW s, OpenLog(d, s), NEW i \in 1..Len(s), NEW p
    PROVE  /\ s[i].base \in DOMAIN d /\ s[i].base \in Nat /\ s[i].next \in Nat
           /\ s[i].base <= s[i].next
           /\ d[s[i].base].index \in Seq(Nat) /\ s[i].ibuf \in Seq(Nat)
           /\ Len(d[s[i].base].index) \in Nat /\ Len(s[i].ibuf) \in Nat
           /\ Indexed(d, s, p, i) \in Nat
           /\ Len(d[s[i].base].index) <= Indexed(d, s, p, i)
  <1>1. s[i] \in Segment /\ s[i].base \in DOMAIN d /\ s[i].base <= s[i].next
    BY DEF OpenLog, Segments
  <1>2. d[s[i].base] \in File
    BY <1>1 DEF OpenLog, Files
  <1>3. d[s[i].base].index \in Seq(Nat)
    BY <1>2, FileParts
  <1>4. s[i].ibuf \in Seq(Nat) /\ s[i].base \in Nat /\ s[i].next \in Nat
    BY <1>1, SegmentParts
  <1>5. Len(d[s[i].base].index) \in Nat /\ Len(s[i].ibuf) \in Nat
    BY <1>3, <1>4
  <1>6. Indexed(d, s, p, i) \in Nat /\ Len(d[s[i].base].index) <= Indexed(d, s, p, i)
    <2>1. PICK m, l \in Nat : m = Len(d[s[i].base].index) /\ l = Len(s[i].ibuf)
      BY <1>5
    <2>2. Indexed(d, s, p, i) = m + 0 \/ Indexed(d, s, p, i) = m + l
      BY <2>1, Zenon DEF Indexed
    <2>3. m + 0 \in Nat /\ m + l \in Nat /\ m <= m + 0 /\ m <= m + l
      OBVIOUS
    <2> QED BY <2>1, <2>2, <2>3, Zenon
  <1> QED BY <1>1, <1>3, <1>4, <1>5, <1>6

\* Later segments start and end later; one that is opened again counts nothing.
LEMMA FollowOrders ==
    ASSUME NEW d, NEW s, OpenLog(d, s), Follow(s)
    PROVE  /\ \A i, j \in 1..Len(s) : i < j => s[i].base <= s[j].base /\ s[i].next <= s[j].next
           /\ \A i \in 1..Len(s) : s[i].next <= s[Len(s)].next /\ s[i].base <= s[Len(s)].base
           /\ \A i, j \in 1..Len(s) : s[i].base < s[j].base => s[i].next <= s[j].base
           /\ \A i \in 1..Len(s) : ~Owner(s, i) => s[i].next = s[i].base
  <1>1. \A i \in 1..Len(s) : s[i].base \in Nat /\ s[i].next \in Nat /\ s[i].base <= s[i].next
    BY SegmentNumbers
  <1>2. Len(s) \in Nat /\ Len(s) > 0
    BY OpenHasFiles
  <1>3. \A i, j \in 1..Len(s) : i < j => s[i].next <= s[j].base
    BY DEF Follow
  <1>4. ASSUME NEW i \in 1..Len(s), NEW j \in 1..Len(s), i < j
        PROVE  s[i].base <= s[j].base /\ s[i].next <= s[j].next
    BY <1>1, <1>3, <1>4
  <1>5. ASSUME NEW i \in 1..Len(s)
        PROVE  s[i].next <= s[Len(s)].next /\ s[i].base <= s[Len(s)].base
    <2>1. Len(s) \in 1..Len(s)
      BY <1>2
    <2>2. CASE i < Len(s)
      BY <1>4, <2>1, <2>2
    <2>3. CASE i = Len(s)
      BY <1>1, <2>3
    <2> QED BY <1>2, <2>2, <2>3
  <1>6. ASSUME NEW i \in 1..Len(s), NEW j \in 1..Len(s), s[i].base < s[j].base
        PROVE  s[i].next <= s[j].base
    <2>1. i < j \/ i = j \/ j < i
      BY <1>2
    <2>2. CASE i < j
      BY <1>3, <2>2
    <2>3. CASE j < i
      BY <1>1, <1>4, <1>6, <2>3
    <2>4. CASE i = j
      BY <1>1, <1>6, <2>4
    <2> QED BY <2>1, <2>2, <2>3, <2>4
  <1>7. ASSUME NEW i \in 1..Len(s), ~Owner(s, i)
        PROVE  s[i].next = s[i].base
    <2>1. PICK j \in 1..Len(s) : j > i /\ s[j].base = s[i].base
      BY <1>7 DEF Owner
    <2>2. i < j
      BY <1>2, <2>1
    <2>3. s[i].next <= s[j].base
      BY <1>3, <2>2
    <2> QED BY <1>1, <2>1, <2>3
  <1> QED BY <1>4, <1>5, <1>6, <1>7

\* Segments with the same bases own the same files.
LEMMA OwnerSame ==
    ASSUME NEW s, NEW t, Len(t) = Len(s), \A j \in 1..Len(s) : t[j].base = s[j].base,
           NEW i \in 1..Len(s)
    PROVE  Owner(t, i) <=> Owner(s, i)
  BY DEF Owner

\* What is counted stays right when no index file gains more than its segment's
\* buffer loses.
LEMMA CountsKept ==
    ASSUME NEW d, NEW s, NEW p, NEW e, NEW t, NEW q,
           OpenLog(d, s), OpenLog(e, t), OpenCounts(d, s, p), Len(t) = Len(s),
           \A j \in 1..Len(s) : /\ t[j].base = s[j].base /\ t[j].next = s[j].next
                                /\ s[j].ibuf = <<>> => t[j].ibuf = <<>>
                                /\ Owner(s, j) => Indexed(e, t, q, j) <= Indexed(d, s, p, j),
           DOMAIN e = DOMAIN d, \A b \in DOMAIN d : e[b].linked => d[b].linked
    PROVE  OpenCounts(e, t, q)
  <1>1. Follow(t)
    BY DEF OpenCounts, Follow
  <1>2. \A j \in 1..Len(s) : Owner(t, j) <=> Owner(s, j)
    BY OwnerSame, Zenon
  <1>3. ASSUME NEW j \in 1..Len(s)
        PROVE  CountOf(e, t, q, j)
    <2>1. CountOf(d, s, p, j)
      BY DEF OpenCounts, Counts
    <2>2. t[j].next = t[j].base => t[j].ibuf = <<>>
      BY <2>1 DEF CountOf
    <2>3. ASSUME Owner(t, j)
          PROVE  t[j].base + Entries(Indexed(e, t, q, j)) <= t[j].next
      <3>1. s[j].base + Entries(Indexed(d, s, p, j)) <= s[j].next
        BY <1>2, <2>1, <2>3 DEF CountOf
      <3>2. Indexed(d, s, p, j) \in Nat /\ s[j].base \in Nat /\ s[j].next \in Nat
        BY SegmentNumbers
      <3>3. Indexed(e, t, q, j) \in Nat
        BY SegmentNumbers
      <3>4. Entries(Indexed(e, t, q, j)) <= Entries(Indexed(d, s, p, j))
        BY <1>2, <2>3, <3>2, <3>3, EntriesAre
      <3>5. Entries(Indexed(e, t, q, j)) \in Nat /\ Entries(Indexed(d, s, p, j)) \in Nat
        BY <3>2, <3>3, EntriesAre
      <3> QED BY <3>1, <3>2, <3>4, <3>5, SMTT(90)
    <2> QED BY <2>2, <2>3 DEF CountOf
  <1>4. Counts(e, t, q)
    BY <1>3 DEF Counts
  <1>5. Owned(e, t)
    BY <1>2 DEF OpenCounts, Owned
  <1> QED BY <1>1, <1>4, <1>5 DEF OpenCounts

-----------------------------------------------------------------------------
(***************************************************************************)
(* With one reader at a time, every step keeps CountInv.  Two readers that *)
(* flush the same index buffer write its entries twice: a restart would    *)
(* count records that were never applied.                                  *)
(***************************************************************************)
\* Without readers no index buffer is half flushed.
LEMMA NoneSent ==
    ASSUME NoReader
    PROVE  Sent = {}
  BY DEF NoReader, Sent

\* Steps of an open log that apply no record.
LEMMA CountFrame ==
    ASSUME FilesInv, FilesInv', CountInv, pc # "down", pc' # "down",
           UNCHANGED <<applied, deleted, unclean>>,
           Len(segs') = Len(segs), DOMAIN disk' = DOMAIN disk,
           \A b \in DOMAIN disk : disk'[b].linked => disk[b].linked,
           \A j \in 1..Len(segs) :
              /\ segs'[j].base = segs[j].base /\ segs'[j].next = segs[j].next
              /\ segs[j].ibuf = <<>> => segs'[j].ibuf = <<>>
              /\ Owner(segs, j) => Indexed(disk', segs', Sent', j) <= Indexed(disk, segs, Sent, j)
    PROVE  CountInv'
  <1>1. OpenLog(disk, segs) /\ OpenLog(disk', segs')
    BY DEF FilesInv
  <1>2. PICK p, e, t, q : p = Sent /\ e = disk' /\ t = segs' /\ q = Sent'
    OBVIOUS
  <1>3. OpenCounts(disk, segs, p)
    BY <1>2 DEF CountInv
  <1>4. OpenCounts(e, t, q)
    BY <1>1, <1>2, <1>3, CountsKept
  <1>5. segs'[Len(segs')].next <= applied'
    <2>1. Len(segs) \in 1..Len(segs)
      BY <1>1, OpenHasFiles
    <2> QED BY <2>1 DEF CountInv
  <1>6. OpenCounts(disk', segs', Sent')
    BY <1>2, <1>4
  <1> QED BY <1>5, <1>6 DEF CountInv

\* Index words counted for segment j, with buffer and without.
LEMMA IndexedIs ==
    ASSUME NEW d, NEW s, NEW p, NEW j
    PROVE  /\ j \in p => Indexed(d, s, p, j) = Len(d[s[j].base].index) + 0
           /\ j \notin p => Indexed(d, s, p, j) = Len(d[s[j].base].index) + Len(s[j].ibuf)
  BY DEF Indexed

\* Steps that change no index, no index buffer, and nothing of who has sent one.
LEMMA CountSame ==
    ASSUME FilesInv, FilesInv', CountInv, pc # "down", pc' # "down",
           UNCHANGED <<applied, deleted, unclean>>,
           Len(segs') = Len(segs), DOMAIN disk' = DOMAIN disk, Sent' = Sent,
           \A b \in DOMAIN disk : /\ disk'[b].linked => disk[b].linked
                                  /\ disk'[b].index = disk[b].index,
           \A j \in 1..Len(segs) : /\ segs'[j].base = segs[j].base /\ segs'[j].next = segs[j].next
                                   /\ segs'[j].ibuf = segs[j].ibuf
    PROVE  CountInv'
  <1>1. OpenLog(disk, segs)
    BY DEF FilesInv
  <1>2. ASSUME NEW j \in 1..Len(segs)
        PROVE  Indexed(disk', segs', Sent', j) <= Indexed(disk, segs, Sent, j)
    <2>1. segs[j].base \in DOMAIN disk /\ Indexed(disk, segs, Sent, j) \in Nat
      BY <1>1, SegmentNumbers
    <2>2. disk'[segs'[j].base].index = disk[segs[j].base].index /\ segs'[j].ibuf = segs[j].ibuf
      BY <2>1
    <2>3. Indexed(disk', segs', Sent', j) = Indexed(disk, segs, Sent, j)
      BY <2>2, Zenon DEF Indexed
    <2> QED BY <2>1, <2>3
  <1> QED BY <1>2, CountFrame

\* A flush that begins or ends counts nothing.
LEMMA flushCounts ==
    ASSUME FilesInv, FilesInv', CountInv, flush \/ close \/ FlushDone
    PROVE  CountInv'
  <1>1. pc # "down" /\ pc' # "down" /\ UNCHANGED <<disk, segs, applied, deleted, unclean, reading>>
    BY DEF flush, close, FlushDone
  <1>2. Sent' = Sent
    BY <1>1 DEF Sent
  <1> QED BY <1>1, <1>2, CountSame

\* A reader that starts counts nothing.
LEMMA ReadBeginCounts ==
    ASSUME FilesInv, FilesInv', CountInv, NEW r \in Reader, NEW offset, ReadBegin(r, offset)
    PROVE  CountInv'
  <1>1. pc # "down" /\ pc' # "down" /\ UNCHANGED <<disk, segs, applied, deleted, unclean>>
    BY DEF ReadBegin
  <1>2. Sent' = Sent
    <2>1. PICK i : reading' = [reading EXCEPT ![r] = [at |-> "index", seg |-> i]]
      BY DEF ReadBegin
    <2>2. reading \in [Reader -> [at : Stage, seg : Nat]] /\ reading[r].at = "idle"
      BY DEF FilesInv, StagesOK, ReadBegin
    <2>3. \A q \in Reader : (reading'[q].at = "indexSent" \/ reading[q].at = "indexSent")
                               => reading'[q] = reading[q]
      BY <2>1, <2>2
    <2> QED BY <1>1, <2>3 DEF Sent
  <1> QED BY <1>1, <1>2, CountSame

\* Flushing a store counts nothing.
LEMMA ReadStoreCounts ==
    ASSUME FilesInv, FilesInv', CountInv, NEW r \in Reader, ReadWritesStore(r) \/ ReadEnd(r)
    PROVE  CountInv'
  <1>1. reading[r].at \in {"store", "storeSent"} /\ UNCHANGED <<applied, deleted, unclean>>
    BY DEF ReadWritesStore, ReadEnd
  <1>2. pc = "up" /\ pc' = "up" /\ OpenLog(disk, segs) /\ reading \in [Reader -> [at : Stage, seg : Nat]]
    BY <1>1 DEF FilesInv, StagesOK, NoReader, ReadWritesStore, ReadEnd
  <1>3. PICK i : i = reading[r].seg
    OBVIOUS
  <1>4. i \in 1..Len(segs)
    BY <1>1, <1>3 DEF FilesInv, StagesOK
  <1>5. segs \in Seq(Segment) /\ segs[i] \in Segment /\ disk \in [DOMAIN disk -> File]
        /\ segs[i].base \in DOMAIN disk
    BY <1>2, <1>4 DEF OpenLog, Segments, Files
  <1>6. /\ DOMAIN disk' = DOMAIN disk
        /\ \A b \in DOMAIN disk : disk'[b].linked = disk[b].linked /\ disk'[b].index = disk[b].index
    <2>1. CASE ReadEnd(r)
      BY <2>1 DEF ReadEnd
    <2>2. CASE ReadWritesStore(r)
      <3>1. PICK c, st : c = segs[i].base /\ st = disk[c].store \o segs[i].sbuf
        OBVIOUS
      <3>2. disk' = [disk EXCEPT ![c] = [disk[c] EXCEPT !.store = st]]
        BY <1>3, <1>5, <2>2, <3>1, Zenon DEF ReadWritesStore, SendStore
      <3>3. disk[c] \in File
        BY <1>5, <3>1
      <3>4. PICK g : g = [disk[c] EXCEPT !.store = st]
        OBVIOUS
      <3>5. g.linked = disk[c].linked /\ g.index = disk[c].index
        BY <3>3, <3>4 DEF File
      <3> QED BY <1>5, <3>2, <3>4, <3>5
    <2> QED BY <2>1, <2>2
  <1>7. /\ Len(segs') = Len(segs)
        /\ \A j \in 1..Len(segs) : /\ segs'[j].base = segs[j].base /\ segs'[j].next = segs[j].next
                                   /\ segs'[j].ibuf = segs[j].ibuf
    <2>1. CASE ReadWritesStore(r)
      BY <2>1 DEF ReadWritesStore
    <2>2. CASE ReadEnd(r)
      <3>1. PICK g : g = [segs[i] EXCEPT !.sbuf = <<>>]
        OBVIOUS
      <3>2. g.base = segs[i].base /\ g.next = segs[i].next /\ g.ibuf = segs[i].ibuf
        BY <1>5, <3>1 DEF Segment
      <3>3. segs' = [segs EXCEPT ![i] = g]
        BY <1>3, <1>5, <2>2, <3>1 DEF ReadEnd
      <3> QED BY <1>4, <1>5, <3>2, <3>3
    <2> QED BY <2>1, <2>2
  <1>8. Sent' = Sent
    <2>1. reading'[r].at # "indexSent" /\ \A q \in Reader : q # r => reading'[q] = reading[q]
      BY <1>2 DEF ReadWritesStore, ReadEnd
    <2>2. \A q \in Reader : (reading'[q].at = "indexSent" \/ reading[q].at = "indexSent")
                               => reading'[q] = reading[q]
      BY <1>1, <2>1
    <2> QED BY <1>7, <2>2 DEF Sent
  <1> QED BY <1>1, <1>2, <1>6, <1>7, <1>8, CountSame

\* What writing the index buffer of segment i does to the index files: those of
\* another segment gain nothing, for a segment that is opened again has an empty
\* buffer.
LEMMA SendIndexGains ==
    ASSUME OpenLog(disk, segs), NEW p, OpenCounts(disk, segs, p), NEW i \in 1..Len(segs),
           NEW j \in 1..Len(segs), Owner(segs, j)
    PROVE  /\ j = i => Len(SendIndex(i)[segs[j].base].index) =
                          Len(disk[segs[j].base].index) + Len(segs[i].ibuf)
           /\ j # i => Len(SendIndex(i)[segs[j].base].index) = Len(disk[segs[j].base].index)
           /\ DOMAIN SendIndex(i) = DOMAIN disk
           /\ \A b \in DOMAIN disk : SendIndex(i)[b].linked = disk[b].linked
  <1>1. PICK b, c, x : b = segs[i].base /\ c = segs[j].base /\ x = segs[i].ibuf
    OBVIOUS
  <1>2. /\ b \in DOMAIN disk /\ c \in DOMAIN disk /\ x \in Seq(Nat)
        /\ disk[b].index \in Seq(Nat) /\ disk[c].index \in Seq(Nat)
    BY <1>1, SegmentNumbers
  <1>3. disk \in [DOMAIN disk -> File] /\ disk[b] \in File
    BY <1>2 DEF OpenLog, Files
  <1>4. PICK f, ix : f = disk[b] /\ ix = disk[b].index \o x
    OBVIOUS
  <1>5. PICK g : g = [f EXCEPT !.index = ix]
    OBVIOUS
  <1>6. g.index = ix /\ g.linked = f.linked
    <2>1. f \in File
      BY <1>3, <1>4, Zenon
    <2> QED BY <1>5, <2>1, SMTT(60) DEF File
  <1>7. SendIndex(i) = [disk EXCEPT ![b] = g]
    BY <1>1, <1>3, <1>4, <1>5, ZenonT(60) DEF SendIndex
  <1>8. PICK e : e = SendIndex(i)
    OBVIOUS
  <1>9. /\ DOMAIN e = DOMAIN disk /\ e[b] = g
        /\ \A k \in DOMAIN disk : k # b => e[k] = disk[k]
    BY <1>2, <1>3, <1>7, <1>8
  <1>10. Len(ix) = Len(disk[b].index) + Len(x)
    <2>1. PICK di \in Seq(Nat) : di = disk[b].index
      BY <1>2
    <2>2. Len(di \o x) = Len(di) + Len(x)
      BY <1>2, ConcatProperties
    <2> QED BY <1>4, <2>1, <2>2
  <1>11. \A k \in DOMAIN disk : e[k].linked = disk[k].linked
    BY <1>4, <1>6, <1>9
  <1>12. CASE j = i
    BY <1>1, <1>6, <1>8, <1>9, <1>10, <1>11, <1>12
  <1>13. CASE j # i /\ c # b
    BY <1>1, <1>2, <1>8, <1>9, <1>11, <1>13
  <1>14. CASE j # i /\ c = b
    <2>1. Len(segs) \in Nat
      BY OpenHasFiles
    <2>2. i < j
      BY <1>1, <1>14, <2>1 DEF Owner
    <2>3. ~Owner(segs, i)
      BY <1>1, <1>14, <2>1, <2>2 DEF Owner
    <2>4. segs[i].next = segs[i].base
      BY <2>3, FollowOrders DEF OpenCounts
    <2>5. x = <<>>
      BY <1>1, <2>4 DEF OpenCounts, Counts, CountOf
    <2>6. Len(ix) = Len(disk[b].index)
      <3>1. Len(x) = 0 /\ Len(disk[b].index) \in Nat
        BY <1>2, <2>5
      <3> QED BY <1>10, <3>1
    <2> QED BY <1>1, <1>6, <1>8, <1>9, <1>11, <1>14, <2>6
  <1> QED BY <1>12, <1>13, <1>14

\* Flushing an index moves its entries from the buffer to the file.
LEMMA FlushStepCounts ==
    ASSUME FilesInv, FilesInv', CountInv, FlushStep
    PROVE  CountInv'
  <1>1. /\ OpenLog(disk, segs) /\ NoReader /\ pc # "down" /\ pc' = pc
        /\ UNCHANGED <<applied, deleted, unclean, reading>>
    BY DEF FlushStep, FilesInv, StagesOK
  <1>2. Sent = {} /\ Sent' = {}
    <2>1. NoReader'
      BY <1>1 DEF NoReader
    <2> QED BY <1>1, <2>1 DEF Sent, NoReader
  <1>3. PICK i \in 1..Len(segs) : i = Head(todo).seg
    <2>1. todo \in Seq(Flush) /\ todo # <<>> /\ \A k \in 1..Len(todo) : todo[k].seg \in 1..Len(segs)
      BY DEF FlushStep, FilesInv, StagesOK
    <2>2. 1 \in 1..Len(todo) /\ Head(todo) = todo[1]
      BY <2>1
    <2> QED BY <2>1, <2>2
  <1>4. OpenCounts(disk, segs, {})
    BY <1>1, <1>2 DEF CountInv
  <1>5. segs \in Seq(Segment) /\ segs[i] \in Segment /\ disk \in [DOMAIN disk -> File]
        /\ segs[i].base \in DOMAIN disk
    BY <1>1 DEF OpenLog, Segments, Files
  <1>6. CASE disk' = SendIndex(i) /\ segs' = [segs EXCEPT ![i].ibuf = <<>>]
    <2>1. PICK g : g = [segs[i] EXCEPT !.ibuf = <<>>]
      OBVIOUS
    <2>2. g.base = segs[i].base /\ g.next = segs[i].next /\ g.ibuf = <<>>
      BY <1>5, <2>1 DEF Segment
    <2>3. segs' = [segs EXCEPT ![i] = g]
      BY <1>5, <1>6, <2>1
    <2>4. Len(segs') = Len(segs) /\ segs'[i] = g /\ \A j \in 1..Len(segs) : j # i => segs'[j] = segs[j]
      BY <1>5, <2>3
    <2>5. ASSUME NEW j \in 1..Len(segs)
          PROVE  /\ segs'[j].base = segs[j].base /\ segs'[j].next = segs[j].next
                 /\ segs[j].ibuf = <<>> => segs'[j].ibuf = <<>>
                 /\ Owner(segs, j) => Indexed(disk', segs', Sent', j) <= Indexed(disk, segs, Sent, j)
      <3>1. /\ segs'[j].base = segs[j].base /\ segs'[j].next = segs[j].next
            /\ segs[j].ibuf = <<>> => segs'[j].ibuf = <<>>
        BY <2>2, <2>4
      <3>2. ASSUME Owner(segs, j)
            PROVE  Indexed(disk', segs', Sent', j) <= Indexed(disk, segs, Sent, j)
        <4>1. PICK l, m, k : /\ l = Len(disk[segs[j].base].index) /\ m = Len(segs[j].ibuf)
                             /\ k = Len(disk'[segs[j].base].index)
          OBVIOUS
        <4>2. l \in Nat /\ m \in Nat
          BY <1>1, <4>1, SegmentNumbers
        <4>3. Indexed(disk, segs, Sent, j) = l + m
          BY <1>2, <4>1, IndexedIs
        <4>4. Indexed(disk', segs', Sent', j) = k + Len(segs'[j].ibuf)
          BY <1>2, <3>1, <4>1 DEF Indexed
        <4>5. (j = i => k = l + m) /\ (j # i => k = l)
          BY <1>1, <1>4, <1>6, <3>2, <4>1, SendIndexGains
        <4>6. (j = i => Len(segs'[j].ibuf) = 0) /\ (j # i => Len(segs'[j].ibuf) = m)
          BY <2>2, <2>4, <4>1
        <4>7. Indexed(disk', segs', Sent', j) = l + m
          BY <4>2, <4>4, <4>5, <4>6
        <4> QED BY <4>2, <4>3, <4>7
      <3> QED BY <3>1, <3>2
    <2>6. DOMAIN disk' = DOMAIN disk /\ \A b \in DOMAIN disk : disk'[b].linked => disk[b].linked
      <3>1. Grows(disk, disk')
        BY <1>1, <1>6, SendsGrow
      <3> QED BY <3>1 DEF Grows
    <2> QED BY <1>1, <2>4, <2>5, <2>6, CountFrame
  <1>7. CASE disk' = SendStore(i) /\ segs' = [segs EXCEPT ![i].sbuf = <<>>]
    <2>1. PICK g : g = [segs[i] EXCEPT !.sbuf = <<>>]
      OBVIOUS
    <2>2. g.base = segs[i].base /\ g.next = segs[i].next /\ g.ibuf = segs[i].ibuf
      BY <1>5, <2>1 DEF Segment
    <2>3. segs' = [segs EXCEPT ![i] = g]
      BY <1>5, <1>7, <2>1
    <2>4. /\ Len(segs') = Len(segs)
          /\ \A j \in 1..Len(segs) : /\ segs'[j].base = segs[j].base /\ segs'[j].next = segs[j].next
                                     /\ segs'[j].ibuf = segs[j].ibuf
      BY <1>5, <2>2, <2>3
    <2>5. PICK c, f, st : c = segs[i].base /\ f = disk[c] /\ st = disk[c].store \o segs[i].sbuf
      OBVIOUS
    <2>6. PICK h : h = [f EXCEPT !.store = st]
      OBVIOUS
    <2>7. h.linked = f.linked /\ h.index = f.index
      <3>1. f \in File
        BY <1>5, <2>5
      <3> QED BY <2>6, <3>1, SMTT(60) DEF File
    <2>8. disk' = [disk EXCEPT ![c] = h]
      BY <1>5, <1>7, <2>5, <2>6, ZenonT(60) DEF SendStore
    <2>9. /\ DOMAIN disk' = DOMAIN disk
          /\ \A b \in DOMAIN disk : disk'[b].linked = disk[b].linked /\ disk'[b].index = disk[b].index
      BY <1>5, <2>5, <2>7, <2>8
    <2> QED BY <1>1, <1>2, <2>4, <2>9, CountSame
  <1> QED BY <1>3, <1>6, <1>7 DEF FlushStep

\* A reader that flushes the index does the same in two steps: first the file
\* has the entries,
LEMMA ReadWritesIndexCounts ==
    ASSUME OneReader, FilesInv, FilesInv', CountInv, NEW r \in Reader, ReadWritesIndex(r)
    PROVE  CountInv'
  <1>1. /\ reading[r].at = "index" /\ UNCHANGED <<segs, applied, deleted, unclean>>
        /\ pc' = pc /\ disk' = SendIndex(reading[r].seg)
        /\ reading' = [reading EXCEPT ![r].at = "indexSent"]
    BY DEF ReadWritesIndex
  <1>2. pc = "up" /\ OpenLog(disk, segs) /\ reading \in [Reader -> [at : Stage, seg : Nat]]
    BY <1>1 DEF FilesInv, StagesOK, NoReader
  <1>3. PICK i \in 1..Len(segs) : i = reading[r].seg
    BY <1>1 DEF FilesInv, StagesOK
  <1>4. \A q \in Reader : q = r
    BY DEF OneReader
  <1>5. Sent = {}
    BY <1>1, <1>4 DEF Sent
  <1>6. Sent' = {i}
    <2>1. reading'[r].at = "indexSent" /\ reading'[r].seg = i
      BY <1>1, <1>2, <1>3
    <2> QED BY <1>1, <1>3, <1>4, <2>1 DEF Sent
  <1>7. OpenCounts(disk, segs, {})
    BY <1>2, <1>5 DEF CountInv
  <1>8. ASSUME NEW j \in 1..Len(segs), Owner(segs, j)
        PROVE  Indexed(disk', segs', Sent', j) <= Indexed(disk, segs, Sent, j)
    <2>1. PICK l, m, k : /\ l = Len(disk[segs[j].base].index) /\ m = Len(segs[j].ibuf)
                         /\ k = Len(disk'[segs[j].base].index)
      OBVIOUS
    <2>2. l \in Nat /\ m \in Nat
      BY <1>2, <2>1, SegmentNumbers
    <2>3. Indexed(disk, segs, Sent, j) = l + m
      BY <1>5, <2>1, IndexedIs
    <2>4. (j = i => k = l + m) /\ (j # i => k = l)
      BY <1>1, <1>2, <1>3, <1>7, <1>8, <2>1, SendIndexGains
    <2>5. CASE j = i
      <3>1. Indexed(disk', segs', Sent', j) = k + 0
        BY <1>1, <1>6, <2>1, <2>5 DEF Indexed
      <3> QED BY <2>2, <2>3, <2>4, <2>5, <3>1
    <2>6. CASE j # i
      <3>1. Indexed(disk', segs', Sent', j) = k + m
        BY <1>1, <1>6, <2>1, <2>6 DEF Indexed
      <3> QED BY <2>2, <2>3, <2>4, <2>6, <3>1
    <2> QED BY <2>5, <2>6
  <1>9. DOMAIN disk' = DOMAIN disk /\ \A b \in DOMAIN disk : disk'[b].linked => disk[b].linked
    <2>1. Grows(disk, disk')
      BY <1>1, <1>2, <1>3, SendsGrow
    <2> QED BY <2>1 DEF Grows
  <1> QED BY <1>1, <1>2, <1>8, <1>9, CountFrame

\* then the buffer has them no more.
LEMMA ReadEmptiesIndexCounts ==
    ASSUME OneReader, FilesInv, FilesInv', CountInv, NEW r \in Reader, ReadEmptiesIndex(r)
    PROVE  CountInv'
  <1>1. /\ reading[r].at = "indexSent" /\ UNCHANGED <<disk, applied, deleted, unclean>>
        /\ pc' = pc /\ segs' = [segs EXCEPT ![reading[r].seg].ibuf = <<>>]
        /\ reading' = [reading EXCEPT ![r].at = "store"]
    BY DEF ReadEmptiesIndex
  <1>2. pc = "up" /\ OpenLog(disk, segs) /\ reading \in [Reader -> [at : Stage, seg : Nat]]
    BY <1>1 DEF FilesInv, StagesOK, NoReader
  <1>3. PICK i \in 1..Len(segs) : i = reading[r].seg
    BY <1>1 DEF FilesInv, StagesOK
  <1>4. \A q \in Reader : q = r
    BY DEF OneReader
  <1>5. Sent = {i}
    BY <1>1, <1>3, <1>4 DEF Sent
  <1>6. Sent' = {}
    <2>1. reading'[r].at = "store"
      BY <1>1, <1>2
    <2> QED BY <1>4, <2>1 DEF Sent
  <1>7. segs \in Seq(Segment) /\ segs[i] \in Segment
    BY <1>2 DEF OpenLog, Segments
  <1>8. PICK g : g = [segs[i] EXCEPT !.ibuf = <<>>]
    OBVIOUS
  <1>9. g.base = segs[i].base /\ g.next = segs[i].next /\ g.ibuf = <<>>
    BY <1>7, <1>8 DEF Segment
  <1>10. segs' = [segs EXCEPT ![i] = g]
    BY <1>1, <1>3, <1>7, <1>8
  <1>11. Len(segs') = Len(segs) /\ segs'[i] = g /\ \A j \in 1..Len(segs) : j # i => segs'[j] = segs[j]
    BY <1>7, <1>10
  <1>12. ASSUME NEW j \in 1..Len(segs)
         PROVE  /\ segs'[j].base = segs[j].base /\ segs'[j].next = segs[j].next
                /\ segs[j].ibuf = <<>> => segs'[j].ibuf = <<>>
                /\ Indexed(disk', segs', Sent', j) <= Indexed(disk, segs, Sent, j)
    <2>1. /\ segs'[j].base = segs[j].base /\ segs'[j].next = segs[j].next
          /\ segs[j].ibuf = <<>> => segs'[j].ibuf = <<>>
      BY <1>9, <1>11
    <2>2. PICK l, m : l = Len(disk[segs[j].base].index) /\ m = Len(segs[j].ibuf)
      OBVIOUS
    <2>3. l \in Nat /\ m \in Nat
      BY <1>2, <2>2, SegmentNumbers
    <2>4. Indexed(disk', segs', Sent', j) = l + Len(segs'[j].ibuf)
      BY <1>1, <1>6, <2>1, <2>2 DEF Indexed
    <2>5. CASE j = i
      <3>1. Indexed(disk, segs, Sent, j) = l + 0
        BY <1>5, <2>2, <2>5, IndexedIs
      <3>2. Len(segs'[j].ibuf) = 0
        <4>1. segs'[j].ibuf = <<>> /\ Len(<<>>) = 0
          BY <1>9, <1>11, <2>5
        <4> QED BY <4>1, Zenon
      <3> QED BY <2>1, <2>3, <2>4, <3>1, <3>2
    <2>6. CASE j # i
      <3>1. Indexed(disk, segs, Sent, j) = l + m
        <4>1. j \notin Sent
          BY <1>5, <2>6
        <4>2. Indexed(disk, segs, Sent, j) = Len(disk[segs[j].base].index) + Len(segs[j].ibuf)
          BY <4>1, IndexedIs, Zenon
        <4> QED BY <2>2, <4>2, Zenon
      <3>2. Len(segs'[j].ibuf) = m
        BY <1>11, <2>2, <2>6
      <3> QED BY <2>1, <2>3, <2>4, <3>1, <3>2
    <2> QED BY <2>5, <2>6
  <1> QED BY <1>1, <1>2, <1>11, <1>12, CountFrame

\* The end of a retention time counts nothing.
LEMMA ExpireCounts ==
    ASSUME FilesInv, FilesInv', CountInv, NEW b \in DOMAIN disk, Expire(b)
    PROVE  CountInv'
  <1>1. disk \in [DOMAIN disk -> File] /\ disk[b] \in File
    BY FilesInvHasFiles DEF Files
  <1>2. PICK g : g = [disk[b] EXCEPT !.expired = TRUE]
    OBVIOUS
  <1>3. g.index = disk[b].index /\ g.linked = disk[b].linked
    BY <1>1, <1>2 DEF File
  <1>4. disk' = [disk EXCEPT ![b] = g]
    BY <1>1, <1>2 DEF Expire
  <1>5. /\ DOMAIN disk' = DOMAIN disk
        /\ \A c \in DOMAIN disk : disk'[c].linked = disk[c].linked /\ disk'[c].index = disk[c].index
    BY <1>1, <1>3, <1>4
  <1>6. UNCHANGED <<segs, applied, deleted, unclean, reading, pc>>
    BY DEF Expire
  <1>7. Sent' = Sent
    BY <1>6 DEF Sent
  <1>8. CASE pc = "down"
    <2>1. ShutCounts(disk')
      BY <1>5, <1>8 DEF CountInv, ShutCounts
    <2> QED BY <1>5, <1>6, <1>8, <2>1 DEF CountInv
  <1>9. CASE pc # "down"
    BY <1>5, <1>6, <1>7, <1>9, CountSame
  <1> QED BY <1>8, <1>9

\* Reopening: the segments start where the files of the ones before them end.
LEMMA newWALCounts ==
    ASSUME FilesInv, FilesInv', CountInv, newWAL
    PROVE  CountInv'
  <1>1. ShutCounts(disk) /\ Files(disk) /\ NoReader
    BY FilesInvHasFiles DEF newWAL, CountInv, FilesInv, StagesOK
  <1>2. /\ segs' = Opened(disk') /\ applied' = segs'[Len(segs')].next /\ pc' = "up"
        /\ UNCHANGED <<deleted, unclean, reading>>
    BY DEF newWAL
  <1>3. PICK e, s : e = disk' /\ s = segs'
    OBVIOUS
  <1>4. /\ DOMAIN e # {} /\ DOMAIN e \subseteq 0..MaxRecords /\ ShutCounts(e)
    <2>1. CASE DOMAIN disk = {}
      <3>1. e = [b \in {0} |-> NewFiles]
        BY <1>3, <2>1 DEF newWAL
      <3>2. DOMAIN e = {0} /\ e[0].index = <<>>
        BY <3>1 DEF NewFiles
      <3>3. Len(e[0].index) = 0 /\ 0 \in 0..MaxRecords /\ 0 + Entries(0) <= MaxRecords
        BY <3>2, EntriesAre, RecordsAssumption
      <3> QED BY <3>2, <3>3 DEF ShutCounts
    <2>2. CASE DOMAIN disk # {}
      <3>1. e = [b \in DOMAIN disk |-> [disk[b] EXCEPT !.meta = "written"]]
        BY <1>3, <2>2 DEF newWAL
      <3>2. DOMAIN e = DOMAIN disk /\ \A b \in DOMAIN disk : e[b].index = disk[b].index
        BY <1>1, <3>1 DEF Files, File
      <3> QED BY <1>1, <2>2, <3>2 DEF ShutCounts, CountInv
    <2> QED BY <2>1, <2>2
  <1>5. OpenLog(e, s) /\ Files(e) /\ e \in [DOMAIN e -> File]
    <2>1. OpenLog(e, s)
      BY <1>2, <1>3 DEF FilesInv
    <2> QED BY <2>1 DEF OpenLog, Files
  <1>6. /\ s \in Seq(Segment) /\ Len(s) \in Nat /\ Len(s) > 0
        /\ \A i \in 1..Len(s) : s[i].base \in DOMAIN e /\ s[i] = OpenSegment(s[i].base, e[s[i].base])
        /\ \A i, j \in 1..Len(s) : i < j => s[i].base < s[j].base
        /\ \A b \in DOMAIN e : \E i \in 1..Len(s) : s[i].base = b
    BY <1>2, <1>3, <1>4, <1>5, OpenedIs, ZenonT(40)
  <1>7. \A i \in 1..Len(s) : /\ s[i].base \in Nat /\ s[i].base \in DOMAIN e
                             /\ s[i].next = s[i].base + Entries(Len(e[s[i].base].index))
                             /\ s[i].ibuf = <<>>
    <2> SUFFICES ASSUME NEW i \in 1..Len(s)
                 PROVE  /\ s[i].base \in Nat /\ s[i].base \in DOMAIN e
                        /\ s[i].next = s[i].base + Entries(Len(e[s[i].base].index))
                        /\ s[i].ibuf = <<>>
      OBVIOUS
    <2>1. PICK b, f : b = s[i].base /\ f = e[b]
      OBVIOUS
    <2>2. b \in DOMAIN e /\ s[i] = OpenSegment(b, f)
      <3>1. s[i].base \in DOMAIN e /\ s[i] = OpenSegment(s[i].base, e[s[i].base])
        BY <1>6
      <3> QED BY <2>1, <3>1, Zenon
    <2>3. b \in Nat /\ f \in File
      BY <1>5, <2>1, <2>2 DEF Files
    <2>4. OpenSegment(b, f).next = b + Entries(Len(f.index)) /\ OpenSegment(b, f).ibuf = <<>>
      BY <2>3, OpenSegmentIs, Zenon DEF Entries
    <2>5. s[i].next = b + Entries(Len(f.index)) /\ s[i].ibuf = <<>>
      BY <2>2, <2>4, Zenon
    <2> QED BY <2>1, <2>2, <2>3, <2>5, Zenon
  <1>8. Follow(s)
    <2> SUFFICES ASSUME NEW i \in 1..Len(s), NEW j \in 1..Len(s), i < j
                 PROVE  s[i].next <= s[j].base
      BY DEF Follow
    <2>1. s[i].base < s[j].base
      BY <1>6
    <2> QED BY <1>4, <1>7, <2>1 DEF ShutCounts
  <1>9. \A i \in 1..Len(s) : Owner(s, i)
    <2> SUFFICES ASSUME NEW i \in 1..Len(s), NEW j \in 1..Len(s), j > i
                 PROVE  s[j].base # s[i].base
      BY DEF Owner
    <2>1. i < j
      BY <1>6
    <2>2. s[i].base < s[j].base
      BY <1>6, <2>1
    <2> QED BY <1>7, <2>2
  <1>10. Sent' = {}
    BY <1>1, <1>2 DEF Sent, NoReader
  <1>11. Counts(e, s, {})
    <2> SUFFICES ASSUME NEW i \in 1..Len(s)
                 PROVE  CountOf(e, s, {}, i)
      BY DEF Counts
    <2>1. PICK l \in Nat : l = Len(e[s[i].base].index)
      BY <1>5, SegmentNumbers
    <2>2. Indexed(e, s, {}, i) = l + Len(s[i].ibuf)
      BY <2>1, IndexedIs
    <2>3. Len(s[i].ibuf) = 0
      BY <1>7
    <2>4. Indexed(e, s, {}, i) = l
      BY <2>2, <2>3
    <2>5. s[i].base + Entries(Indexed(e, s, {}, i)) <= s[i].next
      <3>1. s[i].next = s[i].base + Entries(l) /\ s[i].base \in Nat /\ Entries(l) \in Nat
        BY <1>7, <2>1, EntriesAre
      <3> QED BY <2>4, <3>1
    <2> QED BY <1>7, <2>5 DEF CountOf
  <1>12. Owned(e, s)
    BY <1>6, <1>9 DEF Owned
  <1>13. OpenCounts(disk', segs', Sent')
    BY <1>3, <1>8, <1>10, <1>11, <1>12 DEF OpenCounts
  <1>14. applied' <= MaxRecords /\ segs'[Len(segs')].next <= applied'
    <2>1. Len(s) \in 1..Len(s)
      BY <1>6
    <2>2. s[Len(s)].next <= MaxRecords
      BY <1>4, <1>7, <2>1 DEF ShutCounts
    <2>3. s[Len(s)].next \in Nat
      BY <1>5, <2>1, SegmentNumbers
    <2> QED BY <1>2, <1>3, <2>2, <2>3
  <1> QED BY <1>2, <1>3, <1>4, <1>13, <1>14 DEF CountInv

\* One more record in the active segment, and one more entry in its index or in
\* its buffer.
OneMore(d, s, e, t, n) ==
    /\ n = Len(s) /\ Len(t) = Len(s)
    /\ \A j \in 1..Len(s) : j # n => t[j] = s[j]
    /\ t[n].base = s[n].base /\ t[n].next = s[n].next + 1
    /\ DOMAIN e = DOMAIN d /\ \A b \in DOMAIN d : e[b].linked => d[b].linked
    /\ \A b \in DOMAIN d : b # s[n].base => e[b].index = d[b].index
    /\ Len(e[s[n].base].index) + Len(t[n].ibuf) =
          Len(d[s[n].base].index) + Len(s[n].ibuf) + 3

\* An entry more in the index of the active segment is a record more in it.
LEMMA ActiveCounts ==
    ASSUME NEW d, NEW s, OpenLog(d, s), OpenCounts(d, s, {}), NEW n,
           NEW e, NEW t, OpenLog(e, t), OneMore(d, s, e, t, n)
    PROVE  OpenCounts(e, t, {})
  <1> DEFINE g == t[n]
  <1> HIDE DEF g
  <1>a. /\ g.base = s[n].base /\ g.next = s[n].next + 1 /\ n = Len(s)
        /\ DOMAIN e = DOMAIN d /\ \A b \in DOMAIN d : e[b].linked => d[b].linked
        /\ \A b \in DOMAIN d : b # s[n].base => e[b].index = d[b].index
        /\ Len(e[s[n].base].index) + Len(g.ibuf) = Len(d[s[n].base].index) + Len(s[n].ibuf) + 3
    BY Zenon DEF OneMore, g
  <1>1. s \in Seq(Segment) /\ n \in 1..Len(s) /\ n = Len(s)
    BY <1>a, OpenHasFiles
  <1>2. Len(t) = Len(s) /\ t[n] = g /\ \A j \in 1..Len(s) : j # n => t[j] = s[j]
    BY Zenon DEF OneMore, g
  <1>3. \A j \in 1..Len(s) : t[j].base = s[j].base
    BY <1>a, <1>2
  <1>4. \A j \in 1..Len(s) : Owner(t, j) <=> Owner(s, j)
    BY <1>2, <1>3, OwnerSame, Zenon
  <1>5. \A i, j \in 1..Len(s) : i < j => i # n
    BY <1>1
  <1>6. Follow(t)
    BY <1>2, <1>3, <1>5 DEF OpenCounts, Follow
  <1>7. ASSUME NEW j \in 1..Len(s)
        PROVE  CountOf(e, t, {}, j)
    <2>1. CountOf(d, s, {}, j)
      BY DEF OpenCounts, Counts
    <2>2. CASE j # n
      <3>1. t[j] = s[j]
        BY <1>2, <2>2
      <3>2. ASSUME Owner(s, j)
            PROVE  t[j].base + Entries(Indexed(e, t, {}, j)) <= t[j].next
        <4>1. n > j
          BY <1>1, <2>2
        <4>2. s[n].base # s[j].base
          BY <1>1, <3>2, <4>1 DEF Owner
        <4>3. s[j].base \in DOMAIN d
          BY SegmentNumbers
        <4>4. e[s[j].base].index = d[s[j].base].index
          BY <1>a, <4>2, <4>3
        <4>5. Indexed(e, t, {}, j) = Indexed(d, s, {}, j)
          <5>1. e[t[j].base].index = d[s[j].base].index /\ t[j].ibuf = s[j].ibuf
            BY <3>1, <4>4
          <5> QED BY <5>1, Zenon DEF Indexed
        <4> QED BY <2>1, <3>1, <3>2, <4>5 DEF CountOf
      <3> QED BY <1>4, <2>1, <3>1, <3>2 DEF CountOf
    <2>3. CASE j = n
      <3>1. PICK m : m = Indexed(d, s, {}, n)
        OBVIOUS
      <3>2. /\ m \in Nat /\ s[n].base \in Nat /\ s[n].next \in Nat /\ s[n].base <= s[n].next
        BY <1>1, <3>1, SegmentNumbers
      <3>3. m = Len(d[s[n].base].index) + Len(s[n].ibuf)
        <4>1. Indexed(d, s, {}, n) = Len(d[s[n].base].index) + Len(s[n].ibuf)
          BY Zenon DEF Indexed
        <4> QED BY <3>1, <4>1
      <3>4. Indexed(e, t, {}, n) = Len(e[s[n].base].index) + Len(g.ibuf)
        BY <1>2, <1>3, <1>1 DEF Indexed
      <3>5. Indexed(e, t, {}, n) = m + 3
        BY <1>a, <3>3, <3>4
      <3>6. Owner(s, n)
        BY <1>1 DEF Owner
      <3>7. s[n].base + Entries(m) <= s[n].next
        BY <2>1, <2>3, <3>1, <3>6 DEF CountOf
      <3>8. Entries(m) \in Nat /\ Entries(m + 3) = Entries(m) + 1
        BY <3>2, EntriesAre
      <3>9. s[n].base + Entries(m + 3) <= s[n].next + 1 /\ s[n].next + 1 # s[n].base
        BY <3>2, <3>7, <3>8, SMTT(30)
      <3>10. t[n].base = s[n].base /\ t[n].next = s[n].next + 1
        BY <1>a, <1>2
      <3> QED BY <2>3, <3>5, <3>9, <3>10 DEF CountOf
    <2> QED BY <2>2, <2>3
  <1>8. Counts(e, t, {})
    BY <1>2, <1>7 DEF Counts
  <1>9. Owned(e, t)
    BY <1>a, <1>2, <1>3, <1>4 DEF OpenCounts, Owned
  <1> QED BY <1>6, <1>8, <1>9 DEF OpenCounts

\* Files of the next offset that are already there have no entry.
LEMMA NextFilesAreEmpty ==
    ASSUME OpenLog(disk, segs), OpenCounts(disk, segs, {}), NEW f, f = disk[NextOffset],
           NextOffset \in DOMAIN disk
    PROVE  Entries(Len(f.index)) = 0 /\ Len(f.index) \in Nat
  <1>1. PICK n : n = Len(segs)
    OBVIOUS
  <1>2. n \in 1..Len(segs) /\ Len(segs) \in Nat
    BY <1>1, OpenHasFiles
  <1>3. PICK m : m = Indexed(disk, segs, {}, n)
    OBVIOUS
  <1>4. /\ segs[n].base \in Nat /\ segs[n].next \in Nat /\ segs[n].base <= segs[n].next
        /\ m \in Nat /\ Len(disk[segs[n].base].index) \in Nat
        /\ Len(disk[segs[n].base].index) <= m
    BY <1>2, <1>3, SegmentNumbers
  <1>5. NextOffset = segs[n].next
    BY <1>1 DEF NextOffset, Active
  <1>6. segs[n].next <= segs[n].base
    BY <1>1, <1>5 DEF OpenLog
  <1>7. segs[n].next = segs[n].base
    BY <1>4, <1>6
  <1>8. Owner(segs, n)
    BY <1>1, <1>2 DEF Owner
  <1>9. segs[n].base + Entries(m) <= segs[n].next
    BY <1>2, <1>3, <1>8 DEF OpenCounts, Counts, CountOf
  <1>10. Entries(m) \in Nat
    BY <1>4, EntriesAre
  <1>11. Entries(m) = 0
    BY <1>4, <1>7, <1>9, <1>10
  <1>12. f = disk[segs[n].base]
    BY <1>5, <1>7
  <1>13. Len(f.index) \in Nat /\ Len(f.index) <= m
    BY <1>4, <1>12
  <1>14. Entries(Len(f.index)) <= Entries(m) /\ Entries(Len(f.index)) \in Nat
    BY <1>4, <1>13, EntriesAre
  <1> QED BY <1>11, <1>13, <1>14

\* rotate.
LEMMA GrownCounts ==
    ASSUME OpenLog(disk, segs), OpenCounts(disk, segs, {})
    PROVE  OpenCounts(GrownDisk, Grown, {}) /\ Grown[Len(Grown)].next = NextOffset
  <1>1. CASE Grown = segs /\ GrownDisk = disk
    BY <1>1 DEF NextOffset, Active
  <1>2. CASE ~(Grown = segs /\ GrownDisk = disk)
    <2>1. PICK d, t, n, b : d = GrownDisk /\ t = Grown /\ n = Len(segs) /\ b = NextOffset
      OBVIOUS
    <2>2. /\ Len(t) = n + 1 /\ \A i \in 1..n : t[i] = segs[i]
          /\ DOMAIN d = DOMAIN disk \cup {b} /\ \A c \in DOMAIN disk : d[c] = disk[c]
          /\ b \notin DOMAIN disk => d[b] = NewFiles
          /\ t[Len(t)] = OpenSegment(b, d[b])
      BY <1>2, <2>1, GrownIsOpen
    <2>3. OpenLog(d, t)
      BY <2>1, GrownIsOpen
    <2>4. n \in Nat /\ n > 0 /\ n \in 1..n /\ n + 1 \in 1..(n + 1)
      BY <2>1, OpenHasFiles
    <2>5. PICK f : f = d[b]
      OBVIOUS
    <2>6. Entries(Len(f.index)) = 0 /\ Len(f.index) \in Nat
      <3>1. CASE b \in DOMAIN disk
        BY <2>1, <2>2, <2>5, <3>1, NextFilesAreEmpty
      <3>2. CASE b \notin DOMAIN disk
        <4>1. f.index = <<>>
          BY <2>2, <2>5, <3>2 DEF NewFiles
        <4>2. Len(f.index) = 0
          BY <4>1
        <4> QED BY <4>2, EntriesAre
      <3> QED BY <3>1, <3>2
    <2>7. b \in Nat /\ b = segs[n].next
      BY <2>1, <2>4, SegmentNumbers DEF NextOffset, Active
    <2>8. f \in File
      BY <2>2, <2>3, <2>5 DEF OpenLog, Files
    <2>9. t[n + 1].base = b /\ t[n + 1].next = b /\ t[n + 1].ibuf = <<>>
      <3>1. PICK o : o = OpenSegment(b, f)
        OBVIOUS
      <3>2. o.base = b /\ o.next = b + Entries(Len(f.index)) /\ o.ibuf = <<>>
        BY <2>7, <2>8, <3>1, OpenSegmentIs DEF Entries
      <3>3. t[n + 1] = o
        BY <2>2, <2>5, <3>1
      <3> QED BY <2>6, <2>7, <3>2, <3>3
    <2>10. Follow(segs)
      BY DEF OpenCounts
    <2>11. \A i \in 1..n : segs[i].next <= b
      BY <2>1, <2>7, <2>10, FollowOrders
    <2>12. ASSUME NEW i \in 1..(n + 1), NEW j \in 1..(n + 1), i < j
           PROVE  t[i].next <= t[j].base
      <3>1. i \in 1..n
        BY <2>4, <2>12
      <3>2. CASE j = n + 1
        BY <2>2, <2>9, <2>11, <3>1, <3>2
      <3>3. CASE j \in 1..n
        BY <2>1, <2>2, <2>10, <2>12, <3>1, <3>3 DEF Follow
      <3> QED BY <2>4, <3>2, <3>3
    <2>13. ASSUME NEW j \in 1..(n + 1)
           PROVE  CountOf(d, t, {}, j)
      <3>1. CASE j = n + 1
        <4>1. Indexed(d, t, {}, j) = Len(f.index) + Len(t[j].ibuf)
          BY <2>5, <2>9, <3>1 DEF Indexed
        <4>2. Len(t[j].ibuf) = 0
          BY <2>9, <3>1
        <4>3. Indexed(d, t, {}, j) = Len(f.index)
          BY <2>6, <4>1, <4>2
        <4> QED BY <2>6, <2>7, <2>9, <3>1, <4>3 DEF CountOf
      <3>2. CASE j \in 1..n
        <4>1. t[j] = segs[j] /\ CountOf(disk, segs, {}, j)
          BY <2>1, <2>2, <3>2 DEF OpenCounts, Counts
        <4>2. Owner(t, j) => Owner(segs, j)
          <5> SUFFICES ASSUME Owner(t, j), NEW k \in 1..Len(segs), k > j
                       PROVE  segs[k].base # segs[j].base
            BY DEF Owner
          <5>1. k \in 1..Len(t) /\ t[k] = segs[k]
            BY <2>1, <2>2, <2>4
          <5> QED BY <4>1, <5>1 DEF Owner
        <4>3. segs[j].base \in DOMAIN disk
          BY <2>1, <3>2, SegmentNumbers
        <4>4. Indexed(d, t, {}, j) = Indexed(disk, segs, {}, j)
          BY <2>2, <4>1, <4>3 DEF Indexed
        <4> QED BY <4>1, <4>2, <4>4 DEF CountOf
      <3> QED BY <2>4, <3>1, <3>2
    <2>14. Owned(d, t)
      <3> SUFFICES ASSUME NEW c \in DOMAIN d, d[c].linked
                   PROVE  \E i \in 1..Len(t) : t[i].base = c /\ Owner(t, i)
        BY DEF Owned
      <3>1. CASE c = b
        <4>1. Owner(t, n + 1)
          BY <2>2, <2>4 DEF Owner
        <4> QED BY <2>2, <2>4, <2>9, <3>1, <4>1
      <3>2. CASE c # b
        <4>1. c \in DOMAIN disk /\ disk[c].linked
          BY <2>2, <3>2
        <4>2. PICK i \in 1..Len(segs) : segs[i].base = c /\ Owner(segs, i)
          BY <4>1 DEF OpenCounts, Owned
        <4>3. i \in 1..Len(t) /\ t[i] = segs[i]
          BY <2>1, <2>2, <2>4
        <4>4. ASSUME NEW k \in 1..Len(t), k > i
              PROVE  t[k].base # t[i].base
          <5>1. CASE k = n + 1
            BY <2>9, <3>2, <4>2, <4>3, <5>1
          <5>2. CASE k \in 1..n
            BY <2>1, <2>2, <4>2, <4>3, <4>4, <5>2 DEF Owner
          <5> QED BY <2>2, <2>4, <5>1, <5>2
        <4> QED BY <4>2, <4>3, <4>4 DEF Owner
      <3> QED BY <3>1, <3>2
    <2>15. Follow(t) /\ Counts(d, t, {})
      BY <2>2, <2>12, <2>13 DEF Follow, Counts
    <2> QED BY <2>1, <2>2, <2>9, <2>14, <2>15 DEF OpenCounts
  <1> QED BY <1>1, <1>2

\* wal.append: one record and one entry, in a segment of its own if the active
\* one was full.
LEMMA appendCounts ==
    ASSUME FilesInv, FilesInv', CountInv, append
    PROVE  CountInv'
  <1> DEFINE n == Len(Grown)
             a == Grown[n]
             d == GrownDisk
  <1>1. OpenLog(disk, segs) /\ applied \in Offset /\ applied' = applied + 1
    BY AppendIs, Zenon
  <1>2. PICK g \in Segment, u \in Seq(Word), x \in Seq(Nat) :
           /\ disk' = [d EXCEPT ![a.base].store = d[a.base].store \o u,
                                ![a.base].index = d[a.base].index \o x]
           /\ segs' = [Grown EXCEPT ![n] = g]
           /\ g.base = a.base /\ g.next = a.next + 1
           /\ Len(x) + Len(g.ibuf) = Len(a.ibuf) + 3
    BY AppendIs, ZenonT(40)
  <1>3. NoReader /\ pc # "down" /\ pc' # "down" /\ UNCHANGED <<deleted, reading>>
    BY Zenon DEF append, MayAppend, Behind, FilesInv, StagesOK
  <1>4. Sent = {} /\ Sent' = {}
    <2>1. NoReader'
      BY <1>3 DEF NoReader
    <2> QED BY <1>3, <2>1 DEF Sent, NoReader
  <1>5. OpenCounts(disk, segs, {}) /\ segs[Len(segs)].next <= applied
    BY <1>3, <1>4 DEF CountInv
  <1>6. OpenLog(d, Grown) /\ OpenCounts(d, Grown, {}) /\ a.next = NextOffset
    BY <1>1, <1>5, GrownIsOpen, GrownCounts
  <1>7. DOMAIN d \subseteq DOMAIN disk \cup {NextOffset}
    BY <1>1, GrownIsOpen
  <1>8. NextOffset <= applied
    BY <1>5 DEF NextOffset, Active
  <1> HIDE DEF n, a, d
  <1>s. segs' = [Grown EXCEPT ![n] = g]
    BY <1>2, Zenon
  <1>g. /\ g.base = a.base /\ g.next = a.next + 1
        /\ Len(x) + Len(g.ibuf) = Len(a.ibuf) + 3
    BY <1>2, Zenon
  <1>9. /\ Grown \in Seq(Segment) /\ n \in 1..Len(Grown) /\ a = Grown[n] /\ n = Len(Grown)
    BY <1>6, OpenHasFiles DEF n, a
  <1>10. /\ a.base \in DOMAIN d /\ a.next \in Nat /\ a.base \in Nat
         /\ d[a.base].index \in Seq(Nat) /\ a.ibuf \in Seq(Nat)
    BY <1>6, <1>9, SegmentNumbers
  <1>11. d \in [DOMAIN d -> File] /\ d[a.base] \in File
    BY <1>6, <1>10 DEF OpenLog, Files
  <1>12. PICK e, t, b, st, ix : /\ e = disk' /\ t = segs' /\ b = a.base
                                /\ st = d[a.base].store \o u /\ ix = d[a.base].index \o x
    OBVIOUS
  <1>12a. t = segs'
    BY <1>12, Zenon
  <1>13. PICK h : h = [d[b] EXCEPT !.store = st, !.index = ix]
    OBVIOUS
  <1>14. h.index = ix /\ h.linked = d[b].linked
    <2>1. d[b] \in File
      BY <1>11, <1>12, Zenon
    <2> QED BY <1>13, <2>1, SMTT(60) DEF File
  <1>15. e = [d EXCEPT ![b] = h]
    BY <1>2, <1>11, <1>12, <1>13, ZenonT(60)
  <1>16. /\ DOMAIN e = DOMAIN d /\ e[b] = h /\ \A c \in DOMAIN d : c # b => e[c] = d[c]
    BY <1>10, <1>11, <1>12, <1>15
  <1>17. Len(ix) = Len(d[b].index) + Len(x)
    <2>1. PICK di \in Seq(Nat) : di = d[b].index
      BY <1>10, <1>12
    <2>2. Len(di \o x) = Len(di) + Len(x)
      BY ConcatProperties
    <2> QED BY <1>12, <2>1, <2>2
  <1>18. Len(e[b].index) + Len(g.ibuf) = Len(d[b].index) + Len(a.ibuf) + 3
    <2>1. PICK i, j, k, l : i = Len(d[b].index) /\ j = Len(x) /\ k = Len(g.ibuf) /\ l = Len(a.ibuf)
      OBVIOUS
    <2>2. i \in Nat /\ j \in Nat /\ k \in Nat /\ l \in Nat
      BY <1>10, <1>12, <2>1, SegmentParts, SMTT(60)
    <2>3. j + k = l + 3
      BY <1>g, <2>1
    <2>4. (i + j) + k = i + l + 3
      BY <2>2, <2>3
    <2>5. Len(e[b].index) = i + j
      BY <1>14, <1>16, <1>17, <2>1
    <2> QED BY <2>1, <2>4, <2>5
  <1>19. Len(t) = Len(Grown) /\ t[n] = g /\ \A j \in 1..Len(Grown) : j # n => t[j] = Grown[j]
    <2>1. t = [Grown EXCEPT ![n] = g]
      BY <1>s, <1>12a, Zenon
    <2>2. Grown \in Seq(Segment) /\ n \in 1..Len(Grown)
      BY <1>9, Zenon
    <2> QED BY <2>1, <2>2, SMTT(60)
  <1>20. OpenLog(e, t)
    BY <1>3, <1>12 DEF FilesInv
  <1>21. \A c \in DOMAIN d : e[c].linked => d[c].linked
    BY <1>14, <1>16
  <1>22. \A c \in DOMAIN d : c # a.base => e[c].index = d[c].index
    BY <1>12, <1>16
  <1>23. OpenCounts(e, t, {})
    <2>1. t[n].base = Grown[n].base /\ t[n].next = Grown[n].next + 1
      BY <1>g, <1>9, <1>19, Zenon
    <2>2. Len(e[Grown[n].base].index) + Len(t[n].ibuf) =
             Len(d[Grown[n].base].index) + Len(Grown[n].ibuf) + 3
      BY <1>9, <1>12, <1>18, <1>19, ZenonT(60)
    <2>3. \A c \in DOMAIN d : c # Grown[n].base => e[c].index = d[c].index
      BY <1>9, <1>22
    <2>4. OneMore(d, Grown, e, t, n)
      BY <1>9, <1>16, <1>19, <1>21, <2>1, <2>2, <2>3, Zenon DEF OneMore
    <2> QED BY <1>6, <1>20, <2>4, ActiveCounts, Zenon
  <1>24. applied \in Nat /\ applied' <= MaxRecords /\ MaxRecords \in Nat
    BY <1>1, RecordsAssumption DEF Offset
  <1>25. t[Len(t)].next <= applied'
    <2>1. t[Len(t)].next = NextOffset + 1
      BY <1>g, <1>6, <1>9, <1>19, ZenonT(60)
    <2>2. NextOffset \in Nat
      BY <1>6, <1>10
    <2> QED BY <1>1, <1>8, <1>24, <2>1, <2>2
  <1>26. DOMAIN e \subseteq 0..MaxRecords
    <2>1. NextOffset \in 0..MaxRecords
      BY <1>1, <1>6, <1>8, <1>10, <1>24
    <2> QED BY <1>7, <1>16, <2>1 DEF CountInv, d
  <1>27. unclean' \in BOOLEAN
    <2>1. unclean' = (unclean \/ pc # "up")
      BY Zenon DEF append
    <2> QED BY <2>1, Zenon
  <1>28. deleted' \subseteq Offset
    BY <1>3 DEF CountInv
  <1>29. OpenCounts(disk', segs', Sent') /\ segs'[Len(segs')].next <= applied'
    BY <1>4, <1>12, <1>23, <1>25
  <1>30. DOMAIN disk' \subseteq 0..MaxRecords
    BY <1>12, <1>26
  <1> QED BY <1>3, <1>24, <1>27, <1>28, <1>29, <1>30, Zenon DEF CountInv

\* An append behind the close counts a record only if its entry is in the buffer.
LEMMA appendClosedCounts ==
    ASSUME FilesInv, FilesInv', CountInv, appendClosed
    PROVE  CountInv'
  <1>1. /\ OpenLog(disk, segs) /\ applied \in Offset /\ applied' = applied + 1
        /\ UNCHANGED <<disk, deleted, todo, reading, pc>>
    BY AppendClosedIs, Zenon
  <1>2. PICK n : n = Len(segs)
    OBVIOUS
  <1>3. PICK a : a = segs[n]
    OBVIOUS
  <1>4. PICK g \in Segment : /\ segs' = [segs EXCEPT ![n] = g] /\ g.base = a.base
                             /\ \/ g.next = a.next /\ g.ibuf = a.ibuf
                                \/ g.next = a.next + 1 /\ Len(g.ibuf) = Len(a.ibuf) + 3
    BY <1>2, <1>3, AppendClosedIs, Zenon
  <1>5. pc = "close" /\ NoReader
    <2>1. pc = "close"
      BY Zenon DEF appendClosed
    <2> QED BY <2>1 DEF FilesInv, StagesOK
  <1>6. Sent = {} /\ Sent' = {}
    <2>1. NoReader'
      BY <1>1, <1>5 DEF NoReader
    <2> QED BY <1>5, <2>1 DEF Sent, NoReader
  <1>7. OpenCounts(disk, segs, {}) /\ segs[Len(segs)].next <= applied
    BY <1>5, <1>6 DEF CountInv
  <1>8. segs \in Seq(Segment) /\ n \in 1..Len(segs)
    BY <1>1, <1>2, OpenHasFiles
  <1>9. PICK t : t = segs'
    OBVIOUS
  <1>10. Len(t) = Len(segs) /\ t[n] = g /\ \A j \in 1..Len(segs) : j # n => t[j] = segs[j]
    BY <1>4, <1>8, <1>9
  <1>11. OpenLog(disk, t)
    BY <1>1, <1>5, <1>9 DEF FilesInv
  <1>12. /\ a.base \in Nat /\ a.next \in Nat /\ Len(disk[a.base].index) \in Nat
         /\ Len(a.ibuf) \in Nat
    BY <1>1, <1>3, <1>8, SegmentNumbers
  <1>13. OpenCounts(disk, t, {})
    <2>1. CASE g.next = a.next + 1 /\ Len(g.ibuf) = Len(a.ibuf) + 3
      <3>1. Len(disk[a.base].index) + Len(g.ibuf) = Len(disk[a.base].index) + Len(a.ibuf) + 3
        <4>1. PICK i, k, l : i = Len(disk[a.base].index) /\ k = Len(g.ibuf) /\ l = Len(a.ibuf)
          OBVIOUS
        <4>2. i \in Nat /\ l \in Nat /\ k = l + 3
          BY <1>12, <2>1, <4>1
        <4>3. i + k = i + l + 3
          BY <4>2
        <4> QED BY <4>1, <4>3
      <3>2. \A b \in DOMAIN disk : disk[b].linked => disk[b].linked
        OBVIOUS
      <3>3. \A b \in DOMAIN disk : b # segs[n].base => disk[b].index = disk[b].index
        OBVIOUS
      <3>4. g.base = segs[n].base /\ g.next = segs[n].next + 1
        BY <1>3, <1>4, <2>1
      <3>5. Len(disk[segs[n].base].index) + Len(g.ibuf) =
               Len(disk[segs[n].base].index) + Len(segs[n].ibuf) + 3
        BY <1>3, <3>1
      <3>6. t[n].base = segs[n].base /\ t[n].next = segs[n].next + 1 /\ t[n].ibuf = g.ibuf
        BY <1>10, <3>4
      <3>7. OneMore(disk, segs, disk, t, n)
        BY <1>2, <1>10, <3>2, <3>3, <3>5, <3>6, Zenon DEF OneMore
      <3> QED BY <1>1, <1>7, <1>11, <3>7, ActiveCounts, Zenon
    <2>2. CASE g.next = a.next /\ g.ibuf = a.ibuf
      <3>1. ASSUME NEW j \in 1..Len(segs)
            PROVE  /\ t[j].base = segs[j].base /\ t[j].next = segs[j].next
                   /\ t[j].ibuf = segs[j].ibuf
                   /\ Indexed(disk, t, {}, j) <= Indexed(disk, segs, {}, j)
        <4>1. /\ t[j].base = segs[j].base /\ t[j].next = segs[j].next /\ t[j].ibuf = segs[j].ibuf
          BY <1>3, <1>4, <1>10, <2>2
        <4>2. Indexed(disk, t, {}, j) = Indexed(disk, segs, {}, j)
          BY <4>1, Zenon DEF Indexed
        <4>3. Indexed(disk, segs, {}, j) \in Nat
          BY <1>1, SegmentNumbers
        <4> QED BY <4>1, <4>2, <4>3
      <3> QED BY <1>1, <1>7, <1>10, <1>11, <3>1, CountsKept
    <2> QED BY <1>4, <2>1, <2>2
  <1>14. applied \in Nat /\ applied' <= MaxRecords
    <2>1. applied < MaxRecords /\ applied' = applied + 1
      BY Zenon DEF appendClosed
    <2> QED BY <2>1, RecordsAssumption DEF FilesInv, StagesOK
  <1>15. t[Len(t)].next <= applied'
    BY <1>1, <1>2, <1>3, <1>4, <1>7, <1>10, <1>12, <1>14, SMTT(90)
  <1>16. unclean' \in BOOLEAN
    BY Zenon DEF appendClosed
  <1> QED BY <1>1, <1>5, <1>6, <1>9, <1>13, <1>14, <1>15, <1>16 DEF CountInv

\* What the files of an open log count: no more than was applied, and files of
\* one segment nothing that belongs to a later one.
LEMMA LinkedCounts ==
    ASSUME FilesInv, CountInv, pc # "down", NEW b \in Linked
    PROVE  /\ b \in Nat /\ Len(disk[b].index) \in Nat /\ Entries(Len(disk[b].index)) \in Nat
           /\ b + Entries(Len(disk[b].index)) <= segs[Len(segs)].next
           /\ segs[Len(segs)].next \in Nat /\ segs[Len(segs)].next <= applied
           /\ applied \in Nat /\ applied <= MaxRecords /\ MaxRecords \in Nat
           /\ \A c \in Linked : b < c => b + Entries(Len(disk[b].index)) <= c
  <1>1. OpenLog(disk, segs) /\ OpenCounts(disk, segs, Sent) /\ segs[Len(segs)].next <= applied
    BY DEF FilesInv, CountInv
  <1>2. PICK i \in 1..Len(segs) : segs[i].base = b /\ Owner(segs, i)
    BY <1>1 DEF OpenCounts, Owned, Linked
  <1>3. PICK m : m = Indexed(disk, segs, Sent, i)
    OBVIOUS
  <1>4. /\ b \in Nat /\ segs[i].next \in Nat /\ m \in Nat
        /\ Len(disk[b].index) \in Nat /\ Len(disk[b].index) <= m
    BY <1>1, <1>2, <1>3, SegmentNumbers
  <1>5. b + Entries(m) <= segs[i].next
    BY <1>1, <1>2, <1>3 DEF OpenCounts, Counts, CountOf
  <1>6. /\ Entries(Len(disk[b].index)) \in Nat /\ Entries(m) \in Nat
        /\ Entries(Len(disk[b].index)) <= Entries(m)
    BY <1>4, EntriesAre
  <1>7. b + Entries(Len(disk[b].index)) <= segs[i].next
    BY <1>4, <1>5, <1>6, SMTT(90)
  <1>8. segs[i].next <= segs[Len(segs)].next
    BY <1>1, FollowOrders DEF OpenCounts
  <1>9. segs[Len(segs)].next \in Nat
    <2>1. Len(segs) \in 1..Len(segs)
      BY <1>1, OpenHasFiles
    <2> QED BY <1>1, <2>1, SegmentNumbers
  <1>10. applied \in Nat /\ applied <= MaxRecords /\ MaxRecords \in Nat
    BY RecordsAssumption DEF FilesInv, StagesOK, CountInv
  <1>11. ASSUME NEW c \in Linked, b < c
         PROVE  b + Entries(Len(disk[b].index)) <= c
    <2>1. PICK j \in 1..Len(segs) : segs[j].base = c
      BY <1>1 DEF OpenCounts, Owned, Linked
    <2>2. c \in Nat
      BY <1>1, <2>1, SegmentNumbers
    <2>3. segs[i].next <= c
      BY <1>1, <1>2, <1>11, <2>1, FollowOrders DEF OpenCounts
    <2> QED BY <1>4, <1>6, <1>7, <2>2, <2>3
  <1>12. b + Entries(Len(disk[b].index)) <= segs[Len(segs)].next
    BY <1>4, <1>6, <1>7, <1>8, <1>9, SMTT(90)
  <1> QED BY <1>1, <1>4, <1>6, <1>9, <1>10, <1>11, <1>12

\* When memory is gone, only the files count.
LEMMA MemoryGoneCounts ==
    ASSUME CountInv, MemoryGone, unclean' \in BOOLEAN,
           DOMAIN disk' \subseteq 0..MaxRecords, ShutCounts(disk')
    PROVE  CountInv'
  <1>1. applied' = 0 /\ deleted' = deleted /\ pc' = "down" /\ 0 <= MaxRecords
    BY RecordsAssumption DEF MemoryGone
  <1> QED BY <1>1 DEF CountInv

\* Shutdown and death: the files count no more than the segments did.
LEMMA GoneCounts ==
    ASSUME FilesInv, CountInv, pc # "down", Gone, unclean' \in BOOLEAN
    PROVE  CountInv'
  <1>1. disk' = [b \in Linked |-> disk[b]]
    BY DEF Gone
  <1>2. DOMAIN disk' \subseteq 0..MaxRecords
    BY <1>1 DEF CountInv, Linked
  <1>3. ASSUME NEW b \in Linked
        PROVE  /\ b + Entries(Len(disk[b].index)) <= MaxRecords
               /\ \A c \in Linked : b < c => b + Entries(Len(disk[b].index)) <= c
    <2>1. PICK m : m = Entries(Len(disk[b].index))
      OBVIOUS
    <2>2. /\ b \in Nat /\ m \in Nat /\ b + m <= segs[Len(segs)].next
          /\ segs[Len(segs)].next \in Nat /\ segs[Len(segs)].next <= applied
          /\ applied \in Nat /\ applied <= MaxRecords /\ MaxRecords \in Nat
          /\ \A c \in Linked : b < c => b + m <= c
      BY <2>1, LinkedCounts
    <2>3. b + m <= MaxRecords
      BY <2>2
    <2> QED BY <2>1, <2>2, <2>3
  <1>4. ShutCounts(disk')
    BY <1>1, <1>3 DEF ShutCounts
  <1> QED BY <1>2, <1>4, MemoryGoneCounts DEF Gone

\* A death in newSegment leaves files that count nothing new.
LEMMA CrashOpeningCounts ==
    ASSUME FilesInv, CountInv, CrashOpening
    PROVE  CountInv'
  <1>1. PICK b \in 0..MaxRecords : \E f \in Unfinished(FilesAt(b)) :
           /\ Opening(b)
           /\ disk' = [d \in Linked \cup {b} |-> IF d = b THEN f ELSE disk[d]]
    BY DEF CrashOpening
  <1>2. PICK f \in Unfinished(FilesAt(b)) :
           /\ Opening(b)
           /\ disk' = [d \in Linked \cup {b} |-> IF d = b THEN f ELSE disk[d]]
    BY <1>1
  <1>3. b \in Nat /\ MaxRecords \in Nat /\ b <= MaxRecords
    BY RecordsAssumption
  <1>4. Files(disk) /\ Linked \in SUBSET DOMAIN disk
    BY FilesInvHasFiles DEF Linked
  <1>5. /\ b \in DOMAIN disk => f.index = disk[b].index
        /\ b \notin DOMAIN disk => f.index = <<>>
    <2>1. CASE b \in DOMAIN disk
      <3>1. FilesAt(b) = disk[b] /\ disk[b] \in File
        BY <1>4, <2>1 DEF FilesAt, Files
      <3> QED BY <2>1, <3>1, UnfinishedIs
    <2>2. CASE b \notin DOMAIN disk
      <3>1. PICK h : h = FilesAt(b)
        OBVIOUS
      <3>2. h \in File /\ h.index = <<>>
        BY <2>2, <3>1, NewFilesAre DEF FilesAt
      <3>3. f \in Unfinished(h)
        BY <3>1
      <3> QED BY <2>2, <3>2, <3>3, UnfinishedIs
    <2> QED BY <2>1, <2>2
  <1>6. PICK e : e = disk'
    OBVIOUS
  <1>7. /\ DOMAIN e = Linked \cup {b} /\ e[b] = f
        /\ \A c \in Linked : c # b => e[c] = disk[c]
    BY <1>2, <1>6
  <1>8. DOMAIN e \subseteq 0..MaxRecords
    BY <1>4, <1>7 DEF CountInv
  <1>9. CASE pc = "down"
    <2>1. ShutCounts(disk)
      BY <1>9 DEF CountInv
    <2>2. CASE b \in DOMAIN disk
      <3>1. \A c \in DOMAIN e : c \in DOMAIN disk /\ e[c].index = disk[c].index
        BY <1>4, <1>5, <1>7, <2>2
      <3>2. ShutCounts(e)
        BY <2>1, <3>1 DEF ShutCounts
      <3> QED BY <1>6, <1>8, <3>2, MemoryGoneCounts DEF CrashOpening
    <2>3. CASE b \notin DOMAIN disk
      <3>1. DOMAIN disk = {}
        BY <1>2, <1>9, <2>3 DEF Opening
      <3>2. DOMAIN e = {b} /\ e[b].index = <<>>
        BY <1>4, <1>5, <1>7, <2>3, <3>1
      <3>3. Len(e[b].index) = 0
        BY <3>2
      <3>4. b + Entries(Len(e[b].index)) <= MaxRecords
        BY <1>3, <3>3, EntriesAre
      <3>5. ShutCounts(e)
        BY <1>3, <3>2, <3>4 DEF ShutCounts
      <3> QED BY <1>6, <1>8, <3>5, MemoryGoneCounts DEF CrashOpening
    <2> QED BY <2>2, <2>3
  <1>10. CASE pc # "down"
    <2>1. /\ OpenLog(disk, segs) /\ b = NextOffset /\ MayAppend
      BY <1>2, <1>10 DEF Opening, FilesInv
    <2>2. NoReader
      BY <2>1 DEF MayAppend, Behind, FilesInv, StagesOK
    <2>3. OpenCounts(disk, segs, {})
      BY <1>10, <2>2, NoneSent DEF CountInv
    <2>4. Entries(Len(f.index)) = 0
      <3>1. CASE b \in DOMAIN disk
        BY <1>5, <2>1, <2>3, <3>1, NextFilesAreEmpty
      <3>2. CASE b \notin DOMAIN disk
        <4>1. Len(f.index) = 0
          BY <1>5, <3>2
        <4> QED BY <4>1, EntriesAre
      <3> QED BY <3>1, <3>2
    <2>5. b = segs[Len(segs)].next
      BY <2>1 DEF NextOffset, Active
    <2>6. ASSUME NEW c \in Linked
          PROVE  /\ c \in Nat /\ c <= b /\ Entries(Len(disk[c].index)) \in Nat
                 /\ c + Entries(Len(disk[c].index)) <= b
                 /\ \A k \in Linked : c < k => c + Entries(Len(disk[c].index)) <= k
      <3>1. PICK m : m = Entries(Len(disk[c].index))
        OBVIOUS
      <3>2. /\ c \in Nat /\ m \in Nat /\ c + m <= b
            /\ \A k \in Linked : c < k => c + m <= k
        BY <1>10, <2>5, <3>1, LinkedCounts
      <3>3. c <= b
        BY <1>3, <3>2
      <3> QED BY <3>1, <3>2, <3>3
    <2>7. ASSUME NEW c \in DOMAIN e
          PROVE  /\ c + Entries(Len(e[c].index)) <= MaxRecords
                 /\ \A k \in DOMAIN e : c < k => c + Entries(Len(e[c].index)) <= k
      <3>1. CASE c = b
        <4>1. c + Entries(Len(e[c].index)) <= MaxRecords
          BY <1>3, <1>7, <2>4, <3>1
        <4>2. \A k \in DOMAIN e : ~(c < k)
          BY <1>3, <1>7, <2>6, <3>1
        <4> QED BY <4>1, <4>2
      <3>2. CASE c # b
        <4>1. c \in Linked /\ e[c] = disk[c]
          BY <1>7, <3>2
        <4>2. PICK m : m = Entries(Len(disk[c].index))
          OBVIOUS
        <4>3. c \in Nat /\ m \in Nat /\ c + m <= b /\ \A k \in Linked : c < k => c + m <= k
          BY <2>6, <4>1, <4>2
        <4>4. c + m <= MaxRecords
          BY <1>3, <4>3
        <4>5. \A k \in DOMAIN e : c < k => c + m <= k
          BY <1>7, <4>3
        <4> QED BY <4>1, <4>2, <4>4, <4>5
      <3> QED BY <3>1, <3>2
    <2>8. ShutCounts(e)
      BY <2>7 DEF ShutCounts
    <2> QED BY <1>6, <1>8, <2>8, MemoryGoneCounts DEF CrashOpening
  <1> QED BY <1>9, <1>10

\* Retention: what is left still follows each other, and owns its files.
LEMMA deleteExpiredSegmentsCounts ==
    ASSUME FilesInv, FilesInv', CountInv, deleteExpiredSegments
    PROVE  CountInv'
  <1>1. PICK t, e, n : t = segs' /\ e = disk' /\ n = Len(segs)
    OBVIOUS
  <1>2. /\ OpenLog(disk, segs) /\ pc = "up" /\ Len(t) \in Nat /\ Len(t) > 0
        /\ t[Len(t)] = segs[n] /\ OpenLog(e, t) /\ n \in Nat /\ n > 0
    <2>1. OpenLog(disk', segs')
      BY DEF FilesInv, deleteExpiredSegments
    <2> QED BY <1>1, <2>1, RemainingIs, OpenHasFiles
  <1>3. PICK o \in [1..Len(t) -> 1..n] :
           /\ \A k \in 1..Len(t) : t[k] = segs[o[k]] /\ Stays(segs[o[k]])
           /\ \A k, l \in 1..Len(t) : k < l => o[k] < o[l]
           /\ \A i \in 1..n : Stays(segs[i]) => \E k \in 1..Len(t) : o[k] = i
    BY <1>1, RemainingIs, ZenonT(90)
  <1>4. PICK gone, bases : /\ gone = {s \in Range(segs) : ~Stays(s)}
                           /\ bases = {s.base : s \in gone}
    OBVIOUS
  <1>5. NoReader /\ UNCHANGED <<applied, unclean, reading, pc>>
        /\ deleted' = deleted \cup UNION {s.base..(s.next - 1) : s \in gone}
    BY <1>4 DEF deleteExpiredSegments
  <1>6. Sent = {} /\ Sent' = {}
    <2>1. NoReader'
      BY <1>5 DEF NoReader
    <2> QED BY <1>5, <2>1 DEF NoReader, Sent
  <1>7. OpenCounts(disk, segs, {}) /\ segs[n].next <= applied /\ applied <= MaxRecords
    BY <1>1, <1>2, <1>6 DEF CountInv
  <1>8. PICK B : B = (Linked \ bases) \cup {s.base : s \in Range(t)}
    OBVIOUS
  <1>9. e = [b \in B |-> [disk[b] EXCEPT !.linked = @ /\ b \notin bases]]
    BY <1>1, <1>4, <1>8, SMTT(30) DEF deleteExpiredSegments
  <1>10. DOMAIN e = B /\ B \in SUBSET DOMAIN disk
    <2>1. \A k \in 1..Len(t) : t[k].base \in DOMAIN disk
      BY <1>1, <1>2, <1>3, SegmentsAre, SMTT(90)
    <2>2. DOMAIN t = 1..Len(t)
      BY <1>2 DEF OpenLog, Segments
    <2>3. B \in SUBSET DOMAIN disk
      BY <1>8, <2>1, <2>2 DEF Range, Linked
    <2> QED BY <1>9, <2>3
  <1>11. ASSUME NEW b \in B
         PROVE  /\ e[b].index = disk[b].index
                /\ e[b].linked => disk[b].linked /\ b \notin bases
    <2>1. disk[b] \in File
      BY <1>2, <1>10 DEF OpenLog, Files
    <2>2. PICK l \in BOOLEAN : l = (disk[b].linked /\ b \notin bases)
      BY Zenon
    <2>3. PICK g : g = [disk[b] EXCEPT !.linked = l]
      OBVIOUS
    <2>4. e[b] = g
      BY <1>9, <2>2, <2>3
    <2>5. g.linked = l /\ g.index = disk[b].index
      BY <2>1, <2>3 DEF File
    <2> QED BY <2>2, <2>4, <2>5, Zenon
  <1>12. Follow(t)
    <2>1. \A i, j \in 1..n : i < j => segs[i].next <= segs[j].base
      BY <1>1, <1>7 DEF OpenCounts, Follow
    <2> SUFFICES ASSUME NEW k \in 1..Len(t), NEW l \in 1..Len(t), k < l
                 PROVE  t[k].next <= t[l].base
      BY DEF Follow
    <2>2. o[k] \in 1..n /\ o[l] \in 1..n /\ o[k] < o[l]
      BY <1>3
    <2> QED BY <1>3, <2>1, <2>2
  <1>13. ASSUME NEW k \in 1..Len(t), Owner(t, k)
         PROVE  Owner(segs, o[k])
    <2> SUFFICES ASSUME NEW j \in 1..n, j > o[k], segs[j].base = segs[o[k]].base
                 PROVE  FALSE
      BY <1>1 DEF Owner
    <2>1. o[k] \in 1..n /\ t[k] = segs[o[k]] /\ Stays(segs[o[k]])
      BY <1>3
    <2>2. PICK h \in 1..n : h > o[k] /\ segs[h].base = segs[o[k]].base /\ Stays(segs[h])
      <3>1. CASE Stays(segs[j])
        BY <3>1
      <3>2. CASE ~Stays(segs[j])
        <4>1. disk[segs[o[k]].base].expired
          BY <3>2 DEF Stays
        <4>2. segs[o[k]] = segs[n]
          BY <1>1, <2>1, <4>1 DEF Stays, Active
        <4>3. n \in 1..n /\ n > o[k]
          BY <1>2, <2>1
        <4>4. Stays(segs[n])
          BY <1>1 DEF Stays, Active
        <4> QED BY <4>2, <4>3, <4>4
      <3> QED BY <3>1, <3>2
    <2>3. PICK l \in 1..Len(t) : o[l] = h
      BY <1>3, <2>2
    <2>4. l > k
      <3>1. ~(l < k)
        <4>1. l < k => o[l] < o[k]
          BY <1>3
        <4> QED BY <2>1, <2>2, <2>3, <4>1
      <3>2. l # k
        BY <2>1, <2>2, <2>3
      <3> QED BY <1>2, <3>1, <3>2
    <2>5. t[l].base = t[k].base
      BY <1>3, <2>1, <2>2, <2>3
    <2> QED BY <1>13, <2>4, <2>5 DEF Owner
  <1>14. ASSUME NEW k \in 1..Len(t)
         PROVE  CountOf(e, t, {}, k)
    <2>1. o[k] \in 1..n /\ t[k] = segs[o[k]]
      BY <1>3
    <2>2. CountOf(disk, segs, {}, o[k])
      BY <1>1, <1>7, <2>1 DEF OpenCounts, Counts
    <2>3. t[k].base \in B
      BY <1>2, <1>10, SegmentNumbers
    <2>4. e[t[k].base].index = disk[segs[o[k]].base].index
      BY <1>11, <2>1, <2>3
    <2>5. Indexed(e, t, {}, k) = Indexed(disk, segs, {}, o[k])
      BY <2>1, <2>4, Zenon DEF Indexed
    <2> QED BY <1>13, <2>1, <2>2, <2>5 DEF CountOf
  <1>15. Owned(e, t)
    <2> SUFFICES ASSUME NEW b \in B, e[b].linked
                 PROVE  \E k \in 1..Len(t) : t[k].base = b /\ Owner(t, k)
      BY <1>10 DEF Owned
    <2>1. b \in DOMAIN disk /\ disk[b].linked /\ b \notin bases
      BY <1>10, <1>11
    <2>2. PICK i \in 1..n : segs[i].base = b /\ Owner(segs, i)
      BY <1>1, <1>7, <2>1 DEF OpenCounts, Owned
    <2>3. Stays(segs[i])
      <3>1. segs[i] \in Range(segs)
        BY <1>1, <1>2, SMTT(90) DEF Range, OpenLog, Segments
      <3> QED BY <1>4, <2>1, <2>2, <3>1
    <2>4. PICK k \in 1..Len(t) : o[k] = i
      BY <1>3, <2>3
    <2>5. t[k].base = b
      BY <1>3, <2>2, <2>4
    <2>6. Owner(t, k)
      <3> SUFFICES ASSUME NEW l \in 1..Len(t), l > k
                   PROVE  t[l].base # t[k].base
        BY DEF Owner
      <3>1. o[l] \in 1..n /\ o[k] < o[l]
        BY <1>2, <1>3
      <3>2. o[l] > i
        BY <2>4, <3>1
      <3> QED BY <1>1, <1>3, <2>2, <2>5, <3>1, <3>2 DEF Owner
    <2> QED BY <2>5, <2>6
  <1>16. OpenCounts(disk', segs', Sent')
    BY <1>1, <1>6, <1>12, <1>14, <1>15 DEF OpenCounts, Counts
  <1>17. deleted' \subseteq Offset
    <2>1. ASSUME NEW s \in gone
          PROVE  s.base..(s.next - 1) \subseteq Offset
      <3>1. PICK i \in 1..n : s = segs[i]
        BY <1>1, <1>2, <1>4 DEF Range, OpenLog, Segments
      <3>2. /\ s.base \in Nat /\ s.next \in Nat /\ s.next <= segs[n].next
        BY <1>1, <1>2, <1>7, <3>1, SegmentNumbers, FollowOrders DEF OpenCounts
      <3>3. segs[n].next \in Nat /\ applied \in Nat /\ MaxRecords \in Nat
        <4>1. n \in 1..Len(segs)
          BY <1>1, <1>2
        <4> QED BY <1>2, <4>1, SegmentNumbers, RecordsAssumption DEF FilesInv, StagesOK
      <3>4. s.next <= MaxRecords
        BY <1>7, <3>2, <3>3
      <3> QED BY <3>2, <3>3, <3>4 DEF Offset
    <2>2. deleted \subseteq Offset
      BY DEF CountInv
    <2> QED BY <1>5, <2>1, <2>2
  <1>18. DOMAIN disk' \subseteq 0..MaxRecords
    BY <1>1, <1>10 DEF CountInv
  <1>19. segs'[Len(segs')].next <= applied' /\ applied' <= MaxRecords /\ pc' = "up"
         /\ unclean' \in BOOLEAN
    BY <1>1, <1>2, <1>5, <1>7 DEF CountInv
  <1> QED BY <1>16, <1>17, <1>18, <1>19 DEF CountInv

\* Every step keeps the counts.
LEMMA CountStep ==
    ASSUME OneReader, FilesInv, CountInv, [Next]_vars
    PROVE  CountInv'
  <1> USE OneReader
  <1>0. FilesInv'
    BY FilesStep DEF FilesKept
  <1>1. CASE newWAL
    BY <1>0, <1>1, newWALCounts
  <1>2. CASE newWALFails \/ UNCHANGED vars
    <2>1. UNCHANGED vars
      BY <1>2 DEF newWALFails
    <2>2. UNCHANGED <<disk, segs, applied, deleted, unclean, reading, pc>>
      BY <2>1 DEF vars
    <2>3. Sent' = Sent
      BY <2>2 DEF Sent
    <2>4. CASE pc = "down"
      BY <2>2, <2>4 DEF CountInv
    <2>5. CASE pc # "down"
      BY <1>0, <2>2, <2>3, <2>5, CountSame
    <2> QED BY <2>4, <2>5
  <1>3. CASE append
    BY <1>0, <1>3, appendCounts
  <1>4. CASE appendClosed
    BY <1>0, <1>4, appendClosedCounts
  <1>5. CASE flush \/ close \/ FlushDone
    BY <1>0, <1>5, flushCounts
  <1>6. CASE FlushStep
    BY <1>0, <1>6, FlushStepCounts
  <1>7. CASE Closed
    <2>1. pc # "down" /\ Gone /\ unclean' \in BOOLEAN
      BY <1>7 DEF Closed, CountInv
    <2> QED BY <2>1, GoneCounts
  <1>8. CASE Crash
    <2>1. pc # "down" /\ Gone /\ unclean' \in BOOLEAN
      BY <1>8 DEF Crash
    <2> QED BY <2>1, GoneCounts
  <1>9. CASE CrashOpening
    BY <1>9, CrashOpeningCounts
  <1>10. CASE \E r \in Reader, offset \in Offset : ReadBegin(r, offset)
    BY <1>0, <1>10, ReadBeginCounts
  <1>11. CASE \E r \in Reader : ReadWritesIndex(r)
    BY <1>0, <1>11, ReadWritesIndexCounts
  <1>12. CASE \E r \in Reader : ReadEmptiesIndex(r)
    BY <1>0, <1>12, ReadEmptiesIndexCounts
  <1>13. CASE \E r \in Reader : ReadWritesStore(r) \/ ReadEnd(r)
    BY <1>0, <1>13, ReadStoreCounts
  <1>14. CASE \E b \in DOMAIN disk : Expire(b)
    BY <1>0, <1>14, ExpireCounts
  <1>15. CASE deleteExpiredSegments
    BY <1>0, <1>15, deleteExpiredSegmentsCounts
  <1> QED BY <1>1, <1>2, <1>3, <1>4, <1>5, <1>6, <1>7, <1>8, <1>9, <1>10, <1>11, <1>12,
             <1>13, <1>14, <1>15, Zenon DEF Next

\* With one reader at a time, no index file ever counts a record that its
\* segment does not, and segments never overlap: in spite of buffers that spill,
\* deaths at any point, appends behind the close, reopening and retention
\* (wal.go:27-190, segment.go:31-184, index.go:45-84).
THEOREM CountInvariant ==
    ASSUME OneReader
    PROVE  Spec => []CountInv
  <1> USE OneReader
  <1>1. Init => CountInv
    <2> SUFFICES ASSUME Init
                 PROVE  CountInv
      OBVIOUS
    <2>1. disk = <<>> /\ applied = 0 /\ deleted = {} /\ unclean = FALSE /\ pc = "down"
      BY DEF Init
    <2>2. DOMAIN disk = {}
      BY <2>1
    <2>3. ShutCounts(disk) /\ 0 <= MaxRecords
      BY <2>2, RecordsAssumption DEF ShutCounts
    <2> QED BY <2>1, <2>2, <2>3 DEF CountInv
  <1>2. FilesInv /\ CountInv /\ [Next]_vars => CountInv'
    BY CountStep
  <1> QED BY <1>1, <1>2, FilesInvariant, PTL DEF Spec

\* Type correctness of the write-ahead log.
THEOREM WalTypeCorrect ==
    ASSUME OneReader
    PROVE  Spec => []TypeOK
  <1> USE OneReader
  <1>1. FilesInv /\ CountInv => TypeOK
    <2> SUFFICES ASSUME FilesInv, CountInv
                 PROVE  TypeOK
      OBVIOUS
    <2>1. \A i \in 1..Len(segs) : /\ segs[i].base \in DOMAIN disk
                                  /\ segs[i].next \in Nat /\ segs[i].size \in Nat
      <3>1. CASE pc = "down"
        BY <3>1 DEF FilesInv
      <3>2. CASE pc # "down"
        <4>1. \A i \in 1..Len(segs) : segs[i] \in Segment /\ segs[i].base \in DOMAIN disk
          BY <3>2, SegmentsAre DEF FilesInv
        <4> QED BY <4>1 DEF Segment
      <3> QED BY <3>1, <3>2
    <2>2. applied \in 0..MaxRecords
      BY RecordsAssumption DEF FilesInv, StagesOK, CountInv
    <2>3. \A r \in Reader : reading[r].at \in Stage
      BY DEF FilesInv, StagesOK
    <2> QED BY <2>1, <2>2, <2>3 DEF TypeOK, CountInv, FilesInv, StagesOK, Stage
  <1> QED BY <1>1, FilesInvariant, CountInvariant, PTL

\* With one reader at a time, NextOffset of the files as they are on disk never
\* exceeds what Raft applied, whenever the process dies: after a restart Raft
\* applies every missing record again, and skips none (partition.go:50).
THEOREM RestartsNeverSkip ==
    ASSUME OneReader
    PROVE  Spec => []RestartNeverSkips
  <1> USE OneReader
  <1>1. FilesInv /\ CountInv => RestartNeverSkips
    <2> SUFFICES ASSUME FilesInv, CountInv, pc # "down",
                        Opened([b \in Linked |-> disk[b]]) # <<>>
                 PROVE  LET again == Opened([b \in Linked |-> disk[b]])
                        IN  again[Len(again)].next <= applied
      BY DEF RestartNeverSkips
    <2>1. PICK d, t : d = [b \in Linked |-> disk[b]] /\ t = Opened(d)
      OBVIOUS
    <2>2. DOMAIN d = Linked /\ \A b \in Linked : d[b] = disk[b]
      BY <2>1
    <2>3. Files(disk) /\ Linked \in SUBSET DOMAIN disk
      BY FilesInvHasFiles DEF Linked
    <2>4. Files(d) /\ \A b \in Linked : b \in Nat /\ disk[b] \in File
      <3>1. IsFiniteSet(Linked)
        BY <2>3, FS_Subset DEF Files
      <3>2. \A b \in Linked : b \in Nat /\ disk[b] \in File
        BY <2>3 DEF Files
      <3>3. d \in [Linked -> File]
        BY <2>1, <3>2
      <3> QED BY <2>2, <2>3, <3>1, <3>2, <3>3 DEF Files
    <2>5. DOMAIN d # {}
      <3> SUFFICES ASSUME DOMAIN d = {}
                   PROVE  FALSE
        OBVIOUS
      <3>1. PICK o : o = InOrder(DOMAIN d)
        OBVIOUS
      <3>2. Cardinality(DOMAIN d) = 0
        BY FS_EmptySet
      <3>3. o \in [1..0 -> DOMAIN d]
        <4>1. DOMAIN d \in SUBSET Nat /\ IsFiniteSet(DOMAIN d)
          BY <2>4 DEF Files
        <4> QED BY <3>1, <3>2, <4>1, InOrderSorts
      <3>4. Len(o) = 0
        BY <3>3
      <3>5. t = [i \in 1..Len(o) |-> OpenSegment(o[i], d[o[i]])]
        BY <2>1, <3>1 DEF Opened
      <3>6. t = <<>>
        BY <3>4, <3>5
      <3> QED BY <2>1, <3>6
    <2>6. /\ Len(t) \in 1..Len(t)
          /\ \A i \in 1..Len(t) : /\ t[i].base \in DOMAIN d
                                  /\ t[i] = OpenSegment(t[i].base, d[t[i].base])
      <3>1. t = Opened(d)
        BY <2>1
      <3>2. /\ Len(t) \in Nat /\ Len(t) > 0
            /\ \A i \in 1..Len(t) : /\ t[i].base \in DOMAIN d
                                    /\ t[i] = OpenSegment(t[i].base, d[t[i].base])
        BY <2>4, <2>5, <3>1, OpenedIs
      <3> QED BY <3>2
    <2>7. PICK b \in Linked : t[Len(t)] = OpenSegment(b, disk[b])
      BY <2>2, <2>6
    <2>8. t[Len(t)].next = b + Entries(Len(disk[b].index))
      <3>1. b \in Nat /\ disk[b] \in File
        BY <2>4
      <3>2. OpenSegment(b, disk[b]).next = b + Len(disk[b].index) \div 3
        BY <3>1, OpenSegmentIs
      <3> QED BY <2>7, <3>2, Zenon DEF Entries
    <2>9. PICK m : m = Entries(Len(disk[b].index))
      OBVIOUS
    <2>10. /\ b \in Nat /\ m \in Nat /\ b + m <= segs[Len(segs)].next
           /\ segs[Len(segs)].next \in Nat /\ segs[Len(segs)].next <= applied /\ applied \in Nat
      BY <2>9, LinkedCounts
    <2>11. t[Len(t)].next <= applied
      BY <2>8, <2>9, <2>10
    <2> QED BY <2>1, <2>11
  <1> QED BY <1>1, FilesInvariant, CountInvariant, PTL
=============================================================================
