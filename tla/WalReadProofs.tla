----------------------------- MODULE WalReadProofs -----------------------------
(***************************************************************************)
(* Proofs about what wal.read returns: the binary search of findSegment    *)
(* finds the segment of an offset, what has reached the files is served,   *)
(* and as long as shutdowns are orderly every offset reads back its own    *)
(* record.                                                                 *)
(***************************************************************************)
EXTENDS WalProofs, WellFoundedInduction

-----------------------------------------------------------------------------
(***************************************************************************)
(* The search.  A recursive function is what its definition says only if   *)
(* there is such a function; both that, and what it returns, are shown by  *)
(* taking the narrowest span for which it would not be so.                 *)
(***************************************************************************)
\* A set of naturals has a smallest element.
LEMMA Smallest ==
    ASSUME NEW S \in SUBSET Nat, S # {}
    PROVE  \E n \in S : \A m \in Nat : m < n => m \notin S
  <1> DEFINE R == {ss \in Nat \X Nat : ss[1] < ss[2]}
  <1>1. IsWellFoundedOn(R, Nat)
    BY NatLessThanWellFounded DEF OpToRel
  <1>2. \A x, y \in Nat : x < y => <<x, y>> \in R
    OBVIOUS
  <1> HIDE DEF R
  <1>3. PICK n \in S : \A m \in S : ~(<<m, n>> \in R)
    BY <1>1, WFMin, Zenon
  <1>4. \A m \in Nat : m < n => m \notin S
    BY <1>2, <1>3, Zenon
  <1> QED BY <1>3, <1>4, Zenon

\* A set of naturals without a first element is empty.
LEMMA NoFirst ==
    ASSUME NEW S \in SUBSET Nat, 0 \notin S, \A d \in Nat : d \notin S => d + 1 \notin S
    PROVE  S = {}
  <1> SUFFICES ASSUME S # {} PROVE FALSE
    OBVIOUS
  <1>1. PICK d \in S : \A m \in Nat : m < d => m \notin S
    BY Smallest, Zenon
  <1>2. d \in Nat /\ d # 0
    BY <1>1, Zenon
  <1>3. d - 1 \in Nat /\ d - 1 < d /\ (d - 1) + 1 = d
    BY <1>2
  <1>4. d - 1 \notin S
    BY <1>1, <1>3, Zenon
  <1>5. (d - 1) + 1 \notin S
    BY <1>3, <1>4, Zenon
  <1> QED BY <1>1, <1>3, <1>5, Zenon

\* One round of the search: what it makes of a span, given f for narrower ones.
Narrowed(offset, f, span) ==
    LET low == span[1]
        high == span[2]
        mid == (low + high) \div 2
    IN  IF low > high THEN 0
        ELSE IF offset < segs[mid].base THEN f[<<low, mid - 1>>]
        ELSE IF offset >= segs[mid].next THEN f[<<mid + 1, high>>]
        ELSE mid
IsSearch(offset, f) == f = [span \in Spans |-> Narrowed(offset, f, span)]
Width(span) == span[2] - span[1]
Middle(span) == (span[1] + span[2]) \div 2

\* The middle of a span lies in it, and what is left on either side is a
\* narrower span.
LEMMA SpanParts ==
    ASSUME Len(segs) \in Nat, NEW span \in Spans
    PROVE  /\ span[1] \in 1..(Len(segs) + 1) /\ span[2] \in 0..Len(segs)
           /\ Width(span) \in Int
           /\ span[1] <= span[2] =>
                 /\ Middle(span) \in span[1]..span[2] /\ Middle(span) \in 1..Len(segs)
                 /\ <<span[1], Middle(span) - 1>> \in Spans
                 /\ <<Middle(span) + 1, span[2]>> \in Spans
                 /\ Width(<<span[1], Middle(span) - 1>>) < Width(span)
                 /\ Width(<<Middle(span) + 1, span[2]>>) < Width(span)
  <1>1. PICK l, h, n : l = span[1] /\ h = span[2] /\ n = Len(segs)
    OBVIOUS
  <1>2. l \in 1..(n + 1) /\ h \in 0..n /\ n \in Nat
    BY <1>1 DEF Spans
  <1>3. PICK m : m = (l + h) \div 2
    OBVIOUS
  <1>4. l <= h => m \in Int /\ l <= m /\ m <= h
    BY <1>2, <1>3
  <1>5. l <= h => /\ m \in l..h /\ m \in 1..n /\ m - 1 \in 0..n /\ m + 1 \in 1..(n + 1)
                  /\ (m - 1) - l < h - l /\ h - (m + 1) < h - l
    BY <1>2, <1>4, SMTT(60)
  <1>6. Middle(span) = m /\ Width(span) = h - l
    BY <1>1, <1>3 DEF Middle, Width
  <1>7. Width(<<l, m - 1>>) = (m - 1) - l /\ Width(<<m + 1, h>>) = h - (m + 1)
    BY DEF Width
  <1>8. l <= h => <<l, m - 1>> \in Spans /\ <<m + 1, h>> \in Spans
    BY <1>1, <1>2, <1>5 DEF Spans
  <1>9. h - l \in Int
    BY <1>2
  <1> QED BY <1>1, <1>2, <1>5, <1>6, <1>7, <1>8, <1>9, Zenon

\* The same, with the middle named.
LEMMA NarrowedIs ==
    ASSUME NEW offset, NEW f, NEW span
    PROVE  Narrowed(offset, f, span) =
              IF span[1] > span[2] THEN 0
              ELSE IF offset < segs[Middle(span)].base THEN f[<<span[1], Middle(span) - 1>>]
              ELSE IF offset >= segs[Middle(span)].next THEN f[<<Middle(span) + 1, span[2]>>]
              ELSE Middle(span)
  BY Zenon DEF Narrowed, Middle

\* f is the search for all spans narrower than d.
SearchTo(offset, d, f) ==
    /\ f \in [Spans -> 0..Len(segs)]
    /\ \A span \in Spans : Width(span) < d => f[span] = Narrowed(offset, f, span)

\* Functions that agree on narrower spans narrow a span alike.
LEMMA NarrowedAlike ==
    ASSUME Len(segs) \in Nat, NEW offset, NEW span \in Spans, NEW f, NEW g,
           f \in [Spans -> 0..Len(segs)],
           \A p \in Spans : Width(p) < Width(span) => g[p] = f[p]
    PROVE  Narrowed(offset, g, span) = Narrowed(offset, f, span)
           /\ Narrowed(offset, f, span) \in 0..Len(segs)
  <1>1. CASE span[1] > span[2]
    <2>1. Narrowed(offset, g, span) = 0 /\ Narrowed(offset, f, span) = 0
      BY <1>1, NarrowedIs, Zenon
    <2>2. 0 \in 0..Len(segs)
      OBVIOUS
    <2> QED BY <2>1, <2>2, Zenon
  <1>2. CASE ~(span[1] > span[2])
    <2>1. PICK p, q, m : /\ p = <<span[1], Middle(span) - 1>> /\ q = <<Middle(span) + 1, span[2]>>
                         /\ m = Middle(span)
      OBVIOUS
    <2>2. span[1] <= span[2]
      <3>1. span[1] \in 1..(Len(segs) + 1) /\ span[2] \in 0..Len(segs)
        BY SpanParts, Zenon
      <3> QED BY <1>2, <3>1
    <2>3. p \in Spans /\ q \in Spans /\ m \in 1..Len(segs)
          /\ Width(p) < Width(span) /\ Width(q) < Width(span)
      BY <2>1, <2>2, SpanParts, Zenon
    <2>4. /\ g[p] = f[p] /\ g[q] = f[q]
          /\ f[p] \in 0..Len(segs) /\ f[q] \in 0..Len(segs) /\ m \in 0..Len(segs)
      BY <2>3
    <2>5. /\ Narrowed(offset, f, span) = IF offset < segs[m].base THEN f[p]
                                         ELSE IF offset >= segs[m].next THEN f[q] ELSE m
          /\ Narrowed(offset, g, span) = IF offset < segs[m].base THEN g[p]
                                         ELSE IF offset >= segs[m].next THEN g[q] ELSE m
      BY <1>2, <2>1, NarrowedIs, Zenon
    <2>6. CASE offset < segs[m].base
      BY <2>4, <2>5, <2>6, Zenon
    <2>7. CASE ~(offset < segs[m].base) /\ offset >= segs[m].next
      BY <2>4, <2>5, <2>7, Zenon
    <2>8. CASE ~(offset < segs[m].base) /\ ~(offset >= segs[m].next)
      BY <2>4, <2>5, <2>8, Zenon
    <2> QED BY <2>6, <2>7, <2>8
  <1> QED BY <1>1, <1>2

\* The search of one more width.
LEMMA SearchGoesOn ==
    ASSUME Len(segs) \in Nat, NEW offset, NEW d \in Nat, NEW f, SearchTo(offset, d, f)
    PROVE  \E g : SearchTo(offset, d + 1, g)
  <1>1. PICK g : g = [span \in Spans |-> Narrowed(offset, f, span)]
    OBVIOUS
  <1>2. f \in [Spans -> 0..Len(segs)]
    BY DEF SearchTo
  <1>3. \A span \in Spans : Narrowed(offset, f, span) \in 0..Len(segs)
    <2> SUFFICES ASSUME NEW span \in Spans PROVE Narrowed(offset, f, span) \in 0..Len(segs)
      OBVIOUS
    <2>1. \A p \in Spans : Width(p) < Width(span) => f[p] = f[p]
      OBVIOUS
    <2> QED BY <1>2, <2>1, NarrowedAlike, Zenon
  <1>4. g \in [Spans -> 0..Len(segs)]
    BY <1>1, <1>3, Zenon
  <1>5. ASSUME NEW span \in Spans, Width(span) < d + 1
        PROVE  g[span] = Narrowed(offset, g, span)
    <2>1. ASSUME NEW p \in Spans, Width(p) < Width(span) PROVE g[p] = f[p]
      <3>1. Width(p) \in Int /\ Width(span) \in Int
        BY SpanParts, Zenon
      <3>2. Width(p) < d
        BY <1>5, <2>1, <3>1
      <3>3. f[p] = Narrowed(offset, f, p)
        BY <3>2, Zenon DEF SearchTo
      <3> QED BY <1>1, <3>3, Zenon
    <2>2. Narrowed(offset, g, span) = Narrowed(offset, f, span)
      BY <1>2, <2>1, NarrowedAlike, Zenon
    <2> QED BY <1>1, <2>2, Zenon
  <1> QED BY <1>4, <1>5, Zenon DEF SearchTo

\* There is a function as findSegment defines it.
LEMMA SearchExists ==
    ASSUME Len(segs) \in Nat, NEW offset
    PROVE  \E f : IsSearch(offset, f)
  <1> DEFINE S == {d \in Nat : ~\E f : SearchTo(offset, d, f)}
  <1>1. 0 \notin S
    <2>1. PICK f : f = [span \in Spans |-> 0]
      OBVIOUS
    <2>2. f \in [Spans -> 0..Len(segs)]
      <3>1. 0 \in 0..Len(segs)
        OBVIOUS
      <3> QED BY <2>1, <3>1, Zenon
    <2>3. ASSUME NEW span \in Spans, Width(span) < 0 PROVE f[span] = Narrowed(offset, f, span)
      <3>1. span[1] \in 1..(Len(segs) + 1) /\ span[2] \in 0..Len(segs)
        BY SpanParts, Zenon
      <3>2. span[1] > span[2]
        BY <2>3, <3>1 DEF Width
      <3>3. Narrowed(offset, f, span) = 0
        BY <3>2, NarrowedIs, Zenon
      <3> QED BY <2>1, <3>3, Zenon
    <2>4. SearchTo(offset, 0, f)
      BY <2>2, <2>3, Zenon DEF SearchTo
    <2> QED BY <2>4, Zenon
  <1>2. \A d \in Nat : d \notin S => d + 1 \notin S
    BY SearchGoesOn, Zenon
  <1>3. S = {}
    <2>1. S \in SUBSET Nat
      BY Zenon
    <2> HIDE DEF S
    <2> QED BY <1>1, <1>2, <2>1, NoFirst, Zenon
  <1>4. PICK f : SearchTo(offset, Len(segs), f)
    BY <1>3, Zenon
  <1>5. \A span \in Spans : Width(span) < Len(segs)
    <2> SUFFICES ASSUME NEW span \in Spans PROVE Width(span) < Len(segs)
      OBVIOUS
    <2>1. span[1] \in 1..(Len(segs) + 1) /\ span[2] \in 0..Len(segs)
      BY SpanParts, Zenon
    <2> QED BY <2>1 DEF Width
  <1>6. f \in [Spans -> 0..Len(segs)] /\ \A span \in Spans : f[span] = Narrowed(offset, f, span)
    BY <1>4, <1>5, Zenon DEF SearchTo
  <1>7. f = [span \in Spans |-> Narrowed(offset, f, span)]
    BY <1>6, Zenon
  <1> QED BY <1>7, Zenon DEF IsSearch

\* Segment i has the offset.
Has(i, offset) == offset \in segs[i].base..(segs[i].next - 1)

\* k is what the search should return for a span.
Found(offset, span, k) ==
    /\ k # 0 => k \in span[1]..span[2] /\ Has(k, offset)
    /\ \A i \in span[1]..span[2] : Has(i, offset) => k # 0

\* Segments as a binary search needs them.
Sorted == /\ Len(segs) \in Nat
          /\ \A i \in 1..Len(segs) : /\ segs[i].base \in Nat /\ segs[i].next \in Nat
                                     /\ segs[i].base <= segs[i].next
          /\ Follow(segs)

\* What a segment tells of the segments before and behind it.
LEMMA Elsewhere ==
    ASSUME Sorted, NEW offset \in Nat, NEW m \in 1..Len(segs), NEW i \in 1..Len(segs),
           Has(i, offset)
    PROVE  /\ offset < segs[m].base => i < m
           /\ offset >= segs[m].next => i > m
           /\ Has(m, offset) => i = m
  <1>1. PICK b, n, c, p : b = segs[m].base /\ n = segs[m].next /\ c = segs[i].base /\ p = segs[i].next
    OBVIOUS
  <1>2. b \in Nat /\ n \in Nat /\ b <= n /\ c \in Nat /\ p \in Nat
    BY <1>1, Zenon DEF Sorted
  <1>3. c <= offset /\ offset < p
    BY <1>1, <1>2 DEF Has
  <1>a. \A x, y \in 1..Len(segs) : x < y => segs[x].next <= segs[y].base
    BY Zenon DEF Sorted, Follow
  <1>4. i < m => p <= b
    BY <1>1, <1>a, Zenon
  <1>5. m < i => n <= c
    BY <1>1, <1>a, Zenon
  <1>6. Has(m, offset) => b <= offset /\ offset < n
    BY <1>1, <1>2 DEF Has
  <1>7. i \in Int /\ m \in Int /\ (i = m => b = c /\ n = p)
    BY <1>1
  <1>8. offset < b => i < m
    BY <1>2, <1>3, <1>5, <1>7
  <1>9. offset >= n => i > m
    BY <1>2, <1>3, <1>4, <1>7
  <1>10. Has(m, offset) => i = m
    BY <1>2, <1>3, <1>4, <1>5, <1>6, <1>7
  <1> QED BY <1>1, <1>8, <1>9, <1>10, Zenon

\* If the search is right on narrower spans, it is right on this one.
LEMMA NarrowedFinds ==
    ASSUME Sorted, NEW offset \in Nat, NEW f, NEW span \in Spans,
           f[span] = Narrowed(offset, f, span),
           \A p \in Spans : Width(p) < Width(span) => Found(offset, p, f[p])
    PROVE  Found(offset, span, f[span])
  <1>0. Len(segs) \in Nat
    BY Zenon DEF Sorted
  <1>1. PICK l, h, m, p, q, k :
           /\ l = span[1] /\ h = span[2] /\ m = Middle(span)
           /\ p = <<span[1], Middle(span) - 1>> /\ q = <<Middle(span) + 1, span[2]>>
           /\ k = f[span]
    OBVIOUS
  <1>2. l \in 1..(Len(segs) + 1) /\ h \in 0..Len(segs)
    BY <1>0, <1>1, SpanParts, Zenon
  <1>3. CASE l > h
    <2>1. k = 0
      BY <1>1, <1>3, NarrowedIs, Zenon
    <2>2. \A i \in l..h : FALSE
      BY <1>2, <1>3
    <2> QED BY <1>1, <2>1, <2>2, Zenon DEF Found
  <1>4. CASE ~(l > h)
    <2>1. l <= h
      BY <1>2, <1>4
    <2>2. /\ m \in l..h /\ m \in 1..Len(segs) /\ p \in Spans /\ q \in Spans
          /\ Width(p) < Width(span) /\ Width(q) < Width(span)
      BY <1>0, <1>1, <2>1, SpanParts, Zenon
    <2>3. k = IF offset < segs[m].base THEN f[p]
              ELSE IF offset >= segs[m].next THEN f[q] ELSE m
      BY <1>1, <1>4, NarrowedIs, Zenon
    <2>4. Found(offset, p, f[p]) /\ Found(offset, q, f[q])
      BY <2>2, Zenon
    <2>5. p[1] = l /\ p[2] = m - 1 /\ q[1] = m + 1 /\ q[2] = h
      BY <1>1
    <2>6. \A i \in l..h : i \in 1..Len(segs)
      BY <1>2
    <2>7. CASE offset < segs[m].base
      <3>1. k = f[p]
        BY <2>3, <2>7, Zenon
      <3>2. /\ k # 0 => k \in l..(m - 1) /\ Has(k, offset)
            /\ \A i \in l..(m - 1) : Has(i, offset) => k # 0
        BY <2>4, <2>5, <3>1, Zenon DEF Found
      <3>3. \A i \in l..(m - 1) : i \in l..h
        BY <1>2, <2>2
      <3>4. \A i \in l..h : i < m => i \in l..(m - 1)
        BY <1>2, <2>2
      <3>5. \A i \in l..h : Has(i, offset) => i < m
        BY <2>2, <2>6, <2>7, Elsewhere, Zenon
      <3> QED BY <1>1, <3>2, <3>3, <3>4, <3>5, Zenon DEF Found
    <2>8. CASE ~(offset < segs[m].base) /\ offset >= segs[m].next
      <3>1. k = f[q]
        BY <2>3, <2>8, Zenon
      <3>2. /\ k # 0 => k \in (m + 1)..h /\ Has(k, offset)
            /\ \A i \in (m + 1)..h : Has(i, offset) => k # 0
        BY <2>4, <2>5, <3>1, Zenon DEF Found
      <3>3. \A i \in (m + 1)..h : i \in l..h
        BY <1>2, <2>2
      <3>4. \A i \in l..h : i > m => i \in (m + 1)..h
        BY <1>2, <2>2
      <3>5. \A i \in l..h : Has(i, offset) => i > m
        BY <2>2, <2>6, <2>8, Elsewhere, Zenon
      <3> QED BY <1>1, <3>2, <3>3, <3>4, <3>5, Zenon DEF Found
    <2>9. CASE ~(offset < segs[m].base) /\ ~(offset >= segs[m].next)
      <3>1. k = m
        BY <2>3, <2>9, Zenon
      <3>2. segs[m].base \in Nat /\ segs[m].next \in Nat
        BY <2>2, Zenon DEF Sorted
      <3>3. Has(m, offset)
        BY <2>9, <3>2 DEF Has
      <3>4. m # 0
        BY <2>2
      <3> QED BY <1>1, <2>2, <3>1, <3>3, <3>4, Zenon DEF Found
    <2> QED BY <2>7, <2>8, <2>9, Zenon
  <1> QED BY <1>3, <1>4

\* findSegment returns a segment that has the offset, or 0 if there is none.
LEMMA SearchFinds ==
    ASSUME Sorted, NEW offset \in Nat
    PROVE  /\ findSegment(offset) # 0 =>
                 findSegment(offset) \in 1..Len(segs) /\ Has(findSegment(offset), offset)
           /\ \A i \in 1..Len(segs) : Has(i, offset) => findSegment(offset) # 0
  <1>0. Len(segs) \in Nat
    BY Zenon DEF Sorted
  <1>1. \E f : IsSearch(offset, f)
    BY <1>0, SearchExists
  <1>2. PICK f : f = CHOOSE g : IsSearch(offset, g)
    OBVIOUS
  <1>3. IsSearch(offset, f)
    BY <1>1, <1>2, Zenon
  <1>4. findSegment(offset) = f[<<1, Len(segs)>>]
    <2>1. findSegment(offset) = (CHOOSE g : IsSearch(offset, g))[<<1, Len(segs)>>]
      BY Zenon DEF findSegment, IsSearch, Narrowed
    <2> QED BY <1>2, <2>1, Zenon
  <1>5. \A span \in Spans : f[span] = Narrowed(offset, f, span)
    BY <1>3, Zenon DEF IsSearch
  <1> DEFINE S == {d \in Nat : ~\A span \in Spans : Width(span) < d => Found(offset, span, f[span])}
  <1>6. 0 \notin S
    <2> SUFFICES ASSUME NEW span \in Spans, Width(span) < 0 PROVE Found(offset, span, f[span])
      BY Zenon
    <2>1. span[1] \in 1..(Len(segs) + 1) /\ span[2] \in 0..Len(segs)
      BY <1>0, SpanParts, Zenon
    <2>2. span[1] > span[2]
      BY <2>1 DEF Width
    <2>3. Narrowed(offset, f, span) = 0
      BY <2>2, NarrowedIs, Zenon
    <2>4. f[span] = 0
      BY <1>5, <2>3, Zenon
    <2>5. \A i \in span[1]..span[2] : FALSE
      BY <2>1, <2>2
    <2> QED BY <2>4, <2>5, Zenon DEF Found
  <1>7. ASSUME NEW d \in Nat, d \notin S PROVE d + 1 \notin S
    <2> SUFFICES ASSUME NEW span \in Spans, Width(span) < d + 1 PROVE Found(offset, span, f[span])
      BY Zenon
    <2>1. ASSUME NEW p \in Spans, Width(p) < Width(span) PROVE Found(offset, p, f[p])
      <3>1. Width(p) \in Int /\ Width(span) \in Int
        BY <1>0, SpanParts, Zenon
      <3>2. Width(p) < d
        BY <2>1, <3>1
      <3> QED BY <1>7, <3>2, Zenon
    <2>2. f[span] = Narrowed(offset, f, span)
      BY <1>5, Zenon
    <2> QED BY <2>1, <2>2, NarrowedFinds, Zenon
  <1>8. S = {}
    <2>1. S \in SUBSET Nat
      BY Zenon
    <2> HIDE DEF S
    <2> QED BY <1>6, <1>7, <2>1, NoFirst, Zenon
  <1>9. PICK w : w = <<1, Len(segs)>>
    OBVIOUS
  <1>10. w \in Spans /\ w[1] = 1 /\ w[2] = Len(segs)
    BY <1>0, <1>9 DEF Spans
  <1>11. Width(w) < Len(segs)
    BY <1>0, <1>10 DEF Width
  <1>12. Found(offset, w, f[w])
    BY <1>0, <1>8, <1>10, <1>11, Zenon
  <1> QED BY <1>4, <1>9, <1>10, <1>12, Zenon DEF Found

\* The segments of a log are sorted, open or not.
LEMMA SegmentsAreSorted ==
    ASSUME FilesInv, CountInv
    PROVE  Sorted
  <1>1. CASE pc = "down"
    <2>1. segs = <<>>
      BY <1>1, Zenon DEF FilesInv
    <2>2. Len(segs) = 0
      BY <2>1
    <2>3. \A i \in 1..Len(segs) : FALSE
      BY <2>2
    <2> QED BY <2>2, <2>3 DEF Sorted, Follow
  <1>2. CASE pc # "down"
    <2>1. OpenLog(disk, segs) /\ Follow(segs)
      BY <1>2, Zenon DEF FilesInv, CountInv, OpenCounts
    <2>2. Len(segs) \in Nat
      BY <2>1, OpenHasFiles
    <2> QED BY <2>1, <2>2, SegmentNumbers, Zenon DEF Sorted
  <1> QED BY <1>1, <1>2

\* THEOREM: the binary search of findSegment finds a segment exactly when one
\* has the offset, in every reachable list of segments (FindsTheSegment).
THEOREM SearchIsRight ==
    ASSUME OneReader
    PROVE  Spec => []FindsTheSegment
  <1>1. FilesInv /\ CountInv => FindsTheSegment
    <2> SUFFICES ASSUME FilesInv, CountInv, NEW offset \in 0..MaxRecords
                 PROVE  LET holders == {i \in 1..Len(segs) : offset \in segs[i].base..(segs[i].next - 1)}
                        IN  IF holders = {} THEN findSegment(offset) = 0
                            ELSE findSegment(offset) \in holders
      BY Zenon DEF FindsTheSegment
    <2>1. Sorted
      BY SegmentsAreSorted
    <2>2. offset \in Nat
      BY RecordsAssumption
    <2>3. /\ findSegment(offset) # 0 =>
                findSegment(offset) \in 1..Len(segs) /\ Has(findSegment(offset), offset)
          /\ \A i \in 1..Len(segs) : Has(i, offset) => findSegment(offset) # 0
      BY <2>1, <2>2, SearchFinds, Zenon
    <2>4. PICK k : k = findSegment(offset)
      OBVIOUS
    <2> DEFINE holders == {i \in 1..Len(segs) : Has(i, offset)}
    <2>5. IF holders = {} THEN k = 0 ELSE k \in holders
      <3>1. k # 0 => k \in holders
        BY <2>3, <2>4, Zenon
      <3>2. \A i \in holders : k # 0
        BY <2>3, <2>4, Zenon
      <3> QED BY <3>1, <3>2, Zenon
    <2> QED BY <2>4, <2>5, Zenon DEF Has
  <1> QED BY <1>1, FilesInvariant, CountInvariant, PTL

-----------------------------------------------------------------------------
(***************************************************************************)
(* What has reached the files is served.                                   *)
(***************************************************************************)
\* What RecordFound needs of an index.
LEMMA FoundIsIndexed ==
    ASSUME NEW store, NEW index, NEW rel, NEW offset \in Offset,
           RecordFound(store, index, rel) = offset
    PROVE  3 * rel + 3 <= Len(index)
  <1>1. offset # None
    BY RecordsAssumption DEF Offset, None
  <1> QED BY <1>1, Zenon DEF RecordFound

\* Nobody reads: no buffer is on its way.
LEMMA NothingSent ==
    ASSUME NoReader
    PROVE  Sent = {} /\ StoreSent = {}
  BY DEF NoReader, Sent, StoreSent

\* THEOREM: after any restart, what had reached both files is served
\* (FlushedIsServed).
THEOREM FlushedComesBack ==
    ASSUME OneReader
    PROVE  Spec => []FlushedIsServed
  <1>1. FilesInv /\ CountInv => FlushedIsServed
    <2> SUFFICES ASSUME FilesInv, CountInv, Serving, NEW offset \in Offset, OnDisk(offset)
                 PROVE  Lookup(offset) = offset
      BY Zenon DEF FlushedIsServed
    <2>1. PICK b \in Linked : OnDiskIn(b, offset)
      BY Zenon DEF OnDisk
    <2>2. /\ pc # "down" /\ NoReader
      BY Zenon DEF Serving
    <2>3. OpenLog(disk, segs) /\ OpenCounts(disk, segs, {})
      <3>1. Sent = {}
        BY <2>2, NothingSent
      <3> QED BY <2>2, <3>1, Zenon DEF FilesInv, CountInv
    <2>4. PICK i \in 1..Len(segs) : segs[i].base = b /\ Owner(segs, i)
      <3>1. b \in DOMAIN disk /\ disk[b].linked
        BY Zenon DEF Linked
      <3> QED BY <2>3, <3>1, Zenon DEF OpenCounts, Owned
    <2>5. PICK st, ix, sb, ib : /\ st = disk[b].store /\ ix = disk[b].index
                                /\ sb = segs[i].sbuf /\ ib = segs[i].ibuf
      OBVIOUS
    <2>6. st \in Seq(Word) /\ ix \in Seq(Nat) /\ sb \in Seq(Word) /\ ib \in Seq(Nat)
      <3>1. segs[i] \in Segment /\ b \in DOMAIN disk
        BY <2>3, <2>4, SegmentsAre, Zenon
      <3>2. disk[b] \in File
        <4>1. disk \in [DOMAIN disk -> File]
          BY <2>3, Zenon DEF OpenLog, Files
        <4> QED BY <3>1, <4>1, Zenon
      <3> QED BY <2>5, <3>1, <3>2, FileParts, SegmentParts, Zenon
    <2>7. PICK rel : rel = offset - b
      OBVIOUS
    <2>8. /\ b \in Nat /\ offset \in Nat /\ b <= offset /\ rel \in Nat
          /\ RecordFound(st, ix, rel) = offset
      <3>1. b <= offset /\ RecordFound(st, ix, rel) = offset
        BY <2>1, <2>5, <2>7, Zenon DEF OnDiskIn
      <3>2. b \in Nat
        BY <2>3, <2>4, SegmentNumbers, Zenon
      <3>3. offset \in Nat
        BY RecordsAssumption DEF Offset
      <3>4. rel \in Nat
        BY <2>7, <3>1, <3>2, <3>3
      <3> QED BY <3>1, <3>2, <3>3, <3>4
    <2>9. Has(i, offset)
      <3>1. PICK n, l, m : n = segs[i].next /\ l = Len(ix) /\ m = Len(ix) + Len(ib)
        OBVIOUS
      <3>2. n \in Nat /\ l \in Nat /\ m \in Nat /\ l <= m
        <4>1. n \in Nat
          BY <2>3, <3>1, SegmentNumbers, Zenon
        <4> QED BY <2>6, <3>1, <4>1
      <3>3. b + Entries(m) <= n
        <4>1. i \notin {}
          OBVIOUS
        <4>2. Indexed(disk, segs, {}, i) = m
          BY <2>4, <2>5, <3>1, <4>1, Zenon DEF Indexed
        <4> QED BY <2>3, <2>4, <3>1, <4>2, Zenon DEF OpenCounts, Counts, CountOf
      <3>4. 3 * rel + 3 <= l
        BY <2>8, <3>1, FoundIsIndexed, Zenon
      <3>5. rel + 1 <= Entries(m) /\ Entries(m) \in Nat
        BY <2>8, <3>2, <3>4 DEF Entries
      <3>6. offset < n
        BY <2>7, <2>8, <3>2, <3>3, <3>5
      <3>7. offset \in b..(n - 1)
        BY <2>8, <3>2, <3>6
      <3> QED BY <2>4, <3>1, <3>7, Zenon DEF Has
    <2>10. findSegment(offset) = i
      <3>1. Sorted
        BY SegmentsAreSorted
      <3>2. findSegment(offset) \in 1..Len(segs) /\ Has(findSegment(offset), offset)
        BY <2>8, <2>9, <3>1, SearchFinds, Zenon
      <3> QED BY <2>8, <2>9, <3>1, <3>2, Elsewhere, Zenon
    <2>11. i # 0
      OBVIOUS
    <2>12. Lookup(offset) = RecordFound(st \o sb, ix \o ib, rel)
      <3>1. Lookup(offset) = RecordFound(Written(Store(segs[i])), Written(Index(segs[i])),
                                         offset - segs[i].base)
        BY <2>10, <2>11, Zenon DEF Lookup
      <3>2. Written(Store(segs[i])) = st \o sb
        BY <2>4, <2>5 DEF Written, Store
      <3>3. Written(Index(segs[i])) = ix \o ib
        BY <2>4, <2>5 DEF Written, Index
      <3>4. offset - segs[i].base = rel
        BY <2>4, <2>7, Zenon
      <3> QED BY <3>1, <3>2, <3>3, <3>4, Zenon
    <2>13. RecordFound(st, ix, rel) = offset
      BY <2>8
    <2>14. RecordFound(st \o sb, ix \o ib, rel) = offset
      BY <2>6, <2>8, <2>13, RecordStaysFound
    <2> QED BY <2>12, <2>14
  <1> QED BY <1>1, FilesInvariant, CountInvariant, PTL

-----------------------------------------------------------------------------
(***************************************************************************)
(* A segment to which a record is appended holds that record too.          *)
(***************************************************************************)
\* The words of a record.
LEMMA RecordWords ==
    ASSUME NEW n \in Offset
    PROVE  /\ Record(n)[1] = [rec |-> n, part |-> 0]
           /\ \A k \in 1..ValueWords[n] : Record(n)[k + 1] = [rec |-> n, part |-> k]
  <1>1. ValueWords[n] \in Nat
    BY ValueAssumption
  <1>2. PICK m : m = ValueWords[n]
    OBVIOUS
  <1>3. \A w \in 1..(m + 1) : Record(n)[w] = [rec |-> n, part |-> w - 1]
    BY <1>2, Zenon DEF Record
  <1>4. 1 \in 1..(m + 1) /\ 1 - 1 = 0
    BY <1>1, <1>2
  <1>5. \A k \in 1..m : k + 1 \in 1..(m + 1) /\ (k + 1) - 1 = k
    BY <1>1, <1>2
  <1> QED BY <1>2, <1>3, <1>4, <1>5, Zenon

\* The words behind a sequence to which another is joined.
LEMMA BehindSeq ==
    ASSUME NEW T, NEW u \in Seq(T), NEW v \in Seq(T), NEW k \in 1..Len(v)
    PROVE  (u \o v)[Len(u) + k] = v[k]
  <1>1. PICK l, m : l = Len(u) /\ m = Len(v)
    OBVIOUS
  <1>2. l \in Nat /\ m \in Nat
    BY <1>1
  <1>3. \A i \in 1..(l + m) : (u \o v)[i] = IF i <= l THEN u[i] ELSE v[i - l]
    BY <1>1, ConcatProperties, Zenon
  <1>4. l + k \in 1..(l + m) /\ ~(l + k <= l) /\ (l + k) - l = k
    BY <1>1, <1>2
  <1> QED BY <1>1, <1>3, <1>4, Zenon

\* A record is found where its index entry says it was put.
LEMMA AppendedIsFound ==
    ASSUME NEW store \in Seq(Word), NEW index \in Seq(Nat), NEW n \in Offset, NEW rel \in Nat,
           Len(index) = 3 * rel
    PROVE  RecordFound(store \o Record(n), index \o IndexEntry(rel, Len(store)), rel) = n
  <1>1. PICK r, e, s, x, l, v : /\ r = Record(n) /\ e = IndexEntry(rel, Len(store))
                                /\ s = store \o r /\ x = index \o e
                                /\ l = Len(store) /\ v = ValueWords[n]
    OBVIOUS
  <1>2. r \in Seq(Word) /\ Len(r) = v + 1 /\ v \in Nat
    BY <1>1, RecordIs, Zenon
  <1>3. l \in Nat
    BY <1>1
  <1>4. e \in Seq(Nat) /\ Len(e) = 3 /\ e[2] = 0 /\ e[3] = l
    BY <1>1, <1>3 DEF IndexEntry
  <1>5. Len(s) = l + (v + 1)
    <2>1. Len(s) = Len(store) + Len(r)
      BY <1>1, <1>2, ConcatProperties, Zenon
    <2> QED BY <1>1, <1>2, <2>1, Zenon
  <1>6. Len(x) = 3 * rel + 3
    <2>1. Len(x) = Len(index) + Len(e)
      BY <1>1, <1>4, ConcatProperties, Zenon
    <2> QED BY <1>4, <2>1, Zenon
  <1>7. x[3 * rel + 2] = 0 /\ x[3 * rel + 3] = l
    <2>1. 2 \in 1..Len(e) /\ 3 \in 1..Len(e)
      BY <1>4
    <2>0. e \in Seq(Nat)
      BY <1>4, Zenon
    <2>2. \A k \in 1..Len(e) : (index \o e)[Len(index) + k] = e[k]
      BY <2>0, BehindSeq, SMTT(30)
    <2>3. (index \o e)[Len(index) + 2] = e[2] /\ (index \o e)[Len(index) + 3] = e[3]
      BY <2>1, <2>2, Zenon
    <2> QED BY <1>1, <1>4, <2>3, Zenon
  <1>8. \A k \in 1..(v + 1) : s[l + k] = r[k]
    <2>1. \A k \in 1..Len(r) : (store \o r)[Len(store) + k] = r[k]
      BY <1>2, BehindSeq
    <2> QED BY <1>1, <1>2, <2>1, Zenon
  <1>9. s[l + 1] = [rec |-> n, part |-> 0]
    <2>1. 1 \in 1..(v + 1)
      BY <1>2
    <2> QED BY <1>1, <1>8, <2>1, RecordWords, Zenon
  <1>10. ASSUME NEW k \in 1..v
         PROVE  s[l + 1 + k] = [rec |-> n, part |-> k]
    <2>1. k + 1 \in 1..(v + 1) /\ l + (k + 1) = l + 1 + k
      BY <1>2, <1>3
    <2>2. r[k + 1] = [rec |-> n, part |-> k]
      BY <1>1, RecordWords, Zenon
    <2> QED BY <1>8, <2>1, <2>2, Zenon
  <1>11. PICK p, h : p = x[3 * rel + 2] * Wide + x[3 * rel + 3] /\ h = s[p + 1]
    OBVIOUS
  <1>12. p = l
    <2>1. Wide \in Int
      BY RecordsAssumption, CapacityAssumption DEF Wide
    <2>2. p = 0 * Wide + l
      BY <1>7, <1>11, Zenon
    <2> QED BY <1>3, <2>1, <2>2
  <1>13. h.rec = n /\ h.part = 0
    <2>1. h = [rec |-> n, part |-> 0]
      BY <1>9, <1>11, <1>12, Zenon
    <2> QED BY <2>1
  <1>14. /\ 3 * rel + 3 <= Len(x) /\ p < Len(s) /\ h.part = 0
         /\ p + 1 + ValueWords[h.rec] <= Len(s)
    <2>1. 3 * rel + 3 \in Int
      OBVIOUS
    <2>2. l < l + (v + 1) /\ l + 1 + v <= l + (v + 1)
      BY <1>2, <1>3
    <2>3. 3 * rel + 3 <= Len(x)
      BY <1>6, <2>1
    <2> QED BY <1>1, <1>5, <1>12, <1>13, <2>2, <2>3, Zenon
  <1>15. \A k \in 1..ValueWords[h.rec] : s[p + 1 + k] = [rec |-> h.rec, part |-> k]
    BY <1>1, <1>10, <1>12, <1>13, Zenon
  <1>16. RecordFound(s, x, rel) = h.rec
    BY <1>11, <1>14, <1>15, Zenon DEF RecordFound
  <1> QED BY <1>1, <1>13, <1>16, Zenon

\* A store and an index hold one more record.
LEMMA HoldsOneMore ==
    ASSUME NEW store \in Seq(Word), NEW index \in Seq(Nat), NEW b \in Nat, NEW n \in Offset,
           b <= n, Holds(store, index, b, n)
    PROVE  Holds(store \o Record(n), index \o IndexEntry(n - b, Len(store)), b, n + 1)
  <1>1. PICK rel, e, r, s, x : /\ rel = n - b /\ e = IndexEntry(rel, Len(store)) /\ r = Record(n)
                               /\ s = store \o r /\ x = index \o e
    OBVIOUS
  <1>2. n \in Nat /\ rel \in Nat /\ n + 1 # b
    BY <1>1, RecordsAssumption DEF Offset
  <1>3. Len(index) = 3 * rel
    BY <1>1, Zenon DEF Holds
  <1>4. r \in Seq(Word)
    BY <1>1, RecordIs, Zenon
  <1>5. e \in Seq(Nat) /\ Len(e) = 3
    BY <1>1, <1>2 DEF IndexEntry
  <1>6. Len(x) = 3 * ((n + 1) - b)
    <2>1. Len(x) = Len(index) + Len(e)
      BY <1>1, <1>5, ConcatProperties, Zenon
    <2>2. Len(x) = 3 * rel + 3
      BY <1>3, <1>5, <2>1, Zenon
    <2> QED BY <1>1, <1>2, <2>2
  <1>7. ASSUME NEW offset \in b..((n + 1) - 1)
        PROVE  RecordFound(s, x, offset - b) = offset
    <2>1. offset \in Nat /\ b <= offset /\ offset <= n
      BY <1>2
    <2>2. CASE offset = n
      <3>1. RecordFound(s, x, rel) = n
        BY <1>1, <1>2, <1>3, AppendedIsFound, Zenon
      <3> QED BY <1>1, <2>2, <3>1, Zenon
    <2>3. CASE offset # n
      <3>1. PICK o : o = offset - b
        OBVIOUS
      <3>2. offset \in b..(n - 1) /\ offset \in Offset /\ o \in Nat
        BY <1>2, <2>1, <2>3, <3>1, RecordsAssumption DEF Offset
      <3>3. RecordFound(store, index, o) = offset
        BY <3>1, <3>2, Zenon DEF Holds
      <3>4. RecordFound(store \o r, index \o e, o) = offset
        BY <1>4, <1>5, <3>2, <3>3, RecordStaysFound
      <3> QED BY <1>1, <3>1, <3>4, Zenon
    <2> QED BY <2>2, <2>3
  <1>8. Holds(s, x, b, n + 1)
    BY <1>2, <1>6, <1>7, Zenon DEF Holds
  <1> QED BY <1>1, <1>8, Zenon

-----------------------------------------------------------------------------
(***************************************************************************)
(* Steps that move what is in a buffer to its file, and steps that leave   *)
(* both alone, keep HoldInv.                                               *)
(***************************************************************************)
\* What an open log is, as long as shutdowns are orderly.
LEMMA HoldParts ==
    ASSUME FilesInv, CountInv, HoldInv, ~unclean, pc # "down"
    PROVE  /\ OpenLog(disk, segs) /\ OpenCounts(disk, segs, Sent) /\ Follow(segs)
           /\ OpenHolds(disk, segs, Sent, StoreSent)
           /\ segs[Len(segs)].next = applied
           /\ Covers(segs, deleted, applied)
           /\ pc = "close" => Flushing(segs, todo)
           /\ pc # "late"
  <1>1. OpenLog(disk, segs)
    BY Zenon DEF FilesInv
  <1>2. OpenCounts(disk, segs, Sent)
    BY Zenon DEF CountInv
  <1>3. Follow(segs)
    BY <1>2, Zenon DEF OpenCounts
  <1> QED BY <1>1, <1>2, <1>3, Zenon DEF HoldInv

\* No two segments have the same base.
LEMMA BasesDiffer ==
    ASSUME NEW d, NEW s, NEW sx, NEW ss, OpenLog(d, s), Follow(s), OpenHolds(d, s, sx, ss),
           NEW i \in 1..Len(s), NEW j \in 1..Len(s), i # j
    PROVE  s[i].base # s[j].base
  <1>1. ASSUME NEW k \in 1..Len(s), NEW l \in 1..Len(s), k < l
        PROVE  s[k].base # s[l].base
    <2>1. PICK b, n, c : b = s[k].base /\ n = s[k].next /\ c = s[l].base
      OBVIOUS
    <2>2. b \in Nat /\ n \in Nat /\ c \in Nat
      BY <2>1, SegmentNumbers, Zenon
    <2>3. Len(s) \in Nat
      BY OpenHasFiles
    <2>4. k < Len(s)
      BY <1>1, <2>3
    <2>5. b < n
      BY <2>1, <2>4, Zenon DEF OpenHolds, HoldsOf
    <2>6. n <= c
      BY <1>1, <2>1, Zenon DEF Follow
    <2>7. b # c
      BY <2>2, <2>5, <2>6
    <2> QED BY <2>1, <2>7, Zenon
  <1>2. i < j \/ j < i
    OBVIOUS
  <1> QED BY <1>1, <1>2, Zenon

\* Two logs whose segments hold the same, in the files or in the buffers.
Alike(d, s, sx, ss, e, t, tx, ts) ==
    /\ Len(t) = Len(s)
    /\ \A j \in 1..Len(s) : /\ t[j].base = s[j].base /\ t[j].next = s[j].next
                            /\ t[j].size = s[j].size
                            /\ StoreOf(e, t, ts, j) = StoreOf(d, s, ss, j)
                            /\ IndexOf(e, t, tx, j) = IndexOf(d, s, sx, j)
                            /\ e[s[j].base].linked = d[s[j].base].linked

\* They hold the same records.
LEMMA AlikeHolds ==
    ASSUME NEW d, NEW s, NEW sx, NEW ss, NEW e, NEW t, NEW tx, NEW ts,
           OpenHolds(d, s, sx, ss), Alike(d, s, sx, ss, e, t, tx, ts)
    PROVE  OpenHolds(e, t, tx, ts)
  <1>1. Len(t) = Len(s)
    BY Zenon DEF Alike
  <1>2. ASSUME NEW j \in 1..Len(s) PROVE HoldsOf(e, t, tx, ts, j)
    <2>1. /\ t[j].base = s[j].base /\ t[j].next = s[j].next /\ t[j].size = s[j].size
          /\ StoreOf(e, t, ts, j) = StoreOf(d, s, ss, j)
          /\ IndexOf(e, t, tx, j) = IndexOf(d, s, sx, j)
          /\ e[s[j].base].linked = d[s[j].base].linked
      BY Zenon DEF Alike
    <2>2. HoldsOf(d, s, sx, ss, j)
      BY Zenon DEF OpenHolds
    <2>3. Holds(StoreOf(d, s, ss, j), IndexOf(d, s, sx, j), s[j].base, s[j].next)
          /\ s[j].size = Len(StoreOf(d, s, ss, j)) /\ d[s[j].base].linked
          /\ (j < Len(s) => s[j].base < s[j].next)
      BY <2>2, Zenon DEF HoldsOf
    <2>4. Holds(StoreOf(e, t, ts, j), IndexOf(e, t, tx, j), t[j].base, t[j].next)
      BY <2>1, <2>3, Zenon
    <2>5. t[j].size = Len(StoreOf(e, t, ts, j))
      BY <2>1, <2>3, Zenon
    <2>6. e[t[j].base].linked
      BY <2>1, <2>3, Zenon
    <2>7. j < Len(t) => t[j].base < t[j].next
      BY <1>1, <2>1, <2>3, Zenon
    <2> QED BY <2>4, <2>5, <2>6, <2>7, Zenon DEF HoldsOf
  <1> QED BY <1>1, <1>2, Zenon DEF OpenHolds

\* They cover the same offsets.
LEMMA AlikeCovers ==
    ASSUME NEW d, NEW s, NEW sx, NEW ss, NEW e, NEW t, NEW tx, NEW ts, NEW gone, NEW n,
           Covers(s, gone, n), Alike(d, s, sx, ss, e, t, tx, ts)
    PROVE  Covers(t, gone, n)
  <1>1. Len(t) = Len(s) /\ \A j \in 1..Len(s) : t[j].base = s[j].base /\ t[j].next = s[j].next
    BY Zenon DEF Alike
  <1>2. ASSUME NEW offset \in 0..(n - 1)
        PROVE  offset \in gone \/ \E i \in 1..Len(t) : offset \in t[i].base..(t[i].next - 1)
    <2>1. CASE offset \in gone
      BY <2>1, Zenon
    <2>2. CASE offset \notin gone
      <3>1. PICK i \in 1..Len(s) : offset \in s[i].base..(s[i].next - 1)
        BY <2>2, Zenon DEF Covers
      <3>2. t[i].base = s[i].base /\ t[i].next = s[i].next /\ i \in 1..Len(t)
        BY <1>1, Zenon
      <3>3. offset \in t[i].base..(t[i].next - 1)
        BY <3>1, <3>2, Zenon
      <3> QED BY <3>2, <3>3, Zenon
    <2> QED BY <2>1, <2>2
  <1> QED BY <1>2, Zenon DEF Covers

\* A step to a log that holds the same keeps HoldInv.
LEMMA HoldFrame ==
    ASSUME FilesInv, FilesInv', CountInv, HoldInv, pc # "down", pc' # "down",
           UNCHANGED <<applied, deleted, unclean>>,
           ~unclean => /\ Alike(disk, segs, Sent, StoreSent, disk', segs', Sent', StoreSent')
                       /\ pc' = "close" => Flushing(segs', todo')
                       /\ pc' # "late"
    PROVE  HoldInv'
  <1> SUFFICES ASSUME ~unclean
               PROVE  /\ OpenHolds(disk', segs', Sent', StoreSent')
                      /\ segs'[Len(segs')].next = applied'
                      /\ Covers(segs', deleted', applied')
                      /\ pc' = "close" => Flushing(segs', todo')
                      /\ pc' # "late"
    BY Zenon DEF HoldInv
  <1>1. Alike(disk, segs, Sent, StoreSent, disk', segs', Sent', StoreSent')
    OBVIOUS
  <1>2. OpenLog(disk, segs) /\ OpenHolds(disk, segs, Sent, StoreSent)
        /\ segs[Len(segs)].next = applied /\ Covers(segs, deleted, applied)
    BY HoldParts, Zenon
  <1>3. OpenHolds(disk', segs', Sent', StoreSent')
    BY <1>1, <1>2, AlikeHolds, Zenon
  <1>4. Covers(segs', deleted, applied)
    BY <1>1, <1>2, AlikeCovers, Zenon
  <1>5. segs'[Len(segs')].next = applied
    <2>1. Len(segs) \in 1..Len(segs)
      <3>1. Len(segs) \in Nat /\ Len(segs) > 0
        BY <1>2, OpenHasFiles, Zenon
      <3> QED BY <3>1
    <2> QED BY <1>1, <1>2, <2>1, Zenon DEF Alike
  <1>6. applied' = applied /\ deleted' = deleted
    OBVIOUS
  <1> QED BY <1>3, <1>4, <1>5, <1>6, Zenon

\* What flushes of the buffers of segment i write.
LEMMA SendsAre ==
    ASSUME OpenLog(disk, segs), NEW i \in 1..Len(segs), NEW b, b = segs[i].base
    PROVE  /\ \A c \in DOMAIN disk : c # b => SendStore(i)[c] = disk[c] /\ SendIndex(i)[c] = disk[c]
           /\ SendStore(i)[b].store = disk[b].store \o segs[i].sbuf
           /\ SendStore(i)[b].index = disk[b].index
           /\ SendStore(i)[b].linked = disk[b].linked
           /\ SendIndex(i)[b].index = disk[b].index \o segs[i].ibuf
           /\ SendIndex(i)[b].store = disk[b].store
           /\ SendIndex(i)[b].linked = disk[b].linked
  <1>1. b \in DOMAIN disk /\ segs[i] \in Segment
    BY SegmentsAre, Zenon
  <1>2. disk \in [DOMAIN disk -> File]
    BY Zenon DEF OpenLog, Files
  <1>3. PICK f, u, x : f = disk[b] /\ u = segs[i].sbuf /\ x = segs[i].ibuf
    OBVIOUS
  <1>4. f \in File
    BY <1>1, <1>2, <1>3, Zenon
  <1>5. PICK g, h : /\ g = [f EXCEPT !.store = f.store \o u]
                    /\ h = [f EXCEPT !.index = f.index \o x]
    OBVIOUS
  <1>6. g.store = f.store \o u /\ g.index = f.index /\ g.linked = f.linked
    BY <1>4, <1>5 DEF File
  <1>7. h.index = f.index \o x /\ h.store = f.store /\ h.linked = f.linked
    BY <1>4, <1>5 DEF File
  <1>8. PICK d, e : d = [disk EXCEPT ![b] = g] /\ e = [disk EXCEPT ![b] = h]
    OBVIOUS
  <1>9. SendStore(i) = d
    BY <1>1, <1>2, <1>3, <1>5, <1>8 DEF SendStore
  <1>10. SendIndex(i) = e
    BY <1>1, <1>2, <1>3, <1>5, <1>8 DEF SendIndex
  <1>11. /\ d[b] = g /\ e[b] = h
         /\ \A c \in DOMAIN disk : c # b => d[c] = disk[c] /\ e[c] = disk[c]
    BY <1>1, <1>2, <1>8
  <1> QED BY <1>3, <1>6, <1>7, <1>9, <1>10, <1>11, Zenon

\* What emptying the buffers of segment i leaves.
LEMMA EmptiesAre ==
    ASSUME OpenLog(disk, segs), NEW i \in 1..Len(segs), NEW t, NEW u,
           t = [segs EXCEPT ![i].ibuf = <<>>], u = [segs EXCEPT ![i].sbuf = <<>>]
    PROVE  /\ Len(t) = Len(segs) /\ Len(u) = Len(segs)
           /\ \A j \in 1..Len(segs) : j # i => t[j] = segs[j] /\ u[j] = segs[j]
           /\ t[i].ibuf = <<>> /\ t[i].sbuf = segs[i].sbuf
           /\ u[i].sbuf = <<>> /\ u[i].ibuf = segs[i].ibuf
           /\ t[i].base = segs[i].base /\ t[i].next = segs[i].next /\ t[i].size = segs[i].size
           /\ u[i].base = segs[i].base /\ u[i].next = segs[i].next /\ u[i].size = segs[i].size
  <1>1. segs \in Seq(Segment) /\ segs[i] \in Segment
    BY SegmentsAre, Zenon
  <1>2. PICK f, g, h : f = segs[i] /\ g = [f EXCEPT !.ibuf = <<>>] /\ h = [f EXCEPT !.sbuf = <<>>]
    OBVIOUS
  <1>3. f \in Segment
    BY <1>1, <1>2, Zenon
  <1>4. g.ibuf = <<>> /\ g.sbuf = f.sbuf /\ g.base = f.base /\ g.next = f.next /\ g.size = f.size
    BY <1>2, <1>3 DEF Segment
  <1>5. h.sbuf = <<>> /\ h.ibuf = f.ibuf /\ h.base = f.base /\ h.next = f.next /\ h.size = f.size
    BY <1>2, <1>3 DEF Segment
  <1>6. t = [segs EXCEPT ![i] = g] /\ u = [segs EXCEPT ![i] = h]
    BY <1>1, <1>2
  <1>7. /\ Len(t) = Len(segs) /\ Len(u) = Len(segs) /\ t[i] = g /\ u[i] = h
        /\ \A j \in 1..Len(segs) : j # i => t[j] = segs[j] /\ u[j] = segs[j]
    BY <1>1, <1>6
  <1> QED BY <1>2, <1>4, <1>5, <1>7, Zenon

\* What the files and the buffers of a segment hold when nobody reads.
LEMMA ContentsUnsent ==
    ASSUME NEW d, NEW s, NEW j
    PROVE  /\ StoreOf(d, s, {}, j) = d[s[j].base].store \o s[j].sbuf
           /\ IndexOf(d, s, {}, j) = d[s[j].base].index \o s[j].ibuf
  BY Zenon DEF StoreOf, IndexOf

\* The files and buffers of segments are sequences.
LEMMA ContentsAreSeqs ==
    ASSUME NEW d, NEW s, OpenLog(d, s), NEW i \in 1..Len(s)
    PROVE  /\ d[s[i].base].store \in Seq(Word) /\ s[i].sbuf \in Seq(Word)
           /\ d[s[i].base].index \in Seq(Nat) /\ s[i].ibuf \in Seq(Nat)
           /\ d[s[i].base] \in File /\ s[i].base \in DOMAIN d
  <1>1. PICK b, g : b = s[i].base /\ g = s[i]
    OBVIOUS
  <1>2. b \in DOMAIN d
    BY <1>1, SegmentNumbers, Zenon
  <1>3. d \in [DOMAIN d -> File] /\ s \in Seq(Segment)
    BY Zenon DEF OpenLog, Files, Segments
  <1>4. d[b] \in File
    BY <1>2, <1>3, Zenon
  <1>5. g \in Segment
    BY <1>1, <1>3
  <1> QED BY <1>1, <1>2, <1>4, <1>5, FileParts, SegmentParts, Zenon

\* The log that is left when what one segment has in a buffer went to its file.
Moved(d, s, sx, ss, e, t, tx, ts, i) ==
    /\ \A c \in DOMAIN d : c # s[i].base => e[c] = d[c]
    /\ e[s[i].base].linked = d[s[i].base].linked
    /\ Len(t) = Len(s)
    /\ \A j \in 1..Len(s) : j # i => t[j] = s[j] /\ (j \in tx <=> j \in sx) /\ (j \in ts <=> j \in ss)
    /\ t[i].base = s[i].base /\ t[i].next = s[i].next /\ t[i].size = s[i].size
    /\ StoreOf(e, t, ts, i) = StoreOf(d, s, ss, i)
    /\ IndexOf(e, t, tx, i) = IndexOf(d, s, sx, i)

\* It holds the same.
LEMMA MovedIsAlike ==
    ASSUME NEW d, NEW s, NEW sx, NEW ss, NEW e, NEW t, NEW tx, NEW ts, NEW i \in 1..Len(s),
           OpenLog(d, s), Follow(s), OpenHolds(d, s, sx, ss), Moved(d, s, sx, ss, e, t, tx, ts, i)
    PROVE  Alike(d, s, sx, ss, e, t, tx, ts)
  <1>1. Len(t) = Len(s)
    BY Zenon DEF Moved
  <1>2. ASSUME NEW j \in 1..Len(s)
        PROVE  /\ t[j].base = s[j].base /\ t[j].next = s[j].next /\ t[j].size = s[j].size
               /\ StoreOf(e, t, ts, j) = StoreOf(d, s, ss, j)
               /\ IndexOf(e, t, tx, j) = IndexOf(d, s, sx, j)
               /\ e[s[j].base].linked = d[s[j].base].linked
    <2>1. CASE j = i
      BY <2>1, Zenon DEF Moved
    <2>2. CASE j # i
      <3>1. t[j] = s[j] /\ (j \in tx <=> j \in sx) /\ (j \in ts <=> j \in ss)
        BY <2>2, Zenon DEF Moved
      <3>2. s[j].base # s[i].base
        BY <2>2, BasesDiffer, Zenon
      <3>3. s[j].base \in DOMAIN d
        BY ContentsAreSeqs, Zenon
      <3>4. e[s[j].base] = d[s[j].base]
        BY <3>2, <3>3, Zenon DEF Moved
      <3>5. StoreOf(e, t, ts, j) = StoreOf(d, s, ss, j)
        <4>1. CASE j \in ss
          BY <3>1, <3>4, <4>1, Zenon DEF StoreOf
        <4>2. CASE j \notin ss
          BY <3>1, <3>4, <4>2, Zenon DEF StoreOf
        <4> QED BY <4>1, <4>2
      <3>6. IndexOf(e, t, tx, j) = IndexOf(d, s, sx, j)
        <4>1. CASE j \in sx
          BY <3>1, <3>4, <4>1, Zenon DEF IndexOf
        <4>2. CASE j \notin sx
          BY <3>1, <3>4, <4>2, Zenon DEF IndexOf
        <4> QED BY <4>1, <4>2
      <3> QED BY <3>1, <3>4, <3>5, <3>6, Zenon
    <2> QED BY <2>1, <2>2
  <1> QED BY <1>1, <1>2, Zenon DEF Alike

\* Which buffers are on their way, with one reader.
LEMMA ReaderSent ==
    ASSUME OneReader, NEW r \in Reader, NEW k
    PROVE  /\ k \in Sent <=> k \in 1..Len(segs) /\ reading[r].at = "indexSent" /\ reading[r].seg = k
           /\ k \in StoreSent <=>
                 k \in 1..Len(segs) /\ reading[r].at = "storeSent" /\ reading[r].seg = k
           /\ k \in Sent' <=> k \in 1..Len(segs') /\ reading'[r].at = "indexSent" /\ reading'[r].seg = k
           /\ k \in StoreSent' <=>
                 k \in 1..Len(segs') /\ reading'[r].at = "storeSent" /\ reading'[r].seg = k
  <1>1. \A q \in Reader : q = r
    BY Zenon DEF OneReader
  <1> QED BY <1>1, Zenon DEF Sent, StoreSent

\* Nobody reads before or after a step that leaves the readers alone.
LEMMA StillNothingSent ==
    ASSUME NoReader, reading' = reading
    PROVE  Sent = {} /\ StoreSent = {} /\ Sent' = {} /\ StoreSent' = {}
  <1>1. \A r \in Reader : reading[r].at = "idle" /\ reading'[r].at = "idle"
    BY Zenon DEF NoReader
  <1> QED BY <1>1 DEF Sent, StoreSent

\* A buffer that went to its file.
LEMMA SentBuffer ==
    ASSUME NEW T, NEW file \in Seq(T), NEW buf \in Seq(T)
    PROVE  (file \o buf) \o <<>> = file \o buf
  <1>1. file \o buf \in Seq(T)
    BY ConcatProperties, Zenon
  <1> QED BY <1>1, ConcatEmptySeq, Zenon

\* Expire, flush, close, FlushDone and ReadBegin change no file and no segment
\* that matters.
LEMMA SameIsAlike ==
    ASSUME OpenLog(disk, segs), Sent' = Sent, StoreSent' = StoreSent, segs' = segs,
           \A b \in DOMAIN disk : /\ disk'[b].store = disk[b].store /\ disk'[b].index = disk[b].index
                                  /\ disk'[b].linked = disk[b].linked
    PROVE  Alike(disk, segs, Sent, StoreSent, disk', segs', Sent', StoreSent')
  <1>1. ASSUME NEW j \in 1..Len(segs)
        PROVE  /\ StoreOf(disk', segs, StoreSent, j) = StoreOf(disk, segs, StoreSent, j)
               /\ IndexOf(disk', segs, Sent, j) = IndexOf(disk, segs, Sent, j)
               /\ disk'[segs[j].base].linked = disk[segs[j].base].linked
    <2>1. segs[j].base \in DOMAIN disk
      BY ContentsAreSeqs, Zenon
    <2> QED BY <2>1, Zenon DEF StoreOf, IndexOf
  <1> QED BY <1>1, Zenon DEF Alike

\* The end of wal.flush, and its beginning, change no file and no segment.
LEMMA flushHolds ==
    ASSUME FilesInv, FilesInv', CountInv, HoldInv, flush \/ FlushDone
    PROVE  HoldInv'
  <1>1. /\ pc # "down" /\ pc' # "down" /\ pc' # "close" /\ pc' # "late"
        /\ UNCHANGED <<disk, segs, applied, deleted, unclean, reading>>
    BY DEF flush, FlushDone
  <1>2. Sent' = Sent /\ StoreSent' = StoreSent
    BY <1>1, Zenon DEF Sent, StoreSent
  <1>3. OpenLog(disk, segs)
    BY <1>1, Zenon DEF FilesInv
  <1>4. Alike(disk, segs, Sent, StoreSent, disk', segs', Sent', StoreSent')
    BY <1>1, <1>2, <1>3, SameIsAlike, Zenon
  <1> QED BY <1>1, <1>4, HoldFrame, Zenon

\* A reader that begins has sent nothing yet.
LEMMA ReadBeginHolds ==
    ASSUME OneReader, FilesInv, FilesInv', CountInv, HoldInv, NEW r \in Reader, NEW offset,
           ReadBegin(r, offset)
    PROVE  HoldInv'
  <1>1. /\ pc = "up" /\ pc' = "up" /\ reading[r].at = "idle"
        /\ UNCHANGED <<disk, segs, applied, deleted, unclean>>
    BY Zenon DEF ReadBegin
  <1>2. reading'[r].at = "index"
    <2>1. PICK i : reading' = [reading EXCEPT ![r] = [at |-> "index", seg |-> i]]
      BY Zenon DEF ReadBegin
    <2>2. reading \in [Reader -> [at : Stage, seg : Nat]]
      BY Zenon DEF FilesInv, StagesOK
    <2> QED BY <2>1, <2>2
  <1>3. Sent' = Sent /\ StoreSent' = StoreSent
    <2>1. \A k : k \notin Sent /\ k \notin Sent' /\ k \notin StoreSent /\ k \notin StoreSent'
      BY <1>1, <1>2, ReaderSent, Zenon
    <2> QED BY <2>1, Zenon
  <1>4. OpenLog(disk, segs)
    BY <1>1, Zenon DEF FilesInv
  <1>5. Alike(disk, segs, Sent, StoreSent, disk', segs', Sent', StoreSent')
    BY <1>1, <1>3, <1>4, SameIsAlike, Zenon
  <1>6. pc # "down" /\ pc' # "down" /\ pc' # "close" /\ pc' # "late"
    BY <1>1
  <1> QED BY <1>1, <1>5, <1>6, HoldFrame, Zenon

\* What wal.close has to flush.
LEMMA CloseFlushesAll ==
    ASSUME FilesInv, close
    PROVE  Flushing(segs, todo')
  <1>1. OpenLog(disk, segs) /\ Len(segs) \in Nat /\ Len(segs) > 0
    BY OpenHasFiles DEF close, FilesInv
  <1>2. PICK fl, m : fl = FlushOf(Active) /\ m = 2 * Len(segs)
    OBVIOUS
  <1>3. fl \in Seq(Flush) /\ Len(fl) = 2
    BY <1>1, <1>2 DEF FlushOf, Active, Flush
  <1>4. PICK rest : rest = [k \in 1..m |-> FlushOf((k + 1) \div 2)[2 - (k % 2)]]
    OBVIOUS
  <1>5. m \in Nat
    BY <1>1, <1>2
  <1>6. \A i \in 1..Len(segs), j \in {1, 2} : FlushOf(i)[j] \in Flush
    BY <1>1 DEF FlushOf, Flush
  <1>7. \A k \in 1..m : (k + 1) \div 2 \in 1..Len(segs) /\ 2 - (k % 2) \in {1, 2}
    BY <1>1, <1>2
  <1>8. rest \in [1..m -> Flush]
    BY <1>4, <1>6, <1>7, Zenon
  <1>9. rest \in Seq(Flush) /\ Len(rest) = m
    BY <1>4, <1>5, <1>8
  <1>10. todo' = fl \o rest
    BY <1>2, <1>4, Zenon DEF close
  <1>11. Len(todo') = 2 + m /\ \A k \in 1..m : todo'[2 + k] = rest[k]
    <2>1. Len(fl \o rest) = Len(fl) + Len(rest)
      BY <1>3, <1>9, ConcatProperties, Zenon
    <2>0. fl \in Seq(Flush) /\ rest \in Seq(Flush)
      BY <1>3, <1>9, Zenon
    <2>2. \A k \in 1..Len(rest) : (fl \o rest)[Len(fl) + k] = rest[k]
      BY <2>0, BehindSeq, SMTT(30)
    <2> QED BY <1>3, <1>9, <1>10, <2>1, <2>2, Zenon
  <1>12. ASSUME NEW i \in 1..Len(segs)
         PROVE  /\ \E k \in 1..Len(todo') : todo'[k] = [seg |-> i, what |-> "index"]
                /\ \E k \in 1..Len(todo') : todo'[k] = [seg |-> i, what |-> "store"]
    <2>1. PICK k, l : k = 2 * i - 1 /\ l = 2 * i
      OBVIOUS
    <2>2. k \in 1..m /\ l \in 1..m
      BY <1>1, <1>2, <2>1
    <2>3. (k + 1) \div 2 = i /\ 2 - (k % 2) = 1 /\ (l + 1) \div 2 = i /\ 2 - (l % 2) = 2
      BY <2>1
    <2>4. rest[k] = FlushOf(i)[1] /\ rest[l] = FlushOf(i)[2]
      BY <1>4, <2>2, <2>3, Zenon
    <2>5. FlushOf(i)[1] = [seg |-> i, what |-> "index"] /\ FlushOf(i)[2] = [seg |-> i, what |-> "store"]
      BY DEF FlushOf
    <2>6. todo'[2 + k] = [seg |-> i, what |-> "index"] /\ todo'[2 + l] = [seg |-> i, what |-> "store"]
      BY <1>11, <2>2, <2>4, <2>5, Zenon
    <2>7. 2 + k \in 1..(2 + m) /\ 2 + l \in 1..(2 + m)
      BY <1>5, <2>2
    <2> QED BY <1>11, <2>6, <2>7, Zenon
  <1> QED BY <1>12, Zenon DEF Flushing

\* wal.close begins.
LEMMA closeHolds ==
    ASSUME FilesInv, FilesInv', CountInv, HoldInv, close
    PROVE  HoldInv'
  <1>1. /\ pc = "up" /\ pc' = "close"
        /\ UNCHANGED <<disk, segs, applied, deleted, unclean, reading>>
    BY Zenon DEF close
  <1>2. Sent' = Sent /\ StoreSent' = StoreSent
    BY <1>1, Zenon DEF Sent, StoreSent
  <1>3. OpenLog(disk, segs)
    BY <1>1, Zenon DEF FilesInv
  <1>4. Alike(disk, segs, Sent, StoreSent, disk', segs', Sent', StoreSent')
    BY <1>1, <1>2, <1>3, SameIsAlike, Zenon
  <1>5. Flushing(segs', todo')
    BY <1>1, CloseFlushesAll, Zenon
  <1>6. pc # "down" /\ pc' # "down" /\ pc' # "late"
    BY <1>1
  <1> QED BY <1>1, <1>4, <1>5, <1>6, HoldFrame, Zenon

\* One flush of a shutdown leaves the others to do.
LEMMA FlushingGoesOn ==
    ASSUME FilesInv, FlushStep, Flushing(segs, todo)
    PROVE  Flushing(segs', todo')
  <1>1. OpenLog(disk, segs)
    BY Zenon DEF FlushStep, FilesInv
  <1>2. todo \in Seq(Flush) /\ todo # <<>> /\ \A k \in 1..Len(todo) : todo[k].seg \in 1..Len(segs)
    BY DEF FlushStep, FilesInv, StagesOK
  <1>3. 1 \in 1..Len(todo) /\ Head(todo) = todo[1]
    BY <1>2
  <1>4. PICK i, w : i = Head(todo).seg /\ w = Head(todo).what
    OBVIOUS
  <1>5. i \in 1..Len(segs)
    BY <1>2, <1>3, <1>4, Zenon
  <1>6. PICK t, u : t = [segs EXCEPT ![i].ibuf = <<>>] /\ u = [segs EXCEPT ![i].sbuf = <<>>]
    OBVIOUS
  <1>7. /\ Len(t) = Len(segs) /\ Len(u) = Len(segs)
        /\ \A j \in 1..Len(segs) : j # i => t[j] = segs[j] /\ u[j] = segs[j]
        /\ t[i].ibuf = <<>> /\ t[i].sbuf = segs[i].sbuf
        /\ u[i].sbuf = <<>> /\ u[i].ibuf = segs[i].ibuf
    BY <1>1, <1>5, <1>6, EmptiesAre, SMTT(30)
  <1>8. IF w = "index" THEN segs' = t ELSE segs' = u
    <2>1. IF Head(todo).what = "index" THEN segs' = [segs EXCEPT ![Head(todo).seg].ibuf = <<>>]
          ELSE segs' = [segs EXCEPT ![Head(todo).seg].sbuf = <<>>]
      BY Zenon DEF FlushStep
    <2>2. Head(todo).what = w /\ Head(todo).seg = i
      BY <1>4
    <2>3. CASE w = "index"
      BY <1>6, <2>1, <2>2, <2>3
    <2>4. CASE w # "index"
      BY <1>6, <2>1, <2>2, <2>4
    <2> QED BY <2>3, <2>4
  <1>9. \A k \in 1..Len(todo) : k # 1 => \E l \in 1..Len(todo') : todo'[l] = todo[k]
    <2>1. todo' = Tail(todo)
      BY Zenon DEF FlushStep
    <2>2. Len(todo') = Len(todo) - 1 /\ \A l \in 1..Len(todo') : todo'[l] = todo[l + 1]
      BY <1>2, <2>1
    <2>3. ASSUME NEW k \in 1..Len(todo), k # 1
          PROVE  \E l \in 1..Len(todo') : todo'[l] = todo[k]
      <3>1. PICK n, l : n = Len(todo) /\ l = k - 1
        OBVIOUS
      <3>2. n \in Nat
        BY <1>2, <3>1
      <3>3. l \in 1..(n - 1) /\ l + 1 = k
        BY <2>3, <3>1, <3>2
      <3>4. todo'[l] = todo[k] /\ l \in 1..Len(todo')
        BY <2>2, <3>1, <3>3, Zenon
      <3> QED BY <3>4, Zenon
    <2> QED BY <2>3, Zenon
  <1>10. ASSUME NEW j \in 1..Len(segs)
         PROVE  segs'[j].ibuf = <<>> \/ \E k \in 1..Len(todo') : todo'[k] = [seg |-> j, what |-> "index"]
    <2>1. CASE segs[j].ibuf = <<>>
      <3>1. t[j].ibuf = <<>> /\ u[j].ibuf = <<>>
        BY <1>7, <2>1, Zenon
      <3> QED BY <1>8, <3>1, Zenon
    <2>2. CASE segs[j].ibuf # <<>>
      <3>1. PICK k \in 1..Len(todo) : todo[k] = [seg |-> j, what |-> "index"]
        BY <2>2, Zenon DEF Flushing
      <3>2. CASE k = 1
        <4>1. j = i /\ w = "index"
          BY <1>3, <1>4, <3>1, <3>2
        <4> QED BY <1>7, <1>8, <4>1, Zenon
      <3>3. CASE k # 1
        <4>1. PICK l \in 1..Len(todo') : todo'[l] = todo[k]
          BY <1>9, <3>3, Zenon
        <4> QED BY <3>1, <4>1, Zenon
      <3> QED BY <3>2, <3>3
    <2> QED BY <2>1, <2>2
  <1>11. ASSUME NEW j \in 1..Len(segs)
         PROVE  segs'[j].sbuf = <<>> \/ \E k \in 1..Len(todo') : todo'[k] = [seg |-> j, what |-> "store"]
    <2>1. CASE segs[j].sbuf = <<>>
      <3>1. t[j].sbuf = <<>> /\ u[j].sbuf = <<>>
        BY <1>7, <2>1, Zenon
      <3> QED BY <1>8, <3>1, Zenon
    <2>2. CASE segs[j].sbuf # <<>>
      <3>1. PICK k \in 1..Len(todo) : todo[k] = [seg |-> j, what |-> "store"]
        BY <2>2, Zenon DEF Flushing
      <3>2. CASE k = 1
        <4>1. j = i /\ w = "store"
          BY <1>3, <1>4, <3>1, <3>2
        <4>2. w # "index"
          BY <4>1
        <4> QED BY <1>7, <1>8, <4>1, <4>2, Zenon
      <3>3. CASE k # 1
        <4>1. PICK l \in 1..Len(todo') : todo'[l] = todo[k]
          BY <1>9, <3>3, Zenon
        <4> QED BY <3>1, <4>1, Zenon
      <3> QED BY <3>2, <3>3
    <2> QED BY <2>1, <2>2
  <1>12. Len(segs') = Len(segs)
    BY <1>7, <1>8, Zenon
  <1> QED BY <1>10, <1>11, <1>12, Zenon DEF Flushing

\* One flush of wal.flush or wal.close moves a buffer to its file.
LEMMA FlushStepHolds ==
    ASSUME FilesInv, FilesInv', CountInv, HoldInv, FlushStep
    PROVE  HoldInv'
  <1>1. /\ pc \in {"flush", "close"} /\ pc' = pc
        /\ UNCHANGED <<applied, deleted, unclean, reading>>
    BY Zenon DEF FlushStep
  <1>2. pc # "down" /\ pc' # "down" /\ pc' # "late" /\ pc # "up"
    BY <1>1
  <1>3. NoReader
    BY <1>2, Zenon DEF FilesInv, StagesOK
  <1>4. Sent = {} /\ StoreSent = {} /\ Sent' = {} /\ StoreSent' = {}
    BY <1>1, <1>3, StillNothingSent
  <1>5. ASSUME ~unclean
        PROVE  Alike(disk, segs, Sent, StoreSent, disk', segs', Sent', StoreSent')
    <2>1. OpenLog(disk, segs) /\ Follow(segs) /\ OpenHolds(disk, segs, Sent, StoreSent)
      BY <1>2, <1>5, HoldParts, Zenon
    <2>2. PICK i \in 1..Len(segs) : i = Head(todo).seg
      <3>1. todo \in Seq(Flush) /\ todo # <<>> /\ \A k \in 1..Len(todo) : todo[k].seg \in 1..Len(segs)
        BY DEF FlushStep, FilesInv, StagesOK
      <3>2. 1 \in 1..Len(todo) /\ Head(todo) = todo[1]
        BY <3>1
      <3> QED BY <3>1, <3>2, Zenon
    <2>3. PICK b, t, u : /\ b = segs[i].base
                         /\ t = [segs EXCEPT ![i].ibuf = <<>>] /\ u = [segs EXCEPT ![i].sbuf = <<>>]
      OBVIOUS
    <2>4. \/ disk' = SendIndex(i) /\ segs' = t
          \/ disk' = SendStore(i) /\ segs' = u
      BY <2>2, <2>3, Zenon DEF FlushStep
    <2>5. /\ \A c \in DOMAIN disk : c # b => SendStore(i)[c] = disk[c] /\ SendIndex(i)[c] = disk[c]
          /\ SendStore(i)[b].store = disk[b].store \o segs[i].sbuf
          /\ SendStore(i)[b].index = disk[b].index
          /\ SendStore(i)[b].linked = disk[b].linked
          /\ SendIndex(i)[b].index = disk[b].index \o segs[i].ibuf
          /\ SendIndex(i)[b].store = disk[b].store
          /\ SendIndex(i)[b].linked = disk[b].linked
      BY <2>1, <2>3, SendsAre, ZenonT(120)
    <2>6. /\ Len(t) = Len(segs) /\ Len(u) = Len(segs)
          /\ \A j \in 1..Len(segs) : j # i => t[j] = segs[j] /\ u[j] = segs[j]
          /\ t[i].ibuf = <<>> /\ t[i].sbuf = segs[i].sbuf
          /\ u[i].sbuf = <<>> /\ u[i].ibuf = segs[i].ibuf
          /\ t[i].base = segs[i].base /\ t[i].next = segs[i].next /\ t[i].size = segs[i].size
          /\ u[i].base = segs[i].base /\ u[i].next = segs[i].next /\ u[i].size = segs[i].size
      BY <2>1, <2>3, EmptiesAre, SMTT(30)
    <2>7. /\ disk[b].store \in Seq(Word) /\ segs[i].sbuf \in Seq(Word)
          /\ disk[b].index \in Seq(Nat) /\ segs[i].ibuf \in Seq(Nat)
      BY <2>1, <2>3, ContentsAreSeqs, Zenon
    <2>8. /\ (disk[b].store \o segs[i].sbuf) \o <<>> = disk[b].store \o segs[i].sbuf
          /\ (disk[b].index \o segs[i].ibuf) \o <<>> = disk[b].index \o segs[i].ibuf
      BY <2>7, SentBuffer, Zenon
    <2>10. /\ StoreOf(disk, segs, {}, i) = disk[b].store \o segs[i].sbuf
           /\ IndexOf(disk, segs, {}, i) = disk[b].index \o segs[i].ibuf
      BY <2>3, ContentsUnsent, Zenon
    <2>11. CASE disk' = SendIndex(i) /\ segs' = t
      <3>1. /\ StoreOf(SendIndex(i), t, {}, i) = SendIndex(i)[t[i].base].store \o t[i].sbuf
            /\ IndexOf(SendIndex(i), t, {}, i) = SendIndex(i)[t[i].base].index \o t[i].ibuf
        BY ContentsUnsent, Zenon
      <3>2. /\ SendIndex(i)[t[i].base].store \o t[i].sbuf = disk[b].store \o segs[i].sbuf
            /\ SendIndex(i)[t[i].base].index \o t[i].ibuf = (disk[b].index \o segs[i].ibuf) \o <<>>
        BY <2>3, <2>5, <2>6, Zenon
      <3>3. /\ StoreOf(SendIndex(i), t, {}, i) = StoreOf(disk, segs, {}, i)
            /\ IndexOf(SendIndex(i), t, {}, i) = IndexOf(disk, segs, {}, i)
        <4>1. StoreOf(SendIndex(i), t, {}, i) = StoreOf(disk, segs, {}, i)
          BY <2>8, <2>10, <3>1, <3>2, Zenon
        <4>2. IndexOf(SendIndex(i), t, {}, i) = IndexOf(disk, segs, {}, i)
          BY <2>8, <2>10, <3>1, <3>2, Zenon
        <4> QED BY <4>1, <4>2, Zenon
      <3>4. Moved(disk, segs, {}, {}, SendIndex(i), t, {}, {}, i)
        BY <2>3, <2>5, <2>6, <3>3, Zenon DEF Moved
      <3> QED BY <1>4, <2>1, <2>11, <3>4, MovedIsAlike, Zenon
    <2>12. CASE disk' = SendStore(i) /\ segs' = u
      <3>1. /\ StoreOf(SendStore(i), u, {}, i) = SendStore(i)[u[i].base].store \o u[i].sbuf
            /\ IndexOf(SendStore(i), u, {}, i) = SendStore(i)[u[i].base].index \o u[i].ibuf
        BY ContentsUnsent, Zenon
      <3>2. /\ SendStore(i)[u[i].base].store \o u[i].sbuf = (disk[b].store \o segs[i].sbuf) \o <<>>
            /\ SendStore(i)[u[i].base].index \o u[i].ibuf = disk[b].index \o segs[i].ibuf
        BY <2>3, <2>5, <2>6, Zenon
      <3>3. /\ StoreOf(SendStore(i), u, {}, i) = StoreOf(disk, segs, {}, i)
            /\ IndexOf(SendStore(i), u, {}, i) = IndexOf(disk, segs, {}, i)
        <4>1. StoreOf(SendStore(i), u, {}, i) = StoreOf(disk, segs, {}, i)
          BY <2>8, <2>10, <3>1, <3>2, Zenon
        <4>2. IndexOf(SendStore(i), u, {}, i) = IndexOf(disk, segs, {}, i)
          BY <2>8, <2>10, <3>1, <3>2, Zenon
        <4> QED BY <4>1, <4>2, Zenon
      <3>4. Moved(disk, segs, {}, {}, SendStore(i), u, {}, {}, i)
        BY <2>3, <2>5, <2>6, <3>3, Zenon DEF Moved
      <3> QED BY <1>4, <2>1, <2>12, <3>4, MovedIsAlike, Zenon
    <2> QED BY <2>4, <2>11, <2>12
  <1>6. ~unclean => (pc' = "close" => Flushing(segs', todo'))
    BY <1>1, <1>2, HoldParts, FlushingGoesOn, Zenon
  <1> QED BY <1>1, <1>2, <1>5, <1>6, HoldFrame, Zenon

\* Where a reader in wal.read is, before and after its next step.
LEMMA ReaderMoves ==
    ASSUME FilesInv, NEW r \in Reader, NEW st, reading[r].at # "idle",
           \/ reading' = [reading EXCEPT ![r].at = st] /\ st \in Stage
           \/ reading' = [reading EXCEPT ![r] = [at |-> "idle", seg |-> 0]] /\ st = "idle"
    PROVE  /\ reading[r].seg \in 1..Len(segs) /\ pc = "up"
           /\ reading'[r].at = st /\ (st # "idle" => reading'[r].seg = reading[r].seg)
  <1>1. reading \in [Reader -> [at : Stage, seg : Nat]]
    BY Zenon DEF FilesInv, StagesOK
  <1>2. reading[r].seg \in 1..Len(segs)
    BY Zenon DEF FilesInv, StagesOK
  <1>3. pc = "up"
    BY Zenon DEF FilesInv, StagesOK, NoReader
  <1>4. reading'[r].at = st /\ (st # "idle" => reading'[r].seg = reading[r].seg)
    BY <1>1
  <1> QED BY <1>2, <1>3, <1>4

\* A reader's step that leaves what its segment holds keeps HoldInv.
LEMMA ReaderFrame ==
    ASSUME FilesInv, FilesInv', CountInv, HoldInv, pc = "up", pc' = "up",
           UNCHANGED <<applied, deleted, unclean>>, NEW i \in 1..Len(segs),
           ~unclean => Moved(disk, segs, Sent, StoreSent, disk', segs', Sent', StoreSent', i)
    PROVE  HoldInv'
  <1>1. pc # "down" /\ pc' # "down" /\ pc' # "close" /\ pc' # "late"
    OBVIOUS
  <1>2. ASSUME ~unclean
        PROVE  Alike(disk, segs, Sent, StoreSent, disk', segs', Sent', StoreSent')
    <2>1. OpenLog(disk, segs) /\ Follow(segs) /\ OpenHolds(disk, segs, Sent, StoreSent)
      BY <1>1, <1>2, HoldParts, Zenon
    <2> QED BY <1>2, <2>1, MovedIsAlike, Zenon
  <1> QED BY <1>1, <1>2, HoldFrame, Zenon

\* index.Read writes the index buffer to its file.
LEMMA ReadWritesIndexHolds ==
    ASSUME OneReader, FilesInv, FilesInv', CountInv, HoldInv, NEW r \in Reader, ReadWritesIndex(r)
    PROVE  HoldInv'
  <1>1. /\ reading[r].at = "index" /\ disk' = SendIndex(reading[r].seg)
        /\ reading' = [reading EXCEPT ![r].at = "indexSent"]
        /\ UNCHANGED <<segs, applied, deleted, unclean, pc>>
    BY Zenon DEF ReadWritesIndex
  <1>2. PICK i, b : i = reading[r].seg /\ b = segs[i].base
    OBVIOUS
  <1>3. i \in 1..Len(segs) /\ pc = "up" /\ reading'[r].at = "indexSent" /\ reading'[r].seg = i
    <2>1. reading[r].at # "idle" /\ "indexSent" \in Stage /\ "indexSent" # "idle"
      BY <1>1 DEF Stage
    <2> QED BY <1>1, <1>2, <2>1, ReaderMoves, Zenon
  <1>4. /\ i \notin Sent /\ i \in Sent' /\ i \notin StoreSent /\ i \notin StoreSent'
        /\ \A j \in 1..Len(segs) : j # i => j \notin Sent /\ j \notin Sent'
        /\ \A j \in 1..Len(segs) : j \notin StoreSent /\ j \notin StoreSent'
    BY <1>1, <1>2, <1>3, ReaderSent, Zenon
  <1>5. OpenLog(disk, segs)
    BY <1>3, Zenon DEF FilesInv
  <1>6. /\ \A c \in DOMAIN disk : c # b => SendIndex(i)[c] = disk[c]
        /\ SendIndex(i)[b].index = disk[b].index \o segs[i].ibuf
        /\ SendIndex(i)[b].store = disk[b].store
        /\ SendIndex(i)[b].linked = disk[b].linked
    BY <1>2, <1>3, <1>5, SendsAre, ZenonT(120)
  <1>7. disk[b].index \in Seq(Nat) /\ segs[i].ibuf \in Seq(Nat)
    BY <1>2, <1>3, <1>5, ContentsAreSeqs, Zenon
  <1>8. (disk[b].index \o segs[i].ibuf) \o <<>> = disk[b].index \o segs[i].ibuf
    BY <1>7, SentBuffer, Zenon
  <1>9. StoreOf(SendIndex(i), segs, StoreSent', i) = StoreOf(disk, segs, StoreSent, i)
    <2>1. StoreOf(disk, segs, StoreSent, i) = disk[b].store \o segs[i].sbuf
      BY <1>2, <1>4, Zenon DEF StoreOf, IndexOf
    <2>2. StoreOf(SendIndex(i), segs, StoreSent', i) = SendIndex(i)[b].store \o segs[i].sbuf
      BY <1>2, <1>4, Zenon DEF StoreOf, IndexOf
    <2> QED BY <1>6, <2>1, <2>2, Zenon
  <1>10. IndexOf(SendIndex(i), segs, Sent', i) = IndexOf(disk, segs, Sent, i)
    <2>1. IndexOf(disk, segs, Sent, i) = disk[b].index \o segs[i].ibuf
      BY <1>2, <1>4, Zenon DEF StoreOf, IndexOf
    <2>2. IndexOf(SendIndex(i), segs, Sent', i) = SendIndex(i)[b].index \o <<>>
      BY <1>2, <1>4, Zenon DEF StoreOf, IndexOf
    <2> QED BY <1>6, <1>8, <2>1, <2>2, Zenon
  <1>11. disk' = SendIndex(i) /\ segs' = segs /\ pc' = "up"
    BY <1>1, <1>2, <1>3, Zenon
  <1>12. Moved(disk, segs, Sent, StoreSent, disk', segs', Sent', StoreSent', i)
    BY <1>2, <1>4, <1>6, <1>9, <1>10, <1>11, Zenon DEF Moved
  <1> QED BY <1>1, <1>3, <1>11, <1>12, ReaderFrame, Zenon

\* logStore.Read writes the store buffer to its file.
LEMMA ReadWritesStoreHolds ==
    ASSUME OneReader, FilesInv, FilesInv', CountInv, HoldInv, NEW r \in Reader, ReadWritesStore(r)
    PROVE  HoldInv'
  <1>1. /\ reading[r].at = "store" /\ disk' = SendStore(reading[r].seg)
        /\ reading' = [reading EXCEPT ![r].at = "storeSent"]
        /\ UNCHANGED <<segs, applied, deleted, unclean, pc>>
    BY Zenon DEF ReadWritesStore
  <1>2. PICK i, b : i = reading[r].seg /\ b = segs[i].base
    OBVIOUS
  <1>3. i \in 1..Len(segs) /\ pc = "up" /\ reading'[r].at = "storeSent" /\ reading'[r].seg = i
    <2>1. reading[r].at # "idle" /\ "storeSent" \in Stage /\ "storeSent" # "idle"
      BY <1>1 DEF Stage
    <2> QED BY <1>1, <1>2, <2>1, ReaderMoves, Zenon
  <1>4. /\ i \notin StoreSent /\ i \in StoreSent' /\ i \notin Sent /\ i \notin Sent'
        /\ \A j \in 1..Len(segs) : j # i => j \notin StoreSent /\ j \notin StoreSent'
        /\ \A j \in 1..Len(segs) : j \notin Sent /\ j \notin Sent'
    BY <1>1, <1>2, <1>3, ReaderSent, Zenon
  <1>5. OpenLog(disk, segs)
    BY <1>3, Zenon DEF FilesInv
  <1>6. /\ \A c \in DOMAIN disk : c # b => SendStore(i)[c] = disk[c]
        /\ SendStore(i)[b].store = disk[b].store \o segs[i].sbuf
        /\ SendStore(i)[b].index = disk[b].index
        /\ SendStore(i)[b].linked = disk[b].linked
    BY <1>2, <1>3, <1>5, SendsAre, ZenonT(120)
  <1>7. disk[b].store \in Seq(Word) /\ segs[i].sbuf \in Seq(Word)
    BY <1>2, <1>3, <1>5, ContentsAreSeqs, Zenon
  <1>8. (disk[b].store \o segs[i].sbuf) \o <<>> = disk[b].store \o segs[i].sbuf
    BY <1>7, SentBuffer, Zenon
  <1>9. IndexOf(SendStore(i), segs, Sent', i) = IndexOf(disk, segs, Sent, i)
    <2>1. IndexOf(disk, segs, Sent, i) = disk[b].index \o segs[i].ibuf
      BY <1>2, <1>4, Zenon DEF StoreOf, IndexOf
    <2>2. IndexOf(SendStore(i), segs, Sent', i) = SendStore(i)[b].index \o segs[i].ibuf
      BY <1>2, <1>4, Zenon DEF StoreOf, IndexOf
    <2> QED BY <1>6, <2>1, <2>2, Zenon
  <1>10. StoreOf(SendStore(i), segs, StoreSent', i) = StoreOf(disk, segs, StoreSent, i)
    <2>1. StoreOf(disk, segs, StoreSent, i) = disk[b].store \o segs[i].sbuf
      BY <1>2, <1>4, Zenon DEF StoreOf, IndexOf
    <2>2. StoreOf(SendStore(i), segs, StoreSent', i) = SendStore(i)[b].store \o <<>>
      BY <1>2, <1>4, Zenon DEF StoreOf, IndexOf
    <2> QED BY <1>6, <1>8, <2>1, <2>2, Zenon
  <1>11. disk' = SendStore(i) /\ segs' = segs /\ pc' = "up"
    BY <1>1, <1>2, <1>3, Zenon
  <1>12. Moved(disk, segs, Sent, StoreSent, disk', segs', Sent', StoreSent', i)
    BY <1>2, <1>4, <1>6, <1>9, <1>10, <1>11, Zenon DEF Moved
  <1> QED BY <1>1, <1>3, <1>11, <1>12, ReaderFrame, Zenon

\* index.Read empties the index buffer it has written.
LEMMA ReadEmptiesIndexHolds ==
    ASSUME OneReader, FilesInv, FilesInv', CountInv, HoldInv, NEW r \in Reader, ReadEmptiesIndex(r)
    PROVE  HoldInv'
  <1>1. /\ reading[r].at = "indexSent" /\ segs' = [segs EXCEPT ![reading[r].seg].ibuf = <<>>]
        /\ reading' = [reading EXCEPT ![r].at = "store"]
        /\ UNCHANGED <<disk, applied, deleted, unclean, pc>>
    BY Zenon DEF ReadEmptiesIndex
  <1>2. PICK i, b, t, u : /\ i = reading[r].seg /\ b = segs[i].base
                          /\ t = [segs EXCEPT ![i].ibuf = <<>>] /\ u = [segs EXCEPT ![i].sbuf = <<>>]
    OBVIOUS
  <1>3. i \in 1..Len(segs) /\ pc = "up" /\ reading'[r].at = "store" /\ reading'[r].seg = i
    <2>1. reading[r].at # "idle" /\ "store" \in Stage /\ "store" # "idle"
      BY <1>1 DEF Stage
    <2> QED BY <1>1, <1>2, <2>1, ReaderMoves, Zenon
  <1>4. /\ i \in Sent /\ i \notin Sent' /\ i \notin StoreSent /\ i \notin StoreSent'
        /\ \A j \in 1..Len(segs) : j # i => j \notin Sent /\ j \notin Sent'
        /\ \A j \in 1..Len(segs) : j \notin StoreSent /\ j \notin StoreSent'
    BY <1>1, <1>2, <1>3, ReaderSent, Zenon
  <1>5. OpenLog(disk, segs)
    BY <1>3, Zenon DEF FilesInv
  <1>6. /\ Len(t) = Len(segs)
        /\ \A j \in 1..Len(segs) : j # i => t[j] = segs[j]
        /\ t[i].ibuf = <<>> /\ t[i].sbuf = segs[i].sbuf
        /\ t[i].base = segs[i].base /\ t[i].next = segs[i].next /\ t[i].size = segs[i].size
    BY <1>2, <1>3, <1>5, EmptiesAre, SMTT(30)
  <1>7. StoreOf(disk, t, StoreSent', i) = StoreOf(disk, segs, StoreSent, i)
    BY <1>4, <1>6, Zenon DEF StoreOf
  <1>8. IndexOf(disk, t, Sent', i) = IndexOf(disk, segs, Sent, i)
    BY <1>4, <1>6, Zenon DEF IndexOf
  <1>9. segs' = t /\ disk' = disk /\ pc' = "up"
    BY <1>1, <1>2, <1>3
  <1>10. Moved(disk, segs, Sent, StoreSent, disk', segs', Sent', StoreSent', i)
    BY <1>4, <1>6, <1>7, <1>8, <1>9, Zenon DEF Moved
  <1> QED BY <1>1, <1>3, <1>9, <1>10, ReaderFrame, Zenon

\* logStore.Read empties the store buffer it has written, and the read ends.
LEMMA ReadEndHolds ==
    ASSUME OneReader, FilesInv, FilesInv', CountInv, HoldInv, NEW r \in Reader, ReadEnd(r)
    PROVE  HoldInv'
  <1>1. /\ reading[r].at = "storeSent" /\ segs' = [segs EXCEPT ![reading[r].seg].sbuf = <<>>]
        /\ reading' = [reading EXCEPT ![r] = [at |-> "idle", seg |-> 0]]
        /\ UNCHANGED <<disk, applied, deleted, unclean, pc>>
    BY Zenon DEF ReadEnd
  <1>2. PICK i, b, t, u : /\ i = reading[r].seg /\ b = segs[i].base
                          /\ t = [segs EXCEPT ![i].ibuf = <<>>] /\ u = [segs EXCEPT ![i].sbuf = <<>>]
    OBVIOUS
  <1>3. i \in 1..Len(segs) /\ pc = "up" /\ reading'[r].at = "idle"
    <2>1. reading[r].at # "idle"
      BY <1>1
    <2> QED BY <1>1, <1>2, <2>1, ReaderMoves, Zenon
  <1>4. /\ i \in StoreSent /\ i \notin StoreSent' /\ i \notin Sent /\ i \notin Sent'
        /\ \A j \in 1..Len(segs) : j # i => j \notin StoreSent /\ j \notin StoreSent'
        /\ \A j \in 1..Len(segs) : j \notin Sent /\ j \notin Sent'
    BY <1>1, <1>2, <1>3, ReaderSent, Zenon
  <1>5. OpenLog(disk, segs)
    BY <1>3, Zenon DEF FilesInv
  <1>6. /\ Len(u) = Len(segs)
        /\ \A j \in 1..Len(segs) : j # i => u[j] = segs[j]
        /\ u[i].sbuf = <<>> /\ u[i].ibuf = segs[i].ibuf
        /\ u[i].base = segs[i].base /\ u[i].next = segs[i].next /\ u[i].size = segs[i].size
    BY <1>2, <1>3, <1>5, EmptiesAre, SMTT(30)
  <1>7. StoreOf(disk, u, StoreSent', i) = StoreOf(disk, segs, StoreSent, i)
    BY <1>4, <1>6, Zenon DEF StoreOf
  <1>8. IndexOf(disk, u, Sent', i) = IndexOf(disk, segs, Sent, i)
    BY <1>4, <1>6, Zenon DEF IndexOf
  <1>9. segs' = u /\ disk' = disk /\ pc' = "up"
    BY <1>1, <1>2, <1>3
  <1>10. Moved(disk, segs, Sent, StoreSent, disk', segs', Sent', StoreSent', i)
    BY <1>4, <1>6, <1>7, <1>8, <1>9, Zenon DEF Moved
  <1> QED BY <1>1, <1>3, <1>9, <1>10, ReaderFrame, Zenon

\* Files that hold the same, not open.
LEMMA ShutAlike ==
    ASSUME NEW d, NEW e, NEW gone, ShutHolds(d), ShutCovers(d, gone), DOMAIN e = DOMAIN d,
           \A b \in DOMAIN d : /\ e[b].store = d[b].store /\ e[b].index = d[b].index
                               /\ e[b].linked = d[b].linked
    PROVE  ShutHolds(e) /\ ShutCovers(e, gone)
  <1>1. \A b \in DOMAIN d : EndOf(e, b) = EndOf(d, b)
    BY Zenon DEF EndOf
  <1>2. ShutHolds(e)
    BY <1>1, Zenon DEF ShutHolds
  <1>3. ShutCovers(e, gone)
    BY <1>1, Zenon DEF ShutCovers
  <1> QED BY <1>2, <1>3

\* The end of a retention time changes no contents.
LEMMA ExpireHolds ==
    ASSUME FilesInv, FilesInv', CountInv, HoldInv, NEW b \in DOMAIN disk, Expire(b)
    PROVE  HoldInv'
  <1>1. disk \in [DOMAIN disk -> File] /\ disk[b] \in File
    BY FilesInvHasFiles DEF Files
  <1>2. PICK g : g = [disk[b] EXCEPT !.expired = TRUE]
    OBVIOUS
  <1>3. g.store = disk[b].store /\ g.index = disk[b].index /\ g.linked = disk[b].linked
    BY <1>1, <1>2 DEF File
  <1>4. disk' = [disk EXCEPT ![b] = g]
    BY <1>1, <1>2 DEF Expire
  <1>5. /\ DOMAIN disk' = DOMAIN disk
        /\ \A c \in DOMAIN disk : /\ disk'[c].store = disk[c].store /\ disk'[c].index = disk[c].index
                                  /\ disk'[c].linked = disk[c].linked
    BY <1>1, <1>3, <1>4
  <1>6. UNCHANGED <<segs, applied, deleted, unclean, todo, reading, pc>>
    BY Zenon DEF Expire
  <1>7. Sent' = Sent /\ StoreSent' = StoreSent
    BY <1>6, Zenon DEF Sent, StoreSent
  <1>8. CASE pc = "down"
    <2> SUFFICES ASSUME ~unclean
                 PROVE  ShutHolds(disk') /\ ShutCovers(disk', deleted)
      BY <1>6, <1>8, Zenon DEF HoldInv
    <2>1. ShutHolds(disk) /\ ShutCovers(disk, deleted)
      BY <1>8, Zenon DEF HoldInv
    <2> QED BY <1>5, <2>1, ShutAlike, Zenon
  <1>9. CASE pc # "down"
    <2>1. OpenLog(disk, segs)
      BY <1>9, Zenon DEF FilesInv
    <2>2. Alike(disk, segs, Sent, StoreSent, disk', segs', Sent', StoreSent')
      BY <1>5, <1>6, <1>7, <2>1, SameIsAlike, Zenon
    <2>3. ~unclean => (pc' = "close" => Flushing(segs', todo')) /\ pc' # "late"
      BY <1>6, <1>9, HoldParts, Zenon
    <2>4. pc' # "down"
      BY <1>6, <1>9
    <2> QED BY <1>6, <1>9, <2>2, <2>3, <2>4, HoldFrame, Zenon
  <1> QED BY <1>8, <1>9

-----------------------------------------------------------------------------
(***************************************************************************)
(* Reopening, and the end of a shutdown.                                   *)
(***************************************************************************)
\* What newSegment takes from the files of base b.
LEMMA OpenSegmentHas ==
    ASSUME NEW b, NEW f
    PROVE  /\ OpenSegment(b, f).next = b + Entries(Len(f.index))
           /\ OpenSegment(b, f).size = Len(f.store)
           /\ OpenSegment(b, f).sbuf = <<>> /\ OpenSegment(b, f).ibuf = <<>>
  BY DEF OpenSegment, Entries

\* Files that hold their records are opened as segments that hold theirs.
LEMMA OpenedHolds ==
    ASSUME NEW d, Files(d), DOMAIN d # {}, NEW gone, ShutHolds(d), ShutCovers(d, gone),
           NEW s, s = Opened(d)
    PROVE  OpenHolds(d, s, {}, {}) /\ Covers(s, gone, s[Len(s)].next)
  <1>1. /\ s \in Seq(Segment) /\ Len(s) \in Nat /\ Len(s) > 0
        /\ \A i \in 1..Len(s) : s[i].base \in DOMAIN d /\ s[i] = OpenSegment(s[i].base, d[s[i].base])
        /\ \A i, j \in 1..Len(s) : i < j => s[i].base < s[j].base
        /\ \A b \in DOMAIN d : \E i \in 1..Len(s) : s[i].base = b
    BY OpenedIs, ZenonT(60)
  <1>2. ASSUME NEW i \in 1..Len(s)
        PROVE  /\ s[i].base \in DOMAIN d /\ s[i].next = EndOf(d, s[i].base)
               /\ s[i].size = Len(d[s[i].base].store)
               /\ s[i].sbuf = <<>> /\ s[i].ibuf = <<>>
    <2>1. PICK b, f : b = s[i].base /\ f = d[b]
      OBVIOUS
    <2>2. b \in DOMAIN d /\ s[i] = OpenSegment(b, f)
      <3>1. s[i].base \in DOMAIN d /\ s[i] = OpenSegment(s[i].base, d[s[i].base])
        BY <1>1, Zenon
      <3> QED BY <2>1, <3>1, Zenon
    <2>3. /\ OpenSegment(b, f).next = b + Entries(Len(f.index))
          /\ OpenSegment(b, f).size = Len(f.store)
          /\ OpenSegment(b, f).sbuf = <<>> /\ OpenSegment(b, f).ibuf = <<>>
      BY OpenSegmentHas, Zenon
    <2>4. EndOf(d, b) = b + Entries(Len(f.index))
      BY <2>1, Zenon DEF EndOf
    <2>5. /\ s[i].next = b + Entries(Len(f.index)) /\ s[i].size = Len(f.store)
          /\ s[i].sbuf = <<>> /\ s[i].ibuf = <<>>
      BY <2>2, <2>3, Zenon
    <2> QED BY <2>1, <2>2, <2>4, <2>5, Zenon
  <1>3. ASSUME NEW i \in 1..Len(s)
        PROVE  HoldsOf(d, s, {}, {}, i)
    <2>1. PICK b : b = s[i].base
      OBVIOUS
    <2>2. b \in DOMAIN d /\ s[i].next = EndOf(d, b) /\ s[i].size = Len(d[b].store)
          /\ s[i].sbuf = <<>> /\ s[i].ibuf = <<>>
      BY <1>2, <2>1, Zenon
    <2>3. d[b].store \in Seq(Word) /\ d[b].index \in Seq(Nat)
      <3>1. d[b] \in File
        BY <2>2, Zenon DEF Files
      <3> QED BY <3>1, FileParts, Zenon
    <2>4. d[b].store \o <<>> = d[b].store /\ d[b].index \o <<>> = d[b].index
      BY <2>3, ConcatEmptySeq, Zenon
    <2>5. StoreOf(d, s, {}, i) = d[b].store /\ IndexOf(d, s, {}, i) = d[b].index
      <3>1. /\ StoreOf(d, s, {}, i) = d[s[i].base].store \o s[i].sbuf
            /\ IndexOf(d, s, {}, i) = d[s[i].base].index \o s[i].ibuf
        BY ContentsUnsent, Zenon
      <3> QED BY <2>1, <2>2, <2>4, <3>1
    <2>6. Holds(d[b].store, d[b].index, b, EndOf(d, b)) /\ d[b].linked
      BY <2>2, Zenon DEF ShutHolds
    <2>7. i < Len(s) => b < EndOf(d, b)
      <3> SUFFICES ASSUME i < Len(s) PROVE b < EndOf(d, b)
        OBVIOUS
      <3>1. Len(s) \in 1..Len(s)
        BY <1>1
      <3>2. s[Len(s)].base \in DOMAIN d /\ b < s[Len(s)].base
        BY <1>1, <2>1, <3>1, Zenon
      <3> QED BY <2>2, <3>2, Zenon DEF ShutHolds
    <2>8. Holds(StoreOf(d, s, {}, i), IndexOf(d, s, {}, i), s[i].base, s[i].next)
      BY <2>1, <2>2, <2>5, <2>6, Zenon
    <2>9. s[i].size = Len(StoreOf(d, s, {}, i)) /\ d[s[i].base].linked
      BY <2>1, <2>2, <2>5, <2>6, Zenon
    <2>10. i < Len(s) => s[i].base < s[i].next
      BY <2>1, <2>2, <2>7, Zenon
    <2> QED BY <2>8, <2>9, <2>10, Zenon DEF HoldsOf
  <1>4. ASSUME NEW offset \in 0..(s[Len(s)].next - 1)
        PROVE  offset \in gone \/ \E i \in 1..Len(s) : offset \in s[i].base..(s[i].next - 1)
    <2>1. Len(s) \in 1..Len(s)
      BY <1>1
    <2>2. PICK b : b = s[Len(s)].base
      OBVIOUS
    <2>3. b \in DOMAIN d /\ s[Len(s)].next = EndOf(d, b)
      BY <1>2, <2>1, <2>2, Zenon
    <2>4. offset \in 0..(EndOf(d, b) - 1)
      BY <2>3, Zenon
    <2>5. CASE offset \in gone
      BY <2>5, Zenon
    <2>6. CASE offset \notin gone
      <3>1. PICK c \in DOMAIN d : offset \in c..(EndOf(d, c) - 1)
        BY <2>3, <2>4, <2>6, Zenon DEF ShutCovers
      <3>2. PICK i \in 1..Len(s) : s[i].base = c
        BY <1>1, Zenon
      <3>3. s[i].next = EndOf(d, c)
        BY <1>2, <3>2, Zenon
      <3>4. offset \in s[i].base..(s[i].next - 1)
        BY <3>1, <3>2, <3>3, Zenon
      <3> QED BY <3>4, Zenon
    <2> QED BY <2>5, <2>6
  <1> QED BY <1>3, <1>4, Zenon DEF OpenHolds, Covers

\* newWAL opens the files that are there, or makes the first.
LEMMA newWALHolds ==
    ASSUME FilesInv, FilesInv', CountInv, HoldInv, newWAL
    PROVE  HoldInv'
  <1> SUFFICES ASSUME ~unclean'
               PROVE  /\ OpenHolds(disk', segs', Sent', StoreSent')
                      /\ segs'[Len(segs')].next = applied'
                      /\ Covers(segs', deleted', applied')
    <2>1. pc' # "down" /\ pc' # "close" /\ pc' # "late"
      BY DEF newWAL
    <2> QED BY <2>1, Zenon DEF HoldInv
  <1>1. /\ pc = "down" /\ segs' = Opened(disk') /\ applied' = segs'[Len(segs')].next /\ pc' = "up"
        /\ UNCHANGED <<deleted, unclean, reading>>
    BY Zenon DEF newWAL
  <1>2. ShutHolds(disk) /\ ShutCovers(disk, deleted)
    BY <1>1, Zenon DEF HoldInv
  <1>3. NoReader
    BY <1>1 DEF FilesInv, StagesOK
  <1>4. Sent' = {} /\ StoreSent' = {}
    BY <1>1, <1>3, StillNothingSent
  <1>5. PICK e, s : e = disk' /\ s = segs'
    OBVIOUS
  <1>6. DOMAIN e # {} /\ ShutHolds(e) /\ ShutCovers(e, deleted)
    <2>1. CASE DOMAIN disk = {}
      <3>1. e = [b \in {0} |-> NewFiles]
        BY <1>5, <2>1, Zenon DEF newWAL
      <3>2. DOMAIN e = {0} /\ e[0].index = <<>> /\ e[0].store = <<>> /\ e[0].linked
        BY <3>1 DEF NewFiles
      <3>3. Len(e[0].index) = 0 /\ Len(<<>>) = 0
        BY <3>2
      <3>4. EndOf(e, 0) = 0
        <4>1. EndOf(e, 0) = 0 + Entries(0)
          BY <3>3, Zenon DEF EndOf
        <4> QED BY <4>1, EntriesAre
      <3>5. Holds(e[0].store, e[0].index, 0, 0)
        <4>1. 3 * (0 - 0) = 0 /\ \A offset \in 0..(0 - 1) : FALSE
          OBVIOUS
        <4> QED BY <3>2, <3>3, <4>1, Zenon DEF Holds
      <3>6. \A c \in DOMAIN e : ~(0 < c)
        BY <3>2
      <3>7. ShutHolds(e)
        BY <3>2, <3>4, <3>5, <3>6, Zenon DEF ShutHolds
      <3>8. \A offset \in 0..(0 - 1) : FALSE
        OBVIOUS
      <3>9. ShutCovers(e, deleted)
        BY <3>2, <3>4, <3>8, Zenon DEF ShutCovers
      <3> QED BY <3>2, <3>7, <3>9
    <2>2. CASE DOMAIN disk # {}
      <3>1. e = [b \in DOMAIN disk |-> [disk[b] EXCEPT !.meta = "written"]]
        BY <1>5, <2>2, Zenon DEF newWAL
      <3>2. \A b \in DOMAIN disk : disk[b] \in File
        BY FilesInvHasFiles DEF Files
      <3>3. /\ DOMAIN e = DOMAIN disk
            /\ \A b \in DOMAIN disk : /\ e[b].store = disk[b].store /\ e[b].index = disk[b].index
                                      /\ e[b].linked = disk[b].linked
        BY <3>1, <3>2 DEF File
      <3> QED BY <1>2, <2>2, <3>3, ShutAlike, Zenon
    <2> QED BY <2>1, <2>2
  <1>7. Files(e)
    <2>1. OpenLog(disk', segs')
      BY <1>1 DEF FilesInv
    <2> QED BY <1>5, <2>1, Zenon DEF OpenLog
  <1>8. s = Opened(e)
    BY <1>1, <1>5, Zenon
  <1>9. OpenHolds(e, s, {}, {}) /\ Covers(s, deleted, s[Len(s)].next)
    BY <1>6, <1>7, <1>8, OpenedHolds, Zenon
  <1> QED BY <1>1, <1>4, <1>5, <1>9, Zenon

\* Whole entries are counted.
LEMMA EntriesOfWhole ==
    ASSUME NEW b \in Nat, NEW n \in Nat, b <= n, NEW l, l = 3 * (n - b)
    PROVE  b + Entries(l) = n
  <1>1. PICK k : k = n - b
    OBVIOUS
  <1>2. k \in Nat
    BY <1>1
  <1>3. l \div 3 = k
    BY <1>1, <1>2
  <1>4. b + k = n
    BY <1>1
  <1> QED BY <1>3, <1>4, Zenon DEF Entries

\* When a shutdown has flushed everything, the files hold all records.
LEMMA FlushedHolds ==
    ASSUME OpenLog(disk, segs), OpenHolds(disk, segs, {}, {}), Flushing(segs, <<>>),
           NEW i \in 1..Len(segs), NEW b, b = segs[i].base
    PROVE  /\ Holds(disk[b].store, disk[b].index, b, segs[i].next)
           /\ EndOf(disk, b) = segs[i].next
           /\ b \in Linked
  <1>1. \A k \in 1..Len(<<>>) : FALSE
    OBVIOUS
  <1>2. segs[i].sbuf = <<>> /\ segs[i].ibuf = <<>>
    BY <1>1, Zenon DEF Flushing
  <1>3. disk[b].store \in Seq(Word) /\ disk[b].index \in Seq(Nat) /\ b \in DOMAIN disk
    BY ContentsAreSeqs, Zenon
  <1>4. disk[b].store \o <<>> = disk[b].store /\ disk[b].index \o <<>> = disk[b].index
    BY <1>3, ConcatEmptySeq, Zenon
  <1>5. StoreOf(disk, segs, {}, i) = disk[b].store /\ IndexOf(disk, segs, {}, i) = disk[b].index
    <2>1. /\ StoreOf(disk, segs, {}, i) = disk[segs[i].base].store \o segs[i].sbuf
          /\ IndexOf(disk, segs, {}, i) = disk[segs[i].base].index \o segs[i].ibuf
      BY ContentsUnsent, Zenon
    <2> QED BY <1>2, <1>4, <2>1
  <1>6. Holds(StoreOf(disk, segs, {}, i), IndexOf(disk, segs, {}, i), segs[i].base, segs[i].next)
        /\ disk[segs[i].base].linked
    BY Zenon DEF OpenHolds, HoldsOf
  <1>7. Holds(disk[b].store, disk[b].index, b, segs[i].next) /\ disk[b].linked
    BY <1>5, <1>6, Zenon
  <1>8. EndOf(disk, b) = segs[i].next
    <2>1. PICK n, l : n = segs[i].next /\ l = Len(disk[b].index)
      OBVIOUS
    <2>2. b \in Nat /\ n \in Nat /\ b <= n
      BY <2>1, SegmentNumbers, Zenon
    <2>3. l = 3 * (n - b)
      BY <1>7, <2>1, Zenon DEF Holds
    <2>4. b + Entries(l) = n
      BY <2>2, <2>3, EntriesOfWhole, Zenon
    <2> QED BY <2>1, <2>4, Zenon DEF EndOf
  <1> QED BY <1>3, <1>7, <1>8, Zenon DEF Linked

\* The process ends after wal.close: all that was in memory is in the files.
LEMMA ClosedHolds ==
    ASSUME FilesInv, CountInv, HoldInv, Closed
    PROVE  HoldInv'
  <1> SUFFICES ASSUME ~unclean'
               PROVE  ShutHolds(disk') /\ ShutCovers(disk', deleted')
    <2>1. pc' = "down"
      BY Zenon DEF Closed, Gone, MemoryGone
    <2>2. pc' # "close" /\ pc' # "late"
      BY <2>1
    <2> QED BY <2>1, <2>2, Zenon DEF HoldInv
  <1>1. /\ pc \in {"close", "late"} /\ todo = <<>> /\ ~unclean /\ deleted' = deleted
        /\ disk' = [b \in Linked |-> disk[b]]
    BY Zenon DEF Closed, Gone, MemoryGone
  <1>2. pc # "down" /\ pc # "up"
    BY <1>1
  <1>3. /\ OpenLog(disk, segs) /\ OpenCounts(disk, segs, Sent) /\ Follow(segs)
        /\ OpenHolds(disk, segs, Sent, StoreSent)
        /\ segs[Len(segs)].next = applied /\ Covers(segs, deleted, applied)
        /\ (pc = "close" => Flushing(segs, todo)) /\ pc # "late"
    BY <1>1, <1>2, HoldParts, Zenon
  <1>4. Flushing(segs, <<>>)
    BY <1>1, <1>3
  <1>5. NoReader
    BY <1>2, Zenon DEF FilesInv, StagesOK
  <1>6. OpenHolds(disk, segs, {}, {})
    <2>1. Sent = {} /\ StoreSent = {}
      BY <1>5, NothingSent
    <2> QED BY <1>3, <2>1, Zenon
  <1>7. \A i \in 1..Len(segs) :
           /\ Holds(disk[segs[i].base].store, disk[segs[i].base].index, segs[i].base, segs[i].next)
           /\ EndOf(disk, segs[i].base) = segs[i].next
           /\ segs[i].base \in Linked
    BY <1>3, <1>4, <1>6, FlushedHolds, Zenon
  <1>8. \A b \in Linked : \E i \in 1..Len(segs) : segs[i].base = b
    <2>1. Owned(disk, segs)
      BY <1>3, Zenon DEF OpenCounts
    <2> QED BY <2>1, Zenon DEF Owned, Linked
  <1>9. PICK e : e = disk'
    OBVIOUS
  <1>10. DOMAIN e = Linked /\ \A b \in Linked : e[b] = disk[b]
    BY <1>1, <1>9, Zenon
  <1>11. \A b \in Linked : EndOf(e, b) = EndOf(disk, b)
    BY <1>10, Zenon DEF EndOf
  <1>12. Len(segs) \in Nat /\ Len(segs) \in 1..Len(segs)
    <2>1. Len(segs) \in Nat /\ Len(segs) > 0
      BY <1>3, OpenHasFiles, Zenon
    <2> QED BY <2>1
  <1>13. \A i \in 1..Len(segs) : /\ segs[i].next <= segs[Len(segs)].next
                                 /\ segs[i].base <= segs[Len(segs)].base
                                 /\ segs[i].base \in Nat /\ segs[i].next \in Nat
    BY <1>3, FollowOrders, SegmentNumbers, Zenon
  <1>14. ASSUME NEW b \in Linked
         PROVE  /\ Holds(e[b].store, e[b].index, b, EndOf(e, b)) /\ e[b].linked
                /\ \A c \in Linked : b < c => b < EndOf(e, b)
    <2>1. PICK i \in 1..Len(segs) : segs[i].base = b
      BY <1>8, Zenon
    <2>2. Holds(disk[b].store, disk[b].index, b, segs[i].next) /\ EndOf(disk, b) = segs[i].next
      BY <1>7, <2>1, Zenon
    <2>3. EndOf(e, b) = segs[i].next /\ e[b] = disk[b]
      BY <1>10, <1>11, <2>2, Zenon
    <2>4. Holds(e[b].store, e[b].index, b, EndOf(e, b))
      BY <2>2, <2>3, Zenon
    <2>5. e[b].linked
      BY <2>3, Zenon DEF Linked
    <2>6. ASSUME NEW c \in Linked, b < c
          PROVE  b < EndOf(e, b)
      <3>1. PICK j \in 1..Len(segs) : segs[j].base = c
        BY <1>8, Zenon
      <3>2. PICK m, x : m = Len(segs) /\ x = segs[Len(segs)].base
        OBVIOUS
      <3>3. c <= x /\ c \in Nat /\ b \in Nat /\ x \in Nat
        BY <1>12, <1>13, <2>1, <3>1, <3>2, Zenon
      <3>4. b # x
        BY <2>6, <3>3
      <3>5. i # m
        BY <2>1, <3>2, <3>4
      <3>6. i < m
        BY <1>12, <3>2, <3>5
      <3>7. segs[i].base < segs[i].next
        BY <1>6, <3>2, <3>6, Zenon DEF OpenHolds, HoldsOf
      <3> QED BY <2>1, <2>3, <3>7, Zenon
    <2> QED BY <2>4, <2>5, <2>6, Zenon
  <1>15. ShutHolds(e)
    BY <1>10, <1>14, Zenon DEF ShutHolds
  <1>16. ASSUME NEW b \in Linked, NEW offset \in 0..(EndOf(e, b) - 1)
         PROVE  offset \in deleted \/ \E c \in Linked : offset \in c..(EndOf(e, c) - 1)
    <2>1. PICK i \in 1..Len(segs) : segs[i].base = b
      BY <1>8, Zenon
    <2>2. PICK n, m : n = segs[i].next /\ m = segs[Len(segs)].next
      OBVIOUS
    <2>3. EndOf(e, b) = n
      BY <1>7, <1>11, <2>1, <2>2, Zenon
    <2>4. n \in Nat /\ m \in Nat /\ n <= m
      BY <1>12, <1>13, <2>2, Zenon
    <2>5. offset \in 0..(m - 1)
      BY <2>3, <2>4
    <2>6. offset \in 0..(applied - 1)
      BY <1>3, <2>2, <2>5, Zenon
    <2>7. CASE offset \in deleted
      BY <2>7, Zenon
    <2>8. CASE offset \notin deleted
      <3>1. PICK j \in 1..Len(segs) : offset \in segs[j].base..(segs[j].next - 1)
        BY <1>3, <2>6, <2>8, Zenon DEF Covers
      <3>2. PICK c : c = segs[j].base
        OBVIOUS
      <3>3. c \in Linked /\ EndOf(e, c) = segs[j].next
        BY <1>7, <1>11, <3>2, Zenon
      <3>4. offset \in c..(EndOf(e, c) - 1)
        BY <3>1, <3>2, <3>3, Zenon
      <3> QED BY <3>3, <3>4, Zenon
    <2> QED BY <2>7, <2>8
  <1>17. ShutCovers(e, deleted)
    BY <1>10, <1>16, Zenon DEF ShutCovers
  <1> QED BY <1>1, <1>9, <1>15, <1>17, Zenon

-----------------------------------------------------------------------------
(***************************************************************************)
(* Appending and retention.                                                *)
(***************************************************************************)
\* A full segment holds a record: rotate finds no files for the next offset.
LEMMA FullIsNotEmpty ==
    ASSUME OpenLog(disk, segs), OpenHolds(disk, segs, {}, {}), IsMaxed(segs[Active])
    PROVE  /\ segs[Len(segs)].base < NextOffset
           /\ NextOffset \notin DOMAIN disk
  <1>1. PICK n, g, b : n = Len(segs) /\ g = segs[n] /\ b = g.base
    OBVIOUS
  <1>2. n \in 1..Len(segs)
    <2>1. Len(segs) \in Nat /\ Len(segs) > 0
      BY OpenHasFiles, Zenon
    <2> QED BY <1>1, <2>1
  <1>3. b \in Nat /\ g.next \in Nat /\ b <= g.next
    BY <1>1, <1>2, SegmentNumbers, Zenon
  <1>4. PICK st : st = StoreOf(disk, segs, {}, n)
    OBVIOUS
  <1>5. g.size = Len(st) /\ (g.next = b => st = <<>>)
    BY <1>1, <1>2, <1>4, Zenon DEF OpenHolds, HoldsOf, Holds
  <1>6. g.size >= MaxStore
    BY <1>1, Zenon DEF IsMaxed, Active
  <1>7. g.next # b
    <2> SUFFICES ASSUME g.next = b PROVE FALSE
      OBVIOUS
    <2>1. g.size = Len(<<>>)
      BY <1>5, Zenon
    <2>2. g.size = 0
      BY <2>1
    <2> QED BY <1>6, <2>2, CapacityAssumption
  <1>8. b < g.next
    BY <1>3, <1>7
  <1>9. \A c \in DOMAIN disk : c <= b /\ c \in Nat
    BY <1>1 DEF OpenLog, Files
  <1>10. g.next \notin DOMAIN disk
    BY <1>3, <1>8, <1>9
  <1> QED BY <1>1, <1>8, <1>10, Zenon DEF NextOffset, Active

\* rotate leaves segments that hold their records.
LEMMA GrownHolds ==
    ASSUME OpenLog(disk, segs), OpenHolds(disk, segs, {}, {})
    PROVE  /\ OpenHolds(GrownDisk, Grown, {}, {})
           /\ Len(Grown) \in Nat /\ \A i \in 1..Len(segs) : i \in 1..Len(Grown) /\ Grown[i] = segs[i]
  <1>0. Len(segs) \in Nat
    BY OpenHasFiles, Zenon
  <1>1. CASE Grown = segs /\ GrownDisk = disk
    BY <1>0, <1>1, Zenon
  <1>2. CASE ~(Grown = segs /\ GrownDisk = disk)
    <2>1. IsMaxed(segs[Active])
      BY <1>2, Zenon DEF Grown, GrownDisk
    <2>2. PICK n, s, d, b : n = Len(segs) /\ s = Grown /\ d = GrownDisk /\ b = NextOffset
      OBVIOUS
    <2>3. segs[n].base < b /\ b \notin DOMAIN disk
      BY <2>1, <2>2, FullIsNotEmpty, Zenon
    <2>4. /\ Len(s) = n + 1
          /\ \A i \in 1..n : s[i] = segs[i]
          /\ \A c \in DOMAIN disk : d[c] = disk[c]
          /\ d[b] = NewFiles /\ s[Len(s)] = OpenSegment(b, d[b])
      BY <1>2, <2>2, <2>3, GrownIsOpen, Zenon
    <2>5. n \in Nat /\ n + 1 \in Nat /\ \A i \in 1..(n + 1) : i \in 1..n \/ i = n + 1
      BY <1>0, <2>2
    <2>6. \A i \in 1..n : i \in 1..(n + 1) /\ (i < n \/ i = n) /\ i # n + 1
      BY <2>5
    <2>7. ASSUME NEW i \in 1..n PROVE HoldsOf(d, s, {}, {}, i)
      <3>1. s[i] = segs[i]
        BY <2>4, Zenon
      <3>2. segs[i].base \in DOMAIN disk
        BY <2>2, ContentsAreSeqs, Zenon
      <3>3. d[segs[i].base] = disk[segs[i].base]
        BY <2>4, <3>2, Zenon
      <3>4. StoreOf(d, s, {}, i) = StoreOf(disk, segs, {}, i)
        BY <3>1, <3>3, Zenon DEF StoreOf
      <3>5. IndexOf(d, s, {}, i) = IndexOf(disk, segs, {}, i)
        BY <3>1, <3>3, Zenon DEF IndexOf
      <3>6. /\ Holds(StoreOf(disk, segs, {}, i), IndexOf(disk, segs, {}, i),
                     segs[i].base, segs[i].next)
            /\ segs[i].size = Len(StoreOf(disk, segs, {}, i)) /\ disk[segs[i].base].linked
            /\ i < n => segs[i].base < segs[i].next
        BY <2>2, Zenon DEF OpenHolds, HoldsOf
      <3>7. segs[i].base < segs[i].next
        <4>1. CASE i < n
          BY <3>6, <4>1, Zenon
        <4>2. CASE i = n
          BY <2>2, <2>3, <4>2, Zenon DEF NextOffset, Active
        <4> QED BY <2>6, <4>1, <4>2, Zenon
      <3> QED BY <3>1, <3>3, <3>4, <3>5, <3>6, <3>7, Zenon DEF HoldsOf
    <2>8. ASSUME NEW i, i = n + 1 PROVE HoldsOf(d, s, {}, {}, i)
      <3>1. NewFiles.store = <<>> /\ NewFiles.index = <<>> /\ NewFiles.linked
        BY DEF NewFiles
      <3>2. s[i] = OpenSegment(b, NewFiles)
        BY <2>4, <2>8, Zenon
      <3>3. Len(<<>>) = 0 /\ <<>> \o <<>> = <<>>
        OBVIOUS
      <3>4. b \in Nat
        <4>1. n \in 1..Len(segs)
          <5>1. Len(segs) > 0
            BY OpenHasFiles, Zenon
          <5> QED BY <1>0, <2>2, <5>1
        <4>2. segs[n].next \in Nat
          BY <4>1, SegmentNumbers, Zenon
        <4> QED BY <2>2, <4>2, Zenon DEF NextOffset, Active
      <3>5. s[i].base = b /\ s[i].next = b /\ s[i].size = 0 /\ s[i].sbuf = <<>> /\ s[i].ibuf = <<>>
        <4>1. /\ OpenSegment(b, NewFiles).next = b + Entries(Len(NewFiles.index))
              /\ OpenSegment(b, NewFiles).size = Len(NewFiles.store)
              /\ OpenSegment(b, NewFiles).sbuf = <<>> /\ OpenSegment(b, NewFiles).ibuf = <<>>
          BY OpenSegmentHas, Zenon
        <4>2. OpenSegment(b, NewFiles).base = b
          BY DEF OpenSegment
        <4>3. Len(NewFiles.index) = 0 /\ Len(NewFiles.store) = 0
          BY <3>1, <3>3, Zenon
        <4>4. b + Entries(0) = b
          BY <3>4, EntriesAre
        <4> QED BY <3>2, <4>1, <4>2, <4>3, <4>4, Zenon
      <3>6. StoreOf(d, s, {}, i) = <<>> /\ IndexOf(d, s, {}, i) = <<>>
        <4>1. /\ StoreOf(d, s, {}, i) = d[s[i].base].store \o s[i].sbuf
              /\ IndexOf(d, s, {}, i) = d[s[i].base].index \o s[i].ibuf
          BY ContentsUnsent, Zenon
        <4>2. d[s[i].base] = NewFiles
          BY <2>4, <3>5, Zenon
        <4> QED BY <3>1, <3>3, <3>5, <4>1, <4>2, Zenon
      <3>7. Holds(<<>>, <<>>, b, b)
        <4>1. 3 * (b - b) = 0 /\ \A offset \in b..(b - 1) : FALSE
          BY <3>4
        <4> QED BY <3>3, <4>1, Zenon DEF Holds
      <3>8. ~(i < Len(s))
        BY <2>4, <2>5, <2>8
      <3> QED BY <2>4, <3>1, <3>3, <3>5, <3>6, <3>7, <3>8, Zenon DEF HoldsOf
    <2>9. OpenHolds(d, s, {}, {})
      BY <2>4, <2>5, <2>7, <2>8, Zenon DEF OpenHolds
    <2> QED BY <2>2, <2>4, <2>5, <2>6, <2>9, Zenon
  <1> QED BY <1>1, <1>2

\* The record r has been written behind what the active segment of a log held.
Wrote(d, s, e, t, r) ==
    LET n == Len(s)
        b == s[n].base
    IN  /\ Len(t) = n
        /\ \A j \in 1..n : j # n => t[j] = s[j]
        /\ t[n].base = b /\ t[n].next = s[n].next + 1 /\ t[n].size = s[n].size + Len(Record(r))
        /\ \A c \in DOMAIN d : c # b => e[c] = d[c]
        /\ e[b].linked = d[b].linked
        /\ StoreOf(e, t, {}, n) = StoreOf(d, s, {}, n) \o Record(r)
        /\ IndexOf(e, t, {}, n) = IndexOf(d, s, {}, n) \o IndexEntry(s[n].next - b, s[n].size)

\* append writes the next record behind what the active segment held.
LEMMA AppendWrites ==
    ASSUME FilesInv, append
    PROVE  Wrote(GrownDisk, Grown, disk', segs', applied)
  <1> DEFINE n == Len(Grown)
             a == Grown[n]
             d == GrownDisk
  <1>1. OpenLog(disk, segs) /\ applied \in Offset
    BY AppendIs, Zenon
  <1>2. PICK g \in Segment, u \in Seq(Word), x \in Seq(Nat) :
           /\ disk' = [d EXCEPT ![a.base].store = d[a.base].store \o u,
                                ![a.base].index = d[a.base].index \o x]
           /\ segs' = [Grown EXCEPT ![n] = g]
           /\ g.base = a.base /\ g.next = a.next + 1
           /\ u \o g.sbuf = a.sbuf \o Record(applied)
           /\ x \o g.ibuf = a.ibuf \o IndexEntry(a.next - a.base, a.size)
           /\ g.size = a.size + Len(Record(applied))
    BY AppendIs, ZenonT(40)
  <1>3. OpenLog(d, Grown)
    BY <1>1, GrownIsOpen
  <1> HIDE DEF n, a, d
  <1>4. /\ Grown \in Seq(Segment) /\ n \in 1..Len(Grown) /\ a = Grown[n] /\ n = Len(Grown)
    BY <1>3, OpenHasFiles DEF n, a
  <1>5. /\ a.base \in DOMAIN d /\ d[a.base] \in File
        /\ d[a.base].store \in Seq(Word) /\ a.sbuf \in Seq(Word)
        /\ d[a.base].index \in Seq(Nat) /\ a.ibuf \in Seq(Nat)
    BY <1>3, <1>4, ContentsAreSeqs, Zenon
  <1>6. a.next - a.base \in Nat /\ a.size \in Nat
    <2>1. a.base \in Nat /\ a.next \in Nat /\ a.base <= a.next
      BY <1>3, <1>4, SegmentNumbers, Zenon
    <2>2. a \in Segment
      BY <1>4
    <2>3. a.size \in Nat
      BY <2>2, SegmentParts, Zenon
    <2> QED BY <2>1, <2>3
  <1>7. d \in [DOMAIN d -> File]
    BY <1>3, Zenon DEF OpenLog, Files
  <1>8. PICK e, t, b, st, ix : /\ e = disk' /\ t = segs' /\ b = a.base
                               /\ st = d[a.base].store \o u /\ ix = d[a.base].index \o x
    OBVIOUS
  <1>9. PICK h : h = [d[b] EXCEPT !.store = st, !.index = ix]
    OBVIOUS
  <1>10. h.store = st /\ h.index = ix /\ h.linked = d[b].linked
    <2>1. d[b] \in File
      BY <1>5, <1>8, Zenon
    <2> QED BY <1>9, <2>1, SMTT(60) DEF File
  <1>11. e = [d EXCEPT ![b] = h]
    BY <1>2, <1>7, <1>8, <1>9, ZenonT(60)
  <1>12. e[b] = h /\ \A c \in DOMAIN d : c # b => e[c] = d[c]
    <2>1. b \in DOMAIN d
      BY <1>5, <1>8, Zenon
    <2> QED BY <1>7, <1>11, <2>1
  <1>13. Len(t) = Len(Grown) /\ t[n] = g /\ \A j \in 1..Len(Grown) : j # n => t[j] = Grown[j]
    <2>1. t = [Grown EXCEPT ![n] = g]
      BY <1>2, <1>8, Zenon
    <2>2. Grown \in Seq(Segment) /\ n \in 1..Len(Grown)
      BY <1>4, Zenon
    <2> QED BY <2>1, <2>2, SMTT(60)
  <1>14. g.sbuf \in Seq(Word) /\ g.ibuf \in Seq(Nat)
    BY SegmentParts, Zenon
  <1>15. PICK r, en : r = Record(applied) /\ en = IndexEntry(a.next - a.base, a.size)
    OBVIOUS
  <1>16. r \in Seq(Word)
    BY <1>1, <1>15, RecordIs, Zenon
  <1>17. en \in Seq(Nat)
    BY <1>6, <1>15 DEF IndexEntry
  <1>18. StoreOf(e, t, {}, n) = StoreOf(d, Grown, {}, n) \o r
    <2>1. PICK f, o, v : f = d[b].store /\ o = a.sbuf /\ v = g.sbuf
      OBVIOUS
    <2>2. f \in Seq(Word) /\ o \in Seq(Word) /\ v \in Seq(Word) /\ u \in Seq(Word)
      BY <1>5, <1>8, <1>14, <2>1, Zenon
    <2>3. u \o v = o \o r
      BY <1>2, <1>15, <2>1, Zenon
    <2>4. (f \o u) \o v = (f \o o) \o r
      <3>1. (f \o u) \o v = f \o (u \o v)
        BY <2>2, SMTT(60)
      <3>2. (f \o o) \o r = f \o (o \o r)
        BY <1>16, <2>2, SMTT(60)
      <3> QED BY <2>3, <3>1, <3>2
    <2>5. StoreOf(d, Grown, {}, n) = f \o o
      <3>1. StoreOf(d, Grown, {}, n) = d[Grown[n].base].store \o Grown[n].sbuf
        BY ContentsUnsent, Zenon
      <3> QED BY <1>4, <1>8, <2>1, <3>1, Zenon
    <2>6. StoreOf(e, t, {}, n) = (f \o u) \o v
      <3>1. StoreOf(e, t, {}, n) = e[t[n].base].store \o t[n].sbuf
        BY ContentsUnsent, Zenon
      <3>2. t[n].base = b /\ e[b].store = f \o u /\ t[n].sbuf = v
        BY <1>2, <1>8, <1>10, <1>12, <1>13, <2>1, Zenon
      <3> QED BY <3>1, <3>2, Zenon
    <2> QED BY <2>4, <2>5, <2>6, Zenon
  <1>19. IndexOf(e, t, {}, n) = IndexOf(d, Grown, {}, n) \o en
    <2>1. PICK f, o, v : f = d[b].index /\ o = a.ibuf /\ v = g.ibuf
      OBVIOUS
    <2>2. f \in Seq(Nat) /\ o \in Seq(Nat) /\ v \in Seq(Nat) /\ x \in Seq(Nat)
      BY <1>5, <1>8, <1>14, <2>1, Zenon
    <2>3. x \o v = o \o en
      BY <1>2, <1>15, <2>1, Zenon
    <2>4. (f \o x) \o v = (f \o o) \o en
      <3>1. (f \o x) \o v = f \o (x \o v)
        BY <2>2, SMTT(60)
      <3>2. (f \o o) \o en = f \o (o \o en)
        BY <1>17, <2>2, SMTT(60)
      <3> QED BY <2>3, <3>1, <3>2
    <2>5. IndexOf(d, Grown, {}, n) = f \o o
      <3>1. IndexOf(d, Grown, {}, n) = d[Grown[n].base].index \o Grown[n].ibuf
        BY ContentsUnsent, Zenon
      <3> QED BY <1>4, <1>8, <2>1, <3>1, Zenon
    <2>6. IndexOf(e, t, {}, n) = (f \o x) \o v
      <3>1. IndexOf(e, t, {}, n) = e[t[n].base].index \o t[n].ibuf
        BY ContentsUnsent, Zenon
      <3>2. t[n].base = b /\ e[b].index = f \o x /\ t[n].ibuf = v
        BY <1>2, <1>8, <1>10, <1>12, <1>13, <2>1, Zenon
      <3> QED BY <3>1, <3>2, Zenon
    <2> QED BY <2>4, <2>5, <2>6, Zenon
  <1>20. /\ t[n].base = b /\ t[n].next = a.next + 1 /\ t[n].size = a.size + Len(Record(applied))
         /\ e[b].linked = d[b].linked
    BY <1>2, <1>8, <1>10, <1>12, <1>13, Zenon
  <1>21. Wrote(d, Grown, e, t, applied)
    BY <1>4, <1>8, <1>12, <1>13, <1>15, <1>18, <1>19, <1>20, Zenon DEF Wrote
  <1> QED BY <1>8, <1>21, Zenon DEF d

\* The segments of the log that is left hold their records.
LEMMA WroteHolds ==
    ASSUME NEW d, NEW s, NEW e, NEW t, NEW r \in Offset, OpenLog(d, s), Follow(s),
           OpenHolds(d, s, {}, {}), Wrote(d, s, e, t, r), s[Len(s)].next = r
    PROVE  OpenHolds(e, t, {}, {}) /\ t[Len(t)].next = r + 1
  <1>1. PICK n, b : n = Len(s) /\ b = s[n].base
    OBVIOUS
  <1>2. /\ Len(t) = n
        /\ \A j \in 1..n : j # n => t[j] = s[j]
        /\ t[n].base = b /\ t[n].next = s[n].next + 1 /\ t[n].size = s[n].size + Len(Record(r))
        /\ \A c \in DOMAIN d : c # b => e[c] = d[c]
        /\ e[b].linked = d[b].linked
        /\ StoreOf(e, t, {}, n) = StoreOf(d, s, {}, n) \o Record(r)
        /\ IndexOf(e, t, {}, n) = IndexOf(d, s, {}, n) \o IndexEntry(s[n].next - b, s[n].size)
    BY <1>1, Zenon DEF Wrote
  <1>3. n \in Nat /\ n \in 1..n
    <2>1. n \in Nat /\ n > 0
      BY <1>1, OpenHasFiles, Zenon
    <2> QED BY <2>1
  <1>4. ASSUME NEW j \in 1..n, j # n PROVE HoldsOf(e, t, {}, {}, j)
    <2>1. t[j] = s[j]
      BY <1>2, <1>4, Zenon
    <2>2. s[j].base \in DOMAIN d
      BY <1>1, ContentsAreSeqs, Zenon
    <2>3. s[j].base # b
      BY <1>1, <1>3, <1>4, BasesDiffer, Zenon
    <2>4. e[s[j].base] = d[s[j].base]
      BY <1>2, <2>2, <2>3, Zenon
    <2>5. StoreOf(e, t, {}, j) = StoreOf(d, s, {}, j)
      BY <2>1, <2>4, Zenon DEF StoreOf
    <2>6. IndexOf(e, t, {}, j) = IndexOf(d, s, {}, j)
      BY <2>1, <2>4, Zenon DEF IndexOf
    <2>7. HoldsOf(d, s, {}, {}, j)
      BY <1>1, Zenon DEF OpenHolds
    <2> QED BY <1>1, <1>2, <2>1, <2>4, <2>5, <2>6, <2>7, Zenon DEF HoldsOf
  <1>5. HoldsOf(e, t, {}, {}, n)
    <2>1. PICK st, ix : st = StoreOf(d, s, {}, n) /\ ix = IndexOf(d, s, {}, n)
      OBVIOUS
    <2>2. st \in Seq(Word) /\ ix \in Seq(Nat)
      <3>1. PICK fs, fx, bs, bx : /\ fs = d[s[n].base].store /\ fx = d[s[n].base].index
                                  /\ bs = s[n].sbuf /\ bx = s[n].ibuf
        OBVIOUS
      <3>2. fs \in Seq(Word) /\ bs \in Seq(Word) /\ fx \in Seq(Nat) /\ bx \in Seq(Nat)
        BY <1>1, <1>3, <3>1, ContentsAreSeqs, Zenon
      <3>3. st = fs \o bs /\ ix = fx \o bx
        BY <2>1, <3>1, ContentsUnsent, Zenon
      <3>4. fs \o bs \in Seq(Word) /\ fx \o bx \in Seq(Nat)
        BY <3>2, ConcatProperties, Zenon
      <3> QED BY <3>3, <3>4, Zenon
    <2>3. Holds(st, ix, b, s[n].next) /\ s[n].size = Len(st) /\ d[b].linked
      BY <1>1, <1>3, <2>1, Zenon DEF OpenHolds, HoldsOf
    <2>4. s[n].next = r /\ b \in Nat /\ b <= r
      BY <1>1, <1>3, SegmentNumbers, Zenon
    <2>5. Holds(st \o Record(r), ix \o IndexEntry(r - b, Len(st)), b, r + 1)
      BY <2>2, <2>3, <2>4, HoldsOneMore, Zenon
    <2>6. StoreOf(e, t, {}, n) = st \o Record(r)
      BY <1>2, <2>1, Zenon
    <2>7. IndexOf(e, t, {}, n) = ix \o IndexEntry(r - b, Len(st))
      BY <1>2, <2>1, <2>3, <2>4, Zenon
    <2>8. Holds(StoreOf(e, t, {}, n), IndexOf(e, t, {}, n), t[n].base, t[n].next)
      BY <1>2, <2>4, <2>5, <2>6, <2>7, Zenon
    <2>9. t[n].size = Len(StoreOf(e, t, {}, n))
      <3>1. Record(r) \in Seq(Word)
        BY RecordIs, Zenon
      <3>2. Len(st \o Record(r)) = Len(st) + Len(Record(r))
        BY <2>2, <3>1, ConcatProperties, Zenon
      <3> QED BY <1>2, <2>3, <2>6, <3>2, Zenon
    <2>10. e[t[n].base].linked
      BY <1>2, <2>3, Zenon
    <2>11. ~(n < Len(t))
      BY <1>2, <1>3
    <2> QED BY <2>8, <2>9, <2>10, <2>11, Zenon DEF HoldsOf
  <1>6. OpenHolds(e, t, {}, {})
    BY <1>2, <1>4, <1>5, Zenon DEF OpenHolds
  <1>7. t[Len(t)].next = r + 1
    BY <1>1, <1>2, Zenon
  <1> QED BY <1>6, <1>7

\* append adds the record that was applied to what the log holds.
LEMMA appendHolds ==
    ASSUME FilesInv, FilesInv', CountInv, HoldInv, append
    PROVE  HoldInv'
  <1> SUFFICES ASSUME ~unclean'
               PROVE  HoldInv'
    BY Zenon DEF HoldInv
  <1>1. ~unclean /\ pc = "up"
    <2>1. unclean' = (unclean \/ pc # "up")
      BY Zenon DEF append
    <2> QED BY <2>1, Zenon
  <1>2. MayAppend /\ pc' = (IF pc = "up" THEN "up" ELSE "late") /\ UNCHANGED <<deleted, reading>>
    BY Zenon DEF append
  <1>3. pc # "down" /\ pc' # "down" /\ pc' # "close" /\ pc' # "late" /\ NoReader
    <2>1. pc' = "up"
      BY <1>1, <1>2, Zenon
    <2>2. ~Behind
      BY <1>1 DEF Behind
    <2>3. NoReader
      BY <1>2, <2>2, Zenon DEF MayAppend
    <2> QED BY <1>1, <2>1, <2>3
  <1>4. Sent = {} /\ StoreSent = {} /\ Sent' = {} /\ StoreSent' = {}
    BY <1>2, <1>3, StillNothingSent
  <1>5. /\ OpenLog(disk, segs) /\ OpenCounts(disk, segs, {}) /\ OpenHolds(disk, segs, {}, {})
        /\ segs[Len(segs)].next = applied /\ Covers(segs, deleted, applied)
    <2>1. /\ OpenLog(disk, segs) /\ OpenCounts(disk, segs, Sent)
          /\ OpenHolds(disk, segs, Sent, StoreSent)
          /\ segs[Len(segs)].next = applied /\ Covers(segs, deleted, applied)
      BY <1>1, <1>3, HoldParts, Zenon
    <2> QED BY <1>4, <2>1, Zenon
  <1>6. PICK d, s, e, t, r : d = GrownDisk /\ s = Grown /\ e = disk' /\ t = segs' /\ r = applied
    OBVIOUS
  <1>7. r \in Offset /\ applied' = r + 1
    BY <1>6, AppendIs, Zenon
  <1>8. OpenLog(d, s) /\ Follow(s) /\ s[Len(s)].next = r
    <2>1. OpenLog(GrownDisk, Grown)
      BY <1>5, GrownIsOpen, Zenon
    <2>2. OpenCounts(GrownDisk, Grown, {}) /\ Grown[Len(Grown)].next = NextOffset
      BY <1>5, GrownCounts, Zenon
    <2>3. NextOffset = r
      BY <1>5, <1>6, Zenon DEF NextOffset, Active
    <2> QED BY <1>6, <2>1, <2>2, <2>3, Zenon DEF OpenCounts
  <1>9. /\ OpenHolds(d, s, {}, {})
        /\ \A i \in 1..Len(segs) : i \in 1..Len(s) /\ s[i] = segs[i]
    BY <1>5, <1>6, GrownHolds, Zenon
  <1>10. Wrote(d, s, e, t, r)
    BY <1>6, AppendWrites, Zenon
  <1>11. OpenHolds(e, t, {}, {}) /\ t[Len(t)].next = r + 1
    BY <1>7, <1>8, <1>9, <1>10, WroteHolds, ZenonT(90)
  <1>12. PICK n : n = Len(s)
    OBVIOUS
  <1>13. n \in 1..n
    <2>1. n \in Nat /\ n > 0
      BY <1>8, <1>12, OpenHasFiles, Zenon
    <2> QED BY <2>1
  <1>14. /\ Len(t) = n /\ \A j \in 1..n : j # n => t[j] = s[j]
         /\ t[n].base = s[n].base /\ t[n].next = s[n].next + 1
    BY <1>10, <1>12, Zenon DEF Wrote
  <1>15. s[n].base \in Nat /\ s[n].next = r /\ s[n].base <= r /\ r \in Nat
    <2>1. s[n].base \in Nat /\ s[n].next \in Nat /\ s[n].base <= s[n].next
      BY <1>8, <1>12, <1>13, SegmentNumbers, Zenon
    <2> QED BY <1>8, <1>12, <2>1, Zenon
  <1>16. ASSUME NEW offset \in 0..((r + 1) - 1)
         PROVE  offset \in deleted \/ \E i \in 1..n : offset \in t[i].base..(t[i].next - 1)
    <2>1. CASE offset = r
      <3>1. r \in s[n].base..((r + 1) - 1)
        BY <1>15
      <3>2. offset \in t[n].base..(t[n].next - 1)
        BY <1>14, <1>15, <2>1, <3>1, Zenon
      <3> QED BY <1>13, <3>2, Zenon
    <2>2. CASE offset # r
      <3>1. offset \in 0..(r - 1)
        BY <1>15, <2>2
      <3>2. CASE offset \in deleted
        BY <3>2, Zenon
      <3>3. CASE offset \notin deleted
        <4>1. PICK i \in 1..Len(segs) : offset \in segs[i].base..(segs[i].next - 1)
          BY <1>5, <1>6, <3>1, <3>3, Zenon DEF Covers
        <4>2. i \in 1..n /\ s[i] = segs[i]
          BY <1>9, <1>12, Zenon
        <4>3. offset \in s[i].base..(s[i].next - 1)
          BY <4>1, <4>2, Zenon
        <4>4. offset \in t[i].base..(t[i].next - 1)
          <5>1. CASE i = n
            <6>1. offset \in s[n].base..(r - 1)
              BY <1>15, <4>3, <5>1, Zenon
            <6>2. offset \in s[n].base..((r + 1) - 1)
              BY <1>15, <6>1
            <6> QED BY <1>14, <1>15, <5>1, <6>2, Zenon
          <5>2. CASE i # n
            BY <1>14, <4>2, <4>3, <5>2, Zenon
          <5> QED BY <5>1, <5>2
        <4> QED BY <4>2, <4>4, Zenon
      <3> QED BY <3>2, <3>3
    <2> QED BY <2>1, <2>2
  <1>17. Covers(t, deleted, r + 1)
    BY <1>14, <1>16, Zenon DEF Covers
  <1>18. /\ OpenHolds(disk', segs', Sent', StoreSent')
         /\ segs'[Len(segs')].next = applied' /\ Covers(segs', deleted', applied')
    BY <1>2, <1>4, <1>6, <1>7, <1>11, <1>17, Zenon
  <1> QED BY <1>3, <1>18, Zenon DEF HoldInv

\* What retention leaves in the files of the segments that stay, and what it
\* notes of those that do not.
LEMMA RetentionIs ==
    ASSUME FilesInv, CountInv, HoldInv, ~unclean, deleteExpiredSegments
    PROVE  /\ \A i \in 1..Len(segs) : Stays(segs[i]) /\ segs[i].base \in DOMAIN disk' =>
                 /\ disk'[segs[i].base].store = disk[segs[i].base].store
                 /\ disk'[segs[i].base].index = disk[segs[i].base].index
                 /\ disk'[segs[i].base].linked
           /\ \A offset : offset \in deleted => offset \in deleted'
           /\ \A i \in 1..Len(segs) : ~Stays(segs[i]) =>
                 \A offset \in segs[i].base..(segs[i].next - 1) : offset \in deleted'
  <1>1. pc = "up" /\ NoReader
    BY Zenon DEF deleteExpiredSegments
  <1>2. pc # "down"
    BY <1>1
  <1>3. OpenLog(disk, segs) /\ Follow(segs) /\ OpenHolds(disk, segs, Sent, StoreSent)
    BY <1>2, HoldParts, Zenon
  <1>4. PICK gone, bases : /\ gone = {s \in Range(segs) : ~Stays(s)}
                           /\ bases = {s.base : s \in gone}
    OBVIOUS
  <1>5. PICK B : B = (Linked \ bases) \cup {s.base : s \in Range(segs')}
    OBVIOUS
  <1>6. disk' = [b \in B |-> [disk[b] EXCEPT !.linked = @ /\ b \notin bases]]
    BY <1>4, <1>5, SMTT(60) DEF deleteExpiredSegments
  <1>7. deleted' = deleted \cup UNION {s.base..(s.next - 1) : s \in gone}
    BY <1>4, SMTT(60) DEF deleteExpiredSegments
  <1>8. \A i \in 1..Len(segs) : segs[i] \in Range(segs)
    <2>1. DOMAIN segs = 1..Len(segs)
      BY <1>3 DEF OpenLog, Segments
    <2> QED BY <2>1, Zenon DEF Range
  <1>9. \A s \in gone : \E i \in 1..Len(segs) : s = segs[i] /\ ~Stays(segs[i])
    <2>1. DOMAIN segs = 1..Len(segs)
      BY <1>3 DEF OpenLog, Segments
    <2> QED BY <1>4, <2>1, Zenon DEF Range
  <1>10. ASSUME NEW i \in 1..Len(segs), Stays(segs[i])
         PROVE  segs[i].base \notin bases
    <2> SUFFICES ASSUME segs[i].base \in bases
                 PROVE  FALSE
      OBVIOUS
    <2>1. PICK s \in gone : segs[i].base = s.base
      BY <1>4, Zenon
    <2>2. PICK j \in 1..Len(segs) : s = segs[j] /\ ~Stays(segs[j])
      BY <1>9, Zenon
    <2>3. i # j
      BY <1>10, <2>2
    <2>4. segs[i].base = segs[j].base
      BY <2>1, <2>2, Zenon
    <2> QED BY <1>3, <2>3, <2>4, BasesDiffer, Zenon
  <1>11. ASSUME NEW i \in 1..Len(segs), Stays(segs[i]), segs[i].base \in DOMAIN disk'
         PROVE  /\ disk'[segs[i].base].store = disk[segs[i].base].store
                /\ disk'[segs[i].base].index = disk[segs[i].base].index
                /\ disk'[segs[i].base].linked
    <2>1. PICK b, f : b = segs[i].base /\ f = disk[b]
      OBVIOUS
    <2>2. f \in File
      BY <1>3, <2>1, ContentsAreSeqs, Zenon
    <2>3. f.linked
      BY <1>3, <2>1, Zenon DEF OpenHolds, HoldsOf
    <2>4. b \notin bases
      BY <1>10, <1>11, <2>1, Zenon
    <2>5. PICK l \in BOOLEAN : l = (f.linked /\ b \notin bases)
      BY Zenon
    <2>6. l
      BY <2>3, <2>4, <2>5, Zenon
    <2>7. PICK g : g = [f EXCEPT !.linked = l]
      OBVIOUS
    <2>8. b \in B
      <3>1. DOMAIN disk' = B
        BY <1>6
      <3> QED BY <1>11, <2>1, <3>1
    <2>9. disk'[b] = g
      BY <1>6, <2>1, <2>5, <2>7, <2>8, SMTT(60)
    <2>10. g.store = f.store /\ g.index = f.index /\ g.linked = l
      BY <2>2, <2>7 DEF File
    <2> QED BY <2>1, <2>6, <2>9, <2>10, Zenon
  <1>12. ASSUME NEW i \in 1..Len(segs), ~Stays(segs[i]),
                NEW offset \in segs[i].base..(segs[i].next - 1)
         PROVE  offset \in deleted'
    <2>1. segs[i] \in gone
      BY <1>4, <1>8, <1>12, Zenon
    <2> QED BY <1>7, <2>1, Zenon
  <1>13. \A offset : offset \in deleted => offset \in deleted'
    BY <1>7, Zenon
  <1> QED BY <1>11, <1>12, <1>13, Zenon

\* Retention takes whole segments, and the records of the others stay.
LEMMA deleteExpiredSegmentsHolds ==
    ASSUME FilesInv, FilesInv', CountInv, HoldInv, deleteExpiredSegments
    PROVE  HoldInv'
  <1>1. pc = "up" /\ NoReader /\ UNCHANGED <<applied, unclean, todo, reading, pc>>
    BY Zenon DEF deleteExpiredSegments
  <1>2. pc # "down" /\ pc' # "down" /\ pc' # "close" /\ pc' # "late"
    BY <1>1
  <1> SUFFICES ASSUME ~unclean
               PROVE  /\ OpenHolds(disk', segs', Sent', StoreSent')
                      /\ segs'[Len(segs')].next = applied'
                      /\ Covers(segs', deleted', applied')
    BY <1>1, <1>2, Zenon DEF HoldInv
  <1>3. Sent = {} /\ StoreSent = {} /\ Sent' = {} /\ StoreSent' = {}
    BY <1>1, StillNothingSent
  <1>4. /\ OpenLog(disk, segs) /\ OpenHolds(disk, segs, {}, {})
        /\ segs[Len(segs)].next = applied /\ Covers(segs, deleted, applied)
    BY <1>2, <1>3, HoldParts, Zenon
  <1>5. PICK d, s, e, t, n, m : /\ d = disk /\ s = segs /\ e = disk' /\ t = segs'
                                /\ n = Len(segs) /\ m = Len(segs')
    OBVIOUS
  <1>6. m \in Nat /\ m > 0 /\ t[m] = s[n] /\ n \in Nat
    <2>1. Len(segs) \in Nat
      BY <1>4, OpenHasFiles, Zenon
    <2> QED BY <1>5, <2>1, RemainingIs, Zenon
  <1>7. PICK o \in [1..m -> 1..n] :
           /\ \A k \in 1..m : t[k] = s[o[k]] /\ Stays(s[o[k]])
           /\ \A k, l \in 1..m : k < l => o[k] < o[l]
           /\ \A i \in 1..n : Stays(s[i]) => \E k \in 1..m : o[k] = i
    BY <1>5, RemainingIs, ZenonT(90)
  <1>8. OpenLog(e, t)
    BY <1>2, <1>5, Zenon DEF FilesInv
  <1>9. /\ \A i \in 1..n : Stays(s[i]) /\ s[i].base \in DOMAIN e =>
              e[s[i].base].store = d[s[i].base].store /\ e[s[i].base].index = d[s[i].base].index
              /\ e[s[i].base].linked
        /\ \A offset : offset \in deleted => offset \in deleted'
        /\ \A i \in 1..n : ~Stays(s[i]) =>
              \A offset \in s[i].base..(s[i].next - 1) : offset \in deleted'
    BY <1>5, RetentionIs, Zenon
  <1>10. ASSUME NEW k \in 1..m
         PROVE  HoldsOf(e, t, {}, {}, k)
    <2>1. PICK i \in 1..n : i = o[k]
      BY <1>7
    <2>2. t[k] = s[i] /\ Stays(s[i])
      BY <1>7, <2>1, Zenon
    <2>3. HoldsOf(d, s, {}, {}, i)
      BY <1>4, <1>5, <2>1, Zenon DEF OpenHolds
    <2>4. s[i].base \in DOMAIN e
      <3>1. t[k].base \in DOMAIN e
        BY <1>5, <1>8, ContentsAreSeqs, Zenon
      <3> QED BY <2>2, <3>1, Zenon
    <2>5. /\ e[t[k].base].store = d[s[i].base].store /\ e[t[k].base].index = d[s[i].base].index
          /\ e[t[k].base].linked
      BY <1>9, <2>2, <2>4, Zenon
    <2>6. StoreOf(e, t, {}, k) = StoreOf(d, s, {}, i) /\ IndexOf(e, t, {}, k) = IndexOf(d, s, {}, i)
      <3>1. /\ StoreOf(e, t, {}, k) = e[t[k].base].store \o t[k].sbuf
            /\ IndexOf(e, t, {}, k) = e[t[k].base].index \o t[k].ibuf
        BY ContentsUnsent, Zenon
      <3>2. /\ StoreOf(d, s, {}, i) = d[s[i].base].store \o s[i].sbuf
            /\ IndexOf(d, s, {}, i) = d[s[i].base].index \o s[i].ibuf
        BY ContentsUnsent, Zenon
      <3> QED BY <2>2, <2>5, <3>1, <3>2, Zenon
    <2>7. /\ Holds(StoreOf(d, s, {}, i), IndexOf(d, s, {}, i), s[i].base, s[i].next)
          /\ s[i].size = Len(StoreOf(d, s, {}, i))
          /\ i < n => s[i].base < s[i].next
      BY <1>5, <2>3, Zenon DEF HoldsOf
    <2>8. Holds(StoreOf(e, t, {}, k), IndexOf(e, t, {}, k), t[k].base, t[k].next)
          /\ t[k].size = Len(StoreOf(e, t, {}, k))
      BY <2>2, <2>6, <2>7, Zenon
    <2>9. k < m => t[k].base < t[k].next
      <3> SUFFICES ASSUME k < m
                   PROVE  t[k].base < t[k].next
        OBVIOUS
      <3>1. m \in 1..m
        BY <1>6
      <3>2. i < o[m] /\ o[m] \in 1..n
        BY <1>7, <2>1, <3>1, Zenon
      <3>3. i < n
        BY <1>6, <3>2
      <3> QED BY <2>2, <2>7, <3>3, Zenon
    <2> QED BY <1>5, <2>5, <2>8, <2>9, Zenon DEF HoldsOf
  <1>11. OpenHolds(e, t, {}, {})
    BY <1>5, <1>10, Zenon DEF OpenHolds
  <1>12. ASSUME NEW offset \in 0..(applied - 1)
         PROVE  offset \in deleted' \/ \E k \in 1..m : offset \in t[k].base..(t[k].next - 1)
    <2>1. CASE offset \in deleted
      BY <1>9, <2>1, Zenon
    <2>2. CASE offset \notin deleted
      <3>1. PICK i \in 1..n : offset \in s[i].base..(s[i].next - 1)
        BY <1>4, <1>5, <2>2, Zenon DEF Covers
      <3>2. CASE Stays(s[i])
        <4>1. PICK k \in 1..m : o[k] = i
          BY <1>7, <3>2, Zenon
        <4>2. t[k] = s[i]
          BY <1>7, <4>1, Zenon
        <4>3. offset \in t[k].base..(t[k].next - 1)
          BY <3>1, <4>2, Zenon
        <4> QED BY <4>3, Zenon
      <3>3. CASE ~Stays(s[i])
        BY <1>9, <3>1, <3>3, Zenon
      <3> QED BY <3>2, <3>3
    <2> QED BY <2>1, <2>2
  <1>13. Covers(t, deleted', applied)
    BY <1>5, <1>12, Zenon DEF Covers
  <1>14. t[m].next = applied
    BY <1>4, <1>5, <1>6, Zenon
  <1> QED BY <1>1, <1>3, <1>5, <1>11, <1>13, <1>14, Zenon

-----------------------------------------------------------------------------
(***************************************************************************)
(* Every offset reads back its own record.                                 *)
(***************************************************************************)
\* Every step keeps what the log holds; one that is not orderly says so.
LEMMA HoldStep ==
    ASSUME OneReader, FilesInv, CountInv, HoldInv, [Next]_vars
    PROVE  HoldInv'
  <1> USE OneReader
  <1>0. FilesInv'
    BY FilesStep DEF FilesKept
  <1>1. CASE newWAL
    BY <1>0, <1>1, newWALHolds
  <1>2. CASE newWALFails \/ UNCHANGED vars
    <2>1. UNCHANGED vars
      BY <1>2 DEF newWALFails
    <2>2. UNCHANGED <<disk, segs, applied, deleted, unclean, todo, reading, pc>>
      BY <2>1 DEF vars
    <2>3. Sent' = Sent /\ StoreSent' = StoreSent
      BY <2>2, Zenon DEF Sent, StoreSent
    <2> QED BY <2>2, <2>3, Zenon DEF HoldInv
  <1>3. CASE append
    BY <1>0, <1>3, appendHolds
  <1>4. CASE appendClosed \/ Crash \/ CrashOpening
    <2>1. unclean' = TRUE
      BY <1>4, Zenon DEF appendClosed, Crash, CrashOpening
    <2> QED BY <2>1, Zenon DEF HoldInv
  <1>5. CASE flush \/ FlushDone
    BY <1>0, <1>5, flushHolds
  <1>6. CASE close
    BY <1>0, <1>6, closeHolds
  <1>7. CASE FlushStep
    BY <1>0, <1>7, FlushStepHolds
  <1>8. CASE Closed
    BY <1>8, ClosedHolds
  <1>9. CASE \E r \in Reader, offset \in Offset : ReadBegin(r, offset)
    BY <1>0, <1>9, ReadBeginHolds, Zenon
  <1>10. CASE \E r \in Reader : ReadWritesIndex(r)
    BY <1>0, <1>10, ReadWritesIndexHolds, Zenon
  <1>11. CASE \E r \in Reader : ReadEmptiesIndex(r)
    BY <1>0, <1>11, ReadEmptiesIndexHolds, Zenon
  <1>12. CASE \E r \in Reader : ReadWritesStore(r)
    BY <1>0, <1>12, ReadWritesStoreHolds, Zenon
  <1>13. CASE \E r \in Reader : ReadEnd(r)
    BY <1>0, <1>13, ReadEndHolds, Zenon
  <1>14. CASE \E b \in DOMAIN disk : Expire(b)
    BY <1>0, <1>14, ExpireHolds, Zenon
  <1>15. CASE deleteExpiredSegments
    BY <1>0, <1>15, deleteExpiredSegmentsHolds
  <1> QED BY <1>1, <1>2, <1>3, <1>4, <1>5, <1>6, <1>7, <1>8, <1>9, <1>10, <1>11, <1>12,
             <1>13, <1>14, <1>15, Zenon DEF Next

\* THEOREM: as long as shutdowns are orderly, files and buffers together hold
\* exactly the records applied, each where its index entry says, and a shutdown
\* leaves nothing in a buffer (HoldInv; wal.go:27-190, segment.go:31-164).
THEOREM HoldInvariant ==
    ASSUME OneReader
    PROVE  Spec => []HoldInv
  <1> USE OneReader
  <1>1. Init => HoldInv
    <2> SUFFICES ASSUME Init
                 PROVE  HoldInv
      OBVIOUS
    <2>1. disk = <<>> /\ pc = "down"
      BY DEF Init
    <2>2. DOMAIN disk = {} /\ pc # "close" /\ pc # "late"
      BY <2>1
    <2>3. ShutHolds(disk) /\ ShutCovers(disk, deleted)
      BY <2>2, Zenon DEF ShutHolds, ShutCovers
    <2> QED BY <2>1, <2>2, <2>3, Zenon DEF HoldInv
  <1>2. FilesInv /\ CountInv /\ HoldInv /\ [Next]_vars => HoldInv'
    BY HoldStep
  <1> QED BY <1>1, <1>2, FilesInvariant, CountInvariant, PTL DEF Spec

\* THEOREM: through buffers that spill, flushes, reads, rotations, orderly
\* shutdowns, reopening and retention, every offset below NextOffset reads back
\* the record Raft applied for it, unless retention has removed its segment
\* (EveryOffsetReadsBack; wal.go:27-190).
THEOREM OffsetsReadBack ==
    ASSUME OneReader
    PROVE  Spec => []EveryOffsetReadsBack
  <1>1. FilesInv /\ CountInv /\ HoldInv => EveryOffsetReadsBack
    <2> SUFFICES ASSUME FilesInv, CountInv, HoldInv, Serving, ~unclean,
                        NEW offset \in 0..(NextOffset - 1), offset \notin deleted
                 PROVE  Lookup(offset) = offset
      BY Zenon DEF EveryOffsetReadsBack
    <2>1. pc # "down" /\ NoReader
      BY Zenon DEF Serving
    <2>2. Sent = {} /\ StoreSent = {}
      BY <2>1, NothingSent
    <2>3. /\ OpenLog(disk, segs) /\ OpenHolds(disk, segs, {}, {})
          /\ segs[Len(segs)].next = applied /\ Covers(segs, deleted, applied)
      BY <2>1, <2>2, HoldParts, Zenon
    <2>4. offset \in 0..(applied - 1)
      BY <2>3, Zenon DEF NextOffset, Active
    <2>5. PICK i \in 1..Len(segs) : offset \in segs[i].base..(segs[i].next - 1)
      BY <2>3, <2>4, Zenon DEF Covers
    <2>6. Has(i, offset) /\ offset \in Nat
      <3>1. offset \in Nat
        BY <2>4
      <3> QED BY <2>5, <3>1, Zenon DEF Has
    <2>7. findSegment(offset) = i
      <3>1. Sorted
        BY SegmentsAreSorted
      <3>2. findSegment(offset) \in 1..Len(segs) /\ Has(findSegment(offset), offset)
        BY <2>6, <3>1, SearchFinds, Zenon
      <3> QED BY <2>6, <3>1, <3>2, Elsewhere, Zenon
    <2>8. i # 0
      OBVIOUS
    <2>9. Holds(StoreOf(disk, segs, {}, i), IndexOf(disk, segs, {}, i), segs[i].base, segs[i].next)
      BY <2>3, Zenon DEF OpenHolds, HoldsOf
    <2>10. RecordFound(StoreOf(disk, segs, {}, i), IndexOf(disk, segs, {}, i),
                       offset - segs[i].base) = offset
      BY <2>5, <2>9, Zenon DEF Holds
    <2>11. PICK st, ix, sb, ib : /\ st = disk[segs[i].base].store /\ ix = disk[segs[i].base].index
                                 /\ sb = segs[i].sbuf /\ ib = segs[i].ibuf
      OBVIOUS
    <2>12. StoreOf(disk, segs, {}, i) = st \o sb /\ IndexOf(disk, segs, {}, i) = ix \o ib
      BY <2>11, ContentsUnsent, Zenon
    <2>13. Written(Store(segs[i])) = st \o sb
      <3>1. PICK w : w = [file |-> st, buf |-> sb]
        OBVIOUS
      <3>2. Store(segs[i]) = w
        BY <2>11, <3>1, Zenon DEF Store
      <3>3. Written(w) = st \o sb
        BY <3>1 DEF Written
      <3> QED BY <3>2, <3>3, Zenon
    <2>14. Written(Index(segs[i])) = ix \o ib
      <3>1. PICK w : w = [file |-> ix, buf |-> ib]
        OBVIOUS
      <3>2. Index(segs[i]) = w
        BY <2>11, <3>1, Zenon DEF Index
      <3>3. Written(w) = ix \o ib
        BY <3>1 DEF Written
      <3> QED BY <3>2, <3>3, Zenon
    <2>15. Lookup(offset) = RecordFound(Written(Store(segs[i])), Written(Index(segs[i])),
                                        offset - segs[i].base)
      BY <2>7, <2>8, Zenon DEF Lookup
    <2> QED BY <2>10, <2>12, <2>13, <2>14, <2>15, Zenon
  <1> QED BY <1>1, FilesInvariant, CountInvariant, HoldInvariant, PTL
=============================================================================
