-------------------------- MODULE PvmMemoryProofs --------------------------
(***************************************************************************)
(* The memory of the virtual machine and the machines of a refinement, for *)
(* every layout and width of registers, pages and octets: what memory      *)
(* grants is accessible, a fault names the first page that lacks the       *)
(* access, and inner machines keep to themselves.                          *)
(***************************************************************************)
EXTENDS PvmMemory, RefineMachines, FiniteSetTheorems, TLAPS

HIDE SegmentsAssumption
HIDE MemoryAssumption
HIDE RefineAssumption

-----------------------------------------------------------------------------
(* Numbers.                                                                *)

\* A nonempty set of natural numbers has a least element.
LEMMA LeastExists ==
  ASSUME NEW S, S \subseteq Nat, S # {}
  PROVE  \E m \in S : \A n \in S : m <= n
<1>1. PICK m \in S : \A n \in S : ~ (<<n, m>> \in OpToRel(<, Nat))
  BY NatLessThanWellFounded, WFMin
<1>2. ASSUME NEW n \in S, n < m PROVE FALSE
  <2>1. <<n, m>> \in OpToRel(<, Nat)
    BY <1>2 DEF OpToRel
  <2> QED BY <1>1, <2>1
<1> QED BY <1>2

\* Min is that element.
LEMMA MinFacts ==
  ASSUME NEW S, S \subseteq Nat, S # {}
  PROVE  Min(S) \in S /\ \A n \in S : Min(S) <= n
BY LeastExists DEF Min

\* The elements of a sequence.
LEMMA MemberOfSeq ==
  ASSUME NEW S, NEW seq \in Seq(S), NEW i \in 1 .. Len(seq)
  PROVE  seq[i] \in S
OBVIOUS

\* A sequence given by its length and its elements.
LEMMA IsSeq ==
  ASSUME NEW S, NEW n \in Nat, NEW f \in [1 .. n -> S]
  PROVE  f \in Seq(S)
OBVIOUS

-----------------------------------------------------------------------------
(* PvmSegments.                                                            *)

\* The segments, by name.
LEMMA SegmentNames == Segments = {"stack", "rw", "ro", "args"}
<1>1. /\ Order[1] = "stack" /\ Order[2] = "rw" /\ Order[3] = "ro" /\ Order[4] = "args"
  BY DEF Order
<1>2. 1 .. 4 = {1, 2, 3, 4}
  OBVIOUS
<1> QED BY <1>1, <1>2 DEF Segments

\* The segment that is found is one that fits, and one is found if any fits.
LEMMA FirstFound ==
  ASSUME NEW hits \in SUBSET (1 .. 4), hits # {}
  PROVE  Min(hits) \in hits /\ Order[Min(hits)] \in Segments
<1>1. hits \subseteq Nat
  OBVIOUS
<1>2. Min(hits) \in hits
  BY <1>1, MinFacts
<1> QED BY <1>2 DEF Segments

\* SegmentOf finds a segment that holds the range if there is one.
LEMMA SegmentOfFacts ==
  ASSUME NEW m, NEW x, NEW n
  PROVE  \/ SegmentOf(m, x, n) = "none" /\ \A s \in Segments : ~Holds(m[s], x, n)
         \/ SegmentOf(m, x, n) \in Segments /\ Holds(m[SegmentOf(m, x, n)], x, n)
<1> DEFINE hits == {i \in 1 .. 4 : Holds(m[Order[i]], x, n)}
<1>1. SegmentOf(m, x, n) = IF hits = {} THEN "none" ELSE Order[Min(hits)]
  BY DEF SegmentOf, First
<1>2. CASE hits = {}
  BY <1>1, <1>2 DEF Segments
<1>3. CASE hits # {}
  <2>1. Min(hits) \in hits /\ Order[Min(hits)] \in Segments
    BY <1>3, FirstFound
  <2> QED BY <1>1, <1>3, <2>1
<1> QED BY <1>2, <1>3

-----------------------------------------------------------------------------
(* PvmMemory: arithmetic of pages.                                         *)

\* Division by a positive number, as TLA+ defines it.
LEMMA ModFacts ==
  ASSUME NEW a \in Int, NEW n \in Nat \ {0}
  PROVE  /\ a % n \in 0 .. n - 1
         /\ a \div n \in Int
         /\ a = n * (a \div n) + (a % n)
OBVIOUS

\* A smaller factor makes the product smaller by a whole n at least.
LEMMA Multiples ==
  ASSUME NEW n \in Nat \ {0}, NEW a \in Int, NEW b \in Int, a < b
  PROVE  n * a + n <= n * b
<1> DEFINE d == b - a - 1
<1>1. d \in Nat /\ b = a + 1 + d
  OBVIOUS
<1> HIDE DEF d
<1>2. n * b = n * a + n + n * d /\ n * d >= 0
  BY <1>1
<1> QED BY <1>2

\* The page of an address is the only one around it, and pages are in the order of
\* their addresses.
LEMMA PageFacts ==
  ASSUME NEW n \in Nat \ {0}, NEW a \in Int
  PROVE  /\ a \div n \in Int
         /\ n * (a \div n) <= a /\ a < n * (a \div n) + n
         /\ \A q \in Int : n * q <= a /\ a < n * q + n => a \div n = q
         /\ \A k \in Int : n * k <= a <=> k <= a \div n
<1> DEFINE d == a \div n
<1>1. d \in Int /\ n * d <= a /\ a < n * d + n
  BY ModFacts
<1> HIDE DEF d
<1>2. ASSUME NEW k \in Int PROVE n * k <= a <=> k <= d
  <2>1. CASE k <= d
    <3>1. n * k <= n * d
      BY <1>1, <2>1, Multiples
    <3> QED BY <1>1, <2>1, <3>1
  <2>2. CASE d < k
    <3>1. n * d + n <= n * k
      BY <1>1, <2>2, Multiples
    <3> QED BY <1>1, <2>2, <3>1
  <2> QED BY <1>1, <2>1, <2>2
<1>3. ASSUME NEW q \in Int, n * q <= a, a < n * q + n PROVE d = q
  <2>1. q <= d
    BY <1>2, <1>3
  <2>2. ~(q < d)
    <3> SUFFICES ASSUME q < d PROVE FALSE
      OBVIOUS
    <3>1. n * q + n <= n * d
      BY <1>1, Multiples
    <3> QED BY <1>1, <1>3, <3>1
  <2> QED BY <1>1, <2>1, <2>2
<1> QED BY <1>1, <1>2, <1>3 DEF d

\* Pages are ordered as the addresses in them are.
LEMMA PagesOrdered ==
  ASSUME NEW n \in Nat \ {0}, NEW a \in Int, NEW b \in Int, a <= b
  PROVE  a \div n <= b \div n
<1>1. a \div n \in Int /\ n * (a \div n) <= a
  BY PageFacts
<1>2. n * (a \div n) <= b
  BY <1>1
<1> QED BY <1>1, <1>2, PageFacts

\* Aligning rounds up to a multiple.
LEMMA AlignFacts ==
  ASSUME NEW x \in Nat, NEW n \in Nat \ {0}
  PROVE  /\ AlignTo(x, n) \in Nat
         /\ AlignTo(x, n) >= x
         /\ \E k \in Nat : AlignTo(x, n) = n * k
<1>1. /\ x % n \in 0 .. n - 1 /\ x \div n \in Int
      /\ x = n * (x \div n) + (x % n)
  BY ModFacts
<1>2. x \div n >= 0
  BY <1>1, PageFacts
<1>3. CASE x % n = 0
  <2>1. AlignTo(x, n) = x
    BY <1>3 DEF AlignTo
  <2> DEFINE k == x \div n
  <2>2. k \in Nat /\ x = n * k
    BY <1>1, <1>2, <1>3
  <2> HIDE DEF k
  <2> QED BY <2>1, <2>2
<1>4. CASE x % n # 0
  <2> DEFINE q == (x + n) \div n
  <2>1. AlignTo(x, n) = q * n
    BY <1>4 DEF AlignTo
  <2>2. q \in Int /\ n * q <= x + n /\ x + n < n * q + n
    BY PageFacts
  <2>3. q >= 0
    BY PageFacts
  <2> HIDE DEF q
  <2>4. q \in Nat /\ q * n = n * q /\ n * q \in Nat
    BY <2>2, <2>3
  <2> QED BY <2>1, <2>2, <2>4
<1> QED BY <1>3, <1>4

-----------------------------------------------------------------------------
(* PvmMemory: segments of whole pages.                                     *)

Inside(s, x) == x >= s.address /\ x < End(s)

\* Segments begin and end at the boundaries of pages.
Shape(m) ==
  /\ m \in [Segments -> [address : Int, access : {"R", "W", "none"}, data : Seq({0, 1})]]
  /\ \A s \in Segments :
      \E k, l \in Int : m[s].address = PageSize * k /\ End(m[s]) = PageSize * l

\* Where a segment starts and ends.
LEMMA SegmentNumbers ==
  ASSUME NEW m, Shape(m), NEW s \in Segments
  PROVE  /\ m[s].address \in Int /\ End(m[s]) \in Int /\ Len(m[s].data) \in Nat
         /\ End(m[s]) = m[s].address + Len(m[s].data)
BY DEF Shape, End

\* A segment that holds a byte is not empty.
LEMMA NotEmpty ==
  ASSUME NEW m, Shape(m), NEW s \in Segments, NEW x \in Int, Inside(m[s], x)
  PROVE  Len(m[s].data) > 0
<1> DEFINE a == m[s].address
           e == End(m[s])
           n == Len(m[s].data)
<1>1. a \in Int /\ e \in Int /\ n \in Nat /\ e = a + n
  BY SegmentNumbers
<1>2. x >= a /\ x < e
  BY DEF Inside
<1> HIDE DEF a, e, n
<1>3. n > 0
  BY <1>1, <1>2
<1> QED BY <1>3 DEF n

\* A segment holds a byte exactly when it holds the start of the byte's page.
LEMMA WholePages ==
  ASSUME NEW m, Shape(m), NEW s \in Segments, NEW x \in Int
  PROVE  Inside(m[s], x) <=> Inside(m[s], (x \div PageSize) * PageSize)
<1> DEFINE q == x \div PageSize
<1>1. PageSize \in Nat \ {0}
  BY SegmentsAssumption
<1>2. PICK k \in Int, l \in Int : m[s].address = PageSize * k /\ End(m[s]) = PageSize * l
  BY DEF Shape
<1>3. q \in Int /\ (PageSize * k <= x <=> k <= q) /\ (PageSize * l <= x <=> l <= q)
  BY <1>1, PageFacts
<1> DEFINE y == PageSize * q
<1>4. y \in Int /\ y \div PageSize = q
  <2>1. y \in Int /\ y < y + PageSize
    BY <1>1, <1>3
  <2> QED BY <1>1, <1>3, <2>1, PageFacts
<1>5. (PageSize * k <= y <=> k <= q) /\ (PageSize * l <= y <=> l <= q)
  <2> HIDE DEF y, q
  <2> QED BY <1>1, <1>4, PageFacts
<1>6. q * PageSize = y
  BY <1>1, <1>3
<1>7. PageSize * k \in Int /\ PageSize * l \in Int
  BY <1>1
<1> HIDE DEF q, y
<1>8. (m[s].address <= x <=> m[s].address <= y) /\ (End(m[s]) <= x <=> End(m[s]) <= y)
  BY <1>2, <1>3, <1>5
<1> QED BY <1>2, <1>4, <1>6, <1>7, <1>8 DEF Inside, q

\* In a memory whose segments do not reach each other, a byte is in one segment.
LEMMA OneSegment ==
  ASSUME NEW m, Shape(m), Apart(m), NEW s \in Segments, NEW t \in Segments,
         NEW x \in Int, Inside(m[s], x), Inside(m[t], x)
  PROVE  s = t
<1> SUFFICES ASSUME s # t PROVE FALSE
  OBVIOUS
<1>1. /\ m[s].address \in Int /\ End(m[s]) \in Int /\ Len(m[s].data) \in Nat
      /\ End(m[s]) = m[s].address + Len(m[s].data)
      /\ m[t].address \in Int /\ End(m[t]) \in Int /\ Len(m[t].data) \in Nat
      /\ End(m[t]) = m[t].address + Len(m[t].data)
  BY SegmentNumbers
<1>2. Len(m[s].data) > 0 /\ Len(m[t].data) > 0
  BY NotEmpty
<1>3. \/ m[s].address <= m[t].address /\ End(m[s]) < m[t].address
      \/ m[t].address <= m[s].address /\ End(m[t]) < m[s].address
  BY <1>1, <1>2 DEF Apart
<1> QED BY <1>1, <1>3 DEF Inside

\* SegmentAt finds a segment that holds the byte if there is one.
LEMMA SegmentAtFacts ==
  ASSUME NEW m, NEW x
  PROVE  \/ SegmentAt(m, x) = "none" /\ \A s \in Segments : ~Inside(m[s], x)
         \/ SegmentAt(m, x) \in Segments /\ Inside(m[SegmentAt(m, x)], x)
<1> DEFINE hits == {i \in 1 .. 4 : x >= m[Order[i]].address /\ x < End(m[Order[i]])}
<1>1. SegmentAt(m, x) = IF hits = {} THEN "none" ELSE Order[Min(hits)]
  BY DEF SegmentAt, First
<1>2. CASE hits = {}
  BY <1>1, <1>2 DEF Segments, Inside
<1>3. CASE hits # {}
  <2>1. Min(hits) \in hits /\ Order[Min(hits)] \in Segments
    BY <1>3, FirstFound
  <2> QED BY <1>1, <1>3, <2>1 DEF Inside
<1> QED BY <1>2, <1>3

\* No segment is called none.
LEMMA NoneIsNoSegment == "none" \notin Segments
BY SegmentNames

\* The access of a byte is that of its page.
LEMMA PageAccess ==
  ASSUME NEW m, Shape(m), Apart(m), NEW x \in Int, NEW allowed, "none" \notin allowed
  PROVE  GetAccess(m, x \div PageSize) \in allowed <=> Allowed(m, x, allowed)
<1> DEFINE y == (x \div PageSize) * PageSize
           s == SegmentAt(m, y)
<1>1. y \in Int
  <2>1. PageSize \in Nat \ {0}
    BY SegmentsAssumption
  <2>2. x \div PageSize \in Int
    BY <2>1, PageFacts
  <2> QED BY <2>1, <2>2
<1>2. \A t \in Segments : Inside(m[t], x) <=> Inside(m[t], y)
  BY WholePages
<1>3. GetAccess(m, x \div PageSize) = IF s = "none" THEN "none" ELSE m[s].access
  BY DEF GetAccess
<1>4. Allowed(m, x, allowed) <=> \E t \in Segments : Inside(m[t], y) /\ m[t].access \in allowed
  BY <1>2 DEF Allowed, Inside
<1> HIDE DEF y
<1>5. \/ s = "none" /\ \A t \in Segments : ~Inside(m[t], y)
      \/ s \in Segments /\ Inside(m[s], y)
  BY SegmentAtFacts
<1>6. CASE s = "none" /\ \A t \in Segments : ~Inside(m[t], y)
  BY <1>3, <1>4, <1>6
<1>7. CASE s \in Segments /\ Inside(m[s], y)
  <2>1. \A t \in Segments : Inside(m[t], y) => t = s
    BY <1>1, <1>7, OneSegment
  <2>2. s # "none"
    BY <1>7, NoneIsNoSegment
  <2> QED BY <1>3, <1>4, <1>7, <2>1, <2>2
<1> QED BY <1>5, <1>6, <1>7

\* Consecutive bytes that are all allowed lie in one segment.
LEMMA OneRange ==
  ASSUME NEW m, Shape(m), Apart(m), NEW x \in Int, NEW n \in Nat \ {0}, NEW allowed,
         \A b \in x .. x + n - 1 : Allowed(m, b, allowed)
  PROVE  \E s \in Segments :
            m[s].access \in allowed /\ Inside(m[s], x) /\ x + n <= End(m[s])
<1>1. PICK s \in Segments : Inside(m[s], x) /\ m[s].access \in allowed
  BY DEF Allowed, Inside
<1>2. m[s].address \in Int /\ End(m[s]) \in Int
  BY SegmentNumbers
<1>3. x + n <= End(m[s])
  <2> SUFFICES ASSUME End(m[s]) < x + n PROVE FALSE
    BY <1>2
  <2>1. End(m[s]) \in x .. x + n - 1
    BY <1>1, <1>2 DEF Inside
  <2>2. PICK t \in Segments : Inside(m[t], End(m[s]))
    BY <2>1 DEF Allowed, Inside
  <2>3. /\ m[t].address \in Int /\ End(m[t]) \in Int
        /\ End(m[t]) = m[t].address + Len(m[t].data) /\ Len(m[t].data) \in Nat
        /\ End(m[s]) = m[s].address + Len(m[s].data) /\ Len(m[s].data) \in Nat
    BY SegmentNumbers
  <2>4. Len(m[s].data) > 0 /\ Len(m[t].data) > 0
    BY <1>1, <1>2, <2>2, NotEmpty
  <2>5. s # t
    BY <1>2, <2>2 DEF Inside
  <2>6. \/ m[s].address <= m[t].address /\ End(m[s]) < m[t].address
        \/ m[t].address <= m[s].address /\ End(m[t]) < m[s].address
    BY <1>2, <2>3, <2>4, <2>5 DEF Apart
  <2> QED BY <1>1, <1>2, <2>2, <2>3, <2>4, <2>6 DEF Inside
<1> QED BY <1>1, <1>3

\* Reducing a sum below twice the modulus.
LEMMA NoWrap ==
  ASSUME NEW a \in Nat, NEW w \in Nat \ {0}
  PROVE  /\ a < w => a % w = a
         /\ w <= a /\ a < 2 * w => a % w = a - w
<1>1. /\ a % w \in 0 .. w - 1 /\ a \div w \in Int /\ a = w * (a \div w) + (a % w)
  BY ModFacts
<1>2. ASSUME a < w PROVE a % w = a
  <2>1. w * 0 <= a /\ a < w * 0 + w
    BY <1>2
  <2>2. a \div w = 0
    BY <2>1, PageFacts
  <2> QED BY <1>1, <2>2
<1>3. ASSUME w <= a, a < 2 * w PROVE a % w = a - w
  <2>1. w * 1 <= a /\ a < w * 1 + w
    BY <1>3
  <2>2. a \div w = 1
    BY <2>1, PageFacts
  <2> QED BY <1>1, <2>2
<1> QED BY <1>2, <1>3

\* An access that is accepted lies in one segment that grants it.
LEMMA AcceptedAccess ==
  ASSUME NEW m, Shape(m), NEW x \in Nat, NEW n \in Nat, NEW allowed,
         Access(m, x, n, allowed).res = "ok"
  PROVE  \A b \in x .. x + n - 1 : Allowed(m, b, allowed)
<1> DEFINE s == SegmentOf(m, x, n)
<1>1. s # "none" /\ ~(x + n >= RegWord) /\ m[s].access \in allowed
  BY DEF Access, Fault
<1>2. s \in Segments /\ Holds(m[s], x, n)
  BY <1>1, SegmentOfFacts
<1>3. RegWord \in Nat \ {0}
  BY SegmentsAssumption
<1>4. (x + n) % RegWord = x + n
  <2> DEFINE y == x + n
  <2>1. y \in Nat /\ y < RegWord
    BY <1>1, <1>3
  <2> HIDE DEF y
  <2>2. y % RegWord = y
    BY <1>3, <2>1, NoWrap
  <2> QED BY <2>2 DEF y
<1> HIDE DEF s
<1>5. x >= m[s].address /\ x + n <= End(m[s])
  BY <1>2, <1>4 DEF Holds
<1>6. m[s].address \in Int /\ End(m[s]) \in Int
  BY <1>2, SegmentNumbers
<1> QED BY <1>1, <1>2, <1>5, <1>6 DEF Allowed

\* A fault names the page of the first byte that is not allowed: the pages are
\* searched in order, a byte has its page's access, and were only the page after
\* the range bad, the range would lie in one segment and be accepted.
LEMMA FaultedAccess ==
  ASSUME NEW m, Shape(m), Apart(m), NEW x \in Nat, x < RegWord,
         NEW n \in 1 .. MemoryZoneSize, NEW allowed, "none" \notin allowed,
         NEW r, r = Access(m, x, n, allowed), r.res = "fault"
  PROVE  LET bad == {b \in x .. x + n - 1 : ~Allowed(m, b, allowed)}
         IN  bad # {} /\ r.page = Min(bad) \div PageSize
<1> DEFINE P == PageSize
           bad == {b \in x .. x + n - 1 : ~Allowed(m, b, allowed)}
           end == (x + n) % RegWord
           pages == {p \in (x \div P) .. (end \div P) : GetAccess(m, p) \notin allowed}
<1>0. /\ P \in Nat \ {0} /\ MemoryZoneSize \in Nat \ {0} /\ MemoryZoneSize % P = 0
      /\ RegWord \in Nat \ {0} /\ RegWord > MemoryZoneSize
      /\ n \in Nat \ {0} /\ n <= MemoryZoneSize
  BY SegmentsAssumption
<1>1. /\ x >= MemoryZoneSize
      /\ r = Fault(m, x, n, allowed)
      /\ SegmentOf(m, x, n) # "none" =>
            ~(x + n >= RegWord) /\ m[SegmentOf(m, x, n)].access \notin allowed
  BY <1>0 DEF Access
<1>2. pages # {} /\ r.page = Min(pages)
  BY <1>1 DEF Fault
<1>3. x + n < RegWord
  <2> SUFFICES ASSUME x + n >= RegWord PROVE FALSE
    BY <1>0
  <2>1. end = (x + n) - RegWord
    <3> DEFINE y == x + n
    <3>1. y \in Nat /\ RegWord <= y /\ y < 2 * RegWord
      BY <1>0
    <3> HIDE DEF y
    <3>2. y % RegWord = y - RegWord
      BY <1>0, <3>1, NoWrap
    <3> QED BY <3>2 DEF y
  <2>2. end \in Nat /\ end < MemoryZoneSize
    BY <1>0, <2>1
  <2>3. MemoryZoneSize = P * (MemoryZoneSize \div P) /\ MemoryZoneSize \div P \in Int
    BY <1>0, ModFacts
  <2> DEFINE z == MemoryZoneSize \div P
  <2>4. z <= x \div P
    <3>1. P * z <= x
      BY <1>0, <1>1, <2>3
    <3> QED BY <1>0, <2>3, <3>1, PageFacts
  <2>5. end \div P < z
    <3>1. ~(P * z <= end)
      BY <1>0, <2>2, <2>3
    <3>2. P \in Nat \ {0} /\ end \in Int /\ z \in Int
      BY <1>0, <2>2, <2>3
    <3> HIDE DEF z, end
    <3>3. end \div P \in Int /\ (P * z <= end <=> z <= end \div P)
      BY <3>2, PageFacts
    <3> QED BY <3>1, <3>2, <3>3
  <2>6. x \div P \in Int /\ end \div P \in Int
    BY <1>0, <2>2, PageFacts
  <2>7. (x \div P) .. (end \div P) = {}
    BY <2>3, <2>4, <2>5, <2>6
  <2> QED BY <1>2, <2>7
<1>4. end = x + n
  <2> DEFINE y == x + n
  <2>1. y \in Nat /\ y < RegWord
    BY <1>0, <1>3
  <2> HIDE DEF y
  <2>2. y % RegWord = y
    BY <1>0, <2>1, NoWrap
  <2> QED BY <2>2 DEF y
<1> DEFINE first == x \div P
           last0 == (x + n) \div P
<1>5. first \in Nat /\ last0 \in Int
  <2>1. P * 0 <= x
    BY <1>0
  <2> QED BY <1>0, <2>1, PageFacts
<1>6. pages = {p \in first .. last0 : GetAccess(m, p) \notin allowed}
  BY <1>4
<1> HIDE DEF pages, first, last0, end
<1>7. pages \subseteq Nat
  BY <1>5, <1>6
<1> DEFINE p0 == Min(pages)
<1>8. p0 \in pages /\ \A p \in pages : p0 <= p
  BY <1>2, <1>7, MinFacts
<1> HIDE DEF p0
<1>9. p0 \in Nat /\ first <= p0 /\ p0 <= last0 /\ GetAccess(m, p0) \notin allowed
  BY <1>5, <1>6, <1>7, <1>8
\* The pages of bad bytes are bad.
<1>10. ASSUME NEW b \in bad PROVE b \in Nat /\ b \div P \in pages /\ p0 <= b \div P
  <2>1. b \in Nat /\ x <= b /\ b <= x + n /\ ~Allowed(m, b, allowed)
    BY <1>0, <1>10
  <2>2. first <= b \div P /\ b \div P <= last0
    BY <1>0, <2>1, PagesOrdered DEF first, last0
  <2>3. GetAccess(m, b \div P) \notin allowed
    BY <2>1, PageAccess
  <2>4. b \div P \in Int
    BY <1>0, <2>1, PageFacts
  <2>5. b \div P \in first .. last0
    BY <1>5, <2>2, <2>4
  <2> QED BY <1>6, <1>8, <2>1, <2>3, <2>5
\* The first byte of the range in the first bad page.
<1> DEFINE b0 == IF first = p0 THEN x ELSE P * p0
<1>11. b0 \in Nat /\ x <= b0 /\ b0 <= x + n /\ b0 \div P = p0
  <2>1. CASE first = p0
    BY <1>0, <2>1 DEF first
  <2>2. CASE first # p0
    <3>1. P * p0 \in Nat /\ P * p0 < P * p0 + P
      BY <1>0, <1>9
    <3>2. (P * p0) \div P = p0
      BY <1>0, <1>9, <3>1, PageFacts
    <3>3. P * p0 <= x + n
      BY <1>0, <1>5, <1>9, PageFacts DEF last0
    <3>4. ~(P * p0 <= x)
      <4>1. P * p0 <= x <=> p0 <= first
        BY <1>0, <1>9, PageFacts DEF first
      <4> QED BY <1>5, <1>9, <2>2, <4>1
    <3> QED BY <2>2, <3>1, <3>2, <3>3, <3>4
  <2> QED BY <2>1, <2>2
<1>12. ~Allowed(m, b0, allowed)
  <2> HIDE DEF b0
  <2> QED BY <1>9, <1>11, PageAccess
<1> HIDE DEF b0
<1>13. b0 # x + n
  <2> SUFFICES ASSUME b0 = x + n PROVE FALSE
    OBVIOUS
  <2>1. ASSUME NEW b \in x .. x + n - 1 PROVE Allowed(m, b, allowed)
    <3> SUFFICES ASSUME ~Allowed(m, b, allowed) PROVE FALSE
      OBVIOUS
    <3>1. b \in bad
      OBVIOUS
    <3>2. b \in Nat /\ p0 <= b \div P
      BY <1>10, <3>1
    <3>3. P * p0 <= b
      BY <1>0, <1>9, <3>2, PageFacts
    <3>4. first # p0
      BY <1>0 DEF b0
    <3>5. b0 = P * p0
      BY <3>4 DEF b0
    <3> QED BY <1>0, <3>2, <3>3, <3>5
  <2>2. PICK s \in Segments :
          m[s].access \in allowed /\ Inside(m[s], x) /\ x + n <= End(m[s])
    <3>1. \A b \in x .. x + n - 1 : Allowed(m, b, allowed)
      BY <2>1
    <3>2. x \in Int /\ n \in Nat \ {0}
      BY <1>0
    <3> HIDE DEF bad
    <3> QED BY <3>1, <3>2, OneRange
  <2>3. Holds(m[s], x, n)
    BY <1>4, <2>2 DEF Holds, Inside, end
  <2> DEFINE t == SegmentOf(m, x, n)
  <2>4. t \in Segments /\ Holds(m[t], x, n)
    BY <2>3, SegmentOfFacts
  <2>5. Inside(m[t], x)
    <3>1. x >= m[t].address /\ x + n <= End(m[t])
      BY <1>4, <2>4 DEF Holds, end
    <3>2. End(m[t]) \in Int
      BY <2>4, SegmentNumbers
    <3> HIDE DEF t
    <3> QED BY <1>0, <3>1, <3>2 DEF Inside
  <2>6. t = s
    BY <2>2, <2>4, <2>5, OneSegment
  <2>7. t # "none"
    BY <2>4, NoneIsNoSegment
  <2> QED BY <1>1, <2>2, <2>6, <2>7
<1>14. b0 \in bad
  BY <1>0, <1>11, <1>12, <1>13
<1>15. bad \subseteq Nat
  BY <1>10
<1> HIDE DEF bad
<1> DEFINE b1 == Min(bad)
<1>16. b1 \in bad /\ b1 <= b0
  BY <1>14, <1>15, MinFacts
<1> HIDE DEF b1
<1>17. b1 \div P = p0
  <2>1. b1 \in Nat /\ p0 <= b1 \div P
    BY <1>10, <1>16
  <2>2. b1 \div P <= b0 \div P
    BY <1>0, <1>11, <1>16, <2>1, PagesOrdered
  <2>3. b1 \div P \in Int
    BY <1>0, <2>1, PageFacts
  <2> QED BY <1>9, <1>11, <2>1, <2>2, <2>3
<1> QED BY <1>2, <1>14, <1>17 DEF b1, p0, bad

-----------------------------------------------------------------------------
(* PvmMemory: the reachable memories.                                      *)

MemoryIInv ==
  /\ Shape(mem)
  /\ mem["rw"].address \in Nat
  /\ out.res = "ok" => mem["rw"].access = "W"

\* A function on 1 .. n with bytes as values is a sequence of length n.
LEMMA BytesFacts ==
  ASSUME NEW n \in Nat, NEW f \in [1 .. n -> {0, 1}]
  PROVE  f \in Seq({0, 1}) /\ Len(f) = n
<1>1. f \in Seq({0, 1})
  BY IsSeq
<1>2. DOMAIN f = 1 .. Len(f) /\ Len(f) \in Nat
  BY <1>1
<1>3. 1 .. Len(f) = 1 .. n
  BY <1>2
<1> QED BY <1>1, <1>2, <1>3

\* A segment at a page with whole pages of bytes.
LEMMA SegmentMade ==
  ASSUME NEW k \in Int, NEW l \in Nat, NEW a, a = PageSize * k,
         NEW n, n = PageSize * l, NEW access \in {"R", "W", "none"},
         NEW f \in [1 .. n -> {0, 1}], NEW s,
         s = [address |-> a, access |-> access, data |-> f]
  PROVE  /\ s \in [address : Int, access : {"R", "W", "none"}, data : Seq({0, 1})]
         /\ \E i, j \in Int : s.address = PageSize * i /\ End(s) = PageSize * j
<1>1. PageSize \in Nat \ {0}
  BY SegmentsAssumption
<1>2. a \in Int /\ n \in Nat
  BY <1>1
<1>3. f \in Seq({0, 1}) /\ Len(f) = n
  BY <1>2, BytesFacts
<1>4. End(s) = a + n
  BY <1>3 DEF End
<1>5. a + n = PageSize * (k + l) /\ k + l \in Int
  BY <1>1
<1> QED BY <1>2, <1>3, <1>4, <1>5

\* A number of remainder zero is a multiple.
LEMMA Divisible ==
  ASSUME NEW a \in Int, NEW n \in Nat \ {0}, a % n = 0
  PROVE  \E q \in Int : a = n * q
<1> DEFINE q == a \div n
<1>1. q \in Int /\ a = n * q
  BY ModFacts
<1> HIDE DEF q
<1> QED BY <1>1

\* copySized fills a segment of the size it is given.
LEMMA CopySizedType ==
  ASSUME NEW n, NEW size
  PROVE  copySized(n, size) \in [1 .. size -> {0, 1}]
BY DEF copySized

\* InitializeMemory builds segments of the right shape, with a writable heap.
LEMMA LayoutShape ==
  ASSUME NEW l \in Program, NEW args \in ArgsSize
  PROVE  /\ Shape(InitializeMemory(l, args))
         /\ InitializeMemory(l, args)["rw"].address \in Nat
         /\ InitializeMemory(l, args)["rw"].access = "W"
<1> DEFINE m == InitializeMemory(l, args)
           P == PageSize
<1>0. /\ P \in Nat \ {0} /\ MemoryZoneSize \in Nat \ {0} /\ MemoryZoneSize % P = 0
      /\ AddressSpaceSize \in Nat /\ AddressSpaceSize % MemoryZoneSize = 0
      /\ InputDataSize \in Nat /\ InputDataSize % P = 0
      /\ l.ro \in Nat /\ l.rw \in Nat /\ l.stack \in Nat /\ l.pages \in Nat
      /\ args \in Nat
  BY SegmentsAssumption, MemoryAssumption
<1>1. PICK z \in Int : MemoryZoneSize = P * z
  <2>1. MemoryZoneSize \in Int /\ P \in Nat \ {0} /\ MemoryZoneSize % P = 0
    BY <1>0
  <2> HIDE DEF P
  <2> QED BY <2>1, Divisible
<1>2. PICK e \in Int : AddressSpaceSize = P * e
  <2>1. PICK q \in Int : AddressSpaceSize = MemoryZoneSize * q
    <3>1. AddressSpaceSize \in Int /\ MemoryZoneSize \in Nat \ {0} /\ AddressSpaceSize % MemoryZoneSize = 0
      BY <1>0
    <3> HIDE DEF P
    <3> QED BY <3>1, Divisible
  <2>2. AddressSpaceSize = P * (z * q) /\ z * q \in Int
    BY <1>0, <1>1, <2>1
  <2> QED BY <2>2
<1>3. PICK d \in Int : InputDataSize = P * d
  <2>1. InputDataSize \in Int /\ P \in Nat \ {0} /\ InputDataSize % P = 0
    BY <1>0
  <2> HIDE DEF P
  <2> QED BY <2>1, Divisible
<1>4. \A n \in Nat : \E k \in Nat : alignToPage(n) = P * k
  BY <1>0, AlignFacts DEF alignToPage
<1>5. PICK o \in Int : alignToZone(l.ro) = P * o /\ alignToZone(l.ro) \in Nat
  <2>1. PICK q \in Nat : alignToZone(l.ro) = MemoryZoneSize * q
    BY <1>0, AlignFacts DEF alignToZone
  <2>2. alignToZone(l.ro) = P * (z * q) /\ z * q \in Int
    BY <1>0, <1>1, <2>1
  <2>3. alignToZone(l.ro) \in Nat
    BY <1>0, AlignFacts DEF alignToZone
  <2> QED BY <2>2, <2>3
<1>6. PICK ro \in Nat, rw \in Nat, st \in Nat, ar \in Nat :
        /\ alignToPage(l.ro) = P * ro /\ alignToPage(l.rw) = P * rw
        /\ alignToPage(l.stack) = P * st /\ alignToPage(args) = P * ar
  BY <1>0, <1>4, ZenonT(60)
<1> DEFINE T == [address : Int, access : {"R", "W", "none"}, data : Seq({0, 1})]
           good(s) == /\ s \in T
                      /\ \E i, j \in Int : s.address = P * i /\ End(s) = P * j
<1>7. good(m["ro"])
  <2>1. m["ro"] = [address |-> MemoryZoneSize, access |-> "R",
                   data |-> copySized(l.ro, alignToPage(l.ro))]
    BY DEF InitializeMemory
  <2> HIDE DEF m
  <2> QED BY <1>1, <1>6, <2>1, SegmentMade, CopySizedType
<1>8. good(m["rw"])
  <2>1. 2 * MemoryZoneSize + alignToZone(l.ro) = P * (2 * z + o) /\ 2 * z + o \in Int
    BY <1>0, <1>1, <1>5
  <2>2. alignToPage(l.rw) + l.pages * P = P * (rw + l.pages) /\ rw + l.pages \in Nat
    BY <1>0, <1>6
  <2>3. m["rw"] = [address |-> 2 * MemoryZoneSize + alignToZone(l.ro), access |-> "W",
                   data |-> copySized(l.rw, alignToPage(l.rw) + l.pages * P)]
    BY DEF InitializeMemory
  <2> HIDE DEF m
  <2> QED BY <2>1, <2>2, <2>3, SegmentMade, CopySizedType
<1>9. good(m["stack"])
  <2>1. StackAddressHigh - alignToPage(l.stack) = P * (e - 2 * z - d - st)
        /\ e - 2 * z - d - st \in Int
    BY <1>0, <1>1, <1>2, <1>3, <1>6 DEF StackAddressHigh
  <2>2. m["stack"] = [address |-> StackAddressHigh - alignToPage(l.stack), access |-> "W",
                      data |-> copySized(0, alignToPage(l.stack))]
    BY DEF InitializeMemory
  <2> HIDE DEF m
  <2> QED BY <1>6, <2>1, <2>2, SegmentMade, CopySizedType
<1>10. good(m["args"])
  <2>1. ArgsAddressLow = P * (e - z - d) /\ e - z - d \in Int
    BY <1>0, <1>1, <1>2, <1>3 DEF ArgsAddressLow
  <2>2. m["args"] = [address |-> ArgsAddressLow, access |-> "R",
                     data |-> copySized(args, alignToPage(args))]
    BY DEF InitializeMemory
  <2> HIDE DEF m
  <2> QED BY <1>6, <2>1, <2>2, SegmentMade, CopySizedType
<1>11. DOMAIN m = Segments /\ m = [s \in Segments |-> m[s]]
  BY SegmentNames DEF InitializeMemory
<1>12. m["rw"].address \in Nat /\ m["rw"].access = "W"
  BY <1>0, <1>5 DEF InitializeMemory
<1> HIDE DEF m, good
<1>13. \A s \in Segments : good(m[s])
  BY <1>7, <1>8, <1>9, <1>10, SegmentNames
<1>14. Shape(m)
  BY <1>11, <1>13 DEF Shape, good
<1> QED BY <1>12, <1>14 DEF m

\* A write changes bytes, never the place or the length of a segment.
LEMMA WrittenShape ==
  ASSUME NEW m, Shape(m), NEW x \in Nat, NEW n \in Nat, NEW b \in {0, 1},
         Write(m, x, n).res = "ok"
  PROVE  /\ Shape(Written(m, x, n, b))
         /\ \A t \in Segments : /\ Written(m, x, n, b)[t].address = m[t].address
                               /\ Written(m, x, n, b)[t].access = m[t].access
<1> DEFINE s == SegmentOf(m, x, n)
           lo == x - m[s].address
           bytes == [i \in DOMAIN m[s].data |->
                       IF i \in (lo + 1) .. (lo + n) THEN b ELSE m[s].data[i]]
           T == [address : Int, access : {"R", "W", "none"}, data : Seq({0, 1})]
           w == Written(m, x, n, b)
<1>1. s # "none"
  BY DEF Write, Access, Fault
<1>2. s \in Segments
  BY <1>1, SegmentOfFacts
<1>3. m \in [Segments -> T] /\ m[s] \in T
  BY <1>2 DEF Shape
<1>4. m[s].data \in Seq({0, 1}) /\ Len(m[s].data) \in Nat
      /\ DOMAIN m[s].data = 1 .. Len(m[s].data)
  BY <1>3
<1>5. \A i \in 1 .. Len(m[s].data) : bytes[i] \in {0, 1}
  BY <1>4, MemberOfSeq
<1>6. bytes \in [1 .. Len(m[s].data) -> {0, 1}]
  BY <1>4, <1>5
<1>7. w = [m EXCEPT ![s].data = bytes]
  BY DEF Written
<1> HIDE DEF s, bytes, w
<1>8. bytes \in Seq({0, 1}) /\ Len(bytes) = Len(m[s].data)
  BY <1>4, <1>6, BytesFacts
<1> DEFINE v == [m[s] EXCEPT !.data = bytes]
<1>9. v \in T /\ v.address = m[s].address /\ v.access = m[s].access
      /\ v.data = bytes
  BY <1>3, <1>8
<1>10. w = [m EXCEPT ![s] = v]
  BY <1>7
<1>11. End(v) = End(m[s])
  BY <1>8, <1>9 DEF End
<1> HIDE DEF v, T
<1>12. w \in [Segments -> T] /\ w[s] = v /\ \A t \in Segments : t # s => w[t] = m[t]
  BY <1>2, <1>3, <1>9, <1>10
<1>13. \A t \in Segments : /\ w[t].address = m[t].address /\ w[t].access = m[t].access
                          /\ End(w[t]) = End(m[t])
  BY <1>9, <1>11, <1>12
<1>14. Shape(w)
  BY <1>12, <1>13 DEF Shape, T
<1> QED BY <1>13, <1>14 DEF w

\* A heap that grows has whole pages, and ends at or after the new heap pointer.
LEMMA GrownShape ==
  ASSUME NEW m, Shape(m), m["rw"].address \in Nat, NEW pointer \in Nat
  PROVE  /\ Shape(Grown(m, pointer))
         /\ Grown(m, pointer)["rw"].address = m["rw"].address
         /\ Grown(m, pointer)["rw"].access = m["rw"].access
         /\ End(Grown(m, pointer)["rw"]) >= pointer
<1> DEFINE T == [address : Int, access : {"R", "W", "none"}, data : Seq({0, 1})]
           n == alignToPage(pointer)
           zeros == [i \in 1 .. n |-> 0]
           v == [m["rw"] EXCEPT !.data = zeros]
           g == Grown(m, pointer)
<1>0. PageSize \in Nat \ {0}
  BY SegmentsAssumption
<1>1. n \in Nat /\ n >= pointer /\ \E k \in Nat : n = PageSize * k
  BY <1>0, AlignFacts DEF alignToPage
<1>2. PICK k \in Nat : n = PageSize * k
  BY <1>1
<1>3. zeros \in [1 .. n -> {0, 1}]
  OBVIOUS
<1>4. g = [m EXCEPT !["rw"].data = zeros]
  BY DEF Grown
<1> HIDE DEF n, zeros, g
<1>5. zeros \in Seq({0, 1}) /\ Len(zeros) = n
  BY <1>1, <1>3, BytesFacts
<1>6. "rw" \in Segments /\ m \in [Segments -> T] /\ m["rw"] \in T
  BY SegmentNames DEF Shape
<1>7. v \in T /\ v.address = m["rw"].address /\ v.access = m["rw"].access
      /\ v.data = zeros
  BY <1>5, <1>6
<1>8. End(v) = m["rw"].address + n
  BY <1>5, <1>7 DEF End
<1>9. g = [m EXCEPT !["rw"] = v]
  BY <1>4
<1> HIDE DEF v, T
<1>10. g \in [Segments -> T] /\ g["rw"] = v /\ \A t \in Segments : t # "rw" => g[t] = m[t]
  BY <1>6, <1>7, <1>9
<1>11. \E i, j \in Int : v.address = PageSize * i /\ End(v) = PageSize * j
  <2>1. PICK i \in Int : m["rw"].address = PageSize * i
    BY <1>6 DEF Shape
  <2>2. m["rw"].address + n = PageSize * (i + k) /\ i + k \in Int
    BY <1>0, <1>2, <2>1
  <2> QED BY <1>7, <1>8, <2>1, <2>2
<1>12. \A t \in Segments :
         \E i, j \in Int : g[t].address = PageSize * i /\ End(g[t]) = PageSize * j
  BY <1>10, <1>11, ZenonT(60) DEF Shape
<1>13. Shape(g)
  BY <1>10, <1>12 DEF Shape, T
<1>14. End(g["rw"]) >= pointer
  BY <1>1, <1>8, <1>10
<1> QED BY <1>7, <1>10, <1>13, <1>14 DEF g

\* The fields of an outcome.
LEMMA OutcomeFields ==
  ASSUME NEW op, NEW x, NEW n, NEW r
  PROVE  LET o == Outcome(op, x, n, r) IN
         o.op = op /\ o.at = x /\ o.len = n /\ o.res = r.res /\ o.page = r.page
BY DEF Outcome

Promises == FaultsAtFirstBadPage /\ GrantedIsAccessible

\* A load keeps the invariant and the two promises.
LEMMA LoadStep ==
  ASSUME MemoryIInv, Load
  PROVE  MemoryIInv' /\ Promises'
<1>1. PICK x \in Address, n \in Length :
        out' = Outcome("load", x, n, Read(mem, x, n))
  BY DEF Load
<1>2. mem' = mem /\ out.res = "ok"
  BY DEF Load, ProgramRuns
<1>3. x \in Nat /\ x < RegWord /\ n \in 1 .. MemoryZoneSize /\ n \in Nat
  BY MemoryAssumption, SegmentsAssumption
<1> DEFINE r == Read(mem, x, n)
           allowed == {"R", "W"}
<1>4. out'.op = "load" /\ out'.at = x /\ out'.len = n /\ out'.res = r.res
      /\ out'.page = r.page
  BY <1>1, OutcomeFields
<1>5. r = Access(mem, x, n, allowed)
  BY DEF Read
<1> HIDE DEF r
<1>6. MemoryIInv'
  BY <1>2 DEF MemoryIInv
<1>7. FaultsAtFirstBadPage'
  <2> SUFFICES ASSUME Apart(mem), r.res = "fault"
               PROVE LET bad == {b \in x .. (x + n - 1) : ~Allowed(mem, b, allowed)}
                     IN  bad # {} /\ r.page = Min(bad) \div PageSize
    BY <1>2, <1>4 DEF FaultsAtFirstBadPage
  <2>1. "none" \notin allowed
    OBVIOUS
  <2> HIDE DEF allowed
  <2> QED BY <1>3, <1>5, <2>1, FaultedAccess DEF MemoryIInv
<1>8. GrantedIsAccessible'
  <2>1. r.res = "ok" => \A b \in x .. (x + n - 1) : Allowed(mem, b, allowed)
    BY <1>3, <1>5, AcceptedAccess DEF MemoryIInv
  <2> QED BY <1>2, <1>4, <2>1 DEF GrantedIsAccessible, LoadsReadable, GrowthAvailable
<1> QED BY <1>6, <1>7, <1>8 DEF Promises

\* A store does.
LEMMA StoreStep ==
  ASSUME MemoryIInv, Store
  PROVE  MemoryIInv' /\ Promises'
<1>1. PICK x \in Address, n \in Length :
        /\ out' = Outcome("store", x, n, Write(mem, x, n))
        /\ mem' = IF Write(mem, x, n).res = "ok" THEN Written(mem, x, n, 1) ELSE mem
  BY DEF Store
<1>2. out.res = "ok"
  BY DEF Store, ProgramRuns
<1>3. x \in Nat /\ x < RegWord /\ n \in 1 .. MemoryZoneSize /\ n \in Nat
  BY MemoryAssumption, SegmentsAssumption
<1> DEFINE r == Write(mem, x, n)
           allowed == {"W"}
<1>4. out'.op = "store" /\ out'.at = x /\ out'.len = n /\ out'.res = r.res
      /\ out'.page = r.page
  BY <1>1, OutcomeFields
<1>5. r = Access(mem, x, n, allowed)
  BY DEF Write
<1>6. MemoryIInv'
  <2>1. CASE r.res = "ok"
    <3>1. /\ Shape(Written(mem, x, n, 1))
          /\ Written(mem, x, n, 1)["rw"].address = mem["rw"].address
          /\ Written(mem, x, n, 1)["rw"].access = mem["rw"].access
      BY <1>3, <2>1, WrittenShape, SegmentNames DEF MemoryIInv
    <3> QED BY <1>1, <1>2, <2>1, <3>1 DEF MemoryIInv
  <2>2. CASE r.res # "ok"
    BY <1>1, <1>4, <2>2 DEF MemoryIInv
  <2> QED BY <2>1, <2>2
<1>7. FaultsAtFirstBadPage'
  <2> SUFFICES ASSUME Apart(mem)', r.res = "fault"
               PROVE LET bad == {b \in x .. (x + n - 1) : ~Allowed(mem, b, allowed)}
                     IN  bad # {} /\ r.page = Min(bad) \div PageSize
    BY <1>1, <1>4 DEF FaultsAtFirstBadPage
  <2>1. "none" \notin allowed
    OBVIOUS
  <2>2. Apart(mem)
    BY <1>1
  <2> HIDE DEF allowed, r
  <2> QED BY <1>3, <1>5, <2>1, <2>2, FaultedAccess DEF MemoryIInv
<1>8. GrantedIsAccessible'
  BY <1>4 DEF GrantedIsAccessible, LoadsReadable, GrowthAvailable
<1> QED BY <1>6, <1>7, <1>8 DEF Promises

\* So does sbrk, which alone changes the segments.
LEMMA SbrkStep ==
  ASSUME MemoryIInv, Sbrk
  PROVE  MemoryIInv' /\ Promises'
<1> DEFINE h == HeapPointer(mem)
<1>1. PICK size \in Request :
        LET new == (h + size) % RegWord
            grown == IF new > h THEN Grown(mem, new) ELSE mem
        IN
        IF size = 0 THEN
             /\ out' = Outcome("sbrk", h, 0, [res |-> "ok", page |-> h])
             /\ UNCHANGED mem
        ELSE IF new >= mem.stack.address THEN
             /\ out' = Outcome("sbrk", h, size, [res |-> "fault", page |-> new])
             /\ UNCHANGED mem
        ELSE
             /\ mem' = grown
             /\ out' = Outcome("sbrk", h, size,
                               [res |-> "ok", page |-> HeapPointer(grown)])
  BY DEF Sbrk
<1>2. out.res = "ok" /\ mem["rw"].access = "W" /\ Shape(mem) /\ mem["rw"].address \in Nat
  BY DEF Sbrk, ProgramRuns, MemoryIInv
<1>3. size \in Nat /\ RegWord \in Nat \ {0}
  BY MemoryAssumption, SegmentsAssumption
<1>4. h \in Nat /\ h = End(mem["rw"]) /\ h >= mem["rw"].address
  <2>1. "rw" \in Segments
    BY SegmentNames
  <2>2. /\ End(mem["rw"]) = mem["rw"].address + Len(mem["rw"].data)
        /\ Len(mem["rw"].data) \in Nat
    BY <1>2, <2>1, SegmentNumbers
  <2> QED BY <1>2, <2>2 DEF HeapPointer
<1> HIDE DEF h
<1> DEFINE sum == h + size
           new == sum % RegWord
<1>5. sum \in Nat /\ new \in Nat /\ (sum < RegWord => new = sum)
  <2>1. sum \in Nat
    BY <1>3, <1>4
  <2> HIDE DEF sum
  <2>2. sum % RegWord \in 0 .. RegWord - 1
    BY <1>3, <2>1, ModFacts
  <2>3. sum < RegWord => sum % RegWord = sum
    BY <1>3, <2>1, NoWrap
  <2> QED BY <1>3, <2>1, <2>2, <2>3
<1>6. out'.op = "sbrk" /\ out'.at = h
  BY <1>1, OutcomeFields
<1>7. FaultsAtFirstBadPage'
  BY <1>6 DEF FaultsAtFirstBadPage
<1>8. CASE size = 0 \/ new >= mem.stack.address
  <2>1. mem' = mem
    BY <1>1, <1>8
  <2>2. MemoryIInv'
    BY <1>2, <2>1 DEF MemoryIInv
  <2>3. out'.len = 0 \/ out'.res = "fault"
    BY <1>1, <1>8, OutcomeFields
  <2>4. h .. (h + 0 - 1) = {}
    BY <1>4
  <2>5. GrantedIsAccessible'
    BY <1>6, <2>3, <2>4 DEF GrantedIsAccessible, LoadsReadable, GrowthAvailable
  <2> QED BY <1>7, <2>2, <2>5 DEF Promises
<1>9. CASE ~(size = 0 \/ new >= mem.stack.address)
  <2>1. /\ mem' = IF new > h THEN Grown(mem, new) ELSE mem
        /\ out'.len = size
    BY <1>1, <1>9, OutcomeFields
  <2> HIDE DEF new
  <2>2. /\ Shape(Grown(mem, new))
        /\ Grown(mem, new)["rw"].address = mem["rw"].address
        /\ Grown(mem, new)["rw"].access = mem["rw"].access
        /\ End(Grown(mem, new)["rw"]) >= new
    BY <1>2, <1>5, GrownShape
  <2>3. MemoryIInv'
    BY <1>2, <2>1, <2>2 DEF MemoryIInv
  <2>4. ASSUME h + size < RegWord, NEW b \in h .. (h + size - 1)
        PROVE  Allowed(mem', b, {"W"})
    <3>1. new = h + size /\ new > h
      BY <1>3, <1>4, <1>5, <1>9, <2>4
    <3>2. /\ mem'["rw"].address = mem["rw"].address /\ mem'["rw"].access = "W"
          /\ End(mem'["rw"]) >= new
      BY <1>2, <2>1, <2>2, <3>1
    <3>3. End(mem'["rw"]) \in Int /\ "rw" \in Segments
      <4>1. Shape(mem')
        BY <2>3 DEF MemoryIInv
      <4> QED BY <4>1, SegmentNumbers, SegmentNames
    <3>4. b >= mem'["rw"].address /\ b < End(mem'["rw"])
      BY <1>2, <1>3, <1>4, <3>1, <3>2, <3>3
    <3> QED BY <3>2, <3>3, <3>4 DEF Allowed
  <2>5. GrantedIsAccessible'
    BY <1>6, <2>1, <2>4 DEF GrantedIsAccessible, LoadsReadable, GrowthAvailable
  <2> QED BY <1>7, <2>3, <2>5 DEF Promises
<1> QED BY <1>8, <1>9

\* Every reachable memory has segments of whole pages, and a heap that can be
\* written while the program runs; and the promises below hold.
THEOREM MemoryInvariance == MemorySpec => [](MemoryIInv /\ Promises)
<1>1. MemoryInit => MemoryIInv /\ Promises
  <2> SUFFICES ASSUME MemoryInit PROVE MemoryIInv /\ Promises
    OBVIOUS
  <2>1. PICK p \in Program, n \in ArgsSize :
          LET starts == ParseBlob(p) /\ Accepted(p) IN
          /\ mem = IF starts THEN InitializeMemory(p, n) ELSE NoMemory
          /\ out = Outcome("start", 0, 0,
                           [res |-> IF starts THEN "ok" ELSE "panic", page |-> 0])
    BY DEF MemoryInit
  <2>2. out.op = "start"
    BY <2>1, OutcomeFields
  <2>3. Promises
    BY <2>2 DEF Promises, FaultsAtFirstBadPage, GrantedIsAccessible, LoadsReadable,
                GrowthAvailable
  <2>4. CASE ParseBlob(p) /\ Accepted(p)
    BY <2>1, <2>3, <2>4, LayoutShape DEF MemoryIInv
  <2>5. CASE ~(ParseBlob(p) /\ Accepted(p))
    <3>1. mem = NoMemory /\ out.res = "panic"
      BY <2>1, <2>5, OutcomeFields
    <3>2. PageSize * 0 = 0
      BY SegmentsAssumption
    <3>3. \A s \in Segments : /\ NoMemory[s].address = PageSize * 0
                             /\ End(NoMemory[s]) = PageSize * 0
      BY <3>2 DEF NoMemory, End
    <3>4. Shape(NoMemory)
      <4>1. NoMemory \in [Segments -> [address : Int, access : {"R", "W", "none"},
                                       data : Seq({0, 1})]]
        BY DEF NoMemory
      <4> QED BY <3>3, <4>1 DEF Shape
    <3>5. NoMemory["rw"].address \in Nat
      BY SegmentNames DEF NoMemory
    <3> QED BY <2>3, <3>1, <3>4, <3>5 DEF MemoryIInv
  <2> QED BY <2>4, <2>5
<1>2. MemoryIInv /\ Promises /\ [MemoryNext]_memoryVars => MemoryIInv' /\ Promises'
  <2> SUFFICES ASSUME MemoryIInv, Promises, [MemoryNext]_memoryVars
               PROVE  MemoryIInv' /\ Promises'
    OBVIOUS
  <2>1. CASE UNCHANGED memoryVars
    <3>1. mem' = mem /\ out' = out
      BY <2>1 DEF memoryVars
    <3>2. MemoryIInv'
      BY <3>1 DEF MemoryIInv
    <3>3. Promises'
      BY <3>1 DEF Promises, FaultsAtFirstBadPage, GrantedIsAccessible, LoadsReadable,
                  GrowthAvailable
    <3> QED BY <3>2, <3>3
  <2> QED BY <2>1, LoadStep, StoreStep, SbrkStep DEF MemoryNext
<1> QED BY <1>1, <1>2, PTL DEF MemorySpec

\* A page fault of a load or a store names the first page of its range that lacks
\* the access, as long as no segment reaches another one (Read and Write,
\* common.go 59 and 100).
THEOREM FaultsTheorem == MemorySpec => []FaultsAtFirstBadPage
BY MemoryInvariance, PTL DEF Promises

\* What a load or sbrk grants can be accessed to the last byte (Read and Sbrk,
\* common.go 43-55 and 110-126).
THEOREM GrantedTheorem == MemorySpec => []GrantedIsAccessible
BY MemoryInvariance, PTL DEF Promises

-----------------------------------------------------------------------------
(* RefineMachines.                                                         *)

\* findSmallestMissingKey finds a key that no machine has, however the keys in use
\* have been released: among one more number than there are machines, one is free.
LEMMA MissingKeyFacts ==
  ASSUME NEW m, DOMAIN m \subseteq Nat, IsFiniteSet(DOMAIN m)
  PROVE  /\ findSmallestMissingKey(m) \in Nat
         /\ findSmallestMissingKey(m) \notin DOMAIN m
<1> DEFINE D == DOMAIN m
           c == Cardinality(D)
           free == {n \in 0 .. c : n \notin D}
<1>1. c \in Nat
  BY FS_CardinalityType
<1>2. free # {}
  <2> SUFFICES ASSUME 0 .. c \subseteq D PROVE FALSE
    OBVIOUS
  <2>1. IsFiniteSet(0 .. c) /\ Cardinality(0 .. c) = c + 1
    BY <1>1, FS_Interval
  <2>2. Cardinality(0 .. c) <= c
    BY FS_Subset
  <2> QED BY <1>1, <2>1, <2>2
<1>3. PICK k \in free : \A n \in free : k <= n
  <2>1. free \subseteq Nat
    BY <1>1
  <2> HIDE DEF free
  <2> QED BY <1>2, <2>1, LeastExists
<1>4. 0 .. (k - 1) \subseteq D
  BY <1>1, <1>3
<1>5. \E n \in 0 .. c : n \notin D /\ 0 .. (n - 1) \subseteq D
  BY <1>3, <1>4
<1> QED BY <1>1, <1>5 DEF findSmallestMissingKey

\* Zeroing pages and changing their access leave the segments where they are.
LEMMA ZeroedType ==
  ASSUME NEW ram \in Memories, NEW pages
  PROVE  Zeroed(ram, pages) \in Memories
<1> SUFFICES ASSUME NEW s \in Segments
             PROVE  Zeroed(ram, pages)[s] \in Segment
  BY DEF Zeroed, Memories
<1>1. ram[s] \in Segment
  BY DEF Memories
<1> DEFINE zeros == [i \in DOMAIN ram[s].data |->
                       IF (ram[s].address + i - 1) \div PageSize \in pages
                       THEN 0 ELSE ram[s].data[i]]
<1>2. zeros \in Seq({0, 1})
  <2>1. ram[s].data \in Seq({0, 1})
    BY <1>1 DEF Segment
  <2>2. DOMAIN ram[s].data = 1 .. Len(ram[s].data) /\ Len(ram[s].data) \in Nat
    BY <2>1
  <2>3. \A i \in 1 .. Len(ram[s].data) : zeros[i] \in {0, 1}
    BY <2>1, <2>2, MemberOfSeq
  <2>4. zeros \in [1 .. Len(ram[s].data) -> {0, 1}]
    BY <2>2, <2>3
  <2> HIDE DEF zeros
  <2> QED BY <2>2, <2>4, IsSeq
<1>3. Zeroed(ram, pages)[s] = [ram[s] EXCEPT !.data = zeros]
  BY DEF Zeroed
<1> QED BY <1>1, <1>2, <1>3 DEF Segment

\* Changing the access of pages keeps the shape of the memory.
LEMMA SetAccessType ==
  ASSUME NEW ram \in Memories, NEW pages, NEW access \in {"R", "W", "none"}
  PROVE  SetAccess(ram, pages, access) \in Memories
<1> SUFFICES ASSUME NEW s \in Segments
             PROVE  SetAccess(ram, pages, access)[s] \in Segment
  BY DEF SetAccess, Memories
<1>1. ram[s] \in Segment /\ [ram[s] EXCEPT !.access = access] \in Segment
  BY DEF Memories, Segment
<1> QED BY <1>1 DEF SetAccess

\* A write that is accepted leaves the segments where they are.
LEMMA WrittenType ==
  ASSUME NEW m \in Memories, NEW x \in Nat, NEW n \in Nat, NEW b \in {0, 1},
         Write(m, x, n).res = "ok"
  PROVE  Written(m, x, n, b) \in Memories
<1> DEFINE s == SegmentOf(m, x, n)
           lo == x - m[s].address
           bytes == [i \in DOMAIN m[s].data |->
                       IF i \in (lo + 1) .. (lo + n) THEN b ELSE m[s].data[i]]
<1>1. s # "none"
  BY DEF Write, Access, Fault
<1>2. s \in Segments
  BY <1>1, SegmentOfFacts
<1>3. m[s] \in Segment
  BY <1>2 DEF Memories
<1>4. m[s].data \in Seq({0, 1}) /\ Len(m[s].data) \in Nat
      /\ DOMAIN m[s].data = 1 .. Len(m[s].data)
  BY <1>3 DEF Segment
<1>5. \A i \in 1 .. Len(m[s].data) : bytes[i] \in {0, 1}
  BY <1>4, MemberOfSeq
<1>6. bytes \in [1 .. Len(m[s].data) -> {0, 1}]
  BY <1>4, <1>5
<1>7. Written(m, x, n, b) = [m EXCEPT ![s].data = bytes]
  BY DEF Written
<1> HIDE DEF s, bytes
<1>8. bytes \in Seq({0, 1})
  BY <1>4, <1>6, IsSeq
<1>9. [m[s] EXCEPT !.data = bytes] \in Segment
  BY <1>3, <1>8 DEF Segment
<1> QED BY <1>2, <1>7, <1>9 DEF Memories

\* What a host call that answers does to the rest of the state.
LEMMA AnswerStep ==
  ASSUME RefineTypeOK, NEW call, NEW n, NEW pages, NEW answer,
         Answer(call, n, pages, answer)
  PROVE  /\ phase' \in {"start", "run", "done"}
         /\ gas' \in Int
         /\ err' \in Errors \cup {"none"}
         /\ DOMAIN last' = DOMAIN NoCall
         /\ result' = result
         /\ last'.n = n /\ last'.call = call
<1>1. phase' = phase /\ result' = result /\ gas' = gas - 1 - HostCost
  BY DEF Answer, Charge
<1>2. gas' \in Int
  BY <1>1, RefineAssumption DEF RefineTypeOK
<1>3. err' \in Errors \cup {"none"}
  BY DEF Answer
<1>4. DOMAIN last' = DOMAIN NoCall /\ last'.n = n /\ last'.call = call
  BY DEF Answer, NoCall
<1> QED BY <1>1, <1>2, <1>3, <1>4 DEF RefineTypeOK

\* The machines, and what a step may do to them.
MachinesOK(m) ==
  /\ DOMAIN m \subseteq Nat /\ IsFiniteSet(DOMAIN m)
  /\ m \in [DOMAIN m -> [ic : Nat, ram : Memories]]

KeptStep ==
  \/ ContextLost
  \/ \A n \in DOMAIN machines :
       n # last'.n \/ last'.call = "Machine" =>
         n \in DOMAIN machines' /\ machines'[n] = machines[n]

\* One machine gets another counter or memory.
LEMMA MachineUpdated ==
  ASSUME MachinesOK(machines), NEW n \in DOMAIN machines,
         NEW value \in [ic : Nat, ram : Memories],
         machines' = [machines EXCEPT ![n] = value]
  PROVE  /\ MachinesOK(machines')
         /\ \A k \in DOMAIN machines :
              k # n => k \in DOMAIN machines' /\ machines'[k] = machines[k]
BY DEF MachinesOK

\* Zero and Void leave a memory a memory, also when they stop half-way.
LEMMA PagesType ==
  ASSUME NEW ram \in Memories, NEW pages
  PROVE  ZeroPages(ram, pages).ram \in Memories /\ VoidPages(ram, pages).ram \in Memories
<1>1. \A p : Zeroed(ram, p) \in Memories
  BY ZeroedType
<1>2. /\ SetAccess(Zeroed(ram, pages), pages, "W") \in Memories
      /\ SetAccess(Zeroed(ram, pages), pages, "none") \in Memories
  BY <1>1, SetAccessType
<1> QED BY <1>1, <1>2 DEF ZeroPages, VoidPages

\* A step that names machine n, leaves the others and keeps or changes n.
LEMMA NamedStep ==
  ASSUME RefineTypeOK, NEW n, NEW call, NEW pages, NEW answer,
         Answer(call, n, pages, answer), UNCHANGED <<map, segments>>,
         \/ machines' = machines
         \/ /\ n \in DOMAIN machines
            /\ \E value \in [ic : Nat, ram : Memories] :
                 machines' = [machines EXCEPT ![n] = value],
         call # "Machine"
  PROVE  RefineTypeOK' /\ KeptStep
<1>1. MachinesOK(machines)
  BY DEF RefineTypeOK, MachinesOK
<1>2. /\ MachinesOK(machines')
      /\ \A k \in DOMAIN machines :
           k # n => k \in DOMAIN machines' /\ machines'[k] = machines[k]
  BY <1>1, MachineUpdated
<1>3. map' = "nil" => machines' = <<>>
  BY DEF RefineTypeOK
<1>4. last'.n = n /\ last'.call = call
  BY AnswerStep
<1>5. KeptStep
  BY <1>2, <1>4 DEF KeptStep
<1>6. RefineTypeOK'
  <2>1. /\ phase' \in {"start", "run", "done"} /\ gas' \in Int
        /\ err' \in Errors \cup {"none"} /\ DOMAIN last' = DOMAIN NoCall
        /\ result' = result
    BY AnswerStep
  <2> QED BY <1>2, <1>3, <2>1 DEF RefineTypeOK, MachinesOK
<1> QED BY <1>5, <1>6

\* A step that ends the refinement.
LEMMA FinishStep ==
  ASSUME RefineTypeOK, NEW kind \in {"ok", "bad", "big", "panic", "fault", "crash"},
         NEW why, NEW segs, Finish(kind, why, segs),
         UNCHANGED <<gas, machines, map, segments, err, last>>
  PROVE  RefineTypeOK' /\ KeptStep
<1>1. phase' = "done" /\ result'.kind = kind
  BY DEF Finish
<1> QED BY <1>1 DEF RefineTypeOK, KeptStep

\* Every host call of refine keeps the types and the machines it does not name.
LEMMA RefineStep ==
  ASSUME RefineTypeOK, RefineNext
  PROVE  RefineTypeOK' /\ KeptStep
<1>0. MachinesOK(machines) /\ gas \in Int /\ HostCost \in Nat
      /\ (DOMAIN machines # {} => map = "made")
  BY RefineAssumption DEF RefineTypeOK, MachinesOK
<1>1. CASE Start
  BY <1>1, FinishStep DEF Start, RefineTypeOK, KeptStep
<1>2. CASE ProgramEnds
  BY <1>2, FinishStep DEF ProgramEnds, ReadResult
<1>3. CASE OutOfGas
  BY <1>3, FinishStep DEF OutOfGas, ReadResult
<1>4. CASE CallOutOfGas
  <2>1. gas' \in Int /\ err' \in Errors /\ DOMAIN last' = DOMAIN NoCall
    BY <1>0, <1>4 DEF CallOutOfGas, Errors, NoCall
  <2> QED BY <1>4, <2>1 DEF CallOutOfGas, RefineTypeOK, KeptStep
<1>5. CASE UnknownCall
  <2>1. gas' \in Int /\ DOMAIN last' = DOMAIN NoCall
    BY <1>0, <1>5 DEF UnknownCall, NoCall, Charge
  <2> QED BY <1>5, <2>1 DEF UnknownCall, RefineTypeOK, KeptStep
<1>6. CASE GasRemaining
  BY <1>6, NamedStep DEF GasRemaining
<1>7. CASE HistoricalLookup
  <2>1. CASE Answer("HistoricalLookup", 0, {}, "account")
             /\ machines' = <<>> /\ map' = "nil" /\ segments' = <<>>
    <3>1. /\ phase' \in {"start", "run", "done"} /\ gas' \in Int
          /\ err' \in Errors \cup {"none"} /\ DOMAIN last' = DOMAIN NoCall
          /\ result' = result
      BY <2>1, AnswerStep
    <3>2. MachinesOK(machines')
      BY <2>1, FS_EmptySet DEF MachinesOK
    <3>3. KeptStep
      BY <2>1 DEF KeptStep, ContextLost, Answer
    <3> QED BY <2>1, <3>1, <3>2, <3>3 DEF RefineTypeOK, MachinesOK
  <2>2. CASE /\ \E answer \in {"panic", "NONE", "OK"} :
                   Answer("HistoricalLookup", 0, {}, answer)
             /\ UNCHANGED <<machines, map, segments>>
    BY <2>2, NamedStep
  <2> QED BY <1>7, <2>1, <2>2 DEF HistoricalLookup
<1>8. CASE Fetch
  <2>1. CASE Crash("Fetch")
    BY <2>1, FinishStep DEF Crash
  <2> QED BY <1>8, <2>1, NamedStep DEF Fetch
<1>9. CASE Export
  <2>1. PICK ok \in BOOLEAN :
          /\ Answer("Export", 0, {},
                    IF ~ok THEN "panic" ELSE IF Full(segments) THEN "FULL" ELSE "OK")
          /\ segments' = IF ok /\ ~Full(segments)
                         THEN Append(segments, Len(segments) + 1) ELSE segments
    BY <1>9 DEF Export
  <2>2. /\ phase' \in {"start", "run", "done"} /\ gas' \in Int
        /\ err' \in Errors \cup {"none"} /\ DOMAIN last' = DOMAIN NoCall
        /\ result' = result
    BY <2>1, AnswerStep
  <2>3. segments' \in Seq(Nat)
    BY <2>1 DEF RefineTypeOK
  <2> QED BY <1>9, <2>2, <2>3 DEF Export, RefineTypeOK, KeptStep
<1>10. CASE Machine
  <2>1. CASE \E answer \in {"panic", "HUH"} :
               Answer("Machine", 0, {}, answer) /\ UNCHANGED <<machines, map, segments>>
    <3>1. /\ phase' \in {"start", "run", "done"} /\ gas' \in Int
          /\ err' \in Errors \cup {"none"} /\ DOMAIN last' = DOMAIN NoCall
          /\ result' = result
      BY <2>1, AnswerStep
    <3> QED BY <2>1, <3>1 DEF RefineTypeOK, KeptStep
  <2>2. CASE Crash("Machine")
    BY <2>2, FinishStep DEF Crash
  <2>3. ASSUME map = "made", UNCHANGED <<map, segments>>, NEW i \in Counter,
               LET n == findSmallestMissingKey(machines) IN
               /\ machines' = [k \in DOMAIN machines \cup {n} |->
                                 IF k = n THEN [ic |-> i, ram |-> NoMemory]
                                 ELSE machines[k]]
               /\ Answer("Machine", n, {}, "OK")
        PROVE  RefineTypeOK' /\ KeptStep
    <3> DEFINE n == findSmallestMissingKey(machines)
    <3>1. n \in Nat /\ n \notin DOMAIN machines
      BY <1>0, MissingKeyFacts DEF MachinesOK
    <3>2. /\ phase' \in {"start", "run", "done"} /\ gas' \in Int
          /\ err' \in Errors \cup {"none"} /\ DOMAIN last' = DOMAIN NoCall
          /\ result' = result
      BY <2>3, AnswerStep
    <3>3. [ic |-> i, ram |-> NoMemory] \in [ic : Nat, ram : Memories]
      BY RefineAssumption DEF NoMemory, Memories, Segment
    <3>4. /\ machines' = [k \in DOMAIN machines \cup {n} |->
                            IF k = n THEN [ic |-> i, ram |-> NoMemory]
                            ELSE machines[k]]
          /\ map' = "made" /\ segments' = segments
      BY <2>3
    <3> HIDE DEF n
    <3>5. IsFiniteSet(DOMAIN machines \cup {n})
      BY <1>0, FS_AddElement DEF MachinesOK
    <3>6. MachinesOK(machines')
      BY <1>0, <3>1, <3>3, <3>4, <3>5 DEF MachinesOK
    <3>7. KeptStep
      BY <3>1, <3>4 DEF KeptStep
    <3> QED BY <3>2, <3>4, <3>6, <3>7 DEF RefineTypeOK, MachinesOK
  <2> QED BY <1>10, <2>1, <2>2, <2>3 DEF Machine
<1>11. CASE Peek
  <2>1. CASE Crash("Peek")
    BY <2>1, FinishStep DEF Crash
  <2> QED BY <1>11, <2>1, NamedStep DEF Peek
<1>12. CASE Poke
  <2>1. CASE Crash("Poke")
    BY <2>1, FinishStep DEF Crash
  <2>2. PICK n \in Key, x \in InnerAddress, z \in InnerLength,
             absurd \in BOOLEAN, ok \in BOOLEAN :
        LET r == Write(machines[n].ram, x, z) IN
        IF n \notin DOMAIN machines
        THEN Answer("Poke", n, {}, "WHO") /\ UNCHANGED machines
        ELSE IF absurd \/ (ok /\ r.res = "crash") THEN Crash("Poke")
        ELSE /\ Answer("Poke", n, {},
                       IF ~ok THEN "panic" ELSE IF r.res # "ok" THEN "OOB" ELSE "OK")
             /\ machines' = IF ok /\ r.res = "ok"
                            THEN [machines EXCEPT ![n].ram = Written(@, x, z, 1)]
                            ELSE machines
    BY <1>12 DEF Poke
  <2>3. UNCHANGED <<map, segments>>
    BY <1>12 DEF Poke
  <2>4. CASE n \in DOMAIN machines /\ Write(machines[n].ram, x, z).res = "ok"
    <3>1. machines[n] \in [ic : Nat, ram : Memories] /\ x \in Nat /\ z \in Nat
      BY <1>0, <2>4, RefineAssumption DEF MachinesOK
    <3>2. Written(machines[n].ram, x, z, 1) \in Memories
      BY <2>4, <3>1, WrittenType
    <3> DEFINE w == Written(machines[n].ram, x, z, 1)
               value == [machines[n] EXCEPT !.ram = w]
    <3>3. value \in [ic : Nat, ram : Memories]
      BY <3>1, <3>2
    <3>4. [machines EXCEPT ![n].ram = Written(@, x, z, 1)]
            = [machines EXCEPT ![n] = value]
      OBVIOUS
    <3> HIDE DEF value
    <3> QED BY <2>1, <2>2, <2>3, <2>4, <3>3, <3>4, NamedStep
  <2>5. CASE ~(n \in DOMAIN machines /\ Write(machines[n].ram, x, z).res = "ok")
    BY <2>1, <2>2, <2>3, <2>5, NamedStep
  <2> QED BY <2>4, <2>5
<1>13. CASE Zero
  <2>1. UNCHANGED <<map, segments>>
    BY <1>13 DEF Zero
  <2>2. PICK n \in Key, p \in Page, c \in PageCount :
          \/ /\ \E answer \in {"HUH", "WHO"} : Answer("Zero", n, {}, answer)
             /\ UNCHANGED machines
          \/ /\ n \in DOMAIN machines
             /\ Answer("Zero", n, PagesOf(p, c),
                       ZeroPages(machines[n].ram, PagesOf(p, c)).answer)
             /\ machines' = [machines EXCEPT
                               ![n].ram = ZeroPages(machines[n].ram, PagesOf(p, c)).ram]
    BY <1>13 DEF Zero
  <2>3. CASE UNCHANGED machines
    BY <2>1, <2>2, <2>3, NamedStep
  <2>4. CASE machines' # machines
    <3> DEFINE pages == PagesOf(p, c)
               ram == ZeroPages(machines[n].ram, pages).ram
               value == [machines[n] EXCEPT !.ram = ram]
    <3>1. machines[n] \in [ic : Nat, ram : Memories]
      BY <1>0, <2>2, <2>4 DEF MachinesOK
    <3>2. ram \in Memories
      BY <3>1, PagesType
    <3>3. value \in [ic : Nat, ram : Memories]
      BY <3>1, <3>2
    <3>4. machines' = [machines EXCEPT ![n] = value]
      BY <2>2, <2>4
    <3> HIDE DEF value
    <3> QED BY <2>1, <2>2, <2>4, <3>3, <3>4, NamedStep, ZenonT(60)
  <2> QED BY <2>3, <2>4
<1>14. CASE Void
  <2>1. UNCHANGED <<map, segments>>
    BY <1>14 DEF Void
  <2>2. PICK n \in Key, p \in Page, c \in PageCount :
          \/ /\ \E answer \in {"HUH", "WHO"} : Answer("Void", n, {}, answer)
             /\ UNCHANGED machines
          \/ /\ n \in DOMAIN machines
             /\ Answer("Void", n, PagesOf(p, c),
                       VoidPages(machines[n].ram, PagesOf(p, c)).answer)
             /\ machines' = [machines EXCEPT
                               ![n].ram = VoidPages(machines[n].ram, PagesOf(p, c)).ram]
    BY <1>14 DEF Void
  <2>3. CASE UNCHANGED machines
    BY <2>1, <2>2, <2>3, NamedStep
  <2>4. CASE machines' # machines
    <3> DEFINE pages == PagesOf(p, c)
               ram == VoidPages(machines[n].ram, pages).ram
               value == [machines[n] EXCEPT !.ram = ram]
    <3>1. machines[n] \in [ic : Nat, ram : Memories]
      BY <1>0, <2>2, <2>4 DEF MachinesOK
    <3>2. ram \in Memories
      BY <3>1, PagesType
    <3>3. value \in [ic : Nat, ram : Memories]
      BY <3>1, <3>2
    <3>4. machines' = [machines EXCEPT ![n] = value]
      BY <2>2, <2>4
    <3> HIDE DEF value
    <3> QED BY <2>1, <2>2, <2>4, <3>3, <3>4, NamedStep
  <2> QED BY <2>3, <2>4
<1>15. CASE Invoke
  <2>0. CASE Crash("Invoke")
    BY <2>0, FinishStep DEF Crash
  <2> SUFFICES ASSUME ~Crash("Invoke") PROVE RefineTypeOK' /\ KeptStep
    BY <2>0
  <2>1. PICK n \in Key, i \in Counter :
          /\ \E answer : Answer("Invoke", n, {}, answer)
          /\ \/ UNCHANGED machines
             \/ /\ n \in DOMAIN machines
                /\ \E j \in {i, i + 1} : machines' = [machines EXCEPT ![n].ic = j]
    BY <1>15 DEF Invoke, Resumed
  <2>2. UNCHANGED <<map, segments>>
    BY <1>15 DEF Invoke
  <2>3. CASE UNCHANGED machines
    BY <2>1, <2>2, <2>3, NamedStep
  <2>4. CASE machines' # machines
    <3>1. n \in DOMAIN machines
          /\ \E j \in {i, i + 1} : machines' = [machines EXCEPT ![n].ic = j]
      BY <2>1, <2>4
    <3>2. PICK j \in {i, i + 1} : machines' = [machines EXCEPT ![n].ic = j]
      BY <3>1
    <3>3. machines[n] \in [ic : Nat, ram : Memories] /\ j \in Nat
      BY <1>0, <3>1, RefineAssumption DEF MachinesOK
    <3> DEFINE value == [machines[n] EXCEPT !.ic = j]
    <3>4. value \in [ic : Nat, ram : Memories]
      BY <3>3
    <3>5. machines' = [machines EXCEPT ![n] = value]
      BY <3>2
    <3> HIDE DEF value
    <3> QED BY <2>1, <2>2, <3>1, <3>4, <3>5, NamedStep
  <2> QED BY <2>3, <2>4
<1>16. CASE Expunge
  <2>1. UNCHANGED <<map, segments>>
    BY <1>16 DEF Expunge
  <2>2. PICK n \in Key :
          IF n \notin DOMAIN machines
          THEN Answer("Expunge", n, {}, "WHO") /\ UNCHANGED machines
          ELSE /\ Answer("Expunge", n, {}, "OK")
               /\ machines' = [k \in DOMAIN machines \ {n} |-> machines[k]]
    BY <1>16 DEF Expunge
  <2>3. CASE n \notin DOMAIN machines
    BY <2>1, <2>2, <2>3, NamedStep
  <2>4. CASE n \in DOMAIN machines
    <3>1. /\ phase' \in {"start", "run", "done"} /\ gas' \in Int
          /\ err' \in Errors \cup {"none"} /\ DOMAIN last' = DOMAIN NoCall
          /\ result' = result /\ last'.n = n /\ last'.call = "Expunge"
      BY <2>2, <2>4, AnswerStep
    <3>2. IsFiniteSet(DOMAIN machines \ {n})
      BY <1>0, FS_RemoveElement DEF MachinesOK
    <3>3. MachinesOK(machines')
      BY <1>0, <2>2, <2>4, <3>2 DEF MachinesOK
    <3>4. KeptStep
      BY <2>2, <2>4, <3>1 DEF KeptStep
    <3> QED BY <1>0, <2>1, <2>4, <3>1, <3>3, <3>4 DEF RefineTypeOK, MachinesOK
  <2> QED BY <2>3, <2>4
<1> QED
  BY <1>1, <1>2, <1>3, <1>4, <1>5, <1>6, <1>7, <1>8, <1>9, <1>10, <1>11, <1>12,
     <1>13, <1>14, <1>15, <1>16 DEF RefineNext

\* In every reachable state the machines of a refinement are a finite map of
\* numbers to counters and memories, and a context without a map has none.
THEOREM RefineTypeTheorem == RefineSpec => []RefineTypeOK
<1>1. RefineInit => RefineTypeOK
  <2> SUFFICES ASSUME RefineInit PROVE RefineTypeOK
    OBVIOUS
  <2>1. gas \in Int /\ segments \in Seq(Nat) /\ DOMAIN machines = {}
        /\ IsFiniteSet(DOMAIN machines)
    BY RefineAssumption, FS_EmptySet DEF RefineInit
  <2> QED BY <2>1 DEF RefineInit, RefineTypeOK
<1>2. RefineTypeOK /\ [RefineNext]_refineVars => RefineTypeOK'
  BY RefineStep DEF refineVars, RefineTypeOK
<1> QED BY <1>1, <1>2, PTL DEF RefineSpec

\* But for a lookup of an unknown account, after which the context is lost, a host
\* call changes no machine except the one that it names, and a new machine replaces
\* none (findSmallestMissingKey, refine_functions.go 542-548).
THEOREM MachinesTheorem == RefineSpec => OtherMachinesKept
<1>1. RefineTypeOK /\ [RefineNext]_refineVars => [KeptStep]_refineVars
  BY RefineStep
<1>2. OtherMachinesKept <=> [][KeptStep]_refineVars
  BY DEF OtherMachinesKept, KeptStep
<1> QED BY <1>1, <1>2, RefineTypeTheorem, PTL DEF RefineSpec

=============================================================================
