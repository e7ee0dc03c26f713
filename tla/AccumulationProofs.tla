-------------------------- MODULE AccumulationProofs --------------------------
(***************************************************************************)
(* Safety of the accumulation queue for every epoch length, word size and  *)
(* dependency relation.                                                    *)
(***************************************************************************)
EXTENDS Accumulation, SequenceTheorems, TLAPS

\* The history records accumulated packages only.
HistoryAccumulated == \A j \in Phases : history[j] \subseteq accumulated

\* The place of a report made available at slot b in the ring, at slot now.  The
\* first Word % E places are unused: the loop always overwrites them from beyond
\* the start of the epoch.  A report from the last epoch is not kept for the last
\* Word % E slots: the loop no longer reaches its place then.
InPlace(b, j, now) ==
    /\ b % E = j
    /\ Word % E <= j
    /\ b <= now /\ now - b < E
    /\ now % E < j => now - b < E - (Word % E)

RingInv == \A j \in Phases : \A e \in queue[j] : InPlace(e.since, j, slot)

IInv ==
    /\ TypeOK /\ QueueEdited /\ StruckWasAccumulated
    /\ HistoryAccumulated /\ RingInv

-----------------------------------------------------------------------------
\* What editing leaves of an entry.
LEMMA UpdateQueueFacts ==
    ASSUME NEW entries, NEW done, NEW f \in UpdateQueue(entries, done)
    PROVE  \E e \in entries : /\ f = [pkg |-> e.pkg, deps |-> e.deps \ done, since |-> e.since]
                              /\ e.pkg \notin done
BY DEF UpdateQueue

\* Nothing is left of a list edited by its own packages.
LEMMA PriorityEmpty ==
    ASSUME NEW entries PROVE AccumulationPriority(entries) = {}
BY DEF AccumulationPriority, PackagesOf, UpdateQueue

\* An entry of the new queue is an edited entry of the old one, or an edited new
\* one.
LEMMA NewQueueFacts ==
    ASSUME TypeOK, NEW s \in Nat, NEW fresh, NEW last, NEW j \in Phases,
           NEW f \in NewQueue(s, fresh, last)[j]
    PROVE  \E e \in fresh \cup Queued :
              /\ f = [pkg |-> e.pkg, deps |-> e.deps \ last, since |-> e.since]
              /\ e.pkg \notin last
<1>1. PICK i \in LastWriters(s % E, j) : f \in EntriesBack(i, s % E, s - slot, fresh, last)
  BY DEF NewQueue
<1>2. i \in Phases /\ IndexPerEpoch(s % E, i) = j
  BY <1>1 DEF LastWriters, Writers
<1>3. \/ f \in UpdateQueue(fresh, last)
      \/ f \in UpdateQueue(queue[j], last)
  BY <1>1, <1>2 DEF EntriesBack
<1>4. CASE f \in UpdateQueue(fresh, last)
  BY <1>4, UpdateQueueFacts
<1>5. CASE f \in UpdateQueue(queue[j], last)
  BY <1>5, UpdateQueueFacts DEF Queued
<1> QED
  BY <1>3, <1>4, <1>5

\* What % and \div compute.
LEMMA ModFacts ==
    ASSUME NEW a \in Int, NEW n \in Nat \ {0}
    PROVE  /\ a % n \in 0..n - 1
           /\ a \div n \in Int
           /\ a = n * (a \div n) + (a % n)
OBVIOUS

\* Quotient and remainder are the only ones there are.
LEMMA ModUnique ==
    ASSUME NEW a \in Int, NEW n \in Nat \ {0}, NEW q \in Int, NEW r \in 0..n - 1,
           a = n * q + r
    PROVE  a % n = r
<1>1. a % n \in 0..n - 1 /\ a \div n \in Int /\ a = n * (a \div n) + (a % n)
  BY ModFacts
<1> DEFINE k == q - (a \div n)
<1>2. n * k = (a % n) - r
  BY <1>1
<1>3. (k >= 1 => n * k >= n) /\ (k <= -1 => n * k <= -n)
  BY <1>1
<1> QED
  BY <1>1, <1>2, <1>3

\* Where the unsigned arithmetic of the loop lands: counting back beyond the
\* start of the epoch is off by the remainder of the word.
LEMMA IndexPerEpochFacts ==
    ASSUME NEW m \in Phases, NEW i \in Phases
    PROVE  LET r == Word % E IN
           /\ i <= m => IndexPerEpoch(m, i) = m - i
           /\ i > m /\ r >= i - m => IndexPerEpoch(m, i) = r - (i - m)
           /\ i > m /\ r < i - m => IndexPerEpoch(m, i) = E + r - (i - m)
<1> DEFINE r == Word % E
           w == Word \div E
<1>1. /\ r \in 0..E - 1 /\ w \in Int /\ Word = E * w + r
      /\ E \in Nat \ {0} /\ Word \in Nat \ {0} /\ m \in 0..E - 1 /\ i \in 0..E - 1
      /\ E <= Word
  BY AccumulationAssumption, ModFacts DEF Phases
<1> HIDE DEF r, w
<1>2. CASE i <= m
  <2>1. (m - i) % Word = m - i
    BY <1>1, <1>2, ModUnique
  <2>2. (m - i) % E = m - i
    BY <1>1, <1>2, ModUnique
  <2> QED BY <1>1, <1>2, <2>1, <2>2 DEF IndexPerEpoch
<1>3. CASE i > m
  <2>1. (m - i) % Word = Word - (i - m)
    <3>1. m - i = Word * (-1) + (Word - (i - m))
      BY <1>1
    <3>2. Word - (i - m) \in 0..Word - 1
      BY <1>1, <1>3
    <3> QED BY <1>1, <3>1, <3>2, ModUnique
  <2>2. CASE r >= i - m
    <3>1. Word - (i - m) = E * w + (r - (i - m)) /\ r - (i - m) \in 0..E - 1
      BY <1>1, <1>3, <2>2
    <3>2. (Word - (i - m)) % E = r - (i - m)
      BY <1>1, <3>1, ModUnique
    <3> QED BY <1>1, <1>3, <2>1, <2>2, <3>2 DEF IndexPerEpoch, r
  <2>3. CASE r < i - m
    <3> DEFINE v == w - 1
               x == E + r - (i - m)
               a == Word - (i - m)
    <3>1. a = E * v + x /\ x \in 0..E - 1 /\ v \in Int /\ a \in Int
      BY <1>1, <1>3, <2>3
    <3> HIDE DEF v, x, a
    <3>2. a % E = x
      BY <1>1, <3>1, ModUnique
    <3> QED BY <1>1, <1>3, <2>1, <2>3, <3>2 DEF IndexPerEpoch, r, x, a
  <2> QED BY <1>1, <2>2, <2>3
<1> QED
  BY <1>1, <1>2, <1>3

\* An entry the loop carries over keeps its place: the slots skipped since the
\* last block are fewer than the loop went back to reach it.
LEMMA KeptInPlace ==
    ASSUME NEW s \in Nat, NEW t \in Nat, t < s, NEW i \in Phases, NEW j \in Phases,
           NEW b \in Nat, InPlace(b, j, t),
           i >= s - t, IndexPerEpoch(s % E, i) = j
    PROVE  InPlace(b, j, s)
<1> DEFINE r == Word % E
           m == s % E
           p == s \div E
           q == b \div E
           D == p - q
<1>1. /\ E \in Nat \ {0} /\ i \in 0..E - 1 /\ j \in 0..E - 1 /\ r \in 0..E - 1 /\ m \in 0..E - 1
      /\ p \in Int /\ q \in Int /\ s = E * p + m
      /\ b = E * q + (b % E)
  <2>1. E \in Nat \ {0} /\ Word \in Int /\ i \in 0..E - 1 /\ j \in 0..E - 1
    BY AccumulationAssumption DEF Phases
  <2>2. r \in 0..E - 1
    BY <2>1, ModFacts
  <2>3. m \in 0..E - 1 /\ p \in Int /\ s = E * p + m
    BY <2>1, ModFacts
  <2>4. q \in Int /\ b = E * q + (b % E)
    BY <2>1, ModFacts
  <2> QED BY <2>1, <2>2, <2>3, <2>4
<1>2. b = E * q + j /\ r <= j
  BY <1>1 DEF InPlace
<1> HIDE DEF r, m, p, q
<1>3. s - b = E * D + (m - j)
  BY <1>1, <1>2
<1>4. LET rr == Word % E IN
           /\ i <= m => j = m - i
           /\ i > m /\ rr >= i - m => j = rr - (i - m)
           /\ i > m /\ rr < i - m => j = E + rr - (i - m)
  BY <1>1, IndexPerEpochFacts DEF Phases, m
<1>5. t - b < E /\ t - b >= s - b - i
  BY <1>1 DEF InPlace
<1>6. (D >= 1 => E * D >= E) /\ (D >= 2 => E * D >= 2 * E) /\ (D <= 0 => E * D <= 0) /\ D \in Int
  BY <1>1
<1>7. CASE i <= m
  <2>1. j = m - i
    BY <1>4, <1>7 DEF r
  <2>2. D <= 0
    BY <1>1, <1>3, <1>5, <1>6, <2>1
  <2>3. s - b < E /\ ~ (m < j)
    BY <1>1, <1>3, <1>6, <2>1, <2>2
  <2> QED BY <2>3 DEF InPlace, m
<1>8. CASE i > m
  <2>1. j = E + r - (i - m)
    BY <1>1, <1>2, <1>4, <1>8 DEF r
  <2>2. ASSUME D >= 2 PROVE FALSE
    <3>1. t - b >= E - r
      BY <1>1, <1>3, <1>5, <1>6, <2>1, <2>2
    <3> DEFINE n == t % E
               h == t \div E
               B == h - q
    <3>2. n \in 0..E - 1 /\ h \in Int /\ t = E * h + n
      BY <1>1, ModFacts
    <3>3. ~ (n < j)
      BY <1>1, <1>5, <3>1, <3>2 DEF InPlace, r
    <3> HIDE DEF n, h
    <3>4. t - b = E * B + (n - j)
      BY <1>1, <1>2, <3>2
    <3>5. B >= 1 => E * B >= E
      BY <1>1, <3>2
    <3>6. B <= 0 => E * B <= 0
      BY <1>1, <3>2
    <3> QED BY <1>1, <1>2, <1>5, <3>1, <3>2, <3>3, <3>4, <3>5, <3>6
  <2>3. D <= 1 /\ (D = 1 => E * D = E)
    BY <1>1, <2>2
  <2>4. s - b < E - r
    BY <1>1, <1>3, <1>6, <2>1, <2>3
  <2> QED BY <1>1, <2>4 DEF InPlace, m, r
<1> QED
  BY <1>1, <1>7, <1>8

\* A new entry survives the loop only at its own place, and only if the loop does
\* not come by there again.
LEMMA FreshInPlace ==
    ASSUME NEW s \in Nat, NEW j \in Phases, 0 \in LastWriters(s % E, j)
    PROVE  InPlace(s, j, s)
<1> DEFINE r == Word % E
           m == s % E
<1>1. E \in Nat \ {0} /\ Word \in Int
  BY AccumulationAssumption
<1>2. r \in 0..E - 1 /\ m \in 0..E - 1
  BY <1>1, ModFacts
<1>3. m \in Phases /\ r \in Phases /\ 0 \in Phases
  BY <1>1, <1>2 DEF Phases
<1>4. IndexPerEpoch(m, 0) = m
  BY <1>1, <1>2, <1>3, IndexPerEpochFacts
<1>5. j = m /\ \A k \in Writers(m, j) : k <= 0
  BY <1>4 DEF LastWriters, Writers
<1>6. ASSUME r > m PROVE FALSE
  <2>1. IndexPerEpoch(m, r) = m
    BY <1>1, <1>2, <1>3, <1>6, IndexPerEpochFacts
  <2> QED BY <1>2, <1>3, <1>5, <1>6, <2>1 DEF Writers
<1> QED
  BY <1>1, <1>2, <1>5, <1>6 DEF InPlace

\* The loop keeps every entry in its place.
LEMMA NewQueueInPlace ==
    ASSUME TypeOK, RingInv, NEW s \in Nat, slot < s,
           NEW fresh, \A e \in fresh : e.since = s,
           NEW last, NEW j \in Phases, NEW f \in NewQueue(s, fresh, last)[j]
    PROVE  InPlace(f.since, j, s)
<1>1. PICK i \in LastWriters(s % E, j) : f \in EntriesBack(i, s % E, s - slot, fresh, last)
  BY DEF NewQueue
<1>2. i \in Phases /\ i \in Nat /\ IndexPerEpoch(s % E, i) = j
  BY <1>1 DEF LastWriters, Writers, Phases
<1>3. CASE i = 0
  <2>1. f \in UpdateQueue(fresh, last)
    BY <1>1, <1>3 DEF EntriesBack
  <2>2. f.since = s
    BY <2>1, UpdateQueueFacts
  <2> QED BY <1>1, <1>3, <2>2, FreshInPlace
<1>4. CASE i # 0
  <2>1. slot \in Nat
    BY DEF TypeOK
  <2>2. ~ (i < s - slot)
    BY <1>1, <1>4 DEF EntriesBack
  <2>3. f \in UpdateQueue(queue[j], last)
    BY <1>1, <1>2, <1>4, <2>2 DEF EntriesBack
  <2>4. PICK e \in queue[j] : f.since = e.since
    BY <2>3, UpdateQueueFacts
  <2>5. e.since \in Nat /\ InPlace(e.since, j, slot)
    BY DEF TypeOK, Entries, RingInv
  <2>6. i >= s - slot
    BY <1>2, <2>1, <2>2
  <2> QED BY <1>2, <2>1, <2>4, <2>5, <2>6, KeptInPlace
<1> QED
  BY <1>3, <1>4

\* W! consists of packages without dependencies.
LEMMA ImmediateFacts ==
    ASSUME NEW reports \in Seq(Packages), NEW n \in 0..Len(reports)
    PROVE  \A p \in Immediate(reports, n) : p \in Packages /\ Deps[p] = {}
<1> SUFFICES ASSUME NEW p \in Immediate(reports, n) PROVE p \in Packages /\ Deps[p] = {}
  OBVIOUS
<1>1. PICK i \in 1..n : p = reports[i] /\ Deps[reports[i]] = {}
  BY DEF Immediate
<1>2. i \in 1..Len(reports) /\ Len(reports) \in Nat
  OBVIOUS
<1>3. reports[i] \in Packages
  BY <1>2, ElementOfSeq
<1> QED
  BY <1>1, <1>3

-----------------------------------------------------------------------------
\* The empty queue and history satisfy the inductive invariant.
LEMMA InitInvariant == Init => IInv
BY AccumulationAssumption DEF Init, IInv, TypeOK, QueueEdited, StruckWasAccumulated,
    HistoryAccumulated, RingInv, Queued, Phases

\* A block preserves the inductive invariant.
LEMMA StepInvariant == IInv /\ [Next]_vars => IInv'
<1> SUFFICES ASSUME IInv, [Next]_vars PROVE IInv'
  OBVIOUS
<1>1. CASE UNCHANGED vars
  BY <1>1 DEF vars, IInv, TypeOK, QueueEdited, StruckWasAccumulated, Queued,
    HistoryAccumulated, RingInv, FlattenAccumulationHistory
<1>2. CASE Next
  <2>1. PICK s \in slot + 1 .. slot + MaxGap, reports \in ReportLists :
          \E n \in 0..Len(reports) : s <= MaxSlot /\ ImportBlock(s, reports, n)
    BY <1>2 DEF Next
  <2>2. PICK n \in 0..Len(reports) : s <= MaxSlot /\ ImportBlock(s, reports, n)
    BY <2>1
  <2> DEFINE fresh == UpdateQueue(WithDeps(reports, s), FlattenAccumulationHistory(history))
             last == Immediate(reports, n)
  <2>3. /\ slot' = s
        /\ queue' = NewQueue(s, fresh, last)
        /\ history' = NewHistory(last)
        /\ accumulated' = accumulated \cup last
    BY <2>2, PriorityEmpty, ZenonT(60) DEF ImportBlock
  <2>4. TypeOK /\ s \in 0..MaxSlot /\ s \in Nat /\ reports \in Seq(Packages)
    BY <2>1, <2>2, AccumulationAssumption DEF IInv, TypeOK
  <2>5. \A p \in last : p \in Packages /\ Deps[p] = {}
    BY <2>4, ImmediateFacts
  <2> HIDE DEF last
  <2>6. FlattenAccumulationHistory(history) \subseteq accumulated
    BY DEF IInv, HistoryAccumulated, FlattenAccumulationHistory
  <2>7. FlattenAccumulationHistory(history') \subseteq
          FlattenAccumulationHistory(history) \cup last
    <3> SUFFICES ASSUME NEW j \in Phases
                 PROVE  history'[j] \subseteq FlattenAccumulationHistory(history) \cup last
      BY DEF FlattenAccumulationHistory
    <3>1. j # E - 1 => j + 1 \in Phases
      BY AccumulationAssumption DEF Phases
    <3>2. history'[j] = IF j = E - 1 THEN last ELSE history[j + 1]
      BY <2>3 DEF NewHistory
    <3> QED BY <3>1, <3>2 DEF FlattenAccumulationHistory
  \* A new entry: dependencies struck off were accumulated, nothing in it is in the
  \* history.
  <2>8. ASSUME NEW e \in fresh
        PROVE  /\ e \in Entries
               /\ e.pkg \notin FlattenAccumulationHistory(history)
               /\ e.deps \cap FlattenAccumulationHistory(history) = {}
               /\ Deps[e.pkg] \ e.deps \subseteq accumulated
               /\ e.since = s
    <3>1. PICK d \in WithDeps(reports, s) :
            /\ e = [pkg |-> d.pkg, since |-> d.since,
                    deps |-> d.deps \ FlattenAccumulationHistory(history)]
            /\ d.pkg \notin FlattenAccumulationHistory(history)
      BY UpdateQueueFacts
    <3>2. PICK i \in DOMAIN reports : d = [pkg |-> reports[i], deps |-> Deps[reports[i]], since |-> s]
      BY DEF WithDeps, GetWorkReportDependencies
    <3>3. reports[i] \in Packages
      BY <2>4, ElementOfSeq
    <3>4. Deps[reports[i]] \subseteq Packages
      BY <3>3, AccumulationAssumption
    <3> QED BY <2>4, <2>6, <3>1, <3>2, <3>3, <3>4 DEF Entries
  <2>9. ASSUME NEW e \in Queued
        PROVE  /\ e \in Entries
               /\ e.pkg \notin FlattenAccumulationHistory(history)
               /\ e.deps \cap FlattenAccumulationHistory(history) = {}
               /\ Deps[e.pkg] \ e.deps \subseteq accumulated
    BY DEF IInv, TypeOK, QueueEdited, StruckWasAccumulated, Queued
  <2> HIDE DEF fresh
  \* Hence the same of every entry of the new queue.
  <2>10. ASSUME NEW j \in Phases, NEW f \in queue'[j]
         PROVE  /\ f \in Entries
                /\ f.pkg \notin FlattenAccumulationHistory(history')
                /\ f.deps \cap FlattenAccumulationHistory(history') = {}
                /\ Deps[f.pkg] \ f.deps \subseteq accumulated'
    <3>1. PICK e \in fresh \cup Queued :
            /\ f = [pkg |-> e.pkg, deps |-> e.deps \ last, since |-> e.since]
            /\ e.pkg \notin last
      BY <2>3, <2>4, NewQueueFacts
    <3>2. /\ e \in Entries
          /\ e.pkg \notin FlattenAccumulationHistory(history)
          /\ e.deps \cap FlattenAccumulationHistory(history) = {}
          /\ Deps[e.pkg] \ e.deps \subseteq accumulated
      BY <2>8, <2>9
    <3> QED BY <2>3, <2>7, <3>1, <3>2 DEF Entries
  <2>11. \A f \in Queued' : \E j \in Phases : f \in queue'[j]
    BY DEF Queued
  <2>12. TypeOK'
    <3>1. queue' \in [Phases -> SUBSET Entries]
      <4>1. \A j \in Phases : queue'[j] \subseteq Entries
        BY <2>10
      <4>2. queue' = [j \in Phases |-> queue'[j]]
        BY <2>3 DEF NewQueue
      <4> QED BY <4>1, <4>2
    <3>2. history' \in [Phases -> SUBSET Packages]
      BY <2>3, <2>4, <2>5, AccumulationAssumption DEF TypeOK, NewHistory, Phases
    <3> QED BY <2>3, <2>4, <2>5, <3>1, <3>2 DEF TypeOK
  <2>13. QueueEdited' /\ StruckWasAccumulated'
    BY <2>10, <2>11 DEF QueueEdited, StruckWasAccumulated
  <2>14. HistoryAccumulated'
    BY <2>3, AccumulationAssumption, SMTT(60) DEF IInv, HistoryAccumulated, NewHistory, Phases
  <2>15. RingInv'
    <3>1. \A e \in fresh : e.since = s
      BY <2>8
    <3>2. RingInv /\ slot < s
      BY <2>1, <2>4 DEF IInv, TypeOK
    <3> SUFFICES ASSUME NEW j \in Phases, NEW f \in queue'[j] PROVE InPlace(f.since, j, s)
      BY <2>3 DEF RingInv
    <3> QED BY <2>3, <2>4, <3>1, <3>2, NewQueueInPlace
  <2> QED
    BY <2>12, <2>13, <2>14, <2>15 DEF IInv
<1> QED
  BY <1>1, <1>2

\* The parts of the invariant hold in every behaviour of the queue.
THEOREM Invariance == Spec => []IInv
BY InitInvariant, StepInvariant, PTL DEF Spec

\* CalculateWorkReportsAndAccumulate keeps the shape of the queue and the history.
THEOREM TypeTheorem == Spec => []TypeOK
<1>1. IInv => TypeOK
  BY DEF IInv
<1> QED BY <1>1, Invariance, PTL

\* updateQueue is applied wherever it must be: nothing in the queue is in the
\* accumulation history.
THEOREM EditedTheorem == Spec => []QueueEdited
<1>1. IInv => QueueEdited
  BY DEF IInv
<1> QED BY <1>1, Invariance, PTL

\* A dependency is struck off only when the package it names was accumulated.
THEOREM StruckTheorem == Spec => []StruckWasAccumulated
<1>1. IInv => StruckWasAccumulated
  BY DEF IInv
<1> QED BY <1>1, Invariance, PTL

\* The ring forgets a waiting report within an epoch, for every length of the epoch
\* and every word: where the unsigned arithmetic of the loop looks in a wrong place,
\* it has lost the report already.
THEOREM WaitsTheorem == Spec => []WaitsAnEpochAtMost
<1>1. IInv => WaitsAnEpochAtMost
  BY DEF IInv, RingInv, InPlace, WaitsAnEpochAtMost, Queued
<1> QED BY <1>1, Invariance, PTL
=============================================================================
