-------------------------- MODULE CoreReportsProofs --------------------------
(***************************************************************************)
(* Safety of the core assignments for every set of cores and packages,     *)
(* every timeout and every history at most one slot shorter than it,       *)
(* of the authorizer pools for every size, and of the guarantors' turns    *)
(* for every rotation period and epoch that it divides.                    *)
(***************************************************************************)
EXTENDS Guarantors, SequenceTheorems, FiniteSetTheorems, TLAPS

\* Blocks are at least one slot apart, so the i-th last recent block is at least i
\* slots old.
SlotsInv ==
    \A i \in 1..Len(recent) : recent[i].slot + (Len(recent) - i) <= slot

\* The recent blocks still know the package of every report that can be on its
\* core after the next block.
HeldInv ==
    \A c \in Cores : rho[c] # None /\ slot + 1 < rho[c].time + U =>
        \E i \in 1..Len(recent) :
            recent[i].slot = rho[c].time /\ rho[c].pkg \in recent[i].packages

\* Every package of a recent block was handed to accumulation.
OfferedInv == \A i \in 1..Len(recent) : recent[i].packages \subseteq offered

IInv ==
    /\ TypeOK /\ NoStaleReports /\ PackagesOnCoresDistinct /\ DependenciesReported
    /\ SlotsInv /\ HeldInv /\ OfferedInv

-----------------------------------------------------------------------------
BlockRecords == [slot : 0..MaxSlot, packages : SUBSET Packages]
GuaranteeRecords ==
    [core : Cores, pkg : Packages, age : Nat, anchorAge : Nat, sound : BOOLEAN]

\* The guarantees of a block name cores and packages.
LEMMA GuaranteeType ==
    ASSUME NEW gs \in GuaranteeLists
    PROVE  \A g \in Elements(gs) : g.core \in Cores /\ g.pkg \in Packages
<1>1. gs \in Seq(GuaranteeRecords)
  BY ExtrinsicAssumption DEF GuaranteeRecords
<1>2. \A g \in Elements(gs) : g \in GuaranteeRecords
  BY <1>1, ElementOfSeq DEF Elements
<1> QED
  BY <1>2 DEF GuaranteeRecords

\* Guarantees are for different cores and of different packages.
LEMMA GuaranteesDistinct ==
    ASSUME NEW gs \in GuaranteeLists, NEW s, NEW queued, GuaranteesValid(gs, s, queued),
           NEW g \in Elements(gs), NEW h \in Elements(gs)
    PROVE  (g.core = h.core \/ g.pkg = h.pkg) => g = h
<1>1. gs \in Seq(GuaranteeRecords)
  BY ExtrinsicAssumption DEF GuaranteeRecords
<1>2. PICK i \in DOMAIN gs, j \in DOMAIN gs : g = gs[i] /\ h = gs[j]
  BY DEF Elements
<1>3. i \in Nat /\ j \in Nat
  BY <1>1, DOMAIN gs = 1..Len(gs), Len(gs) \in Nat
<1>4. g.core \in Nat /\ h.core \in Nat
  BY GuaranteeType, CoreAssumption
<1>5. g.core = h.core => i = j
  BY <1>2, <1>3, <1>4 DEF GuaranteesValid, SortedByCore
<1>6. g.pkg = h.pkg => i = j
  BY <1>2 DEF GuaranteesValid
<1> QED
  BY <1>2, <1>5, <1>6

\* The new list of recent blocks is the old one with the block appended, without
\* its first entry if it was full.
LEMMA NewRecentFacts ==
    ASSUME TypeOK, NEW gs \in GuaranteeLists, NEW s \in 0..MaxSlot,
           NEW block, block = [slot |-> s, packages |-> {g.pkg : g \in Elements(gs)}],
           NEW new, new = NewRecent(gs, s)
    PROVE  /\ new \in Seq(BlockRecords) /\ Len(new) <= H
           /\ \E off \in {0, 1} :
                /\ off = 1 => Len(recent) = H
                /\ Len(new) = Len(recent) + 1 - off
                /\ new[Len(new)] = block
                /\ Len(new) >= 1
                /\ \A k \in 1..Len(new) - 1 : new[k] = recent[k + off]
<1> DEFINE all == Append(recent, block)
           n == Len(recent)
<1>1. recent \in Seq(BlockRecords) /\ n \in Nat /\ n <= H /\ H \in Nat /\ H >= 1
  BY CoreAssumption DEF TypeOK, BlockRecords
<1>2. block \in BlockRecords
  BY GuaranteeType DEF BlockRecords
<1>3. /\ all \in Seq(BlockRecords) /\ Len(all) = n + 1
      /\ all[n + 1] = block /\ \A k \in 1..n : all[k] = recent[k]
  BY <1>1, <1>2, AppendProperties
<1>4. new = IF Len(all) > H THEN SubSeq(all, Len(all) - H + 1, Len(all)) ELSE all
  BY Zenon DEF NewRecent
<1> DEFINE Shifted(off) ==
             /\ off = 1 => n = H
             /\ Len(new) = n + 1 - off
             /\ new[Len(new)] = block
             /\ Len(new) >= 1
             /\ \A k \in 1..Len(new) - 1 : new[k] = recent[k + off]
<1>5. CASE Len(all) > H
  <2> HIDE DEF all
  <2>0. n = H /\ Len(all) = n + 1 /\ Len(all) - H + 1 = 2
    BY <1>1, <1>3, <1>5
  <2>1. n = H /\ new = SubSeq(all, 2, n + 1)
    BY <2>0, <1>4, <1>5, Zenon
  <2>2. \A k \in 2..n + 1 : all[k] \in BlockRecords
    BY <1>1, <1>3, ElementOfSeq
  <2>3. /\ SubSeq(all, 2, n + 1) \in Seq(BlockRecords)
        /\ Len(SubSeq(all, 2, n + 1)) = IF 2 <= n + 1 THEN (n + 1) - 2 + 1 ELSE 0
        /\ \A i \in 1..(n + 1) - 2 + 1 : SubSeq(all, 2, n + 1)[i] = all[2 + i - 1]
    BY <1>1, <2>2, SubSeqProperties
  <2>4. /\ new \in Seq(BlockRecords) /\ Len(new) = n
        /\ \A k \in 1..n : new[k] = all[k + 1]
    BY <1>1, <2>1, <2>3
  <2>5. Shifted(1)
    BY <1>1, <1>3, <2>1, <2>4
  <2> QED BY <1>1, <2>1, <2>4, <2>5
<1>6. CASE ~(Len(all) > H)
  <2>1. new = all
    BY <1>4, <1>6, Zenon
  <2> HIDE DEF all
  <2>2. /\ new \in Seq(BlockRecords) /\ Len(new) = n + 1 /\ Len(new) <= H
        /\ new[n + 1] = block /\ \A k \in 1..n : new[k] = recent[k]
    BY <1>1, <1>3, <1>6, <2>1
  <2>3. Shifted(0)
    BY <1>1, <2>2
  <2> QED BY <1>1, <2>2, <2>3
<1> QED
  BY <1>1, <1>5, <1>6

\* After a block a core holds either a report the block guarantees, or the report
\* it held before, not stale; and every guarantee puts its report on its core.
LEMMA NewAssignments ==
    ASSUME TypeOK, NEW s \in 0..MaxSlot, NEW gs \in GuaranteeLists, NEW as, NEW judged,
           NEW queued, ImportBlock(s, gs, as, judged, queued)
    PROVE  /\ rho' \in [Cores -> Assignments]
           /\ \A g \in Elements(gs) : rho'[g.core] = [pkg |-> g.pkg, time |-> s]
           /\ \A c \in Cores : rho'[c] # None =>
                \/ \E g \in Elements(gs) : g.core = c /\ rho'[c] = [pkg |-> g.pkg, time |-> s]
                \/ rho'[c] = rho[c] /\ ~Stale(rho[c], s)
<1> DEFINE rho1 == AfterDisputes(judged)
           rho2 == AfterAssurances(rho1, as, s)
<1>1. rho' = AfterGuarantees(rho2, gs, s) /\ GuaranteesValid(gs, s, queued)
  BY DEF ImportBlock
<1>2. \A c \in Cores : rho2[c] = None \/ (rho2[c] = rho[c] /\ ~Stale(rho[c], s))
  <2>1. \A c \in Cores : rho1[c] = None \/ rho1[c] = rho[c]
    BY DEF AfterDisputes
  <2> HIDE DEF rho1
  <2>2. \A c \in Cores : rho2[c] = None \/ (rho2[c] = rho1[c] /\ ~Stale(rho1[c], s))
    <3> TAKE c \in Cores
    <3>1. rho2[c] = IF IsAvailable(as, c) \/ Stale(rho1[c], s) THEN None ELSE rho1[c]
      BY DEF AfterAssurances
    <3> HIDE DEF rho2
    <3> QED BY <3>1, Zenon
  <2> HIDE DEF rho2
  <2> QED BY <2>1, <2>2, Zenon
<1> HIDE DEF rho2
<1>3. \A g \in Elements(gs) : g.core \in Cores /\ g.pkg \in Packages
  BY GuaranteeType
<1>4. \A g \in Elements(gs) : ~Engaged(rho2[g.core], s)
  BY <1>1, <1>2, <1>3 DEF GuaranteesValid, Engaged, Stale
<1>5. \A g \in Elements(gs) : (CHOOSE h \in Elements(gs) : h.core = g.core) = g
  BY <1>1, GuaranteesDistinct
<1>6. \A g \in Elements(gs) : rho'[g.core] = [pkg |-> g.pkg, time |-> s]
  <2> TAKE g \in Elements(gs)
  <2>1. rho'[g.core] =
          [pkg |-> (CHOOSE h \in Elements(gs) : h.core = g.core).pkg, time |-> s]
    BY <1>1, <1>3, <1>4 DEF AfterGuarantees
  <2>2. (CHOOSE h \in Elements(gs) : h.core = g.core) = g
    BY <1>5
  <2> QED BY <2>1, <2>2, Zenon
<1>7. \A c \in Cores : (~\E g \in Elements(gs) : g.core = c) => rho'[c] = rho2[c]
  BY <1>1 DEF AfterGuarantees
<1>8. \A c \in Cores : rho'[c] # None =>
        \/ \E g \in Elements(gs) : g.core = c /\ rho'[c] = [pkg |-> g.pkg, time |-> s]
        \/ rho'[c] = rho[c] /\ ~Stale(rho[c], s)
  BY <1>2, <1>6, <1>7
<1>9. rho' \in [Cores -> Assignments]
  <2>1. \A c \in Cores : rho'[c] \in Assignments
    <3> TAKE c \in Cores
    <3>1. CASE rho'[c] = None
      BY <3>1 DEF Assignments
    <3>2. CASE \E g \in Elements(gs) : rho'[c] = [pkg |-> g.pkg, time |-> s]
      BY <3>2, <1>3 DEF Assignments
    <3>3. CASE rho'[c] = rho[c]
      BY <3>3 DEF TypeOK
    <3> QED BY <1>8, <3>1, <3>2, <3>3
  <2>2. rho' = [c \in Cores |-> rho'[c]]
    BY <1>1 DEF AfterGuarantees
  <2> QED BY <2>1, <2>2
<1> QED
  BY <1>6, <1>8, <1>9

-----------------------------------------------------------------------------
\* The genesis state satisfies the inductive invariant.
LEMMA InitInvariant == Init => IInv
BY CoreAssumption DEF Init, IInv, TypeOK, NoStaleReports, PackagesOnCoresDistinct,
    DependenciesReported, SlotsInv, HeldInv, OfferedInv, Assignments

\* The slot of a block that is accepted is a slot.
LEMMA NextSlot ==
    ASSUME NEW a \in 0..MaxSlot, NEW m, NEW s \in a + 1 .. a + m, s <= MaxSlot
    PROVE  s \in 0..MaxSlot
  BY CoreAssumption

\* The recent packages are those of the recent blocks.
LEMMA RecentByIndex ==
    ASSUME TypeOK
    PROVE  \A p : p \in RecentPackages <=> \E i \in 1..Len(recent) : p \in recent[i].packages
<1>1. recent \in Seq([slot : 0..MaxSlot, packages : SUBSET Packages])
  BY DEF TypeOK
<1>2. DOMAIN recent = 1..Len(recent)
  BY <1>1
<1> QED BY <1>2, Zenon DEF RecentPackages, Elements

\* A block preserves the inductive invariant.
LEMMA StepInvariant == IInv /\ [Next]_vars => IInv'
<1> SUFFICES ASSUME IInv, [Next]_vars PROVE IInv'
  OBVIOUS
<1>1. CASE UNCHANGED vars
  BY <1>1 DEF vars, IInv, TypeOK, NoStaleReports, PackagesOnCoresDistinct,
    DependenciesReported, SlotsInv, HeldInv, OfferedInv
<1>2. CASE Next
  <2>1. PICK s \in slot + 1 .. slot + MaxGap, gs \in GuaranteeLists,
             as \in AssuranceLists, judged \in VerdictSets, queued \in {{}, offered} :
               s <= MaxSlot /\ ImportBlock(s, gs, as, judged, queued)
    BY <1>2 DEF Next
  <2>2. /\ TypeOK /\ slot \in Nat /\ s \in 0..MaxSlot /\ s > slot /\ slot' = s
        /\ GuaranteesValid(gs, s, queued)
        /\ offered' = offered \cup GetAvailableWorkReports(rho')
    BY <2>1, CoreAssumption DEF IInv, TypeOK, ImportBlock
  <2>3. \A g \in Elements(gs) : g.core \in Cores /\ g.pkg \in Packages
    BY GuaranteeType
  <2>4. /\ rho' \in [Cores -> Assignments]
        /\ \A g \in Elements(gs) : rho'[g.core] = [pkg |-> g.pkg, time |-> s]
        /\ \A c \in Cores : rho'[c] # None =>
             \/ \E g \in Elements(gs) : g.core = c /\ rho'[c] = [pkg |-> g.pkg, time |-> s]
             \/ rho'[c] = rho[c] /\ ~Stale(rho[c], s)
    BY <2>1, <2>2, NewAssignments
  <2> DEFINE block == [slot |-> s, packages |-> {g.pkg : g \in Elements(gs)}]
  <2>5. /\ recent' \in Seq(BlockRecords) /\ Len(recent') <= H
        /\ \E off \in {0, 1} :
             /\ off = 1 => Len(recent) = H
             /\ Len(recent') = Len(recent) + 1 - off
             /\ recent'[Len(recent')] = block
             /\ Len(recent') >= 1
             /\ \A k \in 1..Len(recent') - 1 : recent'[k] = recent[k + off]
    <3>1. recent' = NewRecent(gs, s)
      BY <2>1 DEF ImportBlock
    <3> QED BY <3>1, <2>2, NewRecentFacts
  <2>6. PICK off \in {0, 1} :
             /\ off = 1 => Len(recent) = H
             /\ Len(recent') = Len(recent) + 1 - off
             /\ recent'[Len(recent')] = block
             /\ Len(recent') >= 1
             /\ \A k \in 1..Len(recent') - 1 : recent'[k] = recent[k + off]
    BY <2>5
  <2> DEFINE n == Len(recent)
             m == Len(recent')
  <2>7. n \in Nat /\ m \in Nat /\ m <= H /\ H \in Nat /\ U \in Nat /\ U <= H + 1
    BY <2>2, <2>5, CoreAssumption DEF TypeOK
  <2>8. \A i \in 1..n : recent[i] \in BlockRecords
    BY <2>2, ElementOfSeq DEF TypeOK, BlockRecords
  <2>9. \A i \in 1..n : recent[i].slot \in Nat
    BY <2>8 DEF BlockRecords
  <2>10. \A c \in Cores : rho[c] # None => rho[c].time \in Nat /\ rho[c].pkg \in Packages
    BY <2>2 DEF TypeOK, Assignments
  \* New packages are not among the recent ones, those that stay on a core are.
  <2>11. \A g \in Elements(gs) : g.pkg \notin RecentPackages
    BY <2>2 DEF GuaranteesValid
  <2>12. \A i \in 1..n : recent[i].packages \subseteq RecentPackages
    BY <2>2, RecentByIndex
  <2>13. \A c \in Cores : rho[c] # None /\ ~Stale(rho[c], s) =>
            slot + 1 < rho[c].time + U /\ rho[c].pkg \in RecentPackages
    <3> SUFFICES ASSUME NEW c \in Cores, rho[c] # None, ~Stale(rho[c], s)
                 PROVE  slot + 1 < rho[c].time + U /\ rho[c].pkg \in RecentPackages
      OBVIOUS
    <3>1. slot + 1 < rho[c].time + U
      BY <2>2, <2>7, <2>10 DEF Stale
    <3> QED BY <3>1, <2>12 DEF IInv, HeldInv
  <2>14. \A p \in RecentPackages : \E i \in 1..n : p \in recent[i].packages
    BY <2>2, RecentByIndex
  <2>15. TypeOK'
    <3>1. GetAvailableWorkReports(rho') \subseteq Packages
      BY <2>4 DEF GetAvailableWorkReports, Assignments
    <3> QED BY <3>1, <2>2, <2>4, <2>5 DEF TypeOK, BlockRecords
  <2>16. NoStaleReports'
    <3> SUFFICES ASSUME NEW c \in Cores, rho'[c] # None
                 PROVE  rho'[c].time <= s /\ s < rho'[c].time + U
      BY <2>2 DEF NoStaleReports
    <3>1. CASE \E g \in Elements(gs) : rho'[c] = [pkg |-> g.pkg, time |-> s]
      <4>1. rho'[c].time = s
        BY <3>1
      <4> QED BY <4>1, <2>2, CoreAssumption
    <3>2. CASE rho'[c] = rho[c] /\ ~Stale(rho[c], s)
      <4>1. rho[c].time \in Nat /\ rho[c].time <= slot
        BY <3>2, <2>10 DEF IInv, NoStaleReports
      <4> QED BY <3>2, <4>1, <2>2, CoreAssumption DEF Stale
    <3> QED BY <2>4, <3>1, <3>2
  <2>17. PackagesOnCoresDistinct'
    <3> SUFFICES ASSUME NEW c \in Cores, NEW d \in Cores,
                        rho'[c] # None, rho'[c].pkg = rho'[d].pkg
                 PROVE  c = d
      BY DEF PackagesOnCoresDistinct
    <3>1. rho'[d] # None
      BY <2>4, CoreAssumption DEF Assignments, None
    <3>2. CASE \E g \in Elements(gs) : g.core = c /\ rho'[c] = [pkg |-> g.pkg, time |-> s]
      <4>1. PICK g \in Elements(gs) : g.core = c /\ rho'[c] = [pkg |-> g.pkg, time |-> s]
        BY <3>2
      <4>2. PICK h \in Elements(gs) : h.core = d /\ rho'[d] = [pkg |-> h.pkg, time |-> s]
        BY <2>4, <2>11, <2>13, <3>1, <4>1
      <4>3. g.pkg = h.pkg
        BY <4>1, <4>2
      <4> QED BY <2>2, <4>1, <4>2, <4>3, GuaranteesDistinct
    <3>3. CASE rho'[c] = rho[c] /\ ~Stale(rho[c], s)
      <4>1. rho'[d] = rho[d]
        BY <2>4, <2>11, <2>13, <3>1, <3>3
      <4> QED BY <3>3, <4>1 DEF IInv, PackagesOnCoresDistinct
    <3> QED BY <2>4, <3>2, <3>3
  <2>18. SlotsInv'
    <3> SUFFICES ASSUME NEW i \in 1..m PROVE recent'[i].slot + (m - i) <= s
      BY <2>2 DEF SlotsInv
    <3>1. CASE i = m
      BY <3>1, <2>2, <2>6, <2>7
    <3>2. CASE i # m
      <4>1. i \in 1..m - 1 /\ i + off \in 1..n
        BY <3>2, <2>6, <2>7
      <4>2. recent'[i] = recent[i + off]
        BY <4>1, <2>6
      <4>3. recent[i + off].slot + (n - (i + off)) <= slot
        BY <4>1 DEF IInv, SlotsInv
      <4>4. recent[i + off].slot \in Nat
        BY <4>1, <2>9
      <4>5. m = n + 1 - off /\ off \in Int /\ i \in Int
        BY <2>6, <2>7
      <4> HIDE DEF m, n
      <4>6. recent[i + off].slot + (m - i) <= s
        BY <4>3, <4>4, <4>5, <2>2, <2>7
      <4> QED BY <4>2, <4>6
    <3> QED BY <3>1, <3>2
  \* A block is forgotten only when the reports it brought are stale.
  <2>19. HeldInv'
    <3> SUFFICES ASSUME NEW c \in Cores, rho'[c] # None, s + 1 < rho'[c].time + U
                 PROVE  \E i \in 1..m :
                          recent'[i].slot = rho'[c].time /\ rho'[c].pkg \in recent'[i].packages
      BY <2>2 DEF HeldInv
    <3>1. CASE \E g \in Elements(gs) : g.core = c /\ rho'[c] = [pkg |-> g.pkg, time |-> s]
      <4>1. recent'[m].slot = rho'[c].time /\ rho'[c].pkg \in recent'[m].packages
        BY <3>1, <2>6
      <4> QED BY <4>1, <2>6, <2>7
    <3>2. CASE rho'[c] = rho[c] /\ ~Stale(rho[c], s)
      <4>1. PICK i \in 1..n :
              recent[i].slot = rho[c].time /\ rho[c].pkg \in recent[i].packages
        BY <3>2, <2>13 DEF IInv, HeldInv
      <4>2. s + 1 < rho[c].time + U /\ rho[c].time \in Nat
        BY <3>2, <2>10
      <4>3. recent[i].slot + (n - i) <= slot
        BY DEF IInv, SlotsInv
      <4>4. i - off \in 1..m - 1
        <5> DEFINE t == rho[c].time
        <5>1. off \in {0, 1} /\ (off = 1 => n = H) /\ m = n + 1 - off
          BY <2>6, Zenon
        <5>2. t + (n - i) <= slot
          BY <4>1, <4>3, Zenon
        <5>3. slot \in Nat /\ s \in Nat /\ s > slot
          BY <2>2, CoreAssumption
        <5>4. t \in Nat /\ s + 1 < t + U
          BY <4>2, Zenon
        <5> HIDE DEF n, m, t
        <5> QED BY <2>7, <4>1, <5>1, <5>2, <5>3, <5>4
      <4>5. recent'[i - off] = recent[i]
        <5>1. (i - off) + off = i
          BY <2>6, <4>1
        <5>2. recent'[i - off] = recent[(i - off) + off]
          BY <2>6, <4>4, ZenonT(60)
        <5> QED BY <5>1, <5>2, Zenon
      <4>6. i - off \in 1..m
        BY <4>4, <2>7
      <4>7. /\ recent'[i - off].slot = rho'[c].time
            /\ rho'[c].pkg \in recent'[i - off].packages
        BY <3>2, <4>1, <4>5
      <4> QED BY <4>6, <4>7
    <3> QED BY <2>4, <3>1, <3>2
  <2>20. OfferedInv'
    <3> SUFFICES ASSUME NEW i \in 1..m PROVE recent'[i].packages \subseteq offered'
      BY DEF OfferedInv
    <3>1. CASE i = m
      <4>1. \A g \in Elements(gs) : g.pkg \in GetAvailableWorkReports(rho')
        <5> TAKE g \in Elements(gs)
        <5>1. rho'[g.core].pkg = g.pkg
          <6>1. rho'[g.core] = [pkg |-> g.pkg, time |-> s]
            BY <2>4
          <6> QED BY <6>1
        <5>2. g.core \in Cores /\ g.pkg # "none"
          BY <2>3, CoreAssumption
        <5>3. rho'[g.core] # None
          BY <5>1, <5>2, None.pkg = "none" DEF None
        <5> QED BY <5>1, <5>2, <5>3 DEF GetAvailableWorkReports
      <4> QED BY <3>1, <4>1, <2>2, <2>6
    <3>2. CASE i # m
      <4>1. i \in 1..m - 1 /\ i + off \in 1..n
        BY <3>2, <2>6, <2>7
      <4>2. recent'[i] = recent[i + off]
        BY <4>1, <2>6
      <4> QED BY <4>1, <4>2, <2>2 DEF IInv, OfferedInv
    <3> QED BY <3>1, <3>2
  <2>21. DependenciesReported'
    <3> SUFFICES ASSUME NEW c \in Cores, rho'[c] # None
                 PROVE  Prereqs[rho'[c].pkg] \subseteq offered'
      BY DEF DependenciesReported
    <3>1. CASE \E g \in Elements(gs) : g.core = c /\ rho'[c] = [pkg |-> g.pkg, time |-> s]
      <4>1. PICK g \in Elements(gs) : rho'[c] = [pkg |-> g.pkg, time |-> s]
        BY <3>1
      <4>2. Prereqs[g.pkg] \subseteq {h.pkg : h \in Elements(gs)} \cup RecentPackages
        BY <2>2 DEF GuaranteesValid
      <4>3. RecentPackages \subseteq offered
        BY <2>14 DEF IInv, OfferedInv
      <4>4. {h.pkg : h \in Elements(gs)} \subseteq offered'
        BY <2>6, <2>7, <2>20 DEF OfferedInv
      <4> QED BY <4>1, <4>2, <4>3, <4>4, <2>2
    <3>2. CASE rho'[c] = rho[c]
      BY <3>2, <2>2 DEF IInv, DependenciesReported
    <3> QED BY <2>4, <3>1, <3>2
  <2> QED
    BY <2>15, <2>16, <2>17, <2>18, <2>19, <2>20, <2>21 DEF IInv
<1> QED
  BY <1>1, <1>2

\* The parts of the invariant hold in every behaviour of the core assignments.
THEOREM Invariance == Spec => []IInv
BY InitInvariant, StepInvariant, PTL DEF Spec

\* UpdateState keeps the shape of the assignments and of the recent blocks.
THEOREM TypeTheorem == Spec => []TypeOK
<1>1. IInv => TypeOK
  BY DEF IInv
<1> QED BY <1>1, Invariance, PTL

\* No report outlives its timeout on a core.
THEOREM StaleTheorem == Spec => []NoStaleReports
<1>1. IInv => NoStaleReports
  BY DEF IInv
<1> QED BY <1>1, Invariance, PTL

\* A package is never on two cores: the recent blocks remember it for as long as
\* its report can be on one.
THEOREM DistinctTheorem == Spec => []PackagesOnCoresDistinct
<1>1. IInv => PackagesOnCoresDistinct
  BY DEF IInv
<1> QED BY <1>1, Invariance, PTL

\* The packages a report on a core depends on were reported before or with it.
THEOREM DependenciesTheorem == Spec => []DependenciesReported
<1>1. IInv => DependenciesReported
  BY DEF IInv
<1> QED BY <1>1, Invariance, PTL

\* A report leaves its core only by a verdict, by assurances or by timeout.
THEOREM LeaveTheorem == Spec => ReportsLeaveForCause
<1>1. IInv /\ [Next]_vars =>
        [\A c \in Cores : rho[c] # None /\ rho'[c] # rho[c] =>
            slot' >= rho[c].time + U \/ rho[c].pkg \in cleared']_vars
  <2> SUFFICES ASSUME IInv, Next, NEW c \in Cores, rho[c] # None,
                      ~(slot' >= rho[c].time + U), rho[c].pkg \notin cleared'
               PROVE  rho'[c] = rho[c]
    OBVIOUS
  <2>1. PICK s \in slot + 1 .. slot + MaxGap, gs \in GuaranteeLists,
             as \in AssuranceLists, judged \in VerdictSets, queued \in {{}, offered} :
               s <= MaxSlot /\ ImportBlock(s, gs, as, judged, queued)
    BY DEF Next
  <2> DEFINE rho1 == AfterDisputes(judged)
             rho2 == AfterAssurances(rho1, as, s)
             taken == {d \in Cores : rho1[d] # None /\ IsAvailable(as, d)}
  <2>2. /\ slot' = s /\ GuaranteesValid(gs, s, queued)
        /\ rho' = AfterGuarantees(rho2, gs, s)
        /\ cleared' = judged \cup {rho1[d].pkg : d \in taken}
    BY <2>1 DEF ImportBlock
  <2>3. ~Stale(rho[c], s) /\ Engaged(rho[c], s)
    BY <2>2 DEF Engaged, Stale
  <2>4. rho1[c] = rho[c]
    BY <2>2 DEF AfterDisputes
  <2>5. ~IsAvailable(as, c)
    <3> HIDE DEF rho1
    <3> QED BY <2>2, <2>4
  <2>6. rho2[c] = rho[c]
    <3>1. rho2[c] = IF IsAvailable(as, c) \/ Stale(rho1[c], s) THEN None ELSE rho1[c]
      BY DEF AfterAssurances
    <3> HIDE DEF rho1, rho2
    <3> QED BY <3>1, <2>3, <2>4, <2>5
  <2> HIDE DEF rho2
  <2>7. ~\E g \in Elements(gs) : g.core = c
    BY <2>2, <2>3 DEF GuaranteesValid
  <2> QED BY <2>2, <2>6, <2>7 DEF AfterGuarantees
<1> QED BY <1>1, Invariance, PTL DEF Spec, ReportsLeaveForCause

-----------------------------------------------------------------------------
(* Guarantors: authorizers.                                                *)

Places(a, seq) == {i \in DOMAIN seq : seq[i] = a}

\* The places of an authorizer in a pool are finitely many, so they can be counted.
LEMMA PlacesFacts ==
  ASSUME NEW S, NEW seq \in Seq(S), NEW a
  PROVE  /\ IsFiniteSet(Places(a, seq)) /\ Occurrences(a, seq) = Cardinality(Places(a, seq))
         /\ Occurrences(a, seq) \in Nat
         /\ DOMAIN seq = 1..Len(seq) /\ Len(seq) \in Nat
<1>1. DOMAIN seq = 1..Len(seq) /\ Len(seq) \in Nat
  OBVIOUS
<1>2. IsFiniteSet(1..Len(seq))
  BY <1>1, FS_Interval
<1>3. Places(a, seq) \in SUBSET (1..Len(seq))
  BY <1>1 DEF Places
<1>4. IsFiniteSet(Places(a, seq))
  BY <1>2, <1>3, FS_Subset
<1>5. Occurrences(a, seq) = Cardinality(Places(a, seq))
  BY DEF Occurrences, Places
<1> QED BY <1>1, <1>4, <1>5, FS_CardinalityType

\* A sequence without its i-th element has no element more often, and that one
\* less often.
LEMMA OneFewer ==
  ASSUME NEW S, NEW seq \in Seq(S), NEW new \in Seq(S), NEW i \in 1..Len(seq),
         Len(new) = Len(seq) - 1,
         \A j \in 1..Len(new) : new[j] = IF j < i THEN seq[j] ELSE seq[j + 1],
         NEW a
  PROVE  Occurrences(a, new) + (IF seq[i] = a THEN 1 ELSE 0) <= Occurrences(a, seq)
<1> DEFINE from == Places(a, new)
           to == Places(a, seq) \ {i}
           f == [j \in from |-> IF j < i THEN j ELSE j + 1]
<1>1. /\ IsFiniteSet(Places(a, seq)) /\ Occurrences(a, seq) = Cardinality(Places(a, seq))
      /\ Occurrences(a, seq) \in Nat /\ DOMAIN seq = 1..Len(seq) /\ Len(seq) \in Nat
  BY PlacesFacts
<1>2. /\ Occurrences(a, new) = Cardinality(from) /\ DOMAIN new = 1..Len(new)
      /\ Occurrences(a, new) \in Nat /\ Len(new) \in Nat
  BY PlacesFacts
<1>3. \A j \in from : j \in 1..Len(new) /\ f[j] \in 1..Len(seq) /\ f[j] # i /\ seq[f[j]] = a
  BY <1>1, <1>2 DEF Places
<1>4. f \in [from -> to]
  BY <1>1, <1>3 DEF Places
<1>5. \A j, k \in from : f[j] = f[k] => j = k
  BY <1>3
<1>6. f \in Injection(from, to)
  BY <1>4, <1>5 DEF Injection, IsInjective
<1>7. /\ IsFiniteSet(to)
      /\ Cardinality(to) = IF i \in Places(a, seq) THEN Cardinality(Places(a, seq)) - 1
                           ELSE Cardinality(Places(a, seq))
  BY <1>1, FS_RemoveElement
<1> HIDE DEF f, from, to
<1>8. Cardinality(from) <= Cardinality(to)
  BY <1>6, <1>7, FS_Injection
<1>9. i \in Places(a, seq) <=> seq[i] = a
  BY <1>1 DEF Places
<1> QED BY <1>1, <1>2, <1>7, <1>8, <1>9

\* Dropping the oldest authorizer of a pool leaves no more of any.
LEMMA TailFewer ==
  ASSUME NEW S, NEW seq \in Seq(S), seq # <<>>, NEW a
  PROVE  Tail(seq) \in Seq(S) /\ Occurrences(a, Tail(seq)) <= Occurrences(a, seq)
<1>1. /\ Tail(seq) \in Seq(S) /\ Len(Tail(seq)) = Len(seq) - 1
      /\ \A i \in 1..Len(Tail(seq)) : Tail(seq)[i] = seq[i + 1]
  BY HeadTailProperties
<1>2. 1 \in 1..Len(seq)
  BY EmptySeq, LenProperties
<1> DEFINE new == Tail(seq)
<1>3. \A j \in 1..Len(new) : new[j] = IF j < 1 THEN seq[j] ELSE seq[j + 1]
  BY <1>1
<1> HIDE DEF new
<1>4. Occurrences(a, new) + (IF seq[1] = a THEN 1 ELSE 0) <= Occurrences(a, seq)
  BY <1>1, <1>2, <1>3, OneFewer DEF new
<1>5. Occurrences(a, new) \in Nat /\ Occurrences(a, seq) \in Nat
  BY <1>1, PlacesFacts DEF new
<1> QED BY <1>1, <1>4, <1>5 DEF new

\* A pool that grows by an authorizer has one more of it and as many of the others.
LEMMA AppendOneMore ==
  ASSUME NEW S, NEW seq \in Seq(S), NEW b \in S, NEW a
  PROVE  /\ Append(seq, b) \in Seq(S)
         /\ Occurrences(a, Append(seq, b)) = Occurrences(a, seq) + (IF b = a THEN 1 ELSE 0)
<1> DEFINE new == Append(seq, b)
           n == Len(seq) + 1
<1>1. /\ new \in Seq(S) /\ Len(new) = n /\ new[n] = b
      /\ \A i \in 1..Len(seq) : new[i] = seq[i]
  BY AppendProperties
<1> HIDE DEF new
<1>2. /\ IsFiniteSet(Places(a, seq)) /\ Occurrences(a, seq) = Cardinality(Places(a, seq))
      /\ Occurrences(a, seq) \in Nat /\ DOMAIN seq = 1..Len(seq) /\ Len(seq) \in Nat
  BY PlacesFacts
<1>3. Occurrences(a, new) = Cardinality(Places(a, new)) /\ DOMAIN new = 1..n
  BY <1>1, PlacesFacts
<1>4. CASE b = a
  <2>1. Places(a, new) = Places(a, seq) \cup {n}
    BY <1>1, <1>2, <1>3, <1>4 DEF Places
  <2>2. n \notin Places(a, seq)
    BY <1>2 DEF Places
  <2>3. Cardinality(Places(a, seq) \cup {n}) = Cardinality(Places(a, seq)) + 1
    BY <1>2, <2>2, FS_AddElement
  <2> QED BY <1>1, <1>2, <1>3, <1>4, <2>1, <2>3 DEF new
<1>5. CASE b # a
  <2>1. Places(a, new) = Places(a, seq)
    BY <1>1, <1>2, <1>3, <1>5 DEF Places
  <2> QED BY <1>1, <1>2, <1>3, <1>5, <2>1 DEF new
<1> QED BY <1>4, <1>5

\* Of the places of an authorizer, one is the first.
LEMMA LeastExists ==
  ASSUME NEW S, S \subseteq Nat, S # {}
  PROVE  \E m \in S : \A n \in S : m <= n
<1>1. PICK m \in S : \A n \in S : ~ (<<n, m>> \in OpToRel(<, Nat))
  BY NatLessThanWellFounded, WFMin
<1>2. ASSUME NEW n \in S, n < m PROVE FALSE
  <2>1. <<n, m>> \in OpToRel(<, Nat)
    BY <1>2 DEF OpToRel
  <2> QED BY <1>1, <2>1
<1> QED BY <1>2

\* removeAuthorizer takes one occurrence of the authorizer out, and nothing in.
LEMMA RemovedOnce ==
  ASSUME NEW S, NEW seq \in Seq(S), NEW hash \in Elements(seq), NEW a
  PROVE  /\ removeAuthorizer(seq, hash) \in Seq(S)
         /\ Occurrences(a, removeAuthorizer(seq, hash)) + (IF hash = a THEN 1 ELSE 0)
              <= Occurrences(a, seq)
<1> DEFINE first(k) == seq[k] = hash /\ \A j \in 1..k - 1 : seq[j] # hash
           i == CHOOSE k \in DOMAIN seq : first(k)
           new == removeAuthorizer(seq, hash)
           left == SubSeq(seq, 1, i - 1)
           right == SubSeq(seq, i + 1, Len(seq))
<1>1. DOMAIN seq = 1..Len(seq) /\ Len(seq) \in Nat
  OBVIOUS
<1>2. \E k \in DOMAIN seq : first(k)
  <2> DEFINE P == Places(hash, seq)
  <2>1. P # {} /\ P \subseteq Nat
    BY <1>1 DEF Elements, Places
  <2>2. PICK k \in P : \A j \in P : k <= j
    <3> HIDE DEF P
    <3> QED BY <2>1, LeastExists
  <2>3. k \in 1..Len(seq) /\ seq[k] = hash
    BY <1>1 DEF Places
  <2>4. \A j \in 1..k - 1 : seq[j] # hash
    BY <1>1, <2>2, <2>3 DEF Places
  <2> QED BY <1>1, <2>3, <2>4
<1>3. i \in 1..Len(seq) /\ seq[i] = hash
  BY <1>1, <1>2
<1>4. new = left \o right
  BY DEF removeAuthorizer
<1> HIDE DEF i, new
<1>5. \A k \in 1..Len(seq) : seq[k] \in S
  BY ElementOfSeq
<1>6. /\ left \in Seq(S) /\ Len(left) = i - 1
      /\ \A k \in 1..i - 1 : left[k] = seq[k]
  <2>1. \A k \in 1..i - 1 : seq[k] \in S
    BY <1>1, <1>3, <1>5
  <2>2. /\ left \in Seq(S) /\ Len(left) = IF 1 <= i - 1 THEN (i - 1) - 1 + 1 ELSE 0
        /\ \A k \in 1..(i - 1) - 1 + 1 : left[k] = seq[1 + k - 1]
    BY <1>1, <1>3, <2>1, SubSeqProperties
  <2> QED BY <1>1, <1>3, <2>2
<1>7. /\ right \in Seq(S) /\ Len(right) = Len(seq) - i
      /\ \A k \in 1..Len(seq) - i : right[k] = seq[i + k]
  <2>1. \A k \in i + 1..Len(seq) : seq[k] \in S
    BY <1>1, <1>3, <1>5
  <2> DEFINE n == Len(seq)
             m == i + 1
  <2>2. m \in Int /\ n \in Int
    BY <1>1, <1>3
  <2>3. /\ right \in Seq(S) /\ Len(right) = IF m <= n THEN n - m + 1 ELSE 0
        /\ \A k \in 1..n - m + 1 : right[k] = seq[m + k - 1]
    <3> HIDE DEF n, m
    <3>1. \A k \in m..n : seq[k] \in S
      BY <2>1 DEF m, n
    <3>2. right = SubSeq(seq, m, n)
      BY DEF m, n
    <3> HIDE DEF right
    <3> QED BY <2>2, <3>1, <3>2, SubSeqProperties
  <2>4. Len(right) = Len(seq) - i
    <3>1. Len(right) = IF i + 1 <= Len(seq) THEN Len(seq) - (i + 1) + 1 ELSE 0
      BY <2>3
    <3> DEFINE lr == Len(right)
    <3>2. i \in Int /\ n \in Int /\ i <= n
      BY <1>1, <1>3
    <3>3. lr = IF i + 1 <= n THEN n - (i + 1) + 1 ELSE 0
      BY <3>1
    <3> HIDE DEF lr, n
    <3>4. lr = n - i
      BY <3>2, <3>3
    <3> QED BY <3>4 DEF lr, n
  <2>5. ASSUME NEW k \in 1..Len(seq) - i PROVE right[k] = seq[i + k]
    <3>1. k \in 1..n - m + 1 /\ m + k - 1 = i + k
      BY <1>1, <1>3
    <3> HIDE DEF n, m, right
    <3> QED BY <2>3, <3>1
  <2> QED BY <2>3, <2>4, <2>5
<1> HIDE DEF left, right
<1>8. /\ new \in Seq(S) /\ Len(new) = Len(left) + Len(right)
      /\ \A k \in 1..Len(left) + Len(right) :
           new[k] = IF k <= Len(left) THEN left[k] ELSE right[k - Len(left)]
  BY <1>4, <1>6, <1>7, ConcatProperties
<1>9. Len(new) = Len(seq) - 1
  BY <1>1, <1>3, <1>6, <1>7, <1>8
<1>10. ASSUME NEW j \in 1..Len(new)
       PROVE  new[j] = IF j < i THEN seq[j] ELSE seq[j + 1]
  <2>1. CASE j < i
    BY <1>1, <1>3, <1>6, <1>8, <1>9, <2>1
  <2>2. CASE ~(j < i)
    <3>1. new[j] = right[j - (i - 1)]
      BY <1>1, <1>3, <1>6, <1>8, <1>9, <2>2
    <3> DEFINE k == j - (i - 1)
    <3>2. k \in 1..Len(seq) - i /\ i + k = j + 1
      BY <1>1, <1>3, <1>9, <2>2
    <3> HIDE DEF k
    <3>3. right[k] = seq[i + k]
      BY <1>7, <3>2
    <3> QED BY <2>2, <3>1, <3>2, <3>3 DEF k
  <2> QED BY <2>1, <2>2
<1>11. Occurrences(a, new) + (IF seq[i] = a THEN 1 ELSE 0) <= Occurrences(a, seq)
  BY <1>3, <1>8, <1>9, <1>10, OneFewer
<1> QED BY <1>3, <1>8, <1>11 DEF new

PoolsInv ==
  /\ slot \in Nat
  /\ pools \in [Cores -> Seq(Authorizers)]
  /\ unspent \in [Cores -> [Authorizers -> Int]]
  /\ AuthorizersSpentOnce

\* The authorizers that the queues hold for a slot.
LEMMA QueuedType ==
  ASSUME NEW queues \in QueueChoices, NEW c \in Cores, NEW s \in Nat
  PROVE  queues[c][s % QueueSize] \in Authorizers \cup {Empty}
<1>1. QueueSize \in Nat \ {0} /\ queues \in [Cores -> [0..QueueSize - 1 -> Authorizers \cup {Empty}]]
  BY GuarantorAssumption
<1>2. s % QueueSize \in 0..QueueSize - 1
  BY <1>1
<1> QED BY <1>1, <1>2

\* The extrinsics of GuarantorNext.
AtMostOne(gs) == gs = <<>> \/ \E g : gs = <<g>>

\* The new pool of a core has no authorizer more often than the old one and the
\* queue provide, less what a report used.
LEMMA NewPoolFacts ==
  ASSUME PoolsInv, NEW gs, AtMostOne(gs), NEW queues \in QueueChoices, NEW s \in Nat,
         \A g \in Elements(gs) : g.auth \in Elements(pools[g.core]),
         NEW c \in Cores, NEW a
  PROVE  /\ NewPool(c, gs, queues, s) \in Seq(Authorizers)
         /\ Occurrences(a, NewPool(c, gs, queues, s))
              + (IF \E g \in Elements(gs) : g.core = c /\ g.auth = a THEN 1 ELSE 0)
              <= Occurrences(a, pools[c]) + (IF queues[c][s % QueueSize] = a THEN 1 ELSE 0)
<1> DEFINE used == {g.auth : g \in {g \in Elements(gs) : g.core = c}}
           left == IF used # {} THEN removeAuthorizer(pools[c], CHOOSE x \in used : TRUE)
                   ELSE IF pools[c] # <<>> THEN Tail(pools[c]) ELSE <<>>
           new == queues[c][s % QueueSize]
           spent == IF \E g \in Elements(gs) : g.core = c /\ g.auth = a THEN 1 ELSE 0
           fresh == IF new = a THEN 1 ELSE 0
<1>1. pools[c] \in Seq(Authorizers) /\ Occurrences(a, pools[c]) \in Nat
  BY PlacesFacts DEF PoolsInv
<1>2. (spent \in {0, 1} /\ (spent = 1 <=> a \in used)) /\ fresh \in {0, 1}
  OBVIOUS
<1>3. \A h \in used : used = {h} /\ h \in Elements(pools[c])
  <2>1. \A g, h \in Elements(gs) : g = h
    BY DEF AtMostOne, Elements
  <2> QED BY <2>1
<1>4. left \in Seq(Authorizers) /\ Occurrences(a, left) \in Nat
      /\ Occurrences(a, left) + spent <= Occurrences(a, pools[c])
  <2>1. CASE used # {}
    <3>1. PICK h \in used : h = CHOOSE x \in used : TRUE
      BY <2>1
    <3>2. used = {h} /\ h \in Elements(pools[c]) /\ left = removeAuthorizer(pools[c], h)
      BY <1>3, <2>1, <3>1
    <3>3. spent = IF h = a THEN 1 ELSE 0
      BY <1>2, <3>2
    <3> HIDE DEF left, used, spent
    <3>4. /\ left \in Seq(Authorizers)
          /\ Occurrences(a, left) + (IF h = a THEN 1 ELSE 0) <= Occurrences(a, pools[c])
      BY <1>1, <3>2, RemovedOnce
    <3> QED BY <3>3, <3>4, PlacesFacts
  <2>2. CASE used = {}
    <3>1. spent = 0
      BY <1>2, <2>2
    <3>2. left = IF pools[c] # <<>> THEN Tail(pools[c]) ELSE <<>>
      BY <2>2, ZenonT(60)
    <3> HIDE DEF left, used, spent
    <3>3. left \in Seq(Authorizers) /\ Occurrences(a, left) <= Occurrences(a, pools[c])
      BY <1>1, <3>2, TailFewer
    <3>4. Occurrences(a, left) \in Nat
      BY <3>3, PlacesFacts
    <3> QED BY <1>1, <3>1, <3>3, <3>4
  <2> QED BY <2>1, <2>2
<1>5. NewPool(c, gs, queues, s)
        = IF new = Empty THEN left ELSE appendAuthorizerLimited(left, new)
  BY DEF NewPool
<1>6. new \in Authorizers \cup {Empty}
  BY QueuedType
<1> HIDE DEF used, left, new, spent, fresh
<1>7. CASE new = Empty
  BY <1>1, <1>2, <1>4, <1>5, <1>7 DEF spent, fresh, new
<1>8. CASE new # Empty
  <2> DEFINE base == IF Len(left) >= PoolSize THEN Tail(left) ELSE left
  <2>1. base \in Seq(Authorizers) /\ Occurrences(a, base) <= Occurrences(a, left)
    <3>1. CASE Len(left) >= PoolSize
      <4>1. left # <<>>
        BY <3>1, GuarantorAssumption
      <4> QED BY <1>4, <3>1, <4>1, TailFewer
    <3> QED BY <1>4, <3>1
  <2>2. NewPool(c, gs, queues, s) = Append(base, new)
    BY <1>5, <1>8 DEF appendAuthorizerLimited
  <2> HIDE DEF base
  <2>3. /\ Append(base, new) \in Seq(Authorizers)
        /\ Occurrences(a, Append(base, new)) = Occurrences(a, base) + fresh
    BY <1>6, <1>8, <2>1, AppendOneMore DEF fresh
  <2>4. Occurrences(a, base) \in Nat
    BY <2>1, PlacesFacts
  <2>5. Occurrences(a, Append(base, new)) + spent <= Occurrences(a, pools[c]) + fresh
    BY <1>1, <1>2, <1>4, <2>1, <2>3, <2>4
  <2> QED BY <2>2, <2>3, <2>5 DEF spent, fresh, new
<1> QED BY <1>7, <1>8

\* A step of GuarantorNext imports one block with at most one guarantee.
LEMMA GuarantorStep ==
  ASSUME slot \in Nat, GuarantorNext
  PROVE  \E s \in Nat, queues \in QueueChoices : \E gs :
            s <= MaxSlot /\ AtMostOne(gs) /\ GuaranteedBlock(s, gs, queues)
<1>1. PICK s \in slot + 1 .. slot + MaxGap, queues \in QueueChoices :
        /\ s <= MaxSlot
        /\ \/ GuaranteedBlock(s, <<>>, queues)
           \/ \E offer \in Offers, signers \in Signers, set \in {archived, current, current + 1} :
                GuaranteedBlock(s, <<Signed(offer, signers, set)>>, queues)
  BY DEF GuarantorNext
<1>2. s \in Nat
  BY CoreAssumption
<1>3. CASE GuaranteedBlock(s, <<>>, queues)
  BY <1>1, <1>2, <1>3 DEF AtMostOne
<1>4. ASSUME NEW g, GuaranteedBlock(s, <<g>>, queues)
      PROVE  \E gs : AtMostOne(gs) /\ GuaranteedBlock(s, gs, queues)
  <2>1. AtMostOne(<<g>>)
    BY DEF AtMostOne
  <2> QED BY <1>4, <2>1
<1> QED BY <1>1, <1>2, <1>3, <1>4

\* The pools, and what their authorizers have been used for, stay in step.
THEOREM PoolsInvariance == GuarantorSpec => []PoolsInv
<1>1. GuarantorInit => PoolsInv
  <2> SUFFICES ASSUME GuarantorInit PROVE PoolsInv
    OBVIOUS
  <2>1. /\ slot = 0 /\ pools = InitialPools
        /\ unspent = [c \in Cores |-> [a \in Authorizers |-> Occurrences(a, InitialPools[c])]]
    BY DEF GuarantorInit, Init
  <2>2. InitialPools \in [Cores -> Seq(Authorizers)]
    BY GuarantorAssumption
  <2>3. \A c \in Cores, a \in Authorizers : Occurrences(a, InitialPools[c]) \in Nat
    BY <2>2, PlacesFacts
  <2> QED BY <2>1, <2>2, <2>3 DEF PoolsInv, AuthorizersSpentOnce
<1>2. PoolsInv /\ [GuarantorNext]_guarantorVars => PoolsInv'
  <2> SUFFICES ASSUME PoolsInv, [GuarantorNext]_guarantorVars PROVE PoolsInv'
    OBVIOUS
  <2>1. CASE UNCHANGED guarantorVars
    BY <2>1 DEF guarantorVars, vars, PoolsInv, AuthorizersSpentOnce
  <2>2. CASE GuarantorNext
    <3>1. PICK s \in Nat, queues \in QueueChoices :
            \E gs : s <= MaxSlot /\ AtMostOne(gs) /\ GuaranteedBlock(s, gs, queues)
      BY <2>2, GuarantorStep DEF PoolsInv
    <3>2. PICK gs : AtMostOne(gs) /\ GuaranteedBlock(s, gs, queues)
      BY <3>1
    <3> DEFINE used(c, a) == \E g \in Elements(gs) : g.core = c /\ g.auth = a
               more(c, a) == IF queues[c][s % QueueSize] = a THEN 1 ELSE 0
               less(c, a) == IF used(c, a) THEN 1 ELSE 0
    <3>3. /\ slot' = s
          /\ pools' = [c \in Cores |-> NewPool(c, gs, queues, s)]
          /\ unspent' = [c \in Cores |-> [a \in Authorizers |->
                unspent[c][a] + more(c, a) - less(c, a)]]
          /\ \A g \in Elements(gs) : g.auth \in Elements(pools[g.core])
      BY <3>2 DEF GuaranteedBlock, ImportBlock, Sound
    <3>4. \A c \in Cores : \A a :
            /\ NewPool(c, gs, queues, s) \in Seq(Authorizers)
            /\ Occurrences(a, NewPool(c, gs, queues, s)) + less(c, a)
                 <= Occurrences(a, pools[c]) + more(c, a)
      BY <3>2, <3>3, NewPoolFacts
    <3>5. \A c \in Cores, a \in Authorizers : more(c, a) \in {0, 1} /\ less(c, a) \in {0, 1}
      OBVIOUS
    <3> HIDE DEF more, less
    <3>6. pools' \in [Cores -> Seq(Authorizers)]
      BY <3>3, <3>4
    <3>7. unspent' \in [Cores -> [Authorizers -> Int]]
      <4>1. \A c \in Cores, a \in Authorizers :
              unspent[c][a] + more(c, a) - less(c, a) \in Int
        <5> SUFFICES ASSUME NEW c \in Cores, NEW a \in Authorizers
                     PROVE  unspent[c][a] + more(c, a) - less(c, a) \in Int
          OBVIOUS
        <5>1. more(c, a) \in Int /\ less(c, a) \in Int
          BY <3>5
        <5>2. unspent[c][a] \in Int
          BY DEF PoolsInv
        <5> QED BY <5>1, <5>2
      <4> QED BY <3>3, <4>1
    <3>8. ASSUME NEW c \in Cores, NEW a \in Authorizers
          PROVE  Occurrences(a, pools'[c]) <= unspent'[c][a]
      <4>1. pools'[c] = NewPool(c, gs, queues, s)
        BY <3>3
      <4>2. unspent'[c][a] = unspent[c][a] + more(c, a) - less(c, a)
        BY <3>3
      <4>3. Occurrences(a, pools[c]) <= unspent[c][a] /\ unspent[c][a] \in Int
        BY DEF PoolsInv, AuthorizersSpentOnce
      <4>4. Occurrences(a, pools[c]) \in Nat /\ Occurrences(a, pools'[c]) \in Nat
        BY <3>6, PlacesFacts DEF PoolsInv
      <4>5. more(c, a) \in {0, 1} /\ less(c, a) \in {0, 1}
        BY <3>5
      <4>6. Occurrences(a, pools'[c]) + less(c, a) <= Occurrences(a, pools[c]) + more(c, a)
        BY <3>4, <4>1
      <4> QED BY <4>2, <4>3, <4>4, <4>5, <4>6
    <3> QED BY <3>3, <3>6, <3>7, <3>8 DEF PoolsInv, AuthorizersSpentOnce
  <2> QED BY <2>1, <2>2
<1> QED BY <1>1, <1>2, PTL DEF GuarantorSpec

\* An authorizer authorizes no more reports on a core than it entered the core's pool
\* (CalculateNewCoreAuthorizations and the check of a report's authorizer).
THEOREM AuthorizersTheorem == GuarantorSpec => []AuthorizersSpentOnce
BY PoolsInvariance, PTL DEF PoolsInv

-----------------------------------------------------------------------------
(* Guarantors: rotations and epochs.                                       *)

\* Division by a positive number, as TLA+ defines it.
LEMMA ModFacts ==
  ASSUME NEW a \in Int, NEW n \in Nat \ {0}
  PROVE  /\ a % n \in 0 .. n - 1
         /\ a \div n \in Int
         /\ a = n * (a \div n) + (a % n)
OBVIOUS

\* A smaller factor makes the product smaller by a whole n at least.
LEMMA Multiples ==
  ASSUME NEW n \in Nat \ {0}, NEW a \in Int, NEW b \in Int, a < b
  PROVE  n * a + n <= n * b
<1> DEFINE d == b - a - 1
<1>1. d \in Nat /\ b = a + 1 + d
  OBVIOUS
<1> HIDE DEF d
<1>2. n * b = n * a + n + n * d /\ n * d >= 0
  BY <1>1
<1> QED BY <1>2

\* The rotation or epoch of a slot is the only one around it, and they are in the
\* order of their slots.
LEMMA QuotientFacts ==
  ASSUME NEW n \in Nat \ {0}, NEW a \in Int
  PROVE  /\ a \div n \in Int
         /\ n * (a \div n) <= a /\ a < n * (a \div n) + n
         /\ \A q \in Int : n * q <= a /\ a < n * q + n => a \div n = q
         /\ \A k \in Int : n * k <= a <=> k <= a \div n
<1> DEFINE d == a \div n
<1>1. d \in Int /\ n * d <= a /\ a < n * d + n
  BY ModFacts
<1> HIDE DEF d
<1>2. ASSUME NEW k \in Int PROVE n * k <= a <=> k <= d
  <2>1. CASE k <= d
    <3>1. n * k <= n * d
      BY <1>1, <2>1, Multiples
    <3> QED BY <1>1, <2>1, <3>1
  <2>2. CASE d < k
    <3>1. n * d + n <= n * k
      BY <1>1, <2>2, Multiples
    <3> QED BY <1>1, <2>2, <3>1
  <2> QED BY <1>1, <2>1, <2>2
<1>3. ASSUME NEW q \in Int, n * q <= a, a < n * q + n PROVE d = q
  <2>1. q <= d
    BY <1>2, <1>3
  <2>2. ~(q < d)
    <3> SUFFICES ASSUME q < d PROVE FALSE
      OBVIOUS
    <3>1. n * q + n <= n * d
      BY <1>1, Multiples
    <3> QED BY <1>1, <1>3, <3>1
  <2> QED BY <1>1, <2>1, <2>2
<1> QED BY <1>1, <1>2, <1>3 DEF d

\* Quotients are ordered as their dividends are.
LEMMA QuotientsOrdered ==
  ASSUME NEW n \in Nat \ {0}, NEW a \in Int, NEW b \in Int, a <= b
  PROVE  a \div n <= b \div n
<1>1. a \div n \in Int /\ n * (a \div n) <= a
  BY QuotientFacts
<1>2. n * (a \div n) <= b
  BY <1>1
<1> QED BY <1>1, <1>2, QuotientFacts

\* What is at most one ahead of a is so for everything up to it, and of three numbers
\* in order with the last at most one ahead of the first two are equal.
LEMMA OneAhead ==
  ASSUME NEW a \in Nat, NEW b \in Nat, NEW c \in Nat, b <= c
  PROVE  /\ c - a <= 1 => b - a <= 1
         /\ a <= b /\ c <= a + 1 /\ c > b => a = b /\ a # c
         /\ ~(c > b) => c = b
  OBVIOUS

\* Slots of one rotation are in one epoch, at the same rotation of it; the epochs of
\* neighbouring rotations are the same or neighbours.
LEMMA RotationFacts ==
  ASSUME NEW x \in Nat
  PROVE  /\ Rotation(x) \in Nat /\ Epoch(x) \in Nat
         /\ Epoch(x) = Rotation(x) \div (E \div R)
         /\ (x % E) \div R = Rotation(x) % (E \div R)
<1> DEFINE K == E \div R
           q == x \div R
           r == x % R
           e == q \div K
           m == q % K
           y == R * m + r
<1>1. E \in Nat \ {0} /\ R \in Nat \ {0} /\ E % R = 0
  BY GuarantorAssumption, CoreAssumption
<1>2. K \in Int /\ E = R * K
  BY <1>1, ModFacts
<1>3. K \in Nat \ {0}
  <2>1. K > 0
    <3> SUFFICES ASSUME ~(K > 0) PROVE FALSE
      OBVIOUS
    <3>1. K <= 0 /\ R * 0 = 0
      BY <1>1, <1>2
    <3> HIDE DEF K
    <3>2. K < 0 => R * K + R <= R * 0
      BY <1>1, <1>2, Multiples
    <3> QED BY <1>1, <1>2, <3>1, <3>2
  <2> QED BY <1>2, <2>1
<1> HIDE DEF K
<1>4. q \in Int /\ r \in 0..R - 1 /\ x = R * q + r
  BY <1>1, ModFacts
<1>5. q >= 0
  <2>1. R * 0 <= x
    BY <1>1
  <2> QED BY <1>1, <2>1, QuotientFacts
<1> HIDE DEF q, r
<1>6. e \in Int /\ m \in 0..K - 1 /\ q = K * e + m
  BY <1>3, <1>4, ModFacts
<1>7. e >= 0
  <2>1. K * 0 <= q
    BY <1>3, <1>5
  <2> QED BY <1>3, <1>4, <2>1, QuotientFacts
<1> HIDE DEF e, m
<1>8. y \in Nat /\ x = E * e + y
  <2>1. R * m \in Nat
    BY <1>1, <1>3, <1>6
  <2>2. R * q = R * (K * e) + R * m
    BY <1>1, <1>3, <1>6
  <2>3. R * (K * e) = E * e
    BY <1>1, <1>2, <1>3, <1>6
  <2>4. R * q = E * e + R * m
    BY <2>2, <2>3
  <2>5. E * e \in Int /\ R * q \in Int /\ r \in Nat
    BY <1>1, <1>4, <1>6
  <2>6. y \in Nat
    BY <2>1, <2>5
  <2>7. x = (E * e + R * m) + r
    BY <1>4, <2>4
  <2> DEFINE ee == E * e
             rm == R * m
  <2>8. ee \in Int /\ rm \in Int /\ x = (ee + rm) + r
    BY <2>1, <2>5, <2>7
  <2> HIDE DEF ee, rm
  <2>9. x = ee + (rm + r)
    BY <2>5, <2>8
  <2> QED BY <2>6, <2>9 DEF ee, rm
<1>9. y < E
  <2>1. R * m + R <= R * K
    BY <1>1, <1>3, <1>6, Multiples
  <2> QED BY <1>1, <1>2, <1>4, <1>6, <2>1
<1>10. y \div R = m
  <2>1. R * m <= y /\ y < R * m + R
    BY <1>1, <1>3, <1>4, <1>6
  <2>2. y \in Int /\ m \in Int
    BY <1>3, <1>6, <1>8
  <2> HIDE DEF y
  <2> QED BY <1>1, <2>1, <2>2, QuotientFacts
<1> HIDE DEF y
<1>11. x \div E = e
  <2>1. E * e <= x /\ x < E * e + E
    BY <1>1, <1>6, <1>8, <1>9
  <2> QED BY <1>1, <1>6, <2>1, QuotientFacts
<1>12. x % E = y
  <2>1. x % E \in Int /\ x = E * (x \div E) + (x % E)
    BY <1>1, ModFacts
  <2>2. E * e \in Int
    BY <1>1, <1>6
  <2> QED BY <1>8, <1>11, <2>1, <2>2
<1> QED BY <1>4, <1>5, <1>6, <1>7, <1>10, <1>11, <1>12 DEF Rotation, Epoch, q, e, m, K

\* Rotations and epochs advance with the slots, and a rotation lies in one epoch.
LEMMA SlotsOrdered ==
  ASSUME NEW x \in Nat, NEW y \in Nat, x <= y
  PROVE  /\ Rotation(x) <= Rotation(y) /\ Epoch(x) <= Epoch(y)
         /\ Rotation(x) = Rotation(y) => Epoch(x) = Epoch(y)
         /\ Rotation(y) - Rotation(x) <= 1 => Epoch(y) <= Epoch(x) + 1
<1>1. E \in Nat \ {0} /\ R \in Nat \ {0}
  BY GuarantorAssumption, CoreAssumption
<1>2. Rotation(x) <= Rotation(y) /\ Epoch(x) <= Epoch(y)
  BY <1>1, QuotientsOrdered DEF Rotation, Epoch
<1>3. Rotation(x) = Rotation(y) => Epoch(x) = Epoch(y)
  BY RotationFacts
<1>4. ASSUME Rotation(y) - Rotation(x) <= 1 PROVE Epoch(y) <= Epoch(x) + 1
  <2>1. y < x + 2 * R
    <3>1. /\ Rotation(x) \in Int /\ R * Rotation(x) <= x
          /\ Rotation(y) \in Int /\ y < R * Rotation(y) + R
      BY <1>1, QuotientFacts DEF Rotation
    <3>2. Rotation(y) = Rotation(x) \/ Rotation(y) = Rotation(x) + 1
      BY <1>2, <1>4, <3>1
    <3>3. R * Rotation(y) = R * Rotation(x) \/ R * Rotation(y) = R * Rotation(x) + R
      BY <1>1, <3>1, <3>2
    <3>4. R * Rotation(x) \in Int
      BY <1>1, <3>1
    <3> QED BY <1>1, <3>1, <3>3, <3>4
  <2> DEFINE K == E \div R
             a == Rotation(x)
             b == Rotation(y)
  <2>2. a \in Nat /\ b \in Nat /\ b <= a + 1 /\ Epoch(x) = a \div K /\ Epoch(y) = b \div K
    BY <1>4, RotationFacts
  <2>3. K \in Nat \ {0}
    <3>1. E % R = 0
      BY GuarantorAssumption
    <3>2. K \in Int /\ E = R * K
      BY <1>1, <3>1, ModFacts
    <3> HIDE DEF K
    <3>3. ~(K < 1)
      <4> SUFFICES ASSUME K < 1 PROVE FALSE
        OBVIOUS
      <4>1. R * K + R <= R * 1
        BY <1>1, <3>2, Multiples
      <4> QED BY <1>1, <3>2, <4>1
    <3> QED BY <3>2, <3>3
  <2> HIDE DEF K, a, b
  <2> DEFINE d == a \div K
  <2>4. d \in Int /\ a < K * d + K
    BY <2>2, <2>3, QuotientFacts
  <2> HIDE DEF d
  <2>5. K * (d + 2) = K * d + K + K /\ K * d \in Int
    BY <2>3, <2>4
  <2>6. ~(K * (d + 2) <= b)
    BY <2>2, <2>3, <2>4, <2>5
  <2> DEFINE d2 == d + 2
  <2>7. d2 \in Int /\ ~(K * d2 <= b)
    BY <2>4, <2>6
  <2> HIDE DEF d2
  <2>8. b \div K \in Int /\ ~(d2 <= b \div K)
    BY <2>2, <2>3, <2>7, QuotientFacts
  <2>9. b \div K <= d + 1
    BY <2>4, <2>8 DEF d2
  <2> QED BY <2>2, <2>9 DEF d
<1> QED BY <1>2, <1>3, <1>4

\* Who may report depends on the validators, the entropy and the rotation only.
LEMMA SameGuarantors ==
  ASSUME NEW set, NEW entropy, NEW x \in Nat, NEW y \in Nat, Rotation(x) = Rotation(y)
  PROVE  Guarantors([validators |-> set, entropy |-> entropy, slot |-> x])
           = Guarantors([validators |-> set, entropy |-> entropy, slot |-> y])
<1>1. (x % E) \div R = (y % E) \div R
  BY RotationFacts
<1>2. PermuteAssignments(entropy, x) = PermuteAssignments(entropy, y)
  BY <1>1 DEF PermuteAssignments
<1> QED BY <1>2 DEF Guarantors

\* Every slot remembered in inForce that a guarantee may still come from has the
\* guarantors of the sets and entropies the state holds for its epoch.
InForceInv ==
    /\ slot \in Nat
    /\ eta \in [0..3 -> Int]
    /\ DOMAIN inForce \subseteq 0..slot
    /\ \A t \in DOMAIN inForce : Rotation(slot) - Rotation(t) <= 1 =>
        inForce[t] = Guarantors(
            [validators |-> IF Epoch(t) = Epoch(slot) THEN current ELSE archived,
             entropy |-> IF Epoch(t) = Epoch(slot) THEN eta[2] ELSE eta[3], slot |-> t])

\* What a block does to the sets, the entropies and the guarantors in force.
LEMMA GuarantorStepFacts ==
  ASSUME InForceInv, GuarantorNext
  PROVE  \E s \in Nat :
            /\ s <= MaxSlot /\ s > slot /\ slot' = s
            /\ eta' = NewEntropyPool(s)
            /\ current' = IF Epoch(s) > Epoch(slot) THEN current + 1 ELSE current
            /\ archived' = IF Epoch(s) > Epoch(slot) THEN current ELSE archived
            /\ inForce' = [t \in {t \in DOMAIN inForce : Rotation(s) - Rotation(t) <= 1}
                                   \cup {s} |->
                IF t = s
                THEN Guarantors([validators |-> current', entropy |-> eta'[2], slot |-> s])
                ELSE inForce[t]]
<1>1. PICK s \in Nat, queues \in QueueChoices :
        \E gs : s <= MaxSlot /\ AtMostOne(gs) /\ GuaranteedBlock(s, gs, queues)
  BY GuarantorStep DEF InForceInv
<1>2. PICK gs : GuaranteedBlock(s, gs, queues)
  BY <1>1
<1>3. slot' = s
  BY <1>2, ZenonT(60) DEF GuaranteedBlock, ImportBlock
<1> QED BY <1>1, <1>2, <1>3 DEF GuaranteedBlock

\* A block keeps InForceInv: the sets and entropies a rotation was assigned with stay
\* within reach as long as its guarantees are accepted.
LEMMA InForceStep ==
  ASSUME InForceInv, GuarantorNext
  PROVE  InForceInv'
<1>1. PICK s \in Nat :
            /\ s <= MaxSlot /\ s > slot /\ slot' = s
            /\ eta' = NewEntropyPool(s)
            /\ current' = IF Epoch(s) > Epoch(slot) THEN current + 1 ELSE current
            /\ archived' = IF Epoch(s) > Epoch(slot) THEN current ELSE archived
            /\ inForce' = [t \in {t \in DOMAIN inForce : Rotation(s) - Rotation(t) <= 1}
                                   \cup {s} |->
                IF t = s
                THEN Guarantors([validators |-> current', entropy |-> eta'[2], slot |-> s])
                ELSE inForce[t]]
  BY GuarantorStepFacts
<1>2. slot \in Nat /\ eta \in [0..3 -> Int] /\ DOMAIN inForce \subseteq 0..slot
  BY DEF InForceInv
<1>a. eta' = NewEntropyPool(s)
  BY <1>1, ZenonT(60)
<1>b. DOMAIN inForce' = {t \in DOMAIN inForce : Rotation(s) - Rotation(t) <= 1} \cup {s}
  BY <1>1, ZenonT(60)
<1>c. s > slot
  BY <1>1, ZenonT(60)
<1>3. eta' \in [0..3 -> Int]
  BY <1>2, <1>a DEF NewEntropyPool
<1>4. DOMAIN inForce' \subseteq 0..s
  BY <1>2, <1>b, <1>c
<1>5. /\ Epoch(s) > Epoch(slot) => eta'[3] = eta[2]
      /\ ~(Epoch(s) > Epoch(slot)) => eta'[2] = eta[2] /\ eta'[3] = eta[3]
  BY <1>2, <1>a DEF NewEntropyPool
<1>6. ASSUME NEW t \in DOMAIN inForce', Rotation(s) - Rotation(t) <= 1
      PROVE  inForce'[t] = Guarantors(
               [validators |-> IF Epoch(t) = Epoch(s) THEN current' ELSE archived',
                entropy |-> IF Epoch(t) = Epoch(s) THEN eta'[2] ELSE eta'[3], slot |-> t])
  <2>1. CASE t = s
    BY <1>1, <2>1
  <2>2. CASE t # s
    <3>1. t \in DOMAIN inForce /\ inForce'[t] = inForce[t]
      BY <1>1, <2>2
    <3>2. t \in Nat /\ t <= slot /\ slot <= s
      BY <1>2, <1>c, <3>1
    <3>3. /\ Rotation(t) \in Nat /\ Rotation(slot) \in Nat /\ Rotation(s) \in Nat
          /\ Epoch(t) \in Nat /\ Epoch(slot) \in Nat /\ Epoch(s) \in Nat
      BY <1>2, <3>2, RotationFacts
    <3>4. Rotation(slot) <= Rotation(s) /\ Epoch(slot) <= Epoch(s) /\ Epoch(t) <= Epoch(slot)
      BY <1>2, <3>2, SlotsOrdered
    <3>5. Epoch(s) <= Epoch(t) + 1
      <4>1. t <= s
        BY <1>2, <3>2
      <4> QED BY <1>6, <3>2, <4>1, SlotsOrdered
    <3>6. Rotation(slot) - Rotation(t) <= 1
      BY <1>6, <3>3, <3>4, OneAhead
    <3>7. inForce[t] = Guarantors(
            [validators |-> IF Epoch(t) = Epoch(slot) THEN current ELSE archived,
             entropy |-> IF Epoch(t) = Epoch(slot) THEN eta[2] ELSE eta[3], slot |-> t])
      BY <3>1, <3>6 DEF InForceInv
    <3>8. CASE Epoch(s) > Epoch(slot)
      <4>1. Epoch(t) = Epoch(slot) /\ Epoch(t) # Epoch(s)
        BY <3>3, <3>4, <3>5, <3>8, OneAhead
      <4>2. archived' = current /\ eta'[3] = eta[2]
        BY <1>1, <1>5, <3>8
      <4> QED BY <3>1, <3>7, <4>1, <4>2
    <3>9. CASE ~(Epoch(s) > Epoch(slot))
      <4>1. Epoch(s) = Epoch(slot)
        BY <3>3, <3>4, <3>9, OneAhead
      <4>2. current' = current /\ archived' = archived /\ eta'[2] = eta[2] /\ eta'[3] = eta[3]
        BY <1>1, <1>5, <3>9
      <4> QED BY <3>1, <3>7, <4>1, <4>2
    <3> QED BY <3>8, <3>9
  <2> QED BY <2>1, <2>2
<1> QED BY <1>1, <1>3, <1>4, <1>6, ZenonT(60) DEF InForceInv

\* The state keeps the sets and entropies of every rotation that may still report.
THEOREM InForceInvariance == GuarantorSpec => []InForceInv
<1>1. GuarantorInit => InForceInv
  <2> SUFFICES ASSUME GuarantorInit PROVE InForceInv
    OBVIOUS
  <2>1. slot = 0 /\ eta = [i \in 0..3 |-> 0 - i] /\ inForce = <<>>
    BY DEF GuarantorInit, Init
  <2>2. DOMAIN inForce = {}
    BY <2>1
  <2> QED BY <2>1, <2>2 DEF InForceInv
<1>2. InForceInv /\ [GuarantorNext]_guarantorVars => InForceInv'
  <2> SUFFICES ASSUME InForceInv, [GuarantorNext]_guarantorVars PROVE InForceInv'
    OBVIOUS
  <2>1. CASE UNCHANGED guarantorVars
    BY <2>1 DEF guarantorVars, vars, InForceInv
  <2> QED BY <2>1, InForceStep
<1> QED BY <1>1, <1>2, PTL DEF GuarantorSpec

\* The slots of this rotation and of the one before it are in range.
LEMMA RotationsInRange ==
  ASSUME NEW s \in Nat, s >= R, s < Word, NEW t \in Nat, t <= s,
         Rotation(s) - Rotation(t) <= 1
  PROVE  AgeValid(t, s)
<1> DEFINE q == s \div R
           p == t \div R
<1>1. R \in Nat \ {0} /\ Word \in Nat
  BY CoreAssumption
<1>2. q \in Int /\ R * q <= s
  BY <1>1, QuotientFacts
<1>3. p \in Int /\ R * p <= t
  BY <1>1, QuotientFacts
<1>4. q >= 1
  <2>1. R * 1 <= s
    BY <1>1
  <2> QED BY <1>1, <2>1, QuotientFacts
<1>5. q - p <= 1
  BY DEF Rotation
<1>6. AgeValid(t, s) <=> (t <= s /\ q - p <= 1 /\ t >= ((q - 1) * R) % Word)
  BY DEF AgeValid, PreviousRotationStart
<1> HIDE DEF q, p
<1> DEFINE a == (q - 1) * R
<1>7. a \in Nat /\ a = R * (q - 1)
  BY <1>1, <1>2, <1>4
<1>8. a <= R * p
  <2>1. q - 1 = p \/ q - 1 < p
    BY <1>2, <1>3, <1>5
  <2>2. q - 1 \in Int
    BY <1>2
  <2>3. q - 1 < p => R * (q - 1) + R <= R * p
    BY <1>1, <1>3, <2>2, Multiples
  <2>4. R * p \in Int
    BY <1>1, <1>3
  <2> HIDE DEF a
  <2> QED BY <1>1, <1>7, <2>1, <2>3, <2>4
<1>9. R * p \in Int
  BY <1>1, <1>3
<1> HIDE DEF a
<1>10. a <= t
  BY <1>3, <1>7, <1>8, <1>9
<1>11. a % Word = a
  BY <1>1, <1>7, <1>10
<1> QED BY <1>5, <1>6, <1>10, <1>11 DEF a

\* Whoever was assigned to a core when a guarantee was made may still report on it:
\* determineValidatorsAndDataForPermutation finds the keys of the guarantee's own slot.
THEOREM GuarantorsTheorem == GuarantorSpec => GuarantorsKeepTheirCores
<1> DEFINE Kept ==
      slot' >= R /\ slot' > slot /\ Epoch(slot') = Epoch(slot) =>
        \A t \in DOMAIN inForce' : Rotation(slot') - Rotation(t) <= 1 =>
            /\ AgeValid(t, slot')
            /\ Guarantors(determineValidatorsAndDataForPermutation(t, slot', eta'))
                 = inForce'[t]
<1>1. InForceInv /\ [GuarantorNext]_guarantorVars => [Kept]_guarantorVars
  <2> SUFFICES ASSUME InForceInv, GuarantorNext,
                      slot' >= R, slot' > slot, Epoch(slot') = Epoch(slot),
                      NEW t \in DOMAIN inForce', Rotation(slot') - Rotation(t) <= 1
               PROVE  /\ AgeValid(t, slot')
                      /\ Guarantors(determineValidatorsAndDataForPermutation(t, slot', eta'))
                           = inForce'[t]
    OBVIOUS
  <2>1. PICK s \in Nat :
            /\ s <= MaxSlot /\ s > slot /\ slot' = s
            /\ eta' = NewEntropyPool(s)
            /\ current' = IF Epoch(s) > Epoch(slot) THEN current + 1 ELSE current
            /\ archived' = IF Epoch(s) > Epoch(slot) THEN current ELSE archived
    BY GuarantorStepFacts
  <2>2. InForceInv'
    BY InForceStep
  <2>3. /\ t \in Nat /\ t <= s
        /\ inForce'[t] = Guarantors(
            [validators |-> IF Epoch(t) = Epoch(s) THEN current' ELSE archived',
             entropy |-> IF Epoch(t) = Epoch(s) THEN eta'[2] ELSE eta'[3], slot |-> t])
    <3>1. t \in 0..s /\ Rotation(s) - Rotation(t) <= 1 /\ slot' = s
      BY <2>1, <2>2, ZenonT(60) DEF InForceInv
    <3>2. t \in Nat /\ t <= s
      BY <3>1
    <3> QED BY <2>2, <3>1, <3>2, ZenonT(60) DEF InForceInv
  <2>4. Epoch(s) \in Nat /\ current' = current /\ archived' = archived
    <3>1. Epoch(s) \in Nat
      BY RotationFacts
    <3>2. Epoch(slot) = Epoch(s)
      BY <2>1
    <3>3. ~(Epoch(s) > Epoch(slot))
      BY <3>1, <3>2
    <3> QED BY <2>1, <3>1, <3>3
  <2>5. Rotation(s) \in Nat /\ Rotation(t) \in Nat /\ Rotation(t) <= Rotation(s)
    BY <2>3, RotationFacts, SlotsOrdered
  <2>6. Rotation(s) - Rotation(t) <= 1 /\ s >= R /\ R \in Nat \ {0} /\ s < Word
    BY <2>1, CoreAssumption
  <2>7. AgeValid(t, s)
    BY <2>3, <2>6, RotationsInRange
  <2> DEFINE data == determineValidatorsAndDataForPermutation(t, s, eta')
  <2>8. CASE Rotation(t) = Rotation(s)
    <3>1. Epoch(t) = Epoch(s)
      BY <2>3, <2>8, SlotsOrdered
    <3>2. data = [validators |-> current, entropy |-> eta'[2], slot |-> s]
      BY <2>8 DEF determineValidatorsAndDataForPermutation
    <3> HIDE DEF data
    <3>3. Guarantors([validators |-> current, entropy |-> eta'[2], slot |-> s])
            = Guarantors([validators |-> current, entropy |-> eta'[2], slot |-> t])
      BY <2>3, <2>8, SameGuarantors
    <3>4. Guarantors(data) = inForce'[t]
      BY <2>3, <2>4, <3>1, <3>2, <3>3
    <3> QED BY <2>1, <2>7, <3>4 DEF data
  <2>9. CASE Rotation(t) # Rotation(s)
    <3> DEFINE before == s - R
    <3>1. before \in Nat /\ before <= s
      BY <2>6
    <3>2. Rotation(before) = Rotation(s) - 1
      <4> DEFINE q == Rotation(s)
      <4>1. q \in Int /\ R * q <= s /\ s < R * q + R
        BY <2>6, QuotientFacts DEF Rotation
      <4> HIDE DEF q
      <4>2. R * (q - 1) = R * q - R /\ R * q \in Int
        BY <2>6, <4>1
      <4>3. q - 1 \in Int /\ R * (q - 1) <= before /\ before < R * (q - 1) + R
        BY <2>6, <4>1, <4>2
      <4> DEFINE k == q - 1
      <4>4. k \in Int /\ R * k <= before /\ before < R * k + R
        BY <4>3
      <4>5. before \in Int
        BY <3>1
      <4> HIDE DEF before, k
      <4>6. before \div R = k
        BY <2>6, <4>4, <4>5, QuotientFacts
      <4> QED BY <4>6 DEF Rotation, q, k
    <3>3. Rotation(before) = Rotation(t)
      BY <2>5, <2>6, <2>9, <3>2
    <3>4. data = [validators |-> IF Epoch(before) = Epoch(s) THEN current ELSE archived,
                  entropy |-> IF Epoch(before) = Epoch(s) THEN eta'[2] ELSE eta'[3],
                  slot |-> before]
      BY <2>9 DEF determineValidatorsAndDataForPermutation
    <3> HIDE DEF data, before
    <3>5. Epoch(before) = Epoch(t)
      BY <2>3, <3>1, <3>3, RotationFacts
    <3> DEFINE set == IF Epoch(before) = Epoch(s) THEN current ELSE archived
               entropy == IF Epoch(before) = Epoch(s) THEN eta'[2] ELSE eta'[3]
    <3>6. data = [validators |-> set, entropy |-> entropy, slot |-> before]
      BY <3>4
    <3>7. inForce'[t] = Guarantors([validators |-> set, entropy |-> entropy, slot |-> t])
      BY <2>3, <2>4, <3>5
    <3> HIDE DEF set, entropy
    <3>8. Guarantors([validators |-> set, entropy |-> entropy, slot |-> before])
            = Guarantors([validators |-> set, entropy |-> entropy, slot |-> t])
      <4>1. t \in Nat /\ before \in Nat
        BY <2>3, <3>1, ZenonT(60)
      <4> QED BY <3>3, <4>1, SameGuarantors, ZenonT(60)
    <3>9. Guarantors(data) = inForce'[t]
      BY <3>6, <3>7, <3>8
    <3> QED BY <2>1, <2>7, <3>9 DEF data
  <2> QED BY <2>8, <2>9
<1> QED BY <1>1, InForceInvariance, PTL DEF GuarantorSpec, GuarantorsKeepTheirCores

=============================================================================
