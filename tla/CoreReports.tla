----------------------------- MODULE CoreReports -----------------------------
(***************************************************************************)
(* Work reports on cores: what one block does to CoreAssignments through   *)
(* its disputes, assurances and guarantees, in the order of UpdateState    *)
(* (internal/statetransition/state_transition.go), with the recent blocks  *)
(* that guard against reporting a package twice.                           *)
(*                                                                         *)
(* Data abstraction. A work report is identified with its work package;    *)
(* Prereqs gives its PrerequisiteWorkPackage (reports have no segment root *)
(* lookups, whose keys are checked the same way). sound stands for the     *)
(* checks of a guarantee that look at nothing this module keeps: indices,  *)
(* service and code hash, output size, gas, authorizer, sorted             *)
(* credentials, at least two of them, their signatures, and that the       *)
(* anchor is a recent block with the roots it claims (so there must be     *)
(* one). FindHeader does not fail when it finds nothing, so the lookup     *)
(* anchor need not exist. An assurance is the validator's index and the    *)
(* cores its bits name; sound is its anchor and signature. A block the     *)
(* code refuses changes nothing here: its errors are guards.               *)
(*                                                                         *)
(* offered, available and cleared are history: the packages handed to      *)
(* accumulation, the packages found available with the validators that     *)
(* assured them, and the packages that the verdicts and the assurances of  *)
(* the last block took off their cores.                                    *)
(***************************************************************************)
EXTENDS Integers, FiniteSets, Sequences

CONSTANTS
    Cores,           \* core indices
    Packages,        \* work packages
    Prereqs,         \* Prereqs[p]: the packages p's report depends on
    V,               \* NumberOfValidators
    U,               \* WorkReportTimeoutPeriod
    R,               \* ValidatorRotationPeriod
    L,               \* MaxTimeslotsForPreimage
    H,               \* MaxRecentBlocks
    Word,            \* timeslots are numbers modulo Word (2^32)
    MaxSlot,         \* bound: no block after this slot
    MaxGap,          \* bound: slots between two blocks
    GuaranteeLists,  \* guarantee extrinsics: sequences of
                     \* [core, pkg, age, anchorAge, sound]
    AssuranceLists,  \* assurance extrinsics: sequences of [index, bits, sound]
    VerdictSets      \* packages whose reports a dispute extrinsic may clear

None == [pkg |-> "none", time |-> 0]

\* The recent blocks reach back over the blocks in which a report can stay on its
\* core after the one that brought it (eight blocks and five slots in the code).
ASSUME CoreAssumption ==
    /\ Cores \subseteq Nat
    /\ "none" \notin Packages
    /\ U \in Nat \ {0} /\ H \in Nat \ {0} /\ U <= H + 1
    /\ R \in Nat \ {0}
    /\ L \in Nat
    /\ MaxSlot \in Nat
    /\ MaxGap \in Nat
    /\ Word \in Nat /\ MaxSlot < Word

ASSUME ExtrinsicAssumption ==
    /\ GuaranteeLists \subseteq
         Seq([core : Cores, pkg : Packages, age : Nat, anchorAge : Nat, sound : BOOLEAN])
    /\ Prereqs \in [Packages -> SUBSET Packages]

VARIABLES
    slot,       \* TimeslotIndex
    rho,        \* CoreAssignments
    recent,     \* RecentBlocks: the slot and the WorkReportHashes of each
    offered,
    available,
    cleared

vars == <<slot, rho, recent, offered, available, cleared>>

Elements(seq) == {seq[i] : i \in DOMAIN seq}

AvailabilityThreshold == (2 * V) \div 3

Init ==
    /\ slot = 0
    /\ rho = [c \in Cores |-> None]
    /\ recent = <<>>
    /\ offered = {}
    /\ available = {}
    /\ cleared = {}

\* Mutant: a report times out a slot early.
Stale_Early(a, s) == a # None /\ s + 1 >= a.time + U

\* isAssignmentStale and isAssignmentValid
Stale(a, s) == a # None /\ s >= a.time + U
Engaged(a, s) == a # None /\ ~Stale(a, s)

RecentPackages == UNION {b.packages : b \in Elements(recent)}

\* pastWorkPackages: those of recent blocks, the prerequisites of reports on
\* cores, and those of guaranteed reports that already wait in the queue.
PastPackages(gs, queued) ==
    RecentPackages
    \cup (IF gs = <<>> THEN {}
          ELSE UNION {Prereqs[rho[c].pkg] : c \in {c \in Cores : rho[c] # None}})
    \cup UNION {Prereqs[g.pkg] : g \in {g \in Elements(gs) : g.pkg \in queued}}

\* The start of the rotation before that of s, in unsigned arithmetic.
PreviousRotationStart(s) == ((s \div R - 1) * R) % Word

\* verifyGuaranteeAge, and the range check of CalculateNewCoreAssignments.
AgeValid(t, s) ==
    /\ t <= s
    /\ (s \div R) - (t \div R) <= 1
    /\ t >= PreviousRotationStart(s)

\* The lookup anchor is refused if it is at or after s - L, in unsigned
\* arithmetic.
AnchorValid(t, s) == t < (s - L) % Word

\* The slot of the guarantee and of its lookup anchor, given as ages.
GuaranteeSlot(g, s) == s - g.age
AnchorSlot(g, s) == s - g.anchorAge

SortedByCore(gs) == \A i, j \in DOMAIN gs : i < j => gs[i].core < gs[j].core

\* Mutant: the recent blocks are not consulted.
GuaranteesValid_Forgetful(gs, s, queued) ==
    /\ \A i, j \in DOMAIN gs : i # j => gs[i].pkg # gs[j].pkg
    /\ \A g \in Elements(gs) :
        /\ g.sound /\ recent # <<>>
        /\ ~Engaged(rho[g.core], s)
        /\ g.age <= s /\ g.anchorAge <= s
        /\ AnchorValid(AnchorSlot(g, s), s)
        /\ AgeValid(GuaranteeSlot(g, s), s)
    /\ SortedByCore(gs)

\* ValidateExtrinsicGuarantees, on the assignments of before the block.
GuaranteesValid(gs, s, queued) ==
    LET packages == {g.pkg : g \in Elements(gs)} IN
    /\ \A i, j \in DOMAIN gs : i # j => gs[i].pkg # gs[j].pkg
    /\ \A g \in Elements(gs) :
        /\ g.pkg \notin RecentPackages
        /\ g.sound /\ recent # <<>>
        /\ ~Engaged(rho[g.core], s)
        /\ g.age <= s /\ g.anchorAge <= s
        /\ AnchorValid(AnchorSlot(g, s), s)
        /\ AgeValid(GuaranteeSlot(g, s), s)
        /\ Prereqs[g.pkg] \subseteq packages \cup RecentPackages
    /\ packages \cap PastPackages(gs, queued) = {}
    /\ SortedByCore(gs)

\* CalculateIntermediateCoreAssignmentsFromExtrinsics: reports judged bad or
\* wonky leave their cores.
AfterDisputes(judged) == [c \in Cores |-> IF rho[c].pkg \in judged THEN None ELSE rho[c]]

\* validateAssurancesSignature and assuranceIsOrderedByValidatorIndex, which is
\* not strict.
AssurancesOrdered(as) ==
    /\ \A a \in Elements(as) : a.sound
    /\ \A i, j \in DOMAIN as : i < j => as[i].index <= as[j].index

\* Neither an idle core nor one whose report has timed out may be assured.
AssurancesValid(as, rho1, s) ==
    \A a \in Elements(as) : \A c \in a.bits : rho1[c] # None /\ ~Stale(rho1[c], s)

\* availabilityCounts
Assuring(as, c) == {i \in DOMAIN as : c \in as[i].bits}
IsAvailable(as, c) == Cardinality(Assuring(as, c)) > AvailabilityThreshold

\* CalculateIntermediateCoreAssignmentsFromAvailability: available and stale
\* reports leave their cores.
AfterAssurances(rho1, as, s) ==
    [c \in Cores |-> IF IsAvailable(as, c) \/ Stale(rho1[c], s) THEN None ELSE rho1[c]]

\* CalculateNewCoreAssignments
AfterGuarantees(rho2, gs, s) ==
    [c \in Cores |->
        IF \E g \in Elements(gs) : g.core = c /\ ~Engaged(rho2[c], s)
        THEN [pkg |-> (CHOOSE g \in Elements(gs) : g.core = c).pkg, time |-> s]
        ELSE rho2[c]]

\* Mutant: one block too few is kept.
NewRecent_Short(gs, s) ==
    LET all == Append(recent, [slot |-> s, packages |-> {g.pkg : g \in Elements(gs)}])
    IN  IF Len(all) >= H THEN SubSeq(all, Len(all) - H + 2, Len(all)) ELSE all

\* UpdateRecentBlocks: the last H blocks are kept.
NewRecent(gs, s) ==
    LET all == Append(recent, [slot |-> s, packages |-> {g.pkg : g \in Elements(gs)}])
    IN  IF Len(all) > H THEN SubSeq(all, Len(all) - H + 1, Len(all)) ELSE all

\* GetAvailableWorkReports: the reports on the cores after the block.
GetAvailableWorkReports(assignments) ==
    {assignments[c].pkg : c \in {c \in Cores : assignments[c] # None}}

\* UpdateState on a block at slot s; queued are the reports of AccumulationQueue.
ImportBlock(s, gs, as, judged, queued) ==
    LET rho1 == AfterDisputes(judged)
        rho2 == AfterAssurances(rho1, as, s)
    IN
    /\ s > slot
    /\ GuaranteesValid(gs, s, queued)
    /\ AssurancesOrdered(as)
    /\ AssurancesValid(as, rho1, s)
    /\ slot' = s
    /\ rho' = AfterGuarantees(rho2, gs, s)
    /\ recent' = NewRecent(gs, s)
    /\ offered' = offered \cup GetAvailableWorkReports(rho')
    /\ available' = available \cup
        {[pkg |-> rho1[c].pkg, voters |-> {as[i].index : i \in Assuring(as, c)}] :
            c \in {c \in Cores : rho1[c] # None /\ IsAvailable(as, c)}}
    /\ cleared' = judged \cup
        {rho1[c].pkg : c \in {c \in Cores : rho1[c] # None /\ IsAvailable(as, c)}}

Next ==
    \E s \in slot + 1 .. slot + MaxGap, gs \in GuaranteeLists, as \in AssuranceLists,
       judged \in VerdictSets, queued \in {{}, offered} :
        s <= MaxSlot /\ ImportBlock(s, gs, as, judged, queued)

Spec == Init /\ [][Next]_vars

-----------------------------------------------------------------------------
Assignments == [pkg : Packages, time : 0..MaxSlot] \cup {None}

\* The shape of the assignments and of the recent blocks.
TypeOK ==
    /\ slot \in 0..MaxSlot
    /\ rho \in [Cores -> Assignments]
    /\ recent \in Seq([slot : 0..MaxSlot, packages : SUBSET Packages])
    /\ Len(recent) <= H
    /\ offered \subseteq Packages

\* No report outlives its timeout: when a block has been imported, every report
\* on a core was guaranteed less than U slots ago.
NoStaleReports == \A c \in Cores : rho[c] # None => rho[c].time <= slot /\ slot < rho[c].time + U

\* A package is never on two cores: its report leaves by timeout before the
\* recent blocks forget the package.
PackagesOnCoresDistinct ==
    \A c, d \in Cores : rho[c] # None /\ rho[c].pkg = rho[d].pkg => c = d

\* A report leaves its core for a cause only: a verdict on it, enough assurances of
\* it, or U slots on the core.  No guarantee pushes it off before, although
\* guarantees are validated on the assignments of before the block and entered
\* into those its disputes and assurances have left (UpdateState).
ReportsLeaveForCause ==
    [][\A c \in Cores : rho[c] # None /\ rho'[c] # rho[c] =>
        slot' >= rho[c].time + U \/ rho[c].pkg \in cleared']_vars

\* The packages a report on a core depends on were reported before it or with it.
DependenciesReported ==
    \A c \in Cores : rho[c] # None => Prereqs[rho[c].pkg] \subseteq offered

\* What the comment on GetAvailableWorkReports says: only reports found available
\* are handed to accumulation.
AccumulatedWasAvailable == offered \subseteq {a.pkg : a \in available}

\* What the comment on isAssignmentValid says of rho-double-dagger, the assignments
\* after the disputes and the assurances of the block: a core that is free or
\* timed out there may be reported on.
FreedCoresReportable ==
    \A s \in slot + 1 .. slot + MaxGap, gs \in GuaranteeLists, as \in AssuranceLists,
       judged \in VerdictSets :
        LET rho1 == AfterDisputes(judged)
            rho2 == AfterAssurances(rho1, as, s)
        IN  /\ AssurancesOrdered(as)
            /\ AssurancesValid(as, rho1, s)
            /\ \A g \in Elements(gs) : ~Engaged(rho2[g.core], s)
            => \A g \in Elements(gs) : ~Engaged(rho[g.core], s)

\* What the comments on assurances say, one assurance per validator: a report is
\* available once more than two thirds of the validators assured it.
AvailableBySupermajority == \A a \in available : Cardinality(a.voters) > AvailabilityThreshold

\* What the comment on the lookup anchor says: it is at most L slots old.
AnchorsRecent == \A s \in 0..MaxSlot, t \in 0..MaxSlot : AnchorValid(t, s) => t >= s - L

\* What the comment on CalculateNewCoreAssignments says: a guarantee made in the
\* slot of the block is within R(floor(t/R) - 1) .. t.
FreshGuaranteeInRange == slot > 0 => AgeValid(slot, slot)
=============================================================================
