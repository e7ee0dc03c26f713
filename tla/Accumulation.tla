---------------------------- MODULE Accumulation ----------------------------
(***************************************************************************)
(* The accumulation queue and history: which of the reports a block makes  *)
(* available are accumulated at once, which wait for their dependencies,   *)
(* and how waiting reports move through the ring of the epoch. Models      *)
(* CalculateWorkReportsAndAccumulate                                       *)
(* (internal/statetransition/state_transition.go) and the number of        *)
(* reports SequentialDelta takes.                                          *)
(*                                                                         *)
(* Data abstraction. A report is its work package. Lists of waiting        *)
(* reports are sets of entries: their order is only used by                *)
(* accumulationPriority, which returns nothing. What the accumulated       *)
(* reports do to the services is the subject of ParallelDelta.             *)
(***************************************************************************)
EXTENDS Integers, Sequences

CONSTANTS
    E,            \* TimeslotsPerEpoch
    Word,         \* timeslots are numbers modulo Word (2^32)
    Packages,     \* work packages; a report is identified with its package
    Deps,         \* Deps[p]: prerequisites and segment root lookups of p's report
    ReportGas,    \* ReportGas[p]: the gas of the results of p's report
    GasLimit,     \* the gas of a block
    MaxSlot,      \* bound: no block after this slot
    MaxGap,       \* bound: slots between two blocks
    ReportLists   \* reports a block may make available: sequences of packages

ASSUME AccumulationAssumption ==
    /\ E \in Nat \ {0}
    /\ MaxSlot \in Nat
    /\ Word \in Nat /\ MaxSlot < Word /\ E <= Word
    /\ MaxGap \in Nat
    /\ GasLimit \in Nat
    /\ Deps \in [Packages -> SUBSET Packages]
    /\ ReportGas \in [Packages -> Nat]
    /\ ReportLists \subseteq Seq(Packages)

VARIABLES
    slot,         \* TimeslotIndex
    queue,        \* AccumulationQueue: entries by slot of the epoch
    history,      \* AccumulationHistory: packages, by blocks back from E - 1
    accumulated   \* history variable: all packages ever accumulated

vars == <<slot, queue, history, accumulated>>

Phases == 0..E - 1

Init ==
    /\ slot = 0
    /\ queue = [j \in Phases |-> {}]
    /\ history = [j \in Phases |-> {}]
    /\ accumulated = {}

\* getWorkReportDependencies; since is the slot of the block (history variable).
GetWorkReportDependencies(p, s) == [pkg |-> p, deps |-> Deps[p], since |-> s]

\* getWorkPackageHashes of the reports of queue entries.
PackagesOf(entries) == {e.pkg : e \in entries}

\* flattenAccumulationHistory
FlattenAccumulationHistory(h) == UNION {h[j] : j \in Phases}

\* updateQueue: drop the reports done, and the dependencies on them.
UpdateQueue(entries, done) ==
    {[pkg |-> e.pkg, deps |-> e.deps \ done, since |-> e.since] :
        e \in {e \in entries : e.pkg \notin done}}

\* accumulationPriority: each round continues with what is left of the list once
\* all of its reports are done, and the round on an empty list returns nothing.
\* Nothing is left after the first round.
AccumulationPriority(entries) == PackagesOf(UpdateQueue(entries, PackagesOf(entries)))

\* W!, the reports without dependencies, among the first n; and those with.
Immediate(reports, n) == {reports[i] : i \in {i \in 1..n : Deps[reports[i]] = {}}}
WithDeps(reports, s) ==
    {GetWorkReportDependencies(reports[i], s) :
        i \in {i \in DOMAIN reports : Deps[reports[i]] # {}}}

\* The gas of the reports of W! among the first n.
PrefixGas(reports, n) ==
    LET gas[i \in 0..n] ==
          IF i = 0 THEN 0
          ELSE gas[i - 1] + (IF Deps[reports[i]] = {} THEN ReportGas[reports[i]] ELSE 0)
    IN  gas[n]

\* SequentialDelta: the reports of the first round are the longest prefix that
\* fits the gas limit; if there are any, how many more follow depends on the gas
\* their execution leaves.
FirstRound(reports) ==
    CHOOSE n \in 0..Len(reports) :
        /\ PrefixGas(reports, n) <= GasLimit
        /\ n < Len(reports) => PrefixGas(reports, n + 1) > GasLimit

SequentialDelta(reports, n) ==
    /\ n \in FirstRound(reports)..Len(reports)
    /\ Immediate(reports, FirstRound(reports)) = {} => Immediate(reports, n) = {}

\* The slot of the epoch i slots before m, in unsigned arithmetic.
IndexPerEpoch(m, i) == ((m - i) % Word) % E

\* Mutant: skipped slots are not cleared.
EntriesBack_Skipped(i, m, gap, fresh, last) ==
    IF i = 0 THEN UpdateQueue(fresh, last)
    ELSE UpdateQueue(queue[IndexPerEpoch(m, i)], last)

\* What the loop over the epoch puts into its i-th entry from the current one.
EntriesBack(i, m, gap, fresh, last) ==
    IF i = 0 THEN UpdateQueue(fresh, last)
    ELSE IF i < gap THEN {}
    ELSE UpdateQueue(queue[IndexPerEpoch(m, i)], last)

\* The loop's last assignment to entry j of the new queue counts; an entry it
\* never assigns is empty.
Writers(m, j) == {i \in Phases : IndexPerEpoch(m, i) = j}
LastWriters(m, j) == {i \in Writers(m, j) : \A k \in Writers(m, j) : k <= i}

NewQueue(s, fresh, last) ==
    [j \in Phases |->
        UNION {EntriesBack(i, s % E, s - slot, fresh, last) : i \in LastWriters(s % E, j)}]

NewHistory(last) == [j \in Phases |-> IF j = E - 1 THEN last ELSE history[j + 1]]

\* Mutant: the queue is edited by all reports without dependencies, not only by
\* those there was gas for.
ImportBlock_Optimistic(s, reports, n) ==
    LET all == Immediate(reports, Len(reports))
        fresh == UpdateQueue(WithDeps(reports, s), FlattenAccumulationHistory(history))
        last == Immediate(reports, n)
    IN
    /\ s > slot
    /\ SequentialDelta(reports, n)
    /\ slot' = s
    /\ queue' = NewQueue(s, fresh, all)
    /\ history' = NewHistory(last)
    /\ accumulated' = accumulated \cup last

\* CalculateWorkReportsAndAccumulate for a block at slot s that makes the reports
\* available, when those of W! among the first n are accumulated.
ImportBlock(s, reports, n) ==
    LET all == Immediate(reports, Len(reports))
        fresh == UpdateQueue(WithDeps(reports, s), FlattenAccumulationHistory(history))
        waiting == UpdateQueue(UNION {queue[j] : j \in Phases} \cup fresh, all)
        last == Immediate(reports, n)
                \cup (IF n = Len(reports) THEN AccumulationPriority(waiting) ELSE {})
    IN
    /\ s > slot
    /\ SequentialDelta(reports, n)
    /\ slot' = s
    /\ queue' = NewQueue(s, fresh, last)
    /\ history' = NewHistory(last)
    /\ accumulated' = accumulated \cup last

Next ==
    \E s \in slot + 1 .. slot + MaxGap, reports \in ReportLists :
        \E n \in 0..Len(reports) : s <= MaxSlot /\ ImportBlock(s, reports, n)

Spec == Init /\ [][Next]_vars

-----------------------------------------------------------------------------
Entries == [pkg : Packages, deps : SUBSET Packages, since : 0..MaxSlot]
Queued == UNION {queue[j] : j \in Phases}

\* The shape of the queue and of the history.
TypeOK ==
    /\ slot \in 0..MaxSlot
    /\ queue \in [Phases -> SUBSET Entries]
    /\ history \in [Phases -> SUBSET Packages]
    /\ accumulated \subseteq Packages

\* Editing is complete: no report waits that is in the accumulation history, and
\* none waits for one that is.
QueueEdited ==
    \A e \in Queued :
        LET done == FlattenAccumulationHistory(history)
        IN  e.pkg \notin done /\ e.deps \cap done = {}

\* A dependency is struck off only when the package it names was accumulated.
StruckWasAccumulated == \A e \in Queued : Deps[e.pkg] \ e.deps \subseteq accumulated

\* A waiting report was made available at most one epoch ago, whatever slots were
\* skipped: the ring forgets it before its place is used again.
WaitsAnEpochAtMost == \A e \in Queued : slot - e.since < E

\* What the comments on the loop over the epoch say: a report that waits for less
\* than an epoch and is not accumulated goes on waiting.
WaitingReportsKept ==
    [][\A e \in Queued : slot' - e.since < E =>
        e.pkg \in history'[E - 1] \cup {f.pkg : f \in Queued'}]_vars

\* What the comment on accumulationPriority says: a waiting report whose last
\* dependency was accumulated is accumulated with it (if the gas allows, as it
\* does for every list of packages when GasLimit is their total).
NoneWaitsInVain == \A e \in Queued : e.deps # {}
=============================================================================
