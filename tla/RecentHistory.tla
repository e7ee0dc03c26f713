--------------------------- MODULE RecentHistory ---------------------------
(***************************************************************************)
(* The recent blocks of the state and what an anchor of a guarantee is     *)
(* checked against: UpdateRecentBlocks and anchorBlockInRecentBlocks       *)
(* (internal/statetransition/state_transition.go) over the mountain range  *)
(* (internal/merkle/mountain_ranges) of the roots of accumulation trees    *)
(* (internal/merkle/binary_tree).                                          *)
(*                                                                         *)
(* Data abstraction.  A hash is the term of what was hashed, so distinct   *)
(* inputs have distinct hashes; the tag of a term is the prefix the code   *)
(* hashes with it, or names the place where it hashes without one.  The    *)
(* hash of a header is the height of its block.  A nil peak is <<>>, and   *)
(* any other peak a sequence of one hash.                                  *)
(*                                                                         *)
(* history is what the chain holds: for every block the pairs its          *)
(* accumulation gave and the PriorStateRoot of its header, which the code  *)
(* checks nowhere.                                                         *)
(***************************************************************************)
EXTENDS Integers, Sequences, FiniteSets

LOCAL INSTANCE SequencesExt

CONSTANTS
    MaxRecentBlocks,  \* blocks the state keeps
    PairLists,        \* serviceHashPairs an accumulation may give: <<service, hash>>
    ClaimedRoots,     \* PriorStateRoots of headers
    MaxHeight         \* bound on the length of the chain

ASSUME HistoryAssumption == MaxRecentBlocks \in Nat \ {0} /\ MaxHeight \in Nat

VARIABLES recentBlocks, history

historyVars == <<recentBlocks, history>>

ZeroHash == <<"zero">>

HistoryInit == recentBlocks = <<>> /\ history = <<>>

-----------------------------------------------------------------------------
(* The tree over the pairs of one block.                                   *)

RECURSIVE ComputeNode(_)
ComputeNode(blobs) ==
    IF Len(blobs) = 1 THEN <<"blob", blobs[1]>>
    ELSE LET mid == Len(blobs) \div 2
         IN  <<"node", ComputeNode(SubSeq(blobs, 1, mid)),
                       ComputeNode(SubSeq(blobs, mid + 1, Len(blobs)))>>

ComputeWellBalancedRoot(blobs) == IF blobs = <<>> THEN ZeroHash ELSE ComputeNode(blobs)

computeAccumulationRoot(pairs) ==
    ComputeWellBalancedRoot(SortSeq(pairs, LAMBDA p, q : p[1] < q[1]))

-----------------------------------------------------------------------------
(* The mountain range: peaks[i] is the peak of 2^(i-1) leaves.             *)

replacePeakAt(peaks, position, value) == [peaks EXCEPT ![position] = value]

RECURSIVE placePeak(_, _, _)
placePeak(peaks, item, position) ==
    IF position > Len(peaks) THEN Append(peaks, <<item>>)
    ELSE IF peaks[position] = <<>> THEN replacePeakAt(peaks, position, <<item>>)
    ELSE placePeak(replacePeakAt(peaks, position, <<>>),
                   <<"pair", peaks[position][1], item>>, position + 1)

AppendLeaf(peaks, leaf) == placePeak(peaks, leaf, 1)

RECURSIVE FoldPeaks(_)
FoldPeaks(valid) ==
    IF valid = <<>> THEN ZeroHash
    ELSE IF Len(valid) = 1 THEN valid[1][1]
    ELSE <<"peak", FoldPeaks(Front(valid)), Last(valid)[1]>>

SuperPeak(peaks) == FoldPeaks(SelectSeq(peaks, LAMBDA p : p # <<>>))

-----------------------------------------------------------------------------
(* The recent blocks.                                                      *)

calculateIntermediateBlockState(recent, priorStateRoot) ==
    IF recent = <<>> THEN <<>> ELSE [recent EXCEPT ![Len(recent)].stateRoot = priorStateRoot]

\* Mutant: a block's range continues that of the oldest block kept.
UpdateRecentBlocks_Oldest(headerHash, priorStateRoot, accumulationRoot, recent) ==
    LET filled == calculateIntermediateBlockState(recent, priorStateRoot)
        range == IF filled = <<>> THEN <<>> ELSE Head(filled).mmr
        all == Append(filled, [hash |-> headerHash, stateRoot |-> ZeroHash,
                               mmr |-> AppendLeaf(range, accumulationRoot)])
    IN  IF Len(all) > MaxRecentBlocks
        THEN SubSeq(all, Len(all) - MaxRecentBlocks + 1, Len(all)) ELSE all

UpdateRecentBlocks(headerHash, priorStateRoot, accumulationRoot, recent) ==
    LET filled == calculateIntermediateBlockState(recent, priorStateRoot)
        range == IF filled = <<>> THEN <<>> ELSE Last(filled).mmr
        all == Append(filled, [hash |-> headerHash, stateRoot |-> ZeroHash,
                               mmr |-> AppendLeaf(range, accumulationRoot)])
    IN  IF Len(all) > MaxRecentBlocks
        THEN SubSeq(all, Len(all) - MaxRecentBlocks + 1, Len(all)) ELSE all

\* UpdateState as far as the recent blocks go.  A block that is refused changes
\* none of them: they are computed on a copy and stored at the end.
calculateNewRecentBlocks(pairs, priorStateRoot) ==
    /\ Len(history) < MaxHeight
    /\ recentBlocks' = UpdateRecentBlocks(Len(history) + 1,
            priorStateRoot, computeAccumulationRoot(pairs),
            calculateIntermediateBlockState(recentBlocks, priorStateRoot))
    /\ history' = Append(history, [pairs |-> ToSet(pairs), prior |-> priorStateRoot])

HistoryNext ==
    \E pairs \in PairLists, root \in ClaimedRoots : calculateNewRecentBlocks(pairs, root)

\* The first recent block of that hash decides.
anchorBlockInRecentBlocks(anchor) ==
    LET same == {i \in DOMAIN recentBlocks : recentBlocks[i].hash = anchor.hash}
        i == CHOOSE k \in same : \A m \in same : k <= m
    IN  /\ same # {}
        /\ anchor.stateRoot = recentBlocks[i].stateRoot
        /\ anchor.beefyRoot = SuperPeak(recentBlocks[i].mmr)

-----------------------------------------------------------------------------
(* What a range should hold, by the binary digits of the number of leaves. *)

RECURSIVE PerfectTree(_, _, _)
PerfectTree(leaves, first, height) ==
    IF height = 0 THEN leaves[first]
    ELSE <<"pair", PerfectTree(leaves, first, height - 1),
                   PerfectTree(leaves, first + 2^(height - 1), height - 1)>>

RangeOf(leaves) ==
    LET n == Len(leaves)
        digits == CHOOSE k \in 0..n : 2^k > n /\ (k = 0 \/ 2^(k - 1) <= n)
    IN  [i \in 1..digits |->
            IF (n \div 2^(i - 1)) % 2 = 0 THEN <<>>
            ELSE <<PerfectTree(leaves, (n \div 2^i) * 2^i + 1, i - 1)>>]

\* The root of a block's pairs, whatever the order they came in.
RootOf(pairs) == ComputeWellBalancedRoot(SetToSortSeq(pairs, LAMBDA p, q : p[1] < q[1]))

BeefyRoot(i) == SuperPeak(RangeOf([k \in 1..i |-> RootOf(history[k].pairs)]))

\* An anchor is accepted exactly if it names one of the last MaxRecentBlocks
\* blocks, the state root the next header claims and the root of a range that
\* commits to the accumulations of every block of the chain up to that one and to
\* no other, also of blocks the state has forgotten long ago; for the newest block
\* the state root is still the zero hash (UpdateRecentBlocks, placePeak, SuperPeak,
\* computeAccumulationRoot, anchorBlockInRecentBlocks).
AnchorsCommitToHistory ==
    LET height == Len(history)
    IN  \A i, j \in 1..height, root \in ClaimedRoots \cup {ZeroHash} :
            anchorBlockInRecentBlocks([hash |-> i, stateRoot |-> root, beefyRoot |-> BeefyRoot(j)])
            <=> /\ i = j
                /\ i > height - MaxRecentBlocks
                /\ root = IF i = height THEN ZeroHash ELSE history[i + 1].prior
=============================================================================
