---------------------------- MODULE BlockService ----------------------------
(***************************************************************************)
(* The node's view of the chain (internal/chain/service.go): the headers   *)
(* in persistent storage, the set of leaves announced to peers, and the    *)
(* latest finalized block.  HandleNewHeader is called by any number of     *)
(* goroutines.  It holds bs.Mu only inside AddLeaf, RemoveLeaf,            *)
(* UpdateLatestFinalized and the first lines of isDescendantOfFinalized,   *)
(* and every GetHeader and PutHeader is an operation of its own on the     *)
(* store, so each of those is one step here and calls interleave between   *)
(* them.                                                                   *)
(*                                                                         *)
(* Data abstraction.  A header is identified with its hash (the hash is    *)
(* injective), so Parent and Slot, the two header fields the code reads,   *)
(* are constant functions of the hash.  A leaf's slot is always the slot   *)
(* of the header it names, so KnownLeaves is a set of hashes, and          *)
(* LatestFinalized is a hash.                                              *)
(***************************************************************************)
EXTENDS Naturals

CONSTANTS
    Headers,      \* hashes of the headers that can be announced, Genesis too
    Genesis,      \* the block initializeState stores
    Parent,       \* the ParentHash field of each header
    Slot,         \* the TimeSlotIndex field of each header
    Generations,  \* how many headers checkFinalization collects (6 in the code)
    Handlers      \* goroutines that may be inside HandleNewHeader

\* The parent of Genesis, crypto.Hash{1}, and of an orphan are hashes no
\* announced header has.
ASSUME HeadersAssumption ==
    /\ Genesis \in Headers
    /\ DOMAIN Parent = Headers
    /\ Parent[Genesis] \notin Headers
    /\ Slot \in [Headers -> Nat]

ASSUME GenerationsAssumption == Generations \in Nat \ {0}

VARIABLES
    stored,     \* headers Store.GetHeader finds
    leaves,     \* KnownLeaves
    finalized,  \* LatestFinalized
    pc,         \* where each handler is in HandleNewHeader
    hdr,        \* the header it handles
    snapshot,   \* finalizedSlot and finalizedHash as it read them
    cursor,     \* current, then currentHash: the block its walk has reached
    depth       \* len(ancestorChain)

vars == <<stored, leaves, finalized, pc, hdr, snapshot, cursor, depth>>

\* What a walk can point at: a header, or a parent nobody announced.
Hashes == Headers \cup {Parent[h] : h \in Headers}

PCs == {"idle", "descend", "put", "unparent", "addleaf", "walk", "unleaf", "finalize"}

\* The handlers' program counters and locals, the store, the leaves and the latest finalized block have their types.
TypeOK ==
    /\ stored \subseteq Headers
    /\ leaves \subseteq Headers
    /\ finalized \in Headers
    /\ pc \in [Handlers -> PCs]
    /\ hdr \in [Handlers -> Headers]
    /\ snapshot \in [Handlers -> Headers]
    /\ cursor \in [Handlers -> Hashes]
    /\ depth \in [Handlers -> 0..Generations]

\* NewBlockService and initializeState: Genesis is stored and finalized but
\* is not made a leaf.
Init ==
    /\ stored = {Genesis}
    /\ leaves = {}
    /\ finalized = Genesis
    /\ pc = [g \in Handlers |-> "idle"]
    /\ hdr = [g \in Handlers |-> Genesis]
    /\ snapshot = [g \in Handlers |-> Genesis]
    /\ cursor = [g \in Handlers |-> Genesis]
    /\ depth = [g \in Handlers |-> 0]

Goto(g, from, to) == pc[g] = from /\ pc' = [pc EXCEPT ![g] = to]

\* A handler back in "idle" has returned; its locals are gone.
Return(g, from) ==
    /\ Goto(g, from, "idle")
    /\ hdr' = [hdr EXCEPT ![g] = Genesis]
    /\ snapshot' = [snapshot EXCEPT ![g] = Genesis]
    /\ cursor' = [cursor EXCEPT ![g] = Genesis]
    /\ depth' = [depth EXCEPT ![g] = 0]

\* HandleNewHeader is called, for a header seen before or not, and reads the
\* latest finalized block under the read lock.
Announce(g, h) ==
    /\ Goto(g, "idle", "descend")
    /\ hdr' = [hdr EXCEPT ![g] = h]
    /\ snapshot' = [snapshot EXCEPT ![g] = finalized]
    /\ cursor' = [cursor EXCEPT ![g] = h]
    /\ UNCHANGED <<stored, leaves, finalized, depth>>

\* Mutant: the loop forgets to move on to the parent.
DescendToParent_Stuck(g) ==
    /\ Goto(g, "descend", "descend")
    /\ Slot[cursor[g]] > Slot[snapshot[g]]
    /\ Parent[cursor[g]] \in stored
    /\ UNCHANGED <<stored, leaves, finalized, hdr, snapshot, cursor, depth>>

\* One iteration of isDescendantOfFinalized's loop, the parent found.
DescendToParent(g) ==
    /\ Goto(g, "descend", "descend")
    /\ Slot[cursor[g]] > Slot[snapshot[g]]
    /\ Parent[cursor[g]] \in stored
    /\ cursor' = [cursor EXCEPT ![g] = Parent[@]]
    /\ UNCHANGED <<stored, leaves, finalized, hdr, snapshot, depth>>

\* The walk reached the finalized block it started from.
DescendantConfirmed(g) ==
    /\ Goto(g, "descend", "put")
    /\ Slot[cursor[g]] = Slot[snapshot[g]]
    /\ cursor[g] = snapshot[g]
    /\ UNCHANGED <<stored, leaves, finalized, hdr, snapshot, cursor, depth>>

\* A parent is missing, or the walk passed the finalized slot elsewhere.
Reject(g) ==
    /\ Return(g, "descend")
    /\ \/ Slot[cursor[g]] > Slot[snapshot[g]] /\ Parent[cursor[g]] \notin stored
       \/ Slot[cursor[g]] = Slot[snapshot[g]] /\ cursor[g] # snapshot[g]
       \/ Slot[cursor[g]] < Slot[snapshot[g]]
    /\ UNCHANGED <<stored, leaves, finalized>>

PutHeader(g) ==
    /\ Goto(g, "put", "unparent")
    /\ stored' = stored \cup {hdr[g]}
    /\ UNCHANGED <<leaves, finalized, hdr, snapshot, cursor, depth>>

RemoveParentLeaf(g) ==
    /\ Goto(g, "unparent", "addleaf")
    /\ leaves' = leaves \ {Parent[hdr[g]]}
    /\ UNCHANGED <<stored, finalized, hdr, snapshot, cursor, depth>>

\* AddLeaf; then checkFinalization starts at the header's parent.
AddLeaf(g) ==
    /\ Goto(g, "addleaf", "walk")
    /\ leaves' = leaves \cup {hdr[g]}
    /\ cursor' = [cursor EXCEPT ![g] = Parent[hdr[g]]]
    /\ depth' = [depth EXCEPT ![g] = 0]
    /\ UNCHANGED <<stored, finalized, hdr, snapshot>>

\* One iteration of checkFinalization's loop that is not the last.
WalkBack(g) ==
    /\ Goto(g, "walk", "walk")
    /\ cursor[g] \in stored
    /\ depth[g] + 1 < Generations
    /\ cursor' = [cursor EXCEPT ![g] = Parent[@]]
    /\ depth' = [depth EXCEPT ![g] = @ + 1]
    /\ UNCHANGED <<stored, leaves, finalized, hdr, snapshot>>

\* Mutant: the walk stops one generation early.
WalkDone_Early(g) ==
    /\ Goto(g, "walk", "unleaf")
    /\ cursor[g] \in stored
    /\ depth[g] + 2 = Generations
    /\ depth' = [depth EXCEPT ![g] = @ + 1]
    /\ UNCHANGED <<stored, leaves, finalized, hdr, snapshot, cursor>>

\* The last iteration: the block at the cursor is the one to finalize.
WalkDone(g) ==
    /\ Goto(g, "walk", "unleaf")
    /\ cursor[g] \in stored
    /\ depth[g] + 1 = Generations
    /\ depth' = [depth EXCEPT ![g] = @ + 1]
    /\ UNCHANGED <<stored, leaves, finalized, hdr, snapshot, cursor>>

\* ErrHeaderNotFound during the walk: nothing can be finalized.
WalkFellOff(g) ==
    /\ Return(g, "walk")
    /\ cursor[g] \notin stored
    /\ UNCHANGED <<stored, leaves, finalized>>

\* Mutant: the new header is removed from the leaves, not the finalized block.
RemoveFinalizedLeaf_Header(g) ==
    /\ Goto(g, "unleaf", "finalize")
    /\ leaves' = leaves \ {hdr[g]}
    /\ UNCHANGED <<stored, finalized, hdr, snapshot, cursor, depth>>

RemoveFinalizedLeaf(g) ==
    /\ Goto(g, "unleaf", "finalize")
    /\ leaves' = leaves \ {cursor[g]}
    /\ UNCHANGED <<stored, finalized, hdr, snapshot, cursor, depth>>

UpdateLatestFinalized(g) ==
    /\ Return(g, "finalize")
    /\ finalized' = cursor[g]
    /\ UNCHANGED <<stored, leaves>>

\* Any GetHeader or PutHeader may fail (a closed chain, a database error);
\* the call returns and what it already did stays done.
StoreFails(g) ==
    /\ \E from \in {"descend", "put", "walk"} : Return(g, from)
    /\ UNCHANGED <<stored, leaves, finalized>>

\* The steps of a call that has begun, the store answering.
Step(g) ==
    \/ DescendToParent(g) \/ DescendantConfirmed(g) \/ Reject(g)
    \/ PutHeader(g) \/ RemoveParentLeaf(g) \/ AddLeaf(g)
    \/ WalkBack(g) \/ WalkDone(g) \/ WalkFellOff(g)
    \/ RemoveFinalizedLeaf(g) \/ UpdateLatestFinalized(g)

ReliableNext == \E g \in Handlers : Step(g) \/ \E h \in Headers : Announce(g, h)

Next == ReliableNext \/ \E g \in Handlers : StoreFails(g)

Spec == Init /\ [][Next]_vars

\* The store never fails.
ReliableSpec == Init /\ [][ReliableNext]_vars

\* A goroutine inside HandleNewHeader keeps being scheduled.
FairSpec == Spec /\ \A g \in Handlers : WF_vars(Step(g))

-----------------------------------------------------------------------------
(* Properties.                                                             *)

\* n steps up the parents from a lead to b, through headers of S.
Above(S, a, b, n) ==
    \E p \in [0..n -> S] :
        /\ p[0] = a /\ p[n] = b
        /\ \A i \in 1..n : p[i] = Parent[p[i-1]]

Childless(h) == \A c \in stored : Parent[c] # h

\* The parent of every stored header but Genesis is stored: the walks of
\* isDescendantOfFinalized and checkFinalization cannot be cut short by a gap
\* that a concurrent or failed call left in the store.
AncestryStored == \A h \in stored \ {Genesis} : Parent[h] \in stored

\* No tip of the chain is ever forgotten: a stored header without stored
\* children is in KnownLeaves, or the call that stored it is about to add it,
\* whatever other calls remove from KnownLeaves meanwhile (UP 0 announces all
\* leaves).
TipsAreLeaves ==
    \A h \in stored \ {Genesis} : Childless(h) =>
        \/ h \in leaves
        \/ \E g \in Handlers : hdr[g] = h /\ pc[g] \in {"unparent", "addleaf"}

\* LatestFinalized never names a block that is not buried: except for Genesis,
\* checkFinalization only picks one with Generations stored headers above it.
FinalizedIsBuried ==
    finalized = Genesis \/ \E h \in stored : Above(stored, h, finalized, Generations)

\* Every leaf is a header a peer can ask for, and no header below Genesis is
\* ever taken in, so every walk down the slots ends.
LeavesAreStored == leaves \subseteq {h \in stored : Slot[h] >= Slot[Genesis]}

\* Every call of HandleNewHeader returns.
HandlersReturn == \A g \in Handlers : pc[g] # "idle" ~> pc[g] = "idle"

View == INSTANCE ChainView WITH
    Headers <- Headers, Genesis <- Genesis, Parent <- Parent, Generations <- Generations,
    stored <- stored, finalized <- finalized

\* The handlers, however they interleave and wherever the store fails them,
\* implement the chain a reader relies on: every step of HandleNewHeader is a
\* step of ChainView or invisible there.
ImplementsChainView == View!ViewSpec

-----------------------------------------------------------------------------
(* The inductive invariant behind the safety properties: what is true of   *)
(* the store, and what each handler has established at each point.         *)

StoreInv ==
    /\ {Genesis, finalized} \subseteq stored
    /\ \A h \in stored : Slot[h] >= Slot[Genesis]
    /\ leaves \subseteq stored

\* The walk of isDescendantOfFinalized has left the header only through a
\* stored parent, and only from a slot above the finalized one.
DescendInv(g) ==
    pc[g] = "descend" =>
        \/ cursor[g] = hdr[g]
        \/ /\ {cursor[g], Parent[hdr[g]]} \subseteq stored
           /\ Slot[hdr[g]] > Slot[snapshot[g]]

PutInv(g) ==
    pc[g] = "put" =>
        /\ hdr[g] \in stored \/ Parent[hdr[g]] \in stored
        /\ Slot[hdr[g]] >= Slot[Genesis]

\* The cursor of checkFinalization is the parent of the last header collected.
WalkInv(g) ==
    pc[g] = "walk" =>
        /\ depth[g] < Generations
        /\ \E b \in stored : Above(stored, hdr[g], b, depth[g]) /\ cursor[g] = Parent[b]

BuriedInv(g) ==
    pc[g] \in {"unleaf", "finalize"} => Above(stored, hdr[g], cursor[g], Generations)

HandlerInv(g) ==
    /\ snapshot[g] \in stored
    /\ pc[g] \in PCs \ {"idle", "descend", "put"} => hdr[g] \in stored
    /\ DescendInv(g)
    /\ PutInv(g)
    /\ WalkInv(g)
    /\ BuriedInv(g)

IInv ==
    /\ TypeOK
    /\ StoreInv
    /\ AncestryStored
    /\ TipsAreLeaves
    /\ FinalizedIsBuried
    /\ \A g \in Handlers : HandlerInv(g)

-----------------------------------------------------------------------------
(* What the comments say and the code does not do.                         *)

\* a is b or has it among its stored ancestors: b is in every set of headers
\* that holds a and the stored parents of its members.
Descends(a, b) ==
    \A S \in SUBSET (stored \cup {a}) :
        (a \in S /\ \A x \in S : Parent[x] \in stored => Parent[x] \in S) => b \in S

\* "Leaf represents a block with no known children (a tip of the chain)":
\* once no call is running, no leaf has a stored child.
LeavesAreTips ==
    (\A g \in Handlers : pc[g] = "idle") => \A h \in leaves : Childless(h)

\* "Tracks the most recently finalized block": finality is not taken back, so
\* LatestFinalized only moves to one of its own descendants.
FinalityNeverReverts == [][Descends(finalized', finalized)]_finalized

\* "Only update leaves if this is a descendant of finalized block".
NewLeavesDescend == [][\A h \in leaves' \ leaves : Descends(h, finalized)]_leaves

\* "A block is considered finalized when it has a chain of 5 descendant
\* blocks", one fewer than the Generations checkFinalization collects: once
\* no call is running, the first such block is no longer below Genesis.
BuriedIsFinalized ==
    (\A g \in Handlers : pc[g] = "idle") =>
        \A h \in stored : \A b \in stored \ {Genesis} :
            Above(stored, h, b, Generations - 1) => finalized # Genesis
=============================================================================
