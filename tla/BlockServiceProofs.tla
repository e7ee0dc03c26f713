------------------------- MODULE BlockServiceProofs -------------------------
(***************************************************************************)
(* The safety properties of BlockService hold for every header tree, every *)
(* number of generations and every set of handlers; so does the property   *)
(* of ChainStore, for every tree of blocks and every request.              *)
(***************************************************************************)
EXTENDS BlockService, ChainStore, WellFoundedInduction, TLAPS

HIDE HeadersAssumption
HIDE GenerationsAssumption
HIDE StoreAssumption

\* The chain of no steps.
LEMMA AboveSelf ==
    ASSUME NEW S, NEW a \in S
    PROVE  Above(S, a, a, 0)
<1> DEFINE p == [i \in 0..0 |-> a]
<1>1. p \in [0..0 -> S]
  OBVIOUS
<1>2. p[0] = a /\ \A i \in 1..0 : p[i] = Parent[p[i-1]]
  OBVIOUS
<1> QED
  BY <1>1, <1>2 DEF Above

\* A chain through stored headers grows by the stored parent of its end, as
\* checkFinalization's ancestorChain does.
LEMMA AboveExtend ==
    ASSUME NEW S, NEW n \in Nat, NEW a, NEW b, Above(S, a, b, n), Parent[b] \in S
    PROVE  Above(S, a, Parent[b], n + 1)
<1>1. PICK p \in [0..n -> S] :
        p[0] = a /\ p[n] = b /\ \A i \in 1..n : p[i] = Parent[p[i-1]]
  BY DEF Above
<1> DEFINE q == [i \in 0..(n+1) |-> IF i = n + 1 THEN Parent[b] ELSE p[i]]
<1>2. q \in [0..(n+1) -> S]
  BY <1>1
<1>3. q[0] = a /\ q[n+1] = Parent[b]
  BY <1>1
<1>4. ASSUME NEW i \in 1..(n+1) PROVE q[i] = Parent[q[i-1]]
  <2>1. CASE i = n + 1
    <3>1. q[i-1] = p[n]
      BY <2>1
    <3> QED
      BY <1>1, <2>1, <3>1
  <2>2. CASE i # n + 1
    <3>1. i \in 1..n /\ i - 1 \in 0..n /\ i \in 0..n
      BY <2>2
    <3>2. q[i] = p[i] /\ q[i-1] = p[i-1]
      BY <3>1, <2>2
    <3> QED
      BY <1>1, <3>1, <3>2
  <2> QED
    BY <2>1, <2>2
<1> QED
  BY <1>2, <1>3, <1>4 DEF Above

\* The end of a chain of at least one step has a child in S.
LEMMA AboveHasChild ==
    ASSUME NEW S, NEW n \in Nat \ {0}, NEW a, NEW b, Above(S, a, b, n)
    PROVE  \E c \in S : Parent[c] = b
<1>1. PICK p \in [0..n -> S] :
        p[0] = a /\ p[n] = b /\ \A i \in 1..n : p[i] = Parent[p[i-1]]
  BY DEF Above
<1>2. n \in 1..n /\ n - 1 \in 0..n
  OBVIOUS
<1> QED
  BY <1>1, <1>2

\* Headers are never deleted, so chains persist.
LEMMA AboveMonotone ==
    ASSUME NEW S, NEW T, S \subseteq T,
           NEW n \in Nat, NEW a, NEW b, Above(S, a, b, n)
    PROVE  Above(T, a, b, n)
<1>1. PICK p \in [0..n -> S] :
        p[0] = a /\ p[n] = b /\ \A i \in 1..n : p[i] = Parent[p[i-1]]
  BY DEF Above
<1>2. p \in [0..n -> T]
  BY <1>1
<1> QED
  BY <1>1, <1>2 DEF Above

\* A handler that takes no step keeps what it has established, whatever the
\* others store.
LEMMA OtherHandler ==
    ASSUME NEW k \in Handlers, TypeOK, HandlerInv(k), stored \subseteq stored',
           pc'[k] = pc[k], hdr'[k] = hdr[k], snapshot'[k] = snapshot[k],
           cursor'[k] = cursor[k], depth'[k] = depth[k]
    PROVE  HandlerInv(k)'
<1>1. WalkInv(k)'
  <2> SUFFICES ASSUME pc[k] = "walk"
               PROVE  /\ depth[k] < Generations
                      /\ \E b \in stored' : /\ Above(stored', hdr[k], b, depth[k])
                                            /\ cursor[k] = Parent[b]
    BY DEF WalkInv
  <2>1. PICK b \in stored :
          Above(stored, hdr[k], b, depth[k]) /\ cursor[k] = Parent[b]
    BY DEF HandlerInv, WalkInv
  <2>2. depth[k] \in Nat
    BY GenerationsAssumption DEF TypeOK
  <2>3. Above(stored', hdr[k], b, depth[k])
    BY <2>1, <2>2, AboveMonotone
  <2> QED
    BY <2>1, <2>3 DEF HandlerInv, WalkInv
<1>2. BuriedInv(k)'
  <2> SUFFICES ASSUME pc[k] \in {"unleaf", "finalize"}
               PROVE  Above(stored', hdr[k], cursor[k], Generations)
    BY DEF BuriedInv
  <2>1. Above(stored, hdr[k], cursor[k], Generations)
    BY DEF HandlerInv, BuriedInv
  <2> QED
    BY <2>1, AboveMonotone, GenerationsAssumption
<1> QED
  BY <1>1, <1>2 DEF HandlerInv, DescendInv, PutInv

\* A handler that returns has nothing left to establish.
LEMMA ReturnedHandler ==
    ASSUME NEW g \in Handlers, TypeOK, StoreInv, stored' = stored,
           NEW from, Return(g, from)
    PROVE  HandlerInv(g)'
  BY DEF Return, Goto, TypeOK, StoreInv, HandlerInv, DescendInv, PutInv,
         WalkInv, BuriedInv, PCs

\* A step that touches neither store nor leaves, taken by a handler that is
\* not about to add its leaf, forgets no tip.
LEMMA TipsFrame ==
    ASSUME TipsAreLeaves, stored' = stored, leaves' = leaves,
           \A k \in Handlers : pc[k] \in {"unparent", "addleaf"} =>
                                   pc'[k] = pc[k] /\ hdr'[k] = hdr[k]
    PROVE  TipsAreLeaves'
  BY DEF TipsAreLeaves, Childless

\* A finalized block stays buried while headers are added.
LEMMA BuriedFrame ==
    ASSUME FinalizedIsBuried, stored \subseteq stored', finalized' = finalized
    PROVE  FinalizedIsBuried'
<1>1. CASE finalized = Genesis
  BY <1>1 DEF FinalizedIsBuried
<1>2. CASE finalized # Genesis
  <2>1. PICK h \in stored : Above(stored, h, finalized, Generations)
    BY <1>2 DEF FinalizedIsBuried
  <2>2. Above(stored', h, finalized, Generations)
    BY <2>1, AboveMonotone, GenerationsAssumption
  <2> QED
    BY <2>1, <2>2 DEF FinalizedIsBuried
<1> QED
  BY <1>1, <1>2

\* A step of g that leaves the shared state alone only has to re-establish
\* what g knows.
LEMMA LocalStep ==
    ASSUME IInv, NEW g \in Handlers, TypeOK', HandlerInv(g)',
           UNCHANGED <<stored, leaves, finalized>>,
           pc[g] \notin {"unparent", "addleaf"},
           \A k \in Handlers \ {g} :
               /\ pc'[k] = pc[k] /\ hdr'[k] = hdr[k] /\ snapshot'[k] = snapshot[k]
               /\ cursor'[k] = cursor[k] /\ depth'[k] = depth[k]
    PROVE  IInv'
<1>1. StoreInv' /\ AncestryStored'
  BY DEF IInv, StoreInv, AncestryStored
<1>2. TipsAreLeaves'
  <2>1. \A k \in Handlers : pc[k] \in {"unparent", "addleaf"} =>
                                pc'[k] = pc[k] /\ hdr'[k] = hdr[k]
    OBVIOUS
  <2> QED
    BY <2>1, TipsFrame DEF IInv
<1>3. FinalizedIsBuried'
  BY BuriedFrame DEF IInv
<1>4. \A k \in Handlers \ {g} : HandlerInv(k)'
  BY OtherHandler DEF IInv
<1> QED
  BY <1>1, <1>2, <1>3, <1>4 DEF IInv

\* Genesis is stored, finalized and not a leaf when the service starts.
LEMMA InitInv == Init => IInv
<1> SUFFICES ASSUME Init PROVE IInv
  OBVIOUS
<1>1. TypeOK
  BY HeadersAssumption, GenerationsAssumption DEF Init, TypeOK, PCs, Hashes
<1>2. StoreInv /\ AncestryStored /\ TipsAreLeaves /\ FinalizedIsBuried
  BY HeadersAssumption
  DEF Init, StoreInv, AncestryStored, TipsAreLeaves, FinalizedIsBuried
<1>3. \A g \in Handlers : HandlerInv(g)
  BY DEF Init, HandlerInv, DescendInv, PutInv, WalkInv, BuriedInv, PCs
<1> QED
  BY <1>1, <1>2, <1>3 DEF IInv

\* The steps of isDescendantOfFinalized, PutHeader excepted, and the walk back
\* of checkFinalization change nothing other handlers see.
LEMMA DescendInvStep ==
    ASSUME IInv, NEW g \in Handlers,
           \/ \E h \in Headers : Announce(g, h)
           \/ DescendToParent(g) \/ DescendantConfirmed(g) \/ Reject(g)
           \/ StoreFails(g)
    PROVE  IInv'
<1>1. ASSUME NEW h \in Headers, Announce(g, h) PROVE IInv'
  <2>1. TypeOK'
    BY <1>1 DEF Announce, Goto, IInv, TypeOK, PCs, Hashes
  <2>2. HandlerInv(g)'
    BY <1>1 DEF Announce, Goto, IInv, TypeOK, StoreInv, HandlerInv, DescendInv,
                PutInv, WalkInv, BuriedInv, PCs
  <2> QED
    BY <1>1, <2>1, <2>2, LocalStep DEF Announce, Goto, IInv, TypeOK
<1>2. ASSUME DescendToParent(g) PROVE IInv'
  <2>1. cursor[g] \in Headers
    BY <1>2 DEF DescendToParent, Goto, IInv, TypeOK, HandlerInv, DescendInv
  <2>2. TypeOK'
    BY <1>2, <2>1 DEF DescendToParent, Goto, IInv, TypeOK, PCs, Hashes
  <2>3. HandlerInv(g)'
    BY <1>2, <2>1 DEF DescendToParent, Goto, IInv, TypeOK, HandlerInv, DescendInv,
                      PutInv, WalkInv, BuriedInv, PCs
  <2> QED
    BY <1>2, <2>2, <2>3, LocalStep DEF DescendToParent, Goto, IInv, TypeOK
<1>3. ASSUME DescendantConfirmed(g) PROVE IInv'
  <2>1. TypeOK'
    BY <1>3 DEF DescendantConfirmed, Goto, IInv, TypeOK, PCs
  <2>2. PutInv(g)'
    <3>1. CASE cursor[g] = hdr[g]
      BY <1>3, <3>1 DEF DescendantConfirmed, Goto, IInv, TypeOK, StoreInv,
                        HandlerInv, PutInv
    <3>2. CASE cursor[g] # hdr[g]
      <4>1. /\ Parent[hdr[g]] \in stored
            /\ Slot[hdr[g]] > Slot[snapshot[g]]
            /\ Slot[snapshot[g]] >= Slot[Genesis]
        BY <1>3, <3>2 DEF DescendantConfirmed, Goto, IInv, TypeOK, StoreInv,
                          HandlerInv, DescendInv
      <4>2. Slot[hdr[g]] \in Nat /\ Slot[snapshot[g]] \in Nat /\ Slot[Genesis] \in Nat
        BY HeadersAssumption DEF IInv, TypeOK
      <4>3. Slot[hdr[g]] >= Slot[Genesis]
        BY <4>1, <4>2
      <4> QED
        BY <1>3, <4>1, <4>3 DEF DescendantConfirmed, PutInv
    <3> QED
      BY <3>1, <3>2
  <2>3. HandlerInv(g)'
    BY <1>3, <2>2 DEF DescendantConfirmed, Goto, IInv, TypeOK, HandlerInv,
                      DescendInv, WalkInv, BuriedInv, PCs
  <2> QED
    BY <1>3, <2>1, <2>3, LocalStep DEF DescendantConfirmed, Goto, IInv, TypeOK
<1>4. ASSUME Reject(g) \/ StoreFails(g) PROVE IInv'
  <2>1. PICK from \in {"descend", "put", "walk"} : Return(g, from)
    BY <1>4 DEF Reject, StoreFails
  <2>2. UNCHANGED <<stored, leaves, finalized>>
    BY <1>4 DEF Reject, StoreFails
  <2>3. TypeOK'
    BY <2>1, <2>2, HeadersAssumption, GenerationsAssumption
    DEF Return, Goto, IInv, TypeOK, PCs, Hashes
  <2>4. HandlerInv(g)'
    BY <2>1, <2>2, ReturnedHandler DEF IInv
  <2> QED
    BY <2>1, <2>2, <2>3, <2>4, LocalStep DEF Return, Goto, IInv, TypeOK
<1> QED
  BY <1>1, <1>2, <1>3, <1>4

\* PutHeader keeps the store closed under parents because the walk before it
\* found the parent, and the new tip is one the handler will add.
LEMMA PutHeaderInvStep ==
    ASSUME IInv, NEW g \in Handlers, PutHeader(g)
    PROVE  IInv'
<1> USE DEF PutHeader, Goto
<1>1. TypeOK'
  BY DEF IInv, TypeOK, PCs
<1>2. /\ stored' = stored \cup {hdr[g]}
      /\ hdr[g] \in stored \/ Parent[hdr[g]] \in stored
      /\ Slot[hdr[g]] >= Slot[Genesis]
  BY DEF IInv, HandlerInv, PutInv
<1>3. StoreInv'
  BY <1>2 DEF IInv, StoreInv
<1>4. AncestryStored'
  BY <1>2 DEF IInv, AncestryStored
<1>5. TipsAreLeaves'
  <2> SUFFICES ASSUME NEW h \in stored' \ {Genesis}, Childless(h)'
               PROVE  \/ h \in leaves
                      \/ \E k \in Handlers : /\ hdr'[k] = h
                                             /\ pc'[k] \in {"unparent", "addleaf"}
    BY DEF TipsAreLeaves
  <2>1. CASE h = hdr[g]
    BY <2>1 DEF IInv, TypeOK
  <2>2. CASE h # hdr[g]
    <3>1. h \in stored /\ Childless(h)
      BY <1>2, <2>2 DEF Childless
    <3> QED
      BY <3>1 DEF IInv, TypeOK, TipsAreLeaves
  <2> QED
    BY <2>1, <2>2
<1>6. FinalizedIsBuried'
  BY <1>2, BuriedFrame DEF IInv
<1>7. ASSUME NEW k \in Handlers PROVE HandlerInv(k)'
  <2>1. CASE k = g
    BY <1>2, <2>1 DEF IInv, TypeOK, HandlerInv, DescendInv, PutInv, WalkInv,
                      BuriedInv
  <2>2. CASE k # g
    BY <1>2, <2>2, OtherHandler DEF IInv, TypeOK
  <2> QED
    BY <2>1, <2>2
<1> QED
  BY <1>1, <1>3, <1>4, <1>5, <1>6, <1>7 DEF IInv

\* The parent a handler removes from the leaves has the handler's header as a
\* stored child; the header it adds is stored.
LEMMA LeafInvStep ==
    ASSUME IInv, NEW g \in Handlers, RemoveParentLeaf(g) \/ AddLeaf(g)
    PROVE  IInv'
<1>1. hdr[g] \in stored
  BY DEF RemoveParentLeaf, AddLeaf, Goto, IInv, HandlerInv, PCs
<1>2. /\ UNCHANGED <<stored, finalized, hdr, snapshot>>
      /\ \A k \in Handlers \ {g} :
            pc'[k] = pc[k] /\ cursor'[k] = cursor[k] /\ depth'[k] = depth[k]
  BY DEF RemoveParentLeaf, AddLeaf, Goto, IInv, TypeOK
<1>3. TypeOK'
  BY HeadersAssumption, GenerationsAssumption
  DEF RemoveParentLeaf, AddLeaf, Goto, IInv, TypeOK, PCs, Hashes
<1>4. StoreInv' /\ AncestryStored'
  BY <1>1, <1>2 DEF RemoveParentLeaf, AddLeaf, IInv, StoreInv, AncestryStored
<1>5. TipsAreLeaves'
  <2>1. CASE RemoveParentLeaf(g)
    BY <1>1, <2>1 DEF RemoveParentLeaf, Goto, IInv, TypeOK, TipsAreLeaves, Childless
  <2>2. CASE AddLeaf(g)
    BY <2>2 DEF AddLeaf, Goto, IInv, TypeOK, TipsAreLeaves, Childless
  <2> QED
    BY <2>1, <2>2
<1>6. FinalizedIsBuried'
  BY <1>2, BuriedFrame DEF IInv
<1>7. HandlerInv(g)'
  <2>1. CASE RemoveParentLeaf(g)
    BY <1>1, <2>1 DEF RemoveParentLeaf, Goto, IInv, TypeOK, HandlerInv, DescendInv,
                      PutInv, WalkInv, BuriedInv
  <2>2. CASE AddLeaf(g)
    <3>1. Above(stored, hdr[g], hdr[g], 0)
      BY <1>1, AboveSelf
    <3>2. /\ pc'[g] = "walk" /\ depth'[g] = 0 /\ cursor'[g] = Parent[hdr[g]]
          /\ stored' = stored /\ hdr'[g] = hdr[g]
      BY <2>2 DEF AddLeaf, Goto, IInv, TypeOK
    <3>3. WalkInv(g)'
      BY <1>1, <3>1, <3>2, GenerationsAssumption DEF WalkInv
    <3> QED
      BY <1>1, <1>2, <3>2, <3>3 DEF IInv, HandlerInv, DescendInv, PutInv, BuriedInv
  <2> QED
    BY <2>1, <2>2
<1>8. \A k \in Handlers \ {g} : HandlerInv(k)'
  BY <1>2, OtherHandler DEF IInv
<1> QED
  BY <1>3, <1>4, <1>5, <1>6, <1>7, <1>8 DEF IInv

\* Each iteration of checkFinalization lengthens the chain it has seen by one.
LEMMA WalkInvStep ==
    ASSUME IInv, NEW g \in Handlers, WalkBack(g) \/ WalkDone(g) \/ WalkFellOff(g)
    PROVE  IInv'
<1>1. ASSUME WalkBack(g) \/ WalkDone(g) PROVE IInv'
  <2>1. /\ pc[g] = "walk" /\ cursor[g] \in stored
        /\ UNCHANGED <<stored, leaves, finalized, hdr, snapshot>>
        /\ depth'[g] = depth[g] + 1
        /\ depth[g] \in Nat
    <3>1. depth \in [Handlers -> Nat]
      BY GenerationsAssumption DEF IInv, TypeOK
    <3> QED BY <1>1, <3>1 DEF WalkBack, WalkDone, Goto
  <2>2. Above(stored, hdr[g], cursor[g], depth[g] + 1)
    BY <2>1, AboveExtend, ZenonT(60) DEF IInv, HandlerInv, WalkInv
  <2>3. TypeOK'
    BY <1>1, <2>1, GenerationsAssumption
    DEF WalkBack, WalkDone, Goto, IInv, TypeOK, PCs, Hashes
  <2>4. WalkInv(g)' /\ BuriedInv(g)'
    <3>1. CASE WalkBack(g)
      BY <2>1, <2>2, <3>1 DEF WalkBack, Goto, IInv, TypeOK, WalkInv, BuriedInv
    <3>2. CASE WalkDone(g)
      BY <2>1, <2>2, <3>2 DEF WalkDone, Goto, IInv, TypeOK, WalkInv, BuriedInv
    <3> QED
      BY <1>1, <3>1, <3>2
  <2>5. pc'[g] \in {"walk", "unleaf"}
    BY <1>1 DEF WalkBack, WalkDone, Goto, IInv, TypeOK
  <2>6. HandlerInv(g)'
    BY <2>1, <2>4, <2>5 DEF IInv, HandlerInv, DescendInv, PutInv, PCs
  <2> QED
    BY <1>1, <2>1, <2>3, <2>6, LocalStep, ZenonT(60) DEF WalkBack, WalkDone, Goto, IInv, TypeOK
<1>2. ASSUME WalkFellOff(g) PROVE IInv'
  <2>1. Return(g, "walk") /\ UNCHANGED <<stored, leaves, finalized>>
    BY <1>2 DEF WalkFellOff
  <2>2. TypeOK'
    BY <2>1, HeadersAssumption, GenerationsAssumption
    DEF Return, Goto, IInv, TypeOK, PCs, Hashes
  <2>3. HandlerInv(g)'
    BY <2>1, ReturnedHandler DEF IInv
  <2> QED
    BY <2>1, <2>2, <2>3, LocalStep DEF Return, Goto, IInv, TypeOK
<1> QED
  BY <1>1, <1>2

\* The block finalized is buried, so removing it from the leaves forgets no tip.
LEMMA FinalizeInvStep ==
    ASSUME IInv, NEW g \in Handlers, RemoveFinalizedLeaf(g) \/ UpdateLatestFinalized(g)
    PROVE  IInv'
<1>1. Above(stored, hdr[g], cursor[g], Generations) /\ hdr[g] \in stored
  BY DEF RemoveFinalizedLeaf, UpdateLatestFinalized, Return, Goto, IInv, HandlerInv,
         BuriedInv, PCs
<1>2. PICK c \in stored : Parent[c] = cursor[g]
  BY <1>1, AboveHasChild, GenerationsAssumption
<1>3. cursor[g] \in stored
  BY <1>1, GenerationsAssumption DEF Above
<1>4. /\ stored' = stored
      /\ \A k \in Handlers \ {g} :
            /\ pc'[k] = pc[k] /\ hdr'[k] = hdr[k] /\ snapshot'[k] = snapshot[k]
            /\ cursor'[k] = cursor[k] /\ depth'[k] = depth[k]
  BY DEF RemoveFinalizedLeaf, UpdateLatestFinalized, Return, Goto, IInv, TypeOK
<1>5. TypeOK'
  BY <1>3, HeadersAssumption, GenerationsAssumption
  DEF RemoveFinalizedLeaf, UpdateLatestFinalized, Return, Goto, IInv, TypeOK, PCs, Hashes
<1>6. StoreInv' /\ AncestryStored'
  BY <1>3, <1>4 DEF RemoveFinalizedLeaf, UpdateLatestFinalized, IInv, StoreInv,
                    AncestryStored
<1>7. TipsAreLeaves'
  BY <1>2, <1>4 DEF RemoveFinalizedLeaf, UpdateLatestFinalized, Return, Goto, IInv,
                    TypeOK, TipsAreLeaves, Childless
<1>8. FinalizedIsBuried'
  <2>1. CASE RemoveFinalizedLeaf(g)
    BY <2>1, <1>4, BuriedFrame DEF RemoveFinalizedLeaf, IInv
  <2>2. CASE UpdateLatestFinalized(g)
    BY <2>2, <1>1, <1>4 DEF UpdateLatestFinalized, FinalizedIsBuried
  <2> QED
    BY <2>1, <2>2
<1>9. HandlerInv(g)'
  <2>1. CASE RemoveFinalizedLeaf(g)
    BY <2>1, <1>1 DEF RemoveFinalizedLeaf, Goto, IInv, TypeOK, HandlerInv, DescendInv,
                      PutInv, WalkInv, BuriedInv
  <2>2. CASE UpdateLatestFinalized(g)
    BY <2>2, <1>4, ReturnedHandler DEF UpdateLatestFinalized, IInv
  <2> QED
    BY <2>1, <2>2
<1>10. \A k \in Handlers \ {g} : HandlerInv(k)'
  BY <1>4, OtherHandler DEF IInv
<1> QED
  BY <1>5, <1>6, <1>7, <1>8, <1>9, <1>10 DEF IInv

\* No step of any handler, the store failing or not, breaks the invariant.
LEMMA NextInv == IInv /\ [Next]_vars => IInv'
<1> SUFFICES ASSUME IInv, [Next]_vars PROVE IInv'
  OBVIOUS
<1>1. CASE ReliableNext
  <2>1. PICK g \in Handlers : Step(g) \/ \E h \in Headers : Announce(g, h)
    BY <1>1 DEF ReliableNext
  <2> QED
    BY <2>1, DescendInvStep, PutHeaderInvStep, LeafInvStep, WalkInvStep, FinalizeInvStep
    DEF Step
<1>2. CASE \E g \in Handlers : StoreFails(g)
  BY <1>2, DescendInvStep
<1>3. CASE UNCHANGED vars
  BY <1>3 DEF vars, IInv, TypeOK, StoreInv, AncestryStored, TipsAreLeaves, Childless,
              FinalizedIsBuried, HandlerInv, DescendInv, PutInv, WalkInv, BuriedInv
<1> QED
  BY <1>1, <1>2, <1>3 DEF Next

\* The state of BlockService is always well typed and every conjunct of the
\* inductive invariant always holds.
THEOREM Invariance == Spec => []IInv
  BY InitInv, NextInv, PTL DEF Spec

\* HandleNewHeader never leaves a gap in the stored ancestry.
THEOREM AncestryTheorem == Spec => []AncestryStored
<1>1. IInv => AncestryStored
  BY DEF IInv
<1> QED
  BY <1>1, Invariance, PTL

\* Concurrent calls of HandleNewHeader never lose a tip of the chain.
THEOREM TipsTheorem == Spec => []TipsAreLeaves
<1>1. IInv => TipsAreLeaves
  BY DEF IInv
<1> QED
  BY <1>1, Invariance, PTL

\* checkFinalization only finalizes a block that is Generations deep.
THEOREM BuriedTheorem == Spec => []FinalizedIsBuried
<1>1. IInv => FinalizedIsBuried
  BY DEF IInv
<1> QED
  BY <1>1, Invariance, PTL

\* Every leaf is stored, at or above the slot of Genesis.
THEOREM LeavesTheorem == Spec => []LeavesAreStored
<1>1. IInv => LeavesAreStored
  BY DEF IInv, StoreInv, LeavesAreStored
<1> QED
  BY <1>1, Invariance, PTL

\* A step that touches neither the store nor the finalized block is invisible
\* to a reader of the chain; PutHeader and UpdateLatestFinalized are the other
\* two, and what their handler has established makes each a step of ChainView.
LEMMA ViewStep ==
    ASSUME IInv, [Next]_vars
    PROVE  [View!ViewNext]_<<stored, finalized>>
<1>1. ASSUME NEW g \in Handlers, PutHeader(g)
      PROVE  [View!ViewNext]_<<stored, finalized>>
  <2>1. hdr[g] \in stored \/ Parent[hdr[g]] \in stored
    BY <1>1 DEF PutHeader, Goto, IInv, HandlerInv, PutInv
  <2>2. stored' = stored \cup {hdr[g]} /\ finalized' = finalized /\ hdr[g] \in Headers
    BY <1>1 DEF PutHeader, IInv, TypeOK
  <2>3. CASE hdr[g] \in stored
    BY <2>2, <2>3
  <2>4. CASE hdr[g] \notin stored
    BY <2>1, <2>2, <2>4 DEF View!ViewNext, View!Import
  <2> QED
    BY <2>3, <2>4
<1>2. ASSUME NEW g \in Handlers, UpdateLatestFinalized(g)
      PROVE  [View!ViewNext]_<<stored, finalized>>
  <2>1. Above(stored, hdr[g], cursor[g], Generations)
    BY <1>2 DEF UpdateLatestFinalized, Return, Goto, IInv, HandlerInv, BuriedInv
  <2>2. cursor[g] \in stored /\ View!Buried(cursor[g], Generations)
    BY <2>1, GenerationsAssumption DEF Above, View!Buried
  <2>3. finalized' = cursor[g] /\ stored' = stored
    BY <1>2 DEF UpdateLatestFinalized
  <2> QED
    BY <2>2, <2>3 DEF View!ViewNext, View!Finalize
<1>3. ASSUME NEW g \in Handlers, NEW h \in Headers,
             \/ Announce(g, h) \/ DescendToParent(g) \/ DescendantConfirmed(g)
             \/ Reject(g) \/ RemoveParentLeaf(g) \/ AddLeaf(g) \/ WalkBack(g)
             \/ WalkDone(g) \/ WalkFellOff(g) \/ RemoveFinalizedLeaf(g) \/ StoreFails(g)
      PROVE  UNCHANGED <<stored, finalized>>
  BY <1>3 DEF Announce, DescendToParent, DescendantConfirmed, Reject, RemoveParentLeaf,
              AddLeaf, WalkBack, WalkDone, WalkFellOff, RemoveFinalizedLeaf, StoreFails
<1>4. CASE UNCHANGED vars
  BY <1>4 DEF vars
<1>5. CASE Next
  <2>1. PICK g \in Handlers : Step(g) \/ (\E h \in Headers : Announce(g, h)) \/ StoreFails(g)
    BY <1>5 DEF Next, ReliableNext
  <2> QED
    BY <1>1, <1>2, <1>3, <2>1, HeadersAssumption DEF Step
<1> QED
  BY <1>4, <1>5

\* The concurrent handlers implement the tree of headers and the buried
\* finalized block that ChainView describes, for every header tree, every
\* number of generations and every set of handlers.
THEOREM ViewTheorem == Spec => ImplementsChainView
<1>1. Init => View!ViewInit
  BY DEF Init, View!ViewInit
<1>2. IInv /\ [Next]_vars => [View!ViewNext]_<<stored, finalized>>
  BY ViewStep
<1> QED
  BY <1>1, <1>2, Invariance, PTL DEF Spec, ImplementsChainView, View!ViewSpec

\* Every variable keeps its type.
THEOREM TypeTheorem == Spec => []TypeOK
<1>1. IInv => TypeOK
  BY DEF IInv
<1> QED
  BY <1>1, Invariance, PTL

-----------------------------------------------------------------------------
(* The chain store and a block request served from it. *)

\* The elements of a sequence.
LEMMA MemberOfSeq ==
    ASSUME NEW S, NEW s \in Seq(S), NEW i \in 1..Len(s)
    PROVE  s[i] \in S
OBVIOUS

\* Append adds one element at the end.
LEMMA Appended ==
    ASSUME NEW S, NEW s \in Seq(S), NEW e \in S
    PROVE  /\ Append(s, e) \in Seq(S)
           /\ Len(Append(s, e)) = Len(s) + 1
           /\ Append(s, e)[Len(s) + 1] = e
           /\ \A i \in 1..Len(s) : Append(s, e)[i] = s[i]
OBVIOUS

\* Sequences with the same elements are equal.
LEMMA SameSeq ==
    ASSUME NEW S, NEW s \in Seq(S), NEW t \in Seq(S), Len(s) = Len(t),
           \A i \in 1..Len(s) : s[i] = t[i]
    PROVE  s = t
OBVIOUS

\* Where the line collected so far has come to.
LastOf(s) == IF Len(s) = 0 THEN request.start ELSE s[Len(s)]

\* The blocks collected are a line in the direction of the request.
IsLine(s) ==
    \A i \in 1..Len(s) :
        IF request.ascending
        THEN ParentHash[s[i]] = IF i = 1 THEN request.start ELSE s[i - 1]
        ELSE s[i] = IF i = 1 THEN request.start ELSE ParentHash[s[i - 1]]

\* b continues the line.
Continues(b) ==
    IF request.ascending THEN ParentHash[b] = LastOf(sequence)
    ELSE Len(sequence) > 0 /\ b = ParentHash[LastOf(sequence)]

\* No block stored when the request was made continues the line.
LineEnds ==
    IF request.ascending THEN \A b \in kept : ParentHash[b] # LastOf(sequence)
    ELSE ParentHash[LastOf(sequence)] \notin kept

\* The collected blocks are a line at every point of GetBlockSequence, the stream
\* carries a prefix of them, and the requester has all of them or nothing.
StoreIInv ==
    /\ StoreTypeOK
    /\ kept \subseteq blocks
    /\ client = "idle" => handler = "idle"
    /\ handler \in {"idle", "start"} => sequence = <<>> /\ current = request.start
    /\ handler # "writing" => wire = Silence
    /\ \A i \in 1..Len(sequence) : sequence[i] \in blocks
    /\ Len(sequence) <= request.max
    /\ IsLine(sequence)
    /\ handler = "loop" =>
         current \in blocks /\ ((sequence = <<>> /\ current = request.start) \/ Continues(current))
    /\ handler = "next" => Continues(current) /\ (request.ascending => current \in blocks)
    /\ handler \in {"reply", "writing"} => (Len(sequence) < request.max /\ ~cut => LineEnds)
    /\ handler = "writing" =>
         /\ wire.size = Len(sequence)
         /\ Len(wire.content) <= Len(sequence)
         /\ \A i \in 1..Len(wire.content) : wire.content[i] = sequence[i]
    /\ client = "answered" => handler = "writing" /\ answer = sequence

\* The first child by key is one of the children.
LEMMA FirstByKeyFacts ==
    ASSUME NEW S, S \subseteq Blocks, S # {}
    PROVE  FirstByKey(S) \in S
<1> DEFINE K == {KeyOrder[c] : c \in S}
<1>1. K \subseteq Nat /\ K # {}
  BY StoreAssumption
<1>2. PICK m \in K : \A n \in K : ~ (<<n, m>> \in OpToRel(<, Nat))
  BY <1>1, NatLessThanWellFounded, WFMin
<1>3. ASSUME NEW n \in K, n < m PROVE FALSE
  <2>1. <<n, m>> \in OpToRel(<, Nat)
    BY <1>1, <1>3 DEF OpToRel
  <2> QED BY <1>2, <2>1
<1>4. PICK c \in S : m = KeyOrder[c]
  OBVIOUS
<1>5. \A d \in S : KeyOrder[c] <= KeyOrder[d]
  BY <1>1, <1>3, <1>4
<1> QED BY <1>4, <1>5 DEF FirstByKey

\* The walk upwards does not come back to where it started: there are no cycles.
LEMMA NoReturn ==
    ASSUME StoreTypeOK, request.ascending, IsLine(sequence),
           NEW b \in Blocks, ParentHash[b] = LastOf(sequence)
    PROVE  b # request.start
<1> SUFFICES ASSUME b = request.start PROVE FALSE
  OBVIOUS
<1> DEFINE S == {sequence[i] : i \in 1..Len(sequence)} \cup {b}
<1>1. sequence \in Seq(Blocks) /\ Len(sequence) \in Nat
  BY DEF StoreTypeOK
<1>2. S \in SUBSET Blocks
  BY <1>1
<1>3. PICK c \in S : ParentHash[c] \notin S
  BY <1>2, StoreAssumption
<1>4. CASE c = b
  BY <1>1, <1>3, <1>4 DEF LastOf
<1>5. ASSUME NEW i \in 1..Len(sequence), c = sequence[i] PROVE FALSE
  <2>1. ParentHash[c] = IF i = 1 THEN b ELSE sequence[i - 1]
    BY <1>5 DEF IsLine
  <2>2. i # 1 => i - 1 \in 1..Len(sequence)
    BY <1>1
  <2> QED BY <1>3, <2>1, <2>2
<1> QED BY <1>4, <1>5

\* A line grows by a block that continues it.
LEMMA LineGrows ==
    ASSUME StoreTypeOK, IsLine(sequence), NEW b \in Blocks,
           \/ Continues(b)
           \/ sequence = <<>> /\ b = request.start /\ ~request.ascending
    PROVE  /\ Append(sequence, b) \in Seq(Blocks)
           /\ Len(Append(sequence, b)) = Len(sequence) + 1
           /\ LastOf(Append(sequence, b)) = b
           /\ IsLine(Append(sequence, b))
           /\ \A i \in 1..Len(sequence) : Append(sequence, b)[i] = sequence[i]
           /\ Append(sequence, b)[Len(sequence) + 1] = b
<1> DEFINE s == Append(sequence, b)
<1>1. sequence \in Seq(Blocks) /\ Len(sequence) \in Nat
  BY DEF StoreTypeOK
<1>2. /\ s \in Seq(Blocks) /\ Len(s) = Len(sequence) + 1 /\ s[Len(sequence) + 1] = b
      /\ \A i \in 1..Len(sequence) : s[i] = sequence[i]
  BY <1>1, Appended
<1> HIDE DEF s
<1>3. LastOf(s) = b
  BY <1>1, <1>2 DEF LastOf
<1>4. IsLine(s)
  <2> SUFFICES ASSUME NEW i \in 1..Len(s)
               PROVE  IF request.ascending
                      THEN ParentHash[s[i]] = IF i = 1 THEN request.start ELSE s[i - 1]
                      ELSE s[i] = IF i = 1 THEN request.start ELSE ParentHash[s[i - 1]]
    BY DEF IsLine
  <2>1. CASE i <= Len(sequence)
    <3>1. i \in 1..Len(sequence) /\ (i # 1 => i - 1 \in 1..Len(sequence))
      BY <1>1, <1>2, <2>1
    <3> QED BY <1>2, <3>1 DEF IsLine
  <2>2. CASE i = Len(sequence) + 1
    <3>1. s[i] = b /\ (i # 1 => i - 1 \in 1..Len(sequence) /\ i - 1 = Len(sequence))
      BY <1>1, <1>2, <2>2
    <3>2. i # 1 => s[i - 1] = LastOf(sequence)
      BY <1>1, <1>2, <2>2, <3>1 DEF LastOf
    <3>3. i = 1 <=> Len(sequence) = 0
      BY <1>1, <2>2
    <3>4. sequence = <<>> => Len(sequence) = 0
      OBVIOUS
    <3> QED BY <1>1, <3>1, <3>2, <3>3, <3>4 DEF Continues, LastOf
  <2> QED BY <1>1, <1>2, <2>1, <2>2
<1> QED BY <1>2, <1>3, <1>4 DEF s

\* An empty store is asked.
LEMMA StoreInitInvariant == StoreInit => StoreIInv
<1> SUFFICES ASSUME StoreInit PROVE StoreIInv
  OBVIOUS
<1>1. sequence = <<>> /\ Len(sequence) = 0 /\ sequence \in Seq(Blocks)
      /\ answer \in Seq(Blocks) /\ wire \in [size : Int, content : Seq(Blocks)]
  BY DEF StoreInit, Silence
<1>2. request \in Requests /\ request.max \in Nat
  BY StoreAssumption DEF StoreInit, Requests
<1>3. StoreTypeOK
  BY <1>1, <1>2, StoreAssumption DEF StoreInit, StoreTypeOK
<1> QED BY <1>1, <1>2, <1>3 DEF StoreInit, StoreIInv, IsLine

\* The parts of the invariant a step keeps that leaves the collected blocks and the
\* request alone.
LEMMA SameLine ==
    ASSUME sequence' = sequence, request' = request
    PROVE  /\ IsLine(sequence) => IsLine(sequence)'
           /\ LastOf(sequence)' = LastOf(sequence)
           /\ \A b : Continues(b) => Continues(b)'
           /\ kept' = kept => (LineEnds => LineEnds')
BY DEF IsLine, LastOf, Continues, LineEnds

\* Puts into the store, its closing, and the requester's side.
LEMMA OutsideStep ==
    ASSUME StoreIInv,
           \/ \E b \in Blocks : PutBlock(b)
           \/ Close
           \/ RequestBlocks
           \/ ReadAnswer
           \/ GiveUp
           \/ UNCHANGED storeVars
    PROVE  StoreIInv'
<1>1. /\ sequence' = sequence /\ request' = request /\ wire' = wire /\ current' = current
      /\ cut' = cut /\ blocks \subseteq blocks'
  BY DEF PutBlock, Close, RequestBlocks, ReadAnswer, GiveUp, storeVars, serving
<1>2. /\ IsLine(sequence) => IsLine(sequence)'
      /\ \A b : Continues(b) => Continues(b)'
      /\ kept' = kept => (LineEnds => LineEnds')
  BY <1>1, SameLine
<1>3. CASE \/ \E b \in Blocks : PutBlock(b)
           \/ Close
           \/ UNCHANGED storeVars
  <2>1. /\ UNCHANGED <<kept, client, handler, answer>>
        /\ blocks' \subseteq Blocks /\ closed' \in BOOLEAN
    BY <1>3 DEF PutBlock, Close, storeVars, StoreIInv, StoreTypeOK
  <2>2. StoreTypeOK'
    BY <1>1, <2>1 DEF StoreIInv, StoreTypeOK
  <2> QED BY <1>1, <1>2, <2>1, <2>2 DEF StoreIInv
<1>4. CASE RequestBlocks
  <2>1. /\ client = "idle" /\ client' = "waiting" /\ handler' = "start" /\ kept' = blocks
        /\ UNCHANGED <<blocks, closed, answer>>
    BY <1>4 DEF RequestBlocks
  <2>2. StoreTypeOK'
    BY <1>1, <2>1 DEF StoreIInv, StoreTypeOK
  <2>3. handler = "idle"
    BY <2>1 DEF StoreIInv
  <2> QED BY <1>1, <1>2, <2>1, <2>2, <2>3 DEF StoreIInv
<1>5. CASE ReadAnswer
  <2>1. /\ client = "waiting" /\ wire.size >= 0 /\ Len(wire.content) = wire.size
        /\ client' = "answered" /\ answer' = wire.content
        /\ UNCHANGED <<blocks, closed, handler, kept>>
    BY <1>5 DEF ReadAnswer
  <2>2. handler = "writing"
    BY <2>1 DEF StoreIInv, Silence
  <2>3. wire.content = sequence
    <3>1. /\ wire.content \in Seq(Blocks) /\ sequence \in Seq(Blocks)
          /\ Len(wire.content) = Len(sequence)
          /\ \A i \in 1..Len(wire.content) : wire.content[i] = sequence[i]
      BY <2>1, <2>2 DEF StoreIInv, StoreTypeOK
    <3> QED BY <3>1, SameSeq
  <2>4. StoreTypeOK'
    BY <1>1, <2>1 DEF StoreIInv, StoreTypeOK
  <2> QED BY <1>1, <1>2, <2>1, <2>2, <2>3, <2>4 DEF StoreIInv
<1>6. CASE GiveUp
  <2>1. client' = "failed" /\ UNCHANGED <<blocks, closed, handler, answer, kept>>
    BY <1>6 DEF GiveUp
  <2>2. StoreTypeOK'
    BY <1>1, <2>1 DEF StoreIInv, StoreTypeOK
  <2> QED BY <1>1, <1>2, <2>1, <2>2 DEF StoreIInv
<1> QED BY <1>3, <1>4, <1>5, <1>6

\* The steps of the handler that collect nothing.
LEMMA HandlerStep ==
    ASSUME StoreIInv, FindStart \/ GetFails \/ LoopEnds \/ GetNext \/ WriteSize \/ WriteBlock
    PROVE  StoreIInv'
<1>1. /\ sequence' = sequence /\ request' = request /\ current' = current /\ cut' = cut
      /\ UNCHANGED <<blocks, closed, client, answer, kept>>
  BY DEF FindStart, GetFails, LoopEnds, GetNext, WriteSize, WriteBlock, HandlerMoves, serving
<1>2. /\ IsLine(sequence) => IsLine(sequence)'
      /\ \A b : Continues(b) => Continues(b)'
      /\ LineEnds => LineEnds'
  BY <1>1, SameLine
<1>3. /\ client = "idle" => handler = "idle"
      /\ client = "answered" => handler = "writing" /\ answer = sequence
      /\ Len(sequence) \in Nat /\ request.max \in Nat
      /\ kept \subseteq blocks /\ Len(sequence) <= request.max
      /\ wire \in [size : Int, content : Seq(Blocks)]
  <2>1. request.max \in Nat
    BY StoreAssumption DEF StoreIInv, StoreTypeOK, Requests
  <2>2. Len(sequence) \in Nat /\ wire \in [size : Int, content : Seq(Blocks)]
    BY DEF StoreIInv, StoreTypeOK
  <2>3. /\ client = "idle" => handler = "idle"
        /\ client = "answered" => handler = "writing" /\ answer = sequence
    BY DEF StoreIInv
  <2>4. kept \subseteq blocks /\ Len(sequence) <= request.max
    BY DEF StoreIInv
  <2> QED BY <2>1, <2>2, <2>3, <2>4
<1>4. CASE FindStart \/ GetFails \/ LoopEnds \/ GetNext
  <2>1. /\ wire' = wire /\ handler \in {"start", "loop", "next"}
        /\ handler' \in {"loop", "failed", "reply"}
    BY <1>4 DEF FindStart, GetFails, LoopEnds, GetNext, HandlerMoves
  <2>2. StoreTypeOK'
    BY <1>1, <2>1 DEF StoreIInv, StoreTypeOK
  <2>3. handler' = "loop" => current \in blocks /\
           ((sequence = <<>> /\ current = request.start) \/ Continues(current))
    BY <1>4 DEF FindStart, GetFails, LoopEnds, GetNext, HandlerMoves, StoreIInv
  <2>4. handler' = "reply" /\ Len(sequence) < request.max => LineEnds
    <3>1. CASE LoopEnds
      BY <1>3, <3>1 DEF LoopEnds
    <3>2. CASE GetNext /\ handler' = "reply"
      <4>1. Continues(current) /\ current \notin blocks /\ ~request.ascending
        BY <3>2 DEF GetNext, HandlerMoves, StoreIInv
      <4> QED BY <1>3, <4>1 DEF Continues, LineEnds
    <3> QED BY <1>4, <3>1, <3>2 DEF FindStart, GetFails, HandlerMoves
  <2> QED BY <1>1, <1>2, <1>3, <2>1, <2>2, <2>3, <2>4 DEF StoreIInv
<1>5. CASE WriteSize
  <2>1. /\ handler = "reply" /\ handler' = "writing"
        /\ wire' = [wire EXCEPT !.size = Len(sequence)]
    BY <1>5 DEF WriteSize, HandlerMoves
  <2>2. wire' \in [size : Int, content : Seq(Blocks)] /\ wire'.size = Len(sequence)
        /\ wire'.content = <<>> /\ Len(wire'.content) = 0
    BY <1>3, <2>1 DEF StoreIInv, Silence
  <2>3. StoreTypeOK'
    BY <1>1, <2>1, <2>2 DEF StoreIInv, StoreTypeOK
  <2> QED BY <1>1, <1>2, <1>3, <2>1, <2>2, <2>3 DEF StoreIInv
<1>6. CASE WriteBlock
  <2> DEFINE n == Len(wire.content)
  <2>1. /\ handler = "writing" /\ handler' = "writing" /\ n < Len(sequence)
        /\ wire' = [wire EXCEPT !.content = Append(wire.content, sequence[n + 1])]
    BY <1>6 DEF WriteBlock, HandlerMoves
  <2>2. /\ wire.content \in Seq(Blocks) /\ n \in Nat /\ n + 1 \in 1..Len(sequence)
        /\ sequence \in Seq(Blocks)
    BY <1>3, <2>1 DEF StoreIInv, StoreTypeOK
  <2>3. sequence[n + 1] \in Blocks
    BY <2>2, MemberOfSeq
  <2> DEFINE c == Append(wire.content, sequence[n + 1])
  <2>4. /\ c \in Seq(Blocks) /\ Len(c) = n + 1 /\ c[n + 1] = sequence[n + 1]
        /\ \A i \in 1..n : c[i] = wire.content[i]
    BY <2>2, <2>3, Appended
  <2>5. /\ wire' \in [size : Int, content : Seq(Blocks)]
        /\ wire'.size = wire.size /\ wire'.content = c
    BY <1>3, <2>1, <2>4
  <2>6. \A i \in 1..n : wire.content[i] = sequence[i]
    BY <2>1 DEF StoreIInv
  <2> HIDE DEF c, n
  <2>7. Len(c) <= Len(sequence) /\ \A i \in 1..Len(c) : c[i] = sequence[i]
    BY <1>3, <2>2, <2>4, <2>6
  <2>8. StoreTypeOK'
    BY <1>1, <2>1, <2>5 DEF StoreIInv, StoreTypeOK
  <2> QED BY <1>1, <1>2, <1>3, <2>1, <2>5, <2>7, <2>8 DEF StoreIInv
<1> QED BY <1>4, <1>5, <1>6

\* The two iterations of GetBlockSequence.
LEMMA CollectStep ==
    ASSUME StoreIInv, Ascend \/ Descend
    PROVE  StoreIInv'
<1>1. /\ handler = "loop" /\ Len(sequence) < request.max /\ wire' = wire /\ request' = request
      /\ UNCHANGED <<blocks, closed, client, answer, kept>>
  BY DEF Ascend, Descend, HandlerMoves
<1>2. /\ StoreTypeOK /\ IsLine(sequence) /\ current \in blocks /\ current \in Blocks
      /\ sequence \in Seq(Blocks) /\ Len(sequence) \in Nat /\ request.max \in Nat
      /\ request.ascending \in BOOLEAN
      /\ (sequence = <<>> /\ current = request.start) \/ Continues(current)
      /\ client # "idle" /\ client # "answered" /\ wire = Silence
      /\ kept \subseteq blocks /\ blocks \subseteq Blocks
  <2>1. request.max \in Nat /\ request.ascending \in BOOLEAN
    BY StoreAssumption DEF StoreIInv, StoreTypeOK, Requests
  <2>2. /\ StoreTypeOK /\ sequence \in Seq(Blocks) /\ Len(sequence) \in Nat
        /\ blocks \subseteq Blocks
    BY DEF StoreIInv, StoreTypeOK
  <2> QED BY <1>1, <2>1, <2>2 DEF StoreIInv
<1> DEFINE longer == Append(sequence, current)
<1>3. CASE Ascend
  <2>1. PICK children \in FindChildren(current) :
          /\ cut' = (cut \/ children # Children(current))
          /\ current' = IF children = {} THEN current ELSE FirstByKey(children)
          /\ handler' = IF children = {} THEN "reply" ELSE "next"
    BY <1>3 DEF Ascend, HandlerMoves
  <2>2. request.ascending /\
        sequence' = IF current = request.start THEN sequence ELSE longer
    BY <1>3 DEF Ascend
  <2>3. children \subseteq Children(current)
    BY DEF FindChildren
  \* The line now ends with the block the iteration started from.
  <2>4. /\ sequence' \in Seq(Blocks) /\ Len(sequence') <= request.max
        /\ IsLine(sequence') /\ LastOf(sequence') = current
        /\ \A i \in 1..Len(sequence') : sequence'[i] \in blocks
    <3>1. CASE current = request.start
      <4>1. sequence = <<>>
        BY <1>2, <2>2, <3>1, NoReturn DEF Continues
      <4> QED BY <1>1, <1>2, <2>2, <3>1, <4>1 DEF LastOf
    <3>2. CASE current # request.start
      <4>1. Continues(current) /\ sequence' = longer
        BY <1>2, <2>2, <3>2
      <4>2. /\ longer \in Seq(Blocks) /\ Len(longer) = Len(sequence) + 1
            /\ LastOf(longer) = current /\ IsLine(longer)
            /\ \A i \in 1..Len(sequence) : longer[i] = sequence[i]
            /\ longer[Len(sequence) + 1] = current
        BY <1>2, <4>1, LineGrows
      <4>4. \A i \in 1..Len(longer) : longer[i] \in blocks
        BY <1>2, <4>2 DEF StoreIInv
      <4>5. Len(longer) <= request.max
        BY <1>1, <1>2, <4>2
      <4> HIDE DEF longer
      <4> QED BY <4>1, <4>2, <4>4, <4>5
    <3> QED BY <3>1, <3>2
  <2>5. IsLine(sequence)' /\ LastOf(sequence)' = current
    BY <1>1, <2>4 DEF IsLine, LastOf
  <2>6. StoreTypeOK'
    BY <1>1, <1>2, <2>1, <2>4, ZenonT(60) DEF StoreTypeOK
  <2>7. CASE children = {}
    <3>1. handler' = "reply" /\ (~cut' => Children(current) = {})
      BY <2>1, <2>7, ZenonT(60)
    <3>2. ~cut' => LineEnds'
      BY <1>1, <1>2, <2>2, <2>5, <3>1 DEF LineEnds, Children
    <3> QED BY <1>1, <1>2, <2>4, <2>5, <2>6, <3>1, <3>2 DEF StoreIInv
  <2>8. CASE children # {}
    <3>1. handler' = "next" /\ current' \in Children(current)
      <4>1. children \subseteq Blocks
        BY <1>2, <2>3 DEF Children
      <4> QED BY <2>1, <2>3, <2>8, <4>1, FirstByKeyFacts
    <3>2. Continues(current)' /\ current' \in blocks'
      BY <1>1, <2>2, <2>5, <3>1 DEF Continues, Children
    <3> QED BY <1>1, <1>2, <2>4, <2>5, <2>6, <3>1, <3>2 DEF StoreIInv
  <2> QED BY <2>7, <2>8
<1>4. CASE Descend
  <2>1. /\ ~request.ascending /\ sequence' = longer /\ current' = ParentHash[current]
        /\ handler' = "next" /\ cut' = cut
    BY <1>4 DEF Descend, HandlerMoves
  <2>2. /\ longer \in Seq(Blocks) /\ Len(longer) = Len(sequence) + 1
        /\ LastOf(longer) = current /\ IsLine(longer)
        /\ \A i \in 1..Len(sequence) : longer[i] = sequence[i]
        /\ longer[Len(sequence) + 1] = current
    BY <1>2, <2>1, LineGrows
  <2>4. \A i \in 1..Len(longer) : longer[i] \in blocks
    BY <1>2, <2>2 DEF StoreIInv
  <2> HIDE DEF longer
  <2>5. IsLine(sequence)' /\ LastOf(sequence)' = current
    BY <1>1, <2>1, <2>2 DEF IsLine, LastOf
  <2>6. Continues(current)'
    BY <1>1, <1>2, <2>1, <2>2, <2>5 DEF Continues
  <2>7. StoreTypeOK'
    BY <1>1, <1>2, <2>1, <2>2 DEF StoreTypeOK
  <2>8. Len(sequence') <= request.max
    BY <1>1, <1>2, <2>1, <2>2
  <2> QED BY <1>1, <1>2, <2>1, <2>4, <2>5, <2>6, <2>7, <2>8 DEF StoreIInv
<1> QED BY <1>3, <1>4

\* Every step preserves the invariant.
LEMMA StoreStepInvariant == StoreIInv /\ [StoreNext]_storeVars => StoreIInv'
BY OutsideStep, HandlerStep, CollectStep DEF StoreNext, ServeStep

\* The collected blocks are a line of the chain all through a request.
THEOREM StoreInvariance == StoreSpec => []StoreIInv
BY StoreInitInvariant, StoreStepInvariant, PTL DEF StoreSpec

\* A block request is answered with a line of the chain or not at all, for every
\* tree of blocks, every order of keys and every number of blocks asked for: blocks
\* put meanwhile, failing reads and a breaking stream cannot tear it.
THEOREM AnswersTheorem == StoreSpec => []AnswersAreLines
<1>1. StoreIInv => AnswersAreLines
  <2> SUFFICES ASSUME StoreIInv, client = "answered" PROVE AnswersAreLines
    BY DEF AnswersAreLines
  <2>1. handler = "writing" /\ answer = sequence
    BY DEF StoreIInv
  <2>2. /\ Len(sequence) <= request.max /\ IsLine(sequence)
        /\ \A i \in 1..Len(sequence) : sequence[i] \in blocks
        /\ Len(sequence) < request.max /\ ~cut => LineEnds
    BY <2>1 DEF StoreIInv
  <2> QED BY <2>1, <2>2, ZenonT(60) DEF AnswersAreLines, IsLine, LineEnds, LastOf
<1> QED BY <1>1, StoreInvariance, PTL
=============================================================================
