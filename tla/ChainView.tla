------------------------------ MODULE ChainView ------------------------------
(***************************************************************************)
(* What the block service promises whoever reads the chain from it: a tree *)
(* of headers that grows by one header at a time, each on a parent already *)
(* in the tree, and a finalized block that is buried under Generations     *)
(* headers of that tree whenever it is named.  There are no handlers here, *)
(* no walks and no failures; BlockService.tla is shown to implement this.  *)
(***************************************************************************)
EXTENDS Naturals

CONSTANTS Headers, Genesis, Parent, Generations

VARIABLES
    stored,     \* the tree
    finalized   \* the block everybody may rely on

ViewInit == stored = {Genesis} /\ finalized = Genesis

Import(h) ==
    /\ h \notin stored
    /\ Parent[h] \in stored
    /\ stored' = stored \cup {h}
    /\ UNCHANGED finalized

\* b has a line of n descendants in the tree, each the child of the one before.
Buried(b, n) ==
    \E p \in [0..n -> stored] :
        p[n] = b /\ \A i \in 1..n : p[i] = Parent[p[i-1]]

Finalize(b) ==
    /\ finalized' = b
    /\ UNCHANGED stored
    /\ Buried(b, Generations)

ViewNext ==
    \/ \E h \in Headers : Import(h)
    \/ \E b \in stored : Finalize(b)

ViewSpec == ViewInit /\ [][ViewNext]_<<stored, finalized>>
=============================================================================
