----------------------------- MODULE MCSafrole -----------------------------
(***************************************************************************)
(* Instances of Safrole: epochs of four slots, the first three for         *)
(* submission; two validators out of three keys.                           *)
(***************************************************************************)
EXTENDS BlockSeal

MCValidatorSets == {<<"k1", "k2">>, <<"k3", "k2">>}
MCOffenderLists == {{}, {"k2"}}

Proof(i) == [id |-> i, attempt |-> i \div 3, ok |-> TRUE]

\* Proofs that verify, alone, in pairs in either order, and enough of them to
\* fill the accumulator; and one extrinsic for each other reason to be refused:
\* too many, attempt too high, bad signature.
MCProofLists ==
    {<<>>} \cup {<<Proof(i)>> : i \in {1, 3}}
    \cup {<<Proof(i), Proof(j)>> : i \in {2, 4}, j \in {2, 3, 5}}
    \cup {<<Proof(1), Proof(2), Proof(3)>>, <<Proof(1), Proof(2), Proof(3), Proof(4)>>,
          <<[id |-> 1, attempt |-> 2, ok |-> TRUE]>>,
          <<[id |-> 1, attempt |-> 0, ok |-> FALSE]>>}
=============================================================================
