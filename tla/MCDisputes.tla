----------------------------- MODULE MCDisputes -----------------------------
(***************************************************************************)
(* Instances of Disputes: two reports, keys 1 to 3 of validators and a key *)
(* 4 of none; six validators, so that a verdict has five judgements.       *)
(***************************************************************************)
EXTENDS Disputes

MCValidatorKeys == [n \in 0..MaxEpoch + 1 |-> {1, 2, 3}]

Verdict(r, e, p) == [report |-> r, epoch |-> e, positive |-> p, ok |-> TRUE]
Culprit(r, k) == [report |-> r, key |-> k, ok |-> TRUE]
Fault(r, k, b) == [report |-> r, key |-> k, vote |-> b, ok |-> TRUE]

VerdictLists ==
    {<<>>}
    \cup {<<Verdict(r, e, p)>> : r \in {1, 2}, e \in 0..MaxEpoch + 1, p \in {0, 2, 3, 5}}
    \cup {<<Verdict(1, e, p), Verdict(2, e, q)>> : e \in 0..MaxEpoch, p \in {0, 2, 5}, q \in {0, 5}}
    \cup {<<Verdict(1, 0, 2), Verdict(1, 0, 5)>>,
          <<[report |-> 1, epoch |-> 0, positive |-> 5, ok |-> FALSE]>>}

CulpritLists ==
    {<<>>, <<Culprit(1, 1), Culprit(1, 2)>>, <<Culprit(1, 1), Culprit(2, 3)>>,
     <<Culprit(2, 1), Culprit(2, 3)>>, <<Culprit(2, 3), Culprit(2, 4)>>,
     <<Culprit(2, 3), Culprit(1, 3)>>}

FaultLists ==
    {<<>>} \cup {<<Fault(r, 1, b)>> : r \in {1, 2}, b \in BOOLEAN}
    \cup {<<Fault(1, 2, FALSE), Fault(2, 3, FALSE)>>, <<Fault(1, 2, FALSE), Fault(2, 2, FALSE)>>,
          <<[report |-> 1, key |-> 2, vote |-> FALSE, ok |-> FALSE]>>}

MCExtrinsics == [verdicts : VerdictLists, culprits : CulpritLists, faults : FaultLists]
=============================================================================
