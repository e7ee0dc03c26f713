---------------------------- MODULE MCGuarantors ----------------------------
(***************************************************************************)
(* Instances of Guarantors and of RecentHistory, of which one moves: two   *)
(* cores, four validators, epochs of two rotations, pools of two           *)
(* authorizers; seven blocks of which the state keeps three.               *)
(***************************************************************************)
EXTENDS Guarantors, RecentHistory

VARIABLE part  \* "guarantors" or "history"

MCPrereqs == [p \in Packages |-> {}]

\* Different entropies permute the validators differently.
MCRandomNumbers(e) == [i \in 1..V |-> (e + 8) \div i]

MCPools == [c \in Cores |-> IF c = 0 THEN <<"a", "b">> ELSE <<"b">>]

\* The second queue is what an accumulation assigned to core 0.
MCQueue == [c \in Cores |-> [i \in 0..QueueSize - 1 |-> IF i = c THEN Empty ELSE "a"]]
MCQueueChoices == {MCQueue, [MCQueue EXCEPT ![0][0] = "b"]}

Offer(c, a, h) == [core |-> c, age |-> a, auth |-> h]
MCOffers == {Offer(0, 0, "a"), Offer(0, 1, "b"), Offer(0, 2, "a"), Offer(0, 3, "a"),
             Offer(1, 1, "b"), Offer(1, 2, "a")}
MCSigners == {p \in (0..V - 1) \X (0..V - 1) : p[1] < p[2]} \cup {<<1, 0>>}

\* Nothing accumulated, and two services in either order.
MCPairLists == {<<>>, <<<<1, "x">>, <<2, "y">>>>, <<<<2, "y">>, <<1, "x">>>>}
MCClaimedRoots == {<<"s1">>, <<"s2">>}

MCInit ==
    /\ GuarantorInit
    /\ HistoryInit
    /\ part \in {"guarantors", "history"}

MCNext ==
    \/ part = "guarantors" /\ GuarantorNext /\ UNCHANGED <<part, historyVars>>
    \/ part = "history" /\ HistoryNext /\ UNCHANGED <<part, guarantorVars>>

MCSpec == MCInit /\ [][MCNext]_<<part, guarantorVars, historyVars>>
=============================================================================
