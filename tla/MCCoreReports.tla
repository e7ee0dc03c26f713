---------------------------- MODULE MCCoreReports ----------------------------
(***************************************************************************)
(* Instances of CoreReports: two cores, three validators, packages p1, p2  *)
(* and p3, of which p2 depends on p1.                                      *)
(***************************************************************************)
EXTENDS CoreReports

MCPrereqs == [p \in Packages |-> IF p = "p2" THEN {"p1"} ELSE {}]

G(c, p, a) == [core |-> c, pkg |-> p, age |-> a, anchorAge |-> a + 2, sound |-> TRUE]
Old(c, p) == [core |-> c, pkg |-> p, age |-> 0, anchorAge |-> 4, sound |-> TRUE]
A(i, bits) == [index |-> i, bits |-> bits, sound |-> TRUE]

MCGuaranteeLists ==
    {<<>>, <<G(1, "p1", 0), G(2, "p2", 0)>>, <<G(2, "p2", 0), G(1, "p1", 0)>>,
     <<G(1, "p1", 0), G(2, "p1", 0)>>, <<G(1, "p1", 3)>>, <<Old(2, "p3")>>,
     <<[core |-> 1, pkg |-> "p1", age |-> 0, anchorAge |-> 2, sound |-> FALSE]>>}
    \cup {<<G(c, p, 1)>> : c \in Cores, p \in Packages}

\* Three validators, of which all must assure; the fourth list counts one twice.
MCAssuranceLists ==
    {<<>>, <<A(0, {1}), A(1, {1}), A(2, {1})>>, <<A(0, {1, 2}), A(1, {1, 2}), A(2, {2})>>,
     <<A(0, {2}), A(0, {2}), A(1, {2})>>, <<A(1, {1}), A(0, {1})>>,
     <<[index |-> 0, bits |-> {1}, sound |-> FALSE]>>}

\* Without an index given twice.
StrictAssuranceLists ==
    {as \in MCAssuranceLists : \A i, j \in DOMAIN as : i # j => as[i].index # as[j].index}

MCVerdictSets == {{}, {"p1"}}
=============================================================================
