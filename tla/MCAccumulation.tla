---------------------------- MODULE MCAccumulation ----------------------------
(***************************************************************************)
(* Instances of the two parts of accumulation, of which one moves.         *)
(*                                                                         *)
(* Accumulation: a chain of three packages, c after b after a, and d,      *)
(* which depends on nothing.                                               *)
(*                                                                         *)
(* Accumulator: three services before the block, two of them with code,    *)
(* and one that service 1 creates.  Service 1 is also the manager and      *)
(* blesses service 2 as its successor and itself as the two others.  The   *)
(* lists hold one round with both programs, several rounds with a service  *)
(* that keeps its code from one to the next, and a report too large.       *)
(***************************************************************************)
EXTENDS Accumulation, Accumulator

VARIABLE part  \* "queue" or "rounds"

MCDeps == [p \in Packages |->
    CASE p = "b" -> {"a"} [] p = "c" -> {"a", "b"} [] OTHER -> {}]
MCReportGas == [p \in Packages |-> 2]
MCReportLists == {<<>>, <<"a">>, <<"b">>, <<"c">>, <<"d", "a">>, <<"b", "c">>, <<"a", "b">>}

MCIds == 1..4
MCExisting == 1..3
MCWithCode == {1, 2}
MCRoundLists ==
  {<<(1 :> 2 @@ 2 :> 1), (2 :> 2)>>,
   <<(1 :> 3), (1 :> 2), (3 :> 1)>>,
   <<(1 :> 2), (1 :> 6)>>,
   <<(1 :> 5)>>}
\* No privileged gas: the instance on which GasWithinLimit is refuted.
MCNoGas == {<<>>}
MCGasMaps == {<<>>, (2 :> 2) @@ (3 :> 1), (1 :> 1)}
MCBlessing ==
  1 :> [manager |-> 2, assign |-> 1, designate |-> 1, gas |-> (1 :> 2)]
MCNewServices == (1 :> {4}) @@ [s \in MCIds |-> {}]
MCTransfers == (1 :> <<2, 3, 2>>) @@ (2 :> <<3>>) @@ [s \in MCIds |-> <<>>]
MCYielding == {1, 2}

\* SequentialDelta has returned at once.
RoundsOver ==
  /\ phase = "returned" /\ pending = <<>> /\ gasLimit = 0 /\ batch = <<>>
  /\ services = Existing /\ coded = WithCode /\ gasOf = <<>>
  /\ privileged = [manager |-> Manager, assign |-> Assign, designate |-> Designate]
  /\ storage = [s \in Ids |-> 0]
  /\ pc = <<>> /\ loaded = <<>> /\ merged = Nothing
  /\ setBy = [field \in {"privileged", "keys", "queues"} |-> "initial"]
  /\ output = [transfers |-> <<>>, pairs |-> <<>>]
  /\ runs = [s \in Ids |-> 0] /\ burnt = 0

MCInit ==
  /\ Init
  /\ \/ part = "queue" /\ RoundsOver
     \/ part = "rounds" /\ RoundsInit

MCNext ==
  \/ part = "queue" /\ Next /\ UNCHANGED <<part, roundsVars>>
  \/ part = "rounds" /\ RoundsNext /\ UNCHANGED <<part, vars>>

MCSpec ==
  /\ MCInit /\ [][MCNext]_<<part, vars, roundsVars>>
  /\ RoundsFairness
=============================================================================
