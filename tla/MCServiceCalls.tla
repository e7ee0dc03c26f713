---------------------------- MODULE MCServiceCalls ----------------------------
(***************************************************************************)
(* The preimages of a service and the context of its host calls, side by   *)
(* side: a behaviour belongs to one of the two models, and the other stays *)
(* in an initial state.                                                    *)
(*                                                                         *)
(* Preimages has two hashes and two lengths; the expulsion period is two   *)
(* slots and the chain runs over six, so that a preimage can be supplied,  *)
(* forgotten, solicited again and forgotten again.                         *)
(*                                                                         *)
(* AccumulateContext has six service indices, so that the bumped index     *)
(* wraps around and meets accounts already there; a balance that covers    *)
(* two new services and one of two storage items; runs of up to MaxCalls   *)
(* host calls.                                                             *)
(***************************************************************************)
EXTENDS Preimages, AccumulateContext

CONSTANTS h1, h2

MCHashes == {h1, h2}
MCRealLength == [h \in MCHashes |-> 1]

VARIABLE part  \* the model that the behaviour belongs to

MCInit ==
  /\ part \in {"preimages", "context"}
  /\ Init
  /\ ContextInit
  /\ part = "context" => slot = 0

MCNext ==
  /\ \/ part = "preimages" /\ Next /\ UNCHANGED contextVars
     \/ part = "context" /\ ContextNext /\ UNCHANGED vars
  /\ UNCHANGED part

MCSpec == MCInit /\ [][MCNext]_<<vars, contextVars, part>>

=============================================================================
