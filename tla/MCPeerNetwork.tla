---------------------------- MODULE MCPeerNetwork ----------------------------
(* Small peer networks. *)
EXTENDS PeerNetwork, TLC

CONSTANTS a, b, d, ta, tb, td, p1, p2

MCTwoHomes == (ta :> a) @@ (tb :> b)

MCThreeHomes == (ta :> a) @@ (tb :> b) @@ (td :> d)
=============================================================================
