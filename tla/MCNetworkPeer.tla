--------------------------- MODULE MCNetworkPeer ---------------------------
(* Instances of NetworkPeer for TLC. *)
EXTENDS NetworkPeer, TLC

CONSTANTS c1, c2, c3, none

TwoConns   == {c1, c2}
ThreeConns == {c1, c2, c3}
=============================================================================
