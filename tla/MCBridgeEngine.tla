---------------------------- MODULE MCBridgeEngine ----------------------------
(* Instances of BridgeEngine for TLC. *)
EXTENDS BridgeEngine

CONSTANTS w1, m1

MCManagerOf == [w \in {w1} |-> m1]

=============================================================================
