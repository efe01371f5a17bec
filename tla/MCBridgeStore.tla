---------------------------- MODULE MCBridgeStore ----------------------------
(* Instances of BridgeStore for TLC.                                       *)
EXTENDS BridgeStore, TLC

CONSTANTS o1, mcp1, mcp2
MCOne == {o1}
MCCallers == {mcp1, mcp2}

\* A review has its update to pass through; the others are done in fewer events.
MCEvents == [k \in Kinds |-> IF k = "review" THEN 5 ELSE 4]
MCSymmetry == Permutations(MCCallers)
==============================================================================
