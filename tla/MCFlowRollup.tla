---------------------------- MODULE MCFlowRollup ----------------------------
(* A small instance of FlowRollup: three label combinations of one source and *)
(* one of another.                                                            *)
EXTENDS FlowRollup

MCKeys == 1..4

MCSource(k) == IF k = 4 THEN "zenarmor" ELSE "netflow"

\* A top-1 that turns over, a top-2 under a key cap of 3, and no bounds at all.
MCBounds == {<<1, 0>>, <<2, 3>>, <<0, 0>>}
=============================================================================
