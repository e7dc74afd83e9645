-------------------------- MODULE MCFlowCorrelator --------------------------
(* A small instance of FlowCorrelator: conversation 1 with a fragment of each *)
(* half, a second one of the reverse half and a conn document; conversation 2 *)
(* with one fragment; conversation 3 with a conn document alone.              *)
EXTENDS FlowCorrelator

CONSTANTS d1, d2, h1, ticker, owner

Frag(id, key, half, start, seen) ==
    [id |-> id, key |-> key, half |-> half, start |-> start, seen |-> seen,
     dir |-> IF half = "fwd" THEN "outbound" ELSE "inbound"]

\* The reverse half's second fragment starts before every other one, and was
\* held: it carries the earliest arrival stamp whenever it is observed.
MCFragments ==
    {Frag(1, 1, "fwd", 2, 2), Frag(2, 1, "rev", 3, 3), Frag(3, 1, "rev", 1, 1),
     Frag(4, 2, "fwd", 2, 2)}

Doc(id, key, dir, seen) == [id |-> id, key |-> key, dir |-> dir, seen |-> seen]

MCConnDocs == {Doc(5, 1, "inbound", 2), Doc(6, 3, "unknown", 1)}
=============================================================================
