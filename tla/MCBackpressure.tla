--------------------------- MODULE MCBackpressure ---------------------------
(***************************************************************************)
(* Backpressure with two flows in two buckets and two parsers.             *)
(***************************************************************************)
EXTENDS Backpressure

CONSTANTS f1, f2, p1, p2
MCFlows    == {f1, f2}
MCParsers  == {p1, p2}
MCBucketOf == [f \in MCFlows |-> IF f = f1 THEN 1 ELSE 2]
=============================================================================
