---------------------------- MODULE MCScanIndex ----------------------------
(***************************************************************************)
(* ScanIndex on small instances: two parsers, two index threads, three     *)
(* packets of two flows that share a bucket or not.                        *)
(***************************************************************************)
EXTENDS ScanIndex, TLC

CONSTANTS f1, f2, c1, c2, p1, p2

MCFlows   == {f1, f2}
MCCodes   == {c1, c2}
MCParsers == {p1, p2}
MCOneHash == (f1 :> 0 @@ f2 :> 0)
MCTwoHash == (f1 :> 0 @@ f2 :> 1)

P(f, l, s) == [flow |-> f, len |-> l, sec |-> s]

\* Two packets of one flow around one of another; and a trace whose packets
\* can fill three data files, so that a file name is used again.
MCTraces == {<<P(f1, 1, 1), P(f2, 2, 1), P(f1, 1, 3)>>,
             <<P(f1, 2, 1), P(f2, 2, 1), P(f2, 2, 2), P(f1, 1, 3)>>}
\* One packet of each flow: two data files, or one and both flows in one batch of a
\* full linkNodePool.
MCShort  == {<<P(f1, 2, 1), P(f2, 2, 2)>>, <<P(f1, 1, 1), P(f2, 1, 2)>>}

\* The first file nearly full, then a flow of several packets.
MCWrap   == {<<P(f1, 12, 1), P(f2, 3, 2), P(f2, 3, 2)>>}

Symmetry == Permutations(MCCodes) \cup Permutations(MCParsers)
=============================================================================
