---------------------------- MODULE MCPipeline ----------------------------
(***************************************************************************)
(* Pipeline with two parsers and a pool of three packets: every thread but *)
(* one can own a packet while the pool is empty.                           *)
(***************************************************************************)
EXTENDS Pipeline, TLC

CONSTANTS k1, k2, k3, p1, p2

MCPackets == {k1, k2, k3}
MCParsers == {p1, p2}

Symmetry == Permutations(MCPackets) \cup Permutations(MCParsers)
=============================================================================
