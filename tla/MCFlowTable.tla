---------------------------- MODULE MCFlowTable ----------------------------
(***************************************************************************)
(* FlowTable with three flows, up to four nodes and five packets.          *)
(***************************************************************************)
EXTENDS FlowTable

CONSTANTS f1, f2, f3

MCRecords == [flow : {f1, f2, f3}, len : {1}, sec : {1}]
             \cup [flow : {f1}, len : {2}, sec : {2}]
=============================================================================
