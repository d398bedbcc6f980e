----------------------------- MODULE FlowLists -----------------------------
(***************************************************************************)
(* What the pointers of one hash bucket stand for: a list of chains that   *)
(* push_record extends and export_timeout_flows takes chains out of.       *)
(***************************************************************************)
EXTENDS Bucket

CONSTANT Records          \* [flow, len, sec]

VARIABLE chains

Init == chains = <<>>

Push(rec)  == chains' = PushRecord(chains, rec)
Export(i) == chains' = Unlink(chains, i)

Next == \/ \E rec \in Records : Push(rec)
        \/ \E i \in DOMAIN chains : Export(i)

Spec == Init /\ [][Next]_chains
=============================================================================
