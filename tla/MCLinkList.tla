----------------------------- MODULE MCLinkList -----------------------------
(* Two lists of one or of two threads.                                       *)
EXTENDS LinkList
OneThread == [l \in Lists |-> "t1"]
LongAndShort == [l \in Lists |-> IF l = "a" THEN 3 ELSE 2]
OneAndTwo == [l \in Lists |-> IF l = "a" THEN 1 ELSE 2]
TwoThreads == [l \in Lists |-> IF l = "a" THEN "t1" ELSE "t2"]
=============================================================================
