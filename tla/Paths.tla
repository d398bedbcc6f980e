------------------------------- MODULE Paths -------------------------------
(***************************************************************************)
(* Where a pointer leads, and the elements of a sequence at some of its    *)
(* positions.                                                              *)
(***************************************************************************)
EXTENDS Integers, Sequences, FiniteSets

NULL == 0

\* The nodes that next, a pointer of every node, leads through from start, in
\* order; at most as many as there are, should they form a ring.
Follow(next, start) ==
    LET path[k \in 0 .. Cardinality(DOMAIN next)] ==
          [n \in DOMAIN next \cup {NULL} |->
             IF k = 0 \/ n = NULL THEN <<>> ELSE <<n>> \o path[k - 1][next[n]]]
    IN  path[Cardinality(DOMAIN next)][start]

\* The members of a set of positions, ascending.
InOrder(I) ==
    CHOOSE p \in [1 .. Cardinality(I) -> I] : \A j, k \in DOMAIN p : j < k => p[j] < p[k]

\* The elements of s at the positions I.
Those(s, I) == LET p == InOrder(I) IN [k \in DOMAIN p |-> s[p[k]]]

\* The numbers from 1 to n that are in I, ascending.
Selected(n, I) ==
    LET selected[i \in 0 .. n] ==
          IF i = 0 THEN <<>>
          ELSE IF i \in I THEN Append(selected[i - 1], i) ELSE selected[i - 1]
    IN  selected[n]

\* Sums(s)[i] is the sum of the first i numbers of s.
Sums(s) == LET sum[i \in 0 .. Len(s)] == IF i = 0 THEN 0 ELSE sum[i - 1] + s[i]
           IN  sum

\* Sequences one behind the other.
Joined(parts) ==
    LET joined[i \in 0 .. Len(parts)] == IF i = 0 THEN <<>> ELSE joined[i - 1] \o parts[i]
    IN  joined[Len(parts)]
=============================================================================
