-------------------------- MODULE FlowTableProofs --------------------------
(***************************************************************************)
(* Theorems about one hash bucket's pointers: which chains they stand for, *)
(* that the tails and the counters fit them, and that push_record and the  *)
(* export of a chain do what FlowLists says.                               *)
(***************************************************************************)
EXTENDS FlowTable, DataLemmas

-----------------------------------------------------------------------------
(* Following a pointer *)

\* No path is longer than there are nodes.
LEMMA PathLength ==
    ASSUME NEW s \in Seq(Nodes), \A i, j \in 1 .. Len(s) : s[i] = s[j] => i = j
    PROVE  Len(s) \in 0 .. MaxNodes
<1>1. IsFiniteSet(Nodes) /\ Cardinality(Nodes) = MaxNodes /\ MaxNodes \in Nat
  BY FlowTableAssumption, CardinalityUpTo DEF Nodes
<1>2. Len(s) \in Nat /\ Len(s) <= Cardinality(Nodes)
  BY <1>1, OnceLength
<1> QED BY <1>1, <1>2

\* Follow finds the list that next leads through.
LEMMA FollowNodes ==
    ASSUME NEW next \in [Nodes -> Pointer], NEW start, NEW s \in Seq(Nodes),
           \A i, j \in 1 .. Len(s) : s[i] = s[j] => i = j,
           start = IF s = <<>> THEN NULL ELSE s[1],
           \A i \in 1 .. Len(s) : next[s[i]] = IF i < Len(s) THEN s[i + 1] ELSE NULL
    PROVE  Follow(next, start) = s
<1>1. IsFiniteSet(Nodes) /\ NULL \notin Nodes /\ Pointer = Nodes \cup {NULL}
  BY FlowTableAssumption, CardinalityUpTo DEF Nodes, NULL, Pointer
<1>2. DOMAIN next = Nodes
  OBVIOUS
<1>3. IsPath(next, start, s)
  BY <1>2 DEF IsPath
<1> QED BY <1>1, <1>3, FollowPath

-----------------------------------------------------------------------------
(* The chains of a bucket *)

Typed(heap) == DOMAIN heap \subseteq Nodes /\ heap \in [DOMAIN heap -> LinkNode]

\* hs are the heads of the bucket at h and cs[i] is the chain of hs[i].
Linear(h, heap, hs, cs) ==
    /\ h = IF Len(hs) = 0 THEN NULL ELSE hs[1]
    /\ \A i \in 1 .. Len(hs) :
          heap[hs[i]].nextlink = IF i < Len(hs) THEN hs[i + 1] ELSE NULL
    /\ \A i \in 1 .. Len(hs) : Len(cs[i]) > 0 /\ cs[i][1] = hs[i]
    /\ \A i \in 1 .. Len(hs) : \A k \in 1 .. Len(cs[i]) :
          heap[cs[i][k]].nextdata = IF k < Len(cs[i]) THEN cs[i][k + 1] ELSE NULL

\* No node is on two chains or twice on one.
Disjoint(hs, cs) ==
    \A i, j \in 1 .. Len(hs) : \A k \in 1 .. Len(cs[i]), l \in 1 .. Len(cs[j]) :
       cs[i][k] = cs[j][l] => i = j /\ k = l

\* The nodes on the chains are the nodes that exist, but for those that were lost.
Covering(heap, hs, cs, lost) ==
    /\ lost \subseteq DOMAIN heap
    /\ \A i \in 1 .. Len(hs) : \A k \in 1 .. Len(cs[i]) :
          cs[i][k] \in DOMAIN heap /\ cs[i][k] \notin lost
    /\ \A n \in DOMAIN heap \ lost :
          \E i \in 1 .. Len(hs) : \E k \in 1 .. Len(cs[i]) : cs[i][k] = n

Tails(heap, hs, cs) ==
    \A i \in 1 .. Len(hs) : heap[hs[i]].tail = cs[i][Len(cs[i])]

Lengths(hs, cs) ==
    /\ hs \in Seq(Nodes) /\ cs \in Seq(Seq(Nodes))
    /\ Len(cs) = Len(hs)

Shape(h, heap, hs, cs, lost) ==
    /\ Lengths(hs, cs) /\ Linear(h, heap, hs, cs) /\ Disjoint(hs, cs)
    /\ Covering(heap, hs, cs, lost) /\ Tails(heap, hs, cs)

\* What the lengths and types amount to, element by element.
LEMMA ShapeTypes ==
    ASSUME NEW hs, NEW cs, Lengths(hs, cs)
    PROVE  /\ Len(hs) \in Nat /\ Len(cs) = Len(hs)
           /\ \A i \in 1 .. Len(hs) :
                 /\ hs[i] \in Nodes /\ cs[i] \in Seq(Nodes) /\ Len(cs[i]) \in Nat
                 /\ \A k \in 1 .. Len(cs[i]) : cs[i][k] \in Nodes
           /\ DOMAIN hs = 1 .. Len(hs) /\ DOMAIN cs = 1 .. Len(hs)
           /\ NULL \notin Nodes
<1>1. Len(hs) \in Nat /\ Len(cs) = Len(hs) /\ DOMAIN hs = 1 .. Len(hs) /\ DOMAIN cs = 1 .. Len(hs)
  BY LenProperties DEF Lengths
<1>2. \A i \in 1 .. Len(hs) : hs[i] \in Nodes /\ cs[i] \in Seq(Nodes)
  BY ElementOfSeq DEF Lengths
<1>3. ASSUME NEW i \in 1 .. Len(hs)
      PROVE  Len(cs[i]) \in Nat /\ \A k \in 1 .. Len(cs[i]) : cs[i][k] \in Nodes
  BY <1>2, LenProperties, ElementOfSeq
<1>4. NULL \notin Nodes
  BY FlowTableAssumption DEF NULL, Nodes
<1> QED BY <1>1, <1>2, <1>3, <1>4

\* The model's operators find the heads and the chains of a shape.
LEMMA ShapeFollows ==
    ASSUME NEW lost, NEW h, NEW heap, NEW hs, NEW cs, Typed(heap), Shape(h, heap, hs, cs, lost)
    PROVE  /\ Heads(h, heap) = hs
           /\ \A i \in 1 .. Len(hs) : ChainOf(hs[i], heap) = cs[i]
<1>1. /\ NextLink(heap) \in [Nodes -> Pointer] /\ NextData(heap) \in [Nodes -> Pointer]
      /\ \A n \in DOMAIN heap : /\ NextLink(heap)[n] = heap[n].nextlink
                                /\ NextData(heap)[n] = heap[n].nextdata
  <2>1. \A n \in DOMAIN heap : /\ heap[n].nextlink \in Pointer
                               /\ heap[n].nextdata \in Pointer
                               /\ n \in Nodes
    BY DEF Typed, LinkNode
  <2>2. NULL \in Pointer
    BY DEF Pointer
  <2> QED BY <2>1, <2>2 DEF NextLink, NextData
<1>2. /\ Len(hs) \in Nat /\ hs \in Seq(Nodes)
      /\ \A i \in 1 .. Len(hs) :
            /\ cs[i] \in Seq(Nodes) /\ Len(cs[i]) \in Nat /\ Len(cs[i]) > 0
            /\ cs[i][1] = hs[i] /\ 1 \in 1 .. Len(cs[i])
            /\ hs[i] \in DOMAIN heap
            /\ \A k \in 1 .. Len(cs[i]) : cs[i][k] \in DOMAIN heap
  <2>1. Len(hs) \in Nat /\ hs \in Seq(Nodes)
    BY ShapeTypes DEF Shape, Lengths
  <2>2. \A i \in 1 .. Len(hs) : cs[i] \in Seq(Nodes) /\ Len(cs[i]) \in Nat
    BY ShapeTypes DEF Shape
  <2>3. \A i \in 1 .. Len(hs) : Len(cs[i]) > 0 /\ cs[i][1] = hs[i]
    BY DEF Shape, Linear
  <2>4. \A i \in 1 .. Len(hs) : \A k \in 1 .. Len(cs[i]) : cs[i][k] \in DOMAIN heap
    BY DEF Shape, Covering
  <2>5. \A i \in 1 .. Len(hs) : 1 \in 1 .. Len(cs[i])
    BY <2>2, <2>3
  <2> QED BY <2>1, <2>2, <2>3, <2>4, <2>5
<1>3. \A i, j \in 1 .. Len(hs) : hs[i] = hs[j] => i = j
  <2> TAKE i, j \in 1 .. Len(hs)
  <2>1. cs[i][1] = hs[i] /\ cs[j][1] = hs[j] /\ 1 \in 1 .. Len(cs[i]) /\ 1 \in 1 .. Len(cs[j])
    BY <1>2
  <2> QED BY <2>1 DEF Shape, Disjoint
<1>4. Heads(h, heap) = hs
  <2>1. h = IF hs = <<>> THEN NULL ELSE hs[1]
    BY <1>2, EmptySeq DEF Shape, Linear
  <2>2. \A i \in 1 .. Len(hs) :
           NextLink(heap)[hs[i]] = IF i < Len(hs) THEN hs[i + 1] ELSE NULL
    BY <1>1, <1>2 DEF Shape, Linear
  <2> QED BY <1>1, <1>2, <1>3, <2>1, <2>2, FollowNodes DEF Heads
<1>5. ASSUME NEW i \in 1 .. Len(hs) PROVE ChainOf(hs[i], heap) = cs[i]
  <2>1. cs[i] # <<>> /\ hs[i] = cs[i][1]
    BY <1>2, EmptySeq
  <2>2. \A k \in 1 .. Len(cs[i]) :
           NextData(heap)[cs[i][k]] = IF k < Len(cs[i]) THEN cs[i][k + 1] ELSE NULL
    BY <1>1, <1>2 DEF Shape, Linear
  <2>3. \A k, l \in 1 .. Len(cs[i]) : cs[i][k] = cs[i][l] => k = l
    BY DEF Shape, Disjoint
  <2> DEFINE c == cs[i]
             head == hs[i]
             next == NextData(heap)
  <2>4. /\ c \in Seq(Nodes) /\ next \in [Nodes -> Pointer]
        /\ \A k, l \in 1 .. Len(c) : c[k] = c[l] => k = l
        /\ head = IF c = <<>> THEN NULL ELSE c[1]
        /\ \A k \in 1 .. Len(c) : next[c[k]] = IF k < Len(c) THEN c[k + 1] ELSE NULL
    BY <1>1, <1>2, <2>1, <2>2, <2>3
  <2> HIDE DEF c, head, next
  <2>5. Follow(next, head) = c
    BY <2>4, FollowNodes
  <2> QED BY <2>5 DEF c, head, next, ChainOf
<1> QED BY <1>4, <1>5

-----------------------------------------------------------------------------
(* What the steps do to a shape *)

\* A new flow: its node goes in front, alone on its chain.
LEMMA NewShape ==
    ASSUME NEW lost, NEW h, NEW heap, NEW hs, NEW cs, Shape(h, heap, hs, cs, lost),
           NEW cur \in Nodes \ DOMAIN heap, NEW heap2,
           DOMAIN heap2 = DOMAIN heap \cup {cur},
           heap2[cur].nextlink = h, heap2[cur].nextdata = NULL, heap2[cur].tail = cur,
           \A m \in DOMAIN heap : heap2[m] = heap[m]
    PROVE  Shape(cur, heap2, <<cur>> \o hs, <<<<cur>>>> \o cs, lost)
<1> DEFINE n == Len(hs)
           hs2 == <<cur>> \o hs
           cs2 == <<<<cur>>>> \o cs
<1>0. /\ n \in Nat /\ Len(cs) = n
      /\ \A i \in 1 .. n : hs[i] \in Nodes /\ Len(cs[i]) \in Nat
  BY ShapeTypes DEF Shape
<1>1. /\ hs2 \in Seq(Nodes) /\ Len(hs2) = n + 1
      /\ \A i \in 1 .. n + 1 : hs2[i] = IF i = 1 THEN cur ELSE hs[i - 1]
  <2>1. cur \in Nodes /\ hs \in Seq(Nodes)
    BY DEF Shape, Lengths
  <2> QED BY <2>1, PrependAt
<1>2. /\ cs2 \in Seq(Seq(Nodes)) /\ Len(cs2) = n + 1
      /\ \A i \in 1 .. n + 1 : cs2[i] = IF i = 1 THEN <<cur>> ELSE cs[i - 1]
  <2> DEFINE one == <<cur>>
  <2>1. one \in Seq(Nodes) /\ cs \in Seq(Seq(Nodes))
    BY DEF Shape, Lengths
  <2> HIDE DEF one
  <2>2. /\ <<one>> \o cs \in Seq(Seq(Nodes)) /\ Len(<<one>> \o cs) = n + 1
        /\ \A i \in 1 .. n + 1 : (<<one>> \o cs)[i] = IF i = 1 THEN one ELSE cs[i - 1]
    BY <1>0, <2>1, PrependAt
  <2> QED BY <2>2 DEF one
<1>3. \A i \in 1 .. n + 1 : i # 1 => i - 1 \in 1 .. n
  BY <1>0
<1>4. \A i \in 1 .. n : i + 1 \in 1 .. n + 1 /\ i + 1 # 1 /\ i + 1 - 1 = i
  BY <1>0
<1>5. Len(<<cur>>) = 1 /\ <<cur>>[1] = cur /\ 1 \in 1 .. n + 1
  BY <1>0
<1> DEFINE one == <<cur>>
<1> HIDE DEF hs2, cs2, n, one
<1>6. Lengths(hs2, cs2)
  BY <1>1, <1>2 DEF Lengths
<1>7. /\ hs2[1] = cur /\ cs2[1] = one /\ Len(one) = 1 /\ one[1] = cur
      /\ \A i \in 1 .. n : hs2[i + 1] = hs[i] /\ cs2[i + 1] = cs[i]
  BY <1>0, <1>1, <1>2, <1>4, <1>5 DEF one
<1>8. \A i \in 1 .. n : /\ hs[i] \in DOMAIN heap
                        /\ \A k \in 1 .. Len(cs[i]) : cs[i][k] \in DOMAIN heap
                        /\ Len(cs[i]) > 0 /\ cs[i][1] = hs[i]
  <2>1. \A i \in 1 .. n : /\ \A k \in 1 .. Len(cs[i]) : cs[i][k] \in DOMAIN heap
                          /\ Len(cs[i]) > 0 /\ cs[i][1] = hs[i]
    BY DEF Shape, Linear, Covering, n
  <2> QED BY <1>0, <2>1
<1>9. \A i \in 1 .. n + 1 : i = 1 \/ \E j \in 1 .. n : i = j + 1
  BY <1>0
<1>10. Linear(cur, heap2, hs2, cs2)
  <2>1. cur = IF Len(hs2) = 0 THEN NULL ELSE hs2[1]
    BY <1>0, <1>1, <1>7
  <2>2. ASSUME NEW i \in 1 .. n + 1
        PROVE  heap2[hs2[i]].nextlink = IF i < n + 1 THEN hs2[i + 1] ELSE NULL
    <3>1. CASE i = 1
      <4>1. h = IF n = 0 THEN NULL ELSE hs[1]
        BY DEF Shape, Linear, n
      <4>2. n # 0 => 1 \in 1 .. n /\ hs2[1 + 1] = hs[1]
        BY <1>0, <1>7
      <4> QED BY <1>0, <1>7, <3>1, <4>1, <4>2
    <3>2. ASSUME NEW j \in 1 .. n, i = j + 1
          PROVE  heap2[hs2[i]].nextlink = IF i < n + 1 THEN hs2[i + 1] ELSE NULL
      <4>1. heap[hs[j]].nextlink = IF j < n THEN hs[j + 1] ELSE NULL
        BY DEF Shape, Linear, n
      <4>2. j < n => j + 1 \in 1 .. n /\ hs2[j + 1 + 1] = hs[j + 1]
        BY <1>0, <1>7
      <4>3. hs2[i] = hs[j] /\ heap2[hs[j]] = heap[hs[j]] /\ (i < n + 1) = (j < n)
        BY <1>0, <1>7, <1>8, <3>2
      <4> QED BY <3>2, <4>1, <4>2, <4>3
    <3> QED BY <1>9, <3>1, <3>2
  <2>3. \A i \in 1 .. n + 1 : Len(cs2[i]) > 0 /\ cs2[i][1] = hs2[i]
    BY <1>7, <1>8, <1>9
  <2>4. ASSUME NEW i \in 1 .. n + 1, NEW k \in 1 .. Len(cs2[i])
        PROVE  heap2[cs2[i][k]].nextdata = IF k < Len(cs2[i]) THEN cs2[i][k + 1] ELSE NULL
    <3>1. CASE i = 1
      <4>1. Len(cs2[i]) = 1
        BY <1>7, <3>1
      <4>2. k = 1
        BY <4>1
      <4> QED BY <1>7, <3>1, <4>1, <4>2
    <3>2. ASSUME NEW j \in 1 .. n, i = j + 1
          PROVE  heap2[cs2[i][k]].nextdata = IF k < Len(cs2[i]) THEN cs2[i][k + 1] ELSE NULL
      <4>1. cs2[i] = cs[j] /\ k \in 1 .. Len(cs[j])
        BY <1>7, <3>2
      <4>2. heap[cs[j][k]].nextdata = IF k < Len(cs[j]) THEN cs[j][k + 1] ELSE NULL
        BY <4>1 DEF Shape, Linear, n
      <4> QED BY <1>8, <4>1, <4>2
    <3> QED BY <1>9, <3>1, <3>2
  <2> QED BY <1>1, <2>1, <2>2, <2>3, <2>4 DEF Linear
<1>11. Disjoint(hs2, cs2)
  <2> SUFFICES ASSUME NEW i \in 1 .. n + 1, NEW j \in 1 .. n + 1,
                      NEW k \in 1 .. Len(cs2[i]), NEW l \in 1 .. Len(cs2[j]),
                      cs2[i][k] = cs2[j][l]
               PROVE  i = j /\ k = l
    BY <1>1 DEF Disjoint
  <2>1. \A a, b \in 1 .. n : \A x \in 1 .. Len(cs[a]), y \in 1 .. Len(cs[b]) :
           cs[a][x] = cs[b][y] => a = b /\ x = y
    BY DEF Shape, Disjoint, n
  <2>2. \A a \in 1 .. n : \A x \in 1 .. Len(cs[a]) : cs[a][x] # cur
    BY <1>8
  <2>3. CASE i = 1 /\ j = 1
    BY <1>7, <2>3
  <2>4. CASE i = 1 /\ j # 1
    BY <1>7, <1>9, <2>2, <2>4
  <2>5. CASE i # 1 /\ j = 1
    BY <1>7, <1>9, <2>2, <2>5
  <2>6. CASE i # 1 /\ j # 1
    BY <1>7, <1>9, <2>1, <2>6
  <2> QED BY <2>3, <2>4, <2>5, <2>6
<1>12. Covering(heap2, hs2, cs2, lost)
  <2>0. /\ lost \subseteq DOMAIN heap
        /\ \A i \in 1 .. n : \A k \in 1 .. Len(cs[i]) : cs[i][k] \notin lost
    BY DEF Shape, Covering, n
  <2>1. \A i \in 1 .. n + 1 : \A k \in 1 .. Len(cs2[i]) :
           cs2[i][k] \in DOMAIN heap2 /\ cs2[i][k] \notin lost
    <3>1. cur \notin lost
      BY <2>0
    <3> QED BY <1>7, <1>8, <1>9, <2>0, <3>1
  <2>2. ASSUME NEW m \in DOMAIN heap2 \ lost
        PROVE  \E i \in 1 .. n + 1 : \E k \in 1 .. Len(cs2[i]) : cs2[i][k] = m
    <3>1. CASE m = cur
      <4>1. 1 \in 1 .. Len(cs2[1]) /\ cs2[1][1] = m
        BY <1>7, <3>1
      <4> QED BY <1>5, <4>1
    <3>2. CASE m \in DOMAIN heap
      <4>1. PICK i \in 1 .. n : \E k \in 1 .. Len(cs[i]) : cs[i][k] = m
        BY <3>2 DEF Shape, Covering, n
      <4>2. cs2[i + 1] = cs[i] /\ i + 1 \in 1 .. n + 1
        BY <1>4, <1>7
      <4> QED BY <4>1, <4>2
    <3> QED BY <3>1, <3>2
  <2> QED BY <1>1, <2>0, <2>1, <2>2 DEF Covering
<1>13. Tails(heap2, hs2, cs2)
  <2>1. ASSUME NEW i \in 1 .. n + 1 PROVE heap2[hs2[i]].tail = cs2[i][Len(cs2[i])]
    <3>1. CASE i = 1
      BY <1>7, <3>1
    <3>2. ASSUME NEW j \in 1 .. n, i = j + 1
          PROVE  heap2[hs2[i]].tail = cs2[i][Len(cs2[i])]
      <4>1. heap[hs[j]].tail = cs[j][Len(cs[j])]
        BY DEF Shape, Tails, n
      <4> QED BY <1>7, <1>8, <3>2, <4>1
    <3> QED BY <1>9, <3>1, <3>2
  <2> QED BY <1>1, <2>1 DEF Tails
<1> QED BY <1>6, <1>10, <1>11, <1>12, <1>13 DEF Shape, hs2, cs2

\* A packet of a known flow: its node goes behind the last of the chain.
LEMMA LinkShape ==
    ASSUME NEW lost, NEW h, NEW heap, NEW hs, NEW cs, Shape(h, heap, hs, cs, lost),
           NEW cur \in Nodes \ DOMAIN heap, NEW i \in 1 .. Len(hs), NEW heap2,
           DOMAIN heap2 = DOMAIN heap \cup {cur}, heap2[cur].nextdata = NULL,
           \A m \in DOMAIN heap :
              /\ heap2[m].nextlink = heap[m].nextlink
              /\ heap2[m].nextdata = IF m = heap[hs[i]].tail THEN cur ELSE heap[m].nextdata
              /\ heap2[m].tail = IF m = hs[i] THEN cur ELSE heap[m].tail
    PROVE  Shape(h, heap2, hs, [cs EXCEPT ![i] = Append(cs[i], cur)], lost)
<1> DEFINE n == Len(hs)
           c2 == Append(cs[i], cur)
           cs2 == [cs EXCEPT ![i] = c2]
           z == Len(cs[i])
<1>0. /\ n \in Nat /\ Len(cs) = n
      /\ \A j \in 1 .. n : cs[j] \in Seq(Nodes) /\ Len(cs[j]) \in Nat
  BY ShapeTypes DEF Shape
<1>1. /\ c2 \in Seq(Nodes) /\ Len(c2) = z + 1 /\ c2[z + 1] = cur
      /\ \A k \in 1 .. z : c2[k] = cs[i][k]
  <2>1. cs[i] \in Seq(Nodes) /\ cur \in Nodes
    BY <1>0
  <2> QED BY <2>1, AppendProperties
<1> HIDE DEF c2
<1>2. Lengths(hs, cs2) /\ Len(cs2) = n
      /\ \A j \in 1 .. n : cs2[j] = IF j = i THEN c2 ELSE cs[j]
  <2>1. cs \in Seq(Seq(Nodes)) /\ hs \in Seq(Nodes) /\ i \in 1 .. Len(cs)
    BY <1>0 DEF Shape, Lengths
  <2>2. /\ cs2 \in Seq(Seq(Nodes)) /\ Len(cs2) = Len(cs)
        /\ \A j \in 1 .. Len(cs) : cs2[j] = IF j = i THEN c2 ELSE cs[j]
    BY <1>1, <2>1, ExceptSeq
  <2> HIDE DEF cs2
  <2> QED BY <1>0, <2>1, <2>2 DEF Lengths
<1> HIDE DEF cs2
<1>3. \A j \in 1 .. n : /\ hs[j] \in DOMAIN heap
                        /\ \A k \in 1 .. Len(cs[j]) : cs[j][k] \in DOMAIN heap
                        /\ Len(cs[j]) > 0 /\ cs[j][1] = hs[j]
  <2>1. \A j \in 1 .. n : /\ \A k \in 1 .. Len(cs[j]) : cs[j][k] \in DOMAIN heap
                          /\ Len(cs[j]) > 0 /\ cs[j][1] = hs[j]
    BY DEF Shape, Linear, Covering
  <2> QED BY <1>0, <2>1
<1>4. z \in Nat /\ z > 0 /\ heap[hs[i]].tail = cs[i][z]
  BY <1>0, <1>3 DEF Shape, Tails
<1>5. \A a, b \in 1 .. n : \A x \in 1 .. Len(cs[a]), y \in 1 .. Len(cs[b]) :
         cs[a][x] = cs[b][y] => a = b /\ x = y
  BY DEF Shape, Disjoint
<1>6. /\ cs2[i] = c2 /\ cs2[i][1] = hs[i] /\ Len(cs2[i]) = z + 1
      /\ cs2[i][z + 1] = cur /\ \A k \in 1 .. z : cs2[i][k] = cs[i][k]
      /\ \A j \in 1 .. n : j # i => cs2[j] = cs[j]
  BY <1>1, <1>2, <1>3, <1>4
<1> HIDE DEF n, z
<1>7. \A k \in 1 .. z + 1 : k = z + 1 \/ k \in 1 .. z
  BY <1>4
<1>8. i \in 1 .. n
  BY DEF n
<1>9. Linear(h, heap2, hs, cs2)
  <2>1. h = IF n = 0 THEN NULL ELSE hs[1]
    BY DEF Shape, Linear, n
  <2>2. \A j \in 1 .. n :
           heap2[hs[j]].nextlink = IF j < n THEN hs[j + 1] ELSE NULL
    BY <1>3 DEF Shape, Linear, n
  <2>3. \A j \in 1 .. n : Len(cs2[j]) > 0 /\ cs2[j][1] = hs[j]
    BY <1>3, <1>4, <1>6
  <2>4. ASSUME NEW j \in 1 .. n, NEW k \in 1 .. Len(cs2[j])
        PROVE  heap2[cs2[j][k]].nextdata = IF k < Len(cs2[j]) THEN cs2[j][k + 1] ELSE NULL
    <3>1. CASE j = i /\ k = z + 1
      <4>1. cs2[j][k] = cur /\ ~(k < Len(cs2[j]))
        BY <1>4, <1>6, <3>1
      <4> QED BY <4>1
    <3>2. CASE j = i /\ k \in 1 .. z
      <4>1. heap[cs[i][k]].nextdata = IF k < z THEN cs[i][k + 1] ELSE NULL
        BY <1>8, <3>2 DEF Shape, Linear, n, z
      <4>2. (cs[i][k] = cs[i][z]) = (k = z)
        BY <1>4, <1>5, <1>8, <3>2 DEF z
      <4>3. /\ cs2[j][k] = cs[i][k] /\ k < Len(cs2[j]) /\ cs[i][k] \in DOMAIN heap
            /\ (k < z => k + 1 \in 1 .. z /\ cs2[j][k + 1] = cs[i][k + 1])
            /\ (~(k < z) => k = z)
        BY <1>3, <1>4, <1>6, <1>8, <3>2 DEF z
      <4> QED BY <1>4, <1>6, <3>2, <4>1, <4>2, <4>3
    <3>3. CASE j # i
      <4>1. cs2[j] = cs[j] /\ k \in 1 .. Len(cs[j]) /\ cs[j][k] \in DOMAIN heap
        BY <1>3, <1>6, <3>3
      <4>2. heap[cs[j][k]].nextdata = IF k < Len(cs[j]) THEN cs[j][k + 1] ELSE NULL
        BY <4>1 DEF Shape, Linear, n
      <4>3. cs[j][k] # cs[i][z]
        BY <1>4, <1>5, <1>8, <3>3, <4>1 DEF z
      <4> QED BY <1>4, <4>1, <4>2, <4>3
    <3>4. j = i => k \in 1 .. z + 1
      BY <1>6
    <3> QED BY <1>7, <3>1, <3>2, <3>3, <3>4
  <2> QED BY <2>1, <2>2, <2>3, <2>4 DEF Linear, n
<1>10. \A j \in 1 .. n : \A k \in 1 .. Len(cs2[j]) :
          \/ j = i /\ k = z + 1 /\ cs2[j][k] = cur
          \/ /\ k \in 1 .. Len(cs[j]) /\ cs2[j][k] = cs[j][k] /\ cs[j][k] # cur
             /\ cs[j][k] \in DOMAIN heap
  BY <1>3, <1>6, <1>7, <1>8, SMTT(60) DEF z
<1>11. Disjoint(hs, cs2)
  <2> SUFFICES ASSUME NEW a \in 1 .. n, NEW b \in 1 .. n,
                      NEW x \in 1 .. Len(cs2[a]), NEW y \in 1 .. Len(cs2[b]),
                      cs2[a][x] = cs2[b][y]
               PROVE  a = b /\ x = y
    BY DEF Disjoint, n
  <2> QED BY <1>5, <1>10, SMTT(60)
<1>12. Covering(heap2, hs, cs2, lost)
  <2>0. /\ lost \subseteq DOMAIN heap
        /\ \A j \in 1 .. n : \A k \in 1 .. Len(cs[j]) : cs[j][k] \notin lost
    BY DEF Shape, Covering, n
  <2>1. \A j \in 1 .. n : \A k \in 1 .. Len(cs2[j]) :
           cs2[j][k] \in DOMAIN heap2 /\ cs2[j][k] \notin lost
    <3>1. cur \notin lost
      BY <2>0
    <3> QED BY <1>10, <2>0, <3>1
  <2>2. ASSUME NEW m \in DOMAIN heap2 \ lost
        PROVE  \E j \in 1 .. n : \E k \in 1 .. Len(cs2[j]) : cs2[j][k] = m
    <3>1. CASE m = cur
      <4>1. z + 1 \in 1 .. Len(cs2[i]) /\ cs2[i][z + 1] = m
        BY <1>4, <1>6, <3>1
      <4> QED BY <1>8, <4>1
    <3>2. CASE m \in DOMAIN heap
      <4>1. PICK j \in 1 .. n : \E k \in 1 .. Len(cs[j]) : cs[j][k] = m
        BY <3>2 DEF Shape, Covering, n
      <4>2. PICK k \in 1 .. Len(cs[j]) : cs[j][k] = m
        BY <4>1
      <4>3. k \in 1 .. Len(cs2[j]) /\ cs2[j][k] = m
        BY <1>4, <1>6, <4>2 DEF z
      <4> QED BY <4>3
    <3> QED BY <3>1, <3>2
  <2> QED BY <2>0, <2>1, <2>2 DEF Covering, n
<1>13. Tails(heap2, hs, cs2)
  <2>1. \A j \in 1 .. n : (hs[j] = hs[i]) = (j = i)
    <3>1. \A j \in 1 .. n : cs[j][1] = hs[j] /\ 1 \in 1 .. Len(cs[j])
      BY <1>0, <1>3 DEF n
    <3> QED BY <1>5, <1>8, <3>1
  <2>2. \A j \in 1 .. n : heap[hs[j]].tail = cs[j][Len(cs[j])]
    BY DEF Shape, Tails, n
  <2>3. ASSUME NEW j \in 1 .. n PROVE heap2[hs[j]].tail = cs2[j][Len(cs2[j])]
    BY <1>3, <1>6, <2>1, <2>2
  <2> QED BY <2>3 DEF Tails, n
<1> QED BY <1>2, <1>9, <1>11, <1>12, <1>13 DEF Shape, cs2, c2

\* p trades chains for one another: chain j of cs2 is head j followed by what
\* follows head p[j] in cs.
Trade(hs, cs, cs2, p) ==
    /\ p \in [1 .. Len(hs) -> 1 .. Len(hs)]
    /\ \A j \in 1 .. Len(hs) : p[p[j]] = j
    /\ \A j \in 1 .. Len(hs) :
          /\ Len(cs2[j]) = Len(cs[p[j]])
          /\ \A k \in 1 .. Len(cs2[j]) : cs2[j][k] = IF k = 1 THEN hs[j] ELSE cs[p[j]][k]

\* Chains that trade what is behind their heads stay disjoint.
LEMMA TradeDisjoint ==
    ASSUME NEW lost, NEW h, NEW heap, NEW hs, NEW cs, Shape(h, heap, hs, cs, lost),
           NEW cs2, NEW p, Trade(hs, cs, cs2, p)
    PROVE  Disjoint(hs, cs2)
<1> SUFFICES ASSUME NEW a \in 1 .. Len(hs), NEW b \in 1 .. Len(hs),
                    NEW x \in 1 .. Len(cs2[a]), NEW y \in 1 .. Len(cs2[b]),
                    cs2[a][x] = cs2[b][y]
             PROVE  a = b /\ x = y
  BY DEF Disjoint
<1>1. \A i, j \in 1 .. Len(hs) : \A k \in 1 .. Len(cs[i]) : \A l \in 1 .. Len(cs[j]) :
         cs[i][k] = cs[j][l] => i = j /\ k = l
  BY DEF Shape, Disjoint
<1>2. \A j \in 1 .. Len(hs) : p[j] \in 1 .. Len(hs) /\ p[p[j]] = j
  BY DEF Trade
<1>3. \A j \in 1 .. Len(hs) : cs[j][1] = hs[j] /\ 1 \in 1 .. Len(cs[j])
  BY ShapeTypes DEF Shape, Linear
<1>4. \A j \in 1 .. Len(hs) : \A k \in 1 .. Len(cs2[j]) :
         \/ k = 1 /\ cs2[j][k] = hs[j]
         \/ k # 1 /\ k \in 1 .. Len(cs[p[j]]) /\ cs2[j][k] = cs[p[j]][k]
  BY DEF Trade
<1>5. PICK i \in 1 .. Len(hs) :
         /\ i = (IF x = 1 THEN a ELSE p[a])
         /\ x \in 1 .. Len(cs[i]) /\ cs2[a][x] = cs[i][x]
  <2>1. CASE x = 1
    BY <2>1, <1>2, <1>3, <1>4
  <2>2. CASE x # 1
    BY <2>2, <1>2, <1>3, <1>4
  <2> QED BY <2>1, <2>2
<1>6. PICK j \in 1 .. Len(hs) :
         /\ j = (IF y = 1 THEN b ELSE p[b])
         /\ y \in 1 .. Len(cs[j]) /\ cs2[b][y] = cs[j][y]
  <2>1. CASE y = 1
    BY <2>1, <1>2, <1>3, <1>4
  <2>2. CASE y # 1
    BY <2>2, <1>2, <1>3, <1>4
  <2> QED BY <2>1, <2>2
<1>7. i = j /\ x = y
  <2>1. cs[i][x] = cs[j][y] /\ x \in 1 .. Len(cs[i]) /\ y \in 1 .. Len(cs[j])
    BY <1>5, <1>6
  <2> QED BY <1>1, <2>1
<1>8. CASE x = 1
  BY <1>5, <1>6, <1>7, <1>8
<1>9. CASE x # 1
  <2>1. p[a] = p[b]
    BY <1>5, <1>6, <1>7, <1>9
  <2>2. p[p[a]] = a /\ p[p[b]] = b
    BY <1>2
  <2> QED BY <1>7, <2>1, <2>2
<1> QED BY <1>8, <1>9

\* Each head in hs gets the contents of its partner in p, with a tail that was its
\* own turned back; the links and all other nodes stay.
HeadsTraded(heap2, heap, hs, p) ==
    /\ DOMAIN heap2 = DOMAIN heap
    /\ \A j \in 1 .. Len(hs) :
          /\ heap2[hs[j]].nextlink = heap[hs[j]].nextlink
          /\ heap2[hs[j]].nextdata = heap[hs[p[j]]].nextdata
          /\ heap2[hs[j]].data = heap[hs[p[j]]].data
          /\ heap2[hs[j]].tail = IF heap[hs[p[j]]].tail = hs[p[j]] THEN hs[j]
                                 ELSE heap[hs[p[j]]].tail
    /\ \A m \in DOMAIN heap :
          (\A j \in 1 .. Len(hs) : m # hs[j]) => heap2[m] = heap[m]

\* p trades the heads of chains for one another: head j takes over what head
\* p[j] held and the rest of its chain, and a tail that pointed to that head
\* itself points to head j.
LEMMA TradeShape ==
    ASSUME NEW lost, NEW h, NEW heap, NEW hs, NEW cs, Shape(h, heap, hs, cs, lost),
           NEW cs2, Lengths(hs, cs2), NEW p, Trade(hs, cs, cs2, p),
           NEW heap2, HeadsTraded(heap2, heap, hs, p)
    PROVE  Shape(h, heap2, hs, cs2, lost)
<1> USE DEF HeadsTraded
<1> DEFINE n == Len(hs)
<1>0. /\ n \in Nat
      /\ \A j \in 1 .. n : /\ p[j] \in 1 .. n /\ p[p[j]] = j /\ Len(cs[j]) \in Nat
                           /\ Len(cs2[j]) = Len(cs[p[j]])
                           /\ \A k \in 1 .. Len(cs2[j]) :
                                 cs2[j][k] = IF k = 1 THEN hs[j] ELSE cs[p[j]][k]
  BY ShapeTypes DEF Shape, Trade
<1>1. \A j \in 1 .. n : \A k \in 1 .. Len(cs[j]) : cs[j][k] \in DOMAIN heap
  BY DEF Shape, Covering
<1>2. \A j \in 1 .. n : Len(cs[j]) > 0 /\ cs[j][1] = hs[j]
  BY DEF Shape, Linear
<1>3. \A j \in 1 .. n : 1 \in 1 .. Len(cs[j]) /\ Len(cs[j]) \in 1 .. Len(cs[j])
                        /\ 1 \in 1 .. Len(cs2[j]) /\ hs[j] \in DOMAIN heap
  BY <1>0, <1>1, <1>2
<1>4. \A a, b \in 1 .. n : \A x \in 1 .. Len(cs[a]), y \in 1 .. Len(cs[b]) :
         cs[a][x] = cs[b][y] => a = b /\ x = y
  BY DEF Shape, Disjoint
<1>5. \A j \in 1 .. n : \A k \in 1 .. Len(cs2[j]) :
         \/ k = 1 /\ cs2[j][k] = hs[j]
         \/ k # 1 /\ k \in 1 .. Len(cs[p[j]]) /\ cs2[j][k] = cs[p[j]][k]
  BY <1>0
<1>6. ASSUME NEW j \in 1 .. n, NEW k \in 1 .. Len(cs[j]), k # 1
      PROVE  /\ \A q \in 1 .. n : cs[j][k] # hs[q]
             /\ heap2[cs[j][k]] = heap[cs[j][k]]
  <2>1. \A q \in 1 .. n : cs[j][k] # cs[q][1]
    BY <1>3, <1>4, <1>6
  <2>2. \A q \in 1 .. n : cs[j][k] # hs[q]
    BY <1>2, <2>1
  <2>3. cs[j][k] \in DOMAIN heap
    BY <1>1
  <2> QED BY <2>2, <2>3
<1>7. \A a, b \in 1 .. n : hs[a] = hs[b] => a = b
  BY <1>2, <1>3, <1>4
<1>8. \A j \in 1 .. n : \A k \in 1 .. Len(cs[j]) :
         heap[cs[j][k]].nextdata = IF k < Len(cs[j]) THEN cs[j][k + 1] ELSE NULL
  BY DEF Shape, Linear
<1>9. Linear(h, heap2, hs, cs2)
  <2>1. h = IF n = 0 THEN NULL ELSE hs[1]
    BY DEF Shape, Linear
  <2>2. \A j \in 1 .. n : heap2[hs[j]].nextlink = IF j < n THEN hs[j + 1] ELSE NULL
    BY DEF Shape, Linear
  <2>3. \A j \in 1 .. n : Len(cs2[j]) > 0 /\ cs2[j][1] = hs[j]
    BY <1>0, <1>2, <1>3
  <2>4. ASSUME NEW j \in 1 .. n, NEW k \in 1 .. Len(cs2[j])
        PROVE  heap2[cs2[j][k]].nextdata = IF k < Len(cs2[j]) THEN cs2[j][k + 1] ELSE NULL
    <3>1. Len(cs2[j]) = Len(cs[p[j]]) /\ p[j] \in 1 .. n /\ k \in 1 .. Len(cs[p[j]])
          /\ Len(cs[p[j]]) \in Nat
      BY <1>0
    <3>2. k < Len(cs2[j]) =>
             k + 1 \in 1 .. Len(cs2[j]) /\ k + 1 # 1 /\ cs2[j][k + 1] = cs[p[j]][k + 1]
      BY <1>0, <3>1
    <3>3. heap2[cs2[j][k]].nextdata = heap[cs[p[j]][k]].nextdata
      <4>1. CASE k = 1
        <5>1. cs2[j][k] = hs[j] /\ cs[p[j]][k] = hs[p[j]]
          BY <1>0, <1>2, <3>1, <4>1
        <5> QED BY <5>1
      <4>2. CASE k # 1
        BY <1>0, <1>6, <3>1, <4>2
      <4> QED BY <4>1, <4>2
    <3> QED BY <1>8, <3>1, <3>2, <3>3
  <2> QED BY <2>1, <2>2, <2>3, <2>4 DEF Linear
<1>10. Disjoint(hs, cs2)
  BY TradeDisjoint
<1>11. Covering(heap2, hs, cs2, lost)
  <2>0. /\ lost \subseteq DOMAIN heap2 /\ DOMAIN heap2 = DOMAIN heap
        /\ \A j \in 1 .. n : \A k \in 1 .. Len(cs[j]) : cs[j][k] \notin lost
    BY DEF Shape, Covering
  <2>1. \A j \in 1 .. n : \A k \in 1 .. Len(cs2[j]) :
           cs2[j][k] \in DOMAIN heap2 /\ cs2[j][k] \notin lost
    <3>1. \A j \in 1 .. n : hs[j] \in DOMAIN heap2 /\ hs[j] \notin lost
      BY <1>2, <1>3, <2>0
    <3> HIDE DEF HeadsTraded
    <3> QED BY <1>0, <1>1, <1>5, <2>0, <3>1, SMTT(30)
  <2>2. ASSUME NEW m \in DOMAIN heap2 \ lost
        PROVE  \E j \in 1 .. n : \E k \in 1 .. Len(cs2[j]) : cs2[j][k] = m
    <3>1. PICK j \in 1 .. n : \E k \in 1 .. Len(cs[j]) : cs[j][k] = m
      BY <2>0 DEF Shape, Covering
    <3>2. PICK k \in 1 .. Len(cs[j]) : cs[j][k] = m
      BY <3>1
    <3>3. CASE k = 1
      <4>1. 1 \in 1 .. Len(cs2[j]) /\ cs2[j][1] = m
        BY <1>0, <1>2, <1>3, <3>2, <3>3
      <4> QED BY <4>1
    <3>4. CASE k # 1
      <4>1. p[j] \in 1 .. n /\ p[p[j]] = j
        BY <1>0
      <4>2. k \in 1 .. Len(cs2[p[j]]) /\ cs2[p[j]][k] = m
        BY <1>0, <3>2, <3>4, <4>1
      <4> QED BY <4>1, <4>2
    <3> QED BY <3>3, <3>4
  <2> QED BY <2>0, <2>1, <2>2 DEF Covering
<1>12. Tails(heap2, hs, cs2)
  <2>1. ASSUME NEW j \in 1 .. n PROVE heap2[hs[j]].tail = cs2[j][Len(cs2[j])]
    <3> DEFINE q == p[j]
               z == Len(cs[q])
    <3>1. /\ q \in 1 .. n /\ z \in 1 .. z /\ Len(cs2[j]) = z /\ cs[q][1] = hs[q]
          /\ 1 \in 1 .. z /\ heap[hs[q]].tail = cs[q][z]
      BY <1>0, <1>2, <1>3 DEF Shape, Tails
    <3>2. CASE z = 1
      <4>1. heap[hs[q]].tail = hs[q]
        BY <3>1, <3>2
      <4>2. cs2[j][z] = hs[j]
        BY <1>0, <3>1, <3>2
      <4> QED BY <3>1, <4>1, <4>2
    <3>3. CASE z # 1
      <4>1. \A k \in 1 .. Len(cs[q]) : k # 1 => cs[q][k] # hs[q]
        BY <1>6, <3>1
      <4>2. cs[q][z] # hs[q]
        BY <3>1, <3>3, <4>1
      <4>3. cs2[j][z] = cs[q][z]
        BY <1>0, <3>1, <3>3
      <4> QED BY <3>1, <4>2, <4>3
    <3> QED BY <3>2, <3>3
  <2> QED BY <2>1 DEF Tails
<1> QED BY <1>9, <1>10, <1>11, <1>12 DEF Shape

\* The export of chain i: its nodes go, and the link to its head skips it.
Dropped(heap2, heap, hs, cs, i) ==
    /\ DOMAIN heap2 = DOMAIN heap \ ASet(cs[i])
    /\ \A m \in DOMAIN heap2 :
          /\ heap2[m].nextdata = heap[m].nextdata
          /\ heap2[m].tail = heap[m].tail
          /\ heap2[m].nextlink = IF i > 1 /\ m = hs[i - 1] THEN heap[hs[i]].nextlink
                                 ELSE heap[m].nextlink

LEMMA DropShape ==
    ASSUME NEW lost, NEW h, NEW heap, NEW hs, NEW cs, Shape(h, heap, hs, cs, lost),
           NEW i \in 1 .. Len(hs), NEW heap2, Dropped(heap2, heap, hs, cs, i),
           NEW h2, h2 = IF i = 1 THEN heap[hs[1]].nextlink ELSE h
    PROVE  Shape(h2, heap2, Without(hs, i), Without(cs, i), lost)
<1> DEFINE n == Len(hs)
           hs2 == Without(hs, i)
           cs2 == Without(cs, i)
           old(j) == IF j < i THEN j ELSE j + 1
<1> USE DEF Dropped
<1>0. /\ n \in Nat /\ i \in 1 .. n /\ n - 1 \in Nat /\ 1 <= i /\ i <= n
      /\ \A j \in 1 .. n : cs[j] \in Seq(Nodes) /\ Len(cs[j]) \in Nat
  BY ShapeTypes DEF Shape
<1>1. /\ hs2 \in Seq(Nodes) /\ Len(hs2) = n - 1
      /\ \A j \in 1 .. n - 1 : hs2[j] = hs[old(j)]
  BY WithoutAt DEF Shape, Lengths
<1>2. /\ cs2 \in Seq(Seq(Nodes)) /\ Len(cs2) = n - 1
      /\ \A j \in 1 .. n - 1 : cs2[j] = cs[old(j)]
  <2>1. cs \in Seq(Seq(Nodes)) /\ Len(cs) = n /\ i \in 1 .. Len(cs)
    BY DEF Shape, Lengths
  <2> QED BY <2>1, WithoutAt
<1> HIDE DEF hs2, cs2
<1>3. \A j \in 1 .. n - 1 : old(j) \in 1 .. n /\ old(j) # i
  BY <1>0
<1>4. \A j \in 1 .. n : j # i => \E k \in 1 .. n - 1 : j = old(k)
  <2>1. \A j \in 1 .. n : j < i => j \in 1 .. n - 1 /\ old(j) = j
    BY <1>0
  <2>2. \A j \in 1 .. n : j > i => j - 1 \in 1 .. n - 1 /\ old(j - 1) = j
    BY <1>0
  <2>3. \A j \in 1 .. n : j # i => j < i \/ j > i
    BY <1>0
  <2> HIDE DEF old, n
  <2> QED BY <2>1, <2>2, <2>3
<1>5. \A j, k \in 1 .. n - 1 : old(j) = old(k) => j = k
  BY <1>0
<1>6. \A j \in 1 .. n : /\ \A k \in 1 .. Len(cs[j]) : cs[j][k] \in DOMAIN heap
                        /\ Len(cs[j]) > 0 /\ cs[j][1] = hs[j] /\ 1 \in 1 .. Len(cs[j])
  <2>1. \A j \in 1 .. n : /\ \A k \in 1 .. Len(cs[j]) : cs[j][k] \in DOMAIN heap
                          /\ Len(cs[j]) > 0 /\ cs[j][1] = hs[j]
    BY DEF Shape, Linear, Covering
  <2> QED BY <1>0, <2>1
<1>7. \A a, b \in 1 .. n : \A x \in 1 .. Len(cs[a]), y \in 1 .. Len(cs[b]) :
         cs[a][x] = cs[b][y] => a = b /\ x = y
  BY DEF Shape, Disjoint
<1>8. ASet(cs[i]) = {cs[i][k] : k \in 1 .. Len(cs[i])}
  <2>1. DOMAIN cs[i] = 1 .. Len(cs[i])
    BY <1>0, LenProperties
  <2> QED BY <2>1 DEF ASet
<1>9. \A j \in 1 .. n : j # i => \A k \in 1 .. Len(cs[j]) : cs[j][k] \in DOMAIN heap2
  <2> TAKE j \in 1 .. n
  <2> HAVE j # i
  <2> TAKE k \in 1 .. Len(cs[j])
  <2>1. cs[j][k] \in DOMAIN heap
    BY <1>6
  <2>2. \A l \in 1 .. Len(cs[i]) : cs[j][k] # cs[i][l]
    BY <1>0, <1>7
  <2> QED BY <1>8, <2>1, <2>2
<1>10. \A j \in 1 .. n : j # i => hs[j] \in DOMAIN heap2
  BY <1>6, <1>9
<1>11. \A a, b \in 1 .. n : hs[a] = hs[b] => a = b
  BY <1>6, <1>7
<1>12. /\ h = hs[1]
       /\ \A j \in 1 .. n : heap[hs[j]].nextlink = IF j < n THEN hs[j + 1] ELSE NULL
       /\ \A j \in 1 .. n : \A k \in 1 .. Len(cs[j]) :
             heap[cs[j][k]].nextdata = IF k < Len(cs[j]) THEN cs[j][k + 1] ELSE NULL
  BY <1>0 DEF Shape, Linear
<1>13. Linear(h2, heap2, hs2, cs2)
  <2>1. h2 = IF Len(hs2) = 0 THEN NULL ELSE hs2[1]
    <3>1. CASE i = 1 /\ n = 1
      BY <1>1, <1>12, <3>1
    <3>2. CASE i = 1 /\ n > 1
      <4>1. 1 \in 1 .. n - 1 /\ old(1) = 2 /\ 1 < n /\ 1 \in 1 .. n
        BY <1>0, <3>2
      <4> QED BY <1>1, <1>12, <3>2, <4>1
    <3>3. CASE i > 1
      <4>1. 1 \in 1 .. n - 1 /\ old(1) = 1 /\ n - 1 # 0
        <5> HIDE DEF n
        <5> QED BY <1>0, <3>3
      <4>2. hs2[1] = hs[1] /\ h2 = h
        BY <1>1, <3>3, <4>1
      <4> HIDE DEF old
      <4> QED BY <1>1, <1>12, <4>1, <4>2
    <3>4. i = 1 \/ i > 1
      BY <1>0
    <3>5. n = 1 \/ n > 1
      <4> HIDE DEF n
      <4> QED BY <1>0
    <3> HIDE DEF n
    <3> QED BY <3>1, <3>2, <3>3, <3>4, <3>5
  <2>2. ASSUME NEW j \in 1 .. n - 1
        PROVE  heap2[hs2[j]].nextlink = IF j < n - 1 THEN hs2[j + 1] ELSE NULL
    <3>1. hs2[j] = hs[old(j)] /\ hs[old(j)] \in DOMAIN heap2
      <4> HIDE DEF old, n
      <4> QED BY <1>1, <1>3, <1>10
    <3>2. heap2[hs[old(j)]].nextlink = IF i > 1 /\ hs[old(j)] = hs[i - 1]
                                       THEN heap[hs[i]].nextlink
                                       ELSE heap[hs[old(j)]].nextlink
      <4> HIDE DEF old
      <4> QED BY <3>1
    <3>3. j < n - 1 => j + 1 \in 1 .. n - 1 /\ hs2[j + 1] = hs[old(j + 1)]
      <4>1. j < n - 1 => j + 1 \in 1 .. n - 1
        BY <1>0
      <4> HIDE DEF old
      <4> QED BY <1>1, <4>1
    <3>4. CASE j < i - 1
      <4>1. /\ old(j) = j /\ old(j + 1) = j + 1 /\ i - 1 \in 1 .. n /\ j \in 1 .. n
            /\ j < n - 1 /\ j # i - 1 /\ j < n
        BY <1>0, <3>4
      <4>2. hs[j] # hs[i - 1]
        BY <1>11, <4>1
      <4> QED BY <1>12, <3>1, <3>2, <3>3, <4>1, <4>2
    <3>5. CASE j = i - 1
      <4>1. /\ old(j) = i - 1 /\ i > 1 /\ (j < n - 1) = (i < n)
            /\ old(j + 1) = i + 1
        BY <1>0, <3>5
      <4> QED BY <1>0, <1>12, <3>1, <3>2, <3>3, <4>1
    <3>6. CASE j > i - 1
      <4>1. /\ old(j) = j + 1 /\ old(j + 1) = j + 1 + 1 /\ j + 1 \in 1 .. n
            /\ (j < n - 1) = (j + 1 < n) /\ (i > 1 => i - 1 \in 1 .. n /\ j + 1 # i - 1)
        BY <1>0, <3>6
      <4>2. i > 1 => hs[j + 1] # hs[i - 1]
        BY <1>11, <4>1
      <4> QED BY <1>12, <3>1, <3>2, <3>3, <4>1, <4>2
    <3> QED BY <1>0, <3>4, <3>5, <3>6
  <2> HIDE DEF old
  <2>3. ASSUME NEW j \in 1 .. n - 1 PROVE Len(cs2[j]) > 0 /\ cs2[j][1] = hs2[j]
    <3>1. PICK q \in 1 .. n : cs2[j] = cs[q] /\ hs2[j] = hs[q]
      BY <1>1, <1>2, <1>3
    <3> QED BY <1>6, <3>1
  <2>4. ASSUME NEW j \in 1 .. n - 1, NEW k \in 1 .. Len(cs2[j])
        PROVE  heap2[cs2[j][k]].nextdata = IF k < Len(cs2[j]) THEN cs2[j][k + 1] ELSE NULL
    <3>1. PICK q \in 1 .. n : q # i /\ cs2[j] = cs[q]
      BY <1>2, <1>3
    <3>2. k \in 1 .. Len(cs[q]) /\ cs[q][k] \in DOMAIN heap2
      BY <1>9, <3>1
    <3>3. heap2[cs[q][k]].nextdata = heap[cs[q][k]].nextdata
      BY <3>2
    <3> QED BY <1>12, <3>1, <3>2, <3>3
  <2> HIDE DEF n
  <2> QED BY <1>1, <2>1, <2>2, <2>3, <2>4 DEF Linear
<1> HIDE DEF old
<1>14. Disjoint(hs2, cs2)
  <2> SUFFICES ASSUME NEW a \in 1 .. n - 1, NEW b \in 1 .. n - 1,
                      NEW x \in 1 .. Len(cs2[a]), NEW y \in 1 .. Len(cs2[b]),
                      cs2[a][x] = cs2[b][y]
               PROVE  a = b /\ x = y
    BY <1>1 DEF Disjoint
  <2>1. PICK q \in 1 .. n : q = old(a) /\ cs2[a] = cs[q]
    BY <1>2, <1>3
  <2>2. PICK r \in 1 .. n : r = old(b) /\ cs2[b] = cs[r]
    BY <1>2, <1>3
  <2>3. cs[q][x] = cs[r][y] /\ x \in 1 .. Len(cs[q]) /\ y \in 1 .. Len(cs[r])
    BY <2>1, <2>2
  <2>4. q = r /\ x = y
    BY <1>7, <2>3, SMTT(60)
  <2> QED BY <1>5, <2>1, <2>2, <2>4
<1>15. Covering(heap2, hs2, cs2, lost)
  <2>0. /\ lost \subseteq DOMAIN heap2
        /\ \A j \in 1 .. n : \A k \in 1 .. Len(cs[j]) : cs[j][k] \notin lost
    <3>1. /\ lost \subseteq DOMAIN heap
          /\ \A j \in 1 .. n : \A k \in 1 .. Len(cs[j]) : cs[j][k] \notin lost
      BY DEF Shape, Covering
    <3>2. \A k \in 1 .. Len(cs[i]) : cs[i][k] \notin lost
      BY <1>0, <3>1
    <3>3. lost \cap ASet(cs[i]) = {}
      BY <1>8, <3>2
    <3> QED BY <3>1, <3>3
  <2>1. ASSUME NEW j \in 1 .. n - 1
        PROVE  \A k \in 1 .. Len(cs2[j]) :
                  cs2[j][k] \in DOMAIN heap2 /\ cs2[j][k] \notin lost
    <3>1. PICK q \in 1 .. n : q # i /\ cs2[j] = cs[q]
      BY <1>2, <1>3
    <3> QED BY <1>9, <2>0, <3>1
  <2>2. ASSUME NEW m \in DOMAIN heap2 \ lost
        PROVE  \E j \in 1 .. n - 1 : \E k \in 1 .. Len(cs2[j]) : cs2[j][k] = m
    <3>1. m \in DOMAIN heap \ lost /\ m \notin ASet(cs[i])
      OBVIOUS
    <3>2. PICK q \in 1 .. n : \E k \in 1 .. Len(cs[q]) : cs[q][k] = m
      BY <3>1 DEF Shape, Covering
    <3>3. q # i
      BY <1>8, <3>1, <3>2
    <3>4. PICK j \in 1 .. n - 1 : q = old(j)
      BY <1>4, <3>3
    <3>5. cs2[j] = cs[q]
      BY <1>2, <3>4
    <3> QED BY <3>2, <3>5
  <2> QED BY <1>1, <2>0, <2>1, <2>2 DEF Covering
<1>16. Tails(heap2, hs2, cs2)
  <2>1. ASSUME NEW j \in 1 .. n - 1 PROVE heap2[hs2[j]].tail = cs2[j][Len(cs2[j])]
    <3>1. PICK q \in 1 .. n : q # i /\ cs2[j] = cs[q] /\ hs2[j] = hs[q]
      BY <1>1, <1>2, <1>3
    <3>2. heap2[hs[q]].tail = heap[hs[q]].tail
      BY <1>10, <3>1
    <3>3. heap[hs[q]].tail = cs[q][Len(cs[q])]
      BY DEF Shape, Tails
    <3> QED BY <3>1, <3>2, <3>3
  <2> QED BY <1>1, <2>1 DEF Tails
<1>17. Lengths(hs2, cs2)
  BY <1>1, <1>2 DEF Lengths
<1> QED BY <1>13, <1>14, <1>15, <1>16, <1>17 DEF Shape, hs2, cs2

-----------------------------------------------------------------------------
(* The chains a shape stands for *)

Described(heap, c) ==
    [flow |-> heap[c[1]].data.flow, file_offset |-> heap[c[1]].data.file_offset,
     pkts |-> [k \in 1 .. Len(c) |->
                 [len |-> heap[c[k]].data.len, sec |-> heap[c[k]].data.sec]]]

Description(heap, cs) == [i \in 1 .. Len(cs) |-> Described(heap, cs[i])]

\* b is the list of chains that the pointers from h stand for.
Represents(h, heap, b, lost) ==
    \E hs, cs : Shape(h, heap, hs, cs, lost) /\ b = Description(heap, cs)

\* Chains whose nodes keep their data keep their description.
LEMMA SameDescription ==
    ASSUME NEW heap, NEW heap2, NEW c, NEW c2, Len(c) = Len(c2), Len(c) \in Nat, Len(c) > 0,
           \A k \in 1 .. Len(c) : heap2[c2[k]].data = heap[c[k]].data
    PROVE  Described(heap2, c2) = Described(heap, c)
<1>1. 1 \in 1 .. Len(c)
  OBVIOUS
<1> QED BY <1>1 DEF Described

LEMMA NewDescribed ==
    ASSUME NEW lost, NEW h, NEW heap, NEW hs, NEW cs, Shape(h, heap, hs, cs, lost),
           NEW cur \in Nodes, NEW rec, NEW heap2,
           heap2[cur].data = [flow |-> rec.flow, len |-> rec.len, sec |-> rec.sec,
                              file_offset |-> rec.len],
           \A m \in DOMAIN heap : heap2[m].data = heap[m].data
    PROVE  Description(heap2, <<<<cur>>>> \o cs)
              = <<Lists!NewChain(rec)>> \o Description(heap, cs)
<1> DEFINE n == Len(cs)
           one == <<cur>>
           cs2 == <<one>> \o cs
           d == Description(heap, cs)
           e == Lists!NewChain(rec)
           S == {Described(heap, cs[i]) : i \in 1 .. n} \cup {e}
<1>0. n \in Nat /\ n = Len(hs) /\ \A i \in 1 .. n : Len(cs[i]) \in Nat /\ Len(cs[i]) > 0
  BY ShapeTypes DEF Shape, Linear
<1>1. Described(heap2, one) = e
  BY DEF Described, Lists!NewChain
<1>2. Len(cs2) = n + 1 /\ \A i \in 1 .. n + 1 : cs2[i] = IF i = 1 THEN one ELSE cs[i - 1]
  <2>1. one \in Seq(Nodes) /\ cs \in Seq(Seq(Nodes))
    BY DEF Shape, Lengths
  <2> HIDE DEF one
  <2> QED BY <2>1, PrependAt
<1>3. /\ <<e>> \o d \in Seq(S) /\ Len(<<e>> \o d) = n + 1
      /\ \A i \in 1 .. n + 1 : (<<e>> \o d)[i] = IF i = 1 THEN e ELSE d[i - 1]
  <2>1. d \in Seq(S) /\ e \in S /\ Len(d) = n
    <3>1. d = [i \in 1 .. n |-> Described(heap, cs[i])]
      BY DEF Description
    <3> HIDE DEF d, e, n
    <3> QED BY <1>0, <3>1
  <2> HIDE DEF d, e, n, S
  <2> QED BY <2>1, PrependAt
<1> HIDE DEF cs2, one, e
<1>4. ASSUME NEW i \in 1 .. n PROVE Described(heap2, cs[i]) = d[i]
  <2>1. \A k \in 1 .. Len(cs[i]) : cs[i][k] \in DOMAIN heap
    BY <1>0 DEF Shape, Covering
  <2>2. Described(heap2, cs[i]) = Described(heap, cs[i])
    BY <1>0, <2>1, SameDescription
  <2> QED BY <2>2 DEF Description
<1> DEFINE a == Description(heap2, cs2)
           b == <<e>> \o d
<1>5. a = [i \in 1 .. n + 1 |-> Described(heap2, cs2[i])]
  BY <1>2 DEF Description
<1>6. b = [i \in 1 .. n + 1 |-> b[i]]
  <2> HIDE DEF b
  <2> QED BY <1>3, LenProperties DEF b
<1>7. ASSUME NEW i \in 1 .. n + 1 PROVE Described(heap2, cs2[i]) = b[i]
  <2>1. CASE i = 1
    BY <1>1, <1>2, <1>3, <2>1
  <2>2. CASE i # 1
    <3>1. i - 1 \in 1 .. n
      BY <1>0, <2>2
    <3>2. cs2[i] = cs[i - 1] /\ b[i] = d[i - 1]
      BY <1>2, <1>3, <2>2
    <3> HIDE DEF b, d
    <3> QED BY <1>4, <3>1, <3>2
  <2> QED BY <2>1, <2>2
<1> HIDE DEF a, b
<1>8. a = b
  BY <1>5, <1>6, <1>7
<1> QED BY <1>8 DEF a, b, cs2, one, e

LEMMA GrowFields ==
    ASSUME NEW f, NEW o, NEW q, NEW rec
    PROVE  Lists!Grow([flow |-> f, file_offset |-> o, pkts |-> q], rec)
              = [flow |-> f, file_offset |-> o + rec.len,
                 pkts |-> Append(q, [len |-> rec.len, sec |-> rec.sec])]
<1> DEFINE r == [flow |-> f, file_offset |-> o, pkts |-> q]
           e == [len |-> rec.len, sec |-> rec.sec]
<1>1. ASSUME NEW o2, NEW q2
      PROVE  [r EXCEPT !.file_offset = o2, !.pkts = q2]
                = [flow |-> f, file_offset |-> o2, pkts |-> q2]
  <2>1. [r EXCEPT !.file_offset = o2] = [flow |-> f, file_offset |-> o2, pkts |-> q]
    OBVIOUS
  <2> DEFINE r2 == [flow |-> f, file_offset |-> o2, pkts |-> q]
  <2>2. [r2 EXCEPT !.pkts = q2] = [flow |-> f, file_offset |-> o2, pkts |-> q2]
    OBVIOUS
  <2> HIDE DEF r
  <2> QED BY <2>1, <2>2
<1>2. r.file_offset = o /\ r.pkts = q
  OBVIOUS
<1>3. Lists!Grow(r, rec)
         = [r EXCEPT !.file_offset = r.file_offset + rec.len, !.pkts = Append(r.pkts, e)]
  <2> HIDE DEF r
  <2> QED BY DEF Lists!Grow
<1> HIDE DEF r, e
<1>4. Lists!Grow(r, rec)
         = [flow |-> f, file_offset |-> o + rec.len, pkts |-> Append(q, e)]
  BY <1>1, <1>2, <1>3
<1> QED BY <1>4 DEF r, e

\* The packet rec is in the new node cur, its bytes are counted on head.
HasGrown(heap2, heap, head, cur, rec) ==
    /\ heap2[cur].data.len = rec.len /\ heap2[cur].data.sec = rec.sec
    /\ \A m \in DOMAIN heap :
          /\ heap2[m].data.flow = heap[m].data.flow
          /\ heap2[m].data.len = heap[m].data.len
          /\ heap2[m].data.sec = heap[m].data.sec
          /\ heap2[m].data.file_offset = heap[m].data.file_offset
                                         + IF m = head THEN rec.len ELSE 0
          /\ heap[m].data.file_offset \in Nat

GrowthDescribed(heap2, heap, hs, cs, i, cur, rec) ==
    /\ Described(heap2, Append(cs[i], cur)) = Lists!Grow(Described(heap, cs[i]), rec)
    /\ \A j \in 1 .. Len(hs) : j # i => Described(heap2, cs[j]) = Described(heap, cs[j])

\* The chain that gets a packet grows by it, and no other changes.
LEMMA LinkDescribed ==
    ASSUME NEW lost, NEW h, NEW heap, NEW hs, NEW cs, Shape(h, heap, hs, cs, lost),
           NEW cur \in Nodes \ DOMAIN heap, NEW i \in 1 .. Len(hs), NEW rec, NEW heap2,
           NEW head, head = hs[i], HasGrown(heap2, heap, head, cur, rec)
    PROVE  GrowthDescribed(heap2, heap, hs, cs, i, cur, rec)
<1> USE DEF HasGrown, GrowthDescribed
<1> DEFINE n == Len(hs)
           c == cs[i]
           c2 == Append(c, cur)
           z == Len(c)
<1>0. n \in Nat /\ \A j \in 1 .. n : Len(cs[j]) \in Nat /\ Len(cs[j]) > 0 /\ cs[j][1] = hs[j]
  BY ShapeTypes DEF Shape, Linear
<1>1. \A j \in 1 .. n : \A k \in 1 .. Len(cs[j]) : cs[j][k] \in DOMAIN heap
  BY DEF Shape, Covering
<1>2. /\ z \in Nat /\ z > 0 /\ c[1] = hs[i] /\ 1 \in 1 .. z
      /\ Len(c2) = z + 1 /\ c2[z + 1] = cur /\ \A k \in 1 .. z : c2[k] = c[k]
      /\ \A k \in 1 .. z : c[k] \in DOMAIN heap
  <2>1. c \in Seq(Nodes) /\ cur \in Nodes
    BY ShapeTypes DEF Shape
  <2>2. Len(c2) = z + 1 /\ c2[z + 1] = cur /\ \A k \in 1 .. z : c2[k] = c[k]
    BY <2>1, AppendProperties
  <2> HIDE DEF HasGrown, GrowthDescribed
  <2> QED BY <1>0, <1>1, <2>2, SMTT(30)
<1> HIDE DEF c2
<1>3. Described(heap2, c2) = Lists!Grow(Described(heap, c), rec)
  <2> DEFINE q == [k \in 1 .. z |-> [len |-> heap[c[k]].data.len, sec |-> heap[c[k]].data.sec]]
             q2 == [k \in 1 .. z + 1 |->
                      [len |-> heap2[c2[k]].data.len, sec |-> heap2[c2[k]].data.sec]]
             e == [len |-> rec.len, sec |-> rec.sec]
  <2>1. /\ heap2[c2[1]].data.flow = heap[c[1]].data.flow
        /\ heap2[c2[1]].data.file_offset = heap[c[1]].data.file_offset + rec.len
    BY <1>2
  <2>2. q2 = Append(q, e)
    <3> DEFINE a == Append(q, e)
               R == {q[k] : k \in 1 .. z} \cup {e}
    <3>1. a = [k \in 1 .. z + 1 |-> a[k]] /\ a[z + 1] = e /\ \A k \in 1 .. z : a[k] = q[k]
      <4>1. q \in Seq(R) /\ e \in R /\ Len(q) = z
        <5>1. q = [k \in 1 .. z |-> q[k]]
          OBVIOUS
        <5> HIDE DEF q, e, z
        <5> QED BY <1>2, <5>1, SMTT(60)
      <4> HIDE DEF q, e, R
      <4>2. /\ a \in Seq(R) /\ Len(a) = z + 1 /\ a[z + 1] = e
            /\ \A k \in 1 .. z : a[k] = q[k]
        BY <4>1, AppendProperties
      <4> HIDE DEF a
      <4> QED BY <4>2, LenProperties
    <3>2. ASSUME NEW k \in 1 .. z + 1
          PROVE  q2[k] = IF k = z + 1 THEN e ELSE q[k]
      <4>1. CASE k = z + 1
        BY <1>2, <4>1
      <4>2. CASE k \in 1 .. z
        <5>1. q[k] = [len |-> heap[c[k]].data.len, sec |-> heap[c[k]].data.sec]
          BY <4>2
        <5>2. k # z + 1 /\ k \in 1 .. z + 1 /\ c2[k] = c[k]
          BY <1>2, <4>2
        <5>3. q2[k] = [len |-> heap2[c2[k]].data.len, sec |-> heap2[c2[k]].data.sec]
          BY <5>2
        <5>4. /\ heap2[c[k]].data.len = heap[c[k]].data.len
              /\ heap2[c[k]].data.sec = heap[c[k]].data.sec
          BY <1>2, <4>2
        <5> HIDE DEF q, q2
        <5> QED BY <5>1, <5>2, <5>3, <5>4
      <4> QED BY <1>2, <4>1, <4>2
    <3>3. q2 = [k \in 1 .. z + 1 |-> q2[k]]
      OBVIOUS
    <3>4. ASSUME NEW k \in 1 .. z + 1 PROVE q2[k] = a[k]
      <4>1. k # z + 1 => k \in 1 .. z
        BY <1>2
      <4> HIDE DEF q, q2, e, a, z
      <4> QED BY <3>1, <3>2, <4>1
    <3> HIDE DEF q2, a, z
    <3>5. q2 = a
      BY <3>1, <3>3, <3>4
    <3> QED BY <3>5 DEF a
  <2>3. /\ Described(heap, c) = [flow |-> heap[c[1]].data.flow,
                                 file_offset |-> heap[c[1]].data.file_offset, pkts |-> q]
        /\ Described(heap2, c2) = [flow |-> heap2[c2[1]].data.flow,
                                   file_offset |-> heap2[c2[1]].data.file_offset, pkts |-> q2]
    BY <1>2 DEF Described
  <2>4. Lists!Grow(Described(heap, c), rec)
           = [flow |-> heap[c[1]].data.flow,
              file_offset |-> heap[c[1]].data.file_offset + rec.len, pkts |-> Append(q, e)]
    <3> DEFINE f == heap[c[1]].data.flow
               o == heap[c[1]].data.file_offset
    <3>1. Described(heap, c) = [flow |-> f, file_offset |-> o, pkts |-> q]
      BY <2>3
    <3> HIDE DEF q, f, o, c
    <3>2. Lists!Grow([flow |-> f, file_offset |-> o, pkts |-> q], rec)
             = [flow |-> f, file_offset |-> o + rec.len, pkts |-> Append(q, e)]
      BY GrowFields
    <3> QED BY <3>1, <3>2 DEF f, o
  <2> HIDE DEF q, q2, e, c
  <2> QED BY <2>1, <2>2, <2>3, <2>4
<1>4. ASSUME NEW j \in 1 .. n, j # i PROVE Described(heap2, cs[j]) = Described(heap, cs[j])
  <2>1. hs[j] # hs[i]
    <3>1. cs[j][1] = hs[j] /\ cs[i][1] = hs[i] /\ 1 \in 1 .. Len(cs[j]) /\ 1 \in 1 .. Len(cs[i])
      BY <1>0
    <3> QED BY <1>4, <3>1 DEF Shape, Disjoint
  <2>2. /\ heap2[cs[j][1]].data.flow = heap[cs[j][1]].data.flow
        /\ heap2[cs[j][1]].data.file_offset = heap[cs[j][1]].data.file_offset
    <3>1. 1 \in 1 .. Len(cs[j]) /\ cs[j][1] = hs[j] /\ cs[j][1] \in DOMAIN heap
      BY <1>0, <1>1
    <3> QED BY <2>1, <3>1
  <2>3. \A k \in 1 .. Len(cs[j]) :
           [len |-> heap2[cs[j][k]].data.len, sec |-> heap2[cs[j][k]].data.sec]
              = [len |-> heap[cs[j][k]].data.len, sec |-> heap[cs[j][k]].data.sec]
    BY <1>1
  <2> QED BY <2>2, <2>3 DEF Described
<1> QED BY <1>3, <1>4 DEF c2

\* Heads that trade places take their descriptions with them.
LEMMA TradeDescribed ==
    ASSUME NEW lost, NEW h, NEW heap, NEW hs, NEW cs, Shape(h, heap, hs, cs, lost),
           NEW cs2, NEW p, Trade(hs, cs, cs2, p), NEW heap2, HeadsTraded(heap2, heap, hs, p)
    PROVE  \A j \in 1 .. Len(hs) : Described(heap2, cs2[j]) = Described(heap, cs[p[j]])
<1> USE DEF HeadsTraded
<1> SUFFICES ASSUME NEW j \in 1 .. Len(hs)
             PROVE  Described(heap2, cs2[j]) = Described(heap, cs[p[j]])
  OBVIOUS
<1>1. PICK i \in 1 .. Len(hs) : i = p[j]
  BY DEF Trade
<1>2. /\ Len(cs2[j]) = Len(cs[i]) /\ Len(cs[i]) \in Nat /\ Len(cs[i]) > 0
      /\ \A k \in 1 .. Len(cs[i]) : cs2[j][k] = IF k = 1 THEN hs[j] ELSE cs[i][k]
  <2>1. Len(cs[i]) \in Nat /\ Len(cs[i]) > 0
    BY ShapeTypes DEF Shape, Linear
  <2> QED BY <1>1, <2>1 DEF Trade
<1>3. ASSUME NEW k \in 1 .. Len(cs[i]) PROVE heap2[cs2[j][k]].data = heap[cs[i][k]].data
  <2>1. CASE k = 1
    <3>1. cs[i][1] = hs[i] /\ cs2[j][k] = hs[j]
      BY <1>2, <2>1 DEF Shape, Linear
    <3> QED BY <1>1, <2>1, <3>1
  <2>2. CASE k # 1
    <3>1. ASSUME NEW q \in 1 .. Len(hs) PROVE cs[i][k] # hs[q]
      <4>1. cs[q][1] = hs[q] /\ 1 \in 1 .. Len(cs[q])
        BY ShapeTypes DEF Shape, Linear
      <4> QED BY <2>2, <4>1 DEF Shape, Disjoint
    <3>2. cs[i][k] \in DOMAIN heap
      BY DEF Shape, Covering
    <3>3. heap2[cs[i][k]] = heap[cs[i][k]]
      BY <3>1, <3>2
    <3> QED BY <1>2, <2>2, <3>3
  <2> QED BY <2>1, <2>2
<1>4. Described(heap2, cs2[j]) = Described(heap, cs[i])
  BY <1>2, <1>3, SameDescription
<1> QED BY <1>1, <1>4

\* An export takes one description out.
LEMMA DropDescribed ==
    ASSUME NEW lost, NEW h, NEW heap, NEW hs, NEW cs, Shape(h, heap, hs, cs, lost),
           NEW i \in 1 .. Len(hs), NEW heap2,
           \A m \in DOMAIN heap \ ASet(cs[i]) : heap2[m].data = heap[m].data
    PROVE  Description(heap2, Without(cs, i)) = Lists!Unlink(Description(heap, cs), i)
<1> DEFINE n == Len(cs)
           d == Description(heap, cs)
           cs2 == Without(cs, i)
           d2 == Without(d, i)
           S == {Described(heap, cs[j]) : j \in 1 .. n}
           old(j) == IF j < i THEN j ELSE j + 1
<1>0. /\ n \in Nat /\ n = Len(hs) /\ i \in 1 .. n /\ cs \in Seq(Seq(Nodes)) /\ n - 1 \in Nat
      /\ \A j \in 1 .. n : cs[j] \in Seq(Nodes) /\ Len(cs[j]) \in Nat /\ Len(cs[j]) > 0
  BY ShapeTypes DEF Shape, Linear, Lengths
<1>1. Len(cs2) = n - 1 /\ \A j \in 1 .. n - 1 : cs2[j] = cs[old(j)]
  BY <1>0, WithoutAt
<1>2. d \in Seq(S) /\ Len(d) = n /\ \A j \in 1 .. n : d[j] = Described(heap, cs[j])
  <2>1. d = [j \in 1 .. n |-> Described(heap, cs[j])]
    BY DEF Description
  <2> HIDE DEF d, n
  <2> QED BY <1>0, <2>1, SMTT(60)
<1> HIDE DEF d, cs2
<1>3. d2 \in Seq(S) /\ Len(d2) = n - 1 /\ \A j \in 1 .. n - 1 : d2[j] = d[old(j)]
  <2>1. i \in 1 .. Len(d) /\ d \in Seq(S) /\ Len(d) = n
    BY <1>0, <1>2
  <2> HIDE DEF S
  <2> QED BY <2>1, WithoutAt
<1> HIDE DEF d2, S
<1>4. ASSUME NEW j \in 1 .. n, j # i PROVE Described(heap2, cs[j]) = Described(heap, cs[j])
  <2>1. ASSUME NEW k \in 1 .. Len(cs[j]) PROVE cs[j][k] \in DOMAIN heap \ ASet(cs[i])
    <3>1. cs[j][k] \in DOMAIN heap
      BY <1>0 DEF Shape, Covering
    <3>2. DOMAIN cs[i] = 1 .. Len(cs[i])
      BY <1>0, LenProperties
    <3>3. \A l \in 1 .. Len(cs[i]) : cs[j][k] # cs[i][l]
      BY <1>0, <1>4 DEF Shape, Disjoint
    <3> QED BY <3>1, <3>2, <3>3 DEF ASet
  <2> QED BY <1>0, <2>1, SameDescription, SMTT(60)
<1>5. \A j \in 1 .. n - 1 : old(j) \in 1 .. n /\ old(j) # i
  BY <1>0
<1>6. \A j \in 1 .. n - 1 : Described(heap2, cs2[j]) = d2[j]
  <2> HIDE DEF old
  <2> QED BY <1>1, <1>2, <1>3, <1>4, <1>5
<1>7. Description(heap2, cs2) = [j \in 1 .. n - 1 |-> Described(heap2, cs2[j])]
  BY <1>1 DEF Description
<1>8. d2 = [j \in 1 .. n - 1 |-> d2[j]]
  BY <1>3, LenProperties
<1>9. Lists!Unlink(d, i) = d2
  BY <1>2 DEF d2, Without, Lists!Unlink
<1> QED BY <1>6, <1>7, <1>8, <1>9 DEF d, cs2

-----------------------------------------------------------------------------
(* The steps of the bucket *)

\* The description of a shape, read off by the model's own operators.
ChainsFrom(h, heap) ==
    [i \in DOMAIN Heads(h, heap) |->
       LET c == ChainOf(Heads(h, heap)[i], heap)
       IN  [flow |-> heap[Heads(h, heap)[i]].data.flow,
            file_offset |-> heap[Heads(h, heap)[i]].data.file_offset,
            pkts |-> [k \in DOMAIN c |-> [len |-> heap[c[k]].data.len,
                                          sec |-> heap[c[k]].data.sec]]]]

LEMMA ChainsFromIs ==
    ASSUME NEW lost, NEW h, NEW heap, NEW b, Typed(heap), Represents(h, heap, b, lost)
    PROVE  ChainsFrom(h, heap) = b
<1>1. PICK hs, cs : Shape(h, heap, hs, cs, lost) /\ b = Description(heap, cs)
  BY DEF Represents
<1>2. Heads(h, heap) = hs /\ \A i \in 1 .. Len(hs) : ChainOf(hs[i], heap) = cs[i]
  BY <1>1, ShapeFollows
<1>3. /\ DOMAIN hs = 1 .. Len(hs) /\ Len(cs) = Len(hs)
      /\ \A i \in 1 .. Len(hs) : cs[i][1] = hs[i] /\ DOMAIN cs[i] = 1 .. Len(cs[i])
  <2>1. \A i \in 1 .. Len(hs) : cs[i] \in Seq(Nodes) /\ cs[i][1] = hs[i]
    BY <1>1, ShapeTypes DEF Shape, Linear
  <2>2. DOMAIN hs = 1 .. Len(hs) /\ Len(cs) = Len(hs)
    BY <1>1, ShapeTypes DEF Shape
  <2> QED BY <2>1, <2>2, LenProperties
<1>4. ASSUME NEW i \in 1 .. Len(hs)
      PROVE  [flow |-> heap[hs[i]].data.flow, file_offset |-> heap[hs[i]].data.file_offset,
              pkts |-> [k \in DOMAIN cs[i] |-> [len |-> heap[cs[i][k]].data.len,
                                                sec |-> heap[cs[i][k]].data.sec]]]
                = Described(heap, cs[i])
  BY <1>3 DEF Described
<1>5. ChainsFrom(h, heap) = [i \in 1 .. Len(hs) |-> Described(heap, cs[i])]
  BY <1>2, <1>3, <1>4 DEF ChainsFrom
<1> QED BY <1>1, <1>3, <1>5 DEF Description

\* A node that does not exist yet.
LEMMA FreshIsNew == ASSUME MayPush PROVE Fresh \in Nodes \ DOMAIN node
BY DEF MayPush, Fresh

LEMMA NewNodeType ==
    ASSUME NEW rec \in Records, NEW link \in Pointer, NEW tail \in Pointer
    PROVE  [NewNode(rec) EXCEPT !.nextlink = link, !.tail = tail] \in LinkNode
<1>1. [flow |-> rec.flow, len |-> rec.len, sec |-> rec.sec, file_offset |-> rec.len] \in Data
  BY FlowTableAssumption DEF Data
<1>2. NULL \in Pointer
  BY DEF Pointer
<1> QED BY <1>1, <1>2 DEF NewNode, LinkNode

\* PushFirst and PushFlow: the new node in front of the bucket.
LEMMA PushNew ==
    ASSUME NEW b, Typed(node), Represents(hash_table, node, b, dropped), NEW rec \in Records, MayPush,
           hash_table \in Pointer, NEW heap2,
           heap2 = Extend(Fresh, [NewNode(rec) EXCEPT !.nextlink = hash_table, !.tail = Fresh])
    PROVE  /\ Typed(heap2)
           /\ Represents(Fresh, heap2, <<Lists!NewChain(rec)>> \o b, dropped)
           /\ DOMAIN heap2 = DOMAIN node \cup {Fresh}
<1> DEFINE cur == Fresh
           n2 == [NewNode(rec) EXCEPT !.nextlink = hash_table, !.tail = cur]
<1>1. cur \in Nodes \ DOMAIN node
  BY FreshIsNew
<1>2. /\ n2.nextlink = hash_table /\ n2.nextdata = NULL /\ n2.tail = cur
      /\ n2.data = [flow |-> rec.flow, len |-> rec.len, sec |-> rec.sec,
                    file_offset |-> rec.len]
  BY DEF NewNode
<1>3. n2 \in LinkNode
  BY <1>1, NewNodeType DEF Pointer
<1> HIDE DEF cur, n2
<1>4. /\ DOMAIN heap2 = DOMAIN node \cup {cur} /\ heap2[cur] = n2
      /\ \A m \in DOMAIN node : heap2[m] = node[m]
      /\ heap2 = [m \in DOMAIN node \cup {cur} |-> heap2[m]]
  <2>1. heap2 = [m \in DOMAIN node \cup {cur} |-> IF m = cur THEN n2 ELSE node[m]]
    BY DEF Extend, cur, n2
  <2> QED BY <1>1, <2>1
<1>5. Typed(heap2)
  BY <1>1, <1>3, <1>4 DEF Typed
<1>6. PICK hs, cs : Shape(hash_table, node, hs, cs, dropped) /\ b = Description(node, cs)
  BY DEF Represents
<1>7. Shape(cur, heap2, <<cur>> \o hs, <<<<cur>>>> \o cs, dropped)
  BY <1>1, <1>2, <1>4, <1>6, NewShape
<1>8. Description(heap2, <<<<cur>>>> \o cs) = <<Lists!NewChain(rec)>> \o b
  <2>1. cur \in Nodes
    BY <1>1
  <2> QED BY <2>1, <1>2, <1>4, <1>6, NewDescribed, SMTT(60)
<1>9. Represents(cur, heap2, <<Lists!NewChain(rec)>> \o b, dropped)
  BY <1>7, <1>8 DEF Represents
<1> QED BY <1>4, <1>5, <1>9 DEF cur

\* The loop over nextlink stops where Position says.
LEMMA MatchIs ==
    ASSUME NEW hs, NEW cs, Typed(node), Shape(hash_table, node, hs, cs, dropped), NEW b,
           b = Description(node, cs), NEW rec
    PROVE  /\ Equal(rec) = Lists!Matches(b, rec.flow) /\ DOMAIN b = 1 .. Len(hs)
           /\ Equal(rec) \subseteq 1 .. Len(hs)
           /\ Equal(rec) # {} =>
                 \E i \in 1 .. Len(hs) :
                    /\ i = Lists!Position(b, rec.flow) /\ Match(rec) = hs[i]
                    /\ b[i].file_offset = node[hs[i]].data.file_offset
<1>1. Heads(hash_table, node) = hs
  BY ShapeFollows
<1>2. /\ DOMAIN hs = 1 .. Len(hs) /\ Len(cs) = Len(hs) /\ Len(hs) \in Nat
      /\ \A i \in 1 .. Len(hs) : cs[i][1] = hs[i]
  BY ShapeTypes DEF Shape, Linear
<1>3. /\ DOMAIN b = 1 .. Len(hs)
      /\ \A i \in 1 .. Len(hs) : /\ b[i].flow = node[hs[i]].data.flow
                                 /\ b[i].file_offset = node[hs[i]].data.file_offset
  BY <1>2 DEF Description, Described
<1>4. Equal(rec) = Lists!Matches(b, rec.flow) /\ Equal(rec) \subseteq 1 .. Len(hs)
  BY <1>1, <1>2, <1>3 DEF Equal, Lists!Matches
<1>5. ASSUME Equal(rec) # {}
      PROVE  \E i \in 1 .. Len(hs) :
                /\ i = Lists!Position(b, rec.flow) /\ Match(rec) = hs[i]
                /\ b[i].file_offset = node[hs[i]].data.file_offset
  <2> DEFINE M == Lists!Matches(b, rec.flow)
             E == Equal(rec)
             i == CHOOSE x \in M : \A j \in M : x <= j
             k == CHOOSE x \in E : \A j \in E : x <= j
  <2>1. E \subseteq Nat /\ E # {}
    BY <1>2, <1>4, <1>5
  <2>2. \E x \in E : \A j \in E : x <= j
    <3> HIDE DEF E
    <3> QED BY <2>1, LeastNatural
  <2>3. k \in E /\ \A j \in E : k <= j
    <3> HIDE DEF E
    <3> QED BY <2>2
  <2>4. \E x \in M : \A j \in M : x <= j
    BY <1>4, <2>2
  <2>5. i \in M /\ \A j \in M : i <= j
    <3> HIDE DEF M
    <3> QED BY <2>4
  <2>6. Lists!Position(b, rec.flow) = i
    BY DEF Lists!Position
  <2>7. Match(rec) = hs[k]
    BY <1>1 DEF Match
  <2> HIDE DEF i, k
  <2>8. E = M
    BY <1>4
  <2> HIDE DEF E, M
  <2>9. i = k /\ i \in E
    BY <2>1, <2>3, <2>5, <2>8
  <2>10. i \in 1 .. Len(hs)
    BY <1>4, <2>9 DEF E
  <2> QED BY <1>3, <2>6, <2>7, <2>9, <2>10
<1> QED BY <1>3, <1>4, <1>5

\* Linked, field by field.
AreLinked(L, heap, ptr, cur, len) ==
    /\ Typed(L) /\ DOMAIN L = DOMAIN heap
    /\ \A m \in DOMAIN heap :
          /\ L[m].nextlink = heap[m].nextlink
          /\ L[m].nextdata = IF m = heap[ptr].tail THEN cur ELSE heap[m].nextdata
          /\ L[m].tail = IF m = ptr THEN cur ELSE heap[m].tail
          /\ L[m].data.flow = heap[m].data.flow
          /\ L[m].data.len = heap[m].data.len
          /\ L[m].data.sec = heap[m].data.sec
          /\ L[m].data.file_offset = heap[m].data.file_offset
                                     + IF m = ptr THEN len ELSE 0

LEMMA LinkedFields ==
    ASSUME NEW heap, Typed(heap), NEW ptr \in DOMAIN heap, NEW cur \in DOMAIN heap,
           heap[ptr].tail \in DOMAIN heap, cur # ptr, NEW len \in Nat,
           NEW L, L = Linked(heap, ptr, cur, len)
    PROVE  AreLinked(L, heap, ptr, cur, len)
<1> DEFINE last == heap[ptr].tail
           g == [heap EXCEPT ![last].nextdata = cur]
<1>1. /\ DOMAIN heap \subseteq Nodes /\ cur \in Pointer
      /\ \A m \in DOMAIN heap : heap[m] \in LinkNode
  BY DEF Typed, Pointer
<1>2. /\ DOMAIN g = DOMAIN heap
      /\ \A m \in DOMAIN heap :
            /\ g[m] \in LinkNode /\ g[m].nextlink = heap[m].nextlink
            /\ g[m].nextdata = IF m = last THEN cur ELSE heap[m].nextdata
            /\ g[m].tail = heap[m].tail /\ g[m].data = heap[m].data
  BY <1>1 DEF LinkNode
<1>3. g = [m \in DOMAIN heap |-> g[m]]
  BY <1>1 DEF Typed
<1> DEFINE d == [g[ptr].data EXCEPT !.file_offset = g[ptr].data.file_offset + len]
<1>4. L = [g EXCEPT ![ptr] = [g[ptr] EXCEPT !.tail = cur, !.data = d]]
  <2>1. L = [g EXCEPT ![ptr].tail = cur, ![ptr].data.file_offset = @ + len]
    BY DEF Linked
  <2> HIDE DEF g
  <2> QED BY <1>2, <2>1 DEF LinkNode
<1> HIDE DEF g, d
<1>5. g[ptr] \in LinkNode /\ g[ptr].data \in Data
  BY <1>2 DEF LinkNode
<1>6. /\ d \in Data /\ d.flow = g[ptr].data.flow /\ d.len = g[ptr].data.len
      /\ d.sec = g[ptr].data.sec /\ d.file_offset = g[ptr].data.file_offset + len
  BY <1>5 DEF d, Data
<1> DEFINE r == [g[ptr] EXCEPT !.tail = cur, !.data = d]
<1>7. /\ r \in LinkNode /\ r.nextlink = g[ptr].nextlink /\ r.nextdata = g[ptr].nextdata
      /\ r.tail = cur /\ r.data = d
  BY <1>1, <1>5, <1>6 DEF LinkNode
<1> HIDE DEF r
<1>8. L = [m \in DOMAIN heap |-> IF m = ptr THEN r ELSE g[m]]
  BY <1>2, <1>3, <1>4 DEF r
<1>9. Typed(L) /\ DOMAIN L = DOMAIN heap
  BY <1>1, <1>2, <1>7, <1>8 DEF Typed
<1>10. \A m \in DOMAIN heap : heap[m].data.file_offset \in Nat
  BY <1>1 DEF LinkNode, Data
<1>11. \A m \in DOMAIN heap :
          /\ L[m].nextlink = heap[m].nextlink
          /\ L[m].nextdata = IF m = heap[ptr].tail THEN cur ELSE heap[m].nextdata
          /\ L[m].tail = IF m = ptr THEN cur ELSE heap[m].tail
  BY <1>2, <1>7, <1>8
<1>12. \A m \in DOMAIN heap :
          /\ L[m].data.flow = heap[m].data.flow
          /\ L[m].data.len = heap[m].data.len
          /\ L[m].data.sec = heap[m].data.sec
          /\ L[m].data.file_offset = heap[m].data.file_offset + IF m = ptr THEN len ELSE 0
  BY <1>2, <1>6, <1>7, <1>8, <1>10
<1> QED BY <1>9, <1>11, <1>12 DEF AreLinked

\* Swapped, field by field.
AreSwapped(R, heap, tmp, ptr) ==
    /\ Typed(R) /\ DOMAIN R = DOMAIN heap
    /\ \A m \in DOMAIN heap : R[m].nextlink = heap[m].nextlink
    /\ \A m \in DOMAIN heap : m # tmp /\ m # ptr => R[m] = heap[m]
    /\ R[tmp].data = heap[ptr].data /\ R[ptr].data = heap[tmp].data
    /\ R[tmp].nextdata = heap[ptr].nextdata /\ R[ptr].nextdata = heap[tmp].nextdata
    /\ R[tmp].tail = IF heap[ptr].tail = ptr THEN tmp ELSE heap[ptr].tail
    /\ R[ptr].tail = IF heap[tmp].tail = tmp THEN ptr ELSE heap[tmp].tail

LEMMA SwappedFields ==
    ASSUME NEW heap, Typed(heap), NEW tmp \in DOMAIN heap, NEW ptr \in DOMAIN heap,
           NEW R, R = Swapped(heap, tmp, ptr)
    PROVE  AreSwapped(R, heap, tmp, ptr)
<1> DEFINE x == [heap[ptr] EXCEPT !.nextlink = heap[tmp].nextlink]
           y == [heap[tmp] EXCEPT !.nextlink = heap[ptr].nextlink]
           h == [heap EXCEPT ![tmp] = x, ![ptr] = y]
           g == IF h[tmp].tail = ptr THEN [h EXCEPT ![tmp].tail = tmp] ELSE h
<1>0. R = IF g[ptr].tail = tmp THEN [g EXCEPT ![ptr].tail = ptr] ELSE g
  BY DEF Swapped
<1>1. /\ DOMAIN heap \subseteq Nodes /\ \A m \in DOMAIN heap : heap[m] \in LinkNode
      /\ heap = [m \in DOMAIN heap |-> heap[m]] /\ tmp \in Pointer /\ ptr \in Pointer
  BY DEF Typed, Pointer
<1>2. /\ x \in LinkNode /\ x.nextlink = heap[tmp].nextlink /\ x.data = heap[ptr].data
      /\ x.nextdata = heap[ptr].nextdata /\ x.tail = heap[ptr].tail
  BY <1>1 DEF LinkNode
<1>3. /\ y \in LinkNode /\ y.nextlink = heap[ptr].nextlink /\ y.data = heap[tmp].data
      /\ y.nextdata = heap[tmp].nextdata /\ y.tail = heap[tmp].tail
  BY <1>1 DEF LinkNode
<1>4. tmp = ptr => x = heap[tmp] /\ y = heap[tmp]
  <2>1. heap[tmp] \in LinkNode
    BY <1>1
  <2> QED BY <2>1 DEF LinkNode
<1> HIDE DEF x, y
<1>5. h = [m \in DOMAIN heap |-> IF m = ptr THEN y ELSE IF m = tmp THEN x ELSE heap[m]]
  BY <1>1
<1> HIDE DEF h
<1> DEFINE x2 == IF x.tail = ptr /\ tmp # ptr THEN [x EXCEPT !.tail = tmp] ELSE x
           y2 == IF y.tail = tmp /\ tmp # ptr THEN [y EXCEPT !.tail = ptr] ELSE y
<1>6. g = [m \in DOMAIN heap |-> IF m = ptr THEN y ELSE IF m = tmp THEN x2 ELSE heap[m]]
  <2>1. CASE tmp = ptr
    <3>1. h[tmp] = y /\ y \in LinkNode
      BY <1>3, <1>5, <2>1
    <3>2. h[tmp].tail = ptr => [y EXCEPT !.tail = tmp] = y
      BY <2>1, <3>1 DEF LinkNode
    <3>3. h[tmp].tail = ptr => [h EXCEPT ![tmp].tail = tmp] = h
      BY <1>5, <3>1, <3>2
    <3> QED BY <1>5, <2>1, <3>3
  <2>2. CASE tmp # ptr
    <3>1. h[tmp] = x
      BY <1>5, <2>2
    <3> QED BY <1>5, <2>2, <3>1
  <2> QED BY <2>1, <2>2
<1> HIDE DEF g
<1>7. R = [m \in DOMAIN heap |-> IF m = ptr THEN y2 ELSE IF m = tmp THEN x2 ELSE heap[m]]
  <2>1. g[ptr] = y /\ y \in LinkNode
    BY <1>3, <1>6
  <2>2. CASE tmp = ptr
    <3>1. g[ptr].tail = tmp => [y EXCEPT !.tail = ptr] = y
      BY <2>1, <2>2 DEF LinkNode
    <3>2. g[ptr].tail = tmp => [g EXCEPT ![ptr].tail = ptr] = g
      BY <1>6, <2>1, <3>1
    <3> QED BY <1>0, <1>6, <2>2, <3>2
  <2>3. CASE tmp # ptr
    BY <1>0, <1>6, <2>1, <2>3
  <2> QED BY <2>2, <2>3
<1>8. /\ x2 \in LinkNode /\ x2.nextlink = x.nextlink /\ x2.data = x.data
      /\ x2.nextdata = x.nextdata
      /\ x2.tail = IF x.tail = ptr /\ tmp # ptr THEN tmp ELSE x.tail
  BY <1>1, <1>2 DEF LinkNode
<1>9. /\ y2 \in LinkNode /\ y2.nextlink = y.nextlink /\ y2.data = y.data
      /\ y2.nextdata = y.nextdata
      /\ y2.tail = IF y.tail = tmp /\ tmp # ptr THEN ptr ELSE y.tail
  BY <1>1, <1>3 DEF LinkNode
<1> HIDE DEF x2, y2
<1>10. Typed(R) /\ DOMAIN R = DOMAIN heap
  BY <1>1, <1>7, <1>8, <1>9 DEF Typed
<1>11. \A m \in DOMAIN heap : R[m].nextlink = heap[m].nextlink
  BY <1>2, <1>3, <1>7, <1>8, <1>9
<1>12. \A m \in DOMAIN heap : m # tmp /\ m # ptr => R[m] = heap[m]
  BY <1>7
<1>13. R[ptr] = y2 /\ (tmp # ptr => R[tmp] = x2)
  BY <1>7
<1>14. CASE tmp = ptr
  BY <1>3, <1>9, <1>10, <1>11, <1>12, <1>13, <1>14 DEF AreSwapped
<1>15. CASE tmp # ptr
  BY <1>2, <1>3, <1>8, <1>9, <1>10, <1>11, <1>12, <1>13, <1>15 DEF AreSwapped
<1> QED BY <1>14, <1>15

LEMMA TradeExists ==
    ASSUME NEW lost, NEW h, NEW heap, NEW hs, NEW cs, Shape(h, heap, hs, cs, lost),
           NEW p \in [1 .. Len(hs) -> 1 .. Len(hs)], \A j \in 1 .. Len(hs) : p[p[j]] = j
    PROVE  \E cs2 : Lengths(hs, cs2) /\ Trade(hs, cs, cs2, p)
<1> DEFINE n == Len(hs)
           c(j) == [k \in 1 .. Len(cs[p[j]]) |-> IF k = 1 THEN hs[j] ELSE cs[p[j]][k]]
           cs2 == [j \in 1 .. n |-> c(j)]
<1>1. ASSUME NEW j \in 1 .. n
      PROVE  c(j) \in Seq(Nodes) /\ Len(c(j)) = Len(cs[p[j]])
  <2>1. PICK i \in 1 .. n : i = p[j]
    OBVIOUS
  <2>2. /\ hs[j] \in Nodes /\ Len(cs[i]) \in Nat
        /\ \A k \in 1 .. Len(cs[i]) : cs[i][k] \in Nodes
    BY ShapeTypes DEF Shape
  <2>3. [k \in 1 .. Len(cs[i]) |-> IF k = 1 THEN hs[j] ELSE cs[i][k]] \in Seq(Nodes)
    BY <2>2
  <2> QED BY <2>1, <2>2, <2>3
<1>2. n \in Nat /\ hs \in Seq(Nodes)
  BY ShapeTypes DEF Shape, Lengths
<1>3. cs2 \in Seq(Seq(Nodes)) /\ Len(cs2) = n
  <2> HIDE DEF c, n
  <2> QED BY <1>1, <1>2
<1>4. \A j \in 1 .. n :
         /\ Len(cs2[j]) = Len(cs[p[j]])
         /\ \A k \in 1 .. Len(cs2[j]) : cs2[j][k] = IF k = 1 THEN hs[j] ELSE cs[p[j]][k]
  <2> TAKE j \in 1 .. n
  <2>1. cs2[j] = c(j) /\ Len(cs2[j]) = Len(cs[p[j]])
    BY <1>1
  <2> HIDE DEF cs2
  <2> QED BY <2>1
<1> HIDE DEF cs2
<1>5. Lengths(hs, cs2) /\ Trade(hs, cs, cs2, p)
  BY <1>2, <1>3, <1>4 DEF Lengths, Trade
<1> QED BY <1>5

\* PushPacket: the new node behind the chain at i, which trades places with
\* the chain in front.
LEMMA PushBehind ==
    ASSUME NEW hs, NEW cs, Typed(node), Shape(hash_table, node, hs, cs, dropped), NEW b,
           b = Description(node, cs), NEW rec \in Records, MayPush, NEW i \in 1 .. Len(hs),
           NEW heap2,
           heap2 = Swapped(Linked(Extend(Fresh, NewNode(rec)), hs[i], Fresh, rec.len),
                           hash_table, hs[i])
    PROVE  /\ Typed(heap2)
           /\ Represents(hash_table, heap2,
                         [b EXCEPT ![i] = b[1], ![1] = Lists!Grow(b[i], rec)], dropped)
           /\ DOMAIN heap2 = DOMAIN node \cup {Fresh}
<1> DEFINE cur == Fresh
           n == Len(hs)
           ptr == hs[i]
           heap1 == Extend(cur, NewNode(rec))
           L == Linked(heap1, ptr, cur, rec.len)
           cs1 == [cs EXCEPT ![i] = Append(cs[i], cur)]
           p == [j \in 1 .. n |-> IF j = 1 THEN i ELSE IF j = i THEN 1 ELSE j]
<1>0. cur \in Nodes \ DOMAIN node
  BY FreshIsNew
<1>1. /\ DOMAIN heap1 = DOMAIN node \cup {cur} /\ heap1[cur] = NewNode(rec)
      /\ \A m \in DOMAIN node : heap1[m] = node[m]
      /\ Typed(heap1)
  <2>1. heap1 = [m \in DOMAIN node \cup {cur} |-> IF m = cur THEN NewNode(rec) ELSE node[m]]
    BY DEF Extend
  <2>2. NewNode(rec) \in LinkNode
    <3>1. [flow |-> rec.flow, len |-> rec.len, sec |-> rec.sec, file_offset |-> rec.len]
             \in Data
      BY FlowTableAssumption DEF Data
    <3> QED BY <3>1 DEF NewNode, LinkNode, Pointer
  <2> HIDE DEF heap1, cur
  <2> QED BY <1>0, <2>1, <2>2 DEF Typed
<1>2. /\ n \in Nat /\ i \in 1 .. n /\ 1 \in 1 .. n /\ hash_table = hs[1]
      /\ \A j \in 1 .. n : hs[j] \in DOMAIN node
      /\ node[ptr].tail \in DOMAIN node
  <2>1. n \in Nat /\ \A j \in 1 .. n : Len(cs[j]) \in Nat /\ Len(cs[j]) > 0 /\ cs[j][1] = hs[j]
    BY ShapeTypes DEF Shape, Linear
  <2>2. \A j \in 1 .. n : 1 \in 1 .. Len(cs[j]) /\ Len(cs[j]) \in 1 .. Len(cs[j])
    BY <2>1
  <2>3. \A j \in 1 .. n : \A k \in 1 .. Len(cs[j]) : cs[j][k] \in DOMAIN node
    BY DEF Shape, Covering
  <2>4. n # 0 /\ 1 \in 1 .. n
    BY <2>1
  <2>5. hash_table = hs[1]
    BY <2>4 DEF Shape, Linear
  <2>6. node[ptr].tail = cs[i][Len(cs[i])]
    BY DEF Shape, Tails
  <2> QED BY <2>1, <2>2, <2>3, <2>4, <2>5, <2>6
<1> HIDE DEF heap1, cur
<1>3. rec.len \in Nat
  BY FlowTableAssumption
<1>4. /\ Typed(L) /\ DOMAIN L = DOMAIN heap1
      /\ \A m \in DOMAIN heap1 :
            /\ L[m].nextlink = heap1[m].nextlink
            /\ L[m].nextdata = IF m = heap1[ptr].tail THEN cur ELSE heap1[m].nextdata
            /\ L[m].tail = IF m = ptr THEN cur ELSE heap1[m].tail
            /\ L[m].data.flow = heap1[m].data.flow
            /\ L[m].data.len = heap1[m].data.len
            /\ L[m].data.sec = heap1[m].data.sec
            /\ L[m].data.file_offset = heap1[m].data.file_offset
                                       + IF m = ptr THEN rec.len ELSE 0
  <2>1. ptr \in DOMAIN heap1 /\ cur \in DOMAIN heap1 /\ cur # ptr /\ heap1[ptr].tail \in DOMAIN heap1
    BY <1>0, <1>1, <1>2
  <2>2. L = Linked(heap1, ptr, cur, rec.len)
    OBVIOUS
  <2> HIDE DEF ptr, L
  <2>3. AreLinked(L, heap1, ptr, cur, rec.len)
    BY <1>1, <1>3, <2>1, <2>2, LinkedFields
  <2> QED BY <2>3 DEF AreLinked
<1> HIDE DEF L
<1>5. Shape(hash_table, L, hs, cs1, dropped)
  <2>1. /\ DOMAIN L = DOMAIN node \cup {cur}
        /\ L[cur].nextdata = NULL
    <3>1. cur # heap1[ptr].tail
      BY <1>0, <1>1, <1>2
    <3> QED BY <1>1, <1>4, <3>1 DEF NewNode
  <2>2. \A m \in DOMAIN node :
           /\ L[m].nextlink = node[m].nextlink
           /\ L[m].nextdata = IF m = node[hs[i]].tail THEN cur ELSE node[m].nextdata
           /\ L[m].tail = IF m = hs[i] THEN cur ELSE node[m].tail
    BY <1>1, <1>2, <1>4
  <2> QED BY <1>0, <2>1, <2>2, LinkShape
<1>6. /\ Described(L, Append(cs[i], cur)) = Lists!Grow(b[i], rec)
      /\ \A j \in 1 .. n : j # i => Described(L, cs[j]) = b[j]
  <2>1. L[cur].data.len = rec.len /\ L[cur].data.sec = rec.sec
    BY <1>1, <1>4 DEF NewNode
  <2>2. \A m \in DOMAIN node : node[m].data.file_offset \in Nat
    BY DEF Typed, LinkNode, Data
  <2>3. HasGrown(L, node, ptr, cur, rec)
    BY <1>1, <1>4, <2>1, <2>2 DEF HasGrown
  <2>4. Len(cs) = n /\ \A j \in 1 .. n : b[j] = Described(node, cs[j])
    BY ShapeTypes DEF Shape, Description
  <2>5. /\ Described(L, Append(cs[i], cur)) = Lists!Grow(Described(node, cs[i]), rec)
        /\ \A j \in 1 .. n : j # i => Described(L, cs[j]) = Described(node, cs[j])
    <3> HIDE DEF n, ptr
    <3>1. /\ Shape(hash_table, node, hs, cs, dropped) /\ cur \in Nodes \ DOMAIN node /\ i \in 1 .. Len(hs)
          /\ ptr = hs[i] /\ HasGrown(L, node, ptr, cur, rec)
      BY <1>0, <2>3 DEF ptr
    <3>2. GrowthDescribed(L, node, hs, cs, i, cur, rec)
      BY ONLY <3>1, LinkDescribed
    <3> QED BY <3>2 DEF GrowthDescribed, n
  <2> QED BY <2>4, <2>5
<1>7. /\ p \in [1 .. n -> 1 .. n] /\ \A j \in 1 .. n : p[p[j]] = j
      /\ p[1] = i /\ p[i] = 1 /\ \A j \in 1 .. n : j # 1 /\ j # i => p[j] = j
  BY <1>2
<1> HIDE DEF p
<1>8. PICK cs2 : Lengths(hs, cs2) /\ Trade(hs, cs1, cs2, p)
  <2> HIDE DEF cs1
  <2> QED BY <1>5, <1>7, TradeExists
<1>9. \A j \in 1 .. n : hs[j] \in DOMAIN L /\ \A k \in 1 .. n : hs[j] = hs[k] => j = k
  <2>1. \A j \in 1 .. n : cs[j][1] = hs[j] /\ 1 \in 1 .. Len(cs[j])
    BY ShapeTypes DEF Shape, Linear
  <2>2. \A j \in 1 .. n : cs[j][1] \in DOMAIN node
    BY <2>1 DEF Shape, Covering
  <2>3. \A j, k \in 1 .. n : cs[j][1] = cs[k][1] => j = k
    BY <2>1 DEF Shape, Disjoint
  <2> QED BY <1>1, <1>2, <1>4, <2>1, <2>2, <2>3
<1>10. /\ Typed(heap2) /\ DOMAIN heap2 = DOMAIN L
       /\ \A m \in DOMAIN L : heap2[m].nextlink = L[m].nextlink
       /\ \A m \in DOMAIN L : m # hs[1] /\ m # hs[i] => heap2[m] = L[m]
       /\ heap2[hs[1]].data = L[hs[i]].data /\ heap2[hs[i]].data = L[hs[1]].data
       /\ heap2[hs[1]].nextdata = L[hs[i]].nextdata
       /\ heap2[hs[i]].nextdata = L[hs[1]].nextdata
       /\ heap2[hs[1]].tail = IF L[hs[i]].tail = hs[i] THEN hs[1] ELSE L[hs[i]].tail
       /\ heap2[hs[i]].tail = IF L[hs[1]].tail = hs[1] THEN hs[i] ELSE L[hs[1]].tail
  <2>1. heap2 = Swapped(L, hs[1], hs[i])
    BY <1>2 DEF L, heap1, cur
  <2>2. hs[1] \in DOMAIN L /\ hs[i] \in DOMAIN L
    BY <1>2, <1>9
  <2>3. AreSwapped(heap2, L, hs[1], hs[i])
    BY <1>4, <2>1, <2>2, SwappedFields
  <2> QED BY <2>3 DEF AreSwapped
<1>11. \A j \in 1 .. n :
          /\ heap2[hs[j]].nextlink = L[hs[j]].nextlink
          /\ heap2[hs[j]].nextdata = L[hs[p[j]]].nextdata
          /\ heap2[hs[j]].data = L[hs[p[j]]].data
          /\ heap2[hs[j]].tail = IF L[hs[p[j]]].tail = hs[p[j]] THEN hs[j]
                                 ELSE L[hs[p[j]]].tail
  <2> TAKE j \in 1 .. n
  <2>1. CASE j = 1
    BY <1>2, <1>7, <1>9, <1>10, <2>1
  <2>2. CASE j = i
    BY <1>2, <1>7, <1>9, <1>10, <2>2
  <2>3. CASE j # 1 /\ j # i
    <3>1. hs[j] # hs[1] /\ hs[j] # hs[i] /\ hs[j] \in DOMAIN L /\ p[j] = j
      BY <1>2, <1>7, <1>9, <2>3
    <3> QED BY <1>10, <3>1
  <2> QED BY <2>1, <2>2, <2>3
<1>12. HeadsTraded(heap2, L, hs, p)
  <2>1. \A m \in DOMAIN L : (\A j \in 1 .. n : m # hs[j]) => heap2[m] = L[m]
    BY <1>2, <1>10
  <2> QED BY <1>10, <1>11, <2>1 DEF HeadsTraded
<1>13. Shape(hash_table, heap2, hs, cs2, dropped)
  <2> HIDE DEF cs1
  <2> QED BY <1>5, <1>8, <1>12, TradeShape
<1>14. \A j \in 1 .. n : Described(heap2, cs2[j]) = Described(L, cs1[p[j]])
  <2> HIDE DEF cs1
  <2> QED BY <1>5, <1>8, <1>12, TradeDescribed
<1>15. Description(heap2, cs2) = [b EXCEPT ![i] = b[1], ![1] = Lists!Grow(b[i], rec)]
  <2>1. /\ Len(cs) = n /\ Len(cs2) = n /\ DOMAIN cs = 1 .. n
        /\ b = [j \in 1 .. n |-> b[j]]
    BY <1>8, ShapeTypes DEF Shape, Lengths, Description
  <2>2. cs1[i] = Append(cs[i], cur) /\ \A j \in 1 .. n : j # i => cs1[j] = cs[j]
    BY <1>2, <2>1
  <2> HIDE DEF cs1
  <2> DEFINE e == Lists!Grow(b[i], rec)
             b2 == [b EXCEPT ![i] = b[1], ![1] = e]
  <2>3. b2 = [j \in 1 .. n |-> IF j = 1 THEN e ELSE IF j = i THEN b[1] ELSE b[j]]
    <3> HIDE DEF e
    <3> QED BY <2>1
  <2>4. ASSUME NEW j \in 1 .. n
        PROVE  Described(heap2, cs2[j])
                  = IF j = 1 THEN e ELSE IF j = i THEN b[1] ELSE b[j]
    <3> HIDE DEF e
    <3>1. CASE j = 1
      BY <1>2, <1>6, <1>7, <1>14, <2>2, <3>1 DEF e
    <3>2. CASE j # 1 /\ j = i
      BY <1>2, <1>6, <1>7, <1>14, <2>2, <3>2
    <3>3. CASE j # 1 /\ j # i
      BY <1>2, <1>6, <1>7, <1>14, <2>2, <3>3
    <3> QED BY <3>1, <3>2, <3>3
  <2>5. Description(heap2, cs2) = [j \in 1 .. n |-> Described(heap2, cs2[j])]
    BY <2>1 DEF Description
  <2> QED BY <2>3, <2>4, <2>5
<1>16. Represents(hash_table, heap2, [b EXCEPT ![i] = b[1], ![1] = Lists!Grow(b[i], rec)], dropped)
  BY <1>13, <1>15 DEF Represents
<1>17. DOMAIN heap2 = DOMAIN node \cup {Fresh}
  BY <1>1, <1>4, <1>10 DEF cur
<1> QED BY <1>10, <1>16, <1>17

\* PushCutOff: the new node is left beside the chains.
LEMMA LeaveNode ==
    ASSUME NEW b, Typed(node), Represents(hash_table, node, b, dropped), NEW rec \in Records,
           MayPush, NEW heap2, heap2 = Extend(Fresh, NewNode(rec))
    PROVE  /\ Typed(heap2) /\ DOMAIN heap2 = DOMAIN node \cup {Fresh}
           /\ Represents(hash_table, heap2, b, dropped \cup {Fresh})
<1> DEFINE cur == Fresh
           new == NewNode(rec)
<1>1. cur \in Nodes \ DOMAIN node
  BY FreshIsNew
<1>2. new \in LinkNode
  <2>1. [flow |-> rec.flow, len |-> rec.len, sec |-> rec.sec, file_offset |-> rec.len] \in Data
    BY FlowTableAssumption DEF Data
  <2>2. NULL \in Pointer
    BY DEF Pointer
  <2> QED BY <2>1, <2>2 DEF NewNode, LinkNode
<1> HIDE DEF cur, new
<1>3. /\ DOMAIN heap2 = DOMAIN node \cup {cur} /\ heap2[cur] = new
      /\ \A m \in DOMAIN node : heap2[m] = node[m]
      /\ heap2 = [m \in DOMAIN node \cup {cur} |-> heap2[m]]
  <2>1. heap2 = [m \in DOMAIN node \cup {cur} |-> IF m = cur THEN new ELSE node[m]]
    BY DEF Extend, cur, new
  <2> QED BY <1>1, <2>1
<1>4. Typed(heap2)
  BY <1>1, <1>2, <1>3 DEF Typed
<1>5. PICK hs, cs : Shape(hash_table, node, hs, cs, dropped) /\ b = Description(node, cs)
  BY DEF Represents
<1>6. \A i \in 1 .. Len(hs) : /\ \A k \in 1 .. Len(cs[i]) : cs[i][k] \in DOMAIN node
                              /\ hs[i] \in DOMAIN node
  BY <1>5, ShapeTypes DEF Shape, Linear, Covering
<1>7. Shape(hash_table, heap2, hs, cs, dropped \cup {cur})
  <2>1. Lengths(hs, cs) /\ Disjoint(hs, cs)
    BY <1>5 DEF Shape
  <2>2. Linear(hash_table, heap2, hs, cs) /\ Tails(heap2, hs, cs)
    BY <1>3, <1>5, <1>6 DEF Shape, Linear, Tails
  <2>3. Covering(heap2, hs, cs, dropped \cup {cur})
    BY <1>1, <1>3, <1>5 DEF Shape, Covering
  <2> QED BY <2>1, <2>2, <2>3 DEF Shape
<1>8. Description(heap2, cs) = b
  <2>1. Len(cs) = Len(hs) /\ \A i \in 1 .. Len(cs) : Len(cs[i]) \in Nat /\ Len(cs[i]) > 0
    BY <1>5, ShapeTypes DEF Shape, Linear
  <2>2. ASSUME NEW i \in 1 .. Len(cs) PROVE Described(heap2, cs[i]) = Described(node, cs[i])
    BY <1>3, <1>6, <2>1, SameDescription
  <2> QED BY <1>5, <2>2 DEF Description
<1>9. Represents(hash_table, heap2, b, dropped \cup {cur})
  BY <1>7, <1>8 DEF Represents
<1> QED BY <1>3, <1>4, <1>9 DEF cur

\* ExportChain: the nodes of chain i are deleted.
Taken(heap2, hs, cs, i) ==
    heap2 = [m \in DOMAIN node \ ASet(cs[i]) |-> Relinked(node, hs, i)[m]]

\* What is left: the bucket without the chain, and as many nodes fewer as it had.
Left(heap2, hs, b, i, gone) ==
    /\ Typed(heap2)
    /\ Represents(NewHead(hs, i), heap2, Lists!Unlink(b, i), dropped)
    /\ Cardinality(DOMAIN heap2) = Cardinality(DOMAIN node) - gone
    /\ Cardinality(DOMAIN heap2 \ dropped) = Cardinality(DOMAIN node \ dropped) - gone

LEMMA TakeChain ==
    ASSUME NEW hs, NEW cs, Typed(node), Shape(hash_table, node, hs, cs, dropped), NEW b,
           b = Description(node, cs), NEW i \in 1 .. Len(hs), NEW heap2,
           Taken(heap2, hs, cs, i)
    PROVE  Left(heap2, hs, b, i, Len(cs[i]))
<1> DEFINE gone == ASet(cs[i])
           R == Relinked(node, hs, i)
           z == Len(cs[i])
<1>0. /\ Len(hs) \in Nat /\ DOMAIN node \subseteq Nodes
      /\ \A m \in DOMAIN node : node[m] \in LinkNode
      /\ \A j \in 1 .. Len(hs) : hs[j] \in DOMAIN node
      /\ cs[i] \in Seq(Nodes) /\ z \in Nat /\ \A k \in 1 .. z : cs[i][k] \in DOMAIN node
  <2>1. Len(hs) \in Nat /\ cs[i] \in Seq(Nodes) /\ z \in Nat
    BY ShapeTypes DEF Shape
  <2>2. \A j \in 1 .. Len(hs) : 1 \in 1 .. Len(cs[j]) /\ cs[j][1] = hs[j]
    BY ShapeTypes DEF Shape, Linear
  <2>3. \A j \in 1 .. Len(hs) : \A k \in 1 .. Len(cs[j]) : cs[j][k] \in DOMAIN node
    BY DEF Shape, Covering
  <2>4. DOMAIN node \subseteq Nodes /\ \A m \in DOMAIN node : node[m] \in LinkNode
    BY DEF Typed
  <2> QED BY <2>1, <2>2, <2>3, <2>4
<1>1. /\ DOMAIN R = DOMAIN node
      /\ \A m \in DOMAIN node :
            /\ R[m] \in LinkNode /\ R[m].nextdata = node[m].nextdata
            /\ R[m].tail = node[m].tail /\ R[m].data = node[m].data
            /\ R[m].nextlink = IF i > 1 /\ m = hs[i - 1] THEN node[hs[i]].nextlink
                               ELSE node[m].nextlink
  <2>1. CASE i = 1
    BY <1>0, <2>1 DEF Relinked
  <2>2. CASE i # 1
    <3>1. i > 1 /\ i - 1 \in 1 .. Len(hs)
      BY <1>0, <2>2
    <3>2. hs[i - 1] \in DOMAIN node /\ hs[i] \in DOMAIN node
      BY <1>0, <3>1
    <3>3. R = [node EXCEPT ![hs[i - 1]].nextlink = node[hs[i]].nextlink]
      BY <2>2 DEF Relinked
    <3> HIDE DEF R
    <3> QED BY <1>0, <3>1, <3>2, <3>3 DEF LinkNode
  <2> QED BY <2>1, <2>2
<1> HIDE DEF R, gone
<1>2. /\ DOMAIN heap2 = DOMAIN node \ gone /\ \A m \in DOMAIN heap2 : heap2[m] = R[m]
      /\ heap2 = [m \in DOMAIN node \ gone |-> heap2[m]]
  BY DEF Taken, R, gone
<1>3. Typed(heap2)
  BY <1>0, <1>1, <1>2 DEF Typed
<1>4. Shape(NewHead(hs, i), heap2, Without(hs, i), Without(cs, i), dropped)
  <2>1. NewHead(hs, i) = IF i = 1 THEN node[hs[1]].nextlink ELSE hash_table
    BY DEF NewHead
  <2>2. \A m \in DOMAIN heap2 :
           /\ heap2[m].nextdata = node[m].nextdata
           /\ heap2[m].tail = node[m].tail
           /\ heap2[m].nextlink = IF i > 1 /\ m = hs[i - 1] THEN node[hs[i]].nextlink
                                  ELSE node[m].nextlink
    BY <1>1, <1>2
  <2>3. DOMAIN heap2 = DOMAIN node \ ASet(cs[i])
    BY <1>2 DEF gone
  <2>4. Dropped(heap2, node, hs, cs, i)
    BY <2>2, <2>3 DEF Dropped
  <2> QED BY <2>1, <2>4, DropShape
<1>5. Description(heap2, Without(cs, i)) = Lists!Unlink(b, i)
  <2>1. \A m \in DOMAIN node \ ASet(cs[i]) : heap2[m].data = node[m].data
    BY <1>1, <1>2 DEF gone
  <2> QED BY <2>1, DropDescribed
<1>6. IsFiniteSet(DOMAIN node)
  <2>1. IsFiniteSet(Nodes)
    BY CardinalityUpTo, FlowTableAssumption DEF Nodes
  <2> QED BY <1>0, <2>1, FS_Subset
<1>7. Cardinality(gone) = z
  <2> DEFINE c == cs[i]
  <2>1. DOMAIN c = 1 .. z /\ gone = {c[k] : k \in 1 .. z}
    BY <1>0, LenProperties DEF ASet, gone
  <2>2. \A k, l \in 1 .. z : c[k] = c[l] => k = l
    BY DEF Shape, Disjoint
  <2>3. c \in [1 .. z -> gone] /\ \A m \in gone : \E k \in 1 .. z : c[k] = m
    <3>1. c \in [1 .. z -> Nodes]
      BY <1>0, LenProperties
    <3> HIDE DEF c, z
    <3> QED BY <2>1, <3>1
  <2> HIDE DEF c, z
  <2>4. c \in Injection(1 .. z, gone) /\ c \in Surjection(1 .. z, gone)
    BY <2>2, <2>3 DEF Injection, Surjection, IsInjective
  <2>5. IsFiniteSet(1 .. z) /\ Cardinality(1 .. z) = z
    BY <1>0, CardinalityUpTo
  <2> QED BY <2>4, <2>5, FS_Surjection
<1>8. /\ Cardinality(DOMAIN heap2) = Cardinality(DOMAIN node) - z
      /\ Cardinality(DOMAIN heap2 \ dropped) = Cardinality(DOMAIN node \ dropped) - z
  <2> DEFINE held == DOMAIN node \ dropped
  <2>1. DOMAIN node \cap gone = gone /\ held \cap gone = gone
    <3>1. DOMAIN cs[i] = 1 .. z
      BY <1>0, LenProperties
    <3>2. \A k \in 1 .. z : cs[i][k] \notin dropped
      BY DEF Shape, Covering
    <3> QED BY <1>0, <3>1, <3>2 DEF gone, ASet
  <2>2. Cardinality(DOMAIN node \ gone)
           = Cardinality(DOMAIN node) - Cardinality(DOMAIN node \cap gone)
    BY <1>6, FS_Difference
  <2>3. Cardinality(held \ gone) = Cardinality(held) - Cardinality(held \cap gone)
    <3>1. IsFiniteSet(held)
      BY <1>6, FS_Subset
    <3> HIDE DEF held
    <3> QED BY <3>1, FS_Difference
  <2>4. DOMAIN heap2 \ dropped = held \ gone
    BY <1>2
  <2> QED BY <1>2, <1>7, <2>1, <2>2, <2>3, <2>4
<1>9. Represents(NewHead(hs, i), heap2, Lists!Unlink(b, i), dropped)
  BY <1>4, <1>5 DEF Represents
<1> QED BY <1>3, <1>8, <1>9 DEF Left

-----------------------------------------------------------------------------
(* The invariant *)

Counted ==
    /\ bucket_size \in Nat /\ packet_num = Cardinality(DOMAIN node)
    /\ totalRecordNum = Cardinality(DOMAIN node \ dropped)

IInv ==
    /\ Typed(node)
    /\ Represents(hash_table, node, Chains, dropped)
    /\ Counted

LEMMA ChainsIs == Chains = ChainsFrom(hash_table, node)
BY DEF Chains, ChainAt, ChainsFrom

LEMMA ChainsIsNext == Chains' = ChainsFrom(hash_table', node')
BY DEF Chains, ChainAt, ChainsFrom, Heads, ChainOf, NextLink, NextData

LEMMA InitInv == Init => IInv /\ Lists!Init
<1> SUFFICES ASSUME Init PROVE IInv /\ Lists!Init
  OBVIOUS
<1>1. node = [n \in {} |-> NULL] /\ DOMAIN node = {} /\ hash_table = NULL
  BY DEF Init
<1>2. Typed(node)
  BY <1>1 DEF Typed
<1>3. Represents(hash_table, node, <<>>, dropped)
  <2>1. <<>> \in Seq(Nodes) /\ <<>> \in Seq(Seq(Nodes)) /\ Len(<<>>) = 0
    OBVIOUS
  <2>2. 1 .. 0 = {}
    OBVIOUS
  <2>3. Shape(hash_table, node, <<>>, <<>>, dropped)
    BY <1>1, <2>1, <2>2
       DEF Init, Shape, Lengths, Linear, Disjoint, Covering, Tails
  <2>4. Description(node, <<>>) = <<>>
    BY DEF Description
  <2> QED BY <2>3, <2>4 DEF Represents
<1>4. Chains = <<>>
  BY <1>2, <1>3, ChainsIs, ChainsFromIs
<1>5. Counted
  BY <1>1, FS_EmptySet DEF Init, Counted
<1> QED BY <1>2, <1>3, <1>4, <1>5 DEF IInv, Lists!Init

\* The nodes of a bucket are finitely many, and those of packets cut off among them.
LEMMA InvFinite ==
    ASSUME IInv
    PROVE  /\ IsFiniteSet(DOMAIN node) /\ dropped \subseteq DOMAIN node
           /\ Cardinality(DOMAIN node) \in Nat
           /\ IsFiniteSet(DOMAIN node \ dropped) /\ Cardinality(DOMAIN node \ dropped) \in Nat
<1>1. IsFiniteSet(Nodes)
  BY CardinalityUpTo, FlowTableAssumption DEF Nodes
<1>2. IsFiniteSet(DOMAIN node) /\ IsFiniteSet(DOMAIN node \ dropped)
  BY <1>1, FS_Subset DEF IInv, Typed
<1>3. dropped \subseteq DOMAIN node
  BY DEF IInv, Represents, Shape, Covering
<1> QED BY <1>2, <1>3, FS_CardinalityType

\* What the invariant gives a step: the shape, its chains and its head.
LEMMA InvShape ==
    ASSUME IInv
    PROVE  \E hs, cs :
              /\ Shape(hash_table, node, hs, cs, dropped) /\ Chains = Description(node, cs)
              /\ Heads(hash_table, node) = hs /\ DOMAIN hs = 1 .. Len(hs)
              /\ \A i \in 1 .. Len(hs) : ChainOf(hs[i], node) = cs[i]
              /\ hash_table \in DOMAIN node \cup {NULL}
              /\ hash_table \in Pointer /\ (hash_table = NULL <=> Len(hs) = 0)
<1>1. PICK hs, cs : Shape(hash_table, node, hs, cs, dropped) /\ Chains = Description(node, cs)
  BY DEF IInv, Represents
<1>2. /\ Heads(hash_table, node) = hs
      /\ \A i \in 1 .. Len(hs) : ChainOf(hs[i], node) = cs[i]
  BY <1>1, ShapeFollows DEF IInv
<1>3. DOMAIN hs = 1 .. Len(hs) /\ Len(hs) \in Nat
  BY <1>1, ShapeTypes DEF Shape
<1>4. /\ hash_table \in DOMAIN node \cup {NULL}
      /\ (hash_table = NULL <=> Len(hs) = 0)
  <2>1. CASE Len(hs) = 0
    BY <1>1, <2>1 DEF Shape, Linear
  <2>2. CASE Len(hs) # 0
    <3>1. 1 \in 1 .. Len(hs)
      BY <1>3, <2>2
    <3>2. hash_table = hs[1] /\ cs[1][1] = hs[1] /\ 1 \in 1 .. Len(cs[1])
          /\ hs[1] # NULL
      BY <1>1, <2>2, <3>1, ShapeTypes DEF Shape, Linear
    <3> QED BY <1>1, <2>2, <3>1, <3>2 DEF Shape, Covering
  <2> QED BY <2>1, <2>2
<1>5. hash_table \in Pointer
  BY <1>4 DEF IInv, Typed, Pointer
<1> QED BY <1>1, <1>2, <1>3, <1>4, <1>5

\* One more node and one more packet, which is linked.
LEMMA CountedPush ==
    ASSUME IInv, MayPush, DOMAIN node' = DOMAIN node \cup {Fresh}, bucket_size' \in Nat,
           packet_num' = packet_num + 1, totalRecordNum' = totalRecordNum + 1,
           dropped' = dropped
    PROVE  Counted'
<1> DEFINE held == DOMAIN node \ dropped
<1>1. Fresh \notin DOMAIN node /\ Fresh \notin dropped
  BY FreshIsNew, InvFinite
<1>2. /\ Cardinality(DOMAIN node \cup {Fresh}) = Cardinality(DOMAIN node) + 1
      /\ Cardinality(held \cup {Fresh}) = Cardinality(held) + 1
  BY <1>1, InvFinite, FS_AddElement
<1>3. DOMAIN node' \ dropped' = held \cup {Fresh}
  BY <1>1
<1>4. packet_num = Cardinality(DOMAIN node) /\ totalRecordNum = Cardinality(held)
  BY DEF IInv, Counted
<1>5. /\ packet_num' = Cardinality(DOMAIN node')
      /\ totalRecordNum' = Cardinality(DOMAIN node' \ dropped')
  BY <1>2, <1>3, <1>4
<1> QED BY <1>5 DEF Counted

\* A step that leaves the chains b leaves the invariant.
LEMMA InvNext ==
    ASSUME NEW b, Typed(node'), Represents(hash_table', node', b, dropped'), Counted'
    PROVE  IInv' /\ Chains' = b
<1>1. Chains' = b
  BY ChainsIsNext, ChainsFromIs
<1> QED BY <1>1 DEF IInv

LEMMA PushFirstStep ==
    ASSUME IInv, NEW rec \in Records, PushFirst(rec)
    PROVE  IInv' /\ Chains' = Lists!PushRecord(Chains, rec)
<1>1. PICK hs, cs : /\ Shape(hash_table, node, hs, cs, dropped) /\ Chains = Description(node, cs)
                    /\ Len(hs) = 0 /\ hash_table \in Pointer
  BY InvShape DEF PushFirst
<1>2. [NewNode(rec) EXCEPT !.tail = Fresh]
         = [NewNode(rec) EXCEPT !.nextlink = hash_table, !.tail = Fresh]
  <2>1. hash_table = NULL
    BY DEF PushFirst
  <2>2. [NewNode(rec) EXCEPT !.nextlink = NULL] = NewNode(rec)
    BY DEF NewNode
  <2> QED BY <2>1, <2>2
<1>3. /\ node' = Extend(Fresh, [NewNode(rec) EXCEPT !.nextlink = hash_table, !.tail = Fresh])
      /\ hash_table' = Fresh /\ MayPush
  BY <1>2 DEF PushFirst
<1>4. Typed(node) /\ Represents(hash_table, node, Chains, dropped)
  BY DEF IInv
<1>5. /\ Typed(node') /\ Represents(Fresh, node', <<Lists!NewChain(rec)>> \o Chains, dropped)
      /\ DOMAIN node' = DOMAIN node \cup {Fresh}
  BY <1>1, <1>3, <1>4, PushNew
<1>6. Counted' /\ dropped' = dropped
  BY <1>3, <1>5, CountedPush DEF PushFirst
<1>7. Lists!PushRecord(Chains, rec) = <<Lists!NewChain(rec)>> \o Chains
  <2>1. Len(cs) = 0
    BY <1>1, ShapeTypes DEF Shape
  <2>2. DOMAIN Chains = {}
    BY <1>1, <2>1 DEF Description
  <2> QED BY <2>2 DEF Lists!PushRecord, Lists!Matches
<1> QED BY <1>3, <1>5, <1>6, <1>7, InvNext

LEMMA PushFlowStep ==
    ASSUME IInv, NEW rec \in Records, PushFlow(rec)
    PROVE  IInv' /\ Chains' = Lists!PushRecord(Chains, rec)
<1>1. PICK hs, cs : /\ Shape(hash_table, node, hs, cs, dropped) /\ Chains = Description(node, cs)
                    /\ hash_table \in Pointer
  BY InvShape
<1>2. [NewNode(rec) EXCEPT !.tail = Fresh, !.nextlink = hash_table]
         = [NewNode(rec) EXCEPT !.nextlink = hash_table, !.tail = Fresh]
  BY DEF NewNode
<1>3. /\ node' = Extend(Fresh, [NewNode(rec) EXCEPT !.nextlink = hash_table, !.tail = Fresh])
      /\ hash_table' = Fresh /\ MayPush
  BY <1>2 DEF PushFlow
<1>4. Typed(node) /\ Represents(hash_table, node, Chains, dropped)
  BY DEF IInv
<1>5. /\ Typed(node') /\ Represents(Fresh, node', <<Lists!NewChain(rec)>> \o Chains, dropped)
      /\ DOMAIN node' = DOMAIN node \cup {Fresh}
  BY <1>1, <1>3, <1>4, PushNew
<1>6. Counted' /\ dropped' = dropped
  BY <1>3, <1>5, CountedPush DEF PushFlow, IInv, Counted
<1>7. Lists!PushRecord(Chains, rec) = <<Lists!NewChain(rec)>> \o Chains
  <2>1. Lists!Matches(Chains, rec.flow) = {}
    BY <1>1, <1>4, MatchIs DEF PushFlow
  <2> QED BY <2>1 DEF Lists!PushRecord
<1> QED BY <1>3, <1>5, <1>6, <1>7, InvNext

LEMMA PushPacketStep ==
    ASSUME IInv, NEW rec \in Records, PushPacket(rec)
    PROVE  IInv' /\ Chains' = Lists!PushRecord(Chains, rec)
<1>1. PICK hs, cs : Shape(hash_table, node, hs, cs, dropped) /\ Chains = Description(node, cs)
  BY InvShape
<1>2. Typed(node) /\ Represents(hash_table, node, Chains, dropped)
  BY DEF IInv
<1>3. Equal(rec) = Lists!Matches(Chains, rec.flow) /\ Equal(rec) # {}
  BY <1>1, <1>2, MatchIs DEF PushPacket
<1>4. PICK i \in 1 .. Len(hs) :
         /\ i = Lists!Position(Chains, rec.flow) /\ Match(rec) = hs[i]
         /\ Chains[i].file_offset = node[hs[i]].data.file_offset
  BY <1>1, <1>2, <1>3, MatchIs
<1>5. /\ node' = Swapped(Linked(Extend(Fresh, NewNode(rec)), hs[i], Fresh, rec.len),
                         hash_table, hs[i])
      /\ MayPush /\ hash_table' = hash_table
  BY <1>4 DEF PushPacket
<1> DEFINE b2 == [Chains EXCEPT ![i] = Chains[1], ![1] = Lists!Grow(Chains[i], rec)]
<1>6. /\ Typed(node') /\ Represents(hash_table, node', b2, dropped)
      /\ DOMAIN node' = DOMAIN node \cup {Fresh}
  BY <1>1, <1>2, <1>5, PushBehind
<1>7. Counted' /\ dropped' = dropped
  BY <1>5, <1>6, CountedPush DEF PushPacket, IInv, Counted
<1>8. Lists!PushRecord(Chains, rec) = b2
  <2>1. Chains[i].file_offset + rec.len <= CutOff
    BY <1>4 DEF PushPacket
  <2>2. ~(Chains[i].file_offset + rec.len > CutOff)
    <3>1. hs[i] \in DOMAIN node
      BY <1>1, ShapeTypes DEF Shape, Linear, Covering
    <3>2. node[hs[i]].data.file_offset \in Nat
      BY <1>2, <3>1 DEF Typed, LinkNode, Data
    <3> QED BY <1>4, <2>1, <3>2, FlowTableAssumption
  <2>3. ~Lists!CutsOff(Chains, rec)
    BY <1>4, <2>2 DEF Lists!CutsOff
  <2>4. Lists!Matches(Chains, rec.flow) # {}
    BY <1>3
  <2> QED BY <1>4, <2>3, <2>4 DEF Lists!PushRecord
<1> HIDE DEF b2
<1> QED BY <1>5, <1>6, <1>7, <1>8, InvNext

LEMMA PushCutOffStep ==
    ASSUME IInv, NEW rec \in Records, PushCutOff(rec)
    PROVE  IInv' /\ Chains' = Lists!PushRecord(Chains, rec)
<1>1. PICK hs, cs : Shape(hash_table, node, hs, cs, dropped) /\ Chains = Description(node, cs)
  BY InvShape
<1>2. Typed(node) /\ Represents(hash_table, node, Chains, dropped)
  BY DEF IInv
<1>3. Equal(rec) = Lists!Matches(Chains, rec.flow) /\ Equal(rec) # {}
  BY <1>1, <1>2, MatchIs DEF PushCutOff
<1>4. PICK i \in 1 .. Len(hs) :
         /\ i = Lists!Position(Chains, rec.flow) /\ Match(rec) = hs[i]
         /\ Chains[i].file_offset = node[hs[i]].data.file_offset
  BY <1>1, <1>2, <1>3, MatchIs
<1>5. Lists!PushRecord(Chains, rec) = Chains
  <2>1. Lists!CutsOff(Chains, rec)
    BY <1>3, <1>4 DEF PushCutOff, Lists!CutsOff
  <2> QED BY <1>3, <2>1 DEF Lists!PushRecord
<1>6. /\ hash_table' = hash_table /\ node' = Extend(Fresh, NewNode(rec)) /\ MayPush
      /\ dropped' = dropped \cup {Fresh} /\ bucket_size' = bucket_size
      /\ packet_num' = packet_num + 1 /\ totalRecordNum' = totalRecordNum
  BY DEF PushCutOff
<1>7. /\ Typed(node') /\ DOMAIN node' = DOMAIN node \cup {Fresh}
      /\ Represents(hash_table', node', Chains, dropped')
  <2> DEFINE heap2 == Extend(Fresh, NewNode(rec))
  <2>1. /\ Typed(heap2) /\ DOMAIN heap2 = DOMAIN node \cup {Fresh}
        /\ Represents(hash_table, heap2, Chains, dropped \cup {Fresh})
    BY <1>2, <1>6, LeaveNode
  <2> HIDE DEF heap2
  <2>2. node' = heap2
    BY <1>6 DEF heap2
  <2> QED BY <1>6, <2>1, <2>2
<1>8. Counted'
  <2>1. Fresh \notin DOMAIN node
    BY <1>6, FreshIsNew
  <2>2. Cardinality(DOMAIN node \cup {Fresh}) = Cardinality(DOMAIN node) + 1
    BY <2>1, InvFinite, FS_AddElement
  <2>3. DOMAIN node' \ dropped' = DOMAIN node \ dropped
    BY <1>6, <1>7, <2>1
  <2> QED BY <1>6, <1>7, <2>2, <2>3 DEF IInv, Counted
<1> QED BY <1>5, <1>7, <1>8, InvNext

LEMMA ExportChainStep ==
    ASSUME IInv, NEW i \in DOMAIN Heads(hash_table, node), ExportChain(i)
    PROVE  IInv' /\ i \in DOMAIN Chains /\ Chains' = Lists!Unlink(Chains, i)
<1>1. PICK hs, cs : /\ Shape(hash_table, node, hs, cs, dropped) /\ Chains = Description(node, cs)
                    /\ Heads(hash_table, node) = hs /\ DOMAIN hs = 1 .. Len(hs)
                    /\ \A j \in 1 .. Len(hs) : ChainOf(hs[j], node) = cs[j]
  BY InvShape
<1>2. Typed(node) /\ i \in 1 .. Len(hs) /\ ChainOf(hs[i], node) = cs[i]
  BY <1>1 DEF IInv
<1>3. i \in DOMAIN Chains
  BY <1>1, <1>2 DEF Chains
<1>4. /\ hash_table' = NewHead(hs, i)
      /\ Taken(node', hs, cs, i)
      /\ totalRecordNum' = totalRecordNum - Len(cs[i])
      /\ packet_num' = packet_num - Len(cs[i])
      /\ bucket_size' = bucket_size /\ dropped' = dropped
  BY <1>1, <1>2 DEF ExportChain, Taken
<1>5. /\ Typed(node') /\ Represents(hash_table', node', Lists!Unlink(Chains, i), dropped)
      /\ Cardinality(DOMAIN node') = Cardinality(DOMAIN node) - Len(cs[i])
      /\ Cardinality(DOMAIN node' \ dropped) = Cardinality(DOMAIN node \ dropped) - Len(cs[i])
  <2>1. Left(node', hs, Chains, i, Len(cs[i]))
    <3>1. /\ Typed(node) /\ Shape(hash_table, node, hs, cs, dropped)
          /\ Chains = Description(node, cs) /\ i \in 1 .. Len(hs) /\ Taken(node', hs, cs, i)
      BY <1>1, <1>2, <1>4
    <3> QED BY ONLY <3>1, TakeChain
  <2> QED BY <1>4, <2>1 DEF Left
<1>6. Counted'
  BY <1>4, <1>5 DEF IInv, Counted
<1> QED BY <1>3, <1>4, <1>5, <1>6, InvNext

\* Every step keeps the invariant and is a step of FlowLists or a stutter.
LEMMA StepInv ==
    ASSUME IInv, [Next]_vars
    PROVE  IInv' /\ [Lists!Next]_Chains
<1>1. ASSUME NEW rec \in Records, \/ PushFirst(rec) \/ PushFlow(rec)
                                  \/ PushPacket(rec) \/ PushCutOff(rec)
      PROVE  IInv' /\ Lists!Next
  <2>1. IInv' /\ Chains' = Lists!PushRecord(Chains, rec)
    BY <1>1, PushFirstStep, PushFlowStep, PushPacketStep, PushCutOffStep
  <2> QED BY <2>1 DEF Lists!Next, Lists!Push
<1>2. ASSUME NEW i \in DOMAIN Heads(hash_table, node), ExportChain(i)
      PROVE  IInv' /\ Lists!Next
  BY <1>2, ExportChainStep DEF Lists!Next, Lists!Export
<1>3. ASSUME UNCHANGED vars PROVE IInv' /\ UNCHANGED Chains
  <2>1. UNCHANGED <<hash_table, node, packet_num, bucket_size, totalRecordNum, dropped>>
    BY <1>3 DEF vars
  <2>2. Typed(node') /\ Represents(hash_table', node', Chains, dropped') /\ Counted'
    BY <2>1 DEF IInv, Counted
  <2> QED BY <2>2, InvNext
<1> QED BY <1>1, <1>2, <1>3 DEF Next, Drained

LEMMA InvHolds == Spec => []IInv
<1>1. Init => IInv
  BY InitInv
<1>2. IInv /\ [Next]_vars => IInv'
  BY StepInv
<1> QED BY <1>1, <1>2, PTL DEF Spec

LEMMA TypeFollows == IInv => TypeOK
<1> SUFFICES ASSUME IInv PROVE TypeOK
  OBVIOUS
<1>1. hash_table \in DOMAIN node \cup {NULL}
  BY InvShape
<1>2. DOMAIN node \subseteq Nodes /\ \A n \in DOMAIN node : node[n] \in LinkNode
  BY DEF IInv, Typed
<1>3. packet_num \in Nat /\ totalRecordNum \in Nat /\ dropped \subseteq DOMAIN node
  BY InvFinite DEF IInv, Counted
<1> QED BY <1>1, <1>2, <1>3 DEF TypeOK, IInv, Counted

LEMMA TailsFollow == IInv => TailIsLast
<1> SUFFICES ASSUME IInv PROVE TailIsLast
  OBVIOUS
<1>1. PICK hs, cs : /\ Shape(hash_table, node, hs, cs, dropped)
                    /\ Heads(hash_table, node) = hs /\ DOMAIN hs = 1 .. Len(hs)
                    /\ \A i \in 1 .. Len(hs) : ChainOf(hs[i], node) = cs[i]
  BY InvShape
<1>2. HeadSet = {hs[i] : i \in 1 .. Len(hs)}
  BY <1>1 DEF HeadSet, ASet
<1>3. ASSUME NEW i \in 1 .. Len(hs)
      PROVE  LET c == ChainOf(hs[i], node) IN node[hs[i]].tail = c[Len(c)]
  BY <1>1 DEF Shape, Tails
<1> QED BY <1>2, <1>3 DEF TailIsLast

LEMMA ChainsFollow == IInv => NodesOnOneChain
<1> SUFFICES ASSUME IInv PROVE NodesOnOneChain
  OBVIOUS
<1>1. PICK hs, cs : /\ Shape(hash_table, node, hs, cs, dropped)
                    /\ Heads(hash_table, node) = hs /\ DOMAIN hs = 1 .. Len(hs)
                    /\ \A i \in 1 .. Len(hs) : ChainOf(hs[i], node) = cs[i]
  BY InvShape
<1>2. HeadSet = {hs[i] : i \in 1 .. Len(hs)}
  BY <1>1 DEF HeadSet, ASet
<1>3. \A i \in 1 .. Len(hs) : ASet(ChainOf(hs[i], node)) = {cs[i][k] : k \in 1 .. Len(cs[i])}
  <2> TAKE i \in 1 .. Len(hs)
  <2>1. DOMAIN cs[i] = 1 .. Len(cs[i])
    BY <1>1, ShapeTypes, LenProperties DEF Shape
  <2> QED BY <1>1, <2>1 DEF ASet
<1>4. UNION {ASet(ChainOf(h, node)) : h \in HeadSet} = DOMAIN node \ dropped
  <2>1. ASSUME NEW h \in HeadSet PROVE ASet(ChainOf(h, node)) \subseteq DOMAIN node \ dropped
    <3>1. PICK i \in 1 .. Len(hs) : h = hs[i]
      BY <1>2
    <3>2. \A k \in 1 .. Len(cs[i]) : cs[i][k] \in DOMAIN node \ dropped
      BY <1>1 DEF Shape, Covering
    <3>3. ASet(ChainOf(h, node)) = {cs[i][k] : k \in 1 .. Len(cs[i])}
      BY <1>3, <3>1
    <3> QED BY <3>2, <3>3
  <2>2. ASSUME NEW m \in DOMAIN node \ dropped
        PROVE  \E h \in HeadSet : m \in ASet(ChainOf(h, node))
    <3>1. PICK i \in 1 .. Len(hs) : \E k \in 1 .. Len(cs[i]) : cs[i][k] = m
      BY <1>1 DEF Shape, Covering
    <3>2. hs[i] \in HeadSet /\ m \in ASet(ChainOf(hs[i], node))
      BY <1>2, <1>3, <3>1
    <3> QED BY <3>2
  <2> QED BY <2>1, <2>2
<1>5. ASSUME NEW g \in HeadSet, NEW h \in HeadSet, g # h
      PROVE  ASet(ChainOf(g, node)) \cap ASet(ChainOf(h, node)) = {}
  <2>1. PICK i \in 1 .. Len(hs) : g = hs[i]
    BY <1>2
  <2>2. PICK j \in 1 .. Len(hs) : h = hs[j]
    BY <1>2
  <2>3. i # j
    BY <1>5, <2>1, <2>2
  <2>4. \A k \in 1 .. Len(cs[i]), l \in 1 .. Len(cs[j]) : cs[i][k] # cs[j][l]
    BY <1>1, <2>3 DEF Shape, Disjoint
  <2> QED BY <1>3, <2>1, <2>2, <2>4
<1> QED BY <1>4, <1>5 DEF NodesOnOneChain, IInv, Counted

\* The heap of a bucket is well typed, its head pointer is NULL or a node that
\* exists, and the counters stay natural numbers: the chains exported never
\* count off more than was counted (exporter.cpp:171, 252, 361).
THEOREM FlowTableTypeCorrect == Spec => []TypeOK
<1>1. IInv => TypeOK
  BY TypeFollows
<1> QED BY <1>1, InvHolds, PTL

\* For any number of nodes and packets, the tail of every head is the last
\* node of its own chain, through the appends, swaps and exports.
THEOREM TailIsLastHolds == Spec => []TailIsLast
<1>1. IInv => TailIsLast
  BY TailsFollow
<1> QED BY <1>1, InvHolds, PTL

\* Whatever is pushed, cut off and exported, exactly the nodes of packets that were
\* cut off are on no chain; every other node is on exactly one, no chain leads to a
\* deleted node, totalRecordNum counts the nodes on chains and packet_num all of them.
THEOREM NodesOnOneChainHolds == Spec => []NodesOnOneChain
<1>1. IInv => NodesOnOneChain
  BY ChainsFollow
<1> QED BY <1>1, InvHolds, PTL

\* push_record and the export, pointer by pointer, implement PushRecord and
\* Unlink on the list of chains that ScanIndex works with.
THEOREM ImplementsListsHolds == Spec => ImplementsLists
<1>1. Init => Lists!Init
  BY InitInv
<1>2. IInv /\ [Next]_vars => [Lists!Next]_Chains
  BY StepInv
<1> QED BY <1>1, <1>2, InvHolds, PTL DEF Spec, ImplementsLists, Lists!Spec
=============================================================================
