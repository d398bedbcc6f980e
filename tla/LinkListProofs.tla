--------------------------- MODULE LinkListProofs ---------------------------
(***************************************************************************)
(* Theorems about the lists of linklist.h and the pool of their nodes, as  *)
(* long as no two calls of getLinkNode overlap: no node is lost or in two  *)
(* places, skips lead forward, and the lists hold the values that          *)
(* ValueLists says.  The run of MCListPool.cfg shows that two overlapping  *)
(* calls break all of it.                                                  *)
(***************************************************************************)
EXTENDS LinkList, DataLemmas

\* No two threads are in getLinkNode.
NoOverlap == \A t, u \in Threads : adding[t] # Idle /\ adding[u] # Idle => t = u

Pointer == Nodes \cup {NULL}
LinkNode == [data : Values \cup {0}, next : Pointer, skip : Pointer]

LEMMA NodesCount ==
    /\ IsFiniteSet(Nodes) /\ Cardinality(Nodes) = PoolSize /\ PoolSize \in Nat
    /\ NULL \notin Nodes
<1>1. PoolSize \in Nat
  BY PoolAssumption
<1> QED BY <1>1, CardinalityUpTo DEF Nodes, NULL

-----------------------------------------------------------------------------
(* The pool *)

Elems(s) == {s[i] : i \in 1 .. Len(s)}
Once(s) == \A i, j \in 1 .. Len(s) : s[i] = s[j] => i = j
Slots(arr, k) == {arr[i] : i \in 0 .. k - 1}

\* The nodes F and the nodes own[l] of every list l are all nodes, and no node
\* is among two of them.
Split(F, own) ==
    /\ own \in [Lists -> SUBSET Nodes]
    /\ F \subseteq Nodes
    /\ \A l \in Lists : own[l] \cap F = {}
    /\ \A l, m \in Lists : l # m => own[l] \cap own[m] = {}
    /\ F \cup UNION {own[l] : l \in Lists} = Nodes

\* The first k slots of arr are what no list has.
Pool(arr, k, own) ==
    /\ arr \in [0 .. ArraySize - 1 -> Pointer] /\ k \in 0 .. ArraySize
    /\ \A i, j \in 0 .. k - 1 : arr[i] = arr[j] => i = j
    /\ Split(Slots(arr, k), own)

LEMMA PoolTake ==
    ASSUME NEW arr, NEW k, NEW own, Pool(arr, k, own), k > 0, NEW l \in Lists,
           NEW n, n = arr[k - 1]
    PROVE  /\ n \in Nodes /\ \A m \in Lists : n \notin own[m]
           /\ Pool(arr, k - 1, [own EXCEPT ![l] = @ \cup {n}])
<1> DEFINE F == Slots(arr, k)
           G == Slots(arr, k - 1)
           own2 == [own EXCEPT ![l] = @ \cup {n}]
<1>1. ArraySize \in Nat /\ k \in Nat /\ k - 1 \in 0 .. ArraySize /\ k - 1 \in 0 .. k - 1
  BY PoolAssumption DEF Pool
<1>2. G = F \ {n} /\ n \in F
  <2>1. n \in F
    BY <1>1 DEF Slots
  <2>2. ASSUME NEW i \in 0 .. k - 2 PROVE arr[i] \in F /\ arr[i] # n
    BY <1>1 DEF Slots, Pool
  <2>3. ASSUME NEW x \in F, x # n PROVE x \in G
    <3>1. PICK i \in 0 .. k - 1 : x = arr[i]
      BY DEF Slots
    <3>2. i \in 0 .. k - 2
      BY <1>1, <2>3, <3>1
    <3> QED BY <1>1, <3>1, <3>2 DEF Slots
  <2>4. \A x \in G : x \in F /\ x # n
    BY <1>1, <2>2 DEF Slots
  <2> QED BY <2>1, <2>3, <2>4
<1>3. Split(F, own)
  BY DEF Pool
<1> HIDE DEF F, G
<1>4. n \in Nodes /\ \A m \in Lists : n \notin own[m]
  BY <1>2, <1>3 DEF Split
<1>5. /\ own2 \in [Lists -> SUBSET Nodes]
      /\ \A m \in Lists : own2[m] = IF m = l THEN own[m] \cup {n} ELSE own[m]
  BY <1>3, <1>4 DEF Split
<1> HIDE DEF own2
<1>6. Split(G, own2)
  <2>1. G \subseteq Nodes /\ \A m \in Lists : own2[m] \cap G = {}
    BY <1>2, <1>3, <1>5 DEF Split
  <2>2. \A m, r \in Lists : m # r => own2[m] \cap own2[r] = {}
    BY <1>3, <1>4, <1>5 DEF Split
  <2>3. ASSUME NEW x \in Nodes PROVE x \in G \cup UNION {own2[m] : m \in Lists}
    <3>1. CASE x = n
      BY <1>5, <3>1
    <3>2. CASE x \in F /\ x # n
      BY <1>2, <3>2
    <3>3. CASE x \notin F
      <4>1. PICK m \in Lists : x \in own[m]
        BY <1>3, <3>3 DEF Split
      <4>2. x \in own2[m]
        BY <1>5, <4>1
      <4> QED BY <4>2
    <3> QED BY <3>1, <3>2, <3>3
  <2>4. \A m \in Lists : own2[m] \subseteq Nodes
    BY <1>5
  <2>5. G \cup UNION {own2[m] : m \in Lists} = Nodes
    BY <2>1, <2>3, <2>4
  <2> QED BY <1>5, <2>1, <2>2, <2>5 DEF Split
<1>7. \A i, j \in 0 .. k - 2 : arr[i] = arr[j] => i = j
  BY <1>1 DEF Pool
<1> QED BY <1>1, <1>4, <1>6, <1>7 DEF Pool, G, own2

\* freeLinkNode of a sequence s of nodes of l; the slots suffice, since no node
\* is freed twice.
Freed(arr, k, s) ==
    [i \in DOMAIN arr |-> IF i \in k .. k + Len(s) - 1 THEN s[i - k + 1] ELSE arr[i]]

LEMMA PoolGive ==
    ASSUME NEW arr, NEW k, NEW own, Pool(arr, k, own), NEW l \in Lists,
           NEW s \in Seq(Nodes), Once(s), Elems(s) \subseteq own[l]
    PROVE  Pool(Freed(arr, k, s), k + Len(s), [own EXCEPT ![l] = @ \ Elems(s)])
<1> DEFINE F == Slots(arr, k)
           E == Elems(s)
           n == Len(s)
           arr2 == Freed(arr, k, s)
           G == Slots(arr2, k + n)
           own2 == [own EXCEPT ![l] = @ \ E]
           all == [i \in 1 .. k + n |-> IF i <= k THEN arr[i - 1] ELSE s[i - k]]
<1>1. /\ ArraySize \in Nat /\ k \in Nat /\ n \in Nat /\ k \in 0 .. ArraySize
      /\ PoolSize <= ArraySize /\ PoolSize \in Nat
      /\ \A i \in 1 .. n : s[i] \in Nodes
  BY PoolAssumption, LenProperties, ElementOfSeq DEF Pool
<1>2. Split(F, own)
  BY DEF Pool
<1>3. \A i \in 0 .. k - 1 : arr[i] \in F
  BY DEF Slots
<1>4. \A i \in 1 .. n : s[i] \in E
  BY DEF Elems
<1>5. F \cap E = {}
  <2>1. E \subseteq own[l]
    OBVIOUS
  <2> HIDE DEF F, E
  <2> QED BY <1>2, <2>1 DEF Split
<1>6. k + n <= PoolSize
  <2>1. \A i \in 1 .. k + n : all[i] = IF i <= k THEN arr[i - 1] ELSE s[i - k]
    OBVIOUS
  <2>2. \A i \in 1 .. k : i - 1 \in 0 .. k - 1
    BY <1>1
  <2>3. \A i \in 1 .. k + n : ~(i <= k) => i - k \in 1 .. n
    BY <1>1
  <2>4. \A i \in 1 .. k + n : all[i] \in Nodes
    <3> HIDE DEF all, F, n
    <3>1. F \subseteq Nodes
      BY <1>2 DEF Split
    <3> QED BY <1>1, <1>3, <2>1, <2>2, <2>3, <3>1
  <2>5. all \in Seq(Nodes) /\ Len(all) = k + n
    <3>1. all \in [1 .. k + n -> Nodes]
      <4>1. all = [i \in 1 .. k + n |-> all[i]]
        OBVIOUS
      <4> HIDE DEF all, n
      <4> QED BY <2>4, <4>1
    <3>2. k + n \in Nat
      BY <1>1
    <3> HIDE DEF all, n
    <3> QED BY <3>1, <3>2
  <2>6. ASSUME NEW i \in 1 .. k + n, NEW j \in 1 .. k + n, all[i] = all[j] PROVE i = j
    <3>1. CASE i <= k /\ j <= k
      <4>1. i - 1 \in 0 .. k - 1 /\ j - 1 \in 0 .. k - 1 /\ arr[i - 1] = arr[j - 1]
        BY <1>1, <2>1, <2>6, <3>1
      <4>2. i - 1 = j - 1
        BY <4>1 DEF Pool
      <4> QED BY <4>2
    <3>2. CASE i <= k /\ ~(j <= k)
      <4>1. all[i] \in F /\ all[j] \in E
        BY <1>3, <1>4, <2>1, <2>2, <2>3, <3>2
      <4> QED BY <1>5, <2>6, <4>1
    <3>3. CASE ~(i <= k) /\ j <= k
      <4>1. all[j] \in F /\ all[i] \in E
        BY <1>3, <1>4, <2>1, <2>2, <2>3, <3>3
      <4> QED BY <1>5, <2>6, <4>1
    <3>4. CASE ~(i <= k) /\ ~(j <= k)
      <4>1. i - k \in 1 .. n /\ j - k \in 1 .. n /\ s[i - k] = s[j - k]
        BY <2>1, <2>3, <2>6, <3>4
      <4>2. i - k = j - k
        BY <4>1 DEF Once
      <4> QED BY <1>1, <4>2
    <3> QED BY <3>1, <3>2, <3>3, <3>4
  <2>7. Len(all) <= Cardinality(Nodes)
    <3> HIDE DEF all, n
    <3> QED BY <2>5, <2>6, NodesCount, OnceLength
  <2> QED BY <2>5, <2>7, NodesCount
<1>7. /\ DOMAIN arr = 0 .. ArraySize - 1 /\ \A i \in DOMAIN arr : arr[i] \in Pointer
  BY DEF Pool
<1>8. /\ \A i \in 0 .. k - 1 : arr2[i] = arr[i]
      /\ \A i \in k .. k + n - 1 : i - k + 1 \in 1 .. n /\ arr2[i] = s[i - k + 1]
  <2>1. \A i \in DOMAIN arr : arr2[i] = IF i \in k .. k + n - 1 THEN s[i - k + 1] ELSE arr[i]
    BY DEF Freed
  <2>2. \A i \in 0 .. k + n - 1 : i \in DOMAIN arr
    BY <1>1, <1>6, <1>7
  <2> HIDE DEF arr2
  <2>3. ASSUME NEW i \in 0 .. k - 1 PROVE arr2[i] = arr[i]
    BY <1>1, <2>1, <2>2
  <2>4. ASSUME NEW i \in k .. k + n - 1 PROVE i - k + 1 \in 1 .. n /\ arr2[i] = s[i - k + 1]
    BY <1>1, <2>1, <2>2
  <2> QED BY <2>3, <2>4
<1>9. arr2 \in [0 .. ArraySize - 1 -> Pointer]
  <2>1. \A i \in DOMAIN arr : (IF i \in k .. k + n - 1 THEN s[i - k + 1] ELSE arr[i]) \in Pointer
    <3>1. \A i \in k .. k + n - 1 : i - k + 1 \in 1 .. n
      BY <1>1
    <3> HIDE DEF n
    <3> QED BY <1>1, <1>7, <3>1 DEF Pointer
  <2> QED BY <1>7, <2>1 DEF Freed
<1> HIDE DEF arr2
<1>10. G = F \cup E
  <2>1. ASSUME NEW x \in G PROVE x \in F \cup E
    <3>1. PICK i \in 0 .. k + n - 1 : x = arr2[i]
      BY <1>1 DEF Slots
    <3>2. CASE i < k
      <4>1. i \in 0 .. k - 1
        BY <1>1, <3>2
      <4> HIDE DEF F
      <4> QED BY <1>3, <1>8, <3>1, <4>1
    <3>3. CASE ~(i < k)
      <4>1. i \in k .. k + n - 1
        BY <1>1, <3>3
      <4> HIDE DEF E
      <4> QED BY <1>4, <1>8, <3>1, <4>1
    <3> QED BY <3>2, <3>3
  <2>2. ASSUME NEW x \in F PROVE x \in G
    <3>1. PICK i \in 0 .. k - 1 : x = arr[i]
      BY DEF Slots
    <3>2. i \in 0 .. k + n - 1 /\ x = arr2[i]
      BY <1>1, <1>8, <3>1
    <3> QED BY <1>1, <3>2 DEF Slots
  <2>3. ASSUME NEW x \in E PROVE x \in G
    <3>1. PICK i \in 1 .. n : x = s[i]
      BY DEF Elems
    <3> DEFINE j == k + i - 1
               N == k + n
    <3>3. j \in k .. k + n - 1 /\ j - k + 1 = i /\ j \in 0 .. N - 1
      BY <1>1
    <3> HIDE DEF j, n, N
    <3>4. arr2[j] = s[j - k + 1]
      BY <1>8, <3>3
    <3>5. x = arr2[j]
      BY <3>1, <3>3, <3>4
    <3>6. x \in Slots(arr2, N)
      BY <3>3, <3>5 DEF Slots
    <3> QED BY <3>6 DEF N
  <2> HIDE DEF F, G, E
  <2> QED BY <2>1, <2>2, <2>3
<1>11. ASSUME NEW i \in 0 .. k + n - 1, NEW j \in 0 .. k + n - 1, arr2[i] = arr2[j] PROVE i = j
  <2>1. \A m \in 0 .. k + n - 1 : \/ m \in 0 .. k - 1 /\ arr2[m] = arr[m] /\ arr2[m] \in F
                                  \/ /\ m \in k .. k + n - 1 /\ m - k + 1 \in 1 .. n
                                     /\ arr2[m] = s[m - k + 1] /\ arr2[m] \in E
    <3> TAKE m \in 0 .. k + n - 1
    <3>1. m \in 0 .. k - 1 \/ m \in k .. k + n - 1
      BY <1>1
    <3> HIDE DEF F, E
    <3> QED BY <1>3, <1>4, <1>8, <3>1
  <2> HIDE DEF F, E
  <2>2. CASE arr2[i] \in F
    <3>1. i \in 0 .. k - 1 /\ j \in 0 .. k - 1 /\ arr[i] = arr[j]
      BY <1>5, <1>11, <2>1, <2>2
    <3> QED BY <3>1 DEF Pool
  <2>3. CASE arr2[i] \in E
    <3>1. i - k + 1 \in 1 .. n /\ j - k + 1 \in 1 .. n /\ s[i - k + 1] = s[j - k + 1]
      BY <1>5, <1>11, <2>1, <2>3
    <3>2. i - k + 1 = j - k + 1
      BY <3>1 DEF Once
    <3> QED BY <1>1, <3>2
  <2> QED BY <2>1, <2>2, <2>3
<1> HIDE DEF F, E, G
<1>12. /\ own2 \in [Lists -> SUBSET Nodes]
       /\ \A m \in Lists : own2[m] = IF m = l THEN own[m] \ E ELSE own[m]
  BY <1>2 DEF Split
<1> HIDE DEF own2
<1>13. Split(G, own2)
  <2>1. G \subseteq Nodes /\ E \subseteq own[l]
    BY <1>2, <1>10 DEF Split, E
  <2>2. \A m \in Lists : own2[m] \cap G = {}
    BY <1>2, <1>10, <1>12, <2>1 DEF Split
  <2>3. \A m, r \in Lists : m # r => own2[m] \cap own2[r] = {}
    BY <1>2, <1>12 DEF Split
  <2>4. ASSUME NEW x \in Nodes, x \notin G PROVE x \in UNION {own2[m] : m \in Lists}
    <3>1. x \notin F /\ x \notin E
      BY <1>10, <2>4
    <3>2. PICK m \in Lists : x \in own[m]
      BY <1>2, <3>1 DEF Split
    <3>3. x \in own2[m]
      BY <1>12, <3>1, <3>2
    <3> QED BY <3>3
  <2>5. G \cup UNION {own2[m] : m \in Lists} = Nodes
    BY <1>12, <2>1, <2>4
  <2> QED BY <1>12, <2>1, <2>2, <2>3, <2>5 DEF Split
<1>14. k + n \in 0 .. ArraySize
  BY <1>1, <1>6
<1> QED BY <1>9, <1>11, <1>13, <1>14 DEF Pool, G, own2, E, arr2

\* merge: the nodes of one list go to another.
LEMMA PoolJoin ==
    ASSUME NEW arr, NEW k, NEW own, Pool(arr, k, own), NEW a \in Lists, NEW b \in Lists, a # b,
           NEW own2 \in [Lists -> SUBSET Nodes],
           own2[a] = own[a] \cup own[b], own2[b] = {},
           \A l \in Lists : l # a /\ l # b => own2[l] = own[l]
    PROVE  Pool(arr, k, own2)
<1> DEFINE F == Slots(arr, k)
<1>1. Split(F, own)
  BY DEF Pool
<1> HIDE DEF F
<1>2. \A l \in Lists : own2[l] \cap F = {}
  <2> TAKE l \in Lists
  <2>1. own[l] \cap F = {} /\ own[a] \cap F = {} /\ own[b] \cap F = {}
    BY <1>1 DEF Split
  <2>2. own2[l] = own[l] \/ own2[l] = {} \/ own2[l] = own[a] \cup own[b]
    OBVIOUS
  <2> QED BY <2>1, <2>2
<1>3. \A l, m \in Lists : l # m => own2[l] \cap own2[m] = {}
  <2> TAKE l, m \in Lists
  <2> HAVE l # m
  <2>1. own[l] \cap own[m] = {}
    BY <1>1 DEF Split
  <2>2. \A r \in Lists : /\ r # a => own[a] \cap own[r] = {}
                         /\ r # b => own[b] \cap own[r] = {}
    BY <1>1 DEF Split
  <2>3. CASE l = a
    BY <2>2, <2>3
  <2>4. CASE m = a
    BY <2>2, <2>4
  <2>5. CASE l # a /\ m # a
    BY <2>1, <2>5
  <2> QED BY <2>3, <2>4, <2>5
<1>4. ASSUME NEW x \in Nodes, x \notin F PROVE x \in UNION {own2[l] : l \in Lists}
  <2>1. PICK m \in Lists : x \in own[m]
    BY <1>1, <1>4 DEF Split
  <2>2. CASE m = a \/ m = b
    <3>1. x \in own2[a]
      BY <2>1, <2>2
    <3> QED BY <3>1
  <2>3. CASE m # a /\ m # b
    <3>1. x \in own2[m]
      BY <2>1, <2>3
    <3> QED BY <3>1
  <2> QED BY <2>2, <2>3
<1>5. F \subseteq Nodes
  BY <1>1 DEF Split
<1>6. F \cup UNION {own2[l] : l \in Lists} = Nodes
  BY <1>4, <1>5
<1>7. Split(F, own2)
  BY <1>2, <1>3, <1>5, <1>6 DEF Split
<1> QED BY <1>7 DEF Pool, F

-----------------------------------------------------------------------------
(* One list *)

\* c are the nodes that start leads to.
Chained(h, start, c) ==
    /\ c \in Seq(Nodes) /\ Once(c)
    /\ start = IF c = <<>> THEN NULL ELSE c[1]
    /\ \A i \in 1 .. Len(c) : h[c[i]].next = IF i < Len(c) THEN c[i + 1] ELSE NULL

Ordered(h, c) ==
    /\ \A i \in 1 .. Len(c) : h[c[i]].data \in Values
    /\ \A i, j \in 1 .. Len(c) : i < j => h[c[i]].data <= h[c[j]].data

\* A skip leads to a later node of the list.
Forward(h, c) ==
    \A i \in 1 .. Len(c) :
       h[c[i]].skip = NULL \/ \E j \in i + 1 .. Len(c) : c[j] = h[c[i]].skip

\* An element may be added behind the tail.
Growing(L, c) ==
    /\ L.tail = IF c = <<>> THEN NULL ELSE c[Len(c)]
    /\ L.skip_pre = NULL \/ \E i \in 1 .. Len(c) : c[i] = L.skip_pre

ListRecord == [head : Pointer, tail : Pointer, skip_pre : Pointer, nodeCount : Nat]

Good(h, L, st, c) ==
    /\ Chained(h, L.head, c) /\ Ordered(h, c) /\ L.nodeCount = Len(c)
    /\ st = "new" => Growing(L, c)
    /\ st \in {"new", "merged"} => Forward(h, c)

LEMMA ChainedFollow ==
    ASSUME NEW h \in [Nodes -> LinkNode], NEW start, NEW c, Chained(h, start, c)
    PROVE  Follow(Nexts(h), start) = c
<1> DEFINE next == Nexts(h)
<1>1. next \in [Nodes -> Nodes \cup {NULL}] /\ \A n \in Nodes : next[n] = h[n].next
  <2>1. \A n \in Nodes : h[n].next \in Nodes \cup {NULL}
    BY DEF LinkNode, Pointer
  <2> QED BY <2>1 DEF Nexts
<1> HIDE DEF next
<1>2. DOMAIN next = Nodes
  BY <1>1
<1>3. \A i \in 1 .. Len(c) : c[i] \in Nodes
  BY ElementOfSeq DEF Chained
<1>4. IsPath(next, start, c)
  BY <1>1, <1>2, <1>3 DEF IsPath, Chained, Once
<1> QED BY <1>1, <1>4, NodesCount, FollowPath DEF next

\* What a list is depends on its own nodes only.
LEMMA GoodFrame ==
    ASSUME NEW h, NEW L, NEW st, NEW c, Good(h, L, st, c),
           NEW h2, \A i \in 1 .. Len(c) : h2[c[i]] = h[c[i]]
    PROVE  Good(h2, L, st, c)
<1>1. Chained(h2, L.head, c)
  BY DEF Good, Chained
<1>2. Ordered(h2, c)
  <2>1. \A i \in 1 .. Len(c) : h2[c[i]].data = h[c[i]].data
    OBVIOUS
  <2> QED BY <2>1 DEF Good, Ordered
<1>3. Forward(h, c) => Forward(h2, c)
  <2>1. \A i \in 1 .. Len(c) : h2[c[i]].skip = h[c[i]].skip
    OBVIOUS
  <2> QED BY <2>1 DEF Forward
<1> QED BY <1>1, <1>2, <1>3 DEF Good

LEMMA NewListGood ==
    ASSUME NEW h
    PROVE  Good(h, NewList, "new", <<>>) /\ NewList \in ListRecord
<1> DEFINE c == <<>>
<1>1. c \in Seq(Nodes) /\ Len(c) = 0
  OBVIOUS
<1> HIDE DEF c
<1>2. Chained(h, NULL, c)
  BY <1>1 DEF Chained, Once, c
<1>3. Ordered(h, c) /\ Forward(h, c)
  BY <1>1 DEF Ordered, Forward
<1>4. NewList.head = NULL /\ NewList.nodeCount = 0 /\ Growing(NewList, c)
  BY <1>1 DEF NewList, Growing, c
<1>5. NewList \in ListRecord
  BY DEF NewList, ListRecord, Pointer
<1> QED BY <1>1, <1>2, <1>3, <1>4, <1>5 DEF Good, c

\* What addElement with the node n does to the heap h2 and the list L2.
Extends(h, L, n, v, h2, L2) ==
    /\ h2 \in [Nodes -> LinkNode] /\ L2 \in ListRecord
    /\ h2[n].data = v
    /\ \A m \in Nodes :
          /\ m # n => h2[m].data = h[m].data
          /\ h2[m].next = IF L.head # NULL /\ m = L.tail THEN n
                          ELSE IF m = n THEN NULL ELSE h[m].next
          /\ h2[m].skip = IF m = L.skip_pre THEN n ELSE IF m = n THEN NULL ELSE h[m].skip
    /\ L2.head = IF L.head = NULL THEN n ELSE L.head
    /\ L2.tail = n /\ L2.nodeCount = L.nodeCount + 1
    /\ L2.skip_pre = IF L.nodeCount + 1 = SkipNum THEN L2.head
                     ELSE IF L.skip_pre = NULL THEN NULL ELSE h2[L.skip_pre].next

LEMMA LinkedExtends ==
    ASSUME NEW h \in [Nodes -> LinkNode], NEW L \in ListRecord,
           L.head # NULL => L.tail \in Nodes,
           NEW n \in Nodes, NEW v \in Values
    PROVE  LET s == Linked([heap |-> h, list |-> L], n, v)
           IN  Extends(h, L, n, v, s.heap, s.list)
<1> DEFINE fresh == Taken(h, n, v)
           tailed == IF L.head = NULL THEN fresh ELSE [fresh EXCEPT ![L.tail].next = n]
           skipped == IF L.skip_pre = NULL THEN tailed ELSE [tailed EXCEPT ![L.skip_pre].skip = n]
           head == IF L.head = NULL THEN n ELSE L.head
           skip_pre == IF L.nodeCount + 1 = SkipNum THEN head
                       ELSE IF L.skip_pre = NULL THEN NULL ELSE skipped[L.skip_pre].next
           L2 == [head |-> head, tail |-> n, nodeCount |-> L.nodeCount + 1, skip_pre |-> skip_pre]
           s == Linked([heap |-> h, list |-> L], n, v)
<1>1. s = [heap |-> skipped, list |-> L2]
  BY DEF Linked
<1>2. /\ NULL \notin Nodes /\ L.head \in Pointer /\ L.tail \in Pointer /\ L.skip_pre \in Pointer
      /\ L.nodeCount \in Nat
  BY NodesCount DEF ListRecord
<1>3. /\ fresh \in [Nodes -> LinkNode]
      /\ fresh[n] = [data |-> v, next |-> NULL, skip |-> NULL]
      /\ \A m \in Nodes : m # n => fresh[m] = h[m]
  <2>1. NewNode(v) = [data |-> v, next |-> NULL, skip |-> NULL] /\ NewNode(v) \in LinkNode
    BY DEF NewNode, LinkNode, Pointer
  <2> QED BY <2>1 DEF Taken
<1> HIDE DEF fresh
<1>4. /\ tailed \in [Nodes -> LinkNode]
      /\ \A m \in Nodes : /\ tailed[m].data = fresh[m].data /\ tailed[m].skip = fresh[m].skip
                          /\ tailed[m].next = IF L.head # NULL /\ m = L.tail THEN n ELSE fresh[m].next
  <2>1. CASE L.head = NULL
    BY <1>3, <2>1
  <2>2. CASE L.head # NULL
    <3>1. [fresh[L.tail] EXCEPT !.next = n] \in LinkNode
      BY <1>3, <2>2 DEF LinkNode, Pointer
    <3>2. tailed = [fresh EXCEPT ![L.tail] = [fresh[L.tail] EXCEPT !.next = n]]
      BY <2>2
    <3>3. /\ [fresh[L.tail] EXCEPT !.next = n].data = fresh[L.tail].data
          /\ [fresh[L.tail] EXCEPT !.next = n].skip = fresh[L.tail].skip
          /\ [fresh[L.tail] EXCEPT !.next = n].next = n
      BY <1>3, <2>2 DEF LinkNode
    <3> HIDE DEF tailed
    <3> QED BY <1>3, <2>2, <3>1, <3>2, <3>3
  <2> QED BY <2>1, <2>2
<1> HIDE DEF tailed
<1>5. /\ skipped \in [Nodes -> LinkNode]
      /\ \A m \in Nodes : /\ skipped[m].data = tailed[m].data /\ skipped[m].next = tailed[m].next
                          /\ skipped[m].skip = IF m = L.skip_pre THEN n ELSE tailed[m].skip
  <2>1. CASE L.skip_pre = NULL
    BY <1>2, <1>4, <2>1
  <2>2. CASE L.skip_pre # NULL
    <3> DEFINE p == L.skip_pre
    <3>0. p \in Nodes
      BY <1>2, <2>2 DEF Pointer
    <3>1. [tailed[p] EXCEPT !.skip = n] \in LinkNode
      BY <1>4, <3>0 DEF LinkNode, Pointer
    <3>2. skipped = [tailed EXCEPT ![p] = [tailed[p] EXCEPT !.skip = n]]
      BY <2>2
    <3>3. /\ [tailed[p] EXCEPT !.skip = n].data = tailed[p].data
          /\ [tailed[p] EXCEPT !.skip = n].next = tailed[p].next
          /\ [tailed[p] EXCEPT !.skip = n].skip = n
      BY <1>4, <3>0 DEF LinkNode
    <3> HIDE DEF skipped
    <3> QED BY <1>4, <2>2, <3>0, <3>1, <3>2, <3>3
  <2> QED BY <2>1, <2>2
<1> HIDE DEF skipped
<1>6. L2 \in ListRecord
  <2>1. head \in Pointer /\ n \in Pointer /\ L.nodeCount + 1 \in Nat
    BY <1>2 DEF Pointer
  <2>2. skip_pre \in Pointer
    <3>1. NULL \in Pointer
      BY DEF Pointer
    <3>2. L.skip_pre # NULL => L.skip_pre \in Nodes
      BY <1>2 DEF Pointer
    <3>3. L.skip_pre # NULL => skipped[L.skip_pre].next \in Pointer
      BY <1>5, <3>2 DEF LinkNode
    <3> HIDE DEF head
    <3> QED BY <2>1, <3>1, <3>3
  <2> HIDE DEF head, skip_pre
  <2> QED BY <2>1, <2>2 DEF ListRecord
<1>7. /\ skipped[n].data = v
      /\ \A m \in Nodes :
           /\ m # n => skipped[m].data = h[m].data
           /\ skipped[m].next = IF L.head # NULL /\ m = L.tail THEN n
                                ELSE IF m = n THEN NULL ELSE h[m].next
           /\ skipped[m].skip = IF m = L.skip_pre THEN n ELSE IF m = n THEN NULL ELSE h[m].skip
  BY <1>3, <1>4, <1>5
<1>8. L2.head = head /\ L2.tail = n /\ L2.nodeCount = L.nodeCount + 1 /\ L2.skip_pre = skip_pre
  OBVIOUS
<1>9. s.heap = skipped /\ s.list = L2
  BY <1>1
<1> HIDE DEF s, L2
<1>10. Extends(h, L, n, v, skipped, L2)
  BY <1>5, <1>6, <1>7, <1>8 DEF Extends
<1> QED BY <1>9, <1>10 DEF s

LEMMA AppendAt ==
    ASSUME NEW S, NEW c \in Seq(S), NEW n \in S
    PROVE  /\ Append(c, n) \in Seq(S) /\ Len(Append(c, n)) = Len(c) + 1 /\ Len(c) \in Nat
           /\ \A i \in 1 .. Len(c) + 1 : Append(c, n)[i] = IF i <= Len(c) THEN c[i] ELSE n
<1>1. /\ Append(c, n) \in Seq(S) /\ Len(Append(c, n)) = Len(c) + 1 /\ Len(c) \in Nat
      /\ \A i \in 1 .. Len(c) : Append(c, n)[i] = c[i]
      /\ Append(c, n)[Len(c) + 1] = n
  BY AppendProperties, LenProperties
<1> QED BY <1>1

LEMMA SameNode ==
    ASSUME NEW x \in LinkNode, NEW y \in LinkNode,
           x.data = y.data, x.next = y.next, x.skip = y.skip
    PROVE  x = y
BY DEF LinkNode

\* addElement adds the node behind the others.
LEMMA ExtendsGood ==
    ASSUME NEW h \in [Nodes -> LinkNode], NEW L, NEW c, Good(h, L, "new", c),
           NEW n \in Nodes, n \notin Elems(c), NEW v \in Values,
           \A i \in 1 .. Len(c) : h[c[i]].data <= v,
           NEW h2, NEW L2, Extends(h, L, n, v, h2, L2)
    PROVE  /\ Good(h2, L2, "new", Append(c, n))
           /\ \A m \in Nodes : m \notin Elems(c) /\ m # n => h2[m] = h[m]
           /\ \A i \in 1 .. Len(c) : h2[c[i]].data = h[c[i]].data
<1> DEFINE d == Append(c, n)
           k == Len(c)
<1>1. /\ c \in Seq(Nodes) /\ Once(c) /\ L.head = (IF c = <<>> THEN NULL ELSE c[1])
      /\ L.nodeCount = k /\ Growing(L, c) /\ Forward(h, c) /\ Ordered(h, c)
      /\ \A i \in 1 .. k : h[c[i]].next = IF i < k THEN c[i + 1] ELSE NULL
  BY DEF Good, Chained
<1>2. /\ d \in Seq(Nodes) /\ Len(d) = k + 1 /\ k \in Nat
      /\ \A i \in 1 .. k + 1 : d[i] = IF i <= k THEN c[i] ELSE n
  BY <1>1, AppendAt
<1>3. /\ \A i \in 1 .. k : c[i] \in Nodes /\ c[i] \in Elems(c) /\ c[i] # n
      /\ (c = <<>>) = (k = 0) /\ NULL \notin Nodes
  BY <1>1, ElementOfSeq, EmptySeq, NodesCount DEF Elems
<1> HIDE DEF d, k
<1>4. /\ L.head # NULL <=> k > 0
      /\ L.tail = IF k = 0 THEN NULL ELSE c[k]
  <2>1. k > 0 => 1 \in 1 .. k
    BY <1>2
  <2> QED BY <1>1, <1>2, <1>3, <2>1 DEF Growing, k
<1>5. /\ h2[n].next = NULL
      /\ \A i \in 1 .. k : h2[c[i]].next = IF i < k THEN c[i + 1] ELSE n
  <2>1. \A m \in Nodes : h2[m].next = IF L.head # NULL /\ m = L.tail THEN n
                                      ELSE IF m = n THEN NULL ELSE h[m].next
    BY DEF Extends
  <2>2. n # L.tail
    BY <1>2, <1>3, <1>4
  <2>3. ASSUME NEW i \in 1 .. k PROVE h2[c[i]].next = IF i < k THEN c[i + 1] ELSE n
    <3>1. k > 0 /\ k \in 1 .. k
      BY <1>2
    <3>2. c[i] = L.tail <=> i = k
      BY <1>1, <1>4, <3>1 DEF Once, k
    <3> QED BY <1>1, <1>2, <1>3, <1>4, <2>1, <3>1, <3>2
  <2> QED BY <2>1, <2>2, <2>3
<1>6. /\ L.skip_pre = NULL \/ \E i \in 1 .. k : c[i] = L.skip_pre
      /\ h2[n].skip = NULL
      /\ \A i \in 1 .. k : h2[c[i]].skip = n \/ h2[c[i]].skip = h[c[i]].skip
  <2>1. \A m \in Nodes : h2[m].skip = IF m = L.skip_pre THEN n ELSE IF m = n THEN NULL ELSE h[m].skip
    BY DEF Extends
  <2>2. L.skip_pre = NULL \/ \E i \in 1 .. k : c[i] = L.skip_pre
    BY <1>1 DEF Growing, k
  <2>3. n # L.skip_pre
    BY <1>3, <2>2
  <2> QED BY <1>3, <2>1, <2>2, <2>3
<1>7. h2[n].data = v /\ \A i \in 1 .. k : h2[c[i]].data = h[c[i]].data
  BY <1>3 DEF Extends
<1>8. Chained(h2, L2.head, d)
  <2>1. Once(d)
    <3> SUFFICES ASSUME NEW i \in 1 .. k + 1, NEW j \in 1 .. k + 1, d[i] = d[j] PROVE i = j
      BY <1>2 DEF Once
    <3>1. CASE i <= k /\ j <= k
      <4>1. i \in 1 .. k /\ j \in 1 .. k /\ c[i] = c[j]
        BY <1>2, <3>1
      <4> QED BY <1>1, <4>1 DEF Once, k
    <3>2. CASE ~(i <= k /\ j <= k)
      <4>1. i <= k => i \in 1 .. k
        BY <1>2
      <4>2. j <= k => j \in 1 .. k
        BY <1>2
      <4> QED BY <1>2, <1>3, <3>2, <4>1, <4>2
    <3> QED BY <3>1, <3>2
  <2>2. d # <<>>
    BY <1>2
  <2>3. L2.head = d[1]
    <3>1. L2.head = IF L.head = NULL THEN n ELSE L.head
      BY DEF Extends
    <3>2. 1 \in 1 .. k + 1
      BY <1>2
    <3> QED BY <1>1, <1>2, <1>3, <1>4, <3>1, <3>2
  <2>4. ASSUME NEW i \in 1 .. k + 1 PROVE h2[d[i]].next = IF i < k + 1 THEN d[i + 1] ELSE NULL
    <3>1. CASE i <= k
      <4>1. i \in 1 .. k /\ i + 1 \in 1 .. k + 1 /\ i < k + 1
        BY <1>2, <3>1
      <4>2. i < k => i + 1 <= k
        BY <1>2
      <4>3. d[i + 1] = IF i < k THEN c[i + 1] ELSE n
        BY <1>2, <4>1, <4>2
      <4> QED BY <1>2, <1>5, <3>1, <4>1, <4>3
    <3>2. CASE ~(i <= k)
      BY <1>2, <1>5, <3>2
    <3> QED BY <3>1, <3>2
  <2> QED BY <1>2, <2>1, <2>2, <2>3, <2>4 DEF Chained
<1>9. Ordered(h2, d)
  <2>1. ASSUME NEW i \in 1 .. k + 1 PROVE h2[d[i]].data \in Values
    <3>1. i <= k => i \in 1 .. k
      BY <1>2
    <3> QED BY <1>1, <1>2, <1>7, <3>1 DEF Ordered, k
  <2>2. ASSUME NEW i \in 1 .. k + 1, NEW j \in 1 .. k + 1, i < j
        PROVE  h2[d[i]].data <= h2[d[j]].data
    <3>1. i \in 1 .. k /\ i <= k
      BY <1>2, <2>2
    <3>2. CASE j <= k
      <4>1. j \in 1 .. k
        BY <1>2, <3>2
      <4>2. h[c[i]].data <= h[c[j]].data
        BY <1>1, <2>2, <3>1, <4>1 DEF Ordered, k
      <4> QED BY <1>2, <1>7, <3>1, <3>2, <4>1, <4>2
    <3>3. CASE ~(j <= k)
      <4>1. h[c[i]].data <= v
        BY <3>1 DEF k
      <4> QED BY <1>2, <1>7, <3>1, <3>3, <4>1
    <3> QED BY <3>2, <3>3
  <2> QED BY <1>2, <2>1, <2>2 DEF Ordered
<1>10. Forward(h2, d)
  <2> SUFFICES ASSUME NEW i \in 1 .. k + 1
               PROVE  h2[d[i]].skip = NULL \/ \E j \in i + 1 .. k + 1 : d[j] = h2[d[i]].skip
    BY <1>2 DEF Forward
  <2>1. CASE ~(i <= k)
    BY <1>2, <1>6, <2>1
  <2>2. CASE i <= k
    <3>1. i \in 1 .. k /\ d[i] = c[i] /\ k + 1 \in i + 1 .. k + 1 /\ d[k + 1] = n
      BY <1>2, <2>2
    <3>2. CASE h2[c[i]].skip = n
      BY <3>1, <3>2
    <3>3. CASE h2[c[i]].skip = h[c[i]].skip /\ h[c[i]].skip # NULL
      <4>1. PICK j \in i + 1 .. k : c[j] = h[c[i]].skip
        BY <1>1, <3>1, <3>3 DEF Forward, k
      <4>2. j \in i + 1 .. k + 1 /\ d[j] = c[j]
        BY <1>2, <3>1
      <4> QED BY <3>1, <3>3, <4>1, <4>2
    <3> QED BY <1>6, <3>1, <3>2, <3>3
  <2> QED BY <2>1, <2>2
<1>11. Growing(L2, d)
  <2>1. L2.tail = IF d = <<>> THEN NULL ELSE d[Len(d)]
    BY <1>2 DEF Extends
  <2>2. L2.skip_pre = NULL \/ \E i \in 1 .. k + 1 : d[i] = L2.skip_pre
    <3>1. L2.skip_pre = IF L.nodeCount + 1 = SkipNum THEN L2.head
                        ELSE IF L.skip_pre = NULL THEN NULL ELSE h2[L.skip_pre].next
      BY DEF Extends
    <3>2. 1 \in 1 .. k + 1 /\ d[1] = L2.head
      <4>1. d # <<>>
        BY <1>2
      <4> QED BY <1>2, <1>8, <4>1 DEF Chained
    <3>3. CASE L.skip_pre # NULL
      <4>1. PICK i \in 1 .. k : c[i] = L.skip_pre
        BY <1>6, <3>3
      <4>2. i + 1 \in 1 .. k + 1 /\ i \in 1 .. k + 1 /\ i < k + 1 /\ d[i] = c[i]
        BY <1>2
      <4>3. h2[d[i]].next = d[i + 1]
        BY <1>2, <1>8, <4>2 DEF Chained
      <4> QED BY <3>1, <3>2, <3>3, <4>1, <4>2, <4>3
    <3> QED BY <3>1, <3>2, <3>3
  <2> QED BY <1>2, <2>1, <2>2 DEF Growing
<1>12. L2.nodeCount = Len(d)
  BY <1>1, <1>2 DEF Extends
<1>13. \A m \in Nodes : m \notin Elems(c) /\ m # n => h2[m] = h[m]
  <2> SUFFICES ASSUME NEW m \in Nodes, m \notin Elems(c), m # n PROVE h2[m] = h[m]
    OBVIOUS
  <2>1. \A i \in 1 .. k : m # c[i]
    BY <1>3
  <2>2. m # L.tail \/ L.head = NULL
    BY <1>2, <1>4, <2>1
  <2>3. m # L.skip_pre
    BY <1>3, <1>6, <2>1
  <2>4. h2[m].data = h[m].data /\ h2[m].next = h[m].next /\ h2[m].skip = h[m].skip
    BY <2>2, <2>3 DEF Extends
  <2>5. h2[m] \in LinkNode /\ h[m] \in LinkNode
    BY DEF Extends
  <2> QED BY <2>4, <2>5, SameNode
<1> QED BY <1>7, <1>8, <1>9, <1>10, <1>11, <1>12, <1>13 DEF Good, d, k

-----------------------------------------------------------------------------
(* merge *)

LEMMA NextChanged ==
    ASSUME NEW h \in [Nodes -> LinkNode], NEW n \in Nodes, NEW x \in Pointer
    PROVE  LET h2 == [h EXCEPT ![n].next = x]
           IN  /\ h2 \in [Nodes -> LinkNode]
               /\ \A m \in Nodes :
                     /\ h2[m].data = h[m].data /\ h2[m].skip = h[m].skip
                     /\ h2[m].next = IF m = n THEN x ELSE h[m].next
                     /\ m # n => h2[m] = h[m]
<1> DEFINE node == [h[n] EXCEPT !.next = x]
           h2 == [h EXCEPT ![n] = node]
<1>1. node \in LinkNode /\ node.data = h[n].data /\ node.skip = h[n].skip /\ node.next = x
  BY DEF LinkNode, Pointer
<1>2. [h EXCEPT ![n].next = x] = h2
  OBVIOUS
<1> HIDE DEF node
<1>3. /\ h2 \in [Nodes -> LinkNode]
      /\ h2[n] = node /\ \A m \in Nodes : m # n => h2[m] = h[m]
  BY <1>1
<1> HIDE DEF h2
<1> QED BY <1>1, <1>2, <1>3

LEMMA DataNatural ==
    ASSUME NEW h \in [Nodes -> LinkNode], NEW n \in Nodes
    PROVE  h[n].data \in Nat
<1>1. h[n].data \in Values \cup {0}
  BY DEF LinkNode
<1>2. 0 \in Nat
  OBVIOUS
<1> QED BY <1>1, <1>2, ValuesAssumption, Zenon

\* Where the loop stands: s are the nodes of the list so far, curA is the p-th of
\* them, and t is what is left of the other list, from curB on.  A skip may lead from
\* a node that came from there to one that is still there.
Woven(h, head, all, r, s, p, t) ==
    /\ r.heap \in [Nodes -> LinkNode]
    /\ Chained(r.heap, head, s) /\ Chained(r.heap, r.curB, t)
    /\ p \in 1 .. Len(s) /\ r.curA = s[p]
    /\ Elems(s) \cap Elems(t) = {} /\ Elems(s) \cup Elems(t) = all
    /\ Ordered(r.heap, s) /\ Ordered(r.heap, t)
    /\ t # <<>> => r.heap[s[p]].data <= r.heap[t[1]].data
    /\ Forward(r.heap, t)
    /\ \A i \in 1 .. Len(s) :
          \/ r.heap[s[i]].skip = NULL
          \/ \E j \in i + 1 .. Len(s) : s[j] = r.heap[s[i]].skip
          \/ i <= p /\ r.heap[s[i]].skip \in Elems(t)
    /\ \A n \in Nodes : r.heap[n].data = h[n].data /\ (n \notin all => r.heap[n] = h[n])

\* What that says of single nodes.
LEMMA WovenTypes ==
    ASSUME NEW h, NEW head, NEW all, NEW r, NEW s, NEW p, NEW t, Woven(h, head, all, r, s, p, t)
    PROVE  /\ Len(s) \in Nat /\ Len(t) \in Nat /\ s \in Seq(Nodes) /\ t \in Seq(Nodes)
           /\ p \in 1 .. Len(s) /\ r.curA = s[p] /\ r.heap \in [Nodes -> LinkNode]
           /\ \A i \in 1 .. Len(s) : s[i] \in Nodes /\ s[i] \in Elems(s) /\ s[i] \notin Elems(t)
           /\ \A i \in 1 .. Len(t) : t[i] \in Nodes /\ t[i] \in Elems(t) /\ t[i] \notin Elems(s)
           /\ r.curB = IF Len(t) = 0 THEN NULL ELSE t[1]
           /\ (t = <<>>) = (Len(t) = 0)
           /\ \A i \in 1 .. Len(s) : r.heap[s[i]].next = IF i < Len(s) THEN s[i + 1] ELSE NULL
           /\ \A i \in 1 .. Len(t) : r.heap[t[i]].next = IF i < Len(t) THEN t[i + 1] ELSE NULL
           /\ \A n \in Nodes : r.heap[n].data \in Nat
           /\ NULL \notin Nodes
<1>1. s \in Seq(Nodes) /\ t \in Seq(Nodes)
  BY DEF Woven, Chained
<1>2. Len(s) \in Nat /\ Len(t) \in Nat /\ (t = <<>>) = (Len(t) = 0)
  BY <1>1, LenProperties, EmptySeq
<1>3. /\ \A i \in 1 .. Len(s) : s[i] \in Nodes /\ s[i] \in Elems(s)
      /\ \A i \in 1 .. Len(t) : t[i] \in Nodes /\ t[i] \in Elems(t)
  BY <1>1, ElementOfSeq DEF Elems
<1>4. Elems(s) \cap Elems(t) = {}
  BY DEF Woven
<1>5. \A n \in Nodes : r.heap[n].data \in Nat
  BY DataNatural DEF Woven
<1>6. r.curB = IF Len(t) = 0 THEN NULL ELSE t[1]
  BY <1>2 DEF Woven, Chained
<1>7. /\ \A i \in 1 .. Len(s) : r.heap[s[i]].next = IF i < Len(s) THEN s[i + 1] ELSE NULL
      /\ \A i \in 1 .. Len(t) : r.heap[t[i]].next = IF i < Len(t) THEN t[i + 1] ELSE NULL
  BY DEF Woven, Chained
<1>8. p \in 1 .. Len(s) /\ r.curA = s[p] /\ r.heap \in [Nodes -> LinkNode]
  BY DEF Woven
<1> QED BY <1>1, <1>2, <1>3, <1>4, <1>5, <1>6, <1>7, <1>8, NodesCount

Less(h, n, m) == n # NULL /\ h[n].data < h[m].data

\* The turns of the loop, one by one.
LEMMA TurnIs ==
    ASSUME NEW h, NEW curA, NEW curB,
           NEW r, r.heap = h, r.curA = curA, r.curB = curB,
           r = [heap |-> h, curA |-> curA, curB |-> curB],
           NEW next, next = h[curA].next, NEW skip, skip = h[curA].skip
    PROVE  /\ curB = NULL => Turn(r) = r
           /\ curB # NULL /\ Less(h, next, curB) =>
                 Turn(r) = [heap |-> h, curA |-> IF Less(h, skip, curB) THEN skip ELSE next,
                            curB |-> curB]
           /\ curB # NULL /\ next = NULL =>
                 Turn(r) = [heap |-> [h EXCEPT ![curA].next = curB], curA |-> curA, curB |-> NULL]
           /\ curB # NULL /\ next # NULL /\ ~Less(h, next, curB) =>
                 Turn(r) = [heap |-> Inserted(h, curA, curB), curA |-> curB,
                            curB |-> h[curB].next]
<1>1. CASE curB = NULL
  BY <1>1 DEF Turn
<1>2. CASE curB # NULL /\ Less(h, next, curB)
  BY <1>2 DEF Turn, Less
<1>3. CASE curB # NULL /\ next = NULL
  BY <1>3 DEF Turn, Less
<1>4. CASE curB # NULL /\ next # NULL /\ ~Less(h, next, curB)
  BY <1>4 DEF Turn, Less
<1> QED BY <1>1, <1>2, <1>3, <1>4 DEF Less

\* curA goes on in s, to a node that is still less than curB.
LEMMA WovenAlong ==
    ASSUME NEW h, NEW head, NEW all, NEW r, NEW s, NEW p, NEW t, Woven(h, head, all, r, s, p, t),
           r.curB # NULL,
           NEW next, next = r.heap[r.curA].next, NEW skip, skip = r.heap[r.curA].skip,
           Less(r.heap, next, r.curB),
           NEW r2, r2.heap = r.heap, r2.curB = r.curB,
           r2.curA = IF Less(r.heap, skip, r.curB) THEN skip ELSE next
    PROVE  \E q \in 1 .. Len(s) : p < q /\ Woven(h, head, all, r2, s, q, t)
<1> DEFINE m == Len(s)
           k == Len(t)
<1>1. /\ m \in Nat /\ k \in Nat /\ p \in 1 .. m /\ r.curA = s[p]
      /\ \A i \in 1 .. m : s[i] \in Nodes
      /\ \A i \in 1 .. k : t[i] \in Nodes
      /\ r.curB = IF k = 0 THEN NULL ELSE t[1]
      /\ (t = <<>>) = (k = 0)
      /\ \A i \in 1 .. m : r.heap[s[i]].next = IF i < m THEN s[i + 1] ELSE NULL
      /\ \A n \in Nodes : r.heap[n].data \in Nat
  BY WovenTypes
<1>2. k > 0 /\ r.curB = t[1] /\ 1 \in 1 .. k
  BY <1>1
<1>3. p < m /\ next = s[p + 1] /\ p + 1 \in 1 .. m
  BY <1>1 DEF Less
<1>4. ASSUME Less(r.heap, skip, r.curB)
      PROVE  \E j \in p + 1 .. m : s[j] = skip
  <2>1. skip # NULL /\ r.heap[skip].data < r.heap[t[1]].data
    BY <1>2, <1>4 DEF Less
  <2>2. \/ skip = NULL
        \/ \E j \in p + 1 .. m : s[j] = skip
        \/ p <= p /\ skip \in Elems(t)
    BY <1>1 DEF Woven
  <2>3. ASSUME skip \in Elems(t) PROVE FALSE
    <3>1. PICK j \in 1 .. k : skip = t[j]
      BY <2>3 DEF Elems
    <3>2. j = 1 \/ r.heap[t[1]].data <= r.heap[t[j]].data
      BY <1>2 DEF Woven, Ordered
    <3> QED BY <1>1, <1>2, <2>1, <3>1, <3>2
  <2> QED BY <2>1, <2>2, <2>3
<1>5. \E q \in 1 .. m : p < q /\ s[q] = r2.curA /\ Less(r.heap, s[q], r.curB)
  <2>1. CASE Less(r.heap, skip, r.curB)
    <3>1. PICK j \in p + 1 .. m : s[j] = skip
      BY <1>4, <2>1
    <3>2. j \in 1 .. m /\ p < j
      BY <1>1
    <3> QED BY <2>1, <3>1, <3>2
  <2>2. CASE ~Less(r.heap, skip, r.curB)
    BY <1>1, <1>3, <2>2
  <2> QED BY <2>1, <2>2
<1>6. PICK q \in 1 .. m : p < q /\ s[q] = r2.curA /\ Less(r.heap, s[q], r.curB)
  BY <1>5
<1>7. r.heap[s[q]].data <= r.heap[t[1]].data
  <2>1. r.heap[s[q]].data < r.heap[t[1]].data
    BY <1>2, <1>6 DEF Less
  <2>2. r.heap[s[q]].data \in Nat /\ r.heap[t[1]].data \in Nat
    BY <1>1, <1>2
  <2> QED BY <2>1, <2>2
<1>8. \A i \in 1 .. m : i <= p => i <= q
  BY <1>1, <1>6
<1>9. Woven(h, head, all, r2, s, q, t)
  <2> HIDE DEF m, k
  <2>1. \A i \in 1 .. Len(s) :
          \/ r2.heap[s[i]].skip = NULL
          \/ \E j \in i + 1 .. Len(s) : s[j] = r2.heap[s[i]].skip
          \/ i <= q /\ r2.heap[s[i]].skip \in Elems(t)
    BY <1>8 DEF Woven, m
  <2>2. q \in 1 .. Len(s)
    BY DEF m
  <2> QED BY <1>6, <1>7, <2>1, <2>2 DEF Woven
<1> QED BY <1>6, <1>9

LEMMA ConcatAt ==
    ASSUME NEW S, NEW s \in Seq(S), NEW t \in Seq(S)
    PROVE  /\ s \o t \in Seq(S) /\ Len(s \o t) = Len(s) + Len(t)
           /\ Len(s) \in Nat /\ Len(t) \in Nat
           /\ \A i \in 1 .. Len(s) : (s \o t)[i] = s[i] /\ i \in 1 .. Len(s) + Len(t)
           /\ \A i \in Len(s) + 1 .. Len(s) + Len(t) :
                 (s \o t)[i] = t[i - Len(s)] /\ i - Len(s) \in 1 .. Len(t)
           /\ \A i \in 1 .. Len(t) : /\ (s \o t)[Len(s) + i] = t[i]
                                     /\ Len(s) + i \in Len(s) + 1 .. Len(s) + Len(t)
           /\ \A i \in 1 .. Len(s) + Len(t) :
                 i \in 1 .. Len(s) \/ i \in Len(s) + 1 .. Len(s) + Len(t)
<1>1. /\ s \o t \in Seq(S) /\ Len(s \o t) = Len(s) + Len(t)
      /\ Len(s) \in Nat /\ Len(t) \in Nat
      /\ \A i \in 1 .. Len(s) + Len(t) : (s \o t)[i] = IF i <= Len(s) THEN s[i] ELSE t[i - Len(s)]
  BY ConcatProperties, LenProperties
<1> DEFINE c == s \o t
           m == Len(s)
           k == Len(t)
<1> HIDE DEF c, m, k
<1>2. /\ Len(c) = m + k /\ m \in Nat /\ k \in Nat
      /\ \A i \in 1 .. m + k : c[i] = IF i <= m THEN s[i] ELSE t[i - m]
  BY <1>1 DEF c, m, k
<1>3. \A i \in 1 .. m : i \in 1 .. m + k /\ i <= m
  BY <1>2
<1>4. \A i \in m + 1 .. m + k : i - m \in 1 .. k /\ i \in 1 .. m + k /\ ~(i <= m)
  BY <1>2
<1>5. ASSUME NEW i \in 1 .. k PROVE c[m + i] = t[i] /\ m + i \in m + 1 .. m + k
  <2>1. m + i \in 1 .. m + k /\ ~(m + i <= m) /\ m + i - m = i /\ m + i \in m + 1 .. m + k
    BY <1>2
  <2> DEFINE j == m + i
  <2> HIDE DEF j
  <2>2. j \in 1 .. m + k /\ ~(j <= m) /\ j - m = i
    BY <1>2 DEF j
  <2>3. c[j] = t[j - m]
    BY <1>2, <2>2
  <2> QED BY <2>1, <2>2, <2>3 DEF j
<1>6. \A i \in 1 .. m + k : i \in 1 .. m \/ i \in m + 1 .. m + k
  BY <1>2
<1> QED BY <1>1, <1>2, <1>3, <1>4, <1>5, <1>6 DEF c, m, k

LEMMA ConcatElems ==
    ASSUME NEW S, NEW s \in Seq(S), NEW t \in Seq(S)
    PROVE  /\ Elems(s \o t) = Elems(s) \cup Elems(t)
           /\ Once(s) /\ Once(t) /\ Elems(s) \cap Elems(t) = {} => Once(s \o t)
<1> DEFINE c == s \o t
           m == Len(s)
           k == Len(t)
<1>1. /\ Len(c) = m + k /\ m \in Nat /\ k \in Nat
      /\ \A i \in 1 .. m : c[i] = s[i] /\ i \in 1 .. m + k
      /\ \A i \in m + 1 .. m + k : c[i] = t[i - m] /\ i - m \in 1 .. k
      /\ \A i \in 1 .. k : c[m + i] = t[i] /\ m + i \in m + 1 .. m + k
      /\ \A i \in 1 .. m + k : i \in 1 .. m \/ i \in m + 1 .. m + k
  BY ConcatAt
<1> HIDE DEF c, m, k
<1>2. Elems(c) = {c[i] : i \in 1 .. m + k} /\ Elems(s) = {s[i] : i \in 1 .. m}
      /\ Elems(t) = {t[i] : i \in 1 .. k}
  BY <1>1 DEF Elems, m, k
<1>3. Elems(c) = Elems(s) \cup Elems(t)
  <2>1. ASSUME NEW x \in Elems(c) PROVE x \in Elems(s) \cup Elems(t)
    <3>1. PICK i \in 1 .. m + k : x = c[i]
      BY <1>2
    <3> QED BY <1>1, <1>2, <3>1
  <2>2. ASSUME NEW x \in Elems(s) PROVE x \in Elems(c)
    BY <1>1, <1>2
  <2>3. ASSUME NEW x \in Elems(t) PROVE x \in Elems(c)
    <3>1. PICK i \in 1 .. k : x = t[i]
      BY <1>2
    <3>2. m + i \in 1 .. m + k
      BY <1>1
    <3> QED BY <1>1, <1>2, <3>1, <3>2
  <2> QED BY <2>1, <2>2, <2>3
<1>4. ASSUME Once(s), Once(t), Elems(s) \cap Elems(t) = {},
             NEW i \in 1 .. m + k, NEW j \in 1 .. m + k, c[i] = c[j]
      PROVE  i = j
  <2>1. \A x \in 1 .. m + k : \/ x \in 1 .. m /\ c[x] = s[x] /\ c[x] \in Elems(s)
                              \/ x \in m + 1 .. m + k /\ c[x] = t[x - m] /\ x - m \in 1 .. k /\ c[x] \in Elems(t)
    BY <1>1, <1>2
  <2>2. CASE c[i] \in Elems(s)
    <3>1. i \in 1 .. m /\ j \in 1 .. m /\ s[i] = s[j]
      BY <1>4, <2>1, <2>2
    <3> QED BY <1>4, <3>1 DEF Once, m
  <2>3. CASE c[i] \in Elems(t)
    <3>1. i - m \in 1 .. k /\ j - m \in 1 .. k /\ t[i - m] = t[j - m]
      BY <1>4, <2>1, <2>3
    <3>2. i - m = j - m
      BY <1>4, <3>1 DEF Once, k
    <3> QED BY <1>1, <3>2
  <2> QED BY <2>1, <2>2, <2>3
<1> QED BY <1>1, <1>3, <1>4 DEF Once, c

\* The end of s: what is left goes behind it.
LEMMA WovenEnd ==
    ASSUME NEW h, NEW head, NEW all, NEW r, NEW s, NEW p, NEW t, Woven(h, head, all, r, s, p, t),
           r.curB # NULL, r.heap[r.curA].next = NULL,
           NEW r2, r2.heap = [r.heap EXCEPT ![r.curA].next = r.curB],
           r2.curA = r.curA, r2.curB = NULL
    PROVE  Woven(h, head, all, r2, s \o t, p, <<>>)
<1> DEFINE m == Len(s)
           k == Len(t)
           c == s \o t
           g == r.heap
           g2 == r2.heap
<1>1. /\ m \in Nat /\ k \in Nat /\ p \in 1 .. m /\ r.curA = s[p] /\ s \in Seq(Nodes) /\ t \in Seq(Nodes)
      /\ \A i \in 1 .. m : s[i] \in Nodes /\ s[i] \in Elems(s) /\ s[i] \notin Elems(t)
      /\ \A i \in 1 .. k : t[i] \in Nodes /\ t[i] \in Elems(t) /\ t[i] \notin Elems(s)
      /\ r.curB = IF k = 0 THEN NULL ELSE t[1]
      /\ (t = <<>>) = (k = 0)
      /\ \A i \in 1 .. m : g[s[i]].next = IF i < m THEN s[i + 1] ELSE NULL
      /\ \A i \in 1 .. k : g[t[i]].next = IF i < k THEN t[i + 1] ELSE NULL
      /\ \A n \in Nodes : g[n].data \in Nat
      /\ NULL \notin Nodes /\ g \in [Nodes -> LinkNode]
  BY WovenTypes
<1>2. /\ c \in Seq(Nodes) /\ Len(c) = m + k
      /\ \A i \in 1 .. m : c[i] = s[i] /\ i \in 1 .. m + k
      /\ \A i \in m + 1 .. m + k : c[i] = t[i - m] /\ i - m \in 1 .. k
      /\ \A i \in 1 .. k : c[m + i] = t[i] /\ m + i \in m + 1 .. m + k
      /\ \A i \in 1 .. m + k : i \in 1 .. m \/ i \in m + 1 .. m + k
  <2>1. s \in Seq(Nodes) /\ t \in Seq(Nodes)
    BY <1>1
  <2> QED BY <2>1, ConcatAt
<1>3. /\ Elems(c) = Elems(s) \cup Elems(t)
      /\ Once(s) /\ Once(t) /\ Elems(s) \cap Elems(t) = {} => Once(c)
  BY <1>1, ConcatElems
<1> HIDE DEF m, k, c
<1>4. k > 0 /\ r.curB = t[1] /\ 1 \in 1 .. k /\ p = m /\ r.curA = s[m] /\ m \in 1 .. m
  <2>1. k > 0 /\ r.curB = t[1] /\ 1 \in 1 .. k
    BY <1>1
  <2>2. ~(p < m)
    <3>1. p < m => s[p + 1] \in Nodes
      BY <1>1
    <3> QED BY <1>1, <3>1
  <2> QED BY <1>1, <2>1, <2>2
<1>5. /\ g2 \in [Nodes -> LinkNode]
      /\ \A n \in Nodes :
            /\ g2[n].data = g[n].data /\ g2[n].skip = g[n].skip
            /\ g2[n].next = IF n = s[m] THEN t[1] ELSE g[n].next
            /\ n # s[m] => g2[n] = g[n]
  <2> DEFINE x == s[m]
             y == t[1]
  <2>1. x \in Nodes /\ y \in Pointer /\ g2 = [g EXCEPT ![x].next = y]
    BY <1>1, <1>4 DEF Pointer
  <2> HIDE DEF g, g2, x, y
  <2>2. g \in [Nodes -> LinkNode]
    BY <1>1 DEF g
  <2>3. /\ g2 \in [Nodes -> LinkNode]
        /\ \A n \in Nodes :
              /\ g2[n].data = g[n].data /\ g2[n].skip = g[n].skip
              /\ g2[n].next = IF n = x THEN y ELSE g[n].next
              /\ n # x => g2[n] = g[n]
    BY <2>1, <2>2, NextChanged
  <2> QED BY <2>3 DEF x, y
<1> HIDE DEF g, g2
<1>6. Woven(h, head, all, r, s, p, t) /\ g = r.heap /\ g2 = r2.heap
  BY DEF g, g2
<1>7. Chained(g2, head, c)
  <2>1. Once(c)
    BY <1>3, <1>6 DEF Woven, Chained
  <2>2. c # <<>> /\ s # <<>> /\ 1 \in 1 .. m
    BY <1>1, <1>2, EmptySeq DEF m, c
  <2>3. head = c[1]
    BY <1>2, <1>6, <2>2 DEF Woven, Chained
  <2>4. ASSUME NEW i \in 1 .. m + k PROVE g2[c[i]].next = IF i < m + k THEN c[i + 1] ELSE NULL
    <3>1. CASE i \in 1 .. m
      <4>1. i < m + k /\ c[i] = s[i]
        BY <1>1, <1>2, <1>4, <3>1
      <4>2. CASE i = m
        <5>1. c[m + 1] = t[1]
          BY <1>2, <1>4
        <5> QED BY <1>1, <1>5, <3>1, <4>1, <4>2, <5>1
      <4>3. CASE i # m
        <5>1. i + 1 \in 1 .. m /\ i < m
          BY <1>1, <3>1, <4>3
        <5>2. s[i] # s[m]
          BY <1>4, <1>6, <3>1, <4>3 DEF Woven, Chained, Once, m
        <5>3. c[i + 1] = s[i + 1]
          BY <1>2, <5>1
        <5> QED BY <1>1, <1>5, <3>1, <4>1, <5>1, <5>2, <5>3
      <4> QED BY <4>2, <4>3
    <3>2. CASE i \in m + 1 .. m + k
      <4> DEFINE j == i - m
      <4>1. c[i] = t[j] /\ j \in 1 .. k /\ (j < k <=> i < m + k) /\ m + (j + 1) = i + 1
        <5>1. c[i] = t[j] /\ j \in 1 .. k
          BY <1>2, <3>2
        <5> QED BY <1>1, <3>2, <5>1
      <4> HIDE DEF j
      <4>2. t[j] # s[m] /\ t[j] \in Nodes
        BY <1>1, <1>4, <4>1
      <4>3. g2[t[j]].next = IF j < k THEN t[j + 1] ELSE NULL
        <5>1. g[t[j]].next = IF j < k THEN t[j + 1] ELSE NULL
          BY <1>1, <4>1 DEF g
        <5>2. g2[t[j]].next = g[t[j]].next
          BY <1>5, <4>2
        <5> QED BY <5>1, <5>2
      <4>4. ASSUME j < k PROVE c[i + 1] = t[j + 1]
        <5>1. j + 1 \in 1 .. k
          BY <1>1, <4>1, <4>4
        <5> QED BY <1>2, <4>1, <5>1
      <4> QED BY <4>1, <4>3, <4>4
    <3> QED BY <1>2, <3>1, <3>2
  <2> QED BY <1>2, <2>1, <2>2, <2>3, <2>4 DEF Chained
<1>8. \A i \in 1 .. m + k : \/ i \in 1 .. m /\ c[i] = s[i]
                            \/ i \in m + 1 .. m + k /\ i - m \in 1 .. k /\ c[i] = t[i - m]
  BY <1>2
<1>9. Ordered(g2, c)
  <2>0. Ordered(g, s) /\ Ordered(g, t) /\ g[s[m]].data <= g[t[1]].data
    BY <1>1, <1>4, <1>6 DEF Woven
  <2>1. \A i \in 1 .. m + k : g2[c[i]].data \in Values
    <3>1. /\ \A i \in 1 .. m : g[s[i]].data \in Values
          /\ \A i \in 1 .. k : g[t[i]].data \in Values
      BY <2>0 DEF Ordered, m, k
    <3>2. \A i \in 1 .. m + k : c[i] \in Nodes
      BY <1>1, <1>8
    <3>3. \A i \in 1 .. m + k : g[c[i]].data \in Values
      BY <1>8, <3>1
    <3> QED BY <1>5, <3>2, <3>3
  <2>2. \A i \in 1 .. m : g[s[i]].data <= g[s[m]].data
    <3> TAKE i \in 1 .. m
    <3>1. i = m \/ i < m
      BY <1>1
    <3>2. i < m => g[s[i]].data <= g[s[m]].data
      BY <1>4, <2>0 DEF Ordered, m
    <3> QED BY <1>1, <3>1, <3>2
  <2>3. \A i \in 1 .. k : g[t[1]].data <= g[t[i]].data
    <3> TAKE i \in 1 .. k
    <3>1. i = 1 \/ 1 < i
      BY <1>1
    <3>2. 1 < i => g[t[1]].data <= g[t[i]].data
      BY <1>4, <2>0 DEF Ordered, k
    <3> QED BY <1>1, <3>1, <3>2
  <2>4. ASSUME NEW i \in 1 .. m + k, NEW j \in 1 .. m + k, i < j
        PROVE  g[c[i]].data <= g[c[j]].data
    <3>1. CASE j \in 1 .. m
      <4>1. i \in 1 .. m
        BY <1>1, <2>4, <3>1
      <4> QED BY <1>2, <2>0, <2>4, <3>1, <4>1 DEF Ordered, m
    <3>2. CASE i \in m + 1 .. m + k
      <4>1. j \in m + 1 .. m + k /\ i - m \in 1 .. k /\ j - m \in 1 .. k /\ i - m < j - m
        BY <1>1, <2>4, <3>2
      <4>2. g[t[i - m]].data <= g[t[j - m]].data
        BY <2>0, <4>1 DEF Ordered, k
      <4> QED BY <1>2, <3>2, <4>1, <4>2
    <3>3. CASE i \in 1 .. m /\ j \in m + 1 .. m + k
      <4> DEFINE l == j - m
      <4>1. l \in 1 .. k /\ c[j] = t[l] /\ c[i] = s[i]
        BY <1>2, <3>3
      <4> HIDE DEF l
      <4>2. g[s[i]].data \in Nat /\ g[s[m]].data \in Nat /\ g[t[1]].data \in Nat /\ g[t[l]].data \in Nat
        BY <1>1, <1>4, <3>3, <4>1
      <4> QED BY <2>0, <2>2, <2>3, <3>3, <4>1, <4>2
    <3> QED BY <1>2, <3>1, <3>2, <3>3
  <2>5. \A i \in 1 .. m + k : c[i] \in Nodes
    BY <1>1, <1>8
  <2> QED BY <1>2, <1>5, <2>1, <2>4, <2>5 DEF Ordered
<1>10. ASSUME NEW i \in 1 .. m + k
       PROVE  g2[c[i]].skip = NULL \/ \E j \in i + 1 .. m + k : c[j] = g2[c[i]].skip
  <2>1. c[i] \in Nodes /\ g2[c[i]].skip = g[c[i]].skip
    BY <1>1, <1>5, <1>8
  <2>2. CASE i \in 1 .. m
    <3>1. \/ g[s[i]].skip = NULL
          \/ \E j \in i + 1 .. m : s[j] = g[s[i]].skip
          \/ g[s[i]].skip \in Elems(t)
      BY <1>6, <2>2 DEF Woven, m
    <3>2. ASSUME NEW j \in i + 1 .. m, s[j] = g[s[i]].skip
          PROVE  j \in i + 1 .. m + k /\ c[j] = g[s[i]].skip
      <4>1. j \in 1 .. m /\ j \in i + 1 .. m + k
        BY <1>1, <2>2
      <4> QED BY <1>2, <3>2, <4>1
    <3>3. ASSUME g[s[i]].skip \in Elems(t)
          PROVE  \E j \in i + 1 .. m + k : c[j] = g[s[i]].skip
      <4>1. PICK l \in 1 .. k : t[l] = g[s[i]].skip
        BY <3>3 DEF Elems, k
      <4>2. m + l \in i + 1 .. m + k /\ c[m + l] = t[l]
        BY <1>1, <1>2, <2>2
      <4> QED BY <4>1, <4>2
    <3>4. c[i] = s[i]
      BY <1>2, <2>2
    <3> QED BY <2>1, <3>1, <3>2, <3>3, <3>4
  <2>3. CASE i \in m + 1 .. m + k
    <3> DEFINE l == i - m
    <3>1. l \in 1 .. k /\ c[i] = t[l] /\ m + l = i
      BY <1>1, <1>2, <2>3
    <3> HIDE DEF l
    <3>2. g[t[l]].skip = NULL \/ \E j \in l + 1 .. k : t[j] = g[t[l]].skip
      BY <1>6, <3>1 DEF Woven, Forward, k
    <3>3. ASSUME NEW j \in l + 1 .. k, t[j] = g[t[l]].skip
          PROVE  m + j \in i + 1 .. m + k /\ c[m + j] = g[t[l]].skip
      <4>1. j \in 1 .. k /\ m + j \in i + 1 .. m + k
        BY <1>1, <3>1
      <4> QED BY <1>2, <3>3, <4>1
    <3> QED BY <2>1, <3>1, <3>2, <3>3
  <2> QED BY <1>2, <2>2, <2>3
<1> DEFINE e == <<>>
<1>11. e \in Seq(Nodes) /\ Len(e) = 0
  OBVIOUS
<1> HIDE DEF e
<1>12. /\ Chained(g2, NULL, e) /\ Ordered(g2, e) /\ Forward(g2, e)
       /\ e = <<>> /\ Elems(e) = {}
  BY <1>11 DEF Chained, Once, Ordered, Forward, Elems, e
<1>13. Elems(s) \cap Elems(t) = {} /\ Elems(s) \cup Elems(t) = all
  BY <1>6 DEF Woven
<1>14. \A n \in Nodes : g2[n].data = h[n].data /\ (n \notin all => g2[n] = h[n])
  <2>1. s[m] \in all
    BY <1>1, <1>4, <1>13
  <2>2. \A n \in Nodes : g[n].data = h[n].data /\ (n \notin all => g[n] = h[n])
    BY <1>6 DEF Woven
  <2> QED BY <1>5, <2>1, <2>2
<1>15. p \in 1 .. m + k /\ r2.curA = c[p] /\ r2.curB = NULL
  BY <1>1, <1>2, <1>4
<1>16. Elems(c) \cap Elems(e) = {} /\ Elems(c) \cup Elems(e) = all
  BY <1>3, <1>12, <1>13
<1>17. Woven(h, head, all, r2, c, p, e)
  <2>1. \A i \in 1 .. Len(c) :
          \/ g2[c[i]].skip = NULL
          \/ \E j \in i + 1 .. Len(c) : c[j] = g2[c[i]].skip
          \/ i <= p /\ g2[c[i]].skip \in Elems(e)
    BY <1>2, <1>10
  <2>2. Chained(g2, r2.curB, e) /\ p \in 1 .. Len(c)
    BY <1>2, <1>12, <1>15
  <2> QED BY <1>5, <1>6, <1>7, <1>9, <1>12, <1>14, <1>15, <1>16, <2>1, <2>2 DEF Woven
<1> QED BY <1>17 DEF c, e

\* x between the p-th element of s and the next, and t without its first element.
Between(s, p, x) ==
    [i \in 1 .. Len(s) + 1 |-> IF i <= p THEN s[i] ELSE IF i = p + 1 THEN x ELSE s[i - 1]]
Behind(t) == [i \in 1 .. Len(t) - 1 |-> t[i + 1]]

LEMMA BetweenAt ==
    ASSUME NEW S, NEW s \in Seq(S), NEW x \in S, x \notin Elems(s), NEW p \in 1 .. Len(s), Once(s),
           NEW c, c = Between(s, p, x)
    PROVE  /\ c \in Seq(S) /\ Len(c) = Len(s) + 1 /\ Len(s) \in Nat
           /\ \A i \in 1 .. p : c[i] = s[i] /\ i \in 1 .. Len(s)
           /\ c[p + 1] = x
           /\ \A i \in p + 2 .. Len(s) + 1 : c[i] = s[i - 1] /\ i - 1 \in p + 1 .. Len(s)
           /\ \A i \in p + 1 .. Len(s) : c[i + 1] = s[i]
           /\ \A i \in 1 .. Len(s) + 1 : i \in 1 .. p \/ i = p + 1 \/ i \in p + 2 .. Len(s) + 1
           /\ Once(c) /\ Elems(c) = Elems(s) \cup {x}
<1> DEFINE m == Len(s)
<1>1. /\ m \in Nat /\ p \in 1 .. m
      /\ \A i \in 1 .. m : s[i] \in S /\ s[i] \in Elems(s) /\ s[i] # x
      /\ \A i, j \in 1 .. m : s[i] = s[j] => i = j
      /\ Elems(s) = {s[i] : i \in 1 .. m}
  BY LenProperties, ElementOfSeq DEF Elems, Once
<1> HIDE DEF m
<1>2. /\ DOMAIN c = 1 .. m + 1
      /\ \A i \in 1 .. m + 1 : c[i] = IF i <= p THEN s[i] ELSE IF i = p + 1 THEN x ELSE s[i - 1]
      /\ c = [i \in 1 .. m + 1 |-> c[i]]
  BY DEF Between, m
<1>3. \A i \in 1 .. m + 1 : i \in 1 .. p \/ i = p + 1 \/ i \in p + 2 .. m + 1
  BY <1>1
<1>4. \A i \in 1 .. p : c[i] = s[i] /\ i \in 1 .. m
  <2>1. \A i \in 1 .. p : i \in 1 .. m + 1 /\ i \in 1 .. m /\ i <= p
    BY <1>1
  <2> QED BY <1>2, <2>1
<1>5. c[p + 1] = x
  <2>1. p + 1 \in 1 .. m + 1 /\ ~(p + 1 <= p)
    BY <1>1
  <2> QED BY <1>2, <2>1
<1>6. \A i \in p + 2 .. m + 1 : c[i] = s[i - 1] /\ i - 1 \in p + 1 .. m
  <2>1. \A i \in p + 2 .. m + 1 : i \in 1 .. m + 1 /\ ~(i <= p) /\ i # p + 1 /\ i - 1 \in p + 1 .. m
    BY <1>1
  <2> QED BY <1>2, <2>1
<1>7. \A i \in p + 1 .. m : c[i + 1] = s[i] /\ i + 1 \in 1 .. m + 1 /\ i \in 1 .. m
  <2> TAKE i \in p + 1 .. m
  <2> DEFINE j == i + 1
  <2>1. j \in p + 2 .. m + 1 /\ j - 1 = i /\ j \in 1 .. m + 1 /\ i \in 1 .. m
    BY <1>1
  <2> HIDE DEF j
  <2>2. c[j] = s[j - 1]
    BY <1>6, <2>1
  <2> QED BY <2>1, <2>2 DEF j
<1>8. \A i \in 1 .. m + 1 : \/ i \in 1 .. m /\ i <= p /\ c[i] = s[i]
                            \/ i = p + 1 /\ c[i] = x
                            \/ i - 1 \in 1 .. m /\ i - 1 > p /\ c[i] = s[i - 1]
  <2>1. \A i \in p + 2 .. m + 1 : i - 1 \in 1 .. m /\ i - 1 > p
    BY <1>1
  <2>2. \A i \in 1 .. p : i <= p
    BY <1>1
  <2> QED BY <1>3, <1>4, <1>5, <1>6, <2>1, <2>2
<1>9. c \in Seq(S) /\ Len(c) = m + 1
  <2>1. \A i \in 1 .. m + 1 : c[i] \in S
    BY <1>1, <1>8
  <2>2. m + 1 \in Nat
    BY <1>1
  <2>3. c \in [1 .. m + 1 -> S]
    BY <1>2, <2>1
  <2> QED BY <2>2, <2>3
<1>10. ASSUME NEW i \in 1 .. m + 1, NEW j \in 1 .. m + 1, c[i] = c[j] PROVE i = j
  <2>1. CASE c[i] = x
    <3>1. ASSUME NEW u \in 1 .. m + 1, c[u] = x PROVE u = p + 1
      <4>1. \A w \in 1 .. m : s[w] # x
        BY <1>1
      <4>2. ~(u \in 1 .. m /\ c[u] = s[u])
        BY <3>1, <4>1
      <4>3. ~(u - 1 \in 1 .. m /\ c[u] = s[u - 1])
        BY <3>1, <4>1
      <4> QED BY <1>8, <4>2, <4>3
    <3> QED BY <1>10, <2>1, <3>1
  <2>2. CASE c[i] # x
    <3> DEFINE u == IF i <= p THEN i ELSE i - 1
               w == IF j <= p THEN j ELSE j - 1
    <3>1. u \in 1 .. m /\ c[i] = s[u] /\ (i <= p => u <= p) /\ (~(i <= p) => u > p)
      BY <1>1, <1>8, <2>2
    <3>2. w \in 1 .. m /\ c[j] = s[w] /\ (j <= p => w <= p) /\ (~(j <= p) => w > p)
      BY <1>1, <1>8, <1>10, <2>2
    <3>3. u = w
      <4> HIDE DEF u, w
      <4> QED BY <1>1, <1>10, <3>1, <3>2
    <3> QED BY <1>1, <3>1, <3>2, <3>3
  <2> QED BY <2>1, <2>2
<1>11. Elems(c) = Elems(s) \cup {x}
  <2>1. Elems(c) = {c[i] : i \in 1 .. m + 1}
    BY <1>9 DEF Elems
  <2>2. ASSUME NEW y \in Elems(c) PROVE y \in Elems(s) \cup {x}
    <3>1. PICK i \in 1 .. m + 1 : y = c[i]
      BY <2>1
    <3> QED BY <1>1, <1>8, <3>1
  <2>3. x \in Elems(c)
    <3>1. p + 1 \in 1 .. m + 1
      BY <1>1
    <3> QED BY <1>5, <2>1, <3>1
  <2>4. ASSUME NEW y \in Elems(s) PROVE y \in Elems(c)
    <3>1. PICK i \in 1 .. m : y = s[i]
      BY <1>1
    <3>2. i \in 1 .. p \/ i \in p + 1 .. m
      BY <1>1
    <3>3. \A j \in 1 .. p : j \in 1 .. m + 1
      BY <1>1
    <3> QED BY <1>4, <1>7, <2>1, <3>1, <3>2, <3>3
  <2> QED BY <2>2, <2>3, <2>4
<1> QED BY <1>1, <1>3, <1>4, <1>5, <1>6, <1>7, <1>9, <1>10, <1>11 DEF m, Once

LEMMA BehindAt ==
    ASSUME NEW S, NEW t \in Seq(S), Len(t) > 0, Once(t), NEW e, e = Behind(t)
    PROVE  /\ e \in Seq(S) /\ Len(e) = Len(t) - 1 /\ Len(t) \in Nat
           /\ \A i \in 1 .. Len(t) - 1 : e[i] = t[i + 1] /\ i + 1 \in 1 .. Len(t)
           /\ \A i \in 2 .. Len(t) : e[i - 1] = t[i] /\ i - 1 \in 1 .. Len(t) - 1
           /\ Once(e) /\ Elems(e) = Elems(t) \ {t[1]}
<1> DEFINE k == Len(t)
<1>1. /\ k \in Nat /\ k > 0 /\ 1 \in 1 .. k
      /\ \A i \in 1 .. k : t[i] \in S
      /\ \A i, j \in 1 .. k : t[i] = t[j] => i = j
      /\ Elems(t) = {t[i] : i \in 1 .. k}
  BY LenProperties, ElementOfSeq DEF Elems, Once
<1> HIDE DEF k
<1>2. e = [i \in 1 .. k - 1 |-> t[i + 1]]
  BY DEF Behind, k
<1>3. \A i \in 1 .. k - 1 : e[i] = t[i + 1] /\ i + 1 \in 1 .. k /\ i + 1 # 1
  <2>1. \A i \in 1 .. k - 1 : i + 1 \in 1 .. k /\ i + 1 # 1
    BY <1>1
  <2> QED BY <1>2, <2>1
<1>4. e \in Seq(S) /\ Len(e) = k - 1
  <2>1. e \in [1 .. k - 1 -> S] /\ k - 1 \in Nat
    BY <1>1, <1>2, <1>3
  <2> QED BY <2>1
<1>5. \A i \in 2 .. k : e[i - 1] = t[i] /\ i - 1 \in 1 .. k - 1
  <2> TAKE i \in 2 .. k
  <2> DEFINE j == i - 1
  <2>1. j \in 1 .. k - 1 /\ j + 1 = i
    BY <1>1
  <2> HIDE DEF j
  <2>2. e[j] = t[j + 1]
    BY <1>3, <2>1
  <2> QED BY <2>1, <2>2 DEF j
<1>6. ASSUME NEW i \in 1 .. k - 1, NEW j \in 1 .. k - 1, e[i] = e[j] PROVE i = j
  <2>1. i + 1 \in 1 .. k /\ j + 1 \in 1 .. k /\ t[i + 1] = t[j + 1]
    BY <1>3, <1>6
  <2>2. i + 1 = j + 1
    BY <1>1, <2>1
  <2> QED BY <2>2
<1>7. Elems(e) = Elems(t) \ {t[1]}
  <2>1. Elems(e) = {e[i] : i \in 1 .. k - 1}
    BY <1>4 DEF Elems
  <2>2. ASSUME NEW y \in Elems(e) PROVE y \in Elems(t) /\ y # t[1]
    <3>1. PICK i \in 1 .. k - 1 : y = e[i]
      BY <2>1
    <3>2. i + 1 \in 1 .. k /\ i + 1 # 1 /\ y = t[i + 1]
      BY <1>3, <3>1
    <3> QED BY <1>1, <3>2
  <2>3. ASSUME NEW y \in Elems(t), y # t[1] PROVE y \in Elems(e)
    <3>1. PICK i \in 1 .. k : y = t[i]
      BY <1>1
    <3>2. i # 1
      BY <2>3, <3>1
    <3>3. i \in 2 .. k
      BY <1>1, <3>2
    <3> QED BY <1>5, <2>1, <3>1, <3>3
  <2> QED BY <2>2, <2>3
<1> QED BY <1>1, <1>3, <1>4, <1>5, <1>6, <1>7 DEF k, Once

\* curB goes between curA and the next node.
LEMMA WovenIn ==
    ASSUME NEW h, NEW head, NEW all, NEW r, NEW s, NEW p, NEW t, Woven(h, head, all, r, s, p, t),
           r.curB # NULL, NEW next, next = r.heap[r.curA].next, next # NULL,
           ~Less(r.heap, next, r.curB),
           NEW r2, r2.heap = Inserted(r.heap, r.curA, r.curB),
           r2.curA = r.curB, r2.curB = r.heap[r.curB].next
    PROVE  /\ Woven(h, head, all, r2, Between(s, p, r.curB), p + 1, Behind(t))
           /\ Len(Between(s, p, r.curB)) = Len(s) + 1 /\ Len(Behind(t)) = Len(t) - 1
<1> DEFINE m == Len(s)
           k == Len(t)
           x == r.curB
           y == r.curA
           c == Between(s, p, x)
           e == Behind(t)
           g == r.heap
           g2 == r2.heap
<1>1. /\ m \in Nat /\ k \in Nat /\ p \in 1 .. m /\ y = s[p] /\ s \in Seq(Nodes) /\ t \in Seq(Nodes)
      /\ \A i \in 1 .. m : s[i] \in Nodes /\ s[i] \in Elems(s) /\ s[i] \notin Elems(t)
      /\ \A i \in 1 .. k : t[i] \in Nodes /\ t[i] \in Elems(t) /\ t[i] \notin Elems(s)
      /\ x = IF k = 0 THEN NULL ELSE t[1]
      /\ (t = <<>>) = (k = 0)
      /\ \A i \in 1 .. m : g[s[i]].next = IF i < m THEN s[i + 1] ELSE NULL
      /\ \A i \in 1 .. k : g[t[i]].next = IF i < k THEN t[i + 1] ELSE NULL
      /\ \A n \in Nodes : g[n].data \in Nat
      /\ NULL \notin Nodes /\ g \in [Nodes -> LinkNode]
  BY WovenTypes
<1>2. k > 0 /\ x = t[1] /\ 1 \in 1 .. k /\ x \in Nodes /\ x \in Elems(t) /\ x \notin Elems(s)
      /\ p < m /\ next = s[p + 1] /\ p + 1 \in 1 .. m /\ y \in Nodes /\ x # y /\ y \in Elems(s)
  <2>1. k > 0 /\ x = t[1] /\ 1 \in 1 .. k
    BY <1>1
  <2>2. x \in Nodes /\ x \in Elems(t) /\ x \notin Elems(s)
    BY <1>1, <2>1
  <2>3. y \in Nodes /\ y \in Elems(s)
    BY <1>1
  <2>4. p < m /\ next = s[p + 1] /\ p + 1 \in 1 .. m
    BY <1>1
  <2> QED BY <2>1, <2>2, <2>3, <2>4
<1>3. Once(s) /\ Once(t)
  BY DEF Woven, Chained
<1>4. /\ c \in Seq(Nodes) /\ Len(c) = m + 1
      /\ \A i \in 1 .. p : c[i] = s[i] /\ i \in 1 .. m
      /\ c[p + 1] = x
      /\ \A i \in p + 2 .. m + 1 : c[i] = s[i - 1] /\ i - 1 \in p + 1 .. m
      /\ \A i \in p + 1 .. m : c[i + 1] = s[i]
      /\ \A i \in 1 .. m + 1 : i \in 1 .. p \/ i = p + 1 \/ i \in p + 2 .. m + 1
      /\ Once(c) /\ Elems(c) = Elems(s) \cup {x}
  <2> HIDE DEF x, c
  <2>1. x \in Nodes /\ x \notin Elems(s) /\ p \in 1 .. Len(s) /\ s \in Seq(Nodes)
    BY <1>1, <1>2
  <2>2. c = Between(s, p, x)
    BY DEF c
  <2> QED BY <1>3, <2>1, <2>2, BetweenAt
<1>5. /\ e \in Seq(Nodes) /\ Len(e) = k - 1
      /\ \A i \in 1 .. k - 1 : e[i] = t[i + 1] /\ i + 1 \in 1 .. k
      /\ \A i \in 2 .. k : e[i - 1] = t[i] /\ i - 1 \in 1 .. k - 1
      /\ Once(e) /\ Elems(e) = Elems(t) \ {x}
  <2>1. t \in Seq(Nodes) /\ Len(t) > 0
    BY <1>1, <1>2
  <2> HIDE DEF e
  <2>2. e = Behind(t)
    BY DEF e
  <2> QED BY <1>2, <1>3, <2>1, <2>2, BehindAt
<1> HIDE DEF m, k, c, e
<1>6. /\ g2 \in [Nodes -> LinkNode]
      /\ \A n \in Nodes :
            /\ g2[n].data = g[n].data /\ g2[n].skip = g[n].skip
            /\ g2[n].next = IF n = x THEN next ELSE IF n = y THEN x ELSE g[n].next
            /\ n # x /\ n # y => g2[n] = g[n]
  <2> DEFINE f == [g EXCEPT ![y].next = x]
             z == next
  <2>1. y \in Nodes /\ x \in Nodes /\ x \in Pointer /\ z \in Pointer /\ g \in [Nodes -> LinkNode]
    BY <1>1, <1>2 DEF Pointer
  <2>2. g2 = [f EXCEPT ![x].next = z]
    BY DEF Inserted
  <2> HIDE DEF g, g2, x, y, z
  <2>3. /\ f \in [Nodes -> LinkNode]
        /\ \A n \in Nodes :
              /\ f[n].data = g[n].data /\ f[n].skip = g[n].skip
              /\ f[n].next = IF n = y THEN x ELSE g[n].next
              /\ n # y => f[n] = g[n]
    BY <2>1, NextChanged
  <2> HIDE DEF f
  <2>4. /\ g2 \in [Nodes -> LinkNode]
        /\ \A n \in Nodes :
              /\ g2[n].data = f[n].data /\ g2[n].skip = f[n].skip
              /\ g2[n].next = IF n = x THEN z ELSE f[n].next
              /\ n # x => g2[n] = f[n]
    BY <2>1, <2>2, <2>3, NextChanged
  <2> QED BY <2>3, <2>4 DEF z
<1> HIDE DEF g, g2
<1>7. Woven(h, head, all, r, s, p, t) /\ g = r.heap /\ g2 = r2.heap
  BY DEF g, g2
<1>8. \A i, j \in 1 .. m : s[i] = s[j] => i = j
  BY <1>3 DEF Once, m
<1>9. Chained(g2, head, c)
  <2>1. c # <<>> /\ s # <<>> /\ head = c[1]
    <3>1. c # <<>> /\ s # <<>> /\ 1 \in 1 .. p
      BY <1>1, <1>4, EmptySeq DEF m, c
    <3>2. head = s[1]
      BY <1>7, <3>1 DEF Woven, Chained
    <3> QED BY <1>4, <3>1, <3>2
  <2>2. ASSUME NEW i \in 1 .. m + 1 PROVE g2[c[i]].next = IF i < m + 1 THEN c[i + 1] ELSE NULL
    <3>1. CASE i \in 1 .. p
      <4>1. c[i] = s[i] /\ i \in 1 .. m /\ i < m + 1 /\ i < m /\ s[i] \in Nodes /\ s[i] # x
        <5>1. c[i] = s[i] /\ i \in 1 .. m
          BY <1>4, <3>1
        <5>2. i < m + 1 /\ i < m
          BY <1>1, <1>2, <3>1
        <5>3. s[i] \in Nodes /\ s[i] \in Elems(s)
          BY <1>1, <5>1
        <5> QED BY <1>2, <5>1, <5>2, <5>3
      <4>2. CASE i = p
        BY <1>1, <1>2, <1>4, <1>6, <4>1, <4>2
      <4>3. CASE i # p
        <5>1. s[i] # y
          BY <1>1, <1>8, <4>1, <4>3
        <5>2. i + 1 \in 1 .. p
          BY <1>1, <3>1, <4>3
        <5>3. g[s[i]].next = s[i + 1]
          BY <1>1, <4>1 DEF g
        <5> QED BY <1>4, <1>6, <4>1, <5>1, <5>2, <5>3
      <4> QED BY <4>2, <4>3
    <3>2. CASE i = p + 1
      <4>1. c[p + 1 + 1] = s[p + 1]
        <5>1. p + 1 \in p + 1 .. m
          BY <1>1, <1>2
        <5> QED BY <1>4, <5>1
      <4>2. p + 1 < m + 1
        BY <1>1, <1>2
      <4> QED BY <1>2, <1>4, <1>6, <3>2, <4>1, <4>2
    <3>3. CASE i \in p + 2 .. m + 1
      <4> DEFINE j == i - 1
      <4>1. c[i] = s[j] /\ j \in p + 1 .. m
        BY <1>4, <3>3
      <4>2. j \in 1 .. m /\ j + 1 = i /\ (i < m + 1 <=> j < m) /\ j # p /\ j + 1 + 1 = i + 1
        BY <1>1, <3>3
      <4> HIDE DEF j
      <4>3. s[j] \in Nodes /\ s[j] # x /\ s[j] # y
        BY <1>1, <1>2, <1>8, <4>2
      <4>4. g[s[j]].next = IF j < m THEN s[j + 1] ELSE NULL
        BY <1>1, <4>2 DEF g
      <4>5. ASSUME j < m PROVE c[i + 1] = s[j + 1]
        <5>1. i \in p + 1 .. m
          BY <1>1, <4>2, <4>5, <3>3
        <5> QED BY <1>4, <4>2, <5>1
      <4> QED BY <1>6, <4>1, <4>2, <4>3, <4>4, <4>5
    <3> QED BY <1>4, <3>1, <3>2, <3>3
  <2> QED BY <1>4, <2>1, <2>2 DEF Chained
<1>10. Chained(g2, r2.curB, e)
  <2>1. g[x].next = IF 1 < k THEN t[1 + 1] ELSE NULL
    BY <1>1, <1>2 DEF g
  <2>2. r2.curB = g[x].next
    BY DEF g
  <2>3. (e = <<>>) = (k - 1 = 0) /\ (1 < k => 1 \in 1 .. k - 1)
    BY <1>1, <1>2, <1>5, EmptySeq DEF e
  <2>4. r2.curB = IF e = <<>> THEN NULL ELSE e[1]
    BY <1>1, <1>2, <1>5, <2>1, <2>2, <2>3
  <2>5. ASSUME NEW i \in 1 .. k - 1 PROVE g2[e[i]].next = IF i < k - 1 THEN e[i + 1] ELSE NULL
    <3> DEFINE j == i + 1
    <3>1. e[i] = t[j] /\ j \in 1 .. k
      BY <1>5
    <3>2. i < k - 1 <=> j < k
      BY <1>1
    <3>3. j # 1 /\ j + 1 = i + 1 + 1
      BY <1>1
    <3>4. i < k - 1 => i + 1 \in 1 .. k - 1
      BY <1>1
    <3> HIDE DEF j
    <3>5. t[j] # t[1]
      BY <1>2, <1>3, <3>1, <3>3 DEF Once, k
    <3>6. t[j] \in Nodes /\ t[j] # x /\ t[j] # y
      BY <1>1, <1>2, <3>1, <3>5
    <3>7. g[t[j]].next = IF j < k THEN t[j + 1] ELSE NULL
      BY <1>1, <3>1 DEF g
    <3>8. i < k - 1 => e[i + 1] = t[j + 1]
      BY <1>5, <3>3, <3>4
    <3> QED BY <1>6, <3>1, <3>2, <3>6, <3>7, <3>8
  <2> QED BY <1>5, <2>4, <2>5 DEF Chained
<1>11. \A n \in Nodes : g2[n].data = h[n].data /\ (n \notin all => g2[n] = h[n])
  <2>1. x \in all /\ y \in all
    BY <1>2, <1>7 DEF Woven
  <2>2. \A n \in Nodes : g[n].data = h[n].data /\ (n \notin all => g[n] = h[n])
    BY <1>7 DEF Woven
  <2> QED BY <1>6, <2>1, <2>2
<1>12. \A i \in 1 .. m + 1 : \/ i \in 1 .. p /\ i \in 1 .. m /\ c[i] = s[i]
                             \/ i = p + 1 /\ c[i] = x
                             \/ i - 1 \in p + 1 .. m /\ i - 1 \in 1 .. m /\ c[i] = s[i - 1]
  <2>1. \A i \in p + 1 .. m : i \in 1 .. m
    BY <1>1
  <2> QED BY <1>4, <2>1
<1>13. /\ Ordered(g, s) /\ Ordered(g, t)
       /\ g[y].data <= g[x].data /\ g[x].data <= g[next].data
  <2>1. Ordered(g, s) /\ Ordered(g, t) /\ g[y].data <= g[x].data
    BY <1>1, <1>2, <1>7 DEF Woven
  <2>2. g[x].data \in Nat /\ g[next].data \in Nat
    BY <1>1, <1>2 DEF g
  <2>3. ~(g[next].data < g[x].data)
    BY <1>7 DEF Less
  <2> QED BY <2>1, <2>2, <2>3
<1>14. \A n \in Nodes : g[n].data \in Nat
  BY <1>1 DEF g
<1>15. \A i, j \in 1 .. m : i <= j => g[s[i]].data <= g[s[j]].data
  <2> TAKE i, j \in 1 .. m
  <2> HAVE i <= j
  <2>1. i = j \/ i < j
    BY <1>1
  <2>2. i < j => g[s[i]].data <= g[s[j]].data
    BY <1>13 DEF Ordered, m
  <2>3. g[s[i]].data \in Nat
    BY <1>1, <1>14
  <2> QED BY <2>1, <2>2, <2>3
<1>16. \A i \in 1 .. m + 1 : c[i] \in Nodes
  BY <1>1, <1>2, <1>12
<1>17. Ordered(g2, c)
  <2>1. \A i \in 1 .. m + 1 : g[c[i]].data \in Values
    <3>1. \A i \in 1 .. m : g[s[i]].data \in Values
      BY <1>13 DEF Ordered, m
    <3>2. g[x].data \in Values
      BY <1>2, <1>13 DEF Ordered, k
    <3> QED BY <1>12, <3>1, <3>2
  <2>2. ASSUME NEW i \in 1 .. m + 1, NEW j \in 1 .. m + 1, i < j
        PROVE  g[c[i]].data <= g[c[j]].data
    <3>0. g[c[i]].data \in Nat /\ g[c[j]].data \in Nat /\ g[y].data \in Nat /\ g[x].data \in Nat
          /\ g[next].data \in Nat
      BY <1>1, <1>2, <1>14, <1>16
    <3>1. CASE j \in 1 .. p
      <4>1. i \in 1 .. p
        BY <1>1, <2>2, <3>1
      <4>2. c[i] = s[i] /\ c[j] = s[j] /\ i \in 1 .. m /\ j \in 1 .. m /\ i <= j
        BY <1>4, <2>2, <3>1, <4>1
      <4> QED BY <1>15, <4>2
    <3>2. CASE i \in 1 .. p /\ j = p + 1
      <4>1. c[i] = s[i] /\ i \in 1 .. m /\ c[j] = x /\ p \in 1 .. m /\ i <= p
        BY <1>1, <1>4, <3>2
      <4>2. g[s[i]].data <= g[y].data
        BY <1>1, <1>15, <4>1
      <4> QED BY <1>13, <3>0, <4>1, <4>2
    <3>3. CASE i \in 1 .. p /\ j \in p + 2 .. m + 1
      <4> DEFINE u == j - 1
      <4>1. c[i] = s[i] /\ i \in 1 .. m /\ c[j] = s[u] /\ u \in p + 1 .. m
        BY <1>4, <3>3
      <4>2. u \in 1 .. m /\ i <= u
        BY <1>1, <3>3
      <4> HIDE DEF u
      <4> QED BY <1>15, <4>1, <4>2
    <3>4. CASE i = p + 1 /\ j \in p + 2 .. m + 1
      <4> DEFINE u == j - 1
      <4>1. c[i] = x /\ c[j] = s[u] /\ u \in p + 1 .. m
        BY <1>4, <3>4
      <4>2. u \in 1 .. m /\ p + 1 <= u /\ p + 1 \in 1 .. m
        BY <1>1, <3>4
      <4> HIDE DEF u
      <4>3. g[next].data <= g[s[u]].data
        BY <1>2, <1>15, <4>2
      <4> QED BY <1>13, <3>0, <4>1, <4>3
    <3>5. CASE i \in p + 2 .. m + 1
      <4> DEFINE u == i - 1
                 w == j - 1
      <4>0. j \in p + 2 .. m + 1
        BY <1>1, <2>2, <3>5
      <4>1. c[i] = s[u] /\ c[j] = s[w] /\ u \in p + 1 .. m /\ w \in p + 1 .. m
        BY <1>4, <3>5, <4>0
      <4>2. u \in 1 .. m /\ w \in 1 .. m /\ u <= w
        BY <1>1, <2>2, <3>5, <4>0
      <4> HIDE DEF u, w
      <4> QED BY <1>15, <4>1, <4>2
    <3>6. \/ j \in 1 .. p
          \/ i \in 1 .. p /\ j = p + 1
          \/ i \in 1 .. p /\ j \in p + 2 .. m + 1
          \/ i = p + 1 /\ j \in p + 2 .. m + 1
          \/ i \in p + 2 .. m + 1
      BY <1>1, <2>2
    <3> QED BY <3>1, <3>2, <3>3, <3>4, <3>5, <3>6
  <2> QED BY <1>4, <1>6, <1>16, <2>1, <2>2 DEF Ordered
<1>18. \A i \in 1 .. k - 1 : e[i] \in Nodes
  BY <1>1, <1>5
<1>19. Ordered(g2, e)
  <2>1. \A i \in 1 .. k - 1 : g[e[i]].data \in Values
    BY <1>5, <1>13 DEF Ordered, k
  <2>2. ASSUME NEW i \in 1 .. k - 1, NEW j \in 1 .. k - 1, i < j
        PROVE  g[e[i]].data <= g[e[j]].data
    <3> DEFINE u == i + 1
               w == j + 1
    <3>1. e[i] = t[u] /\ e[j] = t[w] /\ u \in 1 .. k /\ w \in 1 .. k
      BY <1>5
    <3>2. u < w
      BY <1>1, <2>2
    <3> HIDE DEF u, w
    <3> QED BY <1>13, <3>1, <3>2 DEF Ordered, k
  <2> QED BY <1>5, <1>6, <1>18, <2>1, <2>2 DEF Ordered
<1>20. e # <<>> => g2[c[p + 1]].data <= g2[e[1]].data
  <2> SUFFICES ASSUME e # <<>> PROVE g2[x].data <= g2[e[1]].data
    BY <1>4
  <2>1. 1 \in 1 .. k - 1
    BY <1>1, <1>2, <1>5, EmptySeq
  <2>2. e[1] = t[2] /\ 2 \in 1 .. k /\ e[1] \in Nodes
    <3>1. 1 + 1 = 2
      OBVIOUS
    <3> QED BY <1>5, <1>18, <2>1, <3>1
  <2>3. g[t[1]].data <= g[t[2]].data
    BY <1>2, <1>13, <2>2 DEF Ordered, k
  <2> QED BY <1>2, <1>6, <2>2, <2>3
<1>21. ASSUME NEW i \in 1 .. k
       PROVE  g[t[i]].skip = NULL \/ \E j \in i + 1 .. k : t[j] = g[t[i]].skip
  BY <1>7 DEF Woven, Forward, k
<1>22. Forward(g2, e)
  <2> SUFFICES ASSUME NEW i \in 1 .. k - 1
               PROVE  g2[e[i]].skip = NULL \/ \E j \in i + 1 .. k - 1 : e[j] = g2[e[i]].skip
    BY <1>5 DEF Forward
  <2>1. g2[e[i]].skip = g[e[i]].skip
    BY <1>6, <1>18
  <2> DEFINE u == i + 1
  <2>2. e[i] = t[u] /\ u \in 1 .. k /\ u = i + 1
    BY <1>5
  <2> HIDE DEF u
  <2>3. ASSUME NEW j \in u + 1 .. k, t[j] = g[t[u]].skip
        PROVE  j - 1 \in i + 1 .. k - 1 /\ e[j - 1] = g[t[u]].skip
    <3>1. j \in 2 .. k /\ j - 1 \in i + 1 .. k - 1
      BY <1>1, <2>2
    <3> QED BY <1>5, <2>3, <3>1
  <2> QED BY <1>21, <2>1, <2>2, <2>3
<1>23. ASSUME NEW i \in 1 .. m + 1
       PROVE  \/ g2[c[i]].skip = NULL
              \/ \E j \in i + 1 .. m + 1 : c[j] = g2[c[i]].skip
              \/ i <= p + 1 /\ g2[c[i]].skip \in Elems(e)
  <2>1. g2[c[i]].skip = g[c[i]].skip
    BY <1>6, <1>16
  <2>2. CASE i \in 1 .. p
    <3>1. c[i] = s[i] /\ i \in 1 .. m /\ i <= p + 1
      BY <1>1, <1>4, <2>2
    <3>2. \/ g[s[i]].skip = NULL
          \/ \E j \in i + 1 .. m : s[j] = g[s[i]].skip
          \/ g[s[i]].skip \in Elems(t)
      BY <1>7, <3>1 DEF Woven, m
    <3>3. ASSUME NEW j \in i + 1 .. m, s[j] = g[s[i]].skip
          PROVE  \E l \in i + 1 .. m + 1 : c[l] = g[s[i]].skip
      <4>1. CASE j \in 1 .. p
        <5>1. j \in i + 1 .. m + 1
          BY <1>1, <3>1
        <5> QED BY <1>4, <3>3, <4>1, <5>1
      <4>2. CASE ~(j \in 1 .. p)
        <5>1. j \in p + 1 .. m /\ j + 1 \in i + 1 .. m + 1
          BY <1>1, <3>1, <4>2
        <5> QED BY <1>4, <3>3, <5>1
      <4> QED BY <4>1, <4>2
    <3>4. ASSUME g[s[i]].skip = x PROVE \E l \in i + 1 .. m + 1 : c[l] = g[s[i]].skip
      <4>1. p + 1 \in i + 1 .. m + 1
        BY <1>1, <2>2
      <4> QED BY <1>4, <3>4, <4>1
    <3> QED BY <1>5, <2>1, <3>1, <3>2, <3>3, <3>4
  <2>3. CASE i = p + 1
    <3>1. g[x].skip = NULL \/ \E j \in 1 + 1 .. k : t[j] = g[x].skip
      BY <1>2, <1>21
    <3>2. ASSUME NEW j \in 1 + 1 .. k, t[j] = g[x].skip PROVE g[x].skip \in Elems(e)
      <4>1. j \in 2 .. k /\ j \in 1 .. k /\ j # 1
        OBVIOUS
      <4>2. t[j] # t[1]
        BY <1>2, <1>3, <4>1 DEF Once, k
      <4>3. t[j] \in Elems(t)
        BY <1>1, <4>1
      <4> QED BY <1>2, <1>5, <3>2, <4>2, <4>3
    <3>3. c[i] = x /\ i <= p + 1
      BY <1>1, <1>4, <2>3
    <3> QED BY <2>1, <3>1, <3>2, <3>3
  <2>4. CASE i \in p + 2 .. m + 1
    <3> DEFINE u == i - 1
    <3>1. c[i] = s[u] /\ u \in p + 1 .. m
      BY <1>4, <2>4
    <3>2. u \in 1 .. m /\ ~(u <= p) /\ u + 1 = i
      <4>1. m \in Nat /\ p \in Nat
        BY <1>1
      <4> QED BY <2>4, <4>1
    <3> HIDE DEF u
    <3>3. g[s[u]].skip = NULL \/ \E j \in u + 1 .. m : s[j] = g[s[u]].skip
      BY <1>7, <3>2 DEF Woven, m
    <3>4. ASSUME NEW j \in u + 1 .. m, s[j] = g[s[u]].skip
          PROVE  j + 1 \in i + 1 .. m + 1 /\ c[j + 1] = g[s[u]].skip
      <4>1. j \in p + 1 .. m /\ j + 1 \in i + 1 .. m + 1
        BY <1>1, <3>2, <3>1
      <4> QED BY <1>4, <3>4, <4>1
    <3> QED BY <2>1, <3>1, <3>3, <3>4
  <2> QED BY <1>4, <2>2, <2>3, <2>4
<1>24. Elems(c) \cap Elems(e) = {} /\ Elems(c) \cup Elems(e) = all
  <2>1. Elems(s) \cap Elems(t) = {} /\ Elems(s) \cup Elems(t) = all
    BY <1>7 DEF Woven
  <2> QED BY <1>2, <1>4, <1>5, <2>1
<1>25. Woven(h, head, all, r2, c, p + 1, e)
  <2>1. \A i \in 1 .. Len(c) :
          \/ g2[c[i]].skip = NULL
          \/ \E j \in i + 1 .. Len(c) : c[j] = g2[c[i]].skip
          \/ i <= p + 1 /\ g2[c[i]].skip \in Elems(e)
    BY <1>4, <1>23
  <2>2. p + 1 \in 1 .. Len(c) /\ r2.curA = c[p + 1]
    BY <1>1, <1>2, <1>4
  <2> DEFINE n2 == r2.curB
             j2 == p + 1
  <2>3. /\ r2.heap = g2 /\ r2.curB = n2 /\ r2.curA = c[j2]
        /\ j2 \in 1 .. Len(c) /\ Chained(g2, n2, e)
        /\ e # <<>> => g2[c[j2]].data <= g2[e[1]].data
        /\ \A i \in 1 .. Len(c) :
              \/ g2[c[i]].skip = NULL
              \/ \E j \in i + 1 .. Len(c) : c[j] = g2[c[i]].skip
              \/ i <= j2 /\ g2[c[i]].skip \in Elems(e)
    BY <1>7, <1>10, <1>20, <2>1, <2>2, Zenon
  <2> HIDE DEF n2, j2
  <2>4. Woven(h, head, all, r2, c, j2, e)
    BY <1>6, <1>9, <1>11, <1>17, <1>19, <1>22, <1>24, <2>3, Zenon DEF Woven
  <2> QED BY <2>4, Zenon DEF j2
<1> QED BY <1>4, <1>5, <1>25 DEF c, e, m, k, x

Merging == [heap : [Nodes -> LinkNode], curA : Nodes, curB : Pointer]

LEMMA TurnType ==
    ASSUME NEW r \in Merging
    PROVE  Turn(r) \in Merging
<1> DEFINE g == r.heap
           x == r.curB
           y == r.curA
           next == g[y].next
           skip == g[y].skip
           r2 == Turn(r)
<1>1. /\ g \in [Nodes -> LinkNode] /\ y \in Nodes /\ x \in Pointer
      /\ r = [heap |-> g, curA |-> y, curB |-> x]
      /\ NULL \in Pointer /\ \A n \in Pointer : n # NULL => n \in Nodes
  BY DEF Merging, Pointer
<1>2. next \in Pointer /\ skip \in Pointer
  <2> HIDE DEF g, y
  <2> QED BY <1>1 DEF LinkNode
<1>3. /\ x = NULL => r2 = r
      /\ x # NULL /\ Less(g, next, x) =>
            r2 = [heap |-> g, curA |-> IF Less(g, skip, x) THEN skip ELSE next, curB |-> x]
      /\ x # NULL /\ next = NULL =>
            r2 = [heap |-> [g EXCEPT ![y].next = x], curA |-> y, curB |-> NULL]
      /\ x # NULL /\ next # NULL /\ ~Less(g, next, x) =>
            r2 = [heap |-> Inserted(g, y, x), curA |-> x, curB |-> g[x].next]
  BY <1>1, TurnIs
<1> SUFFICES r2 \in Merging
  OBVIOUS
<1> HIDE DEF g, x, y, next, skip, r2
<1>4. CASE x = NULL
  BY <1>3, <1>4
<1>5. CASE x # NULL /\ Less(g, next, x)
  <2>1. Less(g, skip, x) => skip # NULL
    BY DEF Less
  <2>2. next # NULL
    BY <1>5 DEF Less
  <2> QED BY <1>1, <1>2, <1>3, <1>5, <2>1, <2>2 DEF Merging
<1>6. CASE x # NULL /\ next = NULL
  <2> DEFINE f == [g EXCEPT ![y].next = x]
  <2>1. f \in [Nodes -> LinkNode]
    BY <1>1, NextChanged
  <2> HIDE DEF f
  <2>2. r2 = [heap |-> f, curA |-> y, curB |-> NULL]
    BY <1>3, <1>6 DEF f
  <2> QED BY <1>1, <2>1, <2>2 DEF Merging
<1>7. CASE x # NULL /\ next # NULL /\ ~Less(g, next, x)
  <2> DEFINE f == [g EXCEPT ![y].next = x]
             f2 == [f EXCEPT ![x].next = next]
  <2>1. f \in [Nodes -> LinkNode]
    BY <1>1, NextChanged
  <2>2. Inserted(g, y, x) = f2
    BY DEF Inserted, next
  <2>3. x \in Nodes
    BY <1>1, <1>7
  <2> HIDE DEF f
  <2>4. f2 \in [Nodes -> LinkNode]
    BY <1>2, <2>1, <2>3, NextChanged
  <2>5. g[x].next \in Pointer
    BY <1>1, <2>3 DEF LinkNode
  <2> HIDE DEF f2
  <2>6. r2 = [heap |-> f2, curA |-> x, curB |-> g[x].next]
    BY <1>3, <1>7, <2>2
  <2> QED BY <2>3, <2>4, <2>5, <2>6 DEF Merging
<1>8. next = NULL => ~Less(g, next, x)
  BY DEF Less
<1> QED BY <1>4, <1>5, <1>6, <1>7, <1>8

\* A turn of the loop: it comes nearer to the end.
LEMMA WovenTurn ==
    ASSUME NEW h, NEW head, NEW all, NEW r \in Merging, NEW s, NEW p, NEW t,
           Woven(h, head, all, r, s, p, t)
    PROVE  \E s2, p2, t2 :
              /\ Woven(h, head, all, Turn(r), s2, p2, t2)
              /\ Len(s2) + Len(t2) = Len(s) + Len(t)
              /\ t2 = <<>> \/ (Len(s2) - p2) + Len(t2) < (Len(s) - p) + Len(t)
<1> DEFINE g == r.heap
           x == r.curB
           y == r.curA
           next == g[y].next
           skip == g[y].skip
           r2 == Turn(r)
           Good2(s2, p2, t2) ==
              /\ Woven(h, head, all, r2, s2, p2, t2)
              /\ Len(s2) + Len(t2) = Len(s) + Len(t)
              /\ t2 = <<>> \/ (Len(s2) - p2) + Len(t2) < (Len(s) - p) + Len(t)
<1>1. /\ Len(s) \in Nat /\ Len(t) \in Nat /\ p \in 1 .. Len(s)
      /\ s \in Seq(Nodes) /\ t \in Seq(Nodes)
      /\ x = IF Len(t) = 0 THEN NULL ELSE t[1]
      /\ (t = <<>>) = (Len(t) = 0)
      /\ \A i \in 1 .. Len(t) : t[i] \in Nodes
      /\ NULL \notin Nodes
  BY WovenTypes
<1>2. x # NULL => Len(t) > 0
  BY <1>1
<1>3. r = [heap |-> g, curA |-> y, curB |-> x]
  BY DEF Merging
<1>4. /\ x = NULL => r2 = r
      /\ x # NULL /\ Less(g, next, x) =>
            r2 = [heap |-> g, curA |-> IF Less(g, skip, x) THEN skip ELSE next, curB |-> x]
      /\ x # NULL /\ next = NULL =>
            r2 = [heap |-> [g EXCEPT ![y].next = x], curA |-> y, curB |-> NULL]
      /\ x # NULL /\ next # NULL /\ ~Less(g, next, x) =>
            r2 = [heap |-> Inserted(g, y, x), curA |-> x, curB |-> g[x].next]
  BY <1>3, TurnIs
<1>5. CASE x = NULL
  <2>1. t = <<>>
    BY <1>1, <1>5
  <2>2. Woven(h, head, all, r2, s, p, t)
    BY <1>4, <1>5
  <2>3. Good2(s, p, t)
    BY <2>1, <2>2
  <2> HIDE DEF Good2
  <2>4. \E s2, p2, t2 : Good2(s2, p2, t2)
    BY <2>3
  <2> QED BY <2>4 DEF Good2
<1>6. CASE x # NULL /\ Less(g, next, x)
  <2>1. r2.heap = g /\ r2.curB = x /\ r2.curA = IF Less(g, skip, x) THEN skip ELSE next
    BY <1>4, <1>6
  <2> HIDE DEF r2
  <2>2. \E q \in 1 .. Len(s) : p < q /\ Woven(h, head, all, r2, s, q, t)
    BY <1>6, <2>1, WovenAlong
  <2>3. PICK q \in 1 .. Len(s) : p < q /\ Woven(h, head, all, r2, s, q, t)
    BY <2>2
  <2>4. (Len(s) - q) + Len(t) < (Len(s) - p) + Len(t)
    BY <1>1, <2>3
  <2>5. Good2(s, q, t)
    BY <2>3, <2>4
  <2> HIDE DEF Good2
  <2>6. \E s2, p2, t2 : Good2(s2, p2, t2)
    BY <2>5
  <2> QED BY <2>6 DEF Good2, r2
<1>7. CASE x # NULL /\ next = NULL
  <2>1. r2.heap = [g EXCEPT ![y].next = x] /\ r2.curA = y /\ r2.curB = NULL
    BY <1>4, <1>7
  <2> HIDE DEF r2
  <2>2. Woven(h, head, all, r2, s \o t, p, <<>>)
    BY <1>7, <2>1, WovenEnd
  <2>3. Len(s \o t) = Len(s) + Len(t)
    BY <1>1, ConcatAt
  <2>4. Good2(s \o t, p, <<>>)
    BY <1>1, <2>2, <2>3
  <2> HIDE DEF Good2
  <2>5. \E s2, p2, t2 : Good2(s2, p2, t2)
    BY <2>4
  <2> QED BY <2>5 DEF Good2, r2
<1>8. CASE x # NULL /\ next # NULL /\ ~Less(g, next, x)
  <2>1. r2.heap = Inserted(g, y, x) /\ r2.curA = x /\ r2.curB = g[x].next
    BY <1>4, <1>8
  <2> DEFINE s2 == Between(s, p, x)
             t2 == Behind(t)
  <2> HIDE DEF r2
  <2>2. Woven(h, head, all, r2, s2, p + 1, t2) /\ Len(s2) = Len(s) + 1 /\ Len(t2) = Len(t) - 1
    BY <1>8, <2>1, WovenIn
  <2> HIDE DEF s2, t2
  <2>3. Good2(s2, p + 1, t2)
    BY <1>1, <2>2
  <2> HIDE DEF Good2
  <2>4. \E u, p2, w : Good2(u, p2, w)
    BY <2>3
  <2> QED BY <2>4 DEF Good2, r2
<1>9. next = NULL => ~Less(g, next, x)
  BY DEF Less
<1> QED BY <1>5, <1>6, <1>7, <1>8

\* The values, and the nodes outside E, stay what they are.
SameData(h, g) == \A n \in Nodes : g[n].data = h[n].data
Outside(h, g, E) == \A n \in Nodes : n \notin E => g[n] = h[n]

\* Two lists that merge weaves into one, g being the heap then.
Weavable(h, head, curB, a, b) ==
    /\ h \in [Nodes -> LinkNode] /\ Chained(h, head, a) /\ Chained(h, curB, b)
    /\ Elems(a) \cap Elems(b) = {}
    /\ Ordered(h, a) /\ Ordered(h, b) /\ Forward(h, a) /\ Forward(h, b)

Wove(h, g, head, a, b) ==
    \E w : /\ g \in [Nodes -> LinkNode]
           /\ Chained(g, head, w) /\ Ordered(g, w) /\ Forward(g, w)
           /\ Elems(w) = Elems(a) \cup Elems(b) /\ Len(w) = Len(a) + Len(b)
           /\ SameData(h, g) /\ Outside(h, g, Elems(a) \cup Elems(b))

\* The first value of the list a, if there is one, is the least.
Precedes(h, a, b) == a # <<>> /\ (b # <<>> => h[a[1]].data <= h[b[1]].data)

LEMMA WeaveGood ==
    ASSUME NEW h, NEW head, NEW curB, NEW a, NEW b,
           Weavable(h, head, curB, a, b), Precedes(h, a, b),
           NEW g, g = Weave(h, head, curB)
    PROVE  Wove(h, g, head, a, b)
<1> SUFFICES ASSUME h \in [Nodes -> LinkNode], Chained(h, head, a), Chained(h, curB, b), a # <<>>,
                    Elems(a) \cap Elems(b) = {},
                    Ordered(h, a), Ordered(h, b), Forward(h, a), Forward(h, b),
                    b # <<>> => h[a[1]].data <= h[b[1]].data
             PROVE  Wove(h, g, head, a, b)
  BY DEF Weavable, Precedes
<1> DEFINE base == [heap |-> h, curA |-> head, curB |-> curB]
           Solves(f) == f = [k \in 0 .. PoolSize |-> IF k = 0 THEN base ELSE Turn(f[k - 1])]
           turn == CHOOSE f : Solves(f)
           step == [k \in Nat |-> [r \in Merging |-> Turn(r)]]
           M == Len(a) + Len(b)
           all == Elems(a) \cup Elems(b)
           At(k, s, p, t) == /\ Woven(h, head, all, turn[k], s, p, t) /\ Len(s) + Len(t) = M
                             /\ t = <<>> \/ (Len(s) - p) + Len(t) + k <= M - 1
           T == {k \in 0 .. PoolSize : \E s, p, t : At(k, s, p, t)}
<1>1. /\ a \in Seq(Nodes) /\ b \in Seq(Nodes) /\ Len(a) \in Nat /\ Len(b) \in Nat
      /\ head = a[1] /\ 1 \in 1 .. Len(a) /\ head \in Nodes
      /\ curB = IF b = <<>> THEN NULL ELSE b[1]
      /\ (b = <<>>) = (Len(b) = 0)
  <2>1. a \in Seq(Nodes) /\ b \in Seq(Nodes) /\ head = a[1]
    BY DEF Chained
  <2>2. Len(a) \in Nat /\ Len(b) \in Nat /\ 1 \in 1 .. Len(a) /\ (b = <<>>) = (Len(b) = 0)
    BY <2>1, LenProperties, EmptySeq
  <2>3. curB = IF b = <<>> THEN NULL ELSE b[1]
    BY DEF Chained
  <2> QED BY <2>1, <2>2, <2>3, ElementOfSeq
<1>2. M <= PoolSize /\ M \in Nat /\ PoolSize \in Nat
  <2>1. a \o b \in Seq(Nodes) /\ Len(a \o b) = M
    BY <1>1, ConcatAt
  <2>2. Once(a \o b)
    BY <1>1, ConcatElems DEF Chained
  <2> DEFINE c == a \o b
  <2> HIDE DEF c
  <2>3. Len(c) <= Cardinality(Nodes)
    BY <2>1, <2>2, NodesCount, OnceLength DEF Once, c
  <2> QED BY <1>1, <2>1, <2>3, NodesCount DEF c
<1>3. base \in Merging
  <2>1. curB \in Pointer
    BY <1>1, ElementOfSeq DEF Pointer
  <2> QED BY <1>1, <2>1 DEF Merging
<1>4. step \in [Nat -> [Merging -> Merging]]
  BY TurnType
<1>5. \E f : Recursive(f, PoolSize, Merging, base, step)
  <2> HIDE DEF base, step
  <2> QED BY <1>2, <1>3, <1>4, RecursionUpTo
<1>6. PICK f : Recursive(f, PoolSize, Merging, base, step)
  BY <1>5
<1>7. /\ f \in [0 .. PoolSize -> Merging]
      /\ \A k \in 0 .. PoolSize : f[k] = IF k = 0 THEN base ELSE Turn(f[k - 1])
  <2>1. f \in [0 .. PoolSize -> Merging]
    BY <1>6 DEF Recursive
  <2>2. f[0] = base
    BY <1>6 DEF Recursive
  <2>3. ASSUME NEW k \in 1 .. PoolSize PROVE f[k] = Turn(f[k - 1])
    <3>1. f[k] = step[k][f[k - 1]] /\ k - 1 \in 0 .. PoolSize /\ k \in Nat
      <4> HIDE DEF step, base
      <4>1. f[k] = step[k][f[k - 1]]
        BY <1>6 DEF Recursive
      <4> QED BY <1>2, <4>1
    <3>2. f[k - 1] \in Merging
      BY <2>1, <3>1
    <3> DEFINE x == f[k - 1]
    <3> HIDE DEF x
    <3>3. step[k][x] = Turn(x)
      BY <3>1, <3>2 DEF x
    <3> QED BY <3>1, <3>3 DEF x
  <2>4. ASSUME NEW k \in 0 .. PoolSize, k # 0 PROVE k \in 1 .. PoolSize
    BY <1>2, <2>4
  <2> HIDE DEF base
  <2> QED BY <2>1, <2>2, <2>3, <2>4
<1>8. Solves(f)
  <2>1. f = [k \in 0 .. PoolSize |-> f[k]]
    BY <1>7
  <2> HIDE DEF base
  <2> QED BY <1>7, <2>1
<1>9. Solves(turn)
  BY <1>8
<1>10. \A k \in 0 .. PoolSize : turn[k] = IF k = 0 THEN base ELSE Turn(turn[k - 1])
  <2> HIDE DEF turn, base
  <2> QED BY <1>9
<1>11. g = turn[PoolSize].heap
  BY DEF Weave
<1> HIDE DEF turn, base
<1>12. \A k \in 0 .. PoolSize : turn[k] \in Merging
  <2> DEFINE R == {k \in 0 .. PoolSize : turn[k] \in Merging}
  <2>1. 0 \in R
    BY <1>2, <1>3, <1>10
  <2>2. ASSUME NEW k \in 0 .. PoolSize - 1, k \in R PROVE k + 1 \in R
    <3>1. k + 1 \in 0 .. PoolSize /\ k + 1 # 0 /\ k + 1 - 1 = k
      BY <1>2
    <3>2. turn[k + 1] = Turn(turn[k])
      BY <1>10, <3>1
    <3>3. turn[k] \in Merging
      BY <2>2
    <3>4. Turn(turn[k]) \in Merging
      BY <3>3, TurnType
    <3> QED BY <3>1, <3>2, <3>4
  <2> HIDE DEF R
  <2>3. 0 .. PoolSize \subseteq R
    BY <1>2, <2>1, <2>2, InductionUpTo
  <2> QED BY <2>3 DEF R
<1>13. 0 \in T
  <2>1. base.heap = h /\ base.curA = head /\ base.curB = curB /\ turn[0] = base
    BY <1>2, <1>10 DEF base
  <2>2. \A n \in Nodes : h[n].data = h[n].data /\ (n \notin all => h[n] = h[n])
    OBVIOUS
  <2>3. \A i \in 1 .. Len(a) :
          \/ h[a[i]].skip = NULL
          \/ \E j \in i + 1 .. Len(a) : a[j] = h[a[i]].skip
          \/ i <= 1 /\ h[a[i]].skip \in Elems(b)
    BY DEF Forward
  <2>4. Woven(h, head, all, turn[0], a, 1, b)
    BY <1>1, <2>1, <2>3 DEF Woven
  <2>5. (Len(a) - 1) + Len(b) + 0 <= M - 1
    BY <1>1
  <2>6. At(0, a, 1, b)
    BY <2>4, <2>5
  <2> HIDE DEF At
  <2> QED BY <1>2, <2>6
<1>14. ASSUME NEW k \in 0 .. PoolSize - 1, k \in T PROVE k + 1 \in T
  <2>1. k + 1 \in 0 .. PoolSize /\ k + 1 # 0 /\ k + 1 - 1 = k /\ k \in 0 .. PoolSize
    BY <1>2
  <2>2. turn[k + 1] = Turn(turn[k]) /\ turn[k] \in Merging
    BY <1>10, <1>12, <2>1
  <2>3. PICK s, p, t : At(k, s, p, t)
    BY <1>14
  <2> DEFINE r == turn[k]
  <2> HIDE DEF r
  <2>4. r \in Merging /\ Woven(h, head, all, r, s, p, t)
    BY <2>2, <2>3 DEF r
  <2>5. \E s2, p2, t2 :
           /\ Woven(h, head, all, Turn(r), s2, p2, t2)
           /\ Len(s2) + Len(t2) = Len(s) + Len(t)
           /\ t2 = <<>> \/ (Len(s2) - p2) + Len(t2) < (Len(s) - p) + Len(t)
    BY <2>4, WovenTurn
  <2>6. PICK s2, p2, t2 :
           /\ Woven(h, head, all, Turn(r), s2, p2, t2)
           /\ Len(s2) + Len(t2) = Len(s) + Len(t)
           /\ t2 = <<>> \/ (Len(s2) - p2) + Len(t2) < (Len(s) - p) + Len(t)
    BY <2>5
  <2>7. ASSUME t2 # <<>>
        PROVE  (Len(s2) - p2) + Len(t2) + (k + 1) <= M - 1
    <3>1. /\ Len(s2) \in Nat /\ Len(t2) \in Nat /\ p2 \in 1 .. Len(s2)
          /\ (t2 = <<>>) = (Len(t2) = 0)
      BY <2>6, WovenTypes
    <3>2. /\ Len(s) \in Nat /\ Len(t) \in Nat /\ p \in 1 .. Len(s)
          /\ (t = <<>>) = (Len(t) = 0)
      BY <2>4, WovenTypes
    <3>3. (Len(s2) - p2) + Len(t2) < (Len(s) - p) + Len(t)
      BY <2>6, <2>7
    <3>4. CASE t # <<>>
      <4>1. (Len(s) - p) + Len(t) + k <= M - 1
        BY <2>3, <3>4
      <4> HIDE DEF M
      <4> QED BY <1>2, <3>1, <3>2, <3>3, <4>1
    <3>5. CASE t = <<>>
      <4>1. r.curB = NULL
        BY <2>4, <3>5 DEF Woven, Chained
      <4>2. Turn(r) = r
        BY <4>1 DEF Turn
      <4>3. Chained(r.heap, NULL, t2)
        BY <2>6, <4>1, <4>2 DEF Woven
      <4>4. t2[1] = NULL /\ t2[1] \in Nodes
        <5>1. t2 \in Seq(Nodes) /\ 1 \in 1 .. Len(t2)
          BY <2>7, <3>1, <4>3 DEF Chained
        <5> QED BY <2>7, <4>3, <5>1, ElementOfSeq DEF Chained
      <4> QED BY <4>4, NodesCount
    <3> QED BY <3>4, <3>5
  <2>8. At(k + 1, s2, p2, t2)
    BY <2>2, <2>3, <2>6, <2>7 DEF r
  <2> HIDE DEF At
  <2> QED BY <2>1, <2>8
<1>15. PoolSize \in T
  <2> HIDE DEF T
  <2>1. 0 .. PoolSize \subseteq T
    BY <1>2, <1>13, <1>14, InductionUpTo
  <2> QED BY <1>2, <2>1
<1>16. PICK s, p, t : At(PoolSize, s, p, t)
  BY <1>15
<1>17. /\ Len(s) \in Nat /\ Len(t) \in Nat /\ p \in 1 .. Len(s)
       /\ (t = <<>>) = (Len(t) = 0)
  BY <1>16, WovenTypes
<1>18. t = <<>>
  <2> SUFFICES ASSUME t # <<>> PROVE FALSE
    OBVIOUS
  <2>1. (Len(s) - p) + Len(t) + PoolSize <= M - 1
    BY <1>16
  <2> HIDE DEF M
  <2> QED BY <1>2, <1>17, <2>1
<1>19. Forward(g, s) /\ Elems(s) = all
  <2>1. Elems(t) = {}
    BY <1>17, <1>18 DEF Elems
  <2> QED BY <1>11, <1>16, <2>1 DEF Woven, Forward
<1>20. /\ g \in [Nodes -> LinkNode] /\ Chained(g, head, s) /\ Ordered(g, s)
       /\ SameData(h, g) /\ Outside(h, g, all)
  BY <1>11, <1>16 DEF Woven, SameData, Outside
<1>21. Len(s) = Len(a) + Len(b)
  BY <1>16, <1>17, <1>18
<1> QED BY <1>19, <1>20, <1>21 DEF Wove

-----------------------------------------------------------------------------
(* intersection *)

\* The q-th node of a list, or NULL behind the last.
NodeAt(c, q) == IF q <= Len(c) THEN c[q] ELSE NULL

\* A turn of the inner loop of intersection.
Onward(n, v) == IF n = NULL \/ v <= heap[n].data THEN n ELSE heap[Skipped(n, v)].next

\* It goes on to a later node and passes none that is not less than v, whether by
\* a skip or not.
LEMMA OnwardTo ==
    ASSUME heap \in [Nodes -> LinkNode],
           NEW start, NEW c, Chained(heap, start, c), Ordered(heap, c), Forward(heap, c),
           NEW q \in 1 .. Len(c), NEW v \in Nat, heap[c[q]].data < v
    PROVE  \E j \in q + 1 .. Len(c) + 1 :
              /\ Onward(c[q], v) = NodeAt(c, j)
              /\ \A i \in q .. j - 1 : heap[c[i]].data < v
<1> DEFINE n == Len(c)
           x == c[q]
           skip == heap[x].skip
<1>1. /\ n \in Nat /\ q \in 1 .. n
      /\ \A i \in 1 .. n : c[i] \in Nodes /\ heap[c[i]].data \in Nat
      /\ NULL \notin Nodes
  <2>1. c \in Seq(Nodes)
    BY DEF Chained
  <2>2. n \in Nat /\ \A i \in 1 .. n : c[i] \in Nodes
    BY <2>1, LenProperties, ElementOfSeq
  <2> QED BY <2>2, DataNatural, NodesCount
<1>2. \A i \in 1 .. n : heap[c[i]].next = NodeAt(c, i + 1)
  <2> TAKE i \in 1 .. n
  <2>1. heap[c[i]].next = IF i < n THEN c[i + 1] ELSE NULL
    BY DEF Chained
  <2>2. i + 1 <= n <=> i < n
    BY <1>1
  <2> QED BY <2>1, <2>2 DEF NodeAt
<1>3. \A i, j \in 1 .. n : i <= j => heap[c[i]].data <= heap[c[j]].data
  <2> TAKE i, j \in 1 .. n
  <2> HAVE i <= j
  <2>1. i = j \/ i < j
    BY <1>1
  <2>2. i < j => heap[c[i]].data <= heap[c[j]].data
    BY DEF Ordered
  <2> QED BY <1>1, <2>1, <2>2
<1>4. Onward(x, v) = heap[Skipped(x, v)].next
  <2>1. x # NULL /\ ~(v <= heap[x].data)
    BY <1>1
  <2> HIDE DEF x
  <2> QED BY <2>1 DEF Onward
<1>5. CASE skip # NULL /\ v > heap[skip].data
  <2>1. PICK j \in q + 1 .. n : c[j] = skip
    BY <1>5 DEF Forward
  <2>2. j \in 1 .. n /\ j + 1 \in q + 1 .. n + 1 /\ \A i \in q .. j + 1 - 1 : i \in 1 .. n /\ i <= j
    BY <1>1
  <2>3. Skipped(x, v) = c[j]
    BY <1>5, <2>1 DEF Skipped
  <2>4. Onward(x, v) = NodeAt(c, j + 1)
    BY <1>2, <1>4, <2>2, <2>3
  <2>5. heap[c[j]].data < v
    BY <1>1, <1>5, <2>1, <2>2
  <2>6. ASSUME NEW i \in q .. j + 1 - 1 PROVE heap[c[i]].data < v
    <3>1. heap[c[i]].data <= heap[c[j]].data /\ heap[c[i]].data \in Nat /\ heap[c[j]].data \in Nat
      BY <1>1, <1>3, <2>2
    <3> QED BY <2>5, <3>1
  <2> QED BY <2>2, <2>4, <2>6
<1>6. CASE ~(skip # NULL /\ v > heap[skip].data)
  <2>1. Skipped(x, v) = x
    BY <1>6 DEF Skipped
  <2>2. Onward(x, v) = NodeAt(c, q + 1)
    BY <1>2, <1>4, <2>1
  <2>3. q + 1 \in q + 1 .. n + 1 /\ \A i \in q .. q + 1 - 1 : i = q
    BY <1>1
  <2> QED BY <2>2, <2>3
<1> QED BY <1>5, <1>6

\* What the inner loop finds: the first node from the p-th on that is not less than v.
Finds(c, p, v, y) ==
    \E q \in p .. Len(c) + 1 :
       /\ y = NodeAt(c, q)
       /\ \A i \in p .. q - 1 : heap[c[i]].data < v
       /\ q <= Len(c) => v <= heap[c[q]].data

LEMMA AdvanceTo ==
    ASSUME heap \in [Nodes -> LinkNode],
           NEW start, NEW c, Chained(heap, start, c), Ordered(heap, c), Forward(heap, c),
           NEW p \in 1 .. Len(c) + 1, NEW v \in Nat,
           NEW x, x = NodeAt(c, p), NEW y, y = Advance(x, v)
    PROVE  Finds(c, p, v, y)
<1> DEFINE n == Len(c)
           Solves(f) == f = [k \in 0 .. PoolSize |->
                               IF k = 0 THEN x
                               ELSE LET m == f[k - 1]
                                    IN  IF m = NULL \/ v <= heap[m].data THEN m
                                        ELSE heap[Skipped(m, v)].next]
           at == CHOOSE f : Solves(f)
           step == [k \in Nat |-> [m \in Pointer |-> Onward(m, v)]]
           At(k, q) == /\ at[k] = NodeAt(c, q)
                       /\ \A i \in p .. q - 1 : heap[c[i]].data < v
                       /\ p + k <= q \/ (q <= n => v <= heap[c[q]].data)
           T == {k \in 0 .. PoolSize : \E q \in p .. n + 1 : At(k, q)}
<1>1. /\ n \in Nat /\ p \in 1 .. n + 1 /\ PoolSize \in Nat /\ n <= PoolSize
      /\ \A i \in 1 .. n : c[i] \in Nodes /\ heap[c[i]].data \in Nat
      /\ NULL \notin Nodes
  <2>1. c \in Seq(Nodes) /\ Once(c)
    BY DEF Chained
  <2>2. n \in Nat /\ \A i \in 1 .. n : c[i] \in Nodes
    BY <2>1, LenProperties, ElementOfSeq
  <2>3. n <= Cardinality(Nodes)
    BY <2>1, NodesCount, OnceLength DEF Once
  <2> QED BY <2>2, <2>3, DataNatural, NodesCount
<1>2. x \in Pointer
  BY <1>1 DEF NodeAt, Pointer
<1>3. \A m \in Pointer : Onward(m, v) \in Pointer
  <2> SUFFICES ASSUME NEW m \in Pointer, m # NULL PROVE heap[Skipped(m, v)].next \in Pointer
    BY DEF Onward
  <2>1. m \in Nodes
    BY DEF Pointer
  <2>2. heap[m].skip \in Pointer
    BY <2>1 DEF LinkNode
  <2>3. Skipped(m, v) \in Nodes
    BY <2>1, <2>2 DEF Skipped, Pointer
  <2> QED BY <2>3 DEF LinkNode
<1>4. step \in [Nat -> [Pointer -> Pointer]]
  BY <1>3
<1>5. \E f : Recursive(f, PoolSize, Pointer, x, step)
  <2> HIDE DEF step
  <2> QED BY <1>1, <1>2, <1>4, RecursionUpTo
<1>6. PICK f : Recursive(f, PoolSize, Pointer, x, step)
  BY <1>5
<1>7. \A k \in 0 .. PoolSize : f[k] = IF k = 0 THEN x ELSE Onward(f[k - 1], v)
  <2>1. f[0] = x /\ f \in [0 .. PoolSize -> Pointer]
    BY <1>6 DEF Recursive
  <2>2. ASSUME NEW k \in 1 .. PoolSize PROVE f[k] = Onward(f[k - 1], v)
    <3> DEFINE m == f[k - 1]
    <3>1. f[k] = step[k][m] /\ m \in Pointer
      <4> HIDE DEF step
      <4>1. f[k] = step[k][f[k - 1]] /\ k - 1 \in 0 .. PoolSize
        BY <1>1, <1>6 DEF Recursive
      <4> QED BY <2>1, <4>1
    <3> HIDE DEF m
    <3>2. step[k][m] = Onward(m, v)
      BY <3>1
    <3> QED BY <3>1, <3>2 DEF m
  <2>3. ASSUME NEW k \in 0 .. PoolSize, k # 0 PROVE k \in 1 .. PoolSize
    BY <1>1, <2>3
  <2> QED BY <2>1, <2>2, <2>3
<1>8. Solves(f)
  <2>1. f = [k \in 0 .. PoolSize |-> f[k]]
    BY <1>6 DEF Recursive
  <2> QED BY <1>7, <2>1 DEF Onward
<1>9. Solves(at)
  BY <1>8
<1>10. \A k \in 0 .. PoolSize : at[k] = IF k = 0 THEN x ELSE Onward(at[k - 1], v)
  <2> HIDE DEF at
  <2> QED BY <1>9 DEF Onward
<1>11. y = at[PoolSize]
  BY DEF Advance
<1> HIDE DEF at
<1>12. 0 \in T
  <2>1. at[0] = x /\ p \in p .. n + 1 /\ p + 0 <= p /\ \A i \in p .. p - 1 : FALSE
    BY <1>1, <1>10
  <2>2. At(0, p)
    BY <2>1
  <2> HIDE DEF At
  <2> QED BY <1>1, <2>1, <2>2
<1>13. ASSUME NEW k \in 0 .. PoolSize - 1, k \in T PROVE k + 1 \in T
  <2>1. k + 1 \in 0 .. PoolSize /\ k + 1 # 0 /\ k + 1 - 1 = k
    BY <1>1
  <2>2. at[k + 1] = Onward(at[k], v)
    BY <1>10, <2>1
  <2>3. PICK q \in p .. n + 1 : At(k, q)
    BY <1>13
  <2>4. CASE q <= n /\ ~(v <= heap[c[q]].data)
    <3>1. q \in 1 .. n /\ heap[c[q]].data < v /\ at[k] = c[q]
      BY <1>1, <2>3, <2>4 DEF NodeAt
    <3>2. \E j \in q + 1 .. n + 1 :
             /\ Onward(c[q], v) = NodeAt(c, j)
             /\ \A i \in q .. j - 1 : heap[c[i]].data < v
      BY <3>1, OnwardTo
    <3>3. PICK j \in q + 1 .. n + 1 :
             /\ Onward(c[q], v) = NodeAt(c, j)
             /\ \A i \in q .. j - 1 : heap[c[i]].data < v
      BY <3>2
    <3>4. p + k <= q
      BY <2>3, <2>4
    <3>5. j \in p .. n + 1 /\ p + (k + 1) <= j
      BY <1>1, <3>1, <3>4
    <3>6. \A i \in p .. j - 1 : heap[c[i]].data < v
      <4> TAKE i \in p .. j - 1
      <4>1. i \in p .. q - 1 \/ i \in q .. j - 1
        BY <1>1
      <4> QED BY <2>3, <3>3, <4>1
    <3>7. At(k + 1, j)
      BY <2>2, <3>1, <3>3, <3>5, <3>6
    <3> HIDE DEF At
    <3> QED BY <2>1, <3>5, <3>7
  <2>5. CASE ~(q <= n /\ ~(v <= heap[c[q]].data))
    <3>1. Onward(at[k], v) = at[k]
      BY <2>3, <2>5 DEF Onward, NodeAt
    <3>2. At(k + 1, q)
      BY <2>2, <2>3, <2>5, <3>1
    <3> HIDE DEF At
    <3> QED BY <2>1, <3>2
  <2> QED BY <2>4, <2>5
<1>14. PoolSize \in T
  <2> HIDE DEF T
  <2>1. 0 .. PoolSize \subseteq T
    BY <1>1, <1>12, <1>13, InductionUpTo
  <2> QED BY <1>1, <2>1
<1>15. PICK q \in p .. n + 1 : At(PoolSize, q)
  BY <1>14
<1>16. q <= n => v <= heap[c[q]].data
  <2>1. q <= n => ~(p + PoolSize <= q)
    BY <1>1
  <2> QED BY <1>15, <2>1
<1> QED BY <1>11, <1>15, <1>16 DEF Finds

\* The positions of the nodes whose value the other list has too.
Matching(h, a, b) ==
    {i \in 1 .. Len(a) : \E j \in 1 .. Len(b) : h[b[j]].data = h[a[i]].data}

LEMMA SharedIs ==
    ASSUME heap \in [Nodes -> LinkNode],
           NEW start, NEW c, Chained(heap, start, c), Ordered(heap, c), Forward(heap, c),
           NEW as \in Seq(Nodes), Ordered(heap, as)
    PROVE  Shared(as, start) = Matching(heap, as, c)
<1> DEFINE n == Len(c)
           N == Len(as)
           S == {NodeAt(c, q) : q \in 1 .. n + 1}
           v(i) == heap[as[i]].data
           Solves(f) == f = [i \in 0 .. N |-> IF i = 0 THEN start
                                              ELSE Advance(f[i - 1], heap[as[i]].data)]
           at == CHOOSE f : Solves(f)
           step == [i \in Nat |-> [x \in S |-> IF i \in 1 .. N THEN Advance(x, v(i)) ELSE x]]
           At(i, q) == /\ at[i] = NodeAt(c, q)
                       /\ \A j \in 1 .. q - 1 : i # 0 /\ heap[c[j]].data < v(i)
                       /\ q <= n /\ i # 0 => v(i) <= heap[c[q]].data
           T == {i \in 0 .. N : \E q \in 1 .. n + 1 : At(i, q)}
<1>1. /\ n \in Nat /\ N \in Nat /\ DOMAIN as = 1 .. N
      /\ \A i \in 1 .. n : c[i] \in Nodes /\ heap[c[i]].data \in Nat
      /\ \A i \in 1 .. N : as[i] \in Nodes /\ v(i) \in Nat
      /\ NULL \notin Nodes
  <2>1. c \in Seq(Nodes)
    BY DEF Chained
  <2>2. n \in Nat /\ \A i \in 1 .. n : c[i] \in Nodes
    BY <2>1, LenProperties, ElementOfSeq
  <2>3. N \in Nat /\ DOMAIN as = 1 .. N /\ \A i \in 1 .. N : as[i] \in Nodes
    BY LenProperties, ElementOfSeq
  <2> QED BY <2>2, <2>3, DataNatural, NodesCount
<1>2. start = NodeAt(c, 1) /\ 1 \in 1 .. n + 1
  <2>1. (c = <<>>) = (n = 0)
    BY EmptySeq DEF Chained
  <2> QED BY <1>1, <2>1 DEF Chained, NodeAt
<1>3. \A i, j \in 1 .. n : i <= j => heap[c[i]].data <= heap[c[j]].data
  <2> TAKE i, j \in 1 .. n
  <2> HAVE i <= j
  <2>1. i = j \/ i < j
    BY <1>1
  <2>2. i < j => heap[c[i]].data <= heap[c[j]].data
    BY DEF Ordered
  <2> QED BY <1>1, <2>1, <2>2
<1>4. \A i \in 1 .. N : \A p \in 1 .. n + 1 : \A x :
         x = NodeAt(c, p) => Finds(c, p, v(i), Advance(x, v(i)))
  <2> SUFFICES ASSUME NEW i \in 1 .. N, NEW p \in 1 .. n + 1, NEW x, x = NodeAt(c, p)
               PROVE  Finds(c, p, v(i), Advance(x, v(i)))
    OBVIOUS
  <2> DEFINE d == v(i)
             y == Advance(x, d)
  <2>1. d \in Nat
    BY <1>1
  <2> HIDE DEF d, y
  <2>2. Finds(c, p, d, y)
    BY <2>1, AdvanceTo DEF y
  <2> QED BY <2>2 DEF d, y
<1> HIDE DEF v, n, N
<1>5. step \in [Nat -> [S -> S]]
  <2>1. ASSUME NEW i \in 1 .. N, NEW x \in S PROVE Advance(x, v(i)) \in S
    <3>1. PICK p \in 1 .. n + 1 : x = NodeAt(c, p)
      OBVIOUS
    <3>2. Finds(c, p, v(i), Advance(x, v(i)))
      BY <1>4, <3>1
    <3>3. PICK q \in p .. n + 1 : Advance(x, v(i)) = NodeAt(c, q)
      BY <3>2 DEF Finds, n
    <3>4. q \in 1 .. n + 1
      BY <1>1
    <3> QED BY <3>3, <3>4
  <2> HIDE DEF S
  <2> QED BY <2>1
<1>6. \E f : Recursive(f, N, S, start, step)
  <2>1. start \in S
    BY <1>2
  <2> HIDE DEF step, S
  <2> QED BY <1>1, <1>5, <2>1, RecursionUpTo
<1>7. PICK f : Recursive(f, N, S, start, step)
  BY <1>6
<1>8. \A i \in 0 .. N : f[i] = IF i = 0 THEN start ELSE Advance(f[i - 1], v(i))
  <2> HIDE DEF S
  <2>1. f[0] = start /\ f \in [0 .. N -> S]
    BY <1>7 DEF Recursive
  <2>2. ASSUME NEW i \in 1 .. N PROVE f[i] = Advance(f[i - 1], v(i))
    <3> DEFINE x == f[i - 1]
    <3>1. f[i] = step[i][x] /\ x \in S
      <4> HIDE DEF step
      <4>1. f[i] = step[i][f[i - 1]] /\ i - 1 \in 0 .. N
        BY <1>1, <1>7 DEF Recursive
      <4> QED BY <2>1, <4>1
    <3> HIDE DEF x
    <3>2. step[i][x] = Advance(x, v(i))
      BY <3>1
    <3> QED BY <3>1, <3>2 DEF x
  <2>3. ASSUME NEW i \in 0 .. N, i # 0 PROVE i \in 1 .. N
    BY <1>1, <2>3
  <2> QED BY <2>1, <2>2, <2>3
<1>9. Solves(f)
  <2>1. f = [i \in 0 .. N |-> f[i]]
    BY <1>7 DEF Recursive
  <2> QED BY <1>8, <2>1 DEF v
<1>10. Solves(at)
  BY <1>9
<1>11. \A i \in 0 .. N : at[i] = IF i = 0 THEN start ELSE Advance(at[i - 1], v(i))
  <2> HIDE DEF at
  <2> QED BY <1>10 DEF v
<1>12. Shared(as, start) = {i \in 1 .. N : at[i] # NULL /\ heap[at[i]].data = v(i)}
  BY <1>1 DEF Shared, v, N
<1> HIDE DEF at
<1>13. 0 \in T
  <2>1. at[0] = NodeAt(c, 1) /\ 0 \in 0 .. N /\ \A j \in 1 .. 1 - 1 : FALSE
    BY <1>1, <1>2, <1>11
  <2>2. At(0, 1)
    BY <2>1
  <2> HIDE DEF At
  <2> QED BY <1>2, <2>1, <2>2
<1>14. ASSUME NEW i \in 0 .. N - 1, i \in T PROVE i + 1 \in T
  <2>1. i + 1 \in 1 .. N /\ i + 1 \in 0 .. N /\ i + 1 # 0 /\ i + 1 - 1 = i
    BY <1>1
  <2> DEFINE I == i + 1
  <2>2. at[I] = Advance(at[i], v(I))
    BY <1>11, <2>1
  <2>3. PICK p \in 1 .. n + 1 : At(i, p)
    BY <1>14
  <2>4. at[i] = NodeAt(c, p) /\ \A j \in 1 .. p - 1 : i # 0 /\ heap[c[j]].data < v(i)
    BY <2>3
  <2>5. Finds(c, p, v(I), at[I])
    BY <1>4, <2>1, <2>2, <2>4
  <2>6. PICK q \in p .. n + 1 :
             /\ at[I] = NodeAt(c, q)
             /\ \A j \in p .. q - 1 : heap[c[j]].data < v(I)
             /\ q <= n => v(I) <= heap[c[q]].data
    BY <2>5 DEF Finds, n
  <2>7. ASSUME NEW j \in 1 .. q - 1 PROVE heap[c[j]].data < v(I)
    <3>1. j \in 1 .. p - 1 \/ j \in p .. q - 1
      BY <1>1
    <3>2. CASE j \in 1 .. p - 1
      <4>1. i \in 1 .. N /\ heap[c[j]].data < v(i) /\ j \in 1 .. n
        <5>1. j \in 1 .. n /\ (i # 0 => i \in 1 .. N)
          BY <1>1, <3>2
        <5> QED BY <2>4, <3>2, <5>1
      <4>2. v(i) <= v(I)
        <5>1. i < I /\ I \in 1 .. N
          BY <2>1
        <5> HIDE DEF I
        <5> QED BY <4>1, <5>1 DEF Ordered, v, N
      <4>3. heap[c[j]].data \in Nat /\ v(i) \in Nat /\ v(I) \in Nat
        BY <1>1, <2>1, <4>1
      <4> HIDE DEF I
      <4> QED BY <4>1, <4>2, <4>3
    <3> QED BY <2>6, <3>1, <3>2
  <2>8. q \in 1 .. n + 1 /\ I # 0
    BY <1>1
  <2>9. At(I, q)
    BY <2>6, <2>7, <2>8
  <2> HIDE DEF At
  <2> QED BY <2>1, <2>8, <2>9
<1>15. 0 .. N \subseteq T
  <2> HIDE DEF T
  <2> QED BY <1>1, <1>13, <1>14, InductionUpTo
<1>16. ASSUME NEW i \in 1 .. N
       PROVE  at[i] # NULL /\ heap[at[i]].data = v(i) <=> \E j \in 1 .. n : heap[c[j]].data = v(i)
  <2>1. i \in T /\ i # 0
    BY <1>1, <1>15
  <2>2. PICK q \in 1 .. n + 1 : At(i, q)
    BY <2>1
  <2>3. /\ at[i] = NodeAt(c, q)
        /\ \A j \in 1 .. q - 1 : heap[c[j]].data < v(i)
        /\ q <= n => v(i) <= heap[c[q]].data
    BY <2>1, <2>2
  <2>4. ASSUME at[i] # NULL, heap[at[i]].data = v(i)
        PROVE  \E j \in 1 .. n : heap[c[j]].data = v(i)
    <3>1. q <= n /\ at[i] = c[q]
      BY <2>3, <2>4 DEF NodeAt, n
    <3>2. q \in 1 .. n
      BY <1>1, <3>1
    <3> QED BY <2>4, <3>1, <3>2
  <2>5. ASSUME NEW j \in 1 .. n, heap[c[j]].data = v(i)
        PROVE  at[i] # NULL /\ heap[at[i]].data = v(i)
    <3>0. heap[c[j]].data \in Nat /\ v(i) \in Nat
      BY <1>1
    <3>1. ~(j \in 1 .. q - 1)
      <4>1. ~(heap[c[j]].data < v(i))
        BY <2>5, <3>0
      <4> QED BY <2>3, <4>1
    <3>2. q <= j /\ q <= n /\ q \in 1 .. n
      BY <1>1, <3>1
    <3>3. heap[c[q]].data <= v(i) /\ v(i) <= heap[c[q]].data /\ heap[c[q]].data \in Nat
      BY <1>1, <1>3, <2>3, <2>5, <3>2
    <3>4. at[i] = c[q] /\ c[q] # NULL
      BY <1>1, <2>3, <3>2 DEF NodeAt, n
    <3>5. heap[c[q]].data = v(i)
      BY <3>0, <3>3
    <3> QED BY <3>4, <3>5
  <2> QED BY <2>4, <2>5
<1> QED BY <1>12, <1>16 DEF Matching, v, n, N

\* The elements at some positions of a sequence without repetition.
ElemsAt(s, I) == {s[i] : i \in I}

LEMMA ThoseElems ==
    ASSUME NEW S, NEW s \in Seq(S), Once(s), NEW I \in SUBSET (1 .. Len(s)),
           NEW r, r = Those(s, I)
    PROVE  r \in Seq(S) /\ Once(r) /\ Elems(r) = ElemsAt(s, I)
<1> DEFINE p == InOrder(I)
           n == Len(r)
<1>1. r \in Seq(S) /\ Picked(r, s, I, p)
  <2>1. I \subseteq 1 .. Len(s)
    OBVIOUS
  <2> QED BY <2>1, ThosePicked
<1> HIDE DEF p
<1>2. /\ n \in Nat /\ \A k \in 1 .. n : p[k] \in I /\ r[k] = s[p[k]]
      /\ \A j, k \in 1 .. n : j < k => p[j] < p[k]
      /\ \A i \in I : \E k \in 1 .. n : p[k] = i
  BY <1>1 DEF Picked
<1> HIDE DEF n
<1>3. ASSUME NEW j \in 1 .. n, NEW k \in 1 .. n, r[j] = r[k] PROVE j = k
  <2>1. p[j] \in 1 .. Len(s) /\ p[k] \in 1 .. Len(s) /\ s[p[j]] = s[p[k]]
    BY <1>2, <1>3
  <2>2. p[j] = p[k]
    BY <2>1 DEF Once
  <2>3. Len(s) \in Nat
    BY LenProperties
  <2>4. (j < k => p[j] < p[k]) /\ (k < j => p[k] < p[j])
    BY <1>2
  <2>5. p[j] \in Int /\ p[k] \in Int
    BY <2>1, <2>3
  <2> QED BY <1>2, <2>2, <2>4, <2>5
<1>4. Elems(r) = {r[k] : k \in 1 .. n}
  BY DEF Elems, n
<1>5. Elems(r) = {s[i] : i \in I}
  <2>1. ASSUME NEW x \in Elems(r) PROVE x \in {s[i] : i \in I}
    <3>1. PICK i \in 1 .. n : x = r[i]
      BY <1>4
    <3>2. p[i] \in I /\ x = s[p[i]]
      BY <1>2, <3>1
    <3> QED BY <3>2
  <2>2. ASSUME NEW i \in I PROVE s[i] \in Elems(r)
    <3>1. PICK j \in 1 .. n : p[j] = i
      BY <1>2
    <3>2. r[j] = s[i]
      BY <1>2, <3>1
    <3> QED BY <1>4, <3>2
  <2> QED BY <2>1, <2>2
<1> QED BY <1>1, <1>3, <1>5 DEF Once, ElemsAt, n

LEMMA RelinkedFields ==
    ASSUME NEW h \in [Nodes -> LinkNode], NEW c \in Seq(Nodes), Once(c), NEW g, g = Relinked(h, c)
    PROVE  /\ g \in [Nodes -> LinkNode]
           /\ \A n \in Nodes : g[n].data = h[n].data /\ (n \notin Elems(c) => g[n] = h[n])
           /\ \A i \in 1 .. Len(c) : g[c[i]].next = IF i < Len(c) THEN c[i + 1] ELSE NULL
<1> DEFINE k == Len(c)
           On(m) == \E i \in DOMAIN c : c[i] = m
           Place(m) == CHOOSE i \in DOMAIN c : c[i] = m
           After(i) == IF i = k THEN NULL ELSE c[i + 1]
           Node(m) == IF On(m) THEN [h[m] EXCEPT !.next = After(Place(m))] ELSE h[m]
<1>1. /\ k \in Nat /\ DOMAIN c = 1 .. k /\ \A i \in 1 .. k : c[i] \in Nodes
      /\ \A i, j \in 1 .. k : c[i] = c[j] => i = j
  BY LenProperties, ElementOfSeq DEF Once
<1>2. g = [m \in Nodes |-> Node(m)]
  BY DEF Relinked
<1> HIDE DEF k
<1>3. \A i \in 1 .. k : After(i) \in Pointer
  <2> TAKE i \in 1 .. k
  <2>1. i # k => i + 1 \in 1 .. k
    BY <1>1
  <2> QED BY <1>1, <2>1 DEF Pointer
<1>4. \A m \in Nodes : On(m) => Place(m) \in 1 .. k /\ c[Place(m)] = m
  <2> TAKE m \in Nodes
  <2> HAVE On(m)
  <2>1. Place(m) \in DOMAIN c /\ c[Place(m)] = m
    BY Zenon
  <2> QED BY <1>1, <2>1
<1> HIDE DEF Place, After
<1>5. ASSUME NEW m \in Nodes
      PROVE  /\ Node(m) \in LinkNode /\ Node(m).data = h[m].data
             /\ On(m) => Node(m).next = After(Place(m))
             /\ ~On(m) => Node(m) = h[m]
  <2>1. CASE On(m)
    <3> DEFINE x == After(Place(m))
    <3>1. x \in Pointer
      BY <1>3, <1>4, <2>1
    <3> HIDE DEF x
    <3>2. /\ [h[m] EXCEPT !.next = x] \in LinkNode
          /\ [h[m] EXCEPT !.next = x].data = h[m].data
          /\ [h[m] EXCEPT !.next = x].next = x
      BY <3>1 DEF LinkNode, Pointer
    <3>3. Node(m) = [h[m] EXCEPT !.next = x]
      BY <2>1 DEF x
    <3> HIDE DEF Node
    <3> QED BY <2>1, <3>2, <3>3 DEF x
  <2>2. CASE ~On(m)
    <3>1. Node(m) = h[m]
      BY <2>2
    <3> HIDE DEF Node
    <3> QED BY <2>2, <3>1
  <2> QED BY <2>1, <2>2
<1> HIDE DEF Node
<1>6. g \in [Nodes -> LinkNode] /\ \A m \in Nodes : g[m] = Node(m)
  BY <1>2, <1>5
<1>7. \A n \in Nodes : g[n].data = h[n].data /\ (n \notin Elems(c) => g[n] = h[n])
  <2> TAKE n \in Nodes
  <2>1. n \notin Elems(c) => ~On(n)
    BY <1>1 DEF Elems
  <2> QED BY <1>5, <1>6, <2>1
<1>8. ASSUME NEW i \in 1 .. k PROVE g[c[i]].next = IF i < k THEN c[i + 1] ELSE NULL
  <2>0. i \in DOMAIN c
    BY <1>1
  <2>1. c[i] \in Nodes /\ On(c[i])
    BY <1>1, <2>0
  <2>2. Place(c[i]) = i
    <3>1. Place(c[i]) \in 1 .. k /\ c[Place(c[i])] = c[i]
      BY <1>4, <2>1
    <3> QED BY <1>1, <3>1
  <2>3. g[c[i]].next = After(i)
    BY <1>5, <1>6, <2>1, <2>2
  <2>4. i < k <=> i # k
    BY <1>1
  <2> QED BY <2>3, <2>4 DEF After
<1> QED BY <1>6, <1>7, <1>8 DEF k

\* What intersection leaves of a list, and what it frees.
First(c) == IF c = <<>> THEN NULL ELSE c[1]

Keepable(h, start, c, I) ==
    /\ h \in [Nodes -> LinkNode] /\ Chained(h, start, c) /\ Ordered(h, c)
    /\ I \in SUBSET (1 .. Len(c))

Kept(h, c, kept, freed, g, head) ==
    /\ g \in [Nodes -> LinkNode]
    /\ Chained(g, head, kept) /\ Ordered(g, kept)
    /\ freed \in Seq(Nodes) /\ Once(freed) /\ Elems(freed) \subseteq Elems(c)
    /\ Elems(kept) = Elems(c) \ Elems(freed)
    /\ SameData(h, g) /\ Outside(h, g, Elems(kept))

LEMMA KeptGood ==
    ASSUME NEW h, NEW start, NEW c, NEW I, Keepable(h, start, c, I),
           NEW kept, kept = Those(c, I), NEW freed, freed = Those(c, DOMAIN c \ I),
           NEW g, g = Relinked(h, kept),
           NEW head, head = First(kept)
    PROVE  Kept(h, c, kept, freed, g, head)
<1> SUFFICES ASSUME h \in [Nodes -> LinkNode], Chained(h, start, c), Ordered(h, c),
                    I \in SUBSET (1 .. Len(c))
             PROVE  Kept(h, c, kept, freed, g, head)
  BY DEF Keepable
<1> DEFINE p == InOrder(I)
           k == Len(kept)
           J == DOMAIN c \ I
<1>1. /\ c \in Seq(Nodes) /\ Once(c) /\ DOMAIN c = 1 .. Len(c) /\ Len(c) \in Nat
      /\ J \subseteq 1 .. Len(c) /\ J = 1 .. Len(c) \ I
      /\ \A i \in 1 .. Len(c) : c[i] \in Nodes
  BY LenProperties, ElementOfSeq DEF Chained
<1> HIDE DEF J
<1>2. /\ kept \in Seq(Nodes) /\ Once(kept) /\ Elems(kept) = ElemsAt(c, I)
      /\ Picked(kept, c, I, p)
  <2>1. kept \in Seq(Nodes) /\ Once(kept) /\ Elems(kept) = ElemsAt(c, I)
    <3>1. I \in SUBSET (1 .. Len(c))
      OBVIOUS
    <3> QED BY <1>1, <3>1, ThoseElems
  <2>2. Picked(kept, c, I, p)
    BY <1>1, ThosePicked
  <2> QED BY <2>1, <2>2
<1>3. freed \in Seq(Nodes) /\ Once(freed) /\ Elems(freed) = ElemsAt(c, J)
  <2>1. J \in SUBSET (1 .. Len(c))
    BY <1>1
  <2> QED BY <1>1, <2>1, ThoseElems DEF J
<1>4. Elems(c) = {c[i] : i \in 1 .. Len(c)}
  BY DEF Elems
<1>5. Elems(freed) \subseteq Elems(c) /\ Elems(kept) = Elems(c) \ Elems(freed)
  <2>1. \A i \in I, j \in J : c[i] # c[j]
    <3> TAKE i \in I, j \in J
    <3>1. i \in 1 .. Len(c) /\ j \in 1 .. Len(c) /\ i # j
      BY <1>1
    <3> QED BY <1>1, <3>1 DEF Once
  <2>2. \A i \in 1 .. Len(c) : i \in I \/ i \in J
    BY <1>1
  <2>3. \A i \in I : i \in 1 .. Len(c)
    OBVIOUS
  <2>4. \A i \in J : i \in 1 .. Len(c)
    BY <1>1
  <2> QED BY <1>2, <1>3, <1>4, <2>1, <2>2, <2>3, <2>4 DEF ElemsAt
<1>6. /\ g \in [Nodes -> LinkNode]
      /\ \A n \in Nodes : g[n].data = h[n].data /\ (n \notin Elems(kept) => g[n] = h[n])
      /\ \A i \in 1 .. k : g[kept[i]].next = IF i < k THEN kept[i + 1] ELSE NULL
  BY <1>2, RelinkedFields
<1>7. Chained(g, head, kept)
  BY <1>2, <1>6 DEF Chained, First
<1>8. /\ \A i \in 1 .. k : p[i] \in 1 .. Len(c) /\ kept[i] = c[p[i]]
      /\ \A i, j \in 1 .. k : i < j => p[i] < p[j]
  BY <1>2 DEF Picked
<1> HIDE DEF p
<1>9. Ordered(g, kept)
  <2>1. \A i \in 1 .. k : kept[i] \in Nodes
    BY <1>1, <1>8
  <2>2. \A i \in 1 .. k : h[kept[i]].data \in Values
    BY <1>8 DEF Ordered
  <2>3. ASSUME NEW i \in 1 .. k, NEW j \in 1 .. k, i < j
        PROVE  h[kept[i]].data <= h[kept[j]].data
    <3>1. p[i] \in 1 .. Len(c) /\ p[j] \in 1 .. Len(c) /\ p[i] < p[j]
      BY <1>8, <2>3
    <3>2. h[c[p[i]]].data <= h[c[p[j]]].data
      BY <3>1 DEF Ordered
    <3> QED BY <1>8, <3>2
  <2> QED BY <1>6, <2>1, <2>2, <2>3 DEF Ordered
<1>10. SameData(h, g) /\ Outside(h, g, Elems(kept))
  BY <1>6 DEF SameData, Outside
<1> QED BY <1>3, <1>5, <1>6, <1>7, <1>9, <1>10 DEF Kept

-----------------------------------------------------------------------------
(* The values of a list *)

Vals(h, c) == [i \in DOMAIN c |-> h[c[i]].data]

LEMMA ValsAt ==
    ASSUME NEW h, NEW c \in Seq(Nodes), \A i \in 1 .. Len(c) : h[c[i]].data \in Values
    PROVE  /\ Vals(h, c) \in Seq(Values) /\ DOMAIN Vals(h, c) = 1 .. Len(c)
           /\ Len(Vals(h, c)) = Len(c) /\ Len(c) \in Nat
           /\ \A i \in 1 .. Len(c) : Vals(h, c)[i] = h[c[i]].data
<1>1. DOMAIN c = 1 .. Len(c) /\ Len(c) \in Nat
  BY LenProperties
<1>2. Vals(h, c) = [i \in 1 .. Len(c) |-> h[c[i]].data]
  BY <1>1 DEF Vals
<1> DEFINE f == [i \in 1 .. Len(c) |-> h[c[i]].data]
           n == Len(c)
<1>3. f \in [1 .. n -> Values] /\ DOMAIN f = 1 .. n /\ \A i \in 1 .. n : f[i] = h[c[i]].data
  OBVIOUS
<1> HIDE DEF f
<1>4. f \in Seq(Values) /\ Len(f) = n
  <2> HIDE DEF n
  <2> QED BY <1>1, <1>3 DEF n
<1> QED BY <1>1, <1>2, <1>3, <1>4 DEF f

\* How often a value is in a list is how many of its nodes have it.
LEMMA CountIs ==
    ASSUME NEW h, NEW c \in Seq(Nodes), Once(c), NEW v
    PROVE  Abstract!Count(Vals(h, c), v) = Cardinality({n \in Elems(c) : h[n].data = v})
<1> DEFINE N == Len(c)
           S == {i \in 1 .. N : h[c[i]].data = v}
           T == {n \in Elems(c) : h[n].data = v}
           f == [i \in S |-> c[i]]
<1>1. DOMAIN c = 1 .. N /\ N \in Nat
  BY LenProperties
<1>2. {i \in DOMAIN Vals(h, c) : Vals(h, c)[i] = v} = S
  BY <1>1 DEF Vals
<1>3. Elems(c) = {c[i] : i \in 1 .. N}
  BY DEF Elems
<1>4. IsFiniteSet(S)
  <2>1. S \subseteq 1 .. N /\ 1 \in Int /\ N \in Int
    BY <1>1
  <2> HIDE DEF S
  <2> QED BY <2>1, FS_Interval, FS_Subset
<1>5. f \in Bijection(S, T)
  <2>1. \A i \in S : i \in 1 .. N /\ c[i] \in T
    BY <1>3
  <2>2. \A n \in T : \E i \in S : c[i] = n
    BY <1>3
  <2>3. \A i, j \in S : c[i] = c[j] => i = j
    BY DEF Once
  <2> HIDE DEF S, T
  <2>4. f \in [S -> T] /\ \A i \in S : f[i] = c[i]
    BY <2>1
  <2> HIDE DEF f
  <2>5. f \in Injection(S, T)
    BY <2>3, <2>4 DEF Injection, IsInjective
  <2>6. f \in Surjection(S, T)
    BY <2>2, <2>4 DEF Surjection
  <2> QED BY <2>5, <2>6 DEF Bijection
<1>6. Cardinality(T) = Cardinality(S)
  <2> HIDE DEF S, T, f
  <2>1. ExistsBijection(S, T)
    BY <1>5 DEF ExistsBijection
  <2> QED BY <1>4, <2>1, FS_Bijection
<1> DEFINE x == Vals(h, c)
<1>7. Abstract!Count(x, v) = Cardinality({i \in DOMAIN x : x[i] = v})
  <2> HIDE DEF x
  <2> QED BY DEF Abstract!Count, Abstract!Cardinality, Cardinality
<1>8. {i \in DOMAIN x : x[i] = v} = S
  BY <1>2
<1> HIDE DEF S, T, x
<1> QED BY <1>6, <1>7, <1>8 DEF T, x

LEMMA ValsConcat ==
    ASSUME NEW h, NEW a \in Seq(Nodes), NEW b \in Seq(Nodes),
           \A i \in 1 .. Len(a) : h[a[i]].data \in Values,
           \A i \in 1 .. Len(b) : h[b[i]].data \in Values
    PROVE  Vals(h, a) \o Vals(h, b) = Vals(h, a \o b)
<1> DEFINE m == Len(a)
           k == Len(b)
           x == Vals(h, a)
           y == Vals(h, b)
           c == a \o b
           z == Vals(h, c)
           u == x \o y
<1>1. /\ x \in Seq(Values) /\ Len(x) = m /\ m \in Nat /\ \A i \in 1 .. m : x[i] = h[a[i]].data
      /\ y \in Seq(Values) /\ Len(y) = k /\ k \in Nat /\ \A i \in 1 .. k : y[i] = h[b[i]].data
  BY ValsAt
<1>2. /\ c \in Seq(Nodes) /\ Len(c) = m + k
      /\ \A i \in 1 .. m : c[i] = a[i]
      /\ \A i \in m + 1 .. m + k : c[i] = b[i - m] /\ i - m \in 1 .. k
      /\ \A i \in 1 .. m + k : i \in 1 .. m \/ i \in m + 1 .. m + k
  BY ConcatAt
<1> HIDE DEF x, y, c, m, k
<1>3. /\ u \in Seq(Values) /\ Len(u) = m + k
      /\ \A i \in 1 .. m : u[i] = x[i]
      /\ \A i \in m + 1 .. m + k : u[i] = y[i - m]
  <2>1. /\ u \in Seq(Values) /\ Len(u) = Len(x) + Len(y)
        /\ \A i \in 1 .. Len(x) : u[i] = x[i]
        /\ \A i \in Len(x) + 1 .. Len(x) + Len(y) : u[i] = y[i - Len(x)]
    <3>1. x \in Seq(Values) /\ y \in Seq(Values)
      BY <1>1
    <3> QED BY <3>1, ConcatAt
  <2> QED BY <1>1, <2>1
<1> HIDE DEF u
<1>4. ASSUME NEW i \in 1 .. m + k PROVE h[c[i]].data \in Values /\ u[i] = h[c[i]].data
  <2>1. CASE i \in 1 .. m
    BY <1>1, <1>2, <1>3, <2>1 DEF m
  <2>2. CASE i \in m + 1 .. m + k
    <3> DEFINE j == i - m
    <3>1. j \in 1 .. k /\ c[i] = b[j] /\ u[i] = y[j]
      BY <1>2, <1>3, <2>2
    <3> HIDE DEF j
    <3> QED BY <1>1, <3>1 DEF k
  <2> QED BY <1>2, <2>1, <2>2
<1>5. z \in Seq(Values) /\ Len(z) = m + k /\ \A i \in 1 .. m + k : z[i] = h[c[i]].data
  <2>1. \A i \in 1 .. Len(c) : h[c[i]].data \in Values
    BY <1>2, <1>4
  <2>2. z \in Seq(Values) /\ Len(z) = Len(c) /\ \A i \in 1 .. Len(c) : z[i] = h[c[i]].data
    BY <1>2, <2>1, ValsAt
  <2> QED BY <1>2, <2>2
<1> HIDE DEF z
<1>6. \A i \in 1 .. Len(u) : u[i] = z[i]
  BY <1>3, <1>4, <1>5
<1>7. u = z
  BY <1>3, <1>5, <1>6, SeqEqual
<1> QED BY <1>7 DEF u, z, x, y, c

\* What merge promises of the values.
LEMMA WovenSorted ==
    ASSUME NEW h \in [Nodes -> LinkNode], NEW g \in [Nodes -> LinkNode],
           SameData(h, g),
           NEW a \in Seq(Nodes), NEW b \in Seq(Nodes), NEW w \in Seq(Nodes),
           Once(a), Once(b), Once(w), Elems(a) \cap Elems(b) = {},
           Elems(w) = Elems(a) \cup Elems(b),
           Ordered(h, a), Ordered(h, b), Ordered(g, w)
    PROVE  Abstract!IsSorted(Vals(g, w), Vals(h, a) \o Vals(h, b))
<1>1. Vals(h, a) \o Vals(h, b) = Vals(h, a \o b)
  BY ValsConcat DEF Ordered
<1>2. a \o b \in Seq(Nodes) /\ Once(a \o b) /\ Elems(a \o b) = Elems(w)
  BY ConcatAt, ConcatElems
<1>3. ASSUME NEW v PROVE Abstract!Count(Vals(g, w), v) = Abstract!Count(Vals(h, a \o b), v)
  <2> DEFINE c == a \o b
  <2> HIDE DEF c
  <2>1. \A n \in Elems(w) : n \in Nodes
    BY ElementOfSeq DEF Elems
  <2>2. {n \in Elems(w) : g[n].data = v} = {n \in Elems(c) : h[n].data = v}
    BY <1>2, <2>1 DEF SameData, c
  <2>3. Abstract!Count(Vals(g, w), v) = Cardinality({n \in Elems(w) : g[n].data = v})
    BY CountIs
  <2>4. c \in Seq(Nodes) /\ Once(c)
    BY <1>2 DEF c
  <2>5. Abstract!Count(Vals(h, c), v) = Cardinality({n \in Elems(c) : h[n].data = v})
    BY <2>4, CountIs
  <2> QED BY <2>2, <2>3, <2>5 DEF c
<1>4. ASSUME NEW i \in DOMAIN Vals(g, w), NEW j \in DOMAIN Vals(g, w), i < j
      PROVE  Vals(g, w)[i] <= Vals(g, w)[j]
  <2>1. i \in 1 .. Len(w) /\ j \in 1 .. Len(w)
    BY LenProperties DEF Vals
  <2>2. g[w[i]].data <= g[w[j]].data
    BY <1>4, <2>1 DEF Ordered
  <2> QED BY <2>2 DEF Vals
<1>5. \A v \in Values : Abstract!Count(Vals(g, w), v) = Abstract!Count(Vals(h, a) \o Vals(h, b), v)
  BY <1>1, <1>3
<1> QED BY <1>4, <1>5 DEF Abstract!IsSorted

-----------------------------------------------------------------------------
(* All lists: cs are the nodes of each *)

Owns(cs) == [l \in Lists |-> Elems(cs[l])]
Contents(h, cs) == [l \in Lists |-> Vals(h, cs[l])]

ListState == {"new", "merged", "intersected", "written"}

Holds(h, arr, k, ls, st, cs) ==
    /\ h \in [Nodes -> LinkNode] /\ ls \in [Lists -> ListRecord] /\ st \in [Lists -> ListState]
    /\ cs \in [Lists -> Seq(Nodes)]
    /\ \A l \in Lists : Good(h, ls[l], st[l], cs[l])
    /\ Pool(arr, k, Owns(cs))

\* What f is for all but l, and how the model calls Linked.
Put(f, l, x) == [f EXCEPT ![l] = x]
Link(h, L, n, v) == Linked([heap |-> h, list |-> L], n, v)

\* What is said of the lists C, and of the others.
Renewed(h, ls, st, cs, C) == \A m \in C : Good(h, ls[m], st[m], cs[m])
Same(x, y, C) == \A m \in Lists : m \notin C => y[m] = x[m]
Elsewhere(h, g, cs, C) == \A m \in Lists : m \notin C => \A n \in Elems(cs[m]) : g[n] = h[n]

\* Only the lists C change.
LEMMA HoldsAgain ==
    ASSUME NEW h, NEW arr, NEW k, NEW ls, NEW st, NEW cs, Holds(h, arr, k, ls, st, cs),
           NEW C, C \subseteq Lists,
           NEW h2, h2 \in [Nodes -> LinkNode], NEW ls2, ls2 \in [Lists -> ListRecord],
           NEW st2, st2 \in [Lists -> ListState], NEW cs2, cs2 \in [Lists -> Seq(Nodes)],
           Renewed(h2, ls2, st2, cs2, C),
           Same(ls, ls2, C), Same(st, st2, C), Same(cs, cs2, C), Elsewhere(h, h2, cs, C),
           NEW arr2, NEW k2, NEW own2, own2 = Owns(cs2), Pool(arr2, k2, own2)
    PROVE  /\ Holds(h2, arr2, k2, ls2, st2, cs2)
           /\ Same(Contents(h, cs), Contents(h2, cs2), C)
<1>1. ASSUME NEW m \in Lists, m \notin C
      PROVE  Good(h2, ls2[m], st2[m], cs2[m]) /\ Vals(h2, cs2[m]) = Vals(h, cs[m])
  <2> DEFINE L == ls[m]
             s == st[m]
             c == cs[m]
  <2>1. \A i \in 1 .. Len(c) : h2[c[i]] = h[c[i]]
    <3>1. \A n \in Elems(c) : h2[n] = h[n]
      BY <1>1 DEF Elsewhere
    <3> QED BY <3>1 DEF Elems
  <2>2. Good(h, L, s, c)
    BY DEF Holds
  <2>3. ls2[m] = L /\ st2[m] = s /\ cs2[m] = c
    BY <1>1 DEF Same
  <2>4. DOMAIN c = 1 .. Len(c)
    BY LenProperties DEF Holds
  <2> HIDE DEF L, s, c
  <2>5. Good(h2, L, s, c)
    BY <2>1, <2>2, GoodFrame
  <2>6. Vals(h2, c) = Vals(h, c)
    BY <2>1, <2>4 DEF Vals
  <2> QED BY <2>3, <2>5, <2>6 DEF c
<1>2. \A m \in Lists : Good(h2, ls2[m], st2[m], cs2[m])
  BY <1>1 DEF Renewed
<1>3. Same(Contents(h, cs), Contents(h2, cs2), C)
  BY <1>1 DEF Contents, Same
<1> QED BY <1>2, <1>3 DEF Holds

\* The model's view of that.
LEMMA HoldsChains ==
    ASSUME NEW h, NEW arr, NEW k, NEW ls, NEW st, NEW cs, Holds(h, arr, k, ls, st, cs)
    PROVE  \A l \in Lists : Follow(Nexts(h), ls[l].head) = cs[l] /\ DOMAIN cs[l] = 1 .. Len(cs[l])
<1>1. ASSUME NEW l \in Lists PROVE Follow(Nexts(h), ls[l].head) = cs[l]
  <2> DEFINE start == ls[l].head
             c == cs[l]
  <2>1. Chained(h, start, c) /\ h \in [Nodes -> LinkNode]
    BY DEF Holds, Good
  <2> HIDE DEF start, c
  <2>2. Follow(Nexts(h), start) = c
    BY <2>1, ChainedFollow
  <2> QED BY <2>2 DEF start, c
<1>2. ASSUME NEW l \in Lists PROVE DOMAIN cs[l] = 1 .. Len(cs[l])
  BY LenProperties DEF Holds
<1> QED BY <1>1, <1>2

\* Where a node may be added.
Below(h, c, v) == \A i \in 1 .. Len(c) : h[c[i]].data <= v

\* What it takes to add the value v to the list l, whose nodes are c.
Addable(h, L, c, arr, k, own, l, v) ==
    /\ h \in [Nodes -> LinkNode] /\ L \in ListRecord /\ Good(h, L, "new", c)
    /\ Pool(arr, k, own) /\ k > 0 /\ l \in Lists /\ own[l] = Elems(c)
    /\ v \in Values /\ Below(h, c, v)

\* And what is so then: s is the heap and the list, d are its nodes.
Added(h, c, arr, k, own, l, v, n, s, d) ==
    /\ s.heap \in [Nodes -> LinkNode] /\ s.list \in ListRecord
    /\ n \in Nodes /\ \A m \in Lists : n \notin own[m]
    /\ Good(s.heap, s.list, "new", d) /\ Elems(d) = Elems(c) \cup {n}
    /\ Pool(arr, k - 1, Put(own, l, Elems(d)))
    /\ Outside(h, s.heap, Elems(d))
    /\ Vals(s.heap, d) = Append(Vals(h, c), v)

\* addElement, and the body of readFromFile's loop: the topmost free node becomes the
\* last one of the list l.
LEMMA LinkGood ==
    ASSUME NEW h, NEW L, NEW c, NEW arr, NEW k, NEW own, NEW l, NEW v,
           Addable(h, L, c, arr, k, own, l, v),
           NEW n, n = arr[k - 1],
           NEW s, s = Link(h, L, n, v),
           NEW d, d = Append(c, n)
    PROVE  Added(h, c, arr, k, own, l, v, n, s, d)
<1> SUFFICES ASSUME h \in [Nodes -> LinkNode], L \in ListRecord, Good(h, L, "new", c),
                    Pool(arr, k, own), k > 0, l \in Lists, own[l] = Elems(c),
                    v \in Values, Below(h, c, v)
             PROVE  Added(h, c, arr, k, own, l, v, n, s, d)
  BY DEF Addable
<1>1. /\ n \in Nodes /\ \A m \in Lists : n \notin own[m]
      /\ Pool(arr, k - 1, [own EXCEPT ![l] = @ \cup {n}])
  BY PoolTake
<1>2. c \in Seq(Nodes) /\ Growing(L, c) /\ Chained(h, L.head, c) /\ Ordered(h, c)
  BY DEF Good, Chained
<1>3. L.head # NULL => L.tail \in Nodes
  <2>1. c # <<>> => Len(c) \in 1 .. Len(c)
    BY <1>2, LenProperties, EmptySeq
  <2>2. c # <<>> => c[Len(c)] \in Nodes
    BY <1>2, <2>1, ElementOfSeq
  <2> QED BY <1>2, <2>2 DEF Growing, Chained
<1> DEFINE g == s.heap
           M == s.list
<1>4. Extends(h, L, n, v, g, M)
  BY <1>1, <1>3, LinkedExtends DEF Link
<1> HIDE DEF g, M
<1>5. n \notin Elems(c)
  BY <1>1
<1>6. /\ Good(g, M, "new", d)
      /\ \A m \in Nodes : m \notin Elems(c) /\ m # n => g[m] = h[m]
      /\ \A i \in 1 .. Len(c) : g[c[i]].data = h[c[i]].data
  BY <1>1, <1>4, <1>5, ExtendsGood DEF Below
<1>7. g \in [Nodes -> LinkNode] /\ M \in ListRecord /\ g[n].data = v
  BY <1>4 DEF Extends
<1>8. /\ d \in Seq(Nodes) /\ Len(d) = Len(c) + 1 /\ Len(c) \in Nat
      /\ \A i \in 1 .. Len(c) + 1 : d[i] = IF i <= Len(c) THEN c[i] ELSE n
  BY <1>1, <1>2, AppendAt
<1> DEFINE m == Len(c)
<1>9. Elems(d) = Elems(c) \cup {n}
  <2>1. Elems(d) = {d[i] : i \in 1 .. m + 1} /\ Elems(c) = {c[i] : i \in 1 .. m}
    BY <1>8 DEF Elems
  <2>2. \A i \in 1 .. m : i \in 1 .. m + 1 /\ i <= m
    BY <1>8
  <2>3. m + 1 \in 1 .. m + 1 /\ ~(m + 1 <= m)
    BY <1>8
  <2>4. \A i \in 1 .. m + 1 : i <= m => i \in 1 .. m
    BY <1>8
  <2> HIDE DEF m
  <2>5. \A i \in 1 .. m + 1 : d[i] = IF i <= m THEN c[i] ELSE n
    BY <1>8 DEF m
  <2>6. ASSUME NEW x \in Elems(d) PROVE x \in Elems(c) \cup {n}
    BY <2>1, <2>4, <2>5
  <2>7. ASSUME NEW x \in Elems(c) PROVE x \in Elems(d)
    BY <2>1, <2>2, <2>5
  <2>8. n \in Elems(d)
    <3>1. d[m + 1] = n
      BY <2>3, <2>5
    <3> QED BY <2>1, <2>3, <3>1
  <2> QED BY <2>6, <2>7, <2>8
<1>10. own \in [Lists -> SUBSET Nodes] /\ own[l] \cup {n} = Elems(d)
  BY <1>9 DEF Pool, Split
<1>11. [own EXCEPT ![l] = @ \cup {n}] = Put(own, l, Elems(d))
  BY <1>10 DEF Put
<1>12. Vals(g, d) = Append(Vals(h, c), v)
  <2> DEFINE x == Vals(h, c)
             y == Vals(g, d)
             z == Append(x, v)
  <2>1. x \in Seq(Values) /\ Len(x) = m /\ m \in Nat /\ \A i \in 1 .. m : x[i] = h[c[i]].data
    <3>1. \A i \in 1 .. Len(c) : h[c[i]].data \in Values
      BY <1>2 DEF Ordered
    <3> QED BY <1>2, <3>1, ValsAt
  <2>2. y \in Seq(Values) /\ Len(y) = m + 1 /\ \A i \in 1 .. m + 1 : y[i] = g[d[i]].data
    <3>1. \A i \in 1 .. Len(d) : g[d[i]].data \in Values
      BY <1>6 DEF Good, Ordered
    <3>2. y \in Seq(Values) /\ Len(y) = Len(d) /\ \A i \in 1 .. Len(d) : y[i] = g[d[i]].data
      BY <1>8, <3>1, ValsAt, ZenonT(60)
    <3> QED BY <1>8, <3>2
  <2> HIDE DEF x, y, m
  <2>3. z \in Seq(Values) /\ Len(z) = m + 1 /\ \A i \in 1 .. m + 1 : z[i] = IF i <= m THEN x[i] ELSE v
    <3>1. /\ z \in Seq(Values) /\ Len(z) = Len(x) + 1
          /\ \A i \in 1 .. Len(x) + 1 : z[i] = IF i <= Len(x) THEN x[i] ELSE v
      BY <2>1, AppendAt
    <3> QED BY <2>1, <3>1
  <2>4. \A i \in 1 .. m + 1 : i <= m => i \in 1 .. m
    BY <2>1
  <2>5. \A i \in 1 .. m + 1 : d[i] = IF i <= m THEN c[i] ELSE n
    BY <1>8 DEF m
  <2>6. \A i \in 1 .. m : g[c[i]].data = h[c[i]].data
    BY <1>6 DEF m
  <2> HIDE DEF z
  <2>7. ASSUME NEW i \in 1 .. m + 1 PROVE y[i] = z[i]
    <3>1. CASE i <= m
      <4>1. i \in 1 .. m /\ d[i] = c[i] /\ z[i] = x[i]
        BY <2>3, <2>4, <2>5, <3>1
      <4> QED BY <2>1, <2>2, <2>6, <4>1
    <3>2. CASE ~(i <= m)
      BY <1>7, <2>2, <2>3, <2>5, <3>2
    <3> QED BY <3>1, <3>2
  <2>8. y = z
    BY <2>2, <2>3, <2>7, SeqEqual
  <2> QED BY <2>8 DEF x, y, z
<1>13. Outside(h, g, Elems(d))
  BY <1>6, <1>9 DEF Outside
<1> QED BY <1>1, <1>6, <1>7, <1>9, <1>11, <1>12, <1>13 DEF Added, g, M

-----------------------------------------------------------------------------
(* The invariant, and what each operation does to it and to the values *)

Request == [list : Lists, value : Values, at : Nat]

\* What a thread has loaded is still the cursor when it goes on, and its value still
\* belongs behind the others of its list.
Loading(ad, k, h, st, cs) ==
    /\ ad \in [Threads -> Request \cup {Idle}]
    /\ \A t \in Threads : ad[t] # Idle =>
          /\ Owner[ad[t].list] = t /\ ad[t].at = k /\ k > 0 /\ st[ad[t].list] = "new"
          /\ \A n \in Elems(cs[ad[t].list]) : h[n].data < ad[t].value

Filed(f) ==
    \/ f = NoFile
    \/ f \in Seq(Values) /\ \A i, j \in 1 .. Len(f) : i < j => f[i] <= f[j]

Inv(cs) ==
    /\ Holds(heap, array, cursor, list, state, cs)
    /\ Loading(adding, cursor, heap, state, cs)
    /\ Filed(file) /\ ~wrong

IInv == \E cs : Inv(cs)

LEMMA ChainsAre ==
    ASSUME NEW cs, Inv(cs)
    PROVE  /\ \A l \in Lists : Chain(l) = cs[l] /\ NodesOf(l) = Elems(cs[l]) /\ Data(l) = Vals(heap, cs[l])
           /\ [l \in Lists |-> Data(l)] = Contents(heap, cs)
<1>1. \A l \in Lists : /\ Follow(Nexts(heap), list[l].head) = cs[l]
                       /\ DOMAIN cs[l] = 1 .. Len(cs[l])
  <2>1. Holds(heap, array, cursor, list, state, cs)
    BY DEF Inv
  <2> QED BY <2>1, HoldsChains
<1>2. \A l \in Lists : Chain(l) = cs[l]
  BY <1>1 DEF Chain
<1>3. \A l \in Lists : NodesOf(l) = Elems(cs[l]) /\ Data(l) = Vals(heap, cs[l])
  BY <1>1, <1>2 DEF NodesOf, Data, Vals, Elems
<1>4. [l \in Lists |-> Data(l)] = Contents(heap, cs)
  BY <1>3 DEF Contents
<1> QED BY <1>2, <1>3, <1>4

LEMMA LoadStep ==
    ASSUME NEW cs, Inv(cs), NEW t \in Threads, NEW l \in Lists, NEW v \in Values,
           Load(t, l, v)
    PROVE  Inv(cs)' /\ UNCHANGED <<heap, list, file, did>>
<1>1. UNCHANGED <<heap, array, cursor, list, state, file, ops, wrong, did>>
  BY DEF Load
<1>2. Holds(heap, array, cursor, list, state, cs)' /\ Filed(file)' /\ ~wrong'
  BY <1>1 DEF Inv, Filed
<1>3. Loading(adding, cursor, heap, state, cs)'
  <2>1. CASE cursor > 0
    <3> DEFINE a == [list |-> l, value |-> v, at |-> cursor]
    <3>1. adding' = [adding EXCEPT ![t] = a] /\ state[l] = "new" /\ Owner[l] = t
      BY <2>1 DEF Load, Growable
    <3>2. \A n \in Elems(cs[l]) : heap[n].data < v
      BY ChainsAre DEF Load
    <3>3. cursor \in Nat
      BY PoolAssumption DEF Inv, Holds, Pool
    <3>4. a \in Request /\ a.list = l /\ a.value = v /\ a.at = cursor
      BY <3>3 DEF Request
    <3> HIDE DEF a
    <3>5. /\ adding' \in [Threads -> Request \cup {Idle}]
          /\ \A u \in Threads : adding'[u] = IF u = t THEN a ELSE adding[u]
      BY <3>1, <3>4 DEF Inv, Loading
    <3>6. ASSUME NEW u \in Threads, adding'[u] # Idle
          PROVE  /\ Owner[adding'[u].list] = u /\ adding'[u].at = cursor /\ cursor > 0
                 /\ state[adding'[u].list] = "new"
                 /\ \A n \in Elems(cs[adding'[u].list]) : heap[n].data < adding'[u].value
      <4>1. CASE u = t
        BY <2>1, <3>1, <3>2, <3>4, <3>5, <4>1
      <4>2. CASE u # t
        BY <3>5, <3>6, <4>2 DEF Inv, Loading
      <4> QED BY <4>1, <4>2
    <3> QED BY <1>1, <3>5, <3>6 DEF Loading
  <2>2. CASE ~(cursor > 0)
    <3>1. UNCHANGED adding
      BY <2>2 DEF Load
    <3> QED BY <1>1, <3>1 DEF Inv, Loading
  <2> QED BY <2>1, <2>2
<1> QED BY <1>1, <1>2, <1>3 DEF Inv

LEMMA OwnsUpdate ==
    ASSUME NEW cs \in [Lists -> Seq(Nodes)], NEW l \in Lists, NEW c \in Seq(Nodes)
    PROVE  /\ [cs EXCEPT ![l] = c] \in [Lists -> Seq(Nodes)]
           /\ Owns([cs EXCEPT ![l] = c]) = [Owns(cs) EXCEPT ![l] = Elems(c)]
           /\ Owns(cs)[l] = Elems(cs[l]) /\ \A m \in Lists : Owns(cs)[m] = Elems(cs[m])
BY DEF Owns

\* One list changes, and no other list's nodes do.
OneChange(h, ls, st, cs, l, h2, L, s, c, arr2, k2) ==
    /\ l \in Lists /\ h2 \in [Nodes -> LinkNode] /\ L \in ListRecord /\ s \in ListState
    /\ c \in Seq(Nodes) /\ Good(h2, L, s, c)
    /\ Elsewhere(h, h2, cs, {l})
    /\ Pool(arr2, k2, Put(Owns(cs), l, Elems(c)))

LEMMA OneListChanges ==
    ASSUME NEW h, NEW arr, NEW k, NEW ls, NEW st, NEW cs, Holds(h, arr, k, ls, st, cs),
           NEW l, NEW h2, NEW L, NEW s, NEW c, NEW arr2, NEW k2,
           OneChange(h, ls, st, cs, l, h2, L, s, c, arr2, k2),
           NEW ls2, ls2 = Put(ls, l, L), NEW st2, st2 = Put(st, l, s),
           NEW cs2, cs2 = Put(cs, l, c)
    PROVE  /\ Holds(h2, arr2, k2, ls2, st2, cs2)
           /\ Contents(h2, cs2) = Put(Contents(h, cs), l, Vals(h2, c))
<1> SUFFICES ASSUME l \in Lists, h2 \in [Nodes -> LinkNode], L \in ListRecord,
                    s \in ListState, c \in Seq(Nodes), Good(h2, L, s, c),
                    Elsewhere(h, h2, cs, {l}),
                    Pool(arr2, k2, Put(Owns(cs), l, Elems(c)))
             PROVE  /\ Holds(h2, arr2, k2, ls2, st2, cs2)
                    /\ Contents(h2, cs2) = Put(Contents(h, cs), l, Vals(h2, c))
  BY DEF OneChange
<1> DEFINE C == {l}
           own2 == Put(Owns(cs), l, Elems(c))
<1>1. ls \in [Lists -> ListRecord] /\ st \in [Lists -> ListState] /\ cs \in [Lists -> Seq(Nodes)]
  BY DEF Holds
<1>2. C \subseteq Lists /\ \A m \in Lists : m \notin C <=> m # l
  OBVIOUS
<1>3. ls2 \in [Lists -> ListRecord] /\ \A m \in Lists : ls2[m] = IF m = l THEN L ELSE ls[m]
  BY <1>1 DEF Put
<1>4. st2 \in [Lists -> ListState] /\ \A m \in Lists : st2[m] = IF m = l THEN s ELSE st[m]
  BY <1>1 DEF Put
<1>5. cs2 \in [Lists -> Seq(Nodes)] /\ \A m \in Lists : cs2[m] = IF m = l THEN c ELSE cs[m]
  BY <1>1 DEF Put
<1>6. own2 = Owns(cs2)
  BY <1>1 DEF Owns, Put
<1>7. Renewed(h2, ls2, st2, cs2, C)
  BY <1>3, <1>4, <1>5 DEF Renewed
<1> HIDE DEF C, own2
<1>8. /\ Holds(h2, arr2, k2, ls2, st2, cs2)
      /\ Same(Contents(h, cs), Contents(h2, cs2), C)
  <2>1. Same(ls, ls2, C) /\ Same(st, st2, C) /\ Same(cs, cs2, C)
    BY <1>2, <1>3, <1>4, <1>5 DEF Same
  <2>2. Elsewhere(h, h2, cs, C)
    BY DEF C
  <2>3. Pool(arr2, k2, own2)
    BY DEF own2
  <2> QED BY <1>2, <1>3, <1>4, <1>5, <1>6, <1>7, <2>1, <2>2, <2>3, HoldsAgain, ZenonT(60)
<1> DEFINE x == Contents(h, cs)
           y == Contents(h2, cs2)
           z == [x EXCEPT ![l] = Vals(h2, c)]
<1>9. \A m \in Lists : m # l => y[m] = x[m]
  BY <1>2, <1>8 DEF Same
<1>10. /\ x = [m \in Lists |-> x[m]] /\ y = [m \in Lists |-> y[m]]
       /\ y[l] = Vals(h2, c)
  BY <1>5 DEF Contents
<1> HIDE DEF x, y
<1>11. y = z
  <2>1. z = [m \in Lists |-> IF m = l THEN Vals(h2, c) ELSE x[m]]
    BY <1>10
  <2>2. \A m \in Lists : y[m] = IF m = l THEN Vals(h2, c) ELSE x[m]
    BY <1>9, <1>10
  <2> HIDE DEF z
  <2> QED BY <1>10, <2>1, <2>2
<1> QED BY <1>8, <1>11 DEF Put, x, y, z

LEMMA StoreStep ==
    ASSUME NoOverlap, NEW cs, Inv(cs), NEW t \in Threads, Store(t)
    PROVE  \E cs2 : /\ Inv(cs2)'
                    /\ \E l \in Lists, v \in Values :
                          /\ did' = <<"add", l>>
                          /\ \A i \in DOMAIN Contents(heap, cs)[l] : Contents(heap, cs)[l][i] < v
                          /\ Contents(heap', cs2) = [Contents(heap, cs) EXCEPT ![l] = Append(@, v)]
                    /\ UNCHANGED file
<1> DEFINE l == adding[t].list
           v == adding[t].value
           n == array[cursor - 1]
           c == cs[l]
           L == list[l]
           d == Append(c, n)
           s == Link(heap, L, n, v)
           cs2 == Put(cs, l, d)
<1>1. /\ l \in Lists /\ v \in Values /\ Owner[l] = t /\ adding[t].at = cursor /\ cursor > 0
      /\ state[l] = "new" /\ \A m \in Elems(cs[l]) : heap[m].data < v
  <2>1. adding[t] \in Request
    BY DEF Store, Inv, Loading
  <2> QED BY <2>1 DEF Store, Inv, Loading, Request
<1>2. /\ cursor' = cursor - 1 /\ heap' = s.heap /\ list' = [list EXCEPT ![l] = s.list]
      /\ adding' = [adding EXCEPT ![t] = Idle] /\ did' = <<"add", l>>
      /\ UNCHANGED <<array, state, file, wrong>>
  BY <1>1 DEF Store, Link
<1>3. /\ heap \in [Nodes -> LinkNode] /\ list \in [Lists -> ListRecord]
      /\ state \in [Lists -> ListState] /\ cs \in [Lists -> Seq(Nodes)]
      /\ \A m \in Lists : Good(heap, list[m], state[m], cs[m])
      /\ Pool(array, cursor, Owns(cs))
  BY DEF Inv, Holds
<1> HIDE DEF l, v
<1>4. c \in Seq(Nodes) /\ L \in ListRecord /\ Good(heap, L, "new", c) /\ Owns(cs)[l] = Elems(c)
  BY <1>1, <1>3 DEF Owns
<1>5. Below(heap, c, v) /\ \A i \in 1 .. Len(c) : heap[c[i]].data < v
  <2> SUFFICES \A i \in 1 .. Len(c) : heap[c[i]].data < v /\ heap[c[i]].data <= v
    BY DEF Below
  <2> TAKE i \in 1 .. Len(c)
  <2>1. c[i] \in Nodes /\ c[i] \in Elems(c)
    BY <1>4, ElementOfSeq DEF Elems
  <2>2. heap[c[i]].data < v
    BY <1>1, <2>1
  <2>3. heap[c[i]].data \in Nat /\ v \in Nat
    BY <1>1, <1>3, <2>1, DataNatural, ValuesAssumption
  <2> QED BY <2>2, <2>3
<1> HIDE DEF c, L, n, d, s
<1> DEFINE own == Owns(cs)
           k == cursor
           own2 == Put(own, l, Elems(d))
<1>6. /\ s.heap \in [Nodes -> LinkNode] /\ s.list \in ListRecord
      /\ n \in Nodes /\ \A m \in Lists : n \notin own[m]
      /\ Good(s.heap, s.list, "new", d) /\ Elems(d) = Elems(c) \cup {n}
      /\ Pool(array, k - 1, own2)
      /\ Outside(heap, s.heap, Elems(d))
      /\ Vals(s.heap, d) = Append(Vals(heap, c), v)
  <2> HIDE DEF own, k
  <2>1. /\ n = array[k - 1] /\ s = Link(heap, L, n, v) /\ d = Append(c, n)
        /\ Pool(array, k, own) /\ k > 0 /\ own[l] = Elems(c)
    BY <1>1, <1>3, <1>4 DEF n, s, d, k, own
  <2>2. Addable(heap, L, c, array, k, own, l, v)
    BY <1>1, <1>3, <1>4, <1>5, <2>1 DEF Addable
  <2>3. Added(heap, c, array, k, own, l, v, n, s, d)
    BY <2>1, <2>2, LinkGood
  <2> QED BY <2>3 DEF Added
<1>7. Elsewhere(heap, s.heap, cs, {l})
  <2> SUFFICES ASSUME NEW m \in Lists, m # l, NEW q \in Elems(cs[m])
               PROVE  s.heap[q] = heap[q]
    BY DEF Elsewhere
  <2>1. own[m] = Elems(cs[m]) /\ own[l] = Elems(c) /\ own[m] \cap own[l] = {} /\ own[m] \subseteq Nodes
    BY <1>1, <1>3, <1>4, OwnsUpdate DEF Pool, Split, Owns
  <2> HIDE DEF own
  <2> QED BY <1>6, <2>1 DEF Outside
<1>8. d \in Seq(Nodes)
  BY <1>4, <1>6, AppendAt DEF d
<1>9. /\ Holds(heap', array', cursor', list', state', cs2)
      /\ Contents(heap', cs2) = Put(Contents(heap, cs), l, Vals(s.heap, d))
  <2> DEFINE h2 == s.heap
             M == s.list
             ls2 == Put(list, l, M)
             st2 == Put(state, l, "new")
             k2 == k - 1
  <2>1. st2 = state
    BY <1>1, <1>3 DEF Put
  <2>2. "new" \in ListState
    BY DEF ListState
  <2>3. Holds(heap, array, k, list, state, cs)
    BY DEF Inv
  <2>4. /\ h2 \in [Nodes -> LinkNode] /\ M \in ListRecord /\ Good(h2, M, "new", d)
        /\ Pool(array, k2, Put(Owns(cs), l, Elems(d))) /\ Elsewhere(heap, h2, cs, {l})
    BY <1>6, <1>7
  <2> HIDE DEF h2, M, ls2, st2, k2, cs2
  <2>5. /\ Holds(h2, array, k2, ls2, st2, cs2)
        /\ Contents(h2, cs2) = Put(Contents(heap, cs), l, Vals(h2, d))
    <3>1. OneChange(heap, list, state, cs, l, h2, M, "new", d, array, k2)
      BY <1>1, <1>8, <2>2, <2>4 DEF OneChange
    <3>2. ls2 = Put(list, l, M) /\ st2 = Put(state, l, "new") /\ cs2 = Put(cs, l, d)
      BY DEF ls2, st2, cs2
    <3> QED BY <2>3, <3>1, <3>2, OneListChanges
  <2> QED BY <1>2, <2>1, <2>5 DEF Put, h2, M, ls2, k2
<1>10. Loading(adding', cursor', heap', state', cs2)
  <2>1. /\ adding' \in [Threads -> Request \cup {Idle}]
        /\ \A u \in Threads : adding'[u] = IF u = t THEN Idle ELSE adding[u]
    BY <1>2 DEF Inv, Loading
  <2>2. ASSUME NEW u \in Threads, u # t PROVE adding[u] = Idle
    <3>1. adding[t] # Idle
      BY DEF Store
    <3> QED BY <2>2, <3>1 DEF NoOverlap
  <2>3. \A u \in Threads : adding'[u] = Idle
    BY <2>1, <2>2
  <2> QED BY <2>1, <2>3 DEF Loading
<1>11. Filed(file') /\ ~wrong'
  BY <1>2 DEF Inv
<1>12. /\ \A i \in DOMAIN Contents(heap, cs)[l] : Contents(heap, cs)[l][i] < v
       /\ Contents(heap', cs2) = [Contents(heap, cs) EXCEPT ![l] = Append(@, v)]
  <2>1. Contents(heap, cs)[l] = Vals(heap, c)
    BY <1>1 DEF Contents, c
  <2>2. DOMAIN c = 1 .. Len(c)
    BY <1>4, LenProperties
  <2>3. \A i \in DOMAIN Vals(heap, c) : Vals(heap, c)[i] < v
    BY <1>5, <2>2 DEF Vals
  <2>4. Put(Contents(heap, cs), l, Vals(s.heap, d)) = [Contents(heap, cs) EXCEPT ![l] = Append(@, v)]
    BY <1>6, <2>1 DEF Put
  <2> QED BY <1>9, <2>1, <2>3, <2>4
<1> HIDE DEF cs2
<1>13. PICK ds : ds = cs2
  OBVIOUS
<1>14. Inv(ds)'
  BY <1>9, <1>10, <1>11, <1>13 DEF Inv
<1> QED BY <1>1, <1>2, <1>12, <1>13, <1>14

\* No thread adds while the other operations run.
LEMMA Quiet ==
    ASSUME NEW cs, Inv(cs), Alone, UNCHANGED adding, NEW k, NEW h, NEW st, NEW cs2
    PROVE  Loading(adding', k, h, st, cs2)
<1>1. adding' = adding /\ \A t \in Threads : adding[t] = Idle
  BY DEF Alone
<1>2. adding \in [Threads -> Request \cup {Idle}]
  BY DEF Inv, Loading
<1> QED BY <1>1, <1>2 DEF Loading

\* All nodes of l are freed, and L is what is left of it.
Emptying(cs, l, L, s, cs2) ==
    /\ l \in Lists /\ L \in ListRecord /\ s \in ListState /\ Good(heap, L, s, <<>>)
    /\ heap' = heap /\ list' = [list EXCEPT ![l] = L] /\ state' = [state EXCEPT ![l] = s]
    /\ FreeNodes(Chain(l)) /\ cs2 = [cs EXCEPT ![l] = <<>>]

LEMMA Emptied ==
    ASSUME NEW cs, Inv(cs), NEW l, NEW L, NEW s, NEW cs2, Emptying(cs, l, L, s, cs2)
    PROVE  /\ Holds(heap', array', cursor', list', state', cs2)
           /\ Contents(heap', cs2) = [Contents(heap, cs) EXCEPT ![l] = <<>>]
<1> DEFINE c == cs[l]
           own == Owns(cs)
           e == <<>>
           arr2 == Freed(array, cursor, c)
           k2 == cursor + Len(c)
           own2 == Put(own, l, Elems(e))
<1>1. /\ heap \in [Nodes -> LinkNode] /\ cs \in [Lists -> Seq(Nodes)]
      /\ Good(heap, list[l], state[l], c) /\ Pool(array, cursor, own)
      /\ Holds(heap, array, cursor, list, state, cs)
  BY DEF Inv, Holds, Emptying
<1>2. Chain(l) = c
  BY ChainsAre DEF Emptying
<1>3. array' = arr2 /\ cursor' = k2
  BY <1>2 DEF FreeNodes, Freed, Emptying
<1>4. c \in Seq(Nodes) /\ Once(c) /\ own[l] = Elems(c) /\ l \in Lists
  BY <1>1 DEF Good, Chained, Owns, Emptying
<1>5. Elems(e) = {} /\ e \in Seq(Nodes) /\ Vals(heap, e) = <<>>
  BY DEF Elems, Vals
<1>6. own \in [Lists -> SUBSET Nodes]
  BY <1>1 DEF Pool, Split
<1> HIDE DEF c, own, e
<1>7. Pool(arr2, k2, [own EXCEPT ![l] = @ \ Elems(c)])
  BY <1>1, <1>4, PoolGive
<1>8. [own EXCEPT ![l] = @ \ Elems(c)] = own2
  BY <1>4, <1>5, <1>6 DEF Put
<1>9. Pool(arr2, k2, own2) /\ Good(heap, L, s, e) /\ cs2 = Put(cs, l, e)
  BY <1>7, <1>8 DEF e, Put, Emptying
<1> DEFINE ls2 == Put(list, l, L)
           st2 == Put(state, l, s)
<1> HIDE DEF arr2, k2, ls2, st2
<1>10. /\ Holds(heap, arr2, k2, ls2, st2, cs2)
       /\ Contents(heap, cs2) = Put(Contents(heap, cs), l, Vals(heap, e))
  <2>1. Elsewhere(heap, heap, cs, {l})
    BY DEF Elsewhere
  <2>2. Pool(arr2, k2, Put(Owns(cs), l, Elems(e)))
    BY <1>9 DEF own
  <2> HIDE DEF own2, own
  <2>3. OneChange(heap, list, state, cs, l, heap, L, s, e, arr2, k2)
    BY <1>1, <1>5, <1>9, <2>1, <2>2 DEF OneChange, Emptying
  <2>4. ls2 = Put(list, l, L) /\ st2 = Put(state, l, s) /\ cs2 = Put(cs, l, e)
    BY <1>9 DEF ls2, st2
  <2>5. Holds(heap, array, cursor, list, state, cs)
    BY <1>1
  <2> QED BY <2>3, <2>4, <2>5, OneListChanges
<1> QED BY <1>3, <1>5, <1>10 DEF Put, ls2, st2, Emptying

LEMMA WriteStep ==
    ASSUME NEW cs, Inv(cs), NEW l \in Lists, Write(l)
    PROVE  \E cs2 : /\ Inv(cs2)'
                    /\ did' = <<"write", l>> /\ file' = Contents(heap, cs)[l]
                    /\ Contents(heap', cs2) = [Contents(heap, cs) EXCEPT ![l] = <<>>]
<1> DEFINE L == [list[l] EXCEPT !.head = NULL, !.nodeCount = 0]
           cs2 == [cs EXCEPT ![l] = <<>>]
<1>1. list \in [Lists -> ListRecord] /\ list[l] \in ListRecord
  BY DEF Inv, Holds
<1>2. /\ L \in ListRecord /\ L.head = NULL /\ L.nodeCount = 0
      /\ list' = [list EXCEPT ![l] = L]
  <2>1. L \in ListRecord /\ L.head = NULL /\ L.nodeCount = 0
    BY <1>1 DEF ListRecord, Pointer
  <2>2. list' = [list EXCEPT ![l] = L]
    BY <1>1 DEF Write
  <2> QED BY <2>1, <2>2
<1> HIDE DEF L
<1>3. Good(heap, L, "written", <<>>)
  <2> DEFINE e == <<>>
             z == NewList
  <2>1. Good(heap, z, "new", e)
    BY NewListGood
  <2>2. z.head = NULL /\ z.nodeCount = 0
    BY DEF NewList
  <2> HIDE DEF z, e
  <2> QED BY <1>2, <2>1, <2>2 DEF Good, e
<1>4. /\ Alone /\ FreeNodes(Chain(l)) /\ file' = Data(l) /\ did' = <<"write", l>>
      /\ heap' = heap /\ state' = [state EXCEPT ![l] = "written"] /\ UNCHANGED <<wrong, adding>>
  BY DEF Write
<1>5. "written" \in ListState
  BY DEF ListState
<1>6. /\ Holds(heap', array', cursor', list', state', cs2)
      /\ Contents(heap', cs2) = [Contents(heap, cs) EXCEPT ![l] = <<>>]
  <2>1. Emptying(cs, l, L, "written", cs2)
    BY <1>2, <1>3, <1>4, <1>5 DEF Emptying
  <2> HIDE DEF cs2
  <2> QED BY <2>1, Emptied
<1>7. file' = Vals(heap, cs[l]) /\ Contents(heap, cs)[l] = Vals(heap, cs[l])
  BY <1>4, ChainsAre DEF Contents
<1>8. Filed(file')
  <2> DEFINE c == cs[l]
             x == Vals(heap, c)
  <2>1. c \in Seq(Nodes) /\ Ordered(heap, c)
    BY DEF Inv, Holds, Good
  <2> HIDE DEF c
  <2>2. x \in Seq(Values) /\ Len(x) = Len(c) /\ \A i \in 1 .. Len(c) : x[i] = heap[c[i]].data
    BY <2>1, ValsAt DEF Ordered
  <2> HIDE DEF x
  <2>3. \A i, j \in 1 .. Len(x) : i < j => x[i] <= x[j]
    BY <2>1, <2>2 DEF Ordered
  <2> QED BY <1>7, <2>2, <2>3 DEF Filed, x, c
<1>9. Loading(adding', cursor', heap', state', cs2)
  BY <1>4, Quiet
<1> HIDE DEF cs2
<1>10. Inv(cs2)'
  BY <1>4, <1>6, <1>8, <1>9 DEF Inv
<1> QED BY <1>4, <1>6, <1>7, <1>10

LEMMA DestroyStep ==
    ASSUME NEW cs, Inv(cs), NEW l \in Lists, Destroy(l)
    PROVE  \E cs2 : /\ Inv(cs2)'
                    /\ did' = <<"destroy", l>> /\ UNCHANGED file
                    /\ Contents(heap', cs2) = [Contents(heap, cs) EXCEPT ![l] = <<>>]
<1> DEFINE cs2 == [cs EXCEPT ![l] = <<>>]
<1>1. /\ Alone /\ FreeNodes(Chain(l)) /\ did' = <<"destroy", l>>
      /\ heap' = heap /\ state' = [state EXCEPT ![l] = "new"] /\ list' = [list EXCEPT ![l] = NewList]
      /\ UNCHANGED <<file, adding>> /\ wrong' = (wrong \/ list[l].nodeCount # Len(Chain(l)))
  BY DEF Destroy
<1>2. ~wrong'
  <2>1. list[l].nodeCount = Len(cs[l]) /\ ~wrong
    BY DEF Inv, Holds, Good
  <2>2. Chain(l) = cs[l]
    BY ChainsAre
  <2>3. ~(list[l].nodeCount # Len(Chain(l)))
    BY <2>1, <2>2
  <2> QED BY <1>1, <2>1, <2>3
<1>3. /\ Holds(heap', array', cursor', list', state', cs2)
      /\ Contents(heap', cs2) = [Contents(heap, cs) EXCEPT ![l] = <<>>]
  <2> DEFINE L == NewList
             s == "new"
  <2>1. Good(heap, L, s, <<>>) /\ L \in ListRecord
    BY NewListGood
  <2>2. s \in ListState
    BY DEF ListState
  <2>3. list' = [list EXCEPT ![l] = L] /\ state' = [state EXCEPT ![l] = s]
    BY <1>1
  <2> HIDE DEF L, s
  <2>4. Emptying(cs, l, L, s, cs2)
    BY <1>1, <2>1, <2>2, <2>3 DEF Emptying
  <2> HIDE DEF cs2
  <2> QED BY <2>4, Emptied
<1>4. Loading(adding', cursor', heap', state', cs2)
  BY <1>1, Quiet
<1>5. Filed(file')
  BY <1>1 DEF Inv
<1> HIDE DEF cs2
<1>6. Inv(cs2)'
  BY <1>2, <1>3, <1>4, <1>5 DEF Inv
<1> QED BY <1>1, <1>3, <1>6

\* The values of the nodes kept are those that Common keeps.
CommonValues(h, a, b, g, kept) == Vals(g, kept) = Abstract!Common(Vals(h, a), Vals(h, b))

LEMMA KeptCommon ==
    ASSUME NEW h, NEW g, SameData(h, g),
           NEW a \in Seq(Nodes), NEW b \in Seq(Nodes),
           NEW I, I = Matching(h, a, b),
           NEW kept, kept = Those(a, I)
    PROVE  CommonValues(h, a, b, g, kept)
<1> DEFINE x == Vals(h, a)
           y == Vals(h, b)
           p == InOrder(I)
<1>1. DOMAIN a = 1 .. Len(a) /\ DOMAIN b = 1 .. Len(b) /\ I \subseteq 1 .. Len(a)
  BY LenProperties DEF Matching
<1>2. /\ DOMAIN x = 1 .. Len(a) /\ \A i \in 1 .. Len(a) : x[i] = h[a[i]].data
      /\ DOMAIN y = 1 .. Len(b) /\ \A i \in 1 .. Len(b) : y[i] = h[b[i]].data
  BY <1>1 DEF Vals
<1>3. kept \in Seq(Nodes) /\ Picked(kept, a, I, p)
  BY <1>1, ThosePicked
<1>4. Abstract!InOrder(I) = p
  BY DEF Abstract!InOrder, InOrder, Abstract!Cardinality, Cardinality
<1> HIDE DEF x, y, p
<1>5. {i \in DOMAIN x : \E j \in DOMAIN y : y[j] = x[i]} = I
  BY <1>2, SMTT(60) DEF Matching
<1>6. Abstract!Common(x, y) = Abstract!Those(x, I)
  BY <1>5 DEF Abstract!Common
<1>7. Abstract!Those(x, I) = [k \in DOMAIN p |-> x[p[k]]]
  BY <1>4 DEF Abstract!Those
<1>8. /\ DOMAIN kept = 1 .. Len(kept) /\ DOMAIN p = 1 .. Len(kept)
      /\ \A k \in 1 .. Len(kept) : p[k] \in 1 .. Len(a) /\ kept[k] = a[p[k]] /\ kept[k] \in Nodes
  <2>1. \A k \in 1 .. Len(kept) : kept[k] \in Nodes
    BY <1>3, ElementOfSeq
  <2>2. DOMAIN kept = 1 .. Len(kept)
    BY <1>3, LenProperties
  <2> QED BY <1>1, <1>3, <2>1, <2>2 DEF Picked
<1>9. \A k \in 1 .. Len(kept) : g[kept[k]].data = x[p[k]]
  <2> TAKE k \in 1 .. Len(kept)
  <2>1. g[kept[k]].data = h[kept[k]].data /\ kept[k] = a[p[k]] /\ x[p[k]] = h[a[p[k]]].data
    BY <1>2, <1>8 DEF SameData
  <2> QED BY <2>1
<1>10. Vals(g, kept) = [k \in DOMAIN p |-> x[p[k]]]
  BY <1>8, <1>9 DEF Vals
<1> QED BY <1>6, <1>7, <1>10 DEF CommonValues, x, y

LEMMA IntersectStep ==
    ASSUME NEW cs, Inv(cs), NEW a \in Lists, NEW b \in Lists, Intersect(a, b)
    PROVE  \E cs2 : /\ Inv(cs2)'
                    /\ did' = <<"intersection", a, b>> /\ a # b /\ UNCHANGED file
                    /\ Contents(heap', cs2)
                         = [Contents(heap, cs) EXCEPT
                              ![a] = Abstract!Common(@, Contents(heap, cs)[b])]
<1> DEFINE as == cs[a]
           bs == cs[b]
           start == list[b].head
           I == Shared(as, start)
           kept == Those(as, I)
           freed == Those(as, DOMAIN as \ I)
           g == Relinked(heap, kept)
           head == First(kept)
           L == [list[a] EXCEPT !.head = head, !.nodeCount = Len(kept)]
           own == Owns(cs)
           cs2 == Put(cs, a, kept)
<1>1. /\ heap \in [Nodes -> LinkNode] /\ list \in [Lists -> ListRecord]
      /\ state \in [Lists -> ListState] /\ cs \in [Lists -> Seq(Nodes)]
      /\ Good(heap, list[a], state[a], as) /\ Good(heap, list[b], state[b], bs)
      /\ Pool(array, cursor, own) /\ Holds(heap, array, cursor, list, state, cs)
  BY DEF Inv, Holds
<1>2. /\ Alone /\ a # b /\ state[b] \in {"new", "merged"}
      /\ did' = <<"intersection", a, b>>
      /\ state' = [state EXCEPT ![a] = "intersected"] /\ UNCHANGED <<adding, file, wrong>>
  BY DEF Intersect, Usable
<1>3. Chain(a) = as
  BY ChainsAre
<1>4. /\ heap' = g /\ array' = Freed(array, cursor, freed) /\ cursor' = cursor + Len(freed)
  BY <1>3 DEF Intersect, FreeNodes, Freed
<1>5. list' = [list EXCEPT ![a] = L]
  BY <1>1, <1>3 DEF Intersect, First
<1>6. /\ as \in Seq(Nodes) /\ bs \in Seq(Nodes) /\ Ordered(heap, as) /\ Ordered(heap, bs)
      /\ Chained(heap, list[a].head, as) /\ Chained(heap, start, bs) /\ Forward(heap, bs)
      /\ own[a] = Elems(as)
  BY <1>1, <1>2 DEF Good, Chained, Owns
<1> HIDE DEF as, bs, start, own
<1>7. I = Matching(heap, as, bs)
  BY <1>1, <1>6, SharedIs
<1>8. I \in SUBSET (1 .. Len(as))
  BY <1>7 DEF Matching
<1> HIDE DEF I
<1>9. /\ g \in [Nodes -> LinkNode]
      /\ Chained(g, head, kept) /\ Ordered(g, kept)
      /\ freed \in Seq(Nodes) /\ Once(freed) /\ Elems(freed) \subseteq Elems(as)
      /\ Elems(kept) = Elems(as) \ Elems(freed)
      /\ SameData(heap, g) /\ Outside(heap, g, Elems(kept))
  <2> HIDE DEF kept, freed, g, head
  <2>1. kept = Those(as, I) /\ freed = Those(as, DOMAIN as \ I)
    BY DEF kept, freed
  <2>2. g = Relinked(heap, kept) /\ head = First(kept)
    BY DEF g, head
  <2>3. Keepable(heap, list[a].head, as, I)
    BY <1>1, <1>6, <1>8 DEF Keepable
  <2>4. Kept(heap, as, kept, freed, g, head)
    BY <2>1, <2>2, <2>3, KeptGood
  <2> QED BY <2>4 DEF Kept
<1> HIDE DEF g
<1>10. Vals(g, kept) = Abstract!Common(Vals(heap, as), Vals(heap, bs))
  <2>1. SameData(heap, g)
    BY <1>9
  <2>2. kept = Those(as, I)
    OBVIOUS
  <2>3. as \in Seq(Nodes) /\ bs \in Seq(Nodes)
    BY <1>6
  <2> HIDE DEF kept, freed, head, L, cs2
  <2>4. CommonValues(heap, as, bs, g, kept)
    BY <1>7, <2>1, <2>2, <2>3, KeptCommon
  <2> QED BY <2>4 DEF CommonValues
<1> HIDE DEF kept, freed, head
<1>11. kept \in Seq(Nodes) /\ head \in Pointer /\ Len(kept) \in Nat
  <2>1. kept \in Seq(Nodes) /\ head = IF kept = <<>> THEN NULL ELSE kept[1]
    BY <1>9 DEF Chained
  <2>2. kept # <<>> => kept[1] \in Nodes
    <3>1. kept # <<>> => 1 \in 1 .. Len(kept)
      BY <2>1, LenProperties, EmptySeq
    <3> QED BY <2>1, <3>1, ElementOfSeq
  <2> QED BY <2>1, <2>2, LenProperties DEF Pointer
<1>12. L \in ListRecord /\ L.head = head /\ L.nodeCount = Len(kept)
  <2>1. list[a] \in ListRecord
    BY <1>1
  <2> QED BY <1>11, <2>1 DEF ListRecord
<1> HIDE DEF L
<1> DEFINE s == "intersected"
<1>13. Good(g, L, s, kept)
  BY <1>9, <1>12 DEF Good
<1> DEFINE arr2 == Freed(array, cursor, freed)
           k2 == cursor + Len(freed)
           own2 == Put(own, a, Elems(kept))
<1>14. Pool(arr2, k2, own2)
  <2>1. Pool(arr2, k2, [own EXCEPT ![a] = @ \ Elems(freed)])
    <3>1. freed \in Seq(Nodes) /\ Once(freed) /\ Elems(freed) \subseteq own[a]
      BY <1>6, <1>9
    <3>2. Pool(array, cursor, own)
      BY <1>1
    <3> QED BY <3>1, <3>2, PoolGive
  <2>2. own \in [Lists -> SUBSET Nodes]
    BY <1>1 DEF Pool, Split
  <2>3. [own EXCEPT ![a] = @ \ Elems(freed)] = own2
    BY <1>6, <1>9, <2>2 DEF Put
  <2> QED BY <2>1, <2>3
<1>15. Elsewhere(heap, g, cs, {a})
  <2> SUFFICES ASSUME NEW m \in Lists, m # a, NEW n \in Elems(cs[m])
               PROVE  g[n] = heap[n]
    BY DEF Elsewhere
  <2>1. own[m] = Elems(cs[m]) /\ own[m] \cap own[a] = {} /\ own[m] \subseteq Nodes
    BY <1>1, <1>2 DEF Pool, Split, Owns, own
  <2> QED BY <1>6, <1>9, <2>1 DEF Outside
<1>16. /\ Holds(heap', array', cursor', list', state', cs2)
       /\ Contents(heap', cs2) = Put(Contents(heap, cs), a, Vals(g, kept))
  <2>1. s \in ListState /\ s = "intersected"
    BY DEF ListState
  <2> HIDE DEF s
  <2> DEFINE ls2 == Put(list, a, L)
             st2 == Put(state, a, s)
  <2>2. Pool(arr2, k2, Put(Owns(cs), a, Elems(kept)))
    BY <1>14 DEF own
  <2> HIDE DEF arr2, k2, ls2, st2, cs2
  <2>3. /\ Holds(g, arr2, k2, ls2, st2, cs2)
        /\ Contents(g, cs2) = Put(Contents(heap, cs), a, Vals(g, kept))
    <3>1. OneChange(heap, list, state, cs, a, g, L, s, kept, arr2, k2)
      BY <1>1, <1>9, <1>11, <1>12, <1>13, <1>15, <2>1, <2>2 DEF OneChange
    <3>2. ls2 = Put(list, a, L) /\ st2 = Put(state, a, s) /\ cs2 = Put(cs, a, kept)
      BY DEF ls2, st2, cs2
    <3> QED BY <1>1, <3>1, <3>2, OneListChanges
  <2> QED BY <1>2, <1>4, <1>5, <2>1, <2>3 DEF Put, arr2, k2, ls2, st2
<1>17. Loading(adding', cursor', heap', state', cs2)
  BY <1>2, Quiet
<1>18. Filed(file') /\ ~wrong'
  BY <1>2 DEF Inv
<1>19. Contents(heap, cs)[a] = Vals(heap, as) /\ Contents(heap, cs)[b] = Vals(heap, bs)
  BY DEF Contents, as, bs
<1>20. Contents(heap', cs2) = [Contents(heap, cs) EXCEPT ![a] = Abstract!Common(@, Contents(heap, cs)[b])]
  BY <1>10, <1>16, <1>19 DEF Put
<1> HIDE DEF cs2
<1>21. PICK ds : ds = cs2
  OBVIOUS
<1>22. Inv(ds)'
  BY <1>16, <1>17, <1>18, <1>21 DEF Inv
<1> QED BY <1>2, <1>20, <1>21, <1>22

\* merge starts with the list whose first value is less.
Leading(h, x, y) == IF x = NULL \/ h[y].data < h[x].data THEN y ELSE x
Trailing(h, x, y) == IF x = NULL \/ h[y].data < h[x].data THEN x ELSE y

LEMMA MergeWoven ==
    ASSUME NEW h, NEW headA, NEW headB, NEW a, NEW b, Weavable(h, headA, headB, a, b), headB # NULL,
           NEW head, head = Leading(h, headA, headB),
           NEW curB, curB = Trailing(h, headA, headB),
           NEW g, g = Weave(h, head, curB)
    PROVE  Wove(h, g, head, a, b)
<1> SUFFICES ASSUME h \in [Nodes -> LinkNode], Chained(h, headA, a), Chained(h, headB, b),
                    Elems(a) \cap Elems(b) = {},
                    Ordered(h, a), Ordered(h, b), Forward(h, a), Forward(h, b)
             PROVE  Wove(h, g, head, a, b)
  BY DEF Weavable
<1> DEFINE swap == headA = NULL \/ h[headB].data < h[headA].data
<1>1. /\ a \in Seq(Nodes) /\ b \in Seq(Nodes) /\ Len(a) \in Nat /\ Len(b) \in Nat
      /\ headA = (IF a = <<>> THEN NULL ELSE a[1])
      /\ b # <<>> /\ headB = b[1]
  BY LenProperties DEF Chained
<1>2. h[b[1]].data \in Nat /\ (a # <<>> => h[a[1]].data \in Nat /\ headA # NULL)
  <2>1. 1 \in 1 .. Len(b) /\ (a # <<>> => 1 \in 1 .. Len(a))
    BY <1>1, LenProperties, EmptySeq
  <2>2. b[1] \in Nodes /\ (a # <<>> => a[1] \in Nodes)
    BY <1>1, <2>1, ElementOfSeq
  <2>3. h[b[1]].data \in Nat /\ (a # <<>> => h[a[1]].data \in Nat)
    BY <2>2, DataNatural
  <2> QED BY <1>1, <2>2, <2>3, NodesCount
<1>3. CASE swap
  <2>1. head = headB /\ curB = headA
    BY <1>3 DEF Leading, Trailing
  <2>2. a # <<>> => h[b[1]].data <= h[a[1]].data
    <3> SUFFICES ASSUME a # <<>> PROVE h[b[1]].data <= h[a[1]].data
      OBVIOUS
    <3>1. h[b[1]].data < h[a[1]].data
      BY <1>1, <1>2, <1>3
    <3> QED BY <1>2, <3>1
  <2>3. Elems(b) \cap Elems(a) = {}
    OBVIOUS
  <2>4. Weavable(h, head, curB, b, a) /\ Precedes(h, b, a)
    BY <1>1, <2>1, <2>2, <2>3 DEF Weavable, Precedes
  <2>5. Wove(h, g, head, b, a)
    BY <2>4, WeaveGood
  <2>6. Len(b) + Len(a) = Len(a) + Len(b) /\ Elems(b) \cup Elems(a) = Elems(a) \cup Elems(b)
    BY <1>1
  <2> QED BY <2>5, <2>6 DEF Wove
<1>4. CASE ~swap
  <2>1. head = headA /\ curB = headB /\ a # <<>>
    BY <1>1, <1>4 DEF Leading, Trailing
  <2>2. h[a[1]].data <= h[b[1]].data
    <3>1. ~(h[b[1]].data < h[a[1]].data)
      BY <1>1, <1>4, <2>1
    <3> QED BY <1>2, <2>1, <3>1
  <2>3. b # <<>> => h[a[1]].data <= h[b[1]].data
    BY <2>2
  <2>4. Weavable(h, head, curB, a, b) /\ Precedes(h, a, b)
    BY <2>1, <2>3 DEF Weavable, Precedes
  <2> QED BY <2>4, WeaveGood
<1> QED BY <1>3, <1>4

LEMMA MergeStep ==
    ASSUME NEW cs, Inv(cs), NEW a \in Lists, NEW b \in Lists, Merge(a, b)
    PROVE  \E cs2 : /\ Inv(cs2)'
                    /\ did' = <<"merge", a, b>> /\ a # b /\ UNCHANGED file
                    /\ Abstract!IsSorted(Contents(heap', cs2)[a],
                                         Contents(heap, cs)[a] \o Contents(heap, cs)[b])
                    /\ Contents(heap', cs2)
                         = [Contents(heap, cs) EXCEPT ![a] = Contents(heap', cs2)[a], ![b] = <<>>]
<1> DEFINE as == cs[a]
           bs == cs[b]
           headA == list[a].head
           headB == list[b].head
           head == Leading(heap, headA, headB)
           curB == Trailing(heap, headA, headB)
           g == Weave(heap, head, curB)
           L == [list[a] EXCEPT !.head = head, !.nodeCount = @ + list[b].nodeCount]
           own == Owns(cs)
<1>1. /\ heap \in [Nodes -> LinkNode] /\ list \in [Lists -> ListRecord]
      /\ state \in [Lists -> ListState] /\ cs \in [Lists -> Seq(Nodes)]
      /\ Good(heap, list[a], state[a], as) /\ Good(heap, list[b], state[b], bs)
      /\ Pool(array, cursor, own) /\ Holds(heap, array, cursor, list, state, cs)
  BY DEF Inv, Holds
<1>2. /\ Alone /\ a # b /\ state[a] \in {"new", "merged"} /\ state[b] \in {"new", "merged"}
      /\ headB # NULL /\ did' = <<"merge", a, b>>
      /\ state' = [state EXCEPT ![a] = "merged", ![b] = "new"]
      /\ UNCHANGED <<array, cursor, adding, file, wrong>>
  BY DEF Merge, Usable
<1>3. heap' = g
  BY DEF Merge, Leading, Trailing
<1>4. list' = [list EXCEPT ![a] = L, ![b] = NewList]
  BY <1>1, <1>2 DEF Merge, Leading
<1>5. /\ as \in Seq(Nodes) /\ bs \in Seq(Nodes) /\ Ordered(heap, as) /\ Ordered(heap, bs)
      /\ Chained(heap, headA, as) /\ Chained(heap, headB, bs)
      /\ Forward(heap, as) /\ Forward(heap, bs) /\ Once(as) /\ Once(bs)
      /\ own[a] = Elems(as) /\ own[b] = Elems(bs)
      /\ list[a].nodeCount = Len(as) /\ list[b].nodeCount = Len(bs)
  BY <1>1, <1>2 DEF Good, Chained, Owns
<1>6. Elems(as) \cap Elems(bs) = {}
  <2>1. own[a] \cap own[b] = {}
    BY <1>1, <1>2 DEF Pool, Split
  <2> QED BY <1>5, <2>1
<1> HIDE DEF as, bs, own
<1>7. PICK w : /\ g \in [Nodes -> LinkNode]
               /\ Chained(g, head, w) /\ Ordered(g, w) /\ Forward(g, w)
               /\ Elems(w) = Elems(as) \cup Elems(bs) /\ Len(w) = Len(as) + Len(bs)
               /\ SameData(heap, g) /\ Outside(heap, g, Elems(as) \cup Elems(bs))
  <2> HIDE DEF headA, headB, head, curB, g
  <2>1. head = Leading(heap, headA, headB) /\ curB = Trailing(heap, headA, headB)
    BY DEF head, curB
  <2>2. g = Weave(heap, head, curB)
    BY DEF g
  <2>3. Weavable(heap, headA, headB, as, bs) /\ headB # NULL
    BY <1>1, <1>2, <1>5, <1>6 DEF Weavable
  <2>4. Wove(heap, g, head, as, bs)
    BY <2>1, <2>2, <2>3, MergeWoven
  <2> QED BY <2>4 DEF Wove
<1>8. head \in Pointer
  <2>1. headA \in Pointer /\ headB \in Pointer
    BY <1>1 DEF ListRecord
  <2> HIDE DEF headA, headB
  <2> QED BY <2>1 DEF Leading
<1> HIDE DEF headA, headB, head, curB, g
<1>9. w \in Seq(Nodes) /\ Once(w) /\ Len(as) \in Nat /\ Len(bs) \in Nat
  BY <1>5, <1>7, LenProperties DEF Chained
<1>10. L \in ListRecord /\ L.head = head /\ L.nodeCount = Len(w)
  <2>1. list[a] \in ListRecord
    BY <1>1
  <2>2. list[a].nodeCount + list[b].nodeCount = Len(w) /\ Len(w) \in Nat
    <3>1. list[a].nodeCount = Len(as) /\ list[b].nodeCount = Len(bs)
      BY <1>5
    <3>2. Len(w) = Len(as) + Len(bs)
      BY <1>7
    <3>3. Len(w) \in Nat
      <4>1. w \in Seq(Nodes)
        BY <1>9
      <4> QED BY <4>1, LenProperties
    <3> QED BY <3>1, <3>2, <3>3
  <2> DEFINE r == list[a]
             k == list[b].nodeCount
  <2>3. L = [r EXCEPT !.head = head, !.nodeCount = r.nodeCount + k]
    OBVIOUS
  <2> HIDE DEF L, r, k
  <2>4. L = [r EXCEPT !.head = head, !.nodeCount = Len(w)] /\ r \in ListRecord
    BY <2>1, <2>2, <2>3 DEF r, k
  <2> QED BY <1>8, <2>2, <2>4 DEF ListRecord
<1> HIDE DEF L
<1> DEFINE e == <<>>
           ls2 == [list EXCEPT ![a] = L, ![b] = NewList]
           st2 == [state EXCEPT ![a] = "merged", ![b] = "new"]
           cs2 == [cs EXCEPT ![a] = w, ![b] = e]
           own2 == Owns(cs2)
           C == {a, b}
<1>11. Good(g, L, "merged", w) /\ Good(g, NewList, "new", e) /\ NewList \in ListRecord
  <2>1. Good(g, L, "merged", w)
    BY <1>7, <1>10 DEF Good
  <2> QED BY <2>1, NewListGood
<1>12. e \in Seq(Nodes) /\ Elems(e) = {} /\ Vals(g, e) = <<>>
  BY DEF Elems, Vals
<1> HIDE DEF e
<1>13. /\ ls2 \in [Lists -> ListRecord] /\ ls2[a] = L /\ ls2[b] = NewList
       /\ \A m \in Lists : m \notin C => ls2[m] = list[m]
  BY <1>1, <1>2, <1>10, <1>11
<1>14. /\ st2 \in [Lists -> ListState] /\ st2[a] = "merged" /\ st2[b] = "new"
       /\ \A m \in Lists : m \notin C => st2[m] = state[m]
  <2>1. "merged" \in ListState /\ "new" \in ListState
    BY DEF ListState
  <2> QED BY <1>1, <1>2, <2>1
<1>15. /\ cs2 \in [Lists -> Seq(Nodes)] /\ cs2[a] = w /\ cs2[b] = e
       /\ \A m \in Lists : m \notin C => cs2[m] = cs[m]
  BY <1>1, <1>2, <1>9, <1>12
<1> HIDE DEF ls2, st2, cs2
<1>16. Pool(array, cursor, own2)
  <2>1. \A m \in Lists : own2[m] = Elems(cs2[m]) /\ own[m] = Elems(cs[m])
    BY DEF Owns, own
  <2>2. own \in [Lists -> SUBSET Nodes]
    BY <1>1 DEF Pool, Split
  <2>3. own2[a] = own[a] \cup own[b] /\ own2[b] = {}
    BY <1>5, <1>7, <1>12, <1>15, <2>1
  <2>4. \A m \in Lists : m # a /\ m # b => own2[m] = own[m]
    BY <1>15, <2>1
  <2>5. own2 \in [Lists -> SUBSET Nodes]
    <3>1. \A m \in Lists : own2[m] \in SUBSET Nodes
      BY <2>2, <2>3, <2>4
    <3>2. own2 = [m \in Lists |-> own2[m]]
      BY DEF Owns
    <3> HIDE DEF own2
    <3> QED BY <3>1, <3>2
  <2> HIDE DEF own2
  <2> QED BY <1>1, <1>2, <2>3, <2>4, <2>5, PoolJoin
<1>17. Elsewhere(heap, g, cs, C)
  <2> SUFFICES ASSUME NEW m \in Lists, m \notin C, NEW n \in Elems(cs[m])
               PROVE  g[n] = heap[n]
    BY DEF Elsewhere
  <2>1. /\ own[m] = Elems(cs[m]) /\ own[m] \subseteq Nodes
        /\ own[m] \cap own[a] = {} /\ own[m] \cap own[b] = {}
    BY <1>1, <1>2 DEF Pool, Split, Owns, own
  <2> QED BY <1>5, <1>7, <2>1 DEF Outside
<1>18. Renewed(g, ls2, st2, cs2, C)
  BY <1>11, <1>13, <1>14, <1>15 DEF Renewed
<1>19. C \subseteq Lists
  OBVIOUS
<1>20. /\ Holds(g, array, cursor, ls2, st2, cs2)
       /\ Same(Contents(heap, cs), Contents(g, cs2), C)
  <2>1. Same(list, ls2, C) /\ Same(state, st2, C) /\ Same(cs, cs2, C)
    BY <1>13, <1>14, <1>15 DEF Same
  <2>2. own2 = Owns(cs2)
    OBVIOUS
  <2> HIDE DEF own2, C
  <2> QED BY <1>1, <1>7, <1>13, <1>14, <1>15, <1>16, <1>17, <1>18, <1>19, <2>1, <2>2, HoldsAgain, ZenonT(60)
<1>21. Holds(heap', array', cursor', list', state', cs2)
  BY <1>2, <1>3, <1>4, <1>20 DEF ls2, st2
<1> DEFINE x == Contents(heap, cs)
           y == Contents(heap', cs2)
<1>22. /\ y[a] = Vals(g, w) /\ y[b] = <<>> /\ x[a] = Vals(heap, as) /\ x[b] = Vals(heap, bs)
       /\ x = [m \in Lists |-> x[m]] /\ y = [m \in Lists |-> y[m]]
  BY <1>3, <1>12, <1>15 DEF Contents, as, bs
<1>23. Abstract!IsSorted(Vals(g, w), Vals(heap, as) \o Vals(heap, bs))
  <2>1. SameData(heap, g)
    BY <1>7
  <2> QED BY <1>1, <1>5, <1>6, <1>7, <1>9, <2>1, WovenSorted
<1>24. \A m \in Lists : m # a /\ m # b => y[m] = x[m]
  BY <1>3, <1>20 DEF Same
<1> HIDE DEF x, y
<1>25. y = [x EXCEPT ![a] = y[a], ![b] = <<>>]
  <2> DEFINE z == [x EXCEPT ![a] = y[a], ![b] = <<>>]
  <2>1. z = [m \in Lists |-> z[m]]
    BY <1>22
  <2>2. \A m \in Lists : z[m] = y[m]
    BY <1>2, <1>22, <1>24
  <2> HIDE DEF z
  <2>3. y = z
    BY <1>22, <2>1, <2>2
  <2> QED BY <2>3 DEF z
<1>26. Loading(adding', cursor', heap', state', cs2)
  BY <1>2, Quiet
<1>27. Filed(file') /\ ~wrong'
  BY <1>2 DEF Inv
<1>28. Inv(cs2)'
  BY <1>21, <1>26, <1>27 DEF Inv
<1>29. Abstract!IsSorted(y[a], x[a] \o x[b])
  BY <1>22, <1>23
<1> QED BY <1>2, <1>25, <1>28, <1>29 DEF x, y

-----------------------------------------------------------------------------
(* readFromFile *)

\* A heap and a list that addElement can go on with.
Linkable == {x \in [heap : [Nodes -> LinkNode], list : ListRecord] :
               x.list.head # NULL => x.list.tail \in Nodes}

LEMMA LinkedType ==
    ASSUME NEW x \in Linkable, NEW n \in Nodes, NEW v \in Values
    PROVE  /\ Linked(x, n, v) \in Linkable
           /\ Linked(x, n, v) = Link(x.heap, x.list, n, v)
<1> DEFINE h == x.heap
           L == x.list
           y == Link(h, L, n, v)
           g == y.heap
           M == y.list
<1>1. x = [heap |-> h, list |-> L] /\ h \in [Nodes -> LinkNode] /\ L \in ListRecord
  BY DEF Linkable
<1>2. L.head # NULL => L.tail \in Nodes
  BY DEF Linkable
<1>3. y = [heap |-> g, list |-> M]
  BY DEF Link, Linked
<1>4. Linked(x, n, v) = y
  <2> HIDE DEF h, L
  <2> QED BY <1>1 DEF Link
<1> HIDE DEF h, L
<1>5. Extends(h, L, n, v, g, M)
  BY <1>1, <1>2, LinkedExtends DEF Link
<1> HIDE DEF y, g, M
<1>6. g \in [Nodes -> LinkNode] /\ M \in ListRecord /\ M.tail \in Nodes
  BY <1>5 DEF Extends
<1>7. y \in Linkable
  BY <1>3, <1>6 DEF Linkable
<1> QED BY <1>4, <1>7 DEF y, h, L

\* x is what the loop has made of the heap and the list l when i values are read; c
\* are the nodes that hold them.
ReadSoFar(cs, l, x, c, i) ==
    /\ c \in Seq(Nodes) /\ Len(c) = i
    /\ Good(x.heap, x.list, "new", c)
    /\ Pool(array, cursor - i, Put(Owns(cs), l, Elems(c)))
    /\ Outside(heap, x.heap, Elems(c))
    /\ \A j \in 1 .. i : x.heap[c[j]].data = file[j]

LEMMA ReadTurn ==
    ASSUME NEW cs, Inv(cs), NEW l \in Lists, file # NoFile, NEW i \in 0 .. Len(file) - 1,
           i < cursor,
           NEW x \in Linkable, NEW c, ReadSoFar(cs, l, x, c, i),
           NEW k, k = i + 1,
           NEW y, y = Linked(x, array[cursor - k], file[k])
    PROVE  array[cursor - k] \in Nodes /\ \E d : ReadSoFar(cs, l, y, d, k)
<1> DEFINE n == array[cursor - k]
           v == file[k]
           own == Put(Owns(cs), l, Elems(c))
           h == x.heap
           L == x.list
           d == Append(c, n)
<1>1. file \in Seq(Values) /\ \A p, q \in 1 .. Len(file) : p < q => file[p] <= file[q]
  BY DEF Inv, Filed
<1>2. Len(file) \in Nat /\ cursor \in Nat
  <2>1. Len(file) \in Nat
    BY <1>1, LenProperties
  <2>2. cursor \in Nat
    BY PoolAssumption DEF Inv, Holds, Pool
  <2> QED BY <2>1, <2>2
<1>3. /\ i \in Nat /\ k \in 1 .. Len(file) /\ cursor - i > 0 /\ cursor - i - 1 = cursor - k
      /\ cursor - i \in Nat
  BY <1>2
<1>4. v \in Values
  BY <1>1, <1>3, ElementOfSeq
<1>5. /\ c \in Seq(Nodes) /\ Len(c) = i /\ Good(h, L, "new", c) /\ Pool(array, cursor - i, own)
      /\ Outside(heap, h, Elems(c))
      /\ \A j \in 1 .. i : h[c[j]].data = file[j]
  BY DEF ReadSoFar
<1>6. h \in [Nodes -> LinkNode] /\ L \in ListRecord
  BY DEF Linkable
<1>7. own[l] = Elems(c)
  <2>1. Owns(cs) = [m \in Lists |-> Owns(cs)[m]]
    BY DEF Owns
  <2> QED BY <2>1 DEF Put
<1>8. Below(h, c, v)
  <2> SUFFICES ASSUME NEW j \in 1 .. Len(c) PROVE h[c[j]].data <= v
    BY DEF Below
  <2>1. j \in 1 .. i /\ j \in 1 .. Len(file) /\ j < k
    BY <1>2, <1>3, <1>5
  <2> QED BY <1>1, <1>3, <1>5, <2>1
<1> HIDE DEF v, own, h, L
<1> DEFINE z == Link(h, L, n, v)
           m == cursor - i
<1>9. n = array[m - 1] /\ m > 0
  BY <1>3
<1> HIDE DEF n, m
<1>10. /\ n \in Nodes /\ Good(z.heap, z.list, "new", d) /\ Elems(d) = Elems(c) \cup {n}
       /\ Pool(array, m - 1, Put(own, l, Elems(d)))
       /\ Outside(h, z.heap, Elems(d))
       /\ Vals(z.heap, d) = Append(Vals(h, c), v)
  <2> HIDE DEF z, d
  <2>1. Pool(array, m, own)
    BY <1>5 DEF m
  <2>2. z = Link(h, L, n, v) /\ d = Append(c, n)
    BY DEF z, d
  <2>3. Addable(h, L, c, array, m, own, l, v)
    BY <1>4, <1>5, <1>6, <1>7, <1>8, <1>9, <2>1 DEF Addable
  <2>4. Added(h, c, array, m, own, l, v, n, z, d)
    BY <1>9, <2>2, <2>3, LinkGood
  <2> QED BY <2>4 DEF Added
<1>11. y = z
  <2>1. y = Linked(x, n, v)
    BY DEF n, v
  <2> HIDE DEF z
  <2>2. Linked(x, n, v) = z
    BY <1>4, <1>10, LinkedType DEF z, h, L
  <2> QED BY <2>1, <2>2
<1>12. Put(own, l, Elems(d)) = Put(Owns(cs), l, Elems(d))
  <2> DEFINE o == Owns(cs)
             e == Elems(d)
  <2> HIDE DEF d, e
  <2>1. o = [r \in Lists |-> o[r]]
    BY DEF Owns
  <2> HIDE DEF o
  <2> QED BY <2>1 DEF Put, own, o
<1>13. d \in Seq(Nodes) /\ Len(d) = k /\ \A j \in 1 .. k : d[j] = IF j <= i THEN c[j] ELSE n
  <2>1. /\ d \in Seq(Nodes) /\ Len(d) = Len(c) + 1
        /\ \A j \in 1 .. Len(c) + 1 : d[j] = IF j <= Len(c) THEN c[j] ELSE n
    BY <1>5, <1>10, AppendAt
  <2> HIDE DEF d
  <2> QED BY <1>5, <2>1
<1> HIDE DEF z
<1>14. \A j \in 1 .. k : z.heap[d[j]].data = file[j]
  <2> DEFINE a == Vals(h, c)
             b == Vals(z.heap, d)
  <2>1. /\ a \in Seq(Values) /\ Len(a) = i /\ \A j \in 1 .. i : a[j] = h[c[j]].data
    <3>1. \A j \in 1 .. Len(c) : h[c[j]].data \in Values
      BY <1>5 DEF Good, Ordered
    <3> QED BY <1>5, <3>1, ValsAt
  <2>2. \A j \in 1 .. k : b[j] = z.heap[d[j]].data
    <3>1. \A j \in 1 .. Len(d) : z.heap[d[j]].data \in Values
      BY <1>10 DEF Good, Ordered
    <3> HIDE DEF d
    <3>2. \A j \in 1 .. Len(d) : b[j] = z.heap[d[j]].data
      BY <1>13, <3>1, ValsAt
    <3> QED BY <1>13, <3>2
  <2>3. b = Append(a, v)
    BY <1>10
  <2> HIDE DEF a, b, d
  <2>4. \A j \in 1 .. i + 1 : b[j] = IF j <= i THEN a[j] ELSE v
    BY <1>4, <2>1, <2>3, AppendAt
  <2>5. ASSUME NEW j \in 1 .. k PROVE b[j] = file[j]
    <3>1. CASE j <= i
      <4>1. j \in 1 .. i
        BY <1>3, <3>1
      <4> QED BY <1>5, <2>1, <2>4, <3>1, <4>1
    <3>2. CASE ~(j <= i)
      <4>1. j = k
        BY <1>3, <3>2
      <4> QED BY <2>4, <3>2, <4>1 DEF v
    <3> QED BY <3>1, <3>2
  <2> QED BY <2>2, <2>5
<1>15. Outside(heap, z.heap, Elems(d))
  <2> HIDE DEF d
  <2> QED BY <1>5, <1>10 DEF Outside
<1>16. Pool(array, cursor - k, Put(Owns(cs), l, Elems(d)))
  <2>1. m - 1 = cursor - k
    BY <1>3 DEF m
  <2> HIDE DEF d
  <2> QED BY <1>10, <1>12, <2>1
<1> HIDE DEF d
<1>17. ReadSoFar(cs, l, z, d, k)
  BY <1>10, <1>13, <1>14, <1>15, <1>16 DEF ReadSoFar
<1> QED BY <1>10, <1>11, <1>17 DEF n

LEMMA ReadLoop ==
    ASSUME NEW cs, Inv(cs), NEW l \in Lists, cs[l] = <<>>, file # NoFile,
           Len(file) <= cursor,
           NEW n, n = Len(file),
           NEW s, s = CHOOSE f : f = [i \in 0 .. n |->
                                        IF i = 0 THEN [heap |-> heap, list |-> NewList]
                                        ELSE Linked(f[i - 1], array[cursor - i], file[i])]
    PROVE  n \in Nat /\ s[n] \in Linkable /\ \E c : ReadSoFar(cs, l, s[n], c, n)
<1> DEFINE base == [heap |-> heap, list |-> NewList]
           Solves(f) == f = [i \in 0 .. n |->
                               IF i = 0 THEN base
                               ELSE Linked(f[i - 1], array[cursor - i], file[i])]
           step == [i \in Nat |-> [x \in Linkable |->
                      IF i \in 1 .. n THEN Linked(x, array[cursor - i], file[i]) ELSE x]]
           T == {i \in 0 .. n : s[i] \in Linkable /\ \E c : ReadSoFar(cs, l, s[i], c, i)}
<1>1. file \in Seq(Values) /\ n \in Nat /\ \A i \in 1 .. n : file[i] \in Values
  <2>1. file \in Seq(Values)
    BY DEF Inv, Filed
  <2> QED BY <2>1, LenProperties, ElementOfSeq
<1>2. cursor \in Nat /\ Pool(array, cursor, Owns(cs)) /\ heap \in [Nodes -> LinkNode]
  BY PoolAssumption DEF Inv, Holds, Pool
<1>3. \A i \in 1 .. n : array[cursor - i] \in Nodes
  <2> TAKE i \in 1 .. n
  <2>1. cursor - i \in 0 .. cursor - 1
    BY <1>1, <1>2
  <2>2. array[cursor - i] \in Slots(array, cursor)
    BY <2>1 DEF Slots
  <2> QED BY <1>2, <2>2 DEF Pool, Split
<1>4. base \in Linkable
  <2>1. NewList \in ListRecord /\ NewList.head = NULL
    BY NewListGood DEF NewList
  <2> QED BY <1>2, <2>1 DEF Linkable
<1>5. step \in [Nat -> [Linkable -> Linkable]]
  <2>1. ASSUME NEW i \in Nat, NEW x \in Linkable
        PROVE  (IF i \in 1 .. n THEN Linked(x, array[cursor - i], file[i]) ELSE x) \in Linkable
    <3>1. CASE i \in 1 .. n
      <4> DEFINE m == array[cursor - i]
                 v == file[i]
      <4>1. m \in Nodes /\ v \in Values
        BY <1>1, <1>3, <3>1
      <4> HIDE DEF m, v
      <4>2. Linked(x, m, v) \in Linkable
        BY <4>1, LinkedType
      <4> QED BY <3>1, <4>2 DEF m, v
    <3>2. CASE ~(i \in 1 .. n)
      BY <3>2
    <3> QED BY <3>1, <3>2
  <2> QED BY <2>1
<1>6. \E f : Recursive(f, n, Linkable, base, step)
  <2> HIDE DEF base, step
  <2> QED BY <1>1, <1>4, <1>5, RecursionUpTo
<1>7. PICK f : Recursive(f, n, Linkable, base, step)
  BY <1>6
<1>8. /\ f \in [0 .. n -> Linkable] /\ f[0] = base
      /\ \A i \in 1 .. n : f[i] = Linked(f[i - 1], array[cursor - i], file[i])
  <2>1. f \in [0 .. n -> Linkable] /\ f[0] = base /\ \A i \in 1 .. n : f[i] = step[i][f[i - 1]]
    BY <1>7 DEF Recursive
  <2>2. ASSUME NEW i \in 1 .. n PROVE f[i] = Linked(f[i - 1], array[cursor - i], file[i])
    <3> DEFINE x == f[i - 1]
    <3>1. i \in Nat /\ i - 1 \in 0 .. n
      BY <1>1
    <3>2. x \in Linkable
      BY <2>1, <3>1
    <3> HIDE DEF x, base
    <3>3. f[i] = step[i][x]
      BY <2>1 DEF x
    <3>4. step[i][x] = Linked(x, array[cursor - i], file[i])
      BY <3>1, <3>2
    <3> HIDE DEF step
    <3> QED BY <3>3, <3>4 DEF x
  <2> QED BY <2>1, <2>2
<1> HIDE DEF base
<1>9. Solves(f)
  <2>1. f = [i \in 0 .. n |-> f[i]]
    BY <1>8
  <2>2. \A i \in 0 .. n : i # 0 => i \in 1 .. n
    BY <1>1
  <2>3. \A i \in 0 .. n : f[i] = IF i = 0 THEN base ELSE Linked(f[i - 1], array[cursor - i], file[i])
    BY <1>8, <2>2
  <2> QED BY <2>1, <2>3
<1>10. Solves(s)
  <2>1. s = CHOOSE q : Solves(q)
    BY DEF base
  <2> HIDE DEF Solves
  <2> QED BY <1>9, <2>1
<1>11. /\ 0 \in 0 .. n => s[0] = base
       /\ \A i \in 1 .. n : s[i] = Linked(s[i - 1], array[cursor - i], file[i])
  <2>1. \A i \in 0 .. n : s[i] = IF i = 0 THEN base ELSE Linked(s[i - 1], array[cursor - i], file[i])
    BY <1>10
  <2>2. \A i \in 1 .. n : i \in 0 .. n /\ i # 0
    BY <1>1
  <2> HIDE DEF Solves
  <2> QED BY <2>1, <2>2
<1> HIDE DEF Solves
<1>12. 0 \in T
  <2>1. 0 \in 0 .. n /\ s[0] = base
    BY <1>1, <1>11
  <2>2. ReadSoFar(cs, l, base, <<>>, 0)
    <3> DEFINE e == <<>>
    <3>1. base.heap = heap /\ base.list = NewList
      BY DEF base
    <3>2. Good(heap, NewList, "new", e)
      BY NewListGood
    <3>3. e \in Seq(Nodes) /\ Len(e) = 0 /\ Elems(e) = Elems(cs[l])
      OBVIOUS
    <3>4. Put(Owns(cs), l, Elems(e)) = Owns(cs)
      BY <3>3 DEF Owns, Put
    <3>5. cursor - 0 = cursor
      BY <1>2
    <3> HIDE DEF e
    <3>6. ReadSoFar(cs, l, base, e, 0)
      BY <1>2, <3>1, <3>2, <3>3, <3>4, <3>5 DEF ReadSoFar, Outside
    <3> QED BY <3>6 DEF e
  <2> QED BY <1>4, <2>1, <2>2
<1>13. ASSUME NEW i \in 0 .. n - 1, i \in T PROVE i + 1 \in T
  <2> DEFINE x == s[i]
             k == i + 1
             y == s[k]
  <2>1. x \in Linkable /\ \E c : ReadSoFar(cs, l, x, c, i)
    BY <1>13
  <2>2. PICK c : ReadSoFar(cs, l, x, c, i)
    BY <2>1
  <2>3. k \in 1 .. n /\ k - 1 = i /\ k \in 0 .. n /\ i < cursor /\ i \in 0 .. Len(file) - 1
    BY <1>1, <1>2
  <2> DEFINE j == k - 1
  <2>4. y = Linked(s[j], array[cursor - k], file[k])
    <3> HIDE DEF k
    <3> QED BY <1>11, <2>3
  <2>5. y = Linked(x, array[cursor - k], file[k])
    <3> HIDE DEF y
    <3> QED BY <2>3, <2>4
  <2> HIDE DEF x, y, T
  <2>6. array[cursor - k] \in Nodes /\ \E d : ReadSoFar(cs, l, y, d, k)
    BY <2>1, <2>2, <2>3, <2>5, ReadTurn
  <2>7. y \in Linkable
    <3> DEFINE m == array[cursor - k]
               v == file[k]
    <3>1. m \in Nodes /\ v \in Values
      BY <1>1, <2>3, <2>6
    <3>2. y = Linked(x, m, v)
      BY <2>5
    <3> HIDE DEF m, v
    <3> QED BY <2>1, <3>1, <3>2, LinkedType
  <2> QED BY <2>3, <2>6, <2>7 DEF T, y
<1>14. n \in T
  <2> HIDE DEF T
  <2>1. 0 .. n \subseteq T
    BY <1>1, <1>12, <1>13, InductionUpTo
  <2> QED BY <1>1, <2>1
<1> QED BY <1>1, <1>14

LEMMA ReadStep ==
    ASSUME NEW cs, Inv(cs), NEW l \in Lists, Read(l)
    PROVE  \/ Inv(cs)' /\ UNCHANGED <<heap, list, file, did>>
           \/ \E cs2 : /\ Inv(cs2)'
                       /\ did' = <<"read", l>> /\ file # NoFile /\ UNCHANGED file
                       /\ Contents(heap, cs)[l] = <<>>
                       /\ Contents(heap', cs2) = [Contents(heap, cs) EXCEPT ![l] = file]
<1> DEFINE n == Len(file)
           s == CHOOSE f : f = [i \in 0 .. n |->
                                  IF i = 0 THEN [heap |-> heap, list |-> NewList]
                                  ELSE Linked(f[i - 1], array[cursor - i], file[i])]
           x == s[n]
           cs2(c) == Put(cs, l, c)
<1>1. /\ Alone /\ file # NoFile /\ state[l] = "new" /\ list[l] = NewList
      /\ UNCHANGED <<array, state, adding, file, wrong>>
  BY DEF Read, Alone
<1>2. /\ heap \in [Nodes -> LinkNode] /\ list \in [Lists -> ListRecord]
      /\ state \in [Lists -> ListState] /\ cs \in [Lists -> Seq(Nodes)]
      /\ Good(heap, list[l], state[l], cs[l]) /\ Pool(array, cursor, Owns(cs))
      /\ Holds(heap, array, cursor, list, state, cs)
  BY DEF Inv, Holds
<1>3. cs[l] = <<>>
  <2>1. NewList.head = NULL
    BY DEF NewList
  <2>2. cs[l] \in Seq(Nodes) /\ NULL = IF cs[l] = <<>> THEN NULL ELSE cs[l][1]
    BY <1>1, <1>2, <2>1 DEF Good, Chained
  <2>3. cs[l] # <<>> => cs[l][1] \in Nodes
    <3>1. cs[l] # <<>> => 1 \in 1 .. Len(cs[l])
      BY <2>2, LenProperties, EmptySeq
    <3> QED BY <2>2, <3>1, ElementOfSeq
  <2> QED BY <2>2, <2>3, NodesCount
<1>4. CASE ~(n <= cursor)
  <2>1. UNCHANGED <<heap, list, cursor, did>>
    BY <1>4 DEF Read
  <2>2. Holds(heap, array, cursor, list, state, cs)' /\ Filed(file)' /\ ~wrong'
    BY <1>1, <2>1 DEF Inv, Filed
  <2>3. Loading(adding, cursor, heap, state, cs)'
    BY <1>1, Quiet
  <2>4. Inv(cs)'
    BY <2>2, <2>3 DEF Inv
  <2> QED BY <1>1, <2>1, <2>4
<1>5. CASE n <= cursor
  <2>1. /\ heap' = x.heap /\ list' = [list EXCEPT ![l] = x.list] /\ cursor' = cursor - n
        /\ did' = <<"read", l>>
    BY <1>5 DEF Read
  <2>2. n \in Nat /\ x \in Linkable /\ \E c : ReadSoFar(cs, l, x, c, n)
    <3> HIDE DEF n, s
    <3>1. n = Len(file)
      BY DEF n
    <3>2. s = CHOOSE f : f = [i \in 0 .. n |->
                                IF i = 0 THEN [heap |-> heap, list |-> NewList]
                                ELSE Linked(f[i - 1], array[cursor - i], file[i])]
      BY DEF s
    <3> QED BY <1>1, <1>3, <1>5, <3>1, <3>2, ReadLoop
  <2>3. PICK c : ReadSoFar(cs, l, x, c, n)
    BY <2>2
  <2> DEFINE g == x.heap
             L == x.list
             k2 == cursor - n
             own2 == Put(Owns(cs), l, Elems(c))
  <2>4. g \in [Nodes -> LinkNode] /\ L \in ListRecord
    BY <2>2 DEF Linkable
  <2>5. /\ c \in Seq(Nodes) /\ Len(c) = n /\ Good(g, L, "new", c) /\ Pool(array, k2, own2)
        /\ Outside(heap, g, Elems(c))
        /\ \A j \in 1 .. n : g[c[j]].data = file[j]
    BY <2>3 DEF ReadSoFar
  <2> HIDE DEF g, L, x, s
  <2>6. Elsewhere(heap, g, cs, {l})
    <3> SUFFICES ASSUME NEW m \in Lists, m # l, NEW q \in Elems(cs[m])
                 PROVE  g[q] = heap[q]
      BY DEF Elsewhere
    <3>1. own2[m] = Elems(cs[m]) /\ own2[l] = Elems(c)
      <4>1. Owns(cs) = [r \in Lists |-> Elems(cs[r])]
        BY DEF Owns
      <4> QED BY <4>1 DEF Put
    <3> HIDE DEF own2, k2
    <3>2. own2[m] \cap own2[l] = {} /\ own2[m] \subseteq Nodes
      BY <2>5 DEF Pool, Split
    <3> QED BY <2>5, <3>1, <3>2 DEF Outside
  <2> DEFINE st2 == Put(state, l, "new")
             ls2 == Put(list, l, L)
             ds == cs2(c)
  <2>7. "new" \in ListState /\ st2 = state
    BY <1>1, <1>2 DEF ListState, Put
  <2> HIDE DEF k2, own2, st2, ls2, ds
  <2>8. /\ Holds(g, array, k2, ls2, st2, ds)
        /\ Contents(g, ds) = Put(Contents(heap, cs), l, Vals(g, c))
    <3> HIDE DEF n
    <3>1. OneChange(heap, list, state, cs, l, g, L, "new", c, array, k2)
      BY <2>4, <2>5, <2>6, <2>7 DEF OneChange, own2
    <3>2. ls2 = Put(list, l, L) /\ st2 = Put(state, l, "new") /\ ds = Put(cs, l, c)
      BY DEF ls2, st2, ds
    <3> QED BY <1>2, <3>1, <3>2, OneListChanges
  <2>9. heap' = g /\ list' = ls2 /\ cursor' = k2
    BY <2>1 DEF g, L, k2, ls2, Put
  <2>10. Vals(g, c) = file
    <3> DEFINE v == Vals(g, c)
    <3>1. v \in Seq(Values) /\ Len(v) = Len(c) /\ \A i \in 1 .. Len(c) : v[i] = g[c[i]].data
      <4>1. \A i \in 1 .. Len(c) : g[c[i]].data \in Values
        BY <2>5 DEF Good, Ordered
      <4> QED BY <2>5, <4>1, ValsAt
    <3>2. file \in Seq(Values)
      BY <1>1 DEF Inv, Filed
    <3> HIDE DEF v
    <3>3. \A i \in 1 .. Len(v) : v[i] = file[i]
      BY <2>5, <3>1
    <3>4. v = file
      BY <2>5, <3>1, <3>2, <3>3, SeqEqual
    <3> QED BY <3>4 DEF v
  <2>11. Contents(heap, cs)[l] = <<>>
    BY <1>3 DEF Contents, Vals
  <2>12. Loading(adding', cursor', heap', state', ds)
    BY <1>1, Quiet
  <2>13. Filed(file') /\ ~wrong'
    BY <1>1 DEF Inv
  <2>14. Holds(heap', array', cursor', list', state', ds)
    BY <1>1, <2>7, <2>8, <2>9
  <2>15. Inv(ds)'
    BY <2>12, <2>13, <2>14 DEF Inv
  <2> QED BY <1>1, <2>1, <2>8, <2>9, <2>10, <2>11, <2>15 DEF Put
<1> QED BY <1>4, <1>5

-----------------------------------------------------------------------------
(* All operations, and the values they promise *)

LEMMA DataAfter ==
    ASSUME NEW cs, Inv(cs)'
    PROVE  [l \in Lists |-> Data(l)]' = Contents(heap', cs)
<1>1. Holds(heap', array', cursor', list', state', cs)
  BY DEF Inv
<1>2. \A l \in Lists : /\ Follow(Nexts(heap'), list'[l].head) = cs[l]
                       /\ DOMAIN cs[l] = 1 .. Len(cs[l])
  BY <1>1, HoldsChains
<1>3. \A l \in Lists : Data(l)' = Vals(heap', cs[l])
  BY <1>2 DEF Data, Chain, Vals
<1> QED BY <1>3 DEF Contents

\* The steps of ValueLists on given values x, which become y.
Appends(x, y, l, v) ==
    /\ did' = <<"add", l>> /\ \A i \in DOMAIN x[l] : x[l][i] < v
    /\ y = [x EXCEPT ![l] = Append(@, v)] /\ UNCHANGED file
Merges(x, y, a, b) ==
    /\ did' = <<"merge", a, b>> /\ a # b /\ UNCHANGED file
    /\ Abstract!IsSorted(y[a], x[a] \o x[b])
    /\ y = [x EXCEPT ![a] = y[a], ![b] = <<>>]
Intersects(x, y, a, b) ==
    /\ did' = <<"intersection", a, b>> /\ a # b /\ UNCHANGED file
    /\ y = [x EXCEPT ![a] = Abstract!Common(@, x[b])]
Writes(x, y, l) ==
    did' = <<"write", l>> /\ file' = x[l] /\ y = [x EXCEPT ![l] = <<>>]
Reads(x, y, l) ==
    /\ did' = <<"read", l>> /\ x[l] = <<>> /\ file # NoFile /\ UNCHANGED file
    /\ y = [x EXCEPT ![l] = file]
Destroys(x, y, l) ==
    did' = <<"destroy", l>> /\ y = [x EXCEPT ![l] = <<>>] /\ UNCHANGED file

Promised(x, y) ==
    \E a \in Lists :
       \/ \E v \in Values : Appends(x, y, a, v)
       \/ \E b \in Lists : Merges(x, y, a, b) \/ Intersects(x, y, a, b)
       \/ Writes(x, y, a) \/ Reads(x, y, a) \/ Destroys(x, y, a)

LEMMA PromisedNext ==
    ASSUME NEW x, x = [l \in Lists |-> Data(l)], NEW y, y = [l \in Lists |-> Data(l)]',
           Promised(x, y)
    PROVE  Abstract!Next
<1>1. PICK a \in Lists :
        \/ \E v \in Values : Appends(x, y, a, v)
        \/ \E b \in Lists : Merges(x, y, a, b) \/ Intersects(x, y, a, b)
        \/ Writes(x, y, a) \/ Reads(x, y, a) \/ Destroys(x, y, a)
  BY DEF Promised
<1>2. ASSUME NEW v \in Values, Appends(x, y, a, v) PROVE Abstract!Add(a, v)
  BY <1>2 DEF Appends, Abstract!Add
<1>3. ASSUME NEW b \in Lists, Merges(x, y, a, b) PROVE Abstract!Merge(a, b)
  BY <1>3 DEF Merges, Abstract!Merge
<1>4. ASSUME NEW b \in Lists, Intersects(x, y, a, b) PROVE Abstract!Intersect(a, b)
  BY <1>4 DEF Intersects, Abstract!Intersect
<1>5. Writes(x, y, a) => Abstract!Write(a)
  BY DEF Writes, Abstract!Write
<1>6. Reads(x, y, a) => Abstract!Read(a)
  BY DEF Reads, Abstract!Read
<1>7. Destroys(x, y, a) => Abstract!Destroy(a)
  BY DEF Destroys, Abstract!Destroy
<1> QED BY <1>1, <1>2, <1>3, <1>4, <1>5, <1>6, <1>7 DEF Abstract!Next

\* A step of the model, seen as one of ValueLists.
LEMMA StepMaps ==
    ASSUME NEW cs, Inv(cs), NEW ds, Inv(ds)', Promised(Contents(heap, cs), Contents(heap', ds))
    PROVE  IInv' /\ Abstract!Next
<1>1. [l \in Lists |-> Data(l)] = Contents(heap, cs)
  BY ChainsAre
<1>2. [l \in Lists |-> Data(l)]' = Contents(heap', ds)
  BY DataAfter
<1>3. PICK x : x = Contents(heap, cs)
  OBVIOUS
<1>4. PICK y : y = Contents(heap', ds)
  OBVIOUS
<1>5. Abstract!Next
  <2>1. x = [l \in Lists |-> Data(l)] /\ y = [l \in Lists |-> Data(l)]'
    BY <1>1, <1>2, <1>3, <1>4
  <2>2. Promised(x, y)
    BY <1>3, <1>4
  <2> QED BY <2>1, <2>2, PromisedNext
<1>6. IInv'
  BY DEF IInv
<1> QED BY <1>5, <1>6

LEMMA StutterMaps ==
    ASSUME NEW cs, Inv(cs)', UNCHANGED <<heap, list, file, did>>
    PROVE  IInv' /\ UNCHANGED Abstract!vars
<1>1. IInv'
  BY DEF IInv
<1>2. \A l \in Lists : Data(l)' = Data(l)
  BY DEF Data, Chain
<1>3. [l \in Lists |-> Data(l)]' = [l \in Lists |-> Data(l)]
  BY <1>2
<1> QED BY <1>1, <1>3 DEF Abstract!vars

LEMMA InitInv ==
    ASSUME Init
    PROVE  IInv /\ Abstract!Init
<1> DEFINE e == <<>>
           cs == [l \in Lists |-> e]
           own == Owns(cs)
<1>1. e \in Seq(Nodes) /\ Elems(e) = {} /\ \A h : Vals(h, e) = <<>>
  BY DEF Elems, Vals
<1> HIDE DEF e
<1>2. /\ cs \in [Lists -> Seq(Nodes)] /\ \A l \in Lists : cs[l] = e
      /\ own = [l \in Lists |-> {}]
  BY <1>1 DEF Owns
<1> HIDE DEF cs, own
<1>3. /\ heap \in [Nodes -> LinkNode] /\ list \in [Lists -> ListRecord]
      /\ state \in [Lists -> ListState]
      /\ \A l \in Lists : Good(heap, list[l], state[l], cs[l])
  <2>1. heap \in [Nodes -> LinkNode]
    BY DEF Init, NewNode, LinkNode, Pointer
  <2> DEFINE L == NewList
  <2>2. L \in ListRecord /\ Good(heap, L, "new", e)
    BY NewListGood DEF e
  <2>3. list = [l \in Lists |-> L] /\ state = [l \in Lists |-> "new"]
    BY DEF Init
  <2> HIDE DEF L
  <2> QED BY <1>2, <2>1, <2>2, <2>3 DEF ListState
<1>4. Pool(array, cursor, own)
  <2>1. PoolSize \in Nat /\ ArraySize \in Nat /\ PoolSize <= ArraySize
    BY PoolAssumption
  <2>2. cursor = PoolSize /\ cursor \in 0 .. ArraySize
    BY <2>1 DEF Init
  <2>3. array = [i \in 0 .. ArraySize - 1 |-> IF i < PoolSize THEN i + 1 ELSE NULL]
    BY DEF Init
  <2>4. \A i \in 0 .. ArraySize - 1 : i < PoolSize => i + 1 \in Nodes
    BY <2>1 DEF Nodes
  <2>5. array \in [0 .. ArraySize - 1 -> Pointer]
    BY <2>3, <2>4 DEF Pointer
  <2>6. \A i \in 0 .. PoolSize - 1 : array[i] = i + 1 /\ i + 1 \in Nodes
    BY <2>1, <2>3 DEF Nodes
  <2>7. Slots(array, cursor) = Nodes
    <3>1. \A n \in Nodes : n - 1 \in 0 .. PoolSize - 1 /\ array[n - 1] = n
      BY <2>1, <2>3 DEF Nodes
    <3>2. Slots(array, cursor) = {array[i] : i \in 0 .. PoolSize - 1}
      BY <2>2 DEF Slots
    <3>3. ASSUME NEW x \in {array[i] : i \in 0 .. PoolSize - 1} PROVE x \in Nodes
      BY <2>6
    <3> QED BY <3>1, <3>2, <3>3
  <2>8. Split(Nodes, own)
    BY <1>2 DEF Split
  <2>9. \A i, j \in 0 .. cursor - 1 : array[i] = array[j] => i = j
    BY <2>1, <2>2, <2>6
  <2> QED BY <2>2, <2>5, <2>7, <2>8, <2>9 DEF Pool
<1>5. Holds(heap, array, cursor, list, state, cs)
  BY <1>2, <1>3, <1>4 DEF Holds, own
<1>6. Loading(adding, cursor, heap, state, cs)
  BY DEF Init, Loading
<1>7. Filed(file) /\ ~wrong
  <2>1. file = NoFile
    BY DEF Init
  <2>2. ~wrong
    BY DEF Init
  <2>3. Filed(file)
    BY <2>1 DEF Filed
  <2> QED BY <2>2, <2>3
<1>8. Inv(cs)
  BY <1>5, <1>6, <1>7 DEF Inv
<1>9. [l \in Lists |-> Data(l)] = [l \in Lists |-> <<>>]
  <2>1. \A l \in Lists : Data(l) = Vals(heap, cs[l])
    BY <1>8, ChainsAre
  <2> QED BY <1>1, <1>2, <2>1
<1>10. Abstract!Init
  BY <1>9 DEF Init, Abstract!Init
<1> QED BY <1>8, <1>10 DEF IInv

LEMMA StepInv ==
    ASSUME NoOverlap, IInv, [Next]_vars
    PROVE  IInv' /\ [Abstract!Next]_(Abstract!vars)
<1>1. PICK cs : Inv(cs)
  BY DEF IInv
<1>2. ASSUME NEW t \in Threads, NEW l \in Lists, NEW v \in Values, Load(t, l, v)
      PROVE  IInv' /\ UNCHANGED Abstract!vars
  <2>1. Inv(cs)' /\ UNCHANGED <<heap, list, file, did>>
    BY <1>1, <1>2, LoadStep
  <2> QED BY <2>1, StutterMaps
<1>3. ASSUME NEW t \in Threads, Store(t) PROVE IInv' /\ Abstract!Next
  <2>1. PICK ds : /\ Inv(ds)'
                  /\ \E l \in Lists, v \in Values :
                        Appends(Contents(heap, cs), Contents(heap', ds), l, v)
    BY <1>1, <1>3, StoreStep DEF Appends
  <2>2. Promised(Contents(heap, cs), Contents(heap', ds))
    BY <2>1 DEF Promised
  <2> QED BY <1>1, <2>1, <2>2, StepMaps
<1>4. ASSUME NEW a \in Lists, NEW b \in Lists, Merge(a, b) PROVE IInv' /\ Abstract!Next
  <2>1. PICK ds : Inv(ds)' /\ Merges(Contents(heap, cs), Contents(heap', ds), a, b)
    BY <1>1, <1>4, MergeStep DEF Merges
  <2>2. Promised(Contents(heap, cs), Contents(heap', ds))
    BY <2>1 DEF Promised
  <2> QED BY <1>1, <2>1, <2>2, StepMaps
<1>5. ASSUME NEW a \in Lists, NEW b \in Lists, Intersect(a, b) PROVE IInv' /\ Abstract!Next
  <2>1. PICK ds : Inv(ds)' /\ Intersects(Contents(heap, cs), Contents(heap', ds), a, b)
    BY <1>1, <1>5, IntersectStep DEF Intersects
  <2>2. Promised(Contents(heap, cs), Contents(heap', ds))
    BY <2>1 DEF Promised
  <2> QED BY <1>1, <2>1, <2>2, StepMaps
<1>6. ASSUME NEW l \in Lists, Write(l) PROVE IInv' /\ Abstract!Next
  <2>1. PICK ds : Inv(ds)' /\ Writes(Contents(heap, cs), Contents(heap', ds), l)
    BY <1>1, <1>6, WriteStep DEF Writes
  <2>2. Promised(Contents(heap, cs), Contents(heap', ds))
    BY <2>1 DEF Promised
  <2> QED BY <1>1, <2>1, <2>2, StepMaps
<1>7. ASSUME NEW l \in Lists, Read(l) PROVE IInv' /\ [Abstract!Next]_(Abstract!vars)
  <2>1. CASE Inv(cs)' /\ UNCHANGED <<heap, list, file, did>>
    BY <2>1, StutterMaps
  <2>2. CASE \E ds : Inv(ds)' /\ Reads(Contents(heap, cs), Contents(heap', ds), l)
    <3>1. PICK ds : Inv(ds)' /\ Reads(Contents(heap, cs), Contents(heap', ds), l)
      BY <2>2
    <3>2. Promised(Contents(heap, cs), Contents(heap', ds))
      BY <3>1 DEF Promised
    <3> QED BY <1>1, <3>1, <3>2, StepMaps
  <2> QED BY <1>1, <1>7, <2>1, <2>2, ReadStep DEF Reads
<1>8. ASSUME NEW l \in Lists, Destroy(l) PROVE IInv' /\ Abstract!Next
  <2>1. PICK ds : Inv(ds)' /\ Destroys(Contents(heap, cs), Contents(heap', ds), l)
    BY <1>1, <1>8, DestroyStep DEF Destroys
  <2>2. Promised(Contents(heap, cs), Contents(heap', ds))
    BY <2>1 DEF Promised
  <2> QED BY <1>1, <2>1, <2>2, StepMaps
<1>9. CASE UNCHANGED vars
  <2>1. Inv(cs)'
    BY <1>1, <1>9 DEF vars, Inv, Holds, Loading, Filed
  <2>2. UNCHANGED <<heap, list, file, did>>
    BY <1>9 DEF vars
  <2> QED BY <2>1, <2>2, StutterMaps
<1>10. CASE Next
  BY <1>2, <1>3, <1>4, <1>5, <1>6, <1>7, <1>8, <1>10 DEF Next
<1> QED BY <1>9, <1>10

LEMMA InvHolds == Spec /\ []NoOverlap => []IInv
<1>1. Init => IInv
  BY InitInv
<1>2. NoOverlap /\ IInv /\ [Next]_vars => IInv'
  BY StepInv
<1> QED BY <1>1, <1>2, PTL DEF Spec

-----------------------------------------------------------------------------
(* Theorems *)

LEMMA InvImplies ==
    ASSUME IInv
    PROVE  TypeOK /\ NodesAccounted /\ CountsRight /\ SkipsForward
<1>1. PICK cs : Inv(cs)
  BY DEF IInv
<1>2. /\ Holds(heap, array, cursor, list, state, cs) /\ ~wrong
      /\ \A l \in Lists : Chain(l) = cs[l] /\ NodesOf(l) = Elems(cs[l])
  BY <1>1, ChainsAre DEF Inv
<1>3. /\ cs \in [Lists -> Seq(Nodes)] /\ Pool(array, cursor, Owns(cs))
      /\ \A l \in Lists : Good(heap, list[l], state[l], cs[l])
      /\ \A l \in Lists : DOMAIN cs[l] = 1 .. Len(cs[l])
  BY <1>2, HoldsChains DEF Holds
<1>4. TypeOK
  BY <1>2, <1>3 DEF TypeOK, Holds, Pool, LinkNode, ListRecord, ListState, Pointer
<1>5. NodesAccounted
  <2> DEFINE free == [i \in 1 .. cursor |-> array[i - 1]]
             slots == {array[i] : i \in 0 .. cursor - 1}
             own == Owns(cs)
  <2>1. cursor \in Nat
    BY <1>3, PoolAssumption DEF Pool
  <2>2. \A i, j \in 1 .. cursor : free[i] = free[j] => i = j
    <3>1. \A i \in 1 .. cursor : i - 1 \in 0 .. cursor - 1
      BY <2>1
    <3>2. \A i, j \in 0 .. cursor - 1 : array[i] = array[j] => i = j
      BY <1>3 DEF Pool
    <3> TAKE i, j \in 1 .. cursor
    <3>3. free[i] = array[i - 1] /\ free[j] = array[j - 1]
      OBVIOUS
    <3>4. array[i - 1] = array[j - 1] => i - 1 = j - 1
      BY <3>1, <3>2
    <3> QED BY <2>1, <3>3, <3>4
  <2>3. DOMAIN free = 1 .. cursor
    OBVIOUS
  <2>4. \A l \in Lists : Once(cs[l]) /\ own[l] = Elems(cs[l])
    BY <1>3 DEF Good, Chained, Owns
  <2>5. slots = Slots(array, cursor) /\ Split(slots, own)
    BY <1>3 DEF Pool, Slots
  <2> HIDE DEF free, slots, own
  <2>6. \A l \in Lists : NodesOf(l) = own[l]
    BY <1>2, <2>4
  <2>7. \A l \in Lists : \A i, j \in DOMAIN Chain(l) : Chain(l)[i] = Chain(l)[j] => i = j
    BY <1>2, <1>3, <2>4 DEF Once
  <2>8. /\ \A l \in Lists : NodesOf(l) \cap slots = {}
        /\ \A l, m \in Lists : l # m => NodesOf(l) \cap NodesOf(m) = {}
        /\ slots \cup UNION {NodesOf(l) : l \in Lists} = Nodes
    <3>1. UNION {NodesOf(l) : l \in Lists} = UNION {own[l] : l \in Lists}
      BY <2>6
    <3> QED BY <2>5, <2>6, <3>1 DEF Split
  <2> QED BY <2>2, <2>3, <2>7, <2>8 DEF NodesAccounted, free, slots
<1>6. SkipsForward
  <2> SUFFICES ASSUME NEW l \in Lists, Usable(l), NEW i \in 1 .. Len(cs[l]),
                      heap[cs[l][i]].skip # NULL
               PROVE  \E j \in i + 1 .. Len(cs[l]) : cs[l][j] = heap[cs[l][i]].skip
    BY <1>2, <1>3 DEF SkipsForward
  <2> QED BY <1>3 DEF Usable, Good, Forward
<1> QED BY <1>2, <1>4, <1>5, <1>6 DEF CountsRight

\* If no two calls of getLinkNode overlap, pointers, cursor and the records of the
\* lists stay what they may be.
THEOREM LinkListTypeCorrect == Spec /\ []NoOverlap => []TypeOK
<1>1. IInv => TypeOK
  BY InvImplies
<1> QED BY <1>1, InvHolds, PTL

\* If no two calls of getLinkNode overlap, every node is a free one of the pool or
\* on one list, once: none is lost or freed twice, by whatever operations.
THEOREM NodesAccountedHolds == Spec /\ []NoOverlap => []NodesAccounted
<1>1. IInv => NodesAccounted
  BY InvImplies
<1> QED BY <1>1, InvHolds, PTL

\* If no two calls of getLinkNode overlap, ~LinkList never reports that nodeCount is
\* wrong.
THEOREM CountsRightHolds == Spec /\ []NoOverlap => []CountsRight
<1>1. IInv => CountsRight
  BY InvImplies
<1> QED BY <1>1, InvHolds, PTL

\* If no two calls of getLinkNode overlap, the skips of a list that merge or
\* intersection may be called for lead to later nodes of it.
THEOREM SkipsForwardHolds == Spec /\ []NoOverlap => []SkipsForward
<1>1. IInv => SkipsForward
  BY InvImplies
<1> QED BY <1>1, InvHolds, PTL

\* If no two calls of getLinkNode overlap, what the operations do to nodes and
\* pointers is to the values what ValueLists says: merge sorts, intersection keeps
\* the common ones, what was written is read back.
THEOREM ImplementsValueListsHolds == Spec /\ []NoOverlap => ImplementsLists
<1>1. Init => Abstract!Init
  BY InitInv
<1>2. NoOverlap /\ IInv /\ [Next]_vars => [Abstract!Next]_(Abstract!vars)
  BY StepInv
<1> QED BY <1>1, <1>2, InvHolds, PTL DEF Spec, ImplementsLists, Abstract!Spec
=============================================================================
