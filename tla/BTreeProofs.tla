---------------------------- MODULE BTreeProofs -----------------------------
(***************************************************************************)
(* Theorems about IndexBase with the B-tree, for any keys and any even     *)
(* MaxPerNode, and those about either index.                               *)
(***************************************************************************)
EXTENDS IndexBaseProofs

-----------------------------------------------------------------------------
(* One node of a B-tree *)

\* findPosition stays within the keys of a node.
LEMMA BisectIn ==
    ASSUME NEW keys \in Seq(Nat), Len(keys) >= 1, NEW key \in Nat
    PROVE  Bisect(keys, key) \in 1 .. Len(keys)
<1> DEFINE N == Len(keys)
           U == [l : Nat, r : Nat]
           start == [l |-> 1, r |-> Len(keys)]
           Turn(i, x) == LET mid == (x.l + x.r - 2) \div 2 + 1
                         IN  IF x.l >= x.r THEN x
                             ELSE [l |-> IF keys[mid] > key THEN x.l ELSE IF keys[mid] < key THEN mid + 1 ELSE mid,
                                   r |-> IF keys[mid] < key THEN x.r ELSE mid]
           Good(i, x) ==
             1 <= x.l /\ x.l <= x.r /\ x.r <= Len(keys)
           Solves(f) == f = [i \in 0 .. N |-> IF i = 0 THEN start ELSE Turn(i, f[i - 1])]
           range == CHOOSE f : Solves(f)
<1>0. Len(keys) \in Nat /\ \A i \in 1 .. Len(keys) : keys[i] \in Nat
  OBVIOUS
<1>1. N \in Nat /\ start \in U /\ Good(0, start)
  OBVIOUS
<1>2. ASSUME NEW i \in 1 .. N, NEW x \in U, Good(i - 1, x)
      PROVE  Turn(i, x) \in U /\ Good(i, Turn(i, x))
  <2> DEFINE mid == (x.l + x.r - 2) \div 2 + 1
  <2>1. x \in [l : Nat, r : Nat] /\ x.l \in Nat /\ x.r \in Nat /\ 1 <= x.l /\ x.l <= x.r /\ x.r <= Len(keys)
    BY <1>2
  <2>2. CASE x.l >= x.r
    BY <2>1, <2>2
  <2>3. CASE ~(x.l >= x.r)
    <3>1. \A a, b \in Nat : 1 <= a /\ a < b =>
            (a + b - 2) \div 2 + 1 \in Nat /\ a <= (a + b - 2) \div 2 + 1 /\ (a + b - 2) \div 2 + 1 < b
      OBVIOUS
    <3>2. mid \in Nat /\ x.l <= mid /\ mid < x.r
      <4> DEFINE a == x.l
                 b == x.r
      <4>1. a \in Nat /\ b \in Nat /\ 1 <= a /\ a < b
        BY <2>1, <2>3
      <4>2. mid = (a + b - 2) \div 2 + 1
        OBVIOUS
      <4> HIDE DEF a, b, mid
      <4>3. mid \in Nat /\ a <= mid /\ mid < b
        BY ONLY <3>1, <4>1, <4>2
      <4> QED BY <4>3 DEF a, b
    <3> HIDE DEF mid
    <3> DEFINE y == [l |-> IF keys[mid] > key THEN x.l ELSE IF keys[mid] < key THEN mid + 1 ELSE mid,
                     r |-> IF keys[mid] < key THEN x.r ELSE mid]
    <3>3. y.l \in Nat /\ y.r \in Nat /\ 1 <= y.l /\ y.l <= y.r /\ y.r <= Len(keys) /\ y \in [l : Nat, r : Nat]
      <4>1. mid \in 1 .. Len(keys) /\ keys[mid] \in Nat
        BY <1>0, <2>1, <3>2
      <4>2. CASE keys[mid] > key
        BY <1>0, <2>1, <3>2, <4>1, <4>2
      <4>3. CASE keys[mid] < key
        BY <1>0, <2>1, <3>2, <4>1, <4>3
      <4>4. CASE keys[mid] = key
        BY <1>0, <2>1, <3>2, <4>1, <4>4
      <4> QED BY <4>1, <4>2, <4>3, <4>4
    <3>4. Turn(i, x) = y
      BY <2>3 DEF mid
    <3> HIDE DEF y, Turn
    <3> QED BY <3>3, <3>4
  <2> QED BY <2>2, <2>3
<1> HIDE DEF N, U, start, Good, Turn
<1>3. \E f : Solves(f)
  <2> DEFINE good == [i \in 0 .. N |-> {x \in U : Good(i, x)}]
             step == [i \in 1 .. N |-> [x \in good[i - 1] |-> Turn(i, x)]]
  <2>1. good \in [0 .. N -> SUBSET U] /\ start \in good[0]
    BY <1>1
  <2>2. ASSUME NEW i \in 1 .. N, NEW x \in good[i - 1]
        PROVE  step[i][x] = Turn(i, x) /\ Turn(i, x) \in good[i]
    <3>1. i \in 0 .. N /\ i - 1 \in 0 .. N
      BY <1>1
    <3>2. x \in U /\ Good(i - 1, x)
      BY <3>1
    <3>3. Turn(i, x) \in U /\ Good(i, Turn(i, x))
      BY <1>2, <3>2
    <3> QED BY <3>1, <3>3
  <2> HIDE DEF good, step
  <2>3. PICK f : Runs(f, N, U, good, start, step)
    <3>1. Loop(N, U, good, start, step)
      BY <1>1, <2>1, <2>2 DEF Loop
    <3> QED BY <3>1, LoopSolved
  <2>4. ASSUME NEW i \in 0 .. N
        PROVE  f[i] = IF i = 0 THEN start ELSE Turn(i, f[i - 1])
    <3>1. CASE i = 0
      BY <2>3, <3>1 DEF Runs
    <3>2. CASE i # 0
      <4>1. i \in 1 .. N
        BY <1>1, <3>2
      <4> QED BY <2>2, <2>3, <3>2, <4>1 DEF Runs
    <3> QED BY <3>1, <3>2
  <2>5. f = [i \in 0 .. N |-> f[i]]
    BY <2>3 DEF Runs
  <2>6. Solves(f)
    BY <2>4, <2>5
  <2> QED BY <2>6
<1>4. Solves(range)
  BY <1>3
<1> HIDE DEF range
<1>5. range[0] = start /\ \A i \in 1 .. N : range[i] = Turn(i, range[i - 1])
  BY <1>1, <1>4
<1>6. \A i \in 0 .. N : range[i] \in U /\ Good(i, range[i])
  <2> DEFINE good == [i \in 0 .. N |-> {x \in U : Good(i, x)}]
  <2>1. range[0] \in good[0]
    BY <1>1, <1>5
  <2>2. ASSUME NEW i \in 1 .. N, range[i - 1] \in good[i - 1] PROVE range[i] \in good[i]
    <3>1. i \in 0 .. N /\ i - 1 \in 0 .. N
      BY <1>1
    <3>2. range[i - 1] \in U /\ Good(i - 1, range[i - 1])
      BY <2>2, <3>1
    <3>3. range[i] \in U /\ Good(i, range[i])
      BY <1>2, <1>5, <3>2
    <3> QED BY <3>1, <3>3
  <2>3. \A i \in 0 .. N : range[i] \in good[i]
    <3> HIDE DEF good
    <3> QED BY <1>1, <2>1, <2>2, LoopKeeps
  <2> QED BY <2>3

<1>7. Bisect(keys, key) = range[N].l
  BY DEF Bisect, range, Turn, N, start
<1>8. range[N] \in U /\ Good(N, range[N])
  <2>1. N \in 0 .. N
    BY <1>1
  <2> QED BY <1>6, <2>1
<1>9. range[N].l \in 1 .. Len(keys)
  BY <1>0, <1>8 DEF U, Good
<1> QED BY <1>7, <1>9

LEMMA FindPositionIn ==
    ASSUME NEW keys \in Seq(Nat), NEW key \in Nat
    PROVE  /\ FindPosition(keys, key) \in Nat
           /\ Len(keys) >= 1 => FindPosition(keys, key) \in 0 .. Len(keys)
           /\ Len(keys) = 0 => FindPosition(keys, key) = 1
<1>1. CASE Len(keys) = 0
  <2>1. keys = <<>>
    BY <1>1, EmptySeq
  <2> QED BY <1>1, <2>1 DEF FindPosition
<1>2. CASE Len(keys) # 0
  <2>1. Len(keys) \in Nat /\ Len(keys) >= 1 /\ keys # <<>>
    BY <1>2
  <2>2. Bisect(keys, key) \in 1 .. Len(keys)
    BY <2>1, BisectIn
  <2>3. FindPosition(keys, key) = 0 \/ FindPosition(keys, key) = Bisect(keys, key)
    BY <2>1 DEF FindPosition
  <2> QED BY <2>1, <2>2, <2>3
<1> QED BY <1>1, <1>2

\* The elements behind an inserted one move up.
MovedUp(s, pos, x, new) ==
    /\ Len(new) = Len(s) + 1 /\ new[pos] = x
    /\ \A i \in 1 .. Len(s) : i < pos => new[i] = s[i]
    /\ \A i \in 1 .. Len(s) : i >= pos => new[i + 1] = s[i]

LEMMA InsertBeforeIs ==
    ASSUME NEW S, NEW s \in Seq(S), NEW pos \in 1 .. Len(s) + 1, NEW x \in S
    PROVE  InsertBefore(s, pos, x) \in Seq(S) /\ MovedUp(s, pos, x, InsertBefore(s, pos, x))
<1> DEFINE n == Len(s)
           F(i) == IF i < pos THEN s[i] ELSE IF i = pos THEN x ELSE s[i - 1]
           new == [i \in 1 .. n + 1 |-> F(i)]
<1>1. n \in Nat /\ pos \in Nat /\ pos >= 1 /\ pos <= n + 1 /\ \A i \in 1 .. n : s[i] \in S
  OBVIOUS
<1> HIDE DEF n
<1>2. ASSUME NEW i \in 1 .. n + 1 PROVE F(i) \in S
  <2>1. CASE i < pos
    <3>1. i \in 1 .. n
      BY <1>1, <2>1
    <3> QED BY <1>1, <2>1, <3>1
  <2>2. CASE i = pos
    BY <2>2
  <2>3. CASE i > pos
    <3>1. i - 1 \in 1 .. n /\ ~(i < pos) /\ i # pos
      BY <1>1, <2>3
    <3> QED BY <1>1, <3>1
  <2> QED BY <1>1, <2>1, <2>2, <2>3
<1>3. F(pos) = x /\ (\A i \in 1 .. n : i < pos => F(i) = s[i])
  BY <1>1
<1>4. ASSUME NEW i \in 1 .. n, i >= pos PROVE F(i + 1) = s[i]
  <2>1. ~(i + 1 < pos) /\ i + 1 # pos /\ i + 1 - 1 = i
    BY <1>1, <1>4
  <2> QED BY <2>1
<1> HIDE DEF F
<1>5. new \in Seq(S) /\ Len(new) = n + 1
  BY <1>1, <1>2
<1>6. \A i \in 1 .. n : i \in 1 .. n + 1 /\ i + 1 \in 1 .. n + 1
  BY <1>1
<1>7. /\ new[pos] = x
      /\ \A i \in 1 .. n : i < pos => new[i] = s[i]
      /\ \A i \in 1 .. n : i >= pos => new[i + 1] = s[i]
  BY <1>1, <1>3, <1>4, <1>6
<1>8. InsertBefore(s, pos, x) = new
  BY DEF InsertBefore, F, n
<1> QED BY <1>5, <1>7, <1>8 DEF n, MovedUp

BItem == Nat \cup Seq(Nat)
BNode == [isLeaf : BOOLEAN, key : Seq(Nat), item : Seq(BItem)]

\* A node has an item for every key: a list in a leaf, in an inner node one of its
\* children, none of them twice.
BShape(node) ==
    /\ node \in BNode /\ Len(node.item) = Len(node.key)
    /\ node.isLeaf => \A i \in 1 .. Len(node.key) : node.item[i] \in Seq(Nat)
    /\ ~node.isLeaf => \A i \in 1 .. Len(node.key) : node.item[i] \in Nat
    /\ ~node.isLeaf => \A i, j \in 1 .. Len(node.key) : node.item[i] = node.item[j] => i = j
BNodeOK(node) == BShape(node) /\ Len(node.key) \in 1 .. MaxPerNode

Kids(node) == IF node.isLeaf THEN {} ELSE {node.item[i] : i \in 1 .. Len(node.key)}

\* The value is in a list of the leaf, under the key.
HasEntry(node, k, v) ==
    node.isLeaf /\ \E i \in 1 .. Len(node.key) :
                     node.key[i] = k /\ \E j \in 1 .. Len(node.item[i]) : node.item[i][j] = v
ListHas(list, v) == \E j \in 1 .. Len(list) : list[j] = v

\* new has what node has and one item more.
OneMore(node, key, it, new) ==
    /\ BShape(new) /\ new.isLeaf = node.isLeaf /\ Len(new.key) = Len(node.key) + 1
    /\ ~node.isLeaf => Kids(new) = Kids(node) \cup {it}
    /\ node.isLeaf => \A k, v : HasEntry(new, k, v) <=> HasEntry(node, k, v) \/ (k = key /\ ListHas(it, v))

LEMMA InsertOK ==
    ASSUME NEW node, BShape(node), NEW key \in Nat, NEW it \in BItem,
           node.isLeaf => it \in Seq(Nat), ~node.isLeaf => it \in Nat /\ it \notin Kids(node)
    PROVE  OneMore(node, key, it, Insert(node, key, it))
<1> DEFINE n == Len(node.key)
           pos == FindPosition(node.key, key)
           at == IF pos = 0 THEN n + 1 ELSE pos
           ks == InsertBefore(node.key, at, key)
           items == InsertBefore(node.item, at, it)
           new == [node EXCEPT !.key = ks, !.item = items]
<1>1. /\ node \in BNode /\ node.key \in Seq(Nat) /\ node.item \in Seq(BItem) /\ node.isLeaf \in BOOLEAN
      /\ Len(node.item) = n /\ n \in Nat
  BY DEF BShape, BNode
<1>2. at \in 1 .. n + 1
  <2>1. pos \in Nat /\ (n >= 1 => pos \in 0 .. n) /\ (n = 0 => pos = 1)
    BY <1>1, FindPositionIn
  <2> HIDE DEF pos
  <2> QED BY <1>1, <2>1
<1>3. Insert(node, key, it) = new
  BY DEF Insert
<1>4. /\ ks \in Seq(Nat) /\ Len(ks) = n + 1 /\ ks[at] = key
      /\ \A i \in 1 .. n : i < at => ks[i] = node.key[i]
      /\ \A i \in 1 .. n : i >= at => ks[i + 1] = node.key[i]
  <2>1. ks \in Seq(Nat) /\ MovedUp(node.key, at, key, ks)
    <3> HIDE DEF at
    <3> QED BY <1>1, <1>2, InsertBeforeIs
  <2> HIDE DEF at, ks
  <2> QED BY <2>1 DEF MovedUp
<1>5. /\ items \in Seq(BItem) /\ Len(items) = n + 1 /\ items[at] = it
      /\ \A i \in 1 .. n : i < at => items[i] = node.item[i]
      /\ \A i \in 1 .. n : i >= at => items[i + 1] = node.item[i]
  <2>1. at \in 1 .. Len(node.item) + 1
    BY <1>1, <1>2
  <2>2. items \in Seq(BItem) /\ MovedUp(node.item, at, it, items)
    <3> HIDE DEF at
    <3> QED BY <1>1, <2>1, InsertBeforeIs
  <2> HIDE DEF at, items
  <2> QED BY <1>1, <2>2 DEF MovedUp
<1> HIDE DEF at, ks, items
<1>6. /\ new \in BNode /\ new.key = ks /\ new.item = items /\ new.isLeaf = node.isLeaf
  BY <1>1, <1>4, <1>5 DEF BNode
<1> HIDE DEF n, new
<1>7. ASSUME NEW i \in 1 .. n + 1, i # at
      PROVE  \E h \in 1 .. n : ks[i] = node.key[h] /\ items[i] = node.item[h] /\ i = IF h < at THEN h ELSE h + 1
  <2>1. CASE i < at
    <3>1. i \in 1 .. n
      BY <1>1, <1>2, <2>1
    <3> QED BY <1>4, <1>5, <2>1, <3>1
  <2>2. CASE ~(i < at)
    <3>1. i - 1 \in 1 .. n /\ i - 1 >= at /\ (i - 1) + 1 = i /\ ~(i - 1 < at)
      BY <1>1, <1>2, <1>7, <2>2
    <3> QED BY <1>4, <1>5, <3>1
  <2> QED BY <2>1, <2>2
<1>8. ASSUME NEW h \in 1 .. n
      PROVE  \E i \in 1 .. n + 1 : ks[i] = node.key[h] /\ items[i] = node.item[h]
  <2>1. h \in 1 .. n + 1 /\ h + 1 \in 1 .. n + 1 /\ (h < at \/ h >= at)
    BY <1>1, <1>2
  <2> QED BY <1>4, <1>5, <2>1
<1>9. at \in 1 .. n + 1 /\ ks[at] = key /\ items[at] = it
  BY <1>2, <1>4, <1>5
<1>10. CASE node.isLeaf
  <2>1. \A h \in 1 .. n : node.item[h] \in Seq(Nat)
    BY <1>10 DEF BShape, n
  <2>2. \A i \in 1 .. n + 1 : items[i] \in Seq(Nat)
    BY <1>7, <1>9, <1>10, <2>1
  <2>3. BShape(new)
    BY <1>4, <1>5, <1>6, <1>10, <2>2 DEF BShape
  <2>4. ASSUME NEW k, NEW v
        PROVE  HasEntry(new, k, v) <=> HasEntry(node, k, v) \/ (k = key /\ ListHas(it, v))
    <3>1. HasEntry(new, k, v) <=> \E i \in 1 .. n + 1 : ks[i] = k /\ ListHas(items[i], v)
      BY <1>4, <1>6, <1>10 DEF HasEntry, ListHas
    <3>2. HasEntry(node, k, v) <=> \E h \in 1 .. n : node.key[h] = k /\ ListHas(node.item[h], v)
      BY <1>10 DEF HasEntry, ListHas, n
    <3>3. ASSUME NEW i \in 1 .. n + 1, ks[i] = k, ListHas(items[i], v)
          PROVE  HasEntry(node, k, v) \/ (k = key /\ ListHas(it, v))
      <4>1. CASE i = at
        BY <1>9, <3>3, <4>1
      <4>2. CASE i # at
        BY <1>7, <3>2, <3>3, <4>2
      <4> QED BY <4>1, <4>2
    <3>4. ASSUME HasEntry(node, k, v) \/ (k = key /\ ListHas(it, v))
          PROVE  \E i \in 1 .. n + 1 : ks[i] = k /\ ListHas(items[i], v)
      <4>1. CASE HasEntry(node, k, v)
        <5>1. PICK h \in 1 .. n : node.key[h] = k /\ ListHas(node.item[h], v)
          BY <3>2, <4>1
        <5> QED BY <1>8, <5>1
      <4>2. CASE k = key /\ ListHas(it, v)
        BY <1>9, <4>2
      <4> QED BY <3>4, <4>1, <4>2
    <3> QED BY <3>1, <3>3, <3>4
  <2> QED BY <1>3, <1>4, <1>6, <1>10, <2>3, <2>4 DEF OneMore, n
<1>11. CASE ~node.isLeaf
  <2>1. /\ \A h \in 1 .. n : node.item[h] \in Nat /\ node.item[h] # it
        /\ \A h, j \in 1 .. n : node.item[h] = node.item[j] => h = j
    BY <1>11 DEF BShape, n, Kids
  <2>2. \A i \in 1 .. n + 1 : items[i] \in Nat
    BY <1>7, <1>9, <1>11, <2>1
  <2>3. \A i \in 1 .. n + 1 : i # at => items[i] # it
    BY <1>7, <2>1
  <2>4. ASSUME NEW i \in 1 .. n + 1, NEW j \in 1 .. n + 1, items[i] = items[j]
        PROVE  i = j
    <3>1. CASE i = at \/ j = at
      BY <1>9, <2>3, <2>4, <3>1
    <3>2. CASE i # at /\ j # at
      <4>1. PICK h \in 1 .. n : items[i] = node.item[h] /\ i = IF h < at THEN h ELSE h + 1
        BY <1>7, <3>2
      <4>2. PICK g \in 1 .. n : items[j] = node.item[g] /\ j = IF g < at THEN g ELSE g + 1
        BY <1>7, <3>2
      <4>3. h = g
        BY <2>1, <2>4, <4>1, <4>2
      <4> QED BY <4>1, <4>2, <4>3
    <3> QED BY <3>1, <3>2
  <2>5. BShape(new)
    BY <1>4, <1>5, <1>6, <1>11, <2>2, <2>4 DEF BShape
  <2>6. Kids(new) = {items[i] : i \in 1 .. n + 1} /\ Kids(node) = {node.item[h] : h \in 1 .. n}
    BY <1>4, <1>6, <1>11 DEF Kids, n
  <2>7. {items[i] : i \in 1 .. n + 1} = {node.item[h] : h \in 1 .. n} \cup {it}
    <3>1. ASSUME NEW i \in 1 .. n + 1 PROVE items[i] \in {node.item[h] : h \in 1 .. n} \cup {it}
      BY <1>7, <1>9
    <3>2. ASSUME NEW h \in 1 .. n PROVE node.item[h] \in {items[i] : i \in 1 .. n + 1}
      BY <1>8
    <3>3. it \in {items[i] : i \in 1 .. n + 1}
      BY <1>9
    <3> QED BY <3>1, <3>2, <3>3
  <2> QED BY <1>3, <1>4, <1>6, <1>11, <2>5, <2>6, <2>7 DEF OneMore, n
<1> QED BY <1>1, <1>10, <1>11

\* A leaf has one more entry.
EntryAdded(leaf, key, val, new) ==
    /\ BShape(new) /\ new.isLeaf
    /\ Len(new.key) = IF HasKey(leaf, key) THEN Len(leaf.key) ELSE Len(leaf.key) + 1
    /\ Len(new.key) >= 1
    /\ \A k, v : HasEntry(new, k, v) <=> HasEntry(leaf, k, v) \/ (k = key /\ v = val)

LEMMA LeafInsertOK ==
    ASSUME NEW leaf, BShape(leaf), leaf.isLeaf, NEW key \in Nat, NEW val \in Nat
    PROVE  EntryAdded(leaf, key, val, LeafInsert(leaf, key, val))
<1>1. /\ leaf \in BNode /\ leaf.key \in Seq(Nat) /\ leaf.item \in Seq(BItem) /\ leaf.isLeaf = TRUE
      /\ Len(leaf.item) = Len(leaf.key) /\ Len(leaf.key) \in Nat
      /\ \A i \in 1 .. Len(leaf.key) : leaf.item[i] \in Seq(Nat)
  BY DEF BShape, BNode
<1>2. CASE ~HasKey(leaf, key)
  <2>1. <<val>> \in Seq(Nat) /\ <<val>> \in BItem
    BY DEF BItem
  <2>2. OneMore(leaf, key, <<val>>, Insert(leaf, key, <<val>>))
    BY <1>1, <2>1, InsertOK
  <2>3. \A v : ListHas(<<val>>, v) <=> v = val
    <3>1. Len(<<val>>) = 1 /\ <<val>>[1] = val
      OBVIOUS
    <3> QED BY <3>1 DEF ListHas
  <2>4. LeafInsert(leaf, key, val) = Insert(leaf, key, <<val>>)
    BY <1>2 DEF LeafInsert
  <2> DEFINE new == Insert(leaf, key, <<val>>)
  <2> HIDE DEF new
  <2>5. OneMore(leaf, key, <<val>>, new)
    BY <2>2 DEF new
  <2>6. \A k, v : HasEntry(new, k, v) <=> HasEntry(leaf, k, v) \/ (k = key /\ v = val)
    BY <1>1, <2>3, <2>5 DEF OneMore
  <2>7. BShape(new) /\ new.isLeaf /\ Len(new.key) = Len(leaf.key) + 1 /\ Len(new.key) >= 1
    BY <1>1, <2>5 DEF OneMore
  <2>8. EntryAdded(leaf, key, val, new)
    BY <1>2, <2>6, <2>7 DEF EntryAdded
  <2> QED BY <2>4, <2>8 DEF new
<1>3. CASE HasKey(leaf, key)
  <2> DEFINE pos == FindPosition(leaf.key, key)
             list == Append(leaf.item[pos], val)
             items == [leaf.item EXCEPT ![pos] = list]
             new == [leaf EXCEPT !.item = items]
  <2>1. pos \in 1 .. Len(leaf.key) /\ leaf.key[pos] = key
    BY <1>1, <1>3 DEF HasKey
  <2>2. LeafInsert(leaf, key, val) = new
    BY <1>3 DEF LeafInsert
  <2>3. /\ list \in Seq(Nat)
        /\ \A v : ListHas(list, v) <=> ListHas(leaf.item[pos], v) \/ v = val
    <3>1. leaf.item[pos] \in Seq(Nat)
      BY <1>1, <2>1
    <3> DEFINE x == leaf.item[pos]
    <3>2. /\ list \in Seq(Nat) /\ Len(list) = Len(x) + 1 /\ list[Len(x) + 1] = val
          /\ \A j \in 1 .. Len(x) : list[j] = x[j]
      BY <3>1, AppendProperties
    <3>3. Len(x) \in Nat
      BY <3>1
    <3> HIDE DEF x, list
    <3>4. ASSUME NEW v PROVE ListHas(list, v) <=> ListHas(x, v) \/ v = val
      <4>1. ASSUME NEW j \in 1 .. Len(list), list[j] = v PROVE ListHas(x, v) \/ v = val
        <5>1. j \in 1 .. Len(x) \/ j = Len(x) + 1
          BY <3>2, <3>3
        <5> QED BY <3>2, <4>1, <5>1 DEF ListHas
      <4>2. ASSUME NEW j \in 1 .. Len(x), x[j] = v PROVE ListHas(list, v)
        <5>1. j \in 1 .. Len(list) /\ list[j] = v
          BY <3>2, <3>3, <4>2
        <5> QED BY <5>1 DEF ListHas
      <4>3. Len(x) + 1 \in 1 .. Len(list)
        BY <3>2, <3>3
      <4>4. ListHas(list, val)
        BY <3>2, <4>3 DEF ListHas
      <4> QED BY <4>1, <4>2, <4>4 DEF ListHas
    <3> QED BY <3>2, <3>4 DEF x
  <2> HIDE DEF pos, list
  <2>4. /\ items \in Seq(BItem) /\ Len(items) = Len(leaf.key)
        /\ items[pos] = list /\ \A i \in 1 .. Len(leaf.key) : i # pos => items[i] = leaf.item[i]
    <3>1. list \in BItem /\ pos \in 1 .. Len(leaf.item)
      BY <1>1, <2>1, <2>3 DEF BItem
    <3> QED BY <1>1, <3>1
  <2> HIDE DEF items
  <2>5. new \in BNode /\ new.isLeaf = TRUE /\ new.key = leaf.key /\ new.item = items
    BY <1>1, <2>4 DEF BNode
  <2> HIDE DEF new
  <2>6. \A i \in 1 .. Len(leaf.key) : items[i] \in Seq(Nat)
    BY <1>1, <2>3, <2>4
  <2>7. BShape(new)
    BY <2>4, <2>5, <2>6 DEF BShape
  <2>8. ASSUME NEW k, NEW v
        PROVE  HasEntry(new, k, v) <=> HasEntry(leaf, k, v) \/ (k = key /\ v = val)
    <3>1. HasEntry(new, k, v) <=> \E i \in 1 .. Len(leaf.key) : leaf.key[i] = k /\ ListHas(items[i], v)
      BY <2>5 DEF HasEntry, ListHas
    <3>2. HasEntry(leaf, k, v) <=> \E i \in 1 .. Len(leaf.key) : leaf.key[i] = k /\ ListHas(leaf.item[i], v)
      BY <1>1 DEF HasEntry, ListHas
    <3> QED BY <2>1, <2>3, <2>4, <3>1, <3>2
  <2>9. Len(new.key) >= 1
    BY <1>1, <2>1, <2>5
  <2> QED BY <1>3, <2>2, <2>5, <2>7, <2>8, <2>9 DEF EntryAdded
<1> QED BY <1>2, <1>3

\* copyItems: some of a node's items, one behind the other.
LEMMA ItemsOK ==
    ASSUME NEW node, BShape(node), NEW from \in 1 .. Len(node.key), NEW to \in from .. Len(node.key)
    PROVE  LET new == Items(node, from, to)
           IN  /\ BShape(new) /\ new.isLeaf = node.isLeaf /\ Len(new.key) = to - from + 1
               /\ \A i \in 1 .. (to - from + 1) : /\ new.key[i] = node.key[from + i - 1]
                                                  /\ new.item[i] = node.item[from + i - 1]
<1> DEFINE n == to - from + 1
           ks == SubSeq(node.key, from, to)
           items == SubSeq(node.item, from, to)
           new == Node(node.isLeaf, ks, items)
<1>1. /\ node.key \in Seq(Nat) /\ node.item \in Seq(BItem) /\ node.isLeaf \in BOOLEAN
      /\ Len(node.item) = Len(node.key) /\ Len(node.key) \in Nat
  BY DEF BShape, BNode
<1>2. n \in Nat /\ \A i \in 1 .. n : from + i - 1 \in 1 .. Len(node.key)
  BY <1>1
<1>3. ks \in Seq(Nat) /\ Len(ks) = n /\ \A i \in 1 .. n : ks[i] = node.key[from + i - 1]
  <2>1. from \in Int /\ to \in Int /\ from <= to /\ \A i \in from .. to : node.key[i] \in Nat
    BY <1>1
  <2>2. /\ SubSeq(node.key, from, to) \in Seq(Nat)
        /\ Len(SubSeq(node.key, from, to)) = IF from <= to THEN to - from + 1 ELSE 0
        /\ \A i \in 1 .. to - from + 1 : SubSeq(node.key, from, to)[i] = node.key[from + i - 1]
    BY <2>1, SubSeqProperties
  <2> QED BY <2>1, <2>2
<1>4. items \in Seq(BItem) /\ Len(items) = n /\ \A i \in 1 .. n : items[i] = node.item[from + i - 1]
  <2>1. from \in Int /\ to \in Int /\ from <= to /\ \A i \in from .. to : node.item[i] \in BItem
    BY <1>1
  <2>2. /\ SubSeq(node.item, from, to) \in Seq(BItem)
        /\ Len(SubSeq(node.item, from, to)) = IF from <= to THEN to - from + 1 ELSE 0
        /\ \A i \in 1 .. to - from + 1 : SubSeq(node.item, from, to)[i] = node.item[from + i - 1]
    BY <2>1, SubSeqProperties
  <2> QED BY <2>1, <2>2
<1>5. \A i, j \in 1 .. n : from + i - 1 = from + j - 1 => i = j
  BY <1>1, <1>2
<1> HIDE DEF n, ks, items
<1>6. new \in BNode /\ new.isLeaf = node.isLeaf /\ new.key = ks /\ new.item = items
  BY <1>1, <1>3, <1>4 DEF BNode, Node
<1> HIDE DEF new
<1>7. node.isLeaf => \A i \in 1 .. n : items[i] \in Seq(Nat)
  BY <1>2, <1>4 DEF BShape
<1>8. ~node.isLeaf => \A i \in 1 .. n : items[i] \in Nat
  BY <1>2, <1>4 DEF BShape
<1>9. ~node.isLeaf => \A i, j \in 1 .. n : items[i] = items[j] => i = j
  <2>1. ~node.isLeaf => \A h, g \in 1 .. Len(node.key) : node.item[h] = node.item[g] => h = g
    BY DEF BShape
  <2>2. ASSUME ~node.isLeaf, NEW i \in 1 .. n, NEW j \in 1 .. n, items[i] = items[j] PROVE i = j
    <3>1. node.item[from + i - 1] = node.item[from + j - 1]
      BY <1>4, <2>2
    <3>2. from + i - 1 \in 1 .. Len(node.key) /\ from + j - 1 \in 1 .. Len(node.key)
      BY <1>2
    <3>3. from + i - 1 = from + j - 1
      BY <2>1, <2>2, <3>1, <3>2
    <3> QED BY <1>5, <3>3
  <2> QED BY <2>2
<1>10. BShape(new)
  BY <1>3, <1>4, <1>6, <1>7, <1>8, <1>9 DEF BShape
<1>11. Items(node, from, to) = new
  BY DEF Items, new, ks, items
<1> QED BY <1>3, <1>4, <1>6, <1>10, <1>11 DEF n

\* The halves of a full node share out what it has.
SharedOut(node, low, up) ==
    /\ BShape(low) /\ BShape(up) /\ low.isLeaf = node.isLeaf /\ up.isLeaf = node.isLeaf
    /\ Len(low.key) = MidIndex /\ Len(up.key) = MidIndex
    /\ Kids(low) \cup Kids(up) = Kids(node) /\ Kids(low) \cap Kids(up) = {}
    /\ \A k, v : HasEntry(node, k, v) <=> HasEntry(low, k, v) \/ HasEntry(up, k, v)

LEMMA MidIndexIs ==
    MidIndex \in Nat /\ MidIndex >= 1 /\ MidIndex + MidIndex = MaxPerNode /\ MidIndex + 1 <= MaxPerNode
BY MaxPerNodeAssumption DEF MidIndex

LEMMA HalvesOK ==
    ASSUME NEW node, BShape(node), Len(node.key) = MaxPerNode
    PROVE  SharedOut(node, LowerHalf(node), UpperHalf(node))
<1> DEFINE m == MidIndex
           low == Items(node, 1, m)
           up == Items(node, m + 1, MaxPerNode)
<1>1. m \in Nat /\ m >= 1 /\ m + m = MaxPerNode /\ m \in 1 .. MaxPerNode /\ m + 1 \in 1 .. MaxPerNode
  BY MidIndexIs
<1>2. /\ BShape(low) /\ low.isLeaf = node.isLeaf /\ Len(low.key) = m
      /\ \A i \in 1 .. m : low.key[i] = node.key[i] /\ low.item[i] = node.item[i]
  <2> HIDE DEF m
  <2>1. 1 \in 1 .. Len(node.key) /\ m \in 1 .. Len(node.key) /\ m - 1 + 1 = m
    BY <1>1
  <2>2. /\ BShape(low) /\ low.isLeaf = node.isLeaf /\ Len(low.key) = m - 1 + 1
        /\ \A i \in 1 .. (m - 1 + 1) : low.key[i] = node.key[1 + i - 1] /\ low.item[i] = node.item[1 + i - 1]
    BY <2>1, ItemsOK
  <2>3. \A i \in 1 .. m : 1 + i - 1 = i
    BY <1>1
  <2> HIDE DEF low
  <2> QED BY <2>1, <2>2, <2>3
<1>3. /\ BShape(up) /\ up.isLeaf = node.isLeaf /\ Len(up.key) = m
      /\ \A i \in 1 .. m : up.key[i] = node.key[m + i] /\ up.item[i] = node.item[m + i]
  <2> HIDE DEF m
  <2>1. m + 1 \in 1 .. Len(node.key) /\ MaxPerNode \in (m + 1) .. Len(node.key) /\ MaxPerNode - (m + 1) + 1 = m
    BY <1>1
  <2>2. /\ BShape(up) /\ up.isLeaf = node.isLeaf /\ Len(up.key) = MaxPerNode - (m + 1) + 1
        /\ \A i \in 1 .. (MaxPerNode - (m + 1) + 1) :
             up.key[i] = node.key[m + 1 + i - 1] /\ up.item[i] = node.item[m + 1 + i - 1]
    BY <2>1, ItemsOK
  <2>3. \A i \in 1 .. m : m + 1 + i - 1 = m + i
    BY <1>1
  <2> HIDE DEF up
  <2> QED BY <2>1, <2>2, <2>3
<1>4. LowerHalf(node) = low /\ UpperHalf(node) = up
  BY DEF LowerHalf, UpperHalf
<1> HIDE DEF low, up
<1>5. \A i \in 1 .. m : i \in 1 .. MaxPerNode /\ m + i \in 1 .. MaxPerNode
  BY <1>1
<1>6. ASSUME NEW h \in 1 .. MaxPerNode
      PROVE  h \in 1 .. m \/ \E i \in 1 .. m : h = m + i
  <2>1. h <= m => h \in 1 .. m
    BY <1>1
  <2>2. ~(h <= m) => h - m \in 1 .. m /\ h = m + (h - m)
    BY <1>1
  <2> HIDE DEF m
  <2> QED BY <2>1, <2>2
<1>7. \A i, j \in 1 .. m : i # m + j
  BY <1>1
<1> HIDE DEF m
<1>8. ASSUME NEW k, NEW v
      PROVE  HasEntry(node, k, v) <=> HasEntry(low, k, v) \/ HasEntry(up, k, v)
  <2> DEFINE E(h) == node.key[h] = k /\ ListHas(node.item[h], v)
  <2>1. HasEntry(node, k, v) <=> node.isLeaf /\ \E h \in 1 .. MaxPerNode : E(h)
    BY DEF HasEntry, ListHas
  <2>2. HasEntry(low, k, v) <=> node.isLeaf /\ \E i \in 1 .. m : E(i)
    <3>1. HasEntry(low, k, v) <=> low.isLeaf /\ \E i \in 1 .. m : low.key[i] = k /\ ListHas(low.item[i], v)
      BY <1>2 DEF HasEntry, ListHas
    <3> QED BY <1>2, <3>1
  <2>3. HasEntry(up, k, v) <=> node.isLeaf /\ \E i \in 1 .. m : E(m + i)
    <3>1. HasEntry(up, k, v) <=> up.isLeaf /\ \E i \in 1 .. m : up.key[i] = k /\ ListHas(up.item[i], v)
      BY <1>3 DEF HasEntry, ListHas
    <3> QED BY <1>3, <3>1
  <2> HIDE DEF E
  <2> QED BY <1>5, <1>6, <2>1, <2>2, <2>3
<1>9. CASE node.isLeaf
  <2>1. Kids(low) = {} /\ Kids(up) = {} /\ Kids(node) = {}
    BY <1>2, <1>3, <1>9 DEF Kids
  <2> QED BY <1>2, <1>3, <1>4, <1>8, <2>1 DEF SharedOut, m
<1>10. CASE ~node.isLeaf
  <2>1. Kids(low) = {node.item[i] : i \in 1 .. m} /\ Kids(up) = {node.item[m + i] : i \in 1 .. m}
    BY <1>2, <1>3, <1>10 DEF Kids
  <2>2. Kids(node) = {node.item[h] : h \in 1 .. MaxPerNode}
    BY <1>10 DEF Kids
  <2>3. {node.item[i] : i \in 1 .. m} \cup {node.item[m + i] : i \in 1 .. m} = {node.item[h] : h \in 1 .. MaxPerNode}
    <3>1. \A h \in 1 .. MaxPerNode : node.item[h] \in {node.item[i] : i \in 1 .. m} \cup {node.item[m + i] : i \in 1 .. m}
      BY <1>6
    <3> QED BY <1>5, <3>1
  <2>4. {node.item[i] : i \in 1 .. m} \cap {node.item[m + i] : i \in 1 .. m} = {}
    <3>1. \A h, g \in 1 .. MaxPerNode : node.item[h] = node.item[g] => h = g
      BY <1>10 DEF BShape
    <3>2. ASSUME NEW i \in 1 .. m, NEW j \in 1 .. m, node.item[i] = node.item[m + j] PROVE FALSE
      BY <1>5, <1>7, <3>1, <3>2
    <3> QED BY <3>2
  <2> QED BY <1>2, <1>3, <1>4, <1>8, <2>1, <2>2, <2>3, <2>4 DEF SharedOut, m
<1>11. node.isLeaf \in BOOLEAN
  BY DEF BShape, BNode
<1> QED BY <1>9, <1>10, <1>11

-----------------------------------------------------------------------------
(* The nodes of a B-tree *)

\* Some trees: every node but the roots is a child of one other node, and a node is one
\* higher than its children.
Wood(node, ht, roots) ==
    LET Nodes == 1 .. Len(node)
    IN  /\ node \in Seq(BNode) /\ ht \in [Nodes -> 0 .. Len(node) - 1] /\ roots \subseteq Nodes
        /\ \A n \in Nodes : BNodeOK(node[n])
        /\ \A n \in Nodes : \A c \in Kids(node[n]) : c \in Nodes /\ c \notin roots /\ ht[n] = ht[c] + 1
        /\ \A m, n \in Nodes : \A c \in Kids(node[m]) : c \in Kids(node[n]) => m = n
        /\ \A c \in Nodes \ roots : \E n \in Nodes : c \in Kids(node[n])

\* A node is replaced: its children may have been roots, the others become roots.
LEMMA PutNode ==
    ASSUME NEW node, NEW ht, NEW roots, Wood(node, ht, roots),
           NEW n \in 1 .. Len(node), NEW x, BNodeOK(x), Kids(x) \subseteq Kids(node[n]) \cup roots,
           \A c \in Kids(x) : ht[n] = ht[c] + 1,
           NEW rest, rest = (roots \cup Kids(node[n])) \ Kids(x)
    PROVE  Wood([node EXCEPT ![n] = x], ht, rest)
<1> DEFINE N == Len(node)
           new == [node EXCEPT ![n] = x]
<1>1. /\ node \in Seq(BNode) /\ N \in Nat /\ ht \in [1 .. N -> 0 .. N - 1] /\ roots \subseteq 1 .. N
      /\ \A m \in 1 .. N : BNodeOK(node[m])
  BY DEF Wood
<1>2. \A m \in 1 .. N : \A c \in Kids(node[m]) : c \in 1 .. N /\ c \notin roots /\ ht[m] = ht[c] + 1
  BY DEF Wood
<1>3. \A m, l \in 1 .. N : \A c \in Kids(node[m]) : c \in Kids(node[l]) => m = l
  BY DEF Wood
<1>4. \A c \in (1 .. N) \ roots : \E m \in 1 .. N : c \in Kids(node[m])
  BY DEF Wood
<1>5. x \in BNode
  BY DEF BNodeOK, BShape
<1>6. new \in Seq(BNode) /\ Len(new) = N /\ new[n] = x /\ \A m \in 1 .. N : m # n => new[m] = node[m]
  BY <1>1, <1>5
<1>7. n \in 1 .. N
  OBVIOUS
<1> HIDE DEF N, new
<1>8. \A m \in 1 .. N : BNodeOK(new[m])
  BY <1>1, <1>6
<1>9. ASSUME NEW m \in 1 .. N, NEW c \in Kids(new[m])
      PROVE  c \in 1 .. N /\ c \notin rest /\ ht[m] = ht[c] + 1
  <2>1. CASE m = n
    BY <1>1, <1>2, <1>6, <1>7, <1>9, <2>1
  <2>2. CASE m # n
    <3>1. c \in Kids(node[m])
      BY <1>6, <1>9, <2>2
    <3> QED BY <1>2, <1>3, <1>7, <2>2, <3>1
  <2> QED BY <2>1, <2>2
<1>10. ASSUME NEW m \in 1 .. N, NEW l \in 1 .. N, NEW c \in Kids(new[m]), c \in Kids(new[l])
       PROVE  m = l
  <2>1. ASSUME NEW j \in 1 .. N, j # n, c \in Kids(x), c \in Kids(node[j]) PROVE FALSE
    BY <1>2, <1>3, <1>7, <2>1
  <2>2. CASE m = n /\ l # n
    BY <1>6, <1>10, <2>1, <2>2
  <2>3. CASE m # n /\ l = n
    BY <1>6, <1>10, <2>1, <2>3
  <2>4. CASE m # n /\ l # n
    BY <1>3, <1>6, <1>10, <2>4
  <2> QED BY <2>2, <2>3, <2>4
<1>11. ASSUME NEW c \in (1 .. N) \ rest
       PROVE  \E m \in 1 .. N : c \in Kids(new[m])
  <2>1. CASE c \in Kids(x)
    BY <1>6, <1>7, <2>1
  <2>2. CASE c \notin Kids(x)
    <3>1. c \in (1 .. N) \ roots /\ c \notin Kids(node[n])
      BY <1>11, <2>2
    <3>2. PICK m \in 1 .. N : c \in Kids(node[m])
      BY <1>4, <3>1
    <3>3. new[m] = node[m]
      BY <1>6, <3>1, <3>2
    <3> QED BY <3>2, <3>3
  <2> QED BY <2>1, <2>2
<1>12. rest \subseteq 1 .. N
  BY <1>1, <1>2, <1>7
<1>13. Wood(new, ht, rest)
  BY <1>1, <1>6, <1>8, <1>9, <1>10, <1>11, <1>12 DEF Wood
<1> QED BY <1>13 DEF new

\* A new node with some of the roots as its children is a root.
Higher(ht, h) == [m \in DOMAIN ht \cup {Cardinality(DOMAIN ht) + 1} |-> IF m \in DOMAIN ht THEN ht[m] ELSE h]

AppendedOK(node, x, ht, h, rest) ==
    /\ Wood(Append(node, x), Higher(ht, h), rest) /\ Higher(ht, h)[Len(node) + 1] = h
    /\ \A m \in 1 .. Len(node) : Higher(ht, h)[m] = ht[m]

LEMMA AppendNode ==
    ASSUME NEW node, NEW ht, NEW roots, Wood(node, ht, roots),
           NEW x, BNodeOK(x), Kids(x) \subseteq roots,
           NEW h \in 0 .. Len(node), \A c \in Kids(x) : h = ht[c] + 1,
           NEW rest, rest = (roots \cup {Len(node) + 1}) \ Kids(x)
    PROVE  AppendedOK(node, x, ht, h, rest)
<1> DEFINE N == Len(node)
           new == Append(node, x)
           up == [m \in 1 .. N + 1 |-> IF m \in 1 .. N THEN ht[m] ELSE h]
<1>1. /\ node \in Seq(BNode) /\ N \in Nat /\ ht \in [1 .. N -> 0 .. N - 1] /\ roots \subseteq 1 .. N
      /\ \A m \in 1 .. N : BNodeOK(node[m])
  BY DEF Wood
<1>2. \A m \in 1 .. N : \A c \in Kids(node[m]) : c \in 1 .. N /\ c \notin roots /\ ht[m] = ht[c] + 1
  BY DEF Wood
<1>3. \A m, l \in 1 .. N : \A c \in Kids(node[m]) : c \in Kids(node[l]) => m = l
  BY DEF Wood
<1>4. \A c \in (1 .. N) \ roots : \E m \in 1 .. N : c \in Kids(node[m])
  BY DEF Wood
<1>5. x \in BNode
  BY DEF BNodeOK, BShape
<1>6. new \in Seq(BNode) /\ Len(new) = N + 1 /\ new[N + 1] = x /\ \A m \in 1 .. N : new[m] = node[m]
  BY <1>1, <1>5, AppendProperties
<1>7. h \in 0 .. N /\ rest = (roots \cup {N + 1}) \ Kids(x)
  OBVIOUS
<1>8. Higher(ht, h) = up
  <2>1. DOMAIN ht = 1 .. N /\ Cardinality(1 .. N) = N
    BY <1>1, CardinalityUpTo
  <2>2. 1 .. N \cup {N + 1} = 1 .. N + 1
    BY <1>1
  <2> QED BY <2>1, <2>2 DEF Higher
<1> HIDE DEF N, new
<1>9. /\ 1 .. N \subseteq 1 .. N + 1 /\ N + 1 \in 1 .. N + 1 /\ N + 1 \notin 1 .. N
      /\ \A m \in 1 .. N + 1 : m \in 1 .. N \/ m = N + 1
  BY <1>1
<1>10. up \in [1 .. N + 1 -> 0 .. (N + 1) - 1] /\ up[N + 1] = h /\ \A m \in 1 .. N : up[m] = ht[m]
  BY <1>1, <1>7, <1>9
<1> HIDE DEF up
<1>11. \A m \in 1 .. N + 1 : BNodeOK(new[m])
  BY <1>1, <1>6, <1>9
<1>12. ASSUME NEW m \in 1 .. N + 1, NEW c \in Kids(new[m])
       PROVE  c \in 1 .. N + 1 /\ c \notin rest /\ up[m] = up[c] + 1
  <2>1. CASE m = N + 1
    <3>1. c \in Kids(x) /\ c \in roots
      BY <1>6, <1>12, <2>1
    <3>2. c \in 1 .. N /\ c \notin rest
      BY <1>1, <1>7, <3>1
    <3> QED BY <1>9, <1>10, <2>1, <3>1, <3>2
  <2>2. CASE m \in 1 .. N
    <3>1. c \in Kids(node[m])
      BY <1>6, <1>12, <2>2
    <3>2. c \in 1 .. N /\ c \notin roots /\ ht[m] = ht[c] + 1 /\ c # N + 1
      BY <1>2, <1>9, <2>2, <3>1
    <3>3. c \notin rest
      BY <1>7, <3>2
    <3> QED BY <1>9, <1>10, <2>2, <3>2, <3>3
  <2> QED BY <1>9, <2>1, <2>2
<1>13. ASSUME NEW m \in 1 .. N + 1, NEW l \in 1 .. N + 1, NEW c \in Kids(new[m]), c \in Kids(new[l])
       PROVE  m = l
  <2>1. ASSUME NEW j \in 1 .. N, c \in Kids(x), c \in Kids(node[j]) PROVE FALSE
    BY <1>2, <2>1
  <2>2. CASE m = N + 1 /\ l \in 1 .. N
    BY <1>6, <1>13, <2>1, <2>2
  <2>3. CASE m \in 1 .. N /\ l = N + 1
    BY <1>6, <1>13, <2>1, <2>3
  <2>4. CASE m \in 1 .. N /\ l \in 1 .. N
    BY <1>3, <1>6, <1>13, <2>4
  <2> QED BY <1>9, <2>2, <2>3, <2>4
<1>14. ASSUME NEW c \in (1 .. N + 1) \ rest
       PROVE  \E m \in 1 .. N + 1 : c \in Kids(new[m])
  <2>1. CASE c \in Kids(x)
    BY <1>6, <1>9, <2>1
  <2>2. CASE c \notin Kids(x)
    <3>1. c \in (1 .. N) \ roots
      BY <1>7, <1>9, <1>14, <2>2
    <3>2. PICK m \in 1 .. N : c \in Kids(node[m])
      BY <1>4, <3>1
    <3> QED BY <1>6, <1>9, <3>2
  <2> QED BY <2>1, <2>2
<1>15. rest \subseteq 1 .. N + 1
  BY <1>1, <1>7, <1>9
<1>16. Wood(new, up, rest)
  BY <1>6, <1>10, <1>11, <1>12, <1>13, <1>14, <1>15 DEF Wood
<1> QED BY <1>8, <1>10, <1>16 DEF new, N, AppendedOK

\* The value is in some leaf, under the key.
InLeaf(node, k, v) == \E a \in 1 .. Len(node) : HasEntry(node[a], k, v)
SameEntries(a, b) == \A k, v : InLeaf(a, k, v) <=> InLeaf(b, k, v)

\* What is in the leaves when one of the nodes is replaced, and when there is one more.
Elsewhere(node, n, k, v) == \E m \in (1 .. Len(node)) \ {n} : HasEntry(node[m], k, v)

LEMMA PutElsewhere ==
    ASSUME NEW node \in Seq(BNode), NEW n \in 1 .. Len(node), NEW x \in BNode
    PROVE  LET new == [node EXCEPT ![n] = x]
           IN  /\ new \in Seq(BNode)
               /\ \A k, v : InLeaf(node, k, v) <=> HasEntry(node[n], k, v) \/ Elsewhere(node, n, k, v)
               /\ \A k, v : InLeaf(new, k, v) <=> HasEntry(x, k, v) \/ Elsewhere(node, n, k, v)
<1> DEFINE N == Len(node)
           new == [node EXCEPT ![n] = x]
<1>1. /\ N \in Nat /\ n \in 1 .. N /\ Len(new) = N /\ new[n] = x /\ new \in Seq(BNode)
      /\ \A m \in 1 .. N : m # n => new[m] = node[m]
  OBVIOUS
<1> HIDE DEF new, N
<1>2. \A k, v : InLeaf(node, k, v) <=> HasEntry(node[n], k, v) \/ Elsewhere(node, n, k, v)
  BY <1>1 DEF InLeaf, Elsewhere, N
<1>3. \A k, v : InLeaf(new, k, v) <=> HasEntry(x, k, v) \/ Elsewhere(node, n, k, v)
  BY <1>1 DEF InLeaf, Elsewhere, N
<1> QED BY <1>1, <1>2, <1>3 DEF new

LEMMA PutEntries ==
    ASSUME NEW node \in Seq(BNode), NEW n \in 1 .. Len(node), NEW x \in BNode
    PROVE  LET new == [node EXCEPT ![n] = x]
           IN  /\ ~x.isLeaf /\ ~node[n].isLeaf => SameEntries(node, new)
               /\ \A key, val :
                    (\A k, v : HasEntry(x, k, v) <=> HasEntry(node[n], k, v) \/ (k = key /\ v = val))
                      => \A k, v : InLeaf(new, k, v) <=> InLeaf(node, k, v) \/ (k = key /\ v = val)
<1> DEFINE new == [node EXCEPT ![n] = x]
<1>2. \A k, v : InLeaf(node, k, v) <=> HasEntry(node[n], k, v) \/ Elsewhere(node, n, k, v)
  BY PutElsewhere
<1>3. \A k, v : InLeaf(new, k, v) <=> HasEntry(x, k, v) \/ Elsewhere(node, n, k, v)
  BY PutElsewhere
<1> HIDE DEF new
<1>4. ASSUME ~x.isLeaf, ~node[n].isLeaf PROVE SameEntries(node, new)
  <2>1. \A k, v : ~HasEntry(x, k, v) /\ ~HasEntry(node[n], k, v)
    BY <1>4 DEF HasEntry
  <2> QED BY <1>2, <1>3, <2>1 DEF SameEntries
<1>5. ASSUME NEW key, NEW val,
             \A k, v : HasEntry(x, k, v) <=> HasEntry(node[n], k, v) \/ (k = key /\ v = val),
             NEW k, NEW v
      PROVE  InLeaf(new, k, v) <=> InLeaf(node, k, v) \/ (k = key /\ v = val)
  <2>1. HasEntry(x, k, v) <=> HasEntry(node[n], k, v) \/ (k = key /\ v = val)
    BY <1>5
  <2> QED BY <1>2, <1>3, <2>1
<1> QED BY <1>4, <1>5 DEF new

LEMMA AppendEntries ==
    ASSUME NEW node \in Seq(BNode), NEW x \in BNode
    PROVE  \A k, v : InLeaf(Append(node, x), k, v) <=> InLeaf(node, k, v) \/ HasEntry(x, k, v)
<1> DEFINE N == Len(node)
           new == Append(node, x)
<1>1. /\ N \in Nat /\ Len(new) = N + 1 /\ new[N + 1] = x /\ \A m \in 1 .. N : new[m] = node[m]
  BY AppendProperties
<1>2. /\ N + 1 \in 1 .. N + 1 /\ \A m \in 1 .. N + 1 : m \in 1 .. N \/ m = N + 1
      /\ \A m \in 1 .. N : m \in 1 .. N + 1
  BY <1>1
<1> HIDE DEF new, N
<1>3. ASSUME NEW k, NEW v PROVE InLeaf(new, k, v) <=> InLeaf(node, k, v) \/ HasEntry(x, k, v)
  <2>1. InLeaf(new, k, v) <=> \E m \in 1 .. N + 1 : HasEntry(new[m], k, v)
    BY <1>1 DEF InLeaf
  <2>2. InLeaf(node, k, v) <=> \E m \in 1 .. N : HasEntry(node[m], k, v)
    BY DEF InLeaf, N
  <2> QED BY <1>1, <1>2, <2>1, <2>2
<1> QED BY <1>3 DEF new

BTreeType == [node : Seq(BNode), root : Nat, nodeCount : Nat, treeDepth : Nat]

\* A B-tree that is not empty; ht is the height of each node.
BTreeOK(t, ht) ==
    /\ t \in BTreeType /\ t.nodeCount = Len(t.node) /\ t.root \in 1 .. Len(t.node)
    /\ Wood(t.node, ht, {t.root})

-----------------------------------------------------------------------------
(* The way to a leaf *)

Turns == [node : Nat, pos : Nat]

\* stack is the way up from cur to the root.
Passed(node, ht, stack, cur, root) ==
    /\ stack \in Seq(Turns) /\ cur \in 1 .. Len(node)
    /\ \A j \in 1 .. Len(stack) :
         /\ stack[j].node \in 1 .. Len(node)
         /\ ~node[stack[j].node].isLeaf
         /\ stack[j].pos \in 1 .. Len(node[stack[j].node].key)
         /\ node[stack[j].node].item[stack[j].pos] = IF j = 1 THEN cur ELSE stack[j - 1].node
         /\ ht[stack[j].node] = ht[cur] + j
    /\ root = IF Len(stack) = 0 THEN cur ELSE stack[Len(stack)].node

\* It stays one when nodes at cur and below change, and others are new.
LEMMA PassedKept ==
    ASSUME NEW a, NEW ht, NEW stack, NEW cur, NEW root, Passed(a, ht, stack, cur, root),
           NEW b, NEW up, Len(a) \in Nat, Len(b) \in Nat, Len(b) >= Len(a),
           \A m \in 1 .. Len(a) : ht[m] \in Nat /\ up[m] = ht[m],
           \A m \in 1 .. Len(a) : ht[m] > ht[cur] =>
             b[m].isLeaf = a[m].isLeaf /\ b[m].item = a[m].item /\ Len(b[m].key) = Len(a[m].key)
    PROVE  Passed(b, up, stack, cur, root)
<1>1. stack \in Seq(Turns) /\ cur \in 1 .. Len(a) /\ root = IF Len(stack) = 0 THEN cur ELSE stack[Len(stack)].node
  BY DEF Passed
<1>2. \A m \in 1 .. Len(a) : m \in 1 .. Len(b)
  OBVIOUS
<1>3. ASSUME NEW j \in 1 .. Len(stack)
      PROVE  /\ stack[j].node \in 1 .. Len(b)
             /\ ~b[stack[j].node].isLeaf
             /\ stack[j].pos \in 1 .. Len(b[stack[j].node].key)
             /\ b[stack[j].node].item[stack[j].pos] = IF j = 1 THEN cur ELSE stack[j - 1].node
             /\ up[stack[j].node] = up[cur] + j
  <2> DEFINE m == stack[j].node
  <2>1. /\ m \in 1 .. Len(a) /\ ~a[m].isLeaf /\ stack[j].pos \in 1 .. Len(a[m].key)
        /\ a[m].item[stack[j].pos] = IF j = 1 THEN cur ELSE stack[j - 1].node
        /\ ht[m] = ht[cur] + j
    BY DEF Passed
  <2>2. j \in Nat /\ j >= 1
    BY <1>1
  <2> HIDE DEF m
  <2>3. ht[m] > ht[cur] /\ up[m] = ht[m] /\ up[cur] = ht[cur]
    BY <1>1, <2>1, <2>2
  <2>4. b[m].isLeaf = a[m].isLeaf /\ b[m].item = a[m].item /\ Len(b[m].key) = Len(a[m].key)
    BY <2>1, <2>3
  <2> QED BY <1>2, <2>1, <2>3, <2>4 DEF m
<1> QED BY <1>1, <1>2, <1>3 DEF Passed

\* One node further up.
LEMMA PassedTail ==
    ASSUME NEW node, NEW ht, NEW stack, NEW cur, NEW root, Passed(node, ht, stack, cur, root),
           stack # <<>>, \A m \in 1 .. Len(node) : ht[m] \in Nat
    PROVE  LET m == Head(stack).node
               pos == Head(stack).pos
           IN  /\ m \in 1 .. Len(node) /\ ~node[m].isLeaf /\ pos \in 1 .. Len(node[m].key)
               /\ node[m].item[pos] = cur /\ ht[m] = ht[cur] + 1
               /\ Passed(node, ht, Tail(stack), m, root) /\ Len(Tail(stack)) = Len(stack) - 1
<1> DEFINE m == Head(stack).node
           pos == Head(stack).pos
           rest == Tail(stack)
<1>1. stack \in Seq(Turns) /\ cur \in 1 .. Len(node) /\ root = IF Len(stack) = 0 THEN cur ELSE stack[Len(stack)].node
  BY DEF Passed
<1>2. Len(stack) \in Nat /\ Len(stack) >= 1 /\ Head(stack) = stack[1]
  BY <1>1
<1>3. rest \in Seq(Turns) /\ Len(rest) = Len(stack) - 1 /\ \A j \in 1 .. Len(rest) : rest[j] = stack[j + 1]
  BY <1>1, <1>2
<1> HIDE DEF rest
<1>4. /\ m \in 1 .. Len(node) /\ ~node[m].isLeaf /\ pos \in 1 .. Len(node[m].key)
      /\ node[m].item[pos] = cur /\ ht[m] = ht[cur] + 1
  <2>1. 1 \in 1 .. Len(stack)
    BY <1>2
  <2> QED BY <1>2, <2>1 DEF Passed
<1>5. ht[m] \in Nat /\ ht[cur] \in Nat
  BY <1>1, <1>4
<1>6. ASSUME NEW j \in 1 .. Len(rest)
      PROVE  /\ rest[j].node \in 1 .. Len(node)
             /\ ~node[rest[j].node].isLeaf
             /\ rest[j].pos \in 1 .. Len(node[rest[j].node].key)
             /\ node[rest[j].node].item[rest[j].pos] = IF j = 1 THEN m ELSE rest[j - 1].node
             /\ ht[rest[j].node] = ht[m] + j
  <2> DEFINE s == stack[j + 1]
  <2>1. j \in Nat /\ j >= 1 /\ j + 1 \in 1 .. Len(stack) /\ j + 1 # 1 /\ j + 1 - 1 = j
    BY <1>2, <1>3
  <2>2. /\ s.node \in 1 .. Len(node) /\ ~node[s.node].isLeaf /\ s.pos \in 1 .. Len(node[s.node].key)
        /\ node[s.node].item[s.pos] = stack[j].node
        /\ ht[s.node] = ht[cur] + (j + 1)
    BY <2>1 DEF Passed
  <2>3. stack[j].node = IF j = 1 THEN m ELSE rest[j - 1].node
    <3>1. CASE j = 1
      BY <1>2, <3>1
    <3>2. CASE j # 1
      <4>1. j - 1 \in 1 .. Len(rest) /\ j - 1 + 1 = j
        BY <1>3, <2>1, <3>2
      <4> QED BY <1>3, <3>2, <4>1
    <3> QED BY <3>1, <3>2
  <2>4. rest[j] = s
    BY <1>3
  <2>5. ht[cur] + (j + 1) = ht[m] + j
    <3>1. \A a \in Nat : a + (j + 1) = (a + 1) + j
      BY <2>1
    <3> HIDE DEF m
    <3> QED BY <1>4, <1>5, <3>1
  <2> HIDE DEF s, m
  <2> QED BY <2>2, <2>3, <2>4, <2>5
<1>7. root = IF Len(rest) = 0 THEN m ELSE rest[Len(rest)].node
  <2>1. CASE Len(rest) = 0
    <3>1. Len(stack) = 1
      BY <1>2, <1>3, <2>1
    <3> QED BY <1>1, <1>2, <2>1, <3>1
  <2>2. CASE Len(rest) # 0
    <3>1. Len(rest) \in 1 .. Len(rest) /\ Len(rest) + 1 = Len(stack) /\ Len(stack) # 0
      BY <1>2, <1>3, <2>2
    <3> QED BY <1>1, <1>3, <2>2, <3>1
  <2> QED BY <2>1, <2>2
<1>8. Passed(node, ht, rest, m, root)
  <2> HIDE DEF m
  <2> QED BY <1>3, <1>4, <1>6, <1>7 DEF Passed
<1> QED BY <1>3, <1>4, <1>8 DEF rest

\* One node further down.
LEMMA PassedPush ==
    ASSUME NEW node, NEW ht, NEW stack, NEW cur, NEW root, Passed(node, ht, stack, cur, root),
           \A m \in 1 .. Len(node) : ht[m] \in Nat,
           ~node[cur].isLeaf, NEW pos \in 1 .. Len(node[cur].key), Len(node[cur].key) \in Nat,
           NEW c \in 1 .. Len(node), node[cur].item[pos] = c, ht[cur] = ht[c] + 1, Len(node) \in Nat
    PROVE  Passed(node, ht, <<[node |-> cur, pos |-> pos]>> \o stack, c, root)
<1> DEFINE top == [node |-> cur, pos |-> pos]
           new == <<top>> \o stack
<1>1. stack \in Seq(Turns) /\ cur \in 1 .. Len(node) /\ root = IF Len(stack) = 0 THEN cur ELSE stack[Len(stack)].node
  BY DEF Passed
<1>2. top \in Turns /\ top.node = cur /\ top.pos = pos
  BY <1>1 DEF Turns
<1> HIDE DEF top
<1>3. /\ Len(stack) \in Nat /\ new \in Seq(Turns) /\ Len(new) = Len(stack) + 1
      /\ \A j \in 1 .. Len(stack) + 1 : new[j] = IF j = 1 THEN top ELSE stack[j - 1]
  BY <1>1, <1>2, PrependAt
<1> HIDE DEF new
<1>4. ASSUME NEW j \in 1 .. Len(new)
      PROVE  /\ new[j].node \in 1 .. Len(node)
             /\ ~node[new[j].node].isLeaf
             /\ new[j].pos \in 1 .. Len(node[new[j].node].key)
             /\ node[new[j].node].item[new[j].pos] = IF j = 1 THEN c ELSE new[j - 1].node
             /\ ht[new[j].node] = ht[c] + j
  <2>1. CASE j = 1
    <3>1. new[j] = top
      BY <1>3, <2>1
    <3> QED BY <1>1, <1>2, <2>1, <3>1
  <2>2. CASE j # 1
    <3> DEFINE s == stack[j - 1]
    <3>1. j \in Nat /\ j - 1 \in 1 .. Len(stack) /\ j \in 1 .. Len(stack) + 1 /\ j - 1 \in 1 .. Len(stack) + 1
      BY <1>3, <2>2
    <3>2. new[j] = s
      BY <1>3, <2>2, <3>1
    <3>3. /\ s.node \in 1 .. Len(node) /\ ~node[s.node].isLeaf /\ s.pos \in 1 .. Len(node[s.node].key)
          /\ node[s.node].item[s.pos] = IF j - 1 = 1 THEN cur ELSE stack[j - 1 - 1].node
          /\ ht[s.node] = ht[cur] + (j - 1)
      BY <3>1 DEF Passed
    <3>4. new[j - 1].node = IF j - 1 = 1 THEN cur ELSE stack[j - 1 - 1].node
      BY <1>2, <1>3, <3>1
    <3>5. ht[cur] + (j - 1) = ht[c] + j
      <4>1. ht[c] \in Nat
        OBVIOUS
      <4>2. \A a \in Nat : (a + 1) + (j - 1) = a + j
        BY <3>1
      <4> QED BY <4>1, <4>2
    <3> HIDE DEF s
    <3> QED BY <2>2, <3>2, <3>3, <3>4, <3>5
  <2> QED BY <2>1, <2>2
<1>5. root = IF Len(new) = 0 THEN c ELSE new[Len(new)].node
  <2>1. Len(new) # 0 /\ Len(new) \in 1 .. Len(stack) + 1 /\ Len(new) - 1 = Len(stack)
    BY <1>3
  <2>2. CASE Len(stack) = 0
    BY <1>1, <1>2, <1>3, <2>1, <2>2
  <2>3. CASE Len(stack) # 0
    <3>1. Len(new) # 1
      BY <1>3, <2>3
    <3>2. new[Len(new)] = stack[Len(stack)]
      BY <1>3, <2>1, <3>1
    <3> QED BY <1>1, <2>1, <2>3, <3>2
  <2> QED BY <2>2, <2>3
<1>6. Passed(node, ht, new, c, root)
  BY <1>3, <1>4, <1>5 DEF Passed
<1> QED BY <1>6 DEF new, top

\* A node of a B-tree, and what its children have to do with it.
LEMMA NodeOf ==
    ASSUME NEW t, NEW ht, BTreeOK(t, ht), NEW n \in 1 .. Len(t.node)
    PROVE  /\ t.node \in Seq(BNode) /\ Len(t.node) \in Nat
           /\ \A m \in 1 .. Len(t.node) : ht[m] \in Nat /\ ht[m] < Len(t.node)
           /\ BNodeOK(t.node[n]) /\ BShape(t.node[n]) /\ t.node[n] \in BNode
           /\ Len(t.node[n].key) \in 1 .. MaxPerNode /\ Len(t.node[n].key) \in Nat
           /\ Len(t.node[n].item) = Len(t.node[n].key)
           /\ t.node[n].key \in Seq(Nat) /\ t.node[n].item \in Seq(BItem) /\ t.node[n].isLeaf \in BOOLEAN
           /\ ~t.node[n].isLeaf => \A i \in 1 .. Len(t.node[n].key) :
                /\ t.node[n].item[i] \in Kids(t.node[n]) /\ t.node[n].item[i] \in 1 .. Len(t.node)
                /\ t.node[n].item[i] # t.root /\ ht[n] = ht[t.node[n].item[i]] + 1
<1>1. /\ t.node \in Seq(BNode) /\ ht \in [1 .. Len(t.node) -> 0 .. Len(t.node) - 1] /\ BNodeOK(t.node[n])
      /\ \A c \in Kids(t.node[n]) : c \in 1 .. Len(t.node) /\ c \notin {t.root} /\ ht[n] = ht[c] + 1
  BY DEF BTreeOK, Wood
<1>2. Len(t.node) \in Nat /\ \A m \in 1 .. Len(t.node) : ht[m] \in Nat /\ ht[m] < Len(t.node)
  BY <1>1
<1>3. /\ BShape(t.node[n]) /\ t.node[n] \in BNode
      /\ Len(t.node[n].key) \in 1 .. MaxPerNode /\ Len(t.node[n].key) \in Nat
      /\ Len(t.node[n].item) = Len(t.node[n].key)
      /\ t.node[n].key \in Seq(Nat) /\ t.node[n].item \in Seq(BItem) /\ t.node[n].isLeaf \in BOOLEAN
  BY <1>1 DEF BNodeOK, BShape, BNode
<1>4. ~t.node[n].isLeaf => \A i \in 1 .. Len(t.node[n].key) : t.node[n].item[i] \in Kids(t.node[n])
  BY DEF Kids
<1> QED BY <1>1, <1>2, <1>3, <1>4

\* What a step of the descent needs to know of the node it stands at.
NodeFacts(t, ht, n) ==
    /\ t.node \in Seq(BNode) /\ Len(t.node) \in Nat
    /\ \A m \in 1 .. Len(t.node) : ht[m] \in Nat /\ ht[m] < Len(t.node)
    /\ BNodeOK(t.node[n]) /\ BShape(t.node[n]) /\ t.node[n] \in BNode
    /\ Len(t.node[n].key) \in 1 .. MaxPerNode /\ Len(t.node[n].key) \in Nat
    /\ t.node[n].key \in Seq(Nat)
    /\ ~t.node[n].isLeaf => \A i \in 1 .. Len(t.node[n].key) :
          /\ t.node[n].item[i] \in 1 .. Len(t.node)
          /\ t.node[n].item[i] # t.root /\ ht[n] = ht[t.node[n].item[i]] + 1

LEMMA NodeFactsHold ==
    ASSUME NEW t, NEW ht, BTreeOK(t, ht), NEW n \in 1 .. Len(t.node)
    PROVE  NodeFacts(t, ht, n)
BY NodeOf DEF NodeFacts

\* addItem is at a node of the tree after i turns; keys may have become greater on
\* the way, and the next turns suffice to reach a leaf.
Walked(t, ht, i, at) ==
    /\ at \in [tree : BTreeType, cur : Nat, stack : Seq(Turns)]
    /\ BTreeOK(at.tree, ht) /\ SameEntries(t.node, at.tree.node)
    /\ at.tree.root = t.root /\ Len(at.tree.node) = Len(t.node)
    /\ Passed(at.tree.node, ht, at.stack, at.cur, t.root)
    /\ at.tree.node[at.cur].isLeaf \/ ht[at.cur] + i < Len(t.node)

LEMMA StepOK ==
    ASSUME NEW t, NEW ht, NEW i \in 1 .. Len(t.node), NEW at, Walked(t, ht, i - 1, at),
           ~at.tree.node[at.cur].isLeaf, NEW key \in Nat
    PROVE  Walked(t, ht, i, Step(at, key))
<1> DEFINE tree == at.tree
           cur == at.cur
           node == tree.node[cur]
           found == FindPosition(node.key, key)
           pos == IF found = 0 THEN Len(node.key) ELSE found
           c == node.item[pos]
           stack == <<[node |-> cur, pos |-> pos]>> \o at.stack
           keys == IF found = 0 THEN [node.key EXCEPT ![pos] = key] ELSE node.key
           x == [node EXCEPT !.key = keys]
           nodes == [tree.node EXCEPT ![cur] = x]
           new == [tree EXCEPT !.node = nodes]
           tree2 == IF found = 0 THEN [tree EXCEPT !.node[cur].key[pos] = key] ELSE tree
<1>1. /\ tree \in BTreeType /\ cur \in Nat /\ at.stack \in Seq(Turns) /\ BTreeOK(tree, ht)
      /\ SameEntries(t.node, tree.node) /\ tree.root = t.root /\ Len(tree.node) = Len(t.node)
      /\ Passed(tree.node, ht, at.stack, cur, t.root)
      /\ ht[cur] + (i - 1) < Len(t.node) /\ ~node.isLeaf
  BY DEF Walked
<1>2. cur \in 1 .. Len(tree.node)
  BY <1>1 DEF Passed
<1> HIDE DEF tree, cur
<1>3. /\ tree.node \in Seq(BNode) /\ Len(tree.node) \in Nat
      /\ \A m \in 1 .. Len(tree.node) : ht[m] \in Nat /\ ht[m] < Len(tree.node)
      /\ BNodeOK(node) /\ BShape(node) /\ node \in BNode
      /\ Len(node.key) \in 1 .. MaxPerNode /\ Len(node.key) \in Nat /\ node.key \in Seq(Nat)
      /\ \A j \in 1 .. Len(node.key) : /\ node.item[j] \in 1 .. Len(tree.node)
                                       /\ node.item[j] # tree.root /\ ht[cur] = ht[node.item[j]] + 1
  <2>1. BTreeOK(tree, ht)
    BY <1>1
  <2>2. NodeFacts(tree, ht, cur)
    BY <1>2, <2>1, NodeFactsHold
  <2> QED BY <1>1, <2>2 DEF NodeFacts
<1>4. pos \in 1 .. Len(node.key)
  <2>1. found \in 0 .. Len(node.key)
    <3>1. node.key \in Seq(Nat) /\ Len(node.key) >= 1
      BY <1>3
    <3> QED BY <3>1, FindPositionIn
  <2> HIDE DEF found, node
  <2> QED BY <1>3, <2>1
<1> HIDE DEF pos, found
<1>5. c \in 1 .. Len(tree.node) /\ ht[cur] = ht[c] + 1
  BY <1>3, <1>4
<1>6. keys \in Seq(Nat) /\ Len(keys) = Len(node.key)
  BY <1>3, <1>4
<1> HIDE DEF keys
<1>7. /\ x \in BNode /\ x.isLeaf = node.isLeaf /\ x.item = node.item /\ Len(x.key) = Len(node.key)
  BY <1>3, <1>6 DEF BNode
<1> HIDE DEF x
<1>8. BShape(x) /\ BNodeOK(x) /\ Kids(x) = Kids(node)
  BY <1>3, <1>7 DEF BShape, BNodeOK, Kids
<1>9. /\ nodes \in Seq(BNode) /\ Len(nodes) = Len(tree.node) /\ nodes[cur] = x
      /\ \A m \in 1 .. Len(tree.node) : m # cur => nodes[m] = tree.node[m]
  BY <1>2, <1>3, <1>7
<1>10. Wood(nodes, ht, {tree.root})
  <2>1. Wood(tree.node, ht, {tree.root})
    BY <1>1 DEF BTreeOK
  <2>2. \A k \in Kids(x) : ht[cur] = ht[k] + 1 /\ k # tree.root
    BY <1>2, <1>8, <2>1 DEF Wood
  <2>3. {tree.root} = ({tree.root} \cup Kids(node)) \ Kids(x)
    BY <1>8, <2>2
  <2> QED BY <1>2, <1>8, <2>1, <2>2, <2>3, PutNode
<1>11. SameEntries(tree.node, nodes)
  BY <1>1, <1>2, <1>3, <1>7, PutEntries
<1> HIDE DEF nodes
<1>12. /\ new \in BTreeType /\ new.node = nodes /\ new.root = tree.root /\ BTreeOK(new, ht)
  <2>1. new \in BTreeType /\ new.node = nodes /\ new.root = tree.root /\ new.nodeCount = tree.nodeCount
    BY <1>1, <1>9 DEF BTreeType
  <2> HIDE DEF new
  <2> QED BY <1>1, <1>9, <1>10, <2>1 DEF BTreeOK
<1>13. tree2 = new
  <2>1. CASE found = 0
    BY <1>1, <2>1 DEF new, nodes, x, keys
  <2>2. CASE found # 0
    <3>1. x = node
      BY <1>3, <2>2 DEF x, keys, BNode
    <3>2. nodes = tree.node
      <4>1. \A s \in Seq(BNode) : \A j \in 1 .. Len(s) : [s EXCEPT ![j] = s[j]] = s
        OBVIOUS
      <4>2. nodes = [tree.node EXCEPT ![cur] = tree.node[cur]]
        BY <3>1 DEF nodes
      <4> QED BY <1>2, <1>3, <4>1, <4>2
    <3> QED BY <1>1, <2>2, <3>2 DEF new, BTreeType
  <2> QED BY <2>1, <2>2
<1>14. Step(at, key) = [tree |-> tree2, cur |-> c, stack |-> stack]
  BY DEF Step, tree, cur, found, pos
<1>15. Passed(nodes, ht, stack, c, t.root)
  <2>1. Passed(nodes, ht, at.stack, cur, t.root)
    <3>1. \A m \in 1 .. Len(tree.node) : ht[m] > ht[cur] =>
            nodes[m].isLeaf = tree.node[m].isLeaf /\ nodes[m].item = tree.node[m].item
              /\ Len(nodes[m].key) = Len(tree.node[m].key)
      BY <1>7, <1>9
    <3>2. Len(nodes) \in Nat /\ Len(nodes) >= Len(tree.node)
      BY <1>3, <1>9
    <3> QED BY <1>1, <1>3, <3>1, <3>2, PassedKept
  <2>2. nodes[cur] = x /\ ~x.isLeaf /\ Len(x.key) \in Nat /\ pos \in 1 .. Len(x.key) /\ x.item[pos] = c
    BY <1>1, <1>3, <1>4, <1>7, <1>9
  <2> HIDE DEF c
  <2> QED BY <1>3, <1>5, <1>9, <2>1, <2>2, PassedPush
<1>16. stack \in Seq(Turns) /\ c \in Nat
  <2>1. c \in Nat
    BY <1>3, <1>5
  <2> HIDE DEF stack, c
  <2> QED BY <1>15, <2>1 DEF Passed
<1>17. SameEntries(t.node, nodes)
  BY <1>1, <1>11 DEF SameEntries
<1>18. ht[c] + i < Len(t.node)
  <2> HIDE DEF c, node
  <2>1. ht[c] \in Nat /\ i \in Nat
    <3>1. \A m \in 1 .. Len(tree.node) : ht[m] \in Nat
      BY <1>3
    <3> QED BY <1>5, <3>1
  <2>2. \A a, b \in Nat : a = b + 1 => a + (i - 1) = b + i
    BY <2>1
  <2>3. ht[cur] + (i - 1) = ht[c] + i
    BY <1>2, <1>3, <1>5, <2>1, <2>2
  <2> QED BY <1>1, <2>3
<1> HIDE DEF c, stack, new, tree2
<1> DEFINE st == [tree |-> new, cur |-> c, stack |-> stack]
<1>19. st.tree = new /\ st.cur = c /\ st.stack = stack /\ st \in [tree : BTreeType, cur : Nat, stack : Seq(Turns)]
  BY <1>12, <1>16
<1>20. Step(at, key) = st
  BY <1>13, <1>14
<1> HIDE DEF st
<1>21. Walked(t, ht, i, st)
  BY <1>1, <1>9, <1>12, <1>15, <1>17, <1>18, <1>19 DEF Walked
<1> QED BY <1>20, <1>21

\* The loop of addItem ends at a leaf.
LEMMA WalkOK ==
    ASSUME NEW t, NEW ht, BTreeOK(t, ht), NEW key \in Nat
    PROVE  LET w == Walk(t, key)[Len(t.node)]
           IN  Walked(t, ht, Len(t.node), w) /\ w.cur \in 1 .. Len(t.node) /\ w.tree.node[w.cur].isLeaf

<1> DEFINE N == Len(t.node)
           U == [tree : BTreeType, cur : Nat, stack : Seq(Turns)]
           start == [tree |-> t, cur |-> t.root, stack |-> <<>>]
           Turn(i, x) == IF x.tree.node[x.cur].isLeaf THEN x ELSE Step(x, key)
           Good(i, x) ==
             Walked(t, ht, i, x)
           Solves(f) == f = [i \in 0 .. N |-> IF i = 0 THEN start ELSE Turn(i, f[i - 1])]
           at == CHOOSE f : Solves(f)
<1>0. t \in BTreeType /\ t.root \in 1 .. Len(t.node) /\ Len(t.node) \in Nat /\ t.root \in Nat
  BY DEF BTreeOK, BTreeType
<1>1. N \in Nat /\ start \in U /\ Good(0, start)
  <2> DEFINE s == [tree |-> t, cur |-> t.root, stack |-> <<>>]
  <2>1. s \in [tree : BTreeType, cur : Nat, stack : Seq(Turns)] /\ s.tree = t /\ s.cur = t.root /\ s.stack = <<>>
    BY <1>0
  <2>2. Passed(t.node, ht, <<>>, t.root, t.root)
    <3>1. Len(<<>>) = 0 /\ <<>> \in Seq(Turns)
      OBVIOUS
    <3> QED BY <1>0, <3>1 DEF Passed
  <2>3. ht[t.root] + 0 < Len(t.node)
    BY <1>0, NodeOf
  <2>4. SameEntries(t.node, t.node)
    BY DEF SameEntries
  <2> HIDE DEF s
  <2>5. Walked(t, ht, 0, s)
    BY <1>0, <2>1, <2>2, <2>3, <2>4 DEF Walked
  <2> QED BY <1>0, <2>1, <2>5 DEF s
<1>2. ASSUME NEW i \in 1 .. N, NEW x \in U, Good(i - 1, x)
      PROVE  Turn(i, x) \in U /\ Good(i, Turn(i, x))
  <2> HIDE DEF U
  <2>1. Walked(t, ht, i - 1, x) /\ x \in U /\ N = Len(t.node)
    BY <1>2 DEF Good, N
  <2>2. CASE x.tree.node[x.cur].isLeaf
    <3>1. Walked(t, ht, i, x)
      BY <2>1, <2>2 DEF Walked
    <3> QED BY <2>1, <2>2, <3>1 DEF Turn, Good
  <2>3. CASE ~x.tree.node[x.cur].isLeaf
    <3>1. Walked(t, ht, i, Step(x, key))
      BY <2>1, <2>3, StepOK
    <3>2. Step(x, key) \in U
      BY <3>1 DEF Walked, U
    <3> QED BY <2>3, <3>1, <3>2 DEF Turn, Good
  <2> QED BY <2>2, <2>3
<1> HIDE DEF N, U, start, Good, Turn
<1>3. \E f : Solves(f)
  <2> DEFINE good == [i \in 0 .. N |-> {x \in U : Good(i, x)}]
             step == [i \in 1 .. N |-> [x \in good[i - 1] |-> Turn(i, x)]]
  <2>1. good \in [0 .. N -> SUBSET U] /\ start \in good[0]
    BY <1>1
  <2>2. ASSUME NEW i \in 1 .. N, NEW x \in good[i - 1]
        PROVE  step[i][x] = Turn(i, x) /\ Turn(i, x) \in good[i]
    <3>1. i \in 0 .. N /\ i - 1 \in 0 .. N
      BY <1>1
    <3>2. x \in U /\ Good(i - 1, x)
      BY <3>1
    <3>3. Turn(i, x) \in U /\ Good(i, Turn(i, x))
      BY <1>2, <3>2
    <3> QED BY <3>1, <3>3
  <2> HIDE DEF good, step
  <2>3. PICK f : Runs(f, N, U, good, start, step)
    <3>1. Loop(N, U, good, start, step)
      BY <1>1, <2>1, <2>2 DEF Loop
    <3> QED BY <3>1, LoopSolved
  <2>4. ASSUME NEW i \in 0 .. N
        PROVE  f[i] = IF i = 0 THEN start ELSE Turn(i, f[i - 1])
    <3>1. CASE i = 0
      BY <2>3, <3>1 DEF Runs
    <3>2. CASE i # 0
      <4>1. i \in 1 .. N
        BY <1>1, <3>2
      <4> QED BY <2>2, <2>3, <3>2, <4>1 DEF Runs
    <3> QED BY <3>1, <3>2
  <2>5. f = [i \in 0 .. N |-> f[i]]
    BY <2>3 DEF Runs
  <2>6. Solves(f)
    BY <2>4, <2>5
  <2> QED BY <2>6
<1>4. Solves(at)
  BY <1>3
<1> HIDE DEF at
<1>5. at[0] = start /\ \A i \in 1 .. N : at[i] = Turn(i, at[i - 1])
  BY <1>1, <1>4
<1>6. \A i \in 0 .. N : at[i] \in U /\ Good(i, at[i])
  <2> DEFINE good == [i \in 0 .. N |-> {x \in U : Good(i, x)}]
  <2>1. at[0] \in good[0]
    BY <1>1, <1>5
  <2>2. ASSUME NEW i \in 1 .. N, at[i - 1] \in good[i - 1] PROVE at[i] \in good[i]
    <3>1. i \in 0 .. N /\ i - 1 \in 0 .. N
      BY <1>1
    <3>2. at[i - 1] \in U /\ Good(i - 1, at[i - 1])
      BY <2>2, <3>1
    <3>3. at[i] \in U /\ Good(i, at[i])
      BY <1>2, <1>5, <3>2
    <3> QED BY <3>1, <3>3
  <2>3. \A i \in 0 .. N : at[i] \in good[i]
    <3> HIDE DEF good
    <3> QED BY <1>1, <2>1, <2>2, LoopKeeps
  <2> QED BY <2>3

<1>7. Walk(t, key) = at
  BY DEF Walk, at, Turn, N, start
<1>8. Walked(t, ht, N, at[N])
  <2>1. N \in 0 .. N
    BY <1>1
  <2> QED BY <1>6, <2>1 DEF Good
<1>9. at[N].cur \in 1 .. Len(t.node) /\ at[N].tree.node[at[N].cur].isLeaf
  <2> DEFINE w == at[N]
  <2> HIDE DEF w
  <2>1. Walked(t, ht, N, w)
    BY <1>8 DEF w
  <2>2. w.cur \in 1 .. Len(t.node)
    BY <2>1 DEF Walked, Passed
  <2>3. ht[w.cur] \in Nat /\ Len(t.node) \in Nat
    <3>1. t.root \in 1 .. Len(t.node)
      BY DEF BTreeOK
    <3> QED BY <2>2, <3>1, NodeOf
  <2>4. ~(ht[w.cur] + N < Len(t.node))
    BY <2>3 DEF N
  <2>5. w.tree.node[w.cur].isLeaf
    BY <2>1, <2>4 DEF Walked
  <2> QED BY <2>2, <2>5 DEF w
<1> QED BY <1>7, <1>8, <1>9 DEF N

-----------------------------------------------------------------------------
(* Splitting nodes *)

\* Node n was split and its upper half, node upper, has no parent yet.
HalfDone(t, ht, n, upper) ==
    /\ t \in BTreeType /\ t.nodeCount = Len(t.node) /\ t.root \in 1 .. Len(t.node)
    /\ Wood(t.node, ht, {t.root, upper})
    /\ n \in 1 .. Len(t.node) /\ upper \in 1 .. Len(t.node) /\ upper # t.root /\ ht[n] = ht[upper]

\* x and y share out what node n and a root had; y is a node of its own.
SplitDone(t, ht, n, x, y) ==
    LET new == AddNode([t EXCEPT !.node[n] = x], y)
        up == Higher(ht, ht[n])
    IN  /\ HalfDone(new, up, n, Len(t.node) + 1) /\ new.root = t.root
        /\ new.node = Append([t.node EXCEPT ![n] = x], y)
        /\ \A stack : Passed(t.node, ht, stack, n, t.root) => Passed(new.node, up, stack, n, t.root)

LEMMA SplitAt ==
    ASSUME NEW t \in BTreeType, t.nodeCount = Len(t.node), t.root \in 1 .. Len(t.node),
           NEW ht, NEW roots, Wood(t.node, ht, roots),
           NEW n \in 1 .. Len(t.node), NEW x, NEW y, BNodeOK(x), BNodeOK(y),
           Kids(x) \cap Kids(y) = {}, Kids(x) \cup Kids(y) \subseteq Kids(t.node[n]) \cup roots,
           \A c \in Kids(x) \cup Kids(y) : ht[n] = ht[c] + 1,
           (roots \cup Kids(t.node[n])) \ (Kids(x) \cup Kids(y)) = {t.root}
    PROVE  SplitDone(t, ht, n, x, y)
<1> DEFINE N == Len(t.node)
           nodes == [t.node EXCEPT ![n] = x]
           more == Append(nodes, y)
           new == [t EXCEPT !.node = more, !.nodeCount = @ + 1]
           up == Higher(ht, ht[n])
           rest == (roots \cup Kids(t.node[n])) \ Kids(x)
<1>1. /\ t.node \in Seq(BNode) /\ N \in Nat /\ ht \in [1 .. N -> 0 .. N - 1] /\ t.nodeCount = N
      /\ t.root \in 1 .. N /\ n \in 1 .. N /\ x \in BNode /\ y \in BNode
  BY DEF Wood, BNodeOK, BShape
<1>2. Wood(nodes, ht, rest)
  BY PutNode
<1>3. nodes \in Seq(BNode) /\ Len(nodes) = N /\ nodes[n] = x /\ \A m \in 1 .. N : m # n => nodes[m] = t.node[m]
  BY <1>1
<1>4. ht[n] \in 0 .. N /\ ht[n] \in Nat
  BY <1>1
<1> HIDE DEF nodes, up
<1>5. /\ Wood(more, up, {t.root, N + 1}) /\ up[N + 1] = ht[n]
      /\ \A m \in 1 .. N : up[m] = ht[m]
  <2>1. Kids(y) \subseteq rest /\ \A c \in Kids(y) : ht[n] = ht[c] + 1
    OBVIOUS
  <2>2. N + 1 \notin Kids(y)
    <3>1. \A c \in Kids(t.node[n]) \cup roots : c \in 1 .. N
      BY <1>1 DEF Wood
    <3>2. N + 1 \notin 1 .. N
      BY <1>1
    <3> QED BY <3>1, <3>2
  <2>3. {t.root, N + 1} = (rest \cup {N + 1}) \ Kids(y)
    <3>1. rest \ Kids(y) = {t.root}
      OBVIOUS
    <3> QED BY <2>2, <3>1
  <2> HIDE DEF rest
  <2>4. /\ BNodeOK(y) /\ ht[n] \in 0 .. Len(nodes)
        /\ {t.root, N + 1} = (rest \cup {Len(nodes) + 1}) \ Kids(y)
    BY <1>3, <1>4, <2>3
  <2> DEFINE Q == {t.root, N + 1}
             h == ht[n]
  <2>6. /\ Wood(nodes, ht, rest) /\ BNodeOK(y) /\ Kids(y) \subseteq rest /\ h \in 0 .. Len(nodes)
        /\ (\A c \in Kids(y) : h = ht[c] + 1) /\ Q = (rest \cup {Len(nodes) + 1}) \ Kids(y)
    BY <1>2, <2>1, <2>4
  <2> HIDE DEF Q, h
  <2>5. AppendedOK(nodes, y, ht, h, Q)
    BY ONLY <2>6, AppendNode
  <2> QED BY <1>3, <2>5 DEF up, Q, h, AppendedOK
<1>6. /\ more \in Seq(BNode) /\ Len(more) = N + 1 /\ more[N + 1] = y
      /\ \A m \in 1 .. N : more[m] = nodes[m]
  BY <1>1, <1>3, AppendProperties
<1> HIDE DEF more
<1>7. /\ new \in BTreeType /\ new.node = more /\ new.nodeCount = N + 1 /\ new.root = t.root
      /\ AddNode([t EXCEPT !.node[n] = x], y) = new
  <2>1. new \in BTreeType /\ new.node = more /\ new.nodeCount = N + 1 /\ new.root = t.root
    <3> DEFINE count == N + 1
               r == [t EXCEPT !.node = more, !.nodeCount = count]
    <3>1. new = r /\ count \in Nat
      BY <1>1 DEF BTreeType
    <3>2. more \in Seq(BNode) /\ t \in BTreeType
      BY <1>6
    <3> HIDE DEF count
    <3>3. r \in BTreeType /\ r.node = more /\ r.nodeCount = count /\ r.root = t.root
      BY ONLY <3>1, <3>2 DEF BTreeType
    <3> HIDE DEF new, r
    <3> QED BY <3>1, <3>3 DEF count
  <2>2. AddNode([t EXCEPT !.node[n] = x], y) = new
    BY DEF AddNode, more, nodes, BTreeType
  <2> QED BY <2>1, <2>2
<1>8. n \in 1 .. N + 1 /\ N + 1 \in 1 .. N + 1 /\ t.root \in 1 .. N + 1 /\ N + 1 # t.root /\ up[n] = up[N + 1]
  BY <1>1, <1>5
<1> HIDE DEF new
<1>9. HalfDone(new, up, n, N + 1)
  BY <1>5, <1>6, <1>7, <1>8 DEF HalfDone
<1>10. ASSUME NEW stack, Passed(t.node, ht, stack, n, t.root)
       PROVE  Passed(more, up, stack, n, t.root)
  <2>1. \A m \in 1 .. N : ht[m] \in Nat /\ up[m] = ht[m]
    BY <1>1, <1>5
  <2>2. \A m \in 1 .. N : ht[m] > ht[n] => more[m] = t.node[m]
    BY <1>1, <1>3, <1>4, <1>6
  <2>3. Len(more) \in Nat /\ Len(more) >= Len(t.node)
    BY <1>1, <1>6
  <2> QED BY <1>1, <1>10, <2>1, <2>2, <2>3, PassedKept
<1> QED BY <1>7, <1>9, <1>10 DEF more, up, nodes, SplitDone

\* An inner node has another child in the place of one.
Replaced(node, pos, c, new) ==
    /\ BShape(new) /\ new.isLeaf = node.isLeaf /\ new.key = node.key
    /\ Kids(new) = (Kids(node) \ {node.item[pos]}) \cup {c}

LEMMA ReplaceChild ==
    ASSUME NEW node, BShape(node), ~node.isLeaf, NEW pos \in 1 .. Len(node.key),
           NEW c \in Nat, c \notin Kids(node)
    PROVE  Replaced(node, pos, c, [node EXCEPT !.item[pos] = c])
<1> DEFINE items == [node.item EXCEPT ![pos] = c]
           new == [node EXCEPT !.item = items]
           n == Len(node.key)
<1>1. /\ node \in BNode /\ node.item \in Seq(BItem) /\ Len(node.item) = n /\ n \in Nat /\ node.key \in Seq(Nat)
      /\ \A i \in 1 .. n : node.item[i] \in Nat /\ node.item[i] # c
      /\ \A i, j \in 1 .. n : node.item[i] = node.item[j] => i = j
  <2>1. \A i \in 1 .. n : node.item[i] \in Kids(node)
    BY DEF Kids
  <2> QED BY <2>1 DEF BShape, BNode
<1>2. pos \in 1 .. n
  OBVIOUS
<1> HIDE DEF n
<1>3. /\ items \in Seq(BItem) /\ Len(items) = n /\ items[pos] = c
      /\ \A i \in 1 .. n : i # pos => items[i] = node.item[i]
  <2>1. c \in BItem
    BY DEF BItem
  <2> QED BY <1>1, <1>2, <2>1
<1> HIDE DEF items
<1>4. new \in BNode /\ new.isLeaf = node.isLeaf /\ new.key = node.key /\ new.item = items
  BY <1>1, <1>3 DEF BNode
<1> HIDE DEF new
<1>5. \A i \in 1 .. n : items[i] \in Nat
  BY <1>1, <1>3
<1>6. ASSUME NEW i \in 1 .. n, NEW j \in 1 .. n, items[i] = items[j] PROVE i = j
  <2>1. CASE i = pos \/ j = pos
    BY <1>1, <1>3, <1>6, <2>1
  <2>2. CASE i # pos /\ j # pos
    BY <1>1, <1>3, <1>6, <2>2
  <2> QED BY <2>1, <2>2
<1>7. BShape(new)
  BY <1>3, <1>4, <1>5, <1>6 DEF BShape, n
<1>8. Kids(new) = {items[i] : i \in 1 .. n} /\ Kids(node) = {node.item[i] : i \in 1 .. n}
  BY <1>4 DEF Kids, n
<1>9. {items[i] : i \in 1 .. n} = ({node.item[i] : i \in 1 .. n} \ {node.item[pos]}) \cup {c}
  <2>1. ASSUME NEW i \in 1 .. n
        PROVE  items[i] \in ({node.item[j] : j \in 1 .. n} \ {node.item[pos]}) \cup {c}
    <3>1. CASE i = pos
      BY <1>3, <3>1
    <3>2. CASE i # pos
      <4>1. items[i] = node.item[i] /\ node.item[i] # node.item[pos]
        BY <1>1, <1>2, <1>3, <3>2
      <4> QED BY <4>1
    <3> QED BY <3>1, <3>2
  <2>2. ASSUME NEW i \in 1 .. n, node.item[i] # node.item[pos]
        PROVE  node.item[i] \in {items[j] : j \in 1 .. n}
    <3>1. items[i] = node.item[i]
      BY <1>3, <2>2
    <3> QED BY <3>1
  <2>3. c \in {items[j] : j \in 1 .. n}
    BY <1>2, <1>3
  <2> QED BY <2>1, <2>2, <2>3
<1>10. [node EXCEPT !.item[pos] = c] = new
  BY DEF new, items
<1> QED BY <1>4, <1>7, <1>8, <1>9, <1>10 DEF Replaced

\* A node with two children more than none: the new root of splitNode.
LEMMA NewRootOK ==
    ASSUME NEW a \in Nat, NEW b \in Nat, a # b, NEW k \in Nat, NEW l \in Nat
    PROVE  LET x == Insert(Insert(Node(FALSE, <<>>, <<>>), k, a), l, b)
           IN  BNodeOK(x) /\ ~x.isLeaf /\ Kids(x) = {a, b}
<1> DEFINE x0 == Node(FALSE, <<>>, <<>>)
           x1 == Insert(x0, k, a)
           x2 == Insert(x1, l, b)
<1>1. BShape(x0) /\ x0.isLeaf = FALSE /\ Len(x0.key) = 0 /\ Kids(x0) = {}
  <2>1. x0 \in BNode /\ x0.isLeaf = FALSE /\ x0.key = <<>> /\ x0.item = <<>>
    BY DEF Node, BNode
  <2>2. Len(x0.key) = 0 /\ Len(x0.item) = 0
    BY <2>1
  <2> HIDE DEF x0
  <2> QED BY <2>1, <2>2 DEF BShape, Kids
<1> HIDE DEF x0
<1>2. a \in BItem /\ b \in BItem
  BY DEF BItem
<1>3. OneMore(x0, k, a, x1)
  BY <1>1, <1>2, InsertOK
<1> HIDE DEF x1
<1>4. BShape(x1) /\ x1.isLeaf = FALSE /\ Len(x1.key) = 1 /\ Kids(x1) = {a}
  BY <1>1, <1>3 DEF OneMore
<1>5. OneMore(x1, l, b, x2)
  BY <1>2, <1>4, InsertOK
<1> HIDE DEF x2
<1>6. BShape(x2) /\ x2.isLeaf = FALSE /\ Len(x2.key) = 2 /\ Kids(x2) = {a, b}
  BY <1>4, <1>5 DEF OneMore
<1>7. 2 <= MaxPerNode /\ MaxPerNode \in Nat
  BY MaxPerNodeAssumption, MidIndexIs
<1>8. BNodeOK(x2)
  BY <1>6, <1>7 DEF BNodeOK
<1> QED BY <1>6, <1>8 DEF x2, x1, x0

LEMMA GrowRootOK ==
    ASSUME NEW t, NEW ht, NEW upper, HalfDone(t, ht, t.root, upper)
    PROVE  LET new == GrowRoot(t, t.root, upper)
           IN  (\E up : BTreeOK(new, up)) /\ SameEntries(t.node, new.node)
<1> DEFINE N == Len(t.node)
           x == NewRoot(t, t.root, upper)
           nodes == Append(t.node, x)
           n1 == N + 1
           d1 == t.treeDepth + 1
           new == [t EXCEPT !.node = nodes, !.nodeCount = n1, !.root = n1, !.treeDepth = d1]
           h == ht[t.root] + 1
           up == Higher(ht, h)
<1>1. /\ t \in BTreeType /\ t.nodeCount = N /\ t.root \in 1 .. N /\ upper \in 1 .. N /\ upper # t.root
      /\ ht[t.root] = ht[upper] /\ Wood(t.node, ht, {t.root, upper})
      /\ t.node \in Seq(BNode) /\ N \in Nat /\ ht \in [1 .. N -> 0 .. N - 1]
      /\ \A m \in 1 .. N : BNodeOK(t.node[m])
  BY DEF HalfDone, Wood
<1>2. BNodeOK(x) /\ ~x.isLeaf /\ Kids(x) = {t.root, upper}
  <2>1. ASSUME NEW m \in 1 .. N PROVE LastKey(t.node[m]) \in Nat
    <3>1. t.node[m].key \in Seq(Nat) /\ Len(t.node[m].key) >= 1
      BY <1>1 DEF BNodeOK, BShape, BNode
    <3> QED BY <3>1 DEF LastKey
  <2>2. t.root \in Nat /\ upper \in Nat
    BY <1>1
  <2> QED BY <1>1, <2>1, <2>2, NewRootOK DEF NewRoot
<1> HIDE DEF x
<1>3. x \in BNode
  BY <1>2 DEF BNodeOK, BShape
<1>4. nodes \in Seq(BNode) /\ Len(nodes) = N + 1
  BY <1>1, <1>3, AppendProperties
<1>5. h \in 0 .. N
  BY <1>1
<1>6. Wood(nodes, up, {N + 1})
  <2>1. N + 1 \notin {t.root, upper}
    BY <1>1
  <2>2. {N + 1} = ({t.root, upper} \cup {N + 1}) \ Kids(x)
    BY <1>2, <2>1
  <2>3. \A c \in Kids(x) : h = ht[c] + 1
    BY <1>1, <1>2
  <2> DEFINE Q == {t.root, upper}
             Q2 == {N + 1}
  <2>4. Wood(t.node, ht, Q) /\ Kids(x) \subseteq Q /\ h \in 0 .. Len(t.node) /\ Q2 = (Q \cup {Len(t.node) + 1}) \ Kids(x)
    BY <1>1, <1>2, <1>5, <2>2
  <2> HIDE DEF h, Q, Q2
  <2>5. AppendedOK(t.node, x, ht, h, Q2)
    BY <1>2, <2>3, <2>4, AppendNode
  <2> QED BY <2>5 DEF Q2, AppendedOK
<1>7. SameEntries(t.node, nodes)
  <2>1. \A k, v : ~HasEntry(x, k, v)
    BY <1>2 DEF HasEntry
  <2> QED BY <1>1, <1>3, <2>1, AppendEntries DEF SameEntries
<1> HIDE DEF nodes, up
<1>8. /\ new \in BTreeType /\ new.node = nodes /\ new.nodeCount = N + 1 /\ new.root = N + 1
  <2>1. n1 \in Nat /\ d1 \in Nat
    BY <1>1 DEF BTreeType
  <2> HIDE DEF d1, n1
  <2>3. new \in BTreeType /\ new.node = nodes /\ new.nodeCount = n1 /\ new.root = n1
    BY <1>1, <1>4, <2>1 DEF BTreeType
  <2> QED BY <2>3 DEF n1
<1>9. GrowRoot(t, t.root, upper) = new
  BY <1>1 DEF GrowRoot, AddNode, nodes, x, BTreeType
<1>10. N + 1 \in 1 .. N + 1
  BY <1>1
<1> HIDE DEF new
<1>11. BTreeOK(new, up)
  BY <1>4, <1>6, <1>8, <1>10 DEF BTreeOK
<1> QED BY <1>7, <1>8, <1>9, <1>11

\* What is in the leaves when a node is split.
OneEntry(leaf, x, y, key, val) ==
    \A k, v : HasEntry(x, k, v) \/ HasEntry(y, k, v) <=> HasEntry(leaf, k, v) \/ (k = key /\ v = val)
EntryIn(nodes, key, val, new) ==
    \A k, v : InLeaf(new, k, v) <=> InLeaf(nodes, k, v) \/ (k = key /\ v = val)

SplitKeeps(node, n, x, y) ==
    LET new == Append([node EXCEPT ![n] = x], y)
    IN  /\ ~x.isLeaf /\ ~y.isLeaf /\ ~node[n].isLeaf => SameEntries(node, new)
        /\ \A key, val : OneEntry(node[n], x, y, key, val) => EntryIn(node, key, val, new)

LEMMA SplitEntries ==
    ASSUME NEW node \in Seq(BNode), NEW n \in 1 .. Len(node), NEW x \in BNode, NEW y \in BNode
    PROVE  SplitKeeps(node, n, x, y)
<1> DEFINE put == [node EXCEPT ![n] = x]
           new == Append(put, y)
<1>1. /\ put \in Seq(BNode)
      /\ \A k, v : InLeaf(node, k, v) <=> HasEntry(node[n], k, v) \/ Elsewhere(node, n, k, v)
      /\ \A k, v : InLeaf(put, k, v) <=> HasEntry(x, k, v) \/ Elsewhere(node, n, k, v)
  BY PutElsewhere
<1> HIDE DEF put
<1>2. \A k, v : InLeaf(new, k, v) <=> InLeaf(put, k, v) \/ HasEntry(y, k, v)
  BY <1>1, AppendEntries
<1> HIDE DEF new
<1>3. ASSUME ~x.isLeaf, ~y.isLeaf, ~node[n].isLeaf PROVE SameEntries(node, new)
  <2>1. \A k, v : ~HasEntry(x, k, v) /\ ~HasEntry(y, k, v) /\ ~HasEntry(node[n], k, v)
    BY <1>3 DEF HasEntry
  <2> QED BY <1>1, <1>2, <2>1 DEF SameEntries
<1>4. ASSUME NEW key, NEW val, OneEntry(node[n], x, y, key, val) PROVE EntryIn(node, key, val, new)
  <2>1. ASSUME NEW k, NEW v PROVE InLeaf(new, k, v) <=> InLeaf(node, k, v) \/ (k = key /\ v = val)
    <3>1. HasEntry(x, k, v) \/ HasEntry(y, k, v) <=> HasEntry(node[n], k, v) \/ (k = key /\ v = val)
      BY <1>4 DEF OneEntry
    <3> QED BY <1>1, <1>2, <3>1
  <2> QED BY <2>1 DEF EntryIn
<1> QED BY <1>3, <1>4 DEF new, put, SplitKeeps

\* The two nodes that a full node and a new item make.
SplitInto(node, x, y) ==
    /\ BNodeOK(x) /\ BNodeOK(y) /\ x.isLeaf = node.isLeaf /\ y.isLeaf = node.isLeaf
    /\ Kids(x) \cap Kids(y) = {}
InnerSplit(node, lower, x, y) == SplitInto(node, x, y) /\ Kids(x) \cup Kids(y) = Kids(node) \cup {lower}
LeafSplit(leaf, key, val, x, y) == SplitInto(leaf, x, y) /\ OneEntry(leaf, x, y, key, val)

LEMMA InnerHalves ==
    ASSUME NEW node, BShape(node), node.isLeaf = FALSE, Len(node.key) = MaxPerNode,
           NEW lower \in Nat, lower \notin Kids(node), NEW mid \in Nat
    PROVE  /\ InnerSplit(node, lower, LowerHalf(node), Insert(UpperHalf(node), mid, lower))
           /\ InnerSplit(node, lower, Insert(LowerHalf(node), mid, lower), UpperHalf(node))
<1> DEFINE a == LowerHalf(node)
           b == UpperHalf(node)
           a1 == Insert(a, mid, lower)
           b1 == Insert(b, mid, lower)
<1>1. SharedOut(node, a, b)
  BY HalvesOK
<1> HIDE DEF a, b
<1>2. /\ BShape(a) /\ BShape(b) /\ a.isLeaf = FALSE /\ b.isLeaf = FALSE
      /\ Len(a.key) = MidIndex /\ Len(b.key) = MidIndex
      /\ Kids(a) \cup Kids(b) = Kids(node) /\ Kids(a) \cap Kids(b) = {}
  BY <1>1 DEF SharedOut
<1>3. lower \in BItem /\ lower \notin Kids(a) /\ lower \notin Kids(b)
  BY <1>2 DEF BItem
<1>4. OneMore(a, mid, lower, a1) /\ OneMore(b, mid, lower, b1)
  BY <1>2, <1>3, InsertOK
<1> HIDE DEF a1, b1
<1>5. /\ BShape(a1) /\ a1.isLeaf = FALSE /\ Len(a1.key) = MidIndex + 1 /\ Kids(a1) = Kids(a) \cup {lower}
      /\ BShape(b1) /\ b1.isLeaf = FALSE /\ Len(b1.key) = MidIndex + 1 /\ Kids(b1) = Kids(b) \cup {lower}
  BY <1>2, <1>4 DEF OneMore
<1>6. MidIndex \in 1 .. MaxPerNode /\ MidIndex + 1 \in 1 .. MaxPerNode
  BY MidIndexIs, MaxPerNodeAssumption
<1>7. BNodeOK(a) /\ BNodeOK(b) /\ BNodeOK(a1) /\ BNodeOK(b1)
  BY <1>2, <1>5, <1>6 DEF BNodeOK
<1>8. SplitInto(node, a, b1) /\ Kids(a) \cup Kids(b1) = Kids(node) \cup {lower}
  BY <1>2, <1>3, <1>5, <1>7 DEF SplitInto
<1>9. SplitInto(node, a1, b) /\ Kids(a1) \cup Kids(b) = Kids(node) \cup {lower}
  BY <1>2, <1>3, <1>5, <1>7 DEF SplitInto
<1> QED BY <1>8, <1>9 DEF a1, b1, a, b, InnerSplit

LEMMA LeafHalves ==
    ASSUME NEW leaf, BShape(leaf), leaf.isLeaf = TRUE, Len(leaf.key) = MaxPerNode,
           NEW key \in Nat, NEW val \in Nat
    PROVE  /\ LeafSplit(leaf, key, val, LowerHalf(leaf), LeafInsert(UpperHalf(leaf), key, val))
           /\ LeafSplit(leaf, key, val, LeafInsert(LowerHalf(leaf), key, val), UpperHalf(leaf))
<1> DEFINE a == LowerHalf(leaf)
           b == UpperHalf(leaf)
           a1 == LeafInsert(a, key, val)
           b1 == LeafInsert(b, key, val)
<1>1. SharedOut(leaf, a, b)
  BY HalvesOK
<1> HIDE DEF a, b
<1>2. /\ BShape(a) /\ BShape(b) /\ a.isLeaf = TRUE /\ b.isLeaf = TRUE
      /\ Len(a.key) = MidIndex /\ Len(b.key) = MidIndex
      /\ \A k, v : HasEntry(leaf, k, v) <=> HasEntry(a, k, v) \/ HasEntry(b, k, v)
  BY <1>1 DEF SharedOut
<1>3. EntryAdded(a, key, val, a1) /\ EntryAdded(b, key, val, b1)
  BY <1>2, LeafInsertOK
<1> HIDE DEF a1, b1
<1>4. MidIndex \in 1 .. MaxPerNode /\ MidIndex + 1 \in 1 .. MaxPerNode
  BY MidIndexIs, MaxPerNodeAssumption
<1>5. /\ BShape(a1) /\ a1.isLeaf = TRUE /\ Len(a1.key) \in 1 .. MaxPerNode
      /\ \A k, v : HasEntry(a1, k, v) <=> HasEntry(a, k, v) \/ (k = key /\ v = val)
  <2>1. a1.isLeaf \in BOOLEAN
    BY <1>3 DEF EntryAdded, BShape, BNode
  <2> QED BY <1>2, <1>3, <1>4, <2>1 DEF EntryAdded
<1>6. /\ BShape(b1) /\ b1.isLeaf = TRUE /\ Len(b1.key) \in 1 .. MaxPerNode
      /\ \A k, v : HasEntry(b1, k, v) <=> HasEntry(b, k, v) \/ (k = key /\ v = val)
  <2>1. b1.isLeaf \in BOOLEAN
    BY <1>3 DEF EntryAdded, BShape, BNode
  <2> QED BY <1>2, <1>3, <1>4, <2>1 DEF EntryAdded
<1>7. BNodeOK(a) /\ BNodeOK(b) /\ BNodeOK(a1) /\ BNodeOK(b1)
  BY <1>2, <1>4, <1>5, <1>6 DEF BNodeOK
<1>8. Kids(a) = {} /\ Kids(b) = {} /\ Kids(a1) = {} /\ Kids(b1) = {}
  BY <1>2, <1>5, <1>6 DEF Kids
<1>9. /\ SplitInto(leaf, a, b1)
      /\ \A k, v : HasEntry(a, k, v) \/ HasEntry(b1, k, v) <=> HasEntry(leaf, k, v) \/ (k = key /\ v = val)
  <2>1. SplitInto(leaf, a, b1)
    BY <1>2, <1>6, <1>7, <1>8 DEF SplitInto
  <2> QED BY <1>2, <1>6, <2>1
<1>10. /\ SplitInto(leaf, a1, b)
       /\ \A k, v : HasEntry(a1, k, v) \/ HasEntry(b, k, v) <=> HasEntry(leaf, k, v) \/ (k = key /\ v = val)
  <2>1. SplitInto(leaf, a1, b)
    BY <1>2, <1>5, <1>7, <1>8 DEF SplitInto
  <2> QED BY <1>2, <1>5, <2>1
<1> QED BY <1>9, <1>10 DEF a1, b1, a, b, LeafSplit, OneEntry

\* splitNode is left turns of its loop or less from its end: done, or with the upper half
\* of the node split last to be put in.
SplitState ==
    [tree : BTreeType, stack : Seq(Turns), midvalue : Nat, lower : Nat, upper : Nat, done : BOOLEAN]

Risen(root, left, old, s) ==
    /\ s \in SplitState /\ s.tree.root = root /\ SameEntries(old, s.tree.node)
    /\ s.done => \E ht : BTreeOK(s.tree, ht)
    /\ ~s.done => \E ht : /\ HalfDone(s.tree, ht, s.lower, s.upper)
                          /\ Passed(s.tree.node, ht, s.stack, s.lower, root) /\ Len(s.stack) = left



LEMMA SplitLeafOK ==
    ASSUME NEW t, NEW ht, BTreeOK(t, ht), NEW n \in 1 .. Len(t.node), t.node[n].isLeaf, Full(t.node[n]),
           NEW stack, Passed(t.node, ht, stack, n, t.root), NEW key \in Nat, NEW val \in Nat
    PROVE  LET s == SplitLeaf(t, n, stack, key, val)
           IN  /\ Risen(t.root, Len(stack), s.tree.node, s) /\ ~s.done /\ s.stack = stack
               /\ EntryIn(t.node, key, val, s.tree.node)
<1> DEFINE leaf == t.node[n]
           N == Len(t.node)
           mid == leaf.key[MidIndex]
           x == IF key > mid THEN LowerHalf(leaf) ELSE LeafInsert(LowerHalf(leaf), key, val)
           y == IF key > mid THEN LeafInsert(UpperHalf(leaf), key, val) ELSE UpperHalf(leaf)
           new == AddNode([t EXCEPT !.node[n] = x], y)
           up == Higher(ht, ht[n])
           s == [tree |-> new, stack |-> stack, midvalue |-> mid, lower |-> n, upper |-> N + 1, done |-> FALSE]
<1>1. /\ t \in BTreeType /\ t.nodeCount = N /\ t.root \in 1 .. N /\ Wood(t.node, ht, {t.root})
      /\ t.node \in Seq(BNode) /\ N \in Nat
      /\ BShape(leaf) /\ Len(leaf.key) \in 1 .. MaxPerNode /\ leaf.key \in Seq(Nat) /\ leaf.isLeaf = TRUE
  BY NodeOf DEF BTreeOK
<1>2. Len(leaf.key) = MaxPerNode
  <2>1. Len(leaf.key) >= MaxPerNode /\ MaxPerNode \in Nat
    BY MaxPerNodeAssumption DEF Full
  <2> HIDE DEF leaf
  <2> QED BY <1>1, <2>1
<1>3. mid \in Nat
  <2>1. MidIndex \in 1 .. Len(leaf.key)
    BY <1>2, MidIndexIs
  <2> HIDE DEF leaf
  <2> QED BY <1>1, <2>1
<1> HIDE DEF mid
<1>4. LeafSplit(leaf, key, val, x, y)
  <2> HIDE DEF leaf
  <2>1. CASE key > mid
    <3>1. x = LowerHalf(leaf) /\ y = LeafInsert(UpperHalf(leaf), key, val)
      BY <2>1
    <3>2. LeafSplit(leaf, key, val, LowerHalf(leaf), LeafInsert(UpperHalf(leaf), key, val))
      BY <1>1, <1>2, LeafHalves
    <3> HIDE DEF x, y
    <3> QED BY <3>1, <3>2
  <2>2. CASE ~(key > mid)
    <3>1. x = LeafInsert(LowerHalf(leaf), key, val) /\ y = UpperHalf(leaf)
      BY <2>2
    <3>2. LeafSplit(leaf, key, val, LeafInsert(LowerHalf(leaf), key, val), UpperHalf(leaf))
      BY <1>1, <1>2, LeafHalves
    <3> HIDE DEF x, y
    <3> QED BY <3>1, <3>2
  <2> QED BY <2>1, <2>2
<1>5. SplitLeaf(t, n, stack, key, val) = s
  BY DEF SplitLeaf, mid
<1> HIDE DEF x, y
<1>6. /\ BNodeOK(x) /\ BNodeOK(y) /\ x \in BNode /\ y \in BNode /\ Kids(x) = {} /\ Kids(y) = {} /\ Kids(leaf) = {}
  BY <1>1, <1>4 DEF LeafSplit, SplitInto, Kids, BNodeOK, BShape
<1>7. /\ HalfDone(new, up, n, N + 1) /\ new.root = t.root
      /\ new.node = Append([t.node EXCEPT ![n] = x], y)
      /\ Passed(new.node, up, stack, n, t.root)
  <2>1. ({t.root} \cup Kids(leaf)) \ (Kids(x) \cup Kids(y)) = {t.root}
    BY <1>6
  <2>2. /\ Kids(x) \cap Kids(y) = {} /\ Kids(x) \cup Kids(y) \subseteq Kids(t.node[n]) \cup {t.root}
        /\ \A c \in Kids(x) \cup Kids(y) : ht[n] = ht[c] + 1
    BY <1>6
  <2>3. SplitDone(t, ht, n, x, y)
    <3> HIDE DEF new, up
    <3> QED BY <1>1, <1>6, <2>1, <2>2, SplitAt
  <2> QED BY <2>3 DEF SplitDone
<1>8. EntryIn(t.node, key, val, new.node)
  <2>1. OneEntry(t.node[n], x, y, key, val)
    BY <1>4 DEF LeafSplit
  <2> HIDE DEF new
  <2>2. SplitKeeps(t.node, n, x, y)
    BY <1>1, <1>6, SplitEntries
  <2> QED BY <1>7, <2>1, <2>2 DEF SplitKeeps
<1> HIDE DEF new, up, leaf
<1>9. s \in SplitState
  <2>1. new \in BTreeType /\ n \in Nat /\ N + 1 \in Nat
    BY <1>1, <1>7 DEF HalfDone
  <2>2. stack \in Seq(Turns)
    BY DEF Passed
  <2> QED BY <1>3, <2>1, <2>2 DEF SplitState
<1>10. /\ s.tree = new /\ s.stack = stack /\ s.lower = n /\ s.upper = N + 1 /\ s.done = FALSE
  OBVIOUS
<1> HIDE DEF s
<1>11. Risen(t.root, Len(stack), s.tree.node, s)
  BY <1>7, <1>9, <1>10 DEF Risen, SameEntries
<1> QED BY <1>5, <1>8, <1>10, <1>11

LEMMA SplitParentOK ==
    ASSUME NEW root, NEW left \in Nat, left >= 1, NEW old, NEW s, Risen(root, left, old, s), ~s.done,
           NEW key \in Nat
    PROVE  Risen(root, left - 1, old, SplitParent(s, key))
<1> DEFINE t == s.tree
           n == Head(s.stack).node
           pos == Head(s.stack).pos
           N == Len(t.node)
           node == t.node[n]
           parent == [node EXCEPT !.item[pos] = s.upper]
           K == Kids(node)
<1>1. /\ s \in SplitState /\ t \in BTreeType /\ t.root = root /\ SameEntries(old, t.node)
      /\ s.stack \in Seq(Turns) /\ s.midvalue \in Nat /\ s.lower \in Nat /\ s.upper \in Nat
  BY DEF Risen, SplitState
<1>2. PICK ht : /\ HalfDone(t, ht, s.lower, s.upper) /\ Passed(t.node, ht, s.stack, s.lower, root)
                /\ Len(s.stack) = left
  BY DEF Risen
<1> HIDE DEF t, n, pos
<1>3. /\ t.nodeCount = N /\ t.root \in 1 .. N /\ Wood(t.node, ht, {t.root, s.upper})
      /\ s.lower \in 1 .. N /\ s.upper \in 1 .. N /\ s.upper # t.root /\ ht[s.lower] = ht[s.upper]
  BY <1>2 DEF HalfDone
<1>4. /\ t.node \in Seq(BNode) /\ N \in Nat /\ ht \in [1 .. N -> 0 .. N - 1]
      /\ \A m \in 1 .. N : BNodeOK(t.node[m])
      /\ \A m \in 1 .. N : \A c \in Kids(t.node[m]) : c \in 1 .. N /\ c \notin {t.root, s.upper} /\ ht[m] = ht[c] + 1
  <2> DEFINE roots == {t.root, s.upper}
  <2> HIDE DEF roots
  <2>1. Wood(t.node, ht, roots)
    BY <1>3 DEF roots
  <2>2. t.node \in Seq(BNode) /\ ht \in [1 .. N -> 0 .. N - 1]
    BY <2>1 DEF Wood
  <2>3. \A m \in 1 .. N : BNodeOK(t.node[m])
    BY <2>1 DEF Wood
  <2>4. \A m \in 1 .. N : \A c \in Kids(t.node[m]) : c \in 1 .. N /\ c \notin roots /\ ht[m] = ht[c] + 1
    BY <2>1 DEF Wood
  <2>5. N \in Nat
    BY <2>2
  <2> QED BY <2>2, <2>3, <2>4, <2>5 DEF roots
<1>5. /\ n \in 1 .. N /\ ~node.isLeaf /\ pos \in 1 .. Len(node.key)
      /\ node.item[pos] = s.lower /\ ht[n] = ht[s.lower] + 1
      /\ Passed(t.node, ht, Tail(s.stack), n, root) /\ Len(Tail(s.stack)) = left - 1
  <2>1. s.stack # <<>>
    BY <1>1, <1>2
  <2>2. \A m \in 1 .. Len(t.node) : ht[m] \in Nat
    BY <1>4
  <2> QED BY <1>2, <2>1, <2>2, PassedTail DEF n, pos
<1> HIDE DEF N, node
<1>6. /\ BNodeOK(node) /\ BShape(node) /\ node.isLeaf = FALSE /\ Len(node.key) \in 1 .. MaxPerNode
      /\ node.key \in Seq(Nat) /\ Len(node.key) \in Nat
  <2>1. BNodeOK(node)
    BY <1>4, <1>5 DEF node
  <2>2. BShape(node) /\ node \in BNode /\ Len(node.key) \in 1 .. MaxPerNode
    BY <2>1 DEF BNodeOK, BShape
  <2> QED BY <1>5, <2>1, <2>2 DEF BNode
<1>7. s.lower \in K /\ \A c \in K : c \in 1 .. N /\ c # t.root /\ c # s.upper /\ ht[n] = ht[c] + 1
  <2>1. s.lower \in K
    BY <1>5 DEF Kids
  <2> QED BY <1>4, <1>5, <2>1 DEF node
<1>8. /\ BShape(parent) /\ parent.isLeaf = FALSE /\ parent.key = node.key
      /\ Kids(parent) = (K \ {s.lower}) \cup {s.upper}
  <2>1. s.upper \in Nat /\ s.upper \notin Kids(node)
    BY <1>1, <1>7
  <2>2. Replaced(node, pos, s.upper, parent)
    BY <1>5, <1>6, <2>1, ReplaceChild
  <2> HIDE DEF parent
  <2> QED BY <1>5, <1>6, <2>2 DEF Replaced
<1>9. s.lower # s.upper /\ s.lower \notin Kids(parent) /\ Kids(parent) \cup {s.lower} = K \cup {s.upper}
  BY <1>7, <1>8
<1> HIDE DEF K, parent
<1>10. \A c \in K \cup {s.upper} : ht[n] = ht[c] + 1
  BY <1>3, <1>5, <1>7
<1>11. CASE ~Full(parent)
  <2> DEFINE x == Insert(parent, s.midvalue, s.lower)
             nodes == [t.node EXCEPT ![n] = x]
             new == [t EXCEPT !.node = nodes]
             r == [s EXCEPT !.tree = new, !.done = TRUE]
  <2>1. OneMore(parent, s.midvalue, s.lower, x)
    <3>1. s.lower \in BItem
      BY <1>1 DEF BItem
    <3> QED BY <1>1, <1>8, <1>9, <3>1, InsertOK
  <2> HIDE DEF x
  <2>2. /\ BShape(x) /\ x.isLeaf = FALSE /\ Len(x.key) = Len(node.key) + 1 /\ Kids(x) = K \cup {s.upper}
    BY <1>8, <1>9, <2>1 DEF OneMore
  <2>3. BNodeOK(x) /\ x \in BNode
    <3>1. Len(node.key) < MaxPerNode /\ MaxPerNode \in Nat
      BY <1>6, <1>8, <1>11, MaxPerNodeAssumption DEF Full
    <3> QED BY <1>6, <2>2, <3>1 DEF BNodeOK, BShape
  <2>4. Wood(nodes, ht, {t.root})
    <3>1. {t.root} = ({t.root, s.upper} \cup K) \ Kids(x)
      BY <1>3, <1>7, <2>2
    <3>2. Kids(x) \subseteq Kids(t.node[n]) \cup {t.root, s.upper}
      BY <2>2 DEF K, node
    <3>3. {t.root} = ({t.root, s.upper} \cup Kids(t.node[n])) \ Kids(x)
      BY <3>1 DEF K, node
    <3>4. n \in 1 .. Len(t.node) /\ \A c \in Kids(x) : ht[n] = ht[c] + 1
      BY <1>5, <1>10, <2>2 DEF N
    <3> QED BY <1>3, <2>3, <3>2, <3>3, <3>4, PutNode
  <2>5. nodes \in Seq(BNode) /\ Len(nodes) = N /\ SameEntries(t.node, nodes)
    <3>1. n \in 1 .. Len(t.node) /\ ~x.isLeaf /\ ~t.node[n].isLeaf
      BY <1>5, <2>2 DEF N, node
    <3>2. SameEntries(t.node, nodes)
      BY <1>4, <2>3, <3>1, PutEntries
    <3> QED BY <1>4, <2>3, <3>1, <3>2 DEF N
  <2> HIDE DEF nodes
  <2>6. new \in BTreeType /\ new.node = nodes /\ new.nodeCount = t.nodeCount /\ new.root = t.root
    BY <1>1, <2>5 DEF BTreeType
  <2>7. SplitParent(s, key) = r
    BY <1>1, <1>11 DEF SplitParent, n, pos, parent, node, t, x, nodes, SplitState, BTreeType
  <2> HIDE DEF new
  <2>8. BTreeOK(new, ht)
    BY <1>3, <2>4, <2>5, <2>6 DEF BTreeOK
  <2>9. r \in SplitState /\ r.tree = new /\ r.done = TRUE
    BY <1>1, <2>6 DEF SplitState
  <2> HIDE DEF r
  <2>10. SameEntries(old, nodes)
    BY <1>1, <2>5 DEF SameEntries
  <2>11. Risen(root, left - 1, old, r)
    BY <1>1, <2>6, <2>8, <2>9, <2>10 DEF Risen
  <2> QED BY <2>7, <2>11
<1>12. CASE Full(parent)
  <2> DEFINE mid == parent.key[MidIndex]
             high == key > mid
             x == IF high THEN LowerHalf(parent) ELSE Insert(LowerHalf(parent), mid, s.lower)
             y == IF high THEN Insert(UpperHalf(parent), mid, s.lower) ELSE UpperHalf(parent)
             new == AddNode([t EXCEPT !.node[n] = x], y)
             up == Higher(ht, ht[n])
             r == [tree |-> new, stack |-> Tail(s.stack), midvalue |-> mid, lower |-> n, upper |-> N + 1,
                   done |-> FALSE]
  <2>1. Len(parent.key) = MaxPerNode /\ parent.key \in Seq(Nat)
    <3>1. Len(parent.key) >= MaxPerNode /\ MaxPerNode \in Nat
      BY <1>12, MaxPerNodeAssumption DEF Full
    <3> QED BY <1>6, <1>8, <3>1
  <2>2. mid \in Nat
    <3>1. MidIndex \in 1 .. Len(parent.key)
      BY <2>1, MidIndexIs
    <3> QED BY <2>1, <3>1
  <2> HIDE DEF mid
  <2>3. InnerSplit(parent, s.lower, x, y)
    <3>1. CASE high
      <4>1. x = LowerHalf(parent) /\ y = Insert(UpperHalf(parent), mid, s.lower)
        BY <3>1
      <4>2. InnerSplit(parent, s.lower, LowerHalf(parent), Insert(UpperHalf(parent), mid, s.lower))
        BY <1>1, <1>8, <1>9, <2>1, <2>2, InnerHalves
      <4> HIDE DEF x, y
      <4> QED BY <4>1, <4>2
    <3>2. CASE ~high
      <4>1. x = Insert(LowerHalf(parent), mid, s.lower) /\ y = UpperHalf(parent)
        BY <3>2
      <4>2. InnerSplit(parent, s.lower, Insert(LowerHalf(parent), mid, s.lower), UpperHalf(parent))
        BY <1>1, <1>8, <1>9, <2>1, <2>2, InnerHalves
      <4> HIDE DEF x, y
      <4> QED BY <4>1, <4>2
    <3> QED BY <3>1, <3>2
  <2>4. SplitParent(s, key) = r
    <3>1. SplitInner([t EXCEPT !.node[n] = parent], n, key, s.lower) = new
      <4> DEFINE tp == [t EXCEPT !.node[n] = parent]
                 L(p) == IF key > p.key[MidIndex] THEN LowerHalf(p)
                         ELSE Insert(LowerHalf(p), p.key[MidIndex], s.lower)
                 U(p) == IF key > p.key[MidIndex] THEN Insert(UpperHalf(p), p.key[MidIndex], s.lower)
                         ELSE UpperHalf(p)
      <4>1. tp.node[n] = parent
        BY <1>1, <1>4, <1>5 DEF BTreeType, N
      <4>2. x = L(parent) /\ y = U(parent)
        BY DEF mid
      <4>3. SplitInner(tp, n, key, s.lower) = AddNode([tp EXCEPT !.node[n] = L(tp.node[n])], U(tp.node[n]))
        BY DEF SplitInner
      <4> HIDE DEF L, U, x, y
      <4>4. [tp EXCEPT !.node[n] = x] = [t EXCEPT !.node[n] = x]
        BY <1>1, <1>4, <1>5 DEF BTreeType, N
      <4>5. SplitInner(tp, n, key, s.lower) = AddNode([tp EXCEPT !.node[n] = x], y)
        <5> HIDE DEF tp
        <5> QED BY <4>1, <4>2, <4>3
      <4> QED BY <4>4, <4>5
    <3> HIDE DEF new
    <3> QED BY <1>12, <3>1 DEF SplitParent, n, pos, parent, node, t, mid, N
  <2> HIDE DEF x, y
  <2>5. /\ BNodeOK(x) /\ BNodeOK(y) /\ x \in BNode /\ y \in BNode /\ Kids(x) \cap Kids(y) = {}
        /\ x.isLeaf = FALSE /\ y.isLeaf = FALSE /\ Kids(x) \cup Kids(y) = K \cup {s.upper}
    BY <1>8, <1>9, <2>3 DEF InnerSplit, SplitInto, BNodeOK, BShape
  <2>6. /\ HalfDone(new, up, n, N + 1) /\ new.root = t.root
        /\ new.node = Append([t.node EXCEPT ![n] = x], y)
        /\ Passed(new.node, up, Tail(s.stack), n, root)
    <3>1. Kids(x) \cup Kids(y) \subseteq Kids(t.node[n]) \cup {t.root, s.upper}
      BY <2>5 DEF K, node
    <3>2. \A c \in Kids(x) \cup Kids(y) : ht[n] = ht[c] + 1
      BY <1>10, <2>5
    <3>3. ({t.root, s.upper} \cup Kids(t.node[n])) \ (Kids(x) \cup Kids(y)) = {t.root}
      BY <1>3, <1>7, <2>5 DEF K, node
    <3>4. n \in 1 .. Len(t.node) /\ t.nodeCount = Len(t.node) /\ t.root \in 1 .. Len(t.node)
      BY <1>3, <1>5 DEF N
    <3>5. SplitDone(t, ht, n, x, y)
      <4> HIDE DEF new, up
      <4> DEFINE R == {t.root, s.upper}
      <4>1. Wood(t.node, ht, R) /\ (R \cup Kids(t.node[n])) \ (Kids(x) \cup Kids(y)) = {t.root}
        BY <1>3, <3>3
      <4>2. Kids(x) \cup Kids(y) \subseteq Kids(t.node[n]) \cup R
        BY <3>1
      <4> HIDE DEF R
      <4> QED BY <1>1, <2>5, <3>2, <3>4, <4>1, <4>2, SplitAt
    <3> QED BY <1>1, <1>5, <3>5 DEF SplitDone, N
  <2>7. SameEntries(t.node, new.node)
    <3>1. n \in 1 .. Len(t.node) /\ ~t.node[n].isLeaf /\ ~x.isLeaf /\ ~y.isLeaf
      BY <1>5, <2>5 DEF N, node
    <3>2. SplitKeeps(t.node, n, x, y)
      BY <1>4, <2>5, <3>1, SplitEntries
    <3> QED BY <2>6, <3>1, <3>2 DEF SplitKeeps
  <2> HIDE DEF new, up
  <2>8. r \in SplitState
    <3>1. new \in BTreeType /\ n \in Nat /\ N + 1 \in Nat
      BY <1>4, <1>5, <2>6 DEF HalfDone
    <3>2. Tail(s.stack) \in Seq(Turns)
      BY <1>5 DEF Passed
    <3> QED BY <2>2, <3>1, <3>2 DEF SplitState
  <2>9. r.tree = new /\ r.stack = Tail(s.stack) /\ r.lower = n /\ r.upper = N + 1 /\ r.done = FALSE
    OBVIOUS
  <2> HIDE DEF r
  <2>10. SameEntries(old, new.node)
    BY <1>1, <2>7 DEF SameEntries
  <2>11. Risen(root, left - 1, old, r)
    BY <1>1, <1>5, <2>6, <2>8, <2>9, <2>10 DEF Risen
  <2> QED BY <2>4, <2>11
<1> QED BY <1>11, <1>12

\* Its loop ends when the root was split, or before.
LEMMA SplitUpOK ==
    ASSUME NEW root, NEW old, NEW first, NEW key \in Nat, Len(first.stack) \in Nat,
           Risen(root, Len(first.stack), old, first)
    PROVE  Risen(root, 0, old, SplitUp(first, key)[Len(first.stack)])
<1> DEFINE N == Len(first.stack)
           U == SplitState
           start == first
           Turn(i, x) == IF x.done THEN x ELSE SplitParent(x, key)
           Good(i, x) ==
             Risen(root, N - i, old, x)
           Solves(f) == f = [i \in 0 .. N |-> IF i = 0 THEN start ELSE Turn(i, f[i - 1])]
           up == CHOOSE f : Solves(f)
<1>0. first \in SplitState
  BY DEF Risen
<1>1. N \in Nat /\ start \in U /\ Good(0, start)
  <2>1. N - 0 = Len(first.stack)
    OBVIOUS
  <2> QED BY <1>0, <2>1
<1>2. ASSUME NEW i \in 1 .. N, NEW x \in U, Good(i - 1, x)
      PROVE  Turn(i, x) \in U /\ Good(i, Turn(i, x))
  <2> HIDE DEF U
  <2>1. Risen(root, N - (i - 1), old, x) /\ x \in U /\ N \in Nat
    BY <1>2 DEF Good, N
  <2>2. N - (i - 1) \in Nat /\ N - (i - 1) >= 1 /\ N - (i - 1) - 1 = N - i
    BY <2>1
  <2> HIDE DEF N
  <2>3. CASE x.done
    <3>1. Risen(root, N - i, old, x)
      BY <2>1, <2>3 DEF Risen
    <3> QED BY <2>1, <2>3, <3>1 DEF Turn, Good
  <2>4. CASE ~x.done
    <3>1. Risen(root, N - i, old, SplitParent(x, key))
      <4> DEFINE left == N - (i - 1)
      <4>1. left \in Nat /\ left >= 1 /\ Risen(root, left, old, x) /\ left - 1 = N - i
        BY <2>1, <2>2
      <4> HIDE DEF left
      <4>2. Risen(root, left - 1, old, SplitParent(x, key))
        BY <2>4, <4>1, SplitParentOK
      <4> QED BY <4>1, <4>2
    <3>2. SplitParent(x, key) \in U
      BY <3>1 DEF Risen, U
    <3> QED BY <2>4, <3>1, <3>2 DEF Turn, Good
  <2> QED BY <2>3, <2>4
<1> HIDE DEF N, U, start, Good, Turn
<1>3. \E f : Solves(f)
  <2> DEFINE good == [i \in 0 .. N |-> {x \in U : Good(i, x)}]
             step == [i \in 1 .. N |-> [x \in good[i - 1] |-> Turn(i, x)]]
  <2>1. good \in [0 .. N -> SUBSET U] /\ start \in good[0]
    BY <1>1
  <2>2. ASSUME NEW i \in 1 .. N, NEW x \in good[i - 1]
        PROVE  step[i][x] = Turn(i, x) /\ Turn(i, x) \in good[i]
    <3>1. i \in 0 .. N /\ i - 1 \in 0 .. N
      BY <1>1
    <3>2. x \in U /\ Good(i - 1, x)
      BY <3>1
    <3>3. Turn(i, x) \in U /\ Good(i, Turn(i, x))
      BY <1>2, <3>2
    <3> QED BY <3>1, <3>3
  <2> HIDE DEF good, step
  <2>3. PICK f : Runs(f, N, U, good, start, step)
    <3>1. Loop(N, U, good, start, step)
      BY <1>1, <2>1, <2>2 DEF Loop
    <3> QED BY <3>1, LoopSolved
  <2>4. ASSUME NEW i \in 0 .. N
        PROVE  f[i] = IF i = 0 THEN start ELSE Turn(i, f[i - 1])
    <3>1. CASE i = 0
      BY <2>3, <3>1 DEF Runs
    <3>2. CASE i # 0
      <4>1. i \in 1 .. N
        BY <1>1, <3>2
      <4> QED BY <2>2, <2>3, <3>2, <4>1 DEF Runs
    <3> QED BY <3>1, <3>2
  <2>5. f = [i \in 0 .. N |-> f[i]]
    BY <2>3 DEF Runs
  <2>6. Solves(f)
    BY <2>4, <2>5
  <2> QED BY <2>6
<1>4. Solves(up)
  BY <1>3
<1> HIDE DEF up
<1>5. up[0] = start /\ \A i \in 1 .. N : up[i] = Turn(i, up[i - 1])
  BY <1>1, <1>4
<1>6. \A i \in 0 .. N : up[i] \in U /\ Good(i, up[i])
  <2> DEFINE good == [i \in 0 .. N |-> {x \in U : Good(i, x)}]
  <2>1. up[0] \in good[0]
    BY <1>1, <1>5
  <2>2. ASSUME NEW i \in 1 .. N, up[i - 1] \in good[i - 1] PROVE up[i] \in good[i]
    <3>1. i \in 0 .. N /\ i - 1 \in 0 .. N
      BY <1>1
    <3>2. up[i - 1] \in U /\ Good(i - 1, up[i - 1])
      BY <2>2, <3>1
    <3>3. up[i] \in U /\ Good(i, up[i])
      BY <1>2, <1>5, <3>2
    <3> QED BY <3>1, <3>3
  <2>3. \A i \in 0 .. N : up[i] \in good[i]
    <3> HIDE DEF good
    <3> QED BY <1>1, <2>1, <2>2, LoopKeeps
  <2> QED BY <2>3

<1>7. SplitUp(first, key) = up
  BY DEF SplitUp, up, Turn, N, start
<1>8. Risen(root, N - N, old, up[N])
  <2>1. N \in 0 .. N
    BY <1>1
  <2> QED BY <1>6, <2>1 DEF Good
<1>9. N - N = 0
  BY <1>1
<1> QED BY <1>7, <1>8, <1>9 DEF N

\* splitNode makes a B-tree again, with one entry more.
LEMMA SplitNodeOK ==
    ASSUME NEW t, NEW ht, BTreeOK(t, ht), NEW n \in 1 .. Len(t.node), t.node[n].isLeaf, Full(t.node[n]),
           NEW stack, Passed(t.node, ht, stack, n, t.root), NEW key \in Nat, NEW val \in Nat
    PROVE  LET new == SplitNode(t, n, stack, key, val)
           IN  (\E up : BTreeOK(new, up)) /\ EntryIn(t.node, key, val, new.node)
<1> DEFINE s == SplitLeaf(t, n, stack, key, val)
           last == SplitUp(s, key)[Len(stack)]
           new == IF last.done THEN last.tree ELSE GrowRoot(last.tree, last.lower, last.upper)
<1>1. /\ Risen(t.root, Len(stack), s.tree.node, s) /\ s.stack = stack
      /\ EntryIn(t.node, key, val, s.tree.node)
  BY SplitLeafOK
<1>2. stack \in Seq(Turns) /\ Len(stack) \in Nat
  BY DEF Passed
<1>3. SplitNode(t, n, stack, key, val) = new
  BY DEF SplitNode
<1> HIDE DEF s
<1>4. Risen(t.root, 0, s.tree.node, last)
  BY <1>1, <1>2, SplitUpOK
<1> HIDE DEF last
<1>5. last \in SplitState /\ last.tree.root = t.root /\ SameEntries(s.tree.node, last.tree.node) /\ last.stack \in Seq(Turns)
  BY <1>4 DEF Risen, SplitState
<1>6. EntryIn(t.node, key, val, last.tree.node)
  BY <1>1, <1>5 DEF EntryIn, SameEntries
<1>7. CASE last.done
  <2>1. \E up : BTreeOK(last.tree, up)
    BY <1>4, <1>7 DEF Risen
  <2> QED BY <1>3, <1>6, <1>7, <2>1
<1>8. CASE ~last.done
  <2>1. PICK up : /\ HalfDone(last.tree, up, last.lower, last.upper)
                  /\ Passed(last.tree.node, up, last.stack, last.lower, t.root) /\ Len(last.stack) = 0
    BY <1>4, <1>8 DEF Risen
  <2>2. last.lower = last.tree.root
    BY <1>5, <2>1 DEF Passed
  <2> DEFINE grown == GrowRoot(last.tree, last.tree.root, last.upper)
  <2>3. (\E h : BTreeOK(grown, h)) /\ SameEntries(last.tree.node, grown.node)
    BY <2>1, <2>2, GrowRootOK
  <2>4. new = grown
    BY <1>8, <2>2
  <2> HIDE DEF grown, new
  <2>5. EntryIn(t.node, key, val, grown.node)
    BY <1>6, <2>3 DEF EntryIn, SameEntries
  <2> QED BY <1>3, <2>3, <2>4, <2>5
<1> QED BY <1>7, <1>8

IsBTree(t) == t = EmptyBTree \/ \E ht : BTreeOK(t, ht)

LEMMA RootIs ==
    ASSUME NEW t, IsBTree(t)
    PROVE  t \in BTreeType /\ t.nodeCount = Len(t.node) /\ (t.root = 0 <=> t = EmptyBTree)
<1>1. EmptyBTree \in BTreeType /\ EmptyBTree.root = 0 /\ EmptyBTree.nodeCount = 0 /\ Len(EmptyBTree.node) = 0
  BY DEF EmptyBTree, BTreeType
<1>2. ASSUME NEW ht, BTreeOK(t, ht)
      PROVE  t \in BTreeType /\ t.nodeCount = Len(t.node) /\ t.root # 0
  BY <1>2 DEF BTreeOK
<1> QED BY <1>1, <1>2 DEF IsBTree

\* addItem keeps a B-tree one, and files the value under the key in one of its leaves;
\* nothing that was filed is lost, and nothing else is there.
LEMMA BTreeAddOK ==
    ASSUME NEW t, IsBTree(t), NEW key \in Nat, NEW val \in Nat
    PROVE  LET new == BTreeAdd(t, key, val)
           IN  IsBTree(new) /\ new.root # 0 /\ EntryIn(t.node, key, val, new.node)
<1>1. CASE t.root = 0
  <2> DEFINE x0 == Node(TRUE, <<>>, <<>>)
             x == LeafInsert(x0, key, val)
             new == [AddNode(t, x) EXCEPT !.root = 1]
             nodes == Append(<<>>, x)
             ht == [m \in {1} |-> 0]
  <2>1. t = EmptyBTree
    BY <1>1, RootIs
  <2>2. BShape(x0) /\ x0.isLeaf = TRUE /\ Len(x0.key) = 0
    <3>1. x0 \in BNode /\ x0.isLeaf = TRUE /\ x0.key = <<>> /\ x0.item = <<>>
      BY DEF Node, BNode
    <3>2. Len(x0.key) = 0 /\ Len(x0.item) = 0
      BY <3>1
    <3> HIDE DEF x0
    <3> QED BY <3>1, <3>2 DEF BShape
  <2> HIDE DEF x0
  <2>3. EntryAdded(x0, key, val, x)
    BY <2>2, LeafInsertOK
  <2> HIDE DEF x
  <2>4. /\ BShape(x) /\ x \in BNode /\ x.isLeaf = TRUE /\ Len(x.key) = 1
        /\ \A k, v : HasEntry(x, k, v) <=> k = key /\ v = val
    <3>1. BShape(x) /\ x.isLeaf = TRUE /\ x \in BNode
      BY <2>3 DEF EntryAdded, BShape, BNode
    <3>2. \A k, v : ~HasEntry(x0, k, v)
      BY <2>2 DEF HasEntry
    <3>3. Len(x.key) >= 1 /\ (Len(x.key) = 0 \/ Len(x.key) = 1)
      BY <2>2, <2>3 DEF EntryAdded
    <3> QED BY <2>3, <3>1, <3>2, <3>3 DEF EntryAdded
  <2>5. BNodeOK(x) /\ Kids(x) = {}
    <3>1. 1 \in 1 .. MaxPerNode
      BY MaxPerNodeAssumption
    <3> QED BY <2>4, <3>1 DEF BNodeOK, Kids
  <2>6. nodes \in Seq(BNode) /\ Len(nodes) = 1 /\ nodes[1] = x
    BY <2>4
  <2>7. new = [node |-> nodes, root |-> 1, nodeCount |-> 1, treeDepth |-> 0]
    <3>1. t.node = <<>> /\ t.nodeCount = 0 /\ t.root = 0 /\ t.treeDepth = 0
      BY <2>1 DEF EmptyBTree
    <3> HIDE DEF nodes
    <3> DEFINE a == AddNode(t, x)
    <3>2. a = [t EXCEPT !.node = nodes, !.nodeCount = 1]
      BY <3>1 DEF AddNode, nodes
    <3>3. a = [node |-> nodes, root |-> 0, nodeCount |-> 1, treeDepth |-> 0]
      BY <2>1, <3>2 DEF EmptyBTree
    <3> HIDE DEF a
    <3>4. new = [a EXCEPT !.root = 1]
      BY DEF a
    <3> HIDE DEF new
    <3> QED BY <3>3, <3>4
  <2> HIDE DEF nodes, new
  <2>8. new \in BTreeType /\ new.node = nodes /\ new.root = 1 /\ new.nodeCount = 1
    BY <2>6, <2>7 DEF BTreeType
  <2>9. 1 .. Len(nodes) = {1}
    BY <2>6
  <2>10. ht \in [{1} -> 0 .. Len(nodes) - 1]
    BY <2>6
  <2>11. Wood(nodes, ht, {1})
    <3> HIDE DEF ht
    <3> QED BY <2>5, <2>6, <2>9, <2>10 DEF Wood
  <2>12. BTreeOK(new, ht)
    BY <2>6, <2>8, <2>9, <2>11 DEF BTreeOK
  <2>13. EntryIn(t.node, key, val, new.node)
    <3>1. \A k, v : ~InLeaf(t.node, k, v)
      BY <2>1 DEF EmptyBTree, InLeaf
    <3>2. \A k, v : InLeaf(nodes, k, v) <=> HasEntry(x, k, v)
      BY <2>6, <2>9 DEF InLeaf
    <3> QED BY <2>4, <2>8, <3>1, <3>2 DEF EntryIn
  <2>14. BTreeAdd(t, key, val) = new
    BY <1>1 DEF BTreeAdd, new, x, x0
  <2> QED BY <2>8, <2>12, <2>13, <2>14 DEF IsBTree
<1>2. CASE t.root # 0
  <2>1. PICK ht : BTreeOK(t, ht)
    BY <1>2, RootIs DEF IsBTree
  <2> DEFINE w == Walk(t, key)[Len(t.node)]
             tree == w.tree
             n == w.cur
             leaf == tree.node[n]
  <2>2. /\ Walked(t, ht, Len(t.node), w) /\ n \in 1 .. Len(t.node) /\ leaf.isLeaf
    BY <2>1, WalkOK
  <2> HIDE DEF w
  <2>3. /\ BTreeOK(tree, ht) /\ SameEntries(t.node, tree.node) /\ tree.root = t.root
        /\ Len(tree.node) = Len(t.node) /\ Passed(tree.node, ht, w.stack, n, t.root)
    BY <2>2 DEF Walked
  <2> HIDE DEF tree, n
  <2>4. /\ n \in 1 .. Len(tree.node) /\ tree \in BTreeType /\ tree.node \in Seq(BNode)
        /\ BShape(leaf) /\ leaf.isLeaf = TRUE /\ Len(leaf.key) \in 1 .. MaxPerNode
    BY <2>2, <2>3, NodeOf DEF BTreeOK
  <2> HIDE DEF leaf
  <2> DEFINE x == LeafInsert(leaf, key, val)
             new1 == [tree EXCEPT !.node[n] = x]
             new2 == SplitNode(tree, n, w.stack, key, val)
  <2>5. BTreeAdd(t, key, val) = IF HasKey(leaf, key) \/ ~Full(leaf) THEN new1 ELSE new2
    BY <1>2 DEF BTreeAdd, w, tree, n, leaf
  <2>6. CASE HasKey(leaf, key) \/ ~Full(leaf)
    <3> DEFINE nodes == [tree.node EXCEPT ![n] = x]
    <3>1. EntryAdded(leaf, key, val, x)
      BY <2>4, LeafInsertOK
    <3> HIDE DEF x
    <3>2. BShape(x) /\ x \in BNode /\ x.isLeaf = TRUE /\ Kids(x) = {} /\ Kids(leaf) = {}
      BY <2>4, <3>1 DEF EntryAdded, BShape, BNode, Kids
    <3>3. BNodeOK(x)
      <4>1. Len(leaf.key) \in Nat /\ MaxPerNode \in Nat
        BY <2>4, MaxPerNodeAssumption
      <4>2. Len(x.key) \in 1 .. MaxPerNode
        BY <2>4, <2>6, <3>1, <4>1 DEF EntryAdded, Full
      <4> QED BY <3>2, <4>2 DEF BNodeOK
    <3>4. Wood(nodes, ht, {tree.root})
      <4>1. Wood(tree.node, ht, {tree.root})
        BY <2>3 DEF BTreeOK
      <4>2. {tree.root} = ({tree.root} \cup Kids(tree.node[n])) \ Kids(x)
        BY <3>2 DEF leaf
      <4>3. Kids(x) \subseteq Kids(tree.node[n]) \cup {tree.root} /\ \A c \in Kids(x) : ht[n] = ht[c] + 1
        BY <3>2
      <4> QED BY <2>4, <3>3, <4>1, <4>2, <4>3, PutNode
    <3>5. /\ nodes \in Seq(BNode) /\ Len(nodes) = Len(tree.node)
          /\ \A k, v : InLeaf(nodes, k, v) <=> HasEntry(x, k, v) \/ Elsewhere(tree.node, n, k, v)
          /\ \A k, v : InLeaf(tree.node, k, v) <=> HasEntry(leaf, k, v) \/ Elsewhere(tree.node, n, k, v)
      BY <2>4, <3>2, PutElsewhere DEF leaf
    <3> HIDE DEF nodes
    <3>6. /\ new1 \in BTreeType /\ new1.node = nodes /\ new1.root = tree.root /\ new1.nodeCount = tree.nodeCount
      BY <2>4, <3>5 DEF BTreeType, nodes
    <3> HIDE DEF new1
    <3>7. BTreeOK(new1, ht)
      BY <2>3, <3>4, <3>5, <3>6 DEF BTreeOK
    <3>8. EntryIn(t.node, key, val, new1.node)
      BY <2>3, <3>1, <3>5, <3>6 DEF EntryIn, EntryAdded, SameEntries
    <3>9. BTreeAdd(t, key, val) = new1 /\ new1.root # 0
      BY <1>2, <2>3, <2>5, <2>6, <3>6
    <3> QED BY <3>7, <3>8, <3>9 DEF IsBTree
  <2>7. CASE ~(HasKey(leaf, key) \/ ~Full(leaf))
    <3>1. (\E up : BTreeOK(new2, up)) /\ EntryIn(tree.node, key, val, new2.node)
      BY <2>3, <2>4, <2>7, SplitNodeOK DEF leaf
    <3>2. BTreeAdd(t, key, val) = new2
      BY <2>5, <2>7
    <3> HIDE DEF new2
    <3>3. EntryIn(t.node, key, val, new2.node)
      BY <2>3, <3>1 DEF EntryIn, SameEntries
    <3>4. new2.root # 0
      BY <3>1 DEF BTreeOK
    <3> QED BY <3>1, <3>2, <3>3, <3>4 DEF IsBTree
  <2> QED BY <2>6, <2>7
<1> QED BY <1>1, <1>2

-----------------------------------------------------------------------------
(* The order of the nodes of a B-tree *)

BKidsOf(t, children) ==
    /\ children \in Seq(Seq(1 .. Len(t.node))) /\ Len(children) = Len(t.node)
    /\ \A n \in 1 .. Len(t.node) :
         /\ t.node[n].isLeaf => children[n] = <<>> /\ Len(children[n]) = 0
         /\ ~t.node[n].isLeaf => children[n] = t.node[n].item /\ Len(children[n]) = Len(t.node[n].key)

LEMMA BKidsAre ==
    ASSUME NEW t, NEW ht, BTreeOK(t, ht)
    PROVE  BKidsOf(t, BTreeChildren(t))
<1> DEFINE N == Len(t.node)
           children == BTreeChildren(t)
           S == Seq(1 .. N)
           F(n) == IF t.node[n].isLeaf THEN <<>> ELSE t.node[n].item
<1>1. N \in Nat /\ DOMAIN t.node = 1 .. N
  <2>1. t.node \in Seq(BNode)
    BY DEF BTreeOK, BTreeType
  <2> QED BY <2>1
<1>2. ASSUME NEW n \in 1 .. N
      PROVE  /\ F(n) \in S
             /\ t.node[n].isLeaf => F(n) = <<>> /\ Len(F(n)) = 0
             /\ ~t.node[n].isLeaf => F(n) = t.node[n].item /\ Len(F(n)) = Len(t.node[n].key)
  <2> DEFINE it == t.node[n].item
             m == Len(t.node[n].key)
  <2>1. /\ t.node[n].isLeaf \in BOOLEAN /\ it \in Seq(BItem) /\ m \in Nat /\ Len(it) = m
        /\ ~t.node[n].isLeaf => \A i \in 1 .. m : it[i] \in 1 .. N
    BY NodeOf
  <2>2. CASE t.node[n].isLeaf
    <3>1. F(n) = <<>>
      BY <2>2
    <3>2. <<>> \in S /\ Len(<<>>) = 0
      OBVIOUS
    <3> HIDE DEF F, S
    <3> QED BY <2>2, <3>1, <3>2
  <2>3. CASE ~t.node[n].isLeaf
    <3>1. F(n) = it
      BY <2>3
    <3> HIDE DEF F, it, m
    <3>2. \A i \in 1 .. m : it[i] \in 1 .. N
      BY <2>1, <2>3
    <3> DEFINE R == 1 .. N
    <3>3. it \in [1 .. m -> R]
      <4>1. it = [i \in 1 .. m |-> it[i]]
        BY <2>1
      <4> HIDE DEF R
      <4> QED BY <3>2, <4>1 DEF R
    <3>4. it \in S
      <4> HIDE DEF R
      <4>1. it \in Seq(R)
        BY <2>1, <3>3
      <4> QED BY <4>1 DEF R
    <3> QED BY <2>1, <2>3, <3>1, <3>4 DEF it, m
  <2> QED BY <2>1, <2>2, <2>3
<1>3. children = [n \in 1 .. N |-> F(n)]
  BY <1>1 DEF BTreeChildren
<1> HIDE DEF children, F, S
<1>4. children \in Seq(S) /\ Len(children) = N /\ \A n \in 1 .. N : children[n] = F(n)
  <2> HIDE DEF N
  <2> QED BY <1>1, <1>2, <1>3
<1> QED BY <1>2, <1>4 DEF BKidsOf, children, S, N

\* Every node but the root is the child of one node, at one place, and lower than it.
LEMMA BTreeIsTree ==
    ASSUME NEW t, NEW ht, BTreeOK(t, ht)
    PROVE  \E rank : IsTree(BTreeChildren(t), t.root, rank)
<1> DEFINE children == BTreeChildren(t)
           N == Len(t.node)
           Nodes == 1 .. N
           rank == [n \in Nodes |-> N - ht[n]]
<1>1. /\ children \in Seq(Seq(Nodes)) /\ Len(children) = N
      /\ \A n \in Nodes : /\ t.node[n].isLeaf => Len(children[n]) = 0
                          /\ ~t.node[n].isLeaf => children[n] = t.node[n].item
                          /\ ~t.node[n].isLeaf => Len(children[n]) = Len(t.node[n].key)
  BY BKidsAre DEF BKidsOf
<1>2. /\ N \in Nat /\ t.root \in Nodes /\ ht \in [Nodes -> 0 .. N - 1]
      /\ \A n \in Nodes : t.node[n].isLeaf \in BOOLEAN /\ BNodeOK(t.node[n])
      /\ \A n \in Nodes : \A c \in Kids(t.node[n]) : c \in Nodes /\ c # t.root /\ ht[n] = ht[c] + 1
      /\ \A m, n \in Nodes : \A c \in Kids(t.node[m]) : c \in Kids(t.node[n]) => m = n
      /\ \A c \in Nodes \ {t.root} : \E n \in Nodes : c \in Kids(t.node[n])
  <2>1. \A n \in Nodes : t.node[n].isLeaf \in BOOLEAN /\ BNodeOK(t.node[n])
    BY NodeOf
  <2>2. N \in Nat
    <3>1. t.node \in Seq(BNode)
      BY DEF BTreeOK, BTreeType
    <3> QED BY <3>1
  <2> QED BY <2>1, <2>2 DEF BTreeOK, Wood
<1>3. ASSUME NEW n \in Nodes, NEW j \in 1 .. Len(children[n])
      PROVE  ~t.node[n].isLeaf /\ j \in 1 .. Len(t.node[n].key) /\ children[n][j] = t.node[n].item[j]
             /\ children[n][j] \in Kids(t.node[n])
  <2>1. ~t.node[n].isLeaf
    <3>1. CASE t.node[n].isLeaf
      <4>1. Len(children[n]) = 0
        BY <1>1, <3>1
      <4> QED BY <4>1
    <3> QED BY <1>2, <3>1
  <2> QED BY <1>1, <2>1 DEF Kids
<1>4. ASSUME NEW m \in Nodes, NEW n \in Nodes,
             NEW j \in 1 .. Len(children[m]), NEW k \in 1 .. Len(children[n])
      PROVE  children[m][j] # t.root /\ (children[m][j] = children[n][k] => m = n /\ j = k)
  <2>1. children[m][j] \in Kids(t.node[m]) /\ children[n][k] \in Kids(t.node[n])
    BY <1>3
  <2>2. ASSUME children[m][j] = children[n][k] PROVE m = n /\ j = k
    <3>1. m = n
      BY <1>2, <2>1, <2>2
    <3>2. \A a, b \in 1 .. Len(t.node[n].key) : t.node[n].item[a] = t.node[n].item[b] => a = b
      BY <1>2, <1>3 DEF BNodeOK, BShape
    <3>3. /\ j \in 1 .. Len(t.node[n].key) /\ children[m][j] = t.node[n].item[j]
          /\ k \in 1 .. Len(t.node[n].key) /\ children[n][k] = t.node[n].item[k]
      BY <1>3, <3>1
    <3> QED BY <2>2, <3>1, <3>2, <3>3
  <2> QED BY <1>2, <2>1, <2>2
<1>5. rank \in [Nodes -> Nat] /\ \A n \in Nodes : rank[n] = N - ht[n]
  <2>1. ASSUME NEW n \in Nodes PROVE N - ht[n] \in Nat
    <3>1. ht[n] \in 0 .. N - 1
      BY <1>2
    <3> HIDE DEF N
    <3> QED BY <1>2, <3>1
  <2> QED BY <2>1
<1>6. ASSUME NEW n \in Nodes \ {t.root}
      PROVE  \E m \in Nodes : \E j \in 1 .. Len(children[m]) : children[m][j] = n /\ rank[m] < rank[n]
  <2>1. PICK m \in Nodes : n \in Kids(t.node[m])
    BY <1>2
  <2>2. ~t.node[m].isLeaf
    <3>1. CASE t.node[m].isLeaf
      BY <2>1, <3>1 DEF Kids
    <3> QED BY <1>2, <3>1
  <2>3. PICK j \in 1 .. Len(t.node[m].key) : t.node[m].item[j] = n
    BY <2>1, <2>2 DEF Kids
  <2>4. j \in 1 .. Len(children[m]) /\ children[m][j] = n
    BY <1>1, <2>2, <2>3
  <2>5. rank[m] < rank[n]
    <3>1. ht[m] = ht[n] + 1 /\ rank[m] = N - ht[m] /\ rank[n] = N - ht[n]
      BY <1>2, <1>5, <2>1
    <3>2. ht[m] \in Int /\ ht[n] \in Int /\ N \in Int
      BY <1>2
    <3> HIDE DEF rank, N
    <3> QED BY <3>1, <3>2
  <2> QED BY <2>4, <2>5
<1> HIDE DEF children, Nodes, rank, N
<1> DEFINE I == 1 .. Len(children)
<1>7. I = Nodes
  BY <1>1 DEF Nodes
<1> HIDE DEF I
<1>8. children \in Seq(Seq(I)) /\ t.root \in I /\ rank \in [I -> Nat]
  BY <1>1, <1>2, <1>5, <1>7
<1>9. /\ \A m, n \in I : \A j \in 1 .. Len(children[m]), k \in 1 .. Len(children[n]) :
           children[m][j] # t.root /\ (children[m][j] = children[n][k] => m = n /\ j = k)
      /\ \A n \in I \ {t.root} : \E m \in I : \E j \in 1 .. Len(children[m]) :
           children[m][j] = n /\ rank[m] < rank[n]
  BY <1>4, <1>6, <1>7
<1>10. IsTree(children, t.root, rank)
  BY <1>8, <1>9 DEF IsTree, I
<1> QED BY <1>10 DEF children

\* The nodes in the order in which they go to the file; how many are in the queue or
\* written when i of them were written; where each of them starts.
BPushed(t) == BreadthFirst(BTreeChildren(t), t.root)
BOrder(t) == BPushed(t)[Len(t.node)]
BDue(t) == [i \in 0 .. Len(t.node) |-> Len(BPushed(t)[i])]
BSizes(t) == [i \in 1 .. Len(t.node) |-> BTreeNodeSize(t.node[BOrder(t)[i]])]
BOffsets(t, i) == [j \in DOMAIN BTreeChildren(t)[BOrder(t)[i]] |-> Sums(BSizes(t))[BDue(t)[i - 1] + j - 1]]
BParts(t) == [i \in 1 .. Len(t.node) |-> BTreeFields(t.node[BOrder(t)[i]], BOffsets(t, i))]

LEMMA BOrderIs ==
    ASSUME NEW t, NEW ht, BTreeOK(t, ht)
    PROVE  /\ IsOrder(BTreeChildren(t), t.root, BOrder(t), BDue(t))
           /\ BOrder(t) \in Seq(1 .. Len(t.node)) /\ Len(BOrder(t)) = Len(t.node)
           /\ \A i \in 1 .. Len(t.node) : BOrder(t)[i] \in 1 .. Len(t.node) /\ BNodeOK(t.node[BOrder(t)[i]])
<1>1. Len(BTreeChildren(t)) = Len(t.node)
  BY BKidsAre DEF BKidsOf
<1>2. PICK rank : IsTree(BTreeChildren(t), t.root, rank)
  BY BTreeIsTree
<1>3. IsOrder(BTreeChildren(t), t.root, BOrder(t), BDue(t))
  BY <1>1, <1>2, BreadthFirstAll DEF BPushed, BOrder, BDue
<1>4. BOrder(t) \in Seq(1 .. Len(t.node)) /\ Len(BOrder(t)) = Len(t.node)
  BY <1>1, <1>3 DEF IsOrder
<1>5. \A n \in 1 .. Len(t.node) : BNodeOK(t.node[n])
  BY NodeOf
<1>6. \A i \in 1 .. Len(t.node) : BOrder(t)[i] \in 1 .. Len(t.node)
  BY <1>4, ElementOfSeq
<1> QED BY <1>3, <1>4, <1>5, <1>6

LEMMA BDueIs ==
    ASSUME NEW t, NEW ht, BTreeOK(t, ht)
    PROVE  /\ Len(t.node) \in Nat /\ BDue(t) \in [0 .. Len(t.node) -> 1 .. Len(t.node)]
           /\ BDue(t)[0] = 1 /\ BDue(t)[Len(t.node)] = Len(t.node)
           /\ BOrder(t)[1] = t.root
           /\ \A k, l \in 1 .. Len(t.node) : BOrder(t)[k] = BOrder(t)[l] => k = l
           /\ \A n \in 1 .. Len(t.node) : \E k \in 1 .. Len(t.node) : BOrder(t)[k] = n
           /\ \A i \in 1 .. Len(t.node) :
                /\ i <= BDue(t)[i - 1]
                /\ BDue(t)[i] = BDue(t)[i - 1] + Len(BTreeChildren(t)[BOrder(t)[i]])
           /\ \A i \in 1 .. Len(t.node) : \A k \in 1 .. Len(BTreeChildren(t)[BOrder(t)[i]]) :
                /\ BDue(t)[i - 1] + k \in 1 .. Len(t.node)
                /\ BOrder(t)[BDue(t)[i - 1] + k] = BTreeChildren(t)[BOrder(t)[i]][k]
<1> DEFINE N == Len(BTreeChildren(t))
<1>1. IsOrder(BTreeChildren(t), t.root, BOrder(t), BDue(t))
  BY BOrderIs
<1>2. N = Len(t.node) /\ Len(t.node) \in Nat
  <2>1. N = Len(t.node)
    BY BKidsAre DEF BKidsOf
  <2>2. Len(t.node) \in Nat
    BY DEF BTreeOK, BTreeType
  <2> QED BY <2>1, <2>2
<1> HIDE DEF N
<1>3. /\ BDue(t) \in [0 .. N -> 1 .. N]
      /\ BDue(t)[0] = 1 /\ BDue(t)[N] = N
      /\ BOrder(t)[1] = t.root
      /\ \A k, l \in 1 .. N : BOrder(t)[k] = BOrder(t)[l] => k = l
      /\ \A n \in 1 .. N : \E k \in 1 .. N : BOrder(t)[k] = n
      /\ \A i \in 1 .. N :
           /\ i <= BDue(t)[i - 1]
           /\ BDue(t)[i] = BDue(t)[i - 1] + Len(BTreeChildren(t)[BOrder(t)[i]])
      /\ \A i \in 1 .. N : \A k \in 1 .. Len(BTreeChildren(t)[BOrder(t)[i]]) :
           /\ BDue(t)[i - 1] + k \in 1 .. N
           /\ BOrder(t)[BDue(t)[i - 1] + k] = BTreeChildren(t)[BOrder(t)[i]][k]
  BY <1>1 DEF IsOrder, N
<1> QED BY <1>2, <1>3

-----------------------------------------------------------------------------
(* A node of a B-tree in the file *)

LEMMA FieldsConcat ==
    ASSUME NEW a, NEW b, a \in Seq(Nat), b \in Seq(Nat)
    PROVE  a \o b \in Seq(Nat) /\ Len(a \o b) = Len(a) + Len(b)
  BY ConcatProperties

LEMMA BNodeTypes ==
    ASSUME NEW node, BNodeOK(node)
    PROVE  /\ node \in BNode /\ node.isLeaf \in BOOLEAN /\ node.key \in Seq(Nat) /\ node.item \in Seq(BItem)
           /\ Len(node.key) \in Nat /\ Len(node.key) >= 1 /\ Len(node.item) = Len(node.key)
           /\ DOMAIN node.key = 1 .. Len(node.key)
<1>1. node \in BNode /\ Len(node.key) \in 1 .. MaxPerNode /\ Len(node.item) = Len(node.key)
  BY DEF BNodeOK, BShape
<1>2. node.isLeaf \in BOOLEAN /\ node.key \in Seq(Nat) /\ node.item \in Seq(BItem)
  BY <1>1 DEF BNode
<1> QED BY <1>1, <1>2, MaxPerNodeAssumption

\* What a leaf writes of each of its keys: the key and its list.
KeyFields(node, i) == <<node.key[i]>> \o ListFields(node.item[i])
KeyParts(node) == [i \in DOMAIN node.key |-> KeyFields(node, i)]

LEMMA BLeafFields ==
    ASSUME NEW node, BNodeOK(node), node.isLeaf
    PROVE  /\ KeyParts(node) \in Seq(Seq(Nat)) /\ Len(KeyParts(node)) = Len(node.key)
           /\ \A i \in 1 .. Len(node.key) :
                KeyParts(node)[i] = KeyFields(node, i) /\ node.item[i] \in Seq(Nat) /\ node.key[i] \in Nat
           /\ LeafFields(node) = FrontFields(node) \o Joined(KeyParts(node))
           /\ LeafFields(node) \in Seq(Nat) /\ Joined(KeyParts(node)) \in Seq(Nat)
           /\ FrontFields(node) \in Seq(Nat) /\ Len(FrontFields(node)) = 2
           /\ Len(LeafFields(node)) = LeafSize(node) /\ LeafSize(node) \in Nat /\ LeafSize(node) >= 1
           /\ LeafSize(node) = 2 + Starts(KeyParts(node))[Len(node.key)]
<1> DEFINE n == Len(node.key)
           keys == node.key
           lists == node.item
           parts == KeyParts(node)
           front == FrontFields(node)
           all == LeafFields(node)
           body == Joined(parts)
<1>1. /\ n \in Nat /\ keys \in Seq(Nat) /\ DOMAIN keys = 1 .. n /\ Len(lists) = n
      /\ lists \in Seq(BItem) /\ \A i \in 1 .. n : lists[i] \in Seq(Nat) /\ keys[i] \in Nat
  <2>1. node \in BNode /\ Len(node.item) = Len(node.key) /\ \A i \in 1 .. n : lists[i] \in Seq(Nat)
    BY DEF BNodeOK, BShape
  <2>2. node.key \in Seq(Nat) /\ node.item \in Seq(BItem)
    BY <2>1 DEF BNode
  <2> QED BY <2>1, <2>2
<1>2. lists \in Seq(Seq(Nat))
  <2> DEFINE S == Seq(Nat)
  <2> HIDE DEF lists, n
  <2>1. lists = [i \in 1 .. n |-> lists[i]]
    BY <1>1
  <2>2. \A i \in 1 .. n : lists[i] \in S
    BY <1>1
  <2> HIDE DEF S
  <2>3. lists \in [1 .. n -> S]
    BY <2>1, <2>2
  <2>4. lists \in Seq(S)
    BY <1>1, <2>3
  <2> QED BY <2>4 DEF S
<1>3. /\ ListSizes(lists) \in [0 .. n -> Nat] /\ ListSizes(lists)[0] = 0
      /\ \A i \in 1 .. n : ListSizes(lists)[i] = ListSizes(lists)[i - 1] + ListSize(lists[i])
  BY <1>1, <1>2, ListSizesAre
<1>4. ASSUME NEW i \in 1 .. n
      PROVE  KeyFields(node, i) \in Seq(Nat) /\ Len(KeyFields(node, i)) = 1 + ListSize(lists[i])
             /\ ListSize(lists[i]) \in Nat
  <2> DEFINE list == lists[i]
             k == keys[i]
             fields == ListFields(list)
             m == Len(list)
             c == <<m>>
             h == <<k>>
  <2>1. list \in Seq(Nat) /\ k \in Nat
    BY <1>1
  <2> HIDE DEF list, k
  <2>2. m \in Nat
    BY <2>1
  <2>3. c \in Seq(Nat) /\ Len(c) = 1 /\ h \in Seq(Nat) /\ Len(h) = 1
    BY <2>1, <2>2
  <2>4. fields = c \o list
    BY DEF ListFields
  <2> HIDE DEF c, h, fields
  <2>5. fields \in Seq(Nat) /\ Len(fields) = 1 + m
    <3>1. c \o list \in Seq(Nat) /\ Len(c \o list) = Len(c) + Len(list)
      BY <2>1, <2>3, FieldsConcat
    <3> QED BY <2>3, <2>4, <3>1 DEF m
  <2>6. h \o fields \in Seq(Nat) /\ Len(h \o fields) = Len(h) + Len(fields)
    BY <2>3, <2>5, FieldsConcat
  <2>7. KeyFields(node, i) = h \o fields
    BY DEF KeyFields, h, fields, list, k
  <2>8. ListSize(lists[i]) = 1 + m
    BY DEF ListSize, list
  <2> HIDE DEF m
  <2> QED BY <2>2, <2>3, <2>5, <2>6, <2>7, <2>8
<1>5. parts \in Seq(Seq(Nat)) /\ Len(parts) = n /\ \A i \in 1 .. n : parts[i] = KeyFields(node, i)
  <2> DEFINE F(i) == KeyFields(node, i)
             S == Seq(Nat)
  <2>1. parts = [i \in 1 .. n |-> F(i)]
    BY <1>1 DEF KeyParts
  <2>2. \A i \in 1 .. n : F(i) \in S
    BY <1>4
  <2> HIDE DEF parts, F, S, n
  <2>3. parts \in [1 .. n -> S] /\ \A i \in 1 .. n : parts[i] = F(i)
    BY <2>1, <2>2
  <2>4. parts \in Seq(S) /\ Len(parts) = n
    BY <1>1, <2>3
  <2> QED BY <2>3, <2>4 DEF F, S
<1> HIDE DEF parts
<1>6. /\ Starts(parts) \in [0 .. n -> Nat] /\ Starts(parts)[0] = 0
      /\ \A i \in 1 .. n : Starts(parts)[i] = Starts(parts)[i - 1] + Len(parts[i])
  BY <1>5, StartsStep
<1>7. body \in Seq(Nat) /\ Len(body) = Starts(parts)[n]
  BY <1>5, JoinedAt
<1>8. front \in Seq(Nat) /\ Len(front) = 2
  <2> DEFINE a == Flag(node.isLeaf)
  <2>1. a \in Nat /\ n \in Nat
    BY <1>1 DEF Flag
  <2>2. front = <<a, n>>
    BY DEF FrontFields
  <2> HIDE DEF a, n, front
  <2> QED BY <2>1, <2>2
<1>9. all = front \o body
  BY DEF LeafFields, parts, KeyParts, KeyFields
<1> HIDE DEF all, front, body, n, keys, lists
<1>10. all \in Seq(Nat) /\ Len(all) = 2 + Starts(parts)[n]
  <2>1. front \o body \in Seq(Nat) /\ Len(front \o body) = Len(front) + Len(body)
    BY <1>7, <1>8, FieldsConcat
  <2> QED BY <1>7, <1>8, <1>9, <2>1
<1>11. \A i \in 0 .. n : Starts(parts)[i] = i + ListSizes(lists)[i]
  <2> DEFINE good == [i \in 0 .. n |-> {m \in Nat : m = i + ListSizes(lists)[i]}]
             s == Starts(parts)
  <2>1. s[0] \in good[0]
    BY <1>1, <1>3, <1>6
  <2>2. ASSUME NEW i \in 1 .. n, s[i - 1] \in good[i - 1] PROVE s[i] \in good[i]
    <3>1. i \in 0 .. n /\ i - 1 \in 0 .. n /\ i \in Nat
      BY <1>1
    <3> DEFINE a == ListSizes(lists)[i - 1]
               b == ListSizes(lists)[i]
               c == ListSize(lists[i])
    <3>2. a \in Nat /\ b \in Nat /\ s[i] \in Nat /\ s[i - 1] = i - 1 + a /\ b = a + c /\ c \in Nat
      BY <1>3, <1>4, <1>6, <2>2, <3>1
    <3>3. s[i] = s[i - 1] + (1 + c)
      BY <1>4, <1>5, <1>6
    <3> HIDE DEF a, b, c, s
    <3>4. s[i] = i + b
      BY <3>1, <3>2, <3>3
    <3> QED BY <3>1, <3>2, <3>4 DEF b
  <2> HIDE DEF good
  <2>3. \A i \in 0 .. n : s[i] \in good[i]
    BY <1>1, <2>1, <2>2, LoopKeeps
  <2> QED BY <2>3 DEF good
<1>12. LeafSize(node) = 2 + Starts(parts)[n] /\ LeafSize(node) \in Nat /\ LeafSize(node) >= 1
  <2> DEFINE a == ListSizes(lists)[n]
  <2>1. n \in 0 .. n
    BY <1>1
  <2>2. a \in Nat /\ Starts(parts)[n] = n + a
    BY <1>3, <1>11, <2>1
  <2>3. LeafSize(node) = 2 + n + a
    BY <1>1 DEF LeafSize, ListsSize, n, lists
  <2> HIDE DEF a
  <2> QED BY <1>1, <2>2, <2>3
<1> QED BY <1>1, <1>5, <1>7, <1>8, <1>9, <1>10, <1>12 DEF parts, all, front, body, n, lists, keys

BOffsetsOK(node, offsets) == ~node.isLeaf => offsets \in Seq(Nat) /\ Len(offsets) = Len(node.key)

LEMMA BInnerFields ==
    ASSUME NEW node, BNodeOK(node), NEW offsets, offsets \in Seq(Nat), Len(offsets) = Len(node.key)
    PROVE  /\ InnerFields(node, offsets) = (FrontFields(node) \o node.key) \o offsets
           /\ FrontFields(node) \in Seq(Nat) /\ Len(FrontFields(node)) = 2
           /\ FrontFields(node)[1] = Flag(node.isLeaf) /\ FrontFields(node)[2] = Len(node.key)
           /\ node.key \in Seq(Nat) /\ Len(node.key) \in Nat /\ Len(node.key) >= 1
           /\ FrontFields(node) \o node.key \in Seq(Nat)
           /\ Len(FrontFields(node) \o node.key) = 2 + Len(node.key)
           /\ InnerFields(node, offsets) \in Seq(Nat)
           /\ Len(InnerFields(node, offsets)) = InnerSize(node)
           /\ InnerSize(node) \in Nat /\ InnerSize(node) >= 1
<1> DEFINE front == FrontFields(node)
           n == Len(node.key)
           keys == node.key
           most == front \o keys
           all == InnerFields(node, offsets)
<1>1. keys \in Seq(Nat) /\ n \in Nat /\ n >= 1
  <2>1. node \in BNode /\ n \in 1 .. MaxPerNode
    BY DEF BNodeOK, BShape
  <2>2. n \in Nat /\ n >= 1
    BY <2>1, MaxPerNodeAssumption
  <2> QED BY <2>1, <2>2 DEF BNode
<1>2. front \in Seq(Nat) /\ Len(front) = 2 /\ front[1] = Flag(node.isLeaf) /\ front[2] = n
  <2> DEFINE a == Flag(node.isLeaf)
  <2>1. a \in Nat /\ n \in Nat
    BY <1>1 DEF Flag
  <2>2. front = <<a, n>>
    BY DEF FrontFields
  <2> HIDE DEF a, n, front
  <2> QED BY <2>1, <2>2 DEF a
<1>3. all = most \o offsets
  BY DEF InnerFields
<1> HIDE DEF front, all
<1>4. most \in Seq(Nat) /\ Len(most) = Len(front) + n
  BY <1>1, <1>2, FieldsConcat
<1> HIDE DEF most, n, keys
<1>5. most \o offsets \in Seq(Nat) /\ Len(most \o offsets) = Len(most) + Len(offsets)
  BY <1>4, FieldsConcat
<1>6. InnerSize(node) = 2 + 2 * n /\ Len(offsets) = n
  BY DEF InnerSize, n
<1>7. Len(all) = 2 + 2 * n /\ 2 + 2 * n \in Nat /\ 2 + 2 * n >= 1
  BY <1>1, <1>2, <1>3, <1>4, <1>5, <1>6
<1> QED BY <1>1, <1>2, <1>3, <1>4, <1>5, <1>6, <1>7 DEF front, most, all, n, keys

\* What a node writes has the size it announced.
LEMMA BFieldsAre ==
    ASSUME NEW node, BNodeOK(node), NEW offsets, BOffsetsOK(node, offsets)
    PROVE  /\ BTreeFields(node, offsets) \in Seq(Nat)
           /\ Len(BTreeFields(node, offsets)) = BTreeNodeSize(node)
           /\ BTreeNodeSize(node) \in Nat /\ BTreeNodeSize(node) >= 1
<1>1. CASE node.isLeaf
  <2>1. BTreeFields(node, offsets) = LeafFields(node) /\ BTreeNodeSize(node) = LeafSize(node)
    BY <1>1 DEF BTreeFields, BTreeNodeSize
  <2> QED BY <1>1, <2>1, BLeafFields
<1>2. CASE ~node.isLeaf
  <2>1. BTreeFields(node, offsets) = InnerFields(node, offsets) /\ BTreeNodeSize(node) = InnerSize(node)
    BY <1>2 DEF BTreeFields, BTreeNodeSize
  <2>2. offsets \in Seq(Nat) /\ Len(offsets) = Len(node.key)
    BY <1>2 DEF BOffsetsOK
  <2> QED BY <2>1, <2>2, BInnerFields
<1> QED BY <1>1, <1>2

\* The keys and lists of a leaf are read back as they were written.
LEMMA ReadItemsIs ==
    ASSUME NEW node, BNodeOK(node), node.isLeaf, NEW data, Len(data) \in Nat, NEW at \in Nat,
           Holds(data, at, Joined(KeyParts(node)))
    PROVE  ReadItems(data, at, Len(node.key)) =
             [key |-> node.key, item |-> node.item, end |-> at + Starts(KeyParts(node))[Len(node.key)]]
<1> DEFINE N == Len(node.key)
           U == {[key |-> First(node.key, i), item |-> First(node.item, i), end |-> at + Starts(KeyParts(node))[i]] : i \in 0 .. Len(node.key)}
           start == [key |-> <<>>, item |-> <<>>, end |-> at]
           Turn(i, x) == LET list == ReadList(data, x.end + 1)
                         IN  [key |-> Append(x.key, data[x.end + 1]), item |-> Append(x.item, list),
                              end |-> x.end + 1 + ListSize(list)]
           Good(i, x) ==
             x = [key |-> First(node.key, i), item |-> First(node.item, i), end |-> at + Starts(KeyParts(node))[i]]
           Solves(f) == f = [i \in 0 .. N |-> IF i = 0 THEN start ELSE Turn(i, f[i - 1])]
           read == CHOOSE f : Solves(f)
<1> DEFINE parts == KeyParts(node)
           s == Starts(parts)
           lists == node.item
           keys == node.key
<1>a. /\ parts \in Seq(Seq(Nat)) /\ Len(parts) = N /\ N \in Nat /\ keys \in Seq(Nat)
      /\ \A i \in 1 .. N : parts[i] = KeyFields(node, i) /\ lists[i] \in Seq(Nat) /\ keys[i] \in Nat
  <2>1. node.key \in Seq(Nat) /\ Len(node.key) \in Nat
    <3>1. node \in BNode
      BY DEF BNodeOK, BShape
    <3>2. node.key \in Seq(Nat)
      BY <3>1 DEF BNode
    <3> QED BY <3>2
  <2> QED BY <2>1, BLeafFields
<1>b. /\ s \in [0 .. N -> Nat] /\ s[0] = 0
      /\ \A i \in 1 .. N : s[i] = s[i - 1] + Len(parts[i])
  <2> HIDE DEF parts, N
  <2> QED BY <1>a, StartsStep
<1>c. \A h \in 1 .. N : Holds(data, at + s[h - 1], parts[h])
  <2> HIDE DEF parts, N
  <2>1. Holds(data, at, Joined(parts))
    BY DEF parts
  <2> QED BY <1>a, <2>1, HoldsJoined
<1>0. N \in Nat /\ 0 \in 0 .. N /\ at + s[0] = at
  BY <1>a, <1>b
<1>1. N \in Nat /\ start \in U /\ Good(0, start)
  <2>1. First(node.key, 0) = <<>> /\ First(node.item, 0) = <<>>
    BY DEF First
  <2>2. start = [key |-> First(node.key, 0), item |-> First(node.item, 0), end |-> at + Starts(KeyParts(node))[0]]
    BY <1>0, <2>1
  <2> QED BY <1>0, <2>2
<1>2. ASSUME NEW i \in 1 .. N, NEW x \in U, Good(i - 1, x)
      PROVE  Turn(i, x) \in U /\ Good(i, Turn(i, x))
  <2>0. i \in 0 .. N /\ i - 1 \in 0 .. N /\ i \in 1 .. N
    BY <1>a
  <2> DEFINE a == at + s[i - 1]
             list == lists[i]
             k == keys[i]
  <2>1. x.key = First(keys, i - 1) /\ x.item = First(lists, i - 1) /\ x.end = a
    BY <1>2
  <2>2. s[i] = s[i - 1] + Len(parts[i]) /\ s[i - 1] \in Nat /\ s[i] \in Nat /\ a \in Nat
    <3>1. s[i] = s[i - 1] + Len(parts[i]) /\ s[i - 1] \in Nat /\ s[i] \in Nat
      BY <1>b, <2>0
    <3>2. \A p, q \in Nat : p + q \in Nat
      OBVIOUS
    <3> QED BY <3>1, <3>2
  <2>3. list \in Seq(Nat) /\ k \in Nat /\ Holds(data, a, KeyFields(node, i)) /\ parts[i] = KeyFields(node, i)
    BY <1>a, <1>c
  <2> HIDE DEF a, list, k
  <2>4. Holds(data, a + 1, ListFields(list)) /\ data[a + 1] = k /\ Len(parts[i]) = 1 + ListSize(list)
        /\ ListSize(list) \in Nat
    <3> DEFINE h == <<k>>
               fields == ListFields(list)
    <3>1. h \in Seq(Nat) /\ Len(h) = 1 /\ h[1] = k
      BY <2>3
    <3>2. fields \in Seq(Nat) /\ Len(fields) = ListSize(list) /\ ListSize(list) \in Nat
      <4> DEFINE m == Len(list)
                 c == <<m>>
      <4>1. m \in Nat /\ c \in Seq(Nat) /\ Len(c) = 1
        BY <2>3
      <4>2. fields = c \o list /\ ListSize(list) = 1 + m
        BY DEF ListFields, ListSize
      <4> HIDE DEF c, fields
      <4>3. c \o list \in Seq(Nat) /\ Len(c \o list) = Len(c) + Len(list)
        BY <2>3, <4>1, FieldsConcat
      <4> QED BY <4>1, <4>2, <4>3
    <3>3. KeyFields(node, i) = h \o fields
      BY DEF KeyFields, list, k, lists, keys
    <3> HIDE DEF h, fields
    <3>4. Holds(data, a, h) /\ Holds(data, a + Len(h), fields)
      BY <2>3, <3>1, <3>2, <3>3, HoldsConcat
    <3>5. Len(h \o fields) = Len(h) + Len(fields)
      BY <3>1, <3>2, FieldsConcat
    <3>6. data[a + 1] = k
      BY <3>1, <3>4 DEF Holds
    <3> QED BY <2>3, <3>1, <3>2, <3>3, <3>4, <3>5, <3>6 DEF fields
  <2>5. ReadList(data, a + 1) = list
    <3>1. a + 1 \in Nat
      BY <2>2
    <3> QED BY <2>3, <2>4, <3>1, ReadListAt
  <2>6. Append(First(keys, i - 1), k) = First(keys, i) /\ Append(First(lists, i - 1), list) = First(lists, i)
    <3> DEFINE S == Seq(Nat)
    <3> HIDE DEF S, lists, keys, N
    <3>1. lists = [j \in 1 .. N |-> lists[j]] /\ keys = [j \in 1 .. N |-> keys[j]]
      <4>1. Len(lists) = N /\ lists \in Seq(BItem)
        BY DEF BNodeOK, BShape, BNode, lists, N
      <4>2. Len(keys) = N
        BY DEF keys, N
      <4> QED BY <1>a, <4>1, <4>2
    <3>2. lists \in [1 .. N -> S] /\ keys \in [1 .. N -> Nat]
      <4>1. \A j \in 1 .. N : lists[j] \in S
        BY <1>a DEF S
      <4> QED BY <1>a, <3>1, <4>1
    <3>a. N \in Nat /\ i \in 1 .. N
      BY <1>0
    <3>b. lists \in [1 .. N -> S]
      BY <3>2
    <3>c. keys \in [1 .. N -> Nat]
      BY <3>2
    <3>3. Append(First(keys, i - 1), keys[i]) = First(keys, i)
      BY <3>a, <3>c, FirstGrows
    <3>4. Append(First(lists, i - 1), lists[i]) = First(lists, i)
      BY <3>a, <3>b, FirstGrows
    <3> QED BY <3>3, <3>4 DEF k, list
  <2>7. a + 1 + ListSize(list) = at + s[i]
    <3>1. \A p, q, r \in Nat : (p + q) + 1 + r = p + (q + (1 + r))
      OBVIOUS
    <3> DEFINE q == s[i - 1]
               r == ListSize(list)
    <3>2. q \in Nat /\ r \in Nat /\ s[i] = q + (1 + r) /\ a = at + q
      BY <2>2, <2>4 DEF a
    <3> HIDE DEF q, r, a
    <3>3. (at + q) + 1 + r = at + (q + (1 + r))
      BY <3>1, <3>2
    <3> QED BY <3>2, <3>3 DEF r
  <2>8. Turn(i, x) = [key |-> First(keys, i), item |-> First(lists, i), end |-> at + s[i]]
    BY <2>1, <2>4, <2>5, <2>6, <2>7
  <2> HIDE DEF Turn
  <2> QED BY <2>0, <2>8
<1> HIDE DEF N, U, start, Good, Turn, parts, s, lists, keys
<1>3. \E f : Solves(f)
  <2> DEFINE good == [i \in 0 .. N |-> {x \in U : Good(i, x)}]
             step == [i \in 1 .. N |-> [x \in good[i - 1] |-> Turn(i, x)]]
  <2>1. good \in [0 .. N -> SUBSET U] /\ start \in good[0]
    BY <1>1
  <2>2. ASSUME NEW i \in 1 .. N, NEW x \in good[i - 1]
        PROVE  step[i][x] = Turn(i, x) /\ Turn(i, x) \in good[i]
    <3>1. i \in 0 .. N /\ i - 1 \in 0 .. N
      BY <1>1
    <3>2. x \in U /\ Good(i - 1, x)
      BY <3>1
    <3>3. Turn(i, x) \in U /\ Good(i, Turn(i, x))
      BY <1>2, <3>2
    <3> QED BY <3>1, <3>3
  <2> HIDE DEF good, step
  <2>3. PICK f : Runs(f, N, U, good, start, step)
    <3>1. Loop(N, U, good, start, step)
      BY <1>1, <2>1, <2>2 DEF Loop
    <3> QED BY <3>1, LoopSolved
  <2>4. ASSUME NEW i \in 0 .. N
        PROVE  f[i] = IF i = 0 THEN start ELSE Turn(i, f[i - 1])
    <3>1. CASE i = 0
      BY <2>3, <3>1 DEF Runs
    <3>2. CASE i # 0
      <4>1. i \in 1 .. N
        BY <1>1, <3>2
      <4> QED BY <2>2, <2>3, <3>2, <4>1 DEF Runs
    <3> QED BY <3>1, <3>2
  <2>5. f = [i \in 0 .. N |-> f[i]]
    BY <2>3 DEF Runs
  <2>6. Solves(f)
    BY <2>4, <2>5
  <2> QED BY <2>6
<1>4. Solves(read)
  BY <1>3
<1> HIDE DEF read
<1>5. read[0] = start /\ \A i \in 1 .. N : read[i] = Turn(i, read[i - 1])
  BY <1>1, <1>4
<1>6. \A i \in 0 .. N : read[i] \in U /\ Good(i, read[i])
  <2> DEFINE good == [i \in 0 .. N |-> {x \in U : Good(i, x)}]
  <2>1. read[0] \in good[0]
    BY <1>1, <1>5
  <2>2. ASSUME NEW i \in 1 .. N, read[i - 1] \in good[i - 1] PROVE read[i] \in good[i]
    <3>1. i \in 0 .. N /\ i - 1 \in 0 .. N
      BY <1>1
    <3>2. read[i - 1] \in U /\ Good(i - 1, read[i - 1])
      BY <2>2, <3>1
    <3>3. read[i] \in U /\ Good(i, read[i])
      BY <1>2, <1>5, <3>2
    <3> QED BY <3>1, <3>3
  <2>3. \A i \in 0 .. N : read[i] \in good[i]
    <3> HIDE DEF good
    <3> QED BY <1>1, <2>1, <2>2, LoopKeeps
  <2> QED BY <2>3
<1>7. read[N] = [key |-> First(keys, N), item |-> First(lists, N), end |-> at + s[N]]
  <2>1. N \in 0 .. N
    BY <1>1
  <2> QED BY <1>6, <2>1 DEF Good, keys, lists, s, parts
<1>8. First(keys, N) = keys /\ First(lists, N) = lists
  <2>1. Len(lists) = N /\ lists \in Seq(BItem)
    BY DEF BNodeOK, BShape, BNode, lists, N
  <2>2. Len(keys) = N
    BY DEF keys, N
  <2>3. lists = [j \in 1 .. N |-> lists[j]] /\ keys = [j \in 1 .. N |-> keys[j]]
    BY <1>a, <2>1, <2>2
  <2> QED BY <2>3 DEF First
<1>9. ReadItems(data, at, Len(node.key)) = read[N]
  BY DEF ReadItems, read, Turn, N, start
<1> QED BY <1>7, <1>8, <1>9 DEF keys, lists, s, parts, N

\* readFromFile gets the node that was written; an inner one with the offsets of its
\* children, which become numbers from due on.
BLoaded(node, due) ==
    IF node.isLeaf THEN node ELSE Node(FALSE, node.key, [j \in DOMAIN node.key |-> due + j])

LEMMA ReadBNodeIs ==
    ASSUME NEW node, BNodeOK(node), NEW offsets, BOffsetsOK(node, offsets),
           NEW data, Len(data) \in Nat, NEW at \in Nat, Holds(data, at, BTreeFields(node, offsets))
    PROVE  ReadBNode(data, at) =
             [node |-> IF node.isLeaf THEN node ELSE Node(FALSE, node.key, offsets),
              end |-> at + BTreeNodeSize(node)]
<1> DEFINE n == Len(node.key)
           front == FrontFields(node)
<1>1. node \in BNode /\ node.isLeaf \in BOOLEAN
  BY DEF BNodeOK, BShape, BNode
<1>2. CASE node.isLeaf
  <2> DEFINE body == Joined(KeyParts(node))
             size == Starts(KeyParts(node))[n]
  <2>1. /\ LeafFields(node) = front \o body /\ front \in Seq(Nat) /\ body \in Seq(Nat) /\ Len(front) = 2
        /\ LeafSize(node) = 2 + size /\ LeafSize(node) \in Nat
    BY <1>2, BLeafFields
  <2>2. front[1] = 1 /\ front[2] = n
    BY <1>2 DEF FrontFields, Flag
  <2> HIDE DEF front, body
  <2>3. Holds(data, at, front \o body)
    BY <1>2, <2>1 DEF BTreeFields
  <2>4. Holds(data, at, front) /\ Holds(data, at + Len(front), body)
    BY <2>1, <2>3, HoldsConcat
  <2>5. data[at + 1] = 1 /\ data[at + 2] = n
    BY <2>1, <2>2, <2>4 DEF Holds
  <2>6. at + 2 \in Nat /\ Holds(data, at + 2, body)
    BY <2>1, <2>4
  <2>7. ReadItems(data, at + 2, n) = [key |-> node.key, item |-> node.item, end |-> at + 2 + size]
    BY <1>2, <2>6, ReadItemsIs DEF body
  <2>8. Node(TRUE, node.key, node.item) = node
    BY <1>1, <1>2 DEF Node, BNode
  <2>9. ReadBNode(data, at) = [node |-> node, end |-> at + 2 + size]
    <3> DEFINE read == ReadItems(data, at + 2, data[at + 2])
    <3>1. read.key = node.key /\ read.item = node.item /\ read.end = at + 2 + size
      BY <2>5, <2>7
    <3>2. ReadBNode(data, at) = [node |-> Node(TRUE, read.key, read.item), end |-> read.end]
      BY <2>5 DEF ReadBNode
    <3> HIDE DEF read
    <3> QED BY <2>8, <3>1, <3>2
  <2>10. at + 2 + size = at + BTreeNodeSize(node)
    <3>1. \A p, q \in Nat : \A r : q = 2 + r /\ r \in Nat => p + 2 + r = p + q
      OBVIOUS
    <3>2. size \in Nat
      <4>1. size = Len(body)
        <5>1. KeyParts(node) \in Seq(Seq(Nat)) /\ Len(KeyParts(node)) = n
          BY <1>2, BLeafFields
        <5> QED BY <5>1, JoinedAt DEF body
      <4> QED BY <2>1, <4>1, LenProperties
    <3>3. BTreeNodeSize(node) = LeafSize(node)
      BY <1>2 DEF BTreeNodeSize
    <3> HIDE DEF size
    <3> QED BY <2>1, <3>1, <3>2, <3>3
  <2> QED BY <1>2, <2>9, <2>10
<1>3. CASE ~node.isLeaf
  <2> DEFINE most == front \o node.key
             keys == node.key
  <2>1. offsets \in Seq(Nat) /\ Len(offsets) = n
    BY <1>3 DEF BOffsetsOK
  <2>2. /\ InnerFields(node, offsets) = most \o offsets
        /\ front \in Seq(Nat) /\ Len(front) = 2
        /\ front[1] = Flag(node.isLeaf) /\ front[2] = n
        /\ keys \in Seq(Nat) /\ n \in Nat
        /\ most \in Seq(Nat) /\ Len(most) = 2 + n
    BY <2>1, BInnerFields
  <2> HIDE DEF front, keys, n
  <2>3. most = front \o keys
    BY DEF keys
  <2> HIDE DEF most
  <2>4. Holds(data, at, most \o offsets)
    BY <1>3, <2>2 DEF BTreeFields
  <2>5. Holds(data, at, most) /\ Holds(data, at + Len(most), offsets)
    BY <2>1, <2>2, <2>4, HoldsConcat
  <2>6. Holds(data, at, front) /\ Holds(data, at + Len(front), keys)
    BY <2>2, <2>3, <2>5, HoldsConcat
  <2>7. data[at + 1] = 0 /\ data[at + 2] = n
    BY <1>3, <2>2, <2>6 DEF Holds, Flag
  <2>8. SubSeq(data, at + Len(front) + 1, at + Len(front) + Len(keys)) = keys
    BY <2>2, <2>6, HoldsRead
  <2>9. SubSeq(data, at + Len(most) + 1, at + Len(most) + Len(offsets)) = offsets
    BY <2>1, <2>5, HoldsRead
  <2>10. /\ at + Len(front) + 1 = at + 3 /\ at + Len(front) + Len(keys) = at + 2 + n
         /\ at + Len(most) + 1 = at + 3 + n /\ at + Len(most) + Len(offsets) = at + 2 + 2 * n
    <3>1. Len(keys) = n /\ Len(front) = 2 /\ Len(most) = 2 + n /\ Len(offsets) = n /\ n \in Nat
      BY <2>1, <2>2 DEF keys, n
    <3>2. \A p, q \in Nat : /\ p + 2 + 1 = p + 3 /\ (p + (2 + q)) + 1 = p + 3 + q
                            /\ (p + (2 + q)) + q = p + 2 + 2 * q
      OBVIOUS
    <3> QED BY <3>1, <3>2
  <2>11. SubSeq(data, at + 3, at + 2 + n) = keys /\ SubSeq(data, at + 3 + n, at + 2 + 2 * n) = offsets
    BY <2>8, <2>9, <2>10
  <2>12. ReadBNode(data, at) = [node |-> Node(FALSE, keys, offsets), end |-> at + 2 + 2 * n]
    <3> DEFINE m == data[at + 2]
    <3>1. data[at + 1] # 1
      BY <2>7
    <3>2. ReadBNode(data, at) =
            [node |-> Node(FALSE, SubSeq(data, at + 3, at + 2 + m), SubSeq(data, at + 3 + m, at + 2 + 2 * m)),
             end |-> at + 2 + 2 * m]
      BY <3>1 DEF ReadBNode
    <3>3. m = n
      BY <2>7
    <3> HIDE DEF m
    <3> QED BY <2>11, <3>2, <3>3
  <2>13. at + 2 + 2 * n = at + BTreeNodeSize(node)
    <3>1. BTreeNodeSize(node) = 2 + 2 * n
      BY <1>3 DEF BTreeNodeSize, InnerSize, n
    <3> QED BY <2>2, <3>1
  <2> QED BY <1>3, <2>12, <2>13 DEF keys
<1> QED BY <1>2, <1>3

LEMMA LoadBNodeIs ==
    ASSUME NEW node, BNodeOK(node), NEW offsets, BOffsetsOK(node, offsets), NEW due \in Nat,
           NEW data, Len(data) \in Nat, NEW at \in Nat, Holds(data, at, BTreeFields(node, offsets))
    PROVE  LoadBNode(data, at, due) = [node |-> BLoaded(node, due), end |-> at + BTreeNodeSize(node)]
<1> DEFINE end == at + BTreeNodeSize(node)
<1>1. ReadBNode(data, at) = [node |-> IF node.isLeaf THEN node ELSE Node(FALSE, node.key, offsets),
                             end |-> end]
  BY ReadBNodeIs
<1> HIDE DEF end
<1>2. CASE node.isLeaf
  BY <1>1, <1>2 DEF LoadBNode, BLoaded, end
<1>3. CASE ~node.isLeaf
  <2> DEFINE x == Node(FALSE, node.key, offsets)
             item == [j \in DOMAIN node.key |-> due + j]
  <2>1. ReadBNode(data, at) = [node |-> x, end |-> end] /\ ~x.isLeaf /\ x.key = node.key
    BY <1>1, <1>3 DEF Node
  <2>2. LoadBNode(data, at, due) = [[node |-> x, end |-> end] EXCEPT !.node.item = item]
    <3> HIDE DEF x
    <3> QED BY <2>1 DEF LoadBNode, ChildNumber
  <2> HIDE DEF item
  <2>3. [[node |-> x, end |-> end] EXCEPT !.node.item = item] = [node |-> Node(FALSE, node.key, item), end |-> end]
    <3>1. [x EXCEPT !.item = item] = Node(FALSE, node.key, item)
      <4> DEFINE k == node.key
                 b == FALSE
      <4>1. x = [isLeaf |-> b, key |-> k, item |-> offsets]
        BY DEF Node
      <4> HIDE DEF x, k, b
      <4>2. [x EXCEPT !.item = item] = [isLeaf |-> b, key |-> k, item |-> item]
        BY <4>1
      <4> QED BY <4>2 DEF Node, k, b
    <3> HIDE DEF x
    <3>2. [[node |-> x, end |-> end] EXCEPT !.node.item = item] =
            [node |-> [x EXCEPT !.item = item], end |-> end]
      OBVIOUS
    <3> QED BY <3>1, <3>2
  <2> QED BY <1>3, <2>2, <2>3 DEF BLoaded, item, end
<1> QED BY <1>2, <1>3

LEMMA BLoadedOK ==
    ASSUME NEW node, BNodeOK(node), NEW due \in Nat
    PROVE  LET new == BLoaded(node, due)
           IN  /\ BNodeOK(new) /\ new.isLeaf = node.isLeaf /\ new.key = node.key
               /\ new.isLeaf => new = node
               /\ ~new.isLeaf => \A i \in 1 .. Len(node.key) : new.item[i] = due + i
<1> DEFINE new == BLoaded(node, due)
           n == Len(node.key)
           item == [j \in 1 .. n |-> due + j]
<1>1. /\ node \in BNode /\ node.isLeaf \in BOOLEAN /\ node.key \in Seq(Nat) /\ n \in 1 .. MaxPerNode /\ n \in Nat
      /\ DOMAIN node.key = 1 .. n
  <2>1. node \in BNode /\ n \in 1 .. MaxPerNode
    BY DEF BNodeOK, BShape
  <2>2. node.isLeaf \in BOOLEAN /\ node.key \in Seq(Nat)
    BY <2>1 DEF BNode
  <2> QED BY <2>1, <2>2
<1>2. CASE node.isLeaf
  BY <1>1, <1>2 DEF BLoaded
<1>3. CASE ~node.isLeaf
  <2>1. new = [isLeaf |-> FALSE, key |-> node.key, item |-> item]
    BY <1>1, <1>3 DEF BLoaded, Node
  <2>2. item \in Seq(BItem) /\ Len(item) = n /\ \A i \in 1 .. n : item[i] = due + i /\ item[i] \in Nat
    <3>1. \A i \in 1 .. n : due + i \in BItem /\ due + i \in Nat
      BY <1>1 DEF BItem
    <3> DEFINE F(j) == due + j
    <3>2. item = [j \in 1 .. n |-> F(j)] /\ \A j \in 1 .. n : F(j) \in BItem
      BY <3>1
    <3>3. \A i \in 1 .. n : item[i] = due + i /\ item[i] \in Nat
      BY <3>1
    <3> HIDE DEF n, F, item
    <3>4. item \in [1 .. n -> BItem]
      BY <3>2
    <3>5. item \in Seq(BItem) /\ Len(item) = n
      BY <1>1, <3>4
    <3> QED BY <3>3, <3>5
  <2> HIDE DEF item
  <2>3. new \in BNode
    BY <1>1, <2>1, <2>2 DEF BNode
  <2>4. new.isLeaf = FALSE /\ new.key = node.key /\ new.item = item
    BY <2>1
  <2> HIDE DEF new
  <2>5. \A i, j \in 1 .. n : item[i] = item[j] => i = j
    BY <1>1, <2>2
  <2>6. BShape(new)
    BY <2>2, <2>3, <2>4, <2>5 DEF BShape
  <2>7. BNodeOK(new)
    BY <1>1, <2>4, <2>6 DEF BNodeOK
  <2>8. new.isLeaf = node.isLeaf /\ ~new.isLeaf
    BY <1>1, <1>3, <2>4
  <2>9. \A i \in 1 .. Len(node.key) : new.item[i] = due + i
    BY <2>2, <2>4
  <2> QED BY <2>4, <2>7, <2>8, <2>9 DEF new
<1> QED BY <1>1, <1>2, <1>3

-----------------------------------------------------------------------------
(* The file of a B-tree *)

\* What write2file writes, whatever was in the file.
BFile(t) == Joined(BParts(t))

LEMMA BWriteIs ==
    ASSUME NEW t, NEW ht, BTreeOK(t, ht), NEW old
    PROVE  BTreeWrite(t, old) = BFile(t)
<1> DEFINE children == BTreeChildren(t)
           order == BOrder(t)
           N == Len(t.node)
           size == [n \in DOMAIN t.node |-> BTreeNodeSize(t.node[n])]
           start == Sums([i \in DOMAIN order |-> size[order[i]]])
           offsetArray(i) == [j \in DOMAIN children[order[i]] |-> start[Len(BPushed(t)[i - 1]) + j - 1]]
<1>1. Len(children) = N /\ N \in Nat /\ DOMAIN t.node = 1 .. N
  <2>1. Len(children) = N
    BY BKidsAre DEF BKidsOf
  <2>2. t.node \in Seq(BNode)
    BY DEF BTreeOK, BTreeType
  <2> QED BY <2>1, <2>2
<1>2. DOMAIN order = 1 .. N /\ \A i \in 1 .. N : order[i] \in 1 .. N
  BY BOrderIs
<1>3. BTreeWrite(t, old) = Joined([i \in DOMAIN order |-> BTreeFields(t.node[order[i]], offsetArray(i))])
  <2>1. BreadthFirst(children, t.root)[Len(children)] = order
    BY <1>1 DEF BOrder, BPushed
  <2>2. t.root # 0
    BY DEF BTreeOK
  <2> QED BY <2>1, <2>2 DEF BTreeWrite, WriteNodes, BPushed
<1> HIDE DEF order, N, children
<1>4. [i \in DOMAIN order |-> size[order[i]]] = BSizes(t)
  <2>1. \A i \in 1 .. N : size[order[i]] = BTreeNodeSize(t.node[order[i]])
    BY <1>1, <1>2
  <2> QED BY <1>2, <2>1 DEF BSizes, order, N
<1>5. \A i \in 1 .. N : BDue(t)[i - 1] = Len(BPushed(t)[i - 1])
  <2>1. \A i \in 1 .. N : i - 1 \in 0 .. N
    BY <1>1
  <2> QED BY <2>1 DEF BDue, N
<1>6. \A i \in 1 .. N : offsetArray(i) = BOffsets(t, i)
  BY <1>4, <1>5 DEF BOffsets, order, children
<1> HIDE DEF offsetArray
<1>7. [i \in DOMAIN order |-> BTreeFields(t.node[order[i]], offsetArray(i))] = BParts(t)
  BY <1>2, <1>6 DEF BParts, order, N
<1> QED BY <1>3, <1>7 DEF BFile

LEMMA BPartsAre ==
    ASSUME NEW t, NEW ht, BTreeOK(t, ht)
    PROVE  /\ BParts(t) \in Seq(Seq(Nat)) /\ Len(BParts(t)) = Len(t.node)
           /\ \A i \in 1 .. Len(t.node) :
                /\ BParts(t)[i] = BTreeFields(t.node[BOrder(t)[i]], BOffsets(t, i))
                /\ BOffsetsOK(t.node[BOrder(t)[i]], BOffsets(t, i))
                /\ Len(BParts(t)[i]) = BTreeNodeSize(t.node[BOrder(t)[i]])
                /\ Len(BParts(t)[i]) >= 1
<1> DEFINE N == Len(t.node)
           order == BOrder(t)
           parts == BParts(t)
           s == BSizes(t)
<1>1. N \in Nat /\ \A i \in 1 .. N : /\ order[i] \in 1 .. N /\ BNodeOK(t.node[order[i]])
  BY BOrderIs, BDueIs
<1>2. s \in Seq(Nat) /\ Len(s) = N
  <2>1. s = [i \in 1 .. N |-> BTreeNodeSize(t.node[order[i]])]
    BY DEF BSizes
  <2>2. ASSUME NEW i \in 1 .. N PROVE BTreeNodeSize(t.node[order[i]]) \in Nat
    <3> DEFINE node == t.node[order[i]]
               offs == [j \in 1 .. Len(node.key) |-> 0]
    <3>1. Len(node.key) \in Nat
      BY <1>1, MaxPerNodeAssumption DEF BNodeOK
    <3>2. BOffsetsOK(node, offs)
      BY <3>1 DEF BOffsetsOK
    <3>3. BNodeOK(node)
      BY <1>1
    <3> HIDE DEF node, offs
    <3>4. BTreeNodeSize(node) \in Nat
      BY <3>2, <3>3, BFieldsAre
    <3> QED BY <3>4 DEF node
  <2> HIDE DEF s, N, order
  <2> QED BY <1>1, <2>1, <2>2
<1>3. Sums(s) \in [0 .. N -> Nat]
  <2> HIDE DEF s, N
  <2> QED BY <1>2, SumsStep
<1>4. ASSUME NEW i \in 1 .. N PROVE BOffsetsOK(t.node[order[i]], BOffsets(t, i))
  <2> DEFINE node == t.node[order[i]]
             kids == BTreeChildren(t)[order[i]]
             c == Len(node.key)
  <2>0. BNodeOK(node) /\ c \in Nat /\ node.isLeaf \in BOOLEAN
    <3>1. BNodeOK(node)
      BY <1>1
    <3> HIDE DEF node
    <3> QED BY <3>1, BNodeTypes
  <2>1. SUFFICES ASSUME ~node.isLeaf
                 PROVE  BOffsets(t, i) \in Seq(Nat) /\ Len(BOffsets(t, i)) = c
    <3> DEFINE f == BOffsets(t, i)
    <3>1. ~node.isLeaf => f \in Seq(Nat) /\ Len(f) = Len(node.key)
      BY <2>0
    <3> HIDE DEF node, f
    <3>2. BOffsetsOK(node, f)
      BY <3>1 DEF BOffsetsOK
    <3> QED BY <3>2 DEF node, f
  <2>2. Len(kids) = c /\ kids \in Seq(1 .. N)
    <3>1. order[i] \in 1 .. Len(t.node)
      BY <1>1
    <3>2. BKidsOf(t, BTreeChildren(t))
      BY BKidsAre
    <3>3. Len(kids) = c /\ BTreeChildren(t) \in Seq(Seq(1 .. N)) /\ Len(BTreeChildren(t)) = N
      BY <2>1, <3>1, <3>2 DEF BKidsOf
    <3>4. kids \in Seq(1 .. N)
      BY <1>1, <3>3, ElementOfSeq
    <3> QED BY <3>3, <3>4
  <2>3. \A k \in 1 .. Len(kids) : BDue(t)[i - 1] + k \in 1 .. N
    BY BDueIs
  <2>4. BDue(t)[i - 1] \in Nat
    <3>1. i - 1 \in 0 .. N /\ 1 .. N \subseteq Nat
      BY <1>1
    <3>2. BDue(t) \in [0 .. N -> 1 .. N]
      BY BDueIs
    <3> QED BY <3>1, <3>2
  <2>5. BOffsets(t, i) = [j \in DOMAIN kids |-> Sums(s)[BDue(t)[i - 1] + j - 1]]
    BY DEF BOffsets
  <2> HIDE DEF s, N, kids, node, c, order
  <2>6. DOMAIN kids = 1 .. c
    BY <2>2
  <2>7. ASSUME NEW j \in 1 .. c PROVE Sums(s)[BDue(t)[i - 1] + j - 1] \in Nat
    <3> DEFINE m == BDue(t)[i - 1] + j - 1
    <3>1. m \in 0 .. N
      BY <1>1, <2>0, <2>2, <2>3, <2>4
    <3> HIDE DEF m
    <3>2. Sums(s)[m] \in Nat
      BY <1>3, <3>1
    <3> QED BY <3>2 DEF m
  <2> DEFINE f == BOffsets(t, i)
  <2>8. f = [j \in 1 .. c |-> Sums(s)[BDue(t)[i - 1] + j - 1]]
    BY <2>5, <2>6
  <2> HIDE DEF f
  <2>9. f \in Seq(Nat) /\ Len(f) = c
    BY <2>0, <2>7, <2>8
  <2> QED BY <2>9 DEF f
<1>5. ASSUME NEW i \in 1 .. N
      PROVE  LET f == BTreeFields(t.node[order[i]], BOffsets(t, i))
             IN  f \in Seq(Nat) /\ Len(f) = BTreeNodeSize(t.node[order[i]]) /\ Len(f) >= 1
  <2> DEFINE node == t.node[order[i]]
             offs == BOffsets(t, i)
  <2>1. BNodeOK(node) /\ BOffsetsOK(node, offs)
    BY <1>1, <1>4
  <2> HIDE DEF node, offs
  <2>2. /\ BTreeFields(node, offs) \in Seq(Nat)
        /\ Len(BTreeFields(node, offs)) = BTreeNodeSize(node) /\ BTreeNodeSize(node) >= 1
    BY <2>1, BFieldsAre
  <2> QED BY <2>2 DEF node, offs
<1>6. parts = [i \in 1 .. N |-> BTreeFields(t.node[order[i]], BOffsets(t, i))]
  BY DEF BParts
<1> HIDE DEF parts, N, order
<1>7. parts \in Seq(Seq(Nat)) /\ Len(parts) = N
  BY <1>1, <1>5, <1>6
<1>8. ASSUME NEW i \in 1 .. N
      PROVE  /\ parts[i] = BTreeFields(t.node[order[i]], BOffsets(t, i))
             /\ Len(parts[i]) = BTreeNodeSize(t.node[order[i]]) /\ Len(parts[i]) >= 1
  BY <1>5, <1>6
<1> QED BY <1>4, <1>7, <1>8 DEF parts, N, order

\* The B-tree that is loaded: its nodes are those of t in the order of the file.
BRenumbered(t) ==
    [node |-> [i \in 1 .. Len(t.node) |-> BLoaded(t.node[BOrder(t)[i]], BDue(t)[i - 1])],
     root |-> 1, nodeCount |-> Len(t.node), treeDepth |-> 0]

\* readFromFile when m nodes were read.
BNodesRead(t, m) ==
    [at |-> Starts(BParts(t))[m], node |-> First(BRenumbered(t).node, m), due |-> BDue(t)[m]]

\* Reading one more node, unless all of them were read.
BNextRead(data, x) ==
    IF Len(x.node) = x.due THEN x
    ELSE LET next == LoadBNode(data, x.at, x.due)
         IN  [at |-> next.end, node |-> Append(x.node, next.node),
              due |-> x.due + IF next.node.isLeaf THEN 0 ELSE Len(next.node.key)]

LEMMA BNextReadIs ==
    ASSUME NEW t, NEW ht, BTreeOK(t, ht), NEW i \in 1 .. Len(t.node)
    PROVE  /\ BNextRead(BFile(t), BNodesRead(t, i - 1)) = BNodesRead(t, i)
           /\ BNextRead(BFile(t), BNodesRead(t, Len(t.node))) = BNodesRead(t, Len(t.node))
           /\ BNodesRead(t, 0) = [at |-> 0, node |-> <<>>, due |-> 1]
           /\ Len(BFile(t)) \in Nat /\ Len(BFile(t)) >= Len(t.node)
           /\ BFile(t) \in Seq(Nat)
<1> DEFINE N == Len(t.node)
           data == BFile(t)
           parts == BParts(t)
           order == BOrder(t)
           due == BDue(t)
           new == BRenumbered(t).node
           s == Starts(parts)
<1>1. /\ parts \in Seq(Seq(Nat)) /\ Len(parts) = N
      /\ \A k \in 1 .. N :
           /\ parts[k] = BTreeFields(t.node[order[k]], BOffsets(t, k))
           /\ BOffsetsOK(t.node[order[k]], BOffsets(t, k))
           /\ Len(parts[k]) = BTreeNodeSize(t.node[order[k]]) /\ Len(parts[k]) >= 1
  BY BPartsAre
<1>2. /\ N \in Nat /\ due \in [0 .. N -> 1 .. N] /\ due[0] = 1 /\ due[N] = N
      /\ \A k \in 1 .. N : k <= due[k - 1] /\ due[k] = due[k - 1] + Len(BTreeChildren(t)[order[k]])
  BY BDueIs
<1>3. \A k \in 1 .. N : /\ order[k] \in 1 .. N /\ BNodeOK(t.node[order[k]])
  BY BOrderIs
<1>4. data = Joined(parts)
  BY DEF BFile
<1>5. new = [k \in 1 .. N |-> BLoaded(t.node[order[k]], due[k - 1])]
  BY DEF BRenumbered
<1>6. /\ data \in Seq(Nat) /\ Len(data) = s[N] /\ Len(data) \in Nat
      /\ \A h \in 1 .. N : Holds(data, s[h - 1], parts[h])
      /\ s \in [0 .. N -> Nat] /\ s[0] = 0
      /\ \A k \in 1 .. N : s[k] = s[k - 1] + Len(parts[k])
  <2> HIDE DEF data, parts, N
  <2>1. /\ s \in [0 .. Len(parts) -> Nat] /\ s[0] = 0
        /\ \A k \in 1 .. Len(parts) : s[k] = s[k - 1] + Len(parts[k])
    BY <1>1, StartsStep
  <2>2. Joined(parts) \in Seq(Nat) /\ Len(Joined(parts)) = s[Len(parts)]
    BY <1>1, JoinedAt
  <2>3. \A j \in 0 .. Len(parts) : \A h \in 0 .. j : s[h] <= s[j]
    BY <1>1, StartsStep
  <2>4. ASSUME NEW h \in 1 .. N PROVE Holds(data, s[h - 1], parts[h])
    <3>1. Len(data) \in Nat
      BY <1>4, <2>2, LenProperties
    <3>2. Holds(data, 0, Joined(parts))
      BY <1>4, <3>1 DEF Holds
    <3>3. Holds(data, 0 + Starts(parts)[h - 1], parts[h])
      BY <1>1, <3>1, <3>2, HoldsJoined
    <3>4. s[h - 1] \in Nat
      <4>1. h - 1 \in 0 .. N
        BY <1>2
      <4> QED BY <1>1, <2>1, <4>1
    <3>5. 0 + s[h - 1] = s[h - 1]
      BY <3>4
    <3> QED BY <3>3, <3>5
  <2>5. Len(data) \in Nat
    BY <1>4, <2>2, LenProperties
  <2> HIDE DEF s
  <2> QED BY <1>1, <1>4, <2>1, <2>2, <2>4, <2>5
<1> HIDE DEF data, parts, new, due, s, order, N
<1>7. new \in [1 .. N -> BNode] /\ Len(new) = N /\ DOMAIN new = 1 .. N
  <2>1. ASSUME NEW k \in 1 .. N PROVE BLoaded(t.node[order[k]], due[k - 1]) \in BNode
    <3>1. due[k - 1] \in Nat
      <4>1. k - 1 \in 0 .. N /\ 1 .. N \subseteq Nat
        BY <1>2
      <4> QED BY <1>2, <4>1
    <3>2. BNodeOK(BLoaded(t.node[order[k]], due[k - 1]))
      BY <1>3, <3>1, BLoadedOK
    <3> QED BY <3>2 DEF BNodeOK, BShape
  <2> DEFINE F(k) == BLoaded(t.node[order[k]], due[k - 1])
  <2>2. new = [k \in 1 .. N |-> F(k)] /\ \A k \in 1 .. N : F(k) \in BNode
    BY <1>5, <2>1
  <2> HIDE DEF F
  <2>3. new \in [1 .. N -> BNode]
    BY <2>2
  <2>4. Len(new) = N
    BY <1>2, <2>2
  <2> QED BY <2>2, <2>3, <2>4
<1>8. \A m \in 0 .. N : BNodesRead(t, m) = [at |-> s[m], node |-> First(new, m), due |-> due[m]]
                        /\ Len(First(new, m)) = m
  <2>1. \A m \in 0 .. N : m \in Nat
    BY <1>2
  <2> QED BY <2>1 DEF BNodesRead, s, new, due, parts, First
<1>9. BNextRead(data, BNodesRead(t, N)) = BNodesRead(t, N)
  <2>1. N \in 0 .. N
    BY <1>2
  <2>2. Len(BNodesRead(t, N).node) = BNodesRead(t, N).due
    BY <1>2, <1>8, <2>1
  <2> QED BY <2>2 DEF BNextRead
<1>10. BNodesRead(t, 0) = [at |-> 0, node |-> <<>>, due |-> 1]
  <2>1. 0 \in 0 .. N /\ First(new, 0) = <<>>
    BY <1>2 DEF First
  <2> QED BY <1>2, <1>6, <1>8, <2>1
<1>11. BNextRead(data, BNodesRead(t, i - 1)) = BNodesRead(t, i)
  <2> DEFINE node == t.node[order[i]]
             x == BNodesRead(t, i - 1)
             c == IF node.isLeaf THEN 0 ELSE Len(node.key)
             fresh == BLoaded(node, due[i - 1])
  <2>1. i \in 1 .. N /\ i \in 0 .. N /\ i - 1 \in 0 .. N /\ i \in Nat /\ i # 0 /\ 0 + i = i
    BY <1>2 DEF N
  <2>2. x = [at |-> s[i - 1], node |-> First(new, i - 1), due |-> due[i - 1]]
        /\ Len(First(new, i - 1)) = i - 1
    BY <1>8, <2>1
  <2>3. x.at = s[i - 1] /\ x.node = First(new, i - 1) /\ x.due = due[i - 1] /\ Len(x.node) = i - 1
    BY <2>2
  <2>4. due[i - 1] \in Nat /\ s[i - 1] \in Nat /\ Len(x.node) # x.due
    <3>1. 1 .. N \subseteq Nat
      OBVIOUS
    <3>2. due[i - 1] \in Nat /\ s[i - 1] \in Nat
      BY <1>2, <1>6, <2>1, <3>1
    <3>3. i <= due[i - 1]
      BY <1>2, <2>1
    <3> HIDE DEF x
    <3> QED BY <2>1, <2>3, <3>2, <3>3
  <2>5. BNodeOK(node) /\ BOffsetsOK(node, BOffsets(t, i))
        /\ Holds(data, s[i - 1], BTreeFields(node, BOffsets(t, i)))
    BY <1>1, <1>3, <1>6, <2>1
  <2> HIDE DEF node, x
  <2>6. LoadBNode(data, x.at, x.due) = [node |-> fresh, end |-> s[i - 1] + BTreeNodeSize(node)]
    BY <1>6, <2>3, <2>4, <2>5, LoadBNodeIs
  <2>7. fresh.isLeaf = node.isLeaf /\ Len(fresh.key) = Len(node.key)
    BY <2>4, <2>5, BLoadedOK
  <2> HIDE DEF fresh
  <2>8. BNextRead(data, x) = [at |-> s[i - 1] + BTreeNodeSize(node), node |-> Append(x.node, fresh),
                             due |-> x.due + c]
    <3> DEFINE next == LoadBNode(data, x.at, x.due)
    <3>1. next.node = fresh /\ next.end = s[i - 1] + BTreeNodeSize(node)
      BY <2>6
    <3>2. BNextRead(data, x) = [at |-> next.end, node |-> Append(x.node, next.node),
                               due |-> x.due + IF next.node.isLeaf THEN 0 ELSE Len(next.node.key)]
      BY <2>4 DEF BNextRead
    <3> HIDE DEF next
    <3> QED BY <2>7, <3>1, <3>2
  <2>9. Append(x.node, fresh) = First(new, i)
    <3>1. new[i] = fresh
      BY <1>5, <2>1 DEF fresh, node
    <3> QED BY <1>2, <1>7, <2>1, <2>3, <3>1, FirstGrows
  <2>10. s[i] = s[i - 1] + BTreeNodeSize(node)
    BY <1>1, <1>6, <2>1 DEF node
  <2>11. due[i] = x.due + c
    <3>1. due[i] = due[i - 1] + Len(BTreeChildren(t)[order[i]])
      BY <1>2, <2>1
    <3>2. Len(BTreeChildren(t)[order[i]]) = c
      <4>1. order[i] \in 1 .. Len(t.node)
        BY <1>3, <2>1 DEF N
      <4>2. BKidsOf(t, BTreeChildren(t)) /\ node.isLeaf \in BOOLEAN
        BY <2>5, BKidsAre, BNodeTypes
      <4>3. CASE node.isLeaf
        BY <4>1, <4>2, <4>3 DEF BKidsOf, node
      <4>4. CASE ~node.isLeaf
        BY <4>1, <4>2, <4>4 DEF BKidsOf, node
      <4> QED BY <4>3, <4>4
    <3> QED BY <2>3, <3>1, <3>2
  <2>12. BNodesRead(t, i) = [at |-> s[i], node |-> First(new, i), due |-> due[i]]
    BY <1>8, <2>1
  <2> QED BY <2>8, <2>9, <2>10, <2>11, <2>12 DEF x
<1>12. Len(data) >= N
  <2> DEFINE good == [k \in 0 .. N |-> {m \in Nat : k <= m}]
  <2>1. s[0] \in good[0]
    BY <1>2, <1>6
  <2>2. ASSUME NEW k \in 1 .. N, s[k - 1] \in good[k - 1] PROVE s[k] \in good[k]
    <3>1. k \in 0 .. N /\ k - 1 \in 0 .. N /\ k \in Nat
      BY <1>2
    <3>2. s[k] \in Nat /\ s[k - 1] \in Nat /\ k - 1 <= s[k - 1]
      BY <1>6, <2>2, <3>1
    <3>3. s[k] = s[k - 1] + Len(parts[k]) /\ Len(parts[k]) >= 1 /\ parts[k] \in Seq(Nat)
      BY <1>1, <1>6
    <3>4. Len(parts[k]) \in Nat
      BY <3>3, LenProperties
    <3>5. k <= s[k]
      BY <3>1, <3>2, <3>3, <3>4
    <3> QED BY <3>1, <3>2, <3>5
  <2> HIDE DEF good
  <2>3. \A k \in 0 .. N : s[k] \in good[k]
    BY <1>2, <2>1, <2>2, LoopKeeps
  <2>4. N \in 0 .. N
    BY <1>2
  <2>5. s[N] \in good[N]
    BY <2>3, <2>4
  <2> QED BY <1>2, <1>6, <2>4, <2>5 DEF good
<1> QED BY <1>6, <1>9, <1>10, <1>11, <1>12 DEF data, N

\* What is saved and loaded is the same B-tree with its nodes renumbered.
LEMMA BReadIs ==
    ASSUME NEW t, NEW ht, BTreeOK(t, ht)
    PROVE  BTreeRead(BFile(t)) = BRenumbered(t)
<1> DEFINE N == Len(BFile(t))
           U == {BNodesRead(t, m) : m \in 0 .. Len(t.node)}
           start == [at |-> 0, node |-> <<>>, due |-> 1]
           Turn(i, x) == BNextRead(BFile(t), x)
           Good(i, x) ==
             x = BNodesRead(t, IF i <= Len(t.node) THEN i ELSE Len(t.node))
           Solves(f) == f = [i \in 0 .. N |-> IF i = 0 THEN start ELSE Turn(i, f[i - 1])]
           read == CHOOSE f : Solves(f)
<1> DEFINE M == Len(t.node)
<1>0. /\ N \in Nat /\ N >= M /\ M \in Nat /\ M >= 1
      /\ BNodesRead(t, 0) = start /\ Turn(1, BNodesRead(t, M)) = BNodesRead(t, M)
      /\ \A i \in 1 .. M : Turn(i, BNodesRead(t, i - 1)) = BNodesRead(t, i)
  <2>1. 1 \in 1 .. M /\ M \in Nat /\ M >= 1
    <3>1. M \in Nat /\ 1 \in 1 .. M
      BY DEF BTreeOK, BTreeType
    <3> QED BY <3>1
  <2> QED BY <2>1, BNextReadIs
<1>1. N \in Nat /\ start \in U /\ Good(0, start)
  BY <1>0
<1>2. ASSUME NEW i \in 1 .. N, NEW x \in U, Good(i - 1, x)
      PROVE  Turn(i, x) \in U /\ Good(i, Turn(i, x))
  <2> HIDE DEF N, M, start
  <2>0. i \in Nat /\ i - 1 \in Nat /\ i >= 1
    BY <1>0
  <2>1. CASE i <= M
    <3>1. i - 1 <= M /\ i \in 1 .. M /\ i \in 0 .. M
      BY <1>0, <2>0, <2>1
    <3>2. x = BNodesRead(t, i - 1)
      BY <1>2, <3>1 DEF M
    <3>3. Turn(i, x) = BNodesRead(t, i)
      BY <1>0, <3>1, <3>2
    <3> HIDE DEF Turn
    <3> QED BY <2>1, <3>1, <3>3 DEF M
  <2>2. CASE ~(i <= M)
    <3>1. i - 1 <= M => i - 1 = M
      BY <1>0, <2>0, <2>2
    <3>2. x = BNodesRead(t, M)
      BY <1>2, <3>1 DEF M
    <3>3. Turn(i, x) = BNodesRead(t, M) /\ M \in 0 .. M
      BY <1>0, <3>2
    <3> HIDE DEF Turn
    <3> QED BY <2>2, <3>3 DEF M
  <2> QED BY <2>1, <2>2
<1> HIDE DEF N, U, start, Good, Turn, M
<1>3. \E f : Solves(f)
  <2> DEFINE good == [i \in 0 .. N |-> {x \in U : Good(i, x)}]
             step == [i \in 1 .. N |-> [x \in good[i - 1] |-> Turn(i, x)]]
  <2>1. good \in [0 .. N -> SUBSET U] /\ start \in good[0]
    BY <1>1
  <2>2. ASSUME NEW i \in 1 .. N, NEW x \in good[i - 1]
        PROVE  step[i][x] = Turn(i, x) /\ Turn(i, x) \in good[i]
    <3>1. i \in 0 .. N /\ i - 1 \in 0 .. N
      BY <1>1
    <3>2. x \in U /\ Good(i - 1, x)
      BY <3>1
    <3>3. Turn(i, x) \in U /\ Good(i, Turn(i, x))
      BY <1>2, <3>2
    <3> QED BY <3>1, <3>3
  <2> HIDE DEF good, step
  <2>3. PICK f : Runs(f, N, U, good, start, step)
    <3>1. Loop(N, U, good, start, step)
      BY <1>1, <2>1, <2>2 DEF Loop
    <3> QED BY <3>1, LoopSolved
  <2>4. ASSUME NEW i \in 0 .. N
        PROVE  f[i] = IF i = 0 THEN start ELSE Turn(i, f[i - 1])
    <3>1. CASE i = 0
      BY <2>3, <3>1 DEF Runs
    <3>2. CASE i # 0
      <4>1. i \in 1 .. N
        BY <1>1, <3>2
      <4> QED BY <2>2, <2>3, <3>2, <4>1 DEF Runs
    <3> QED BY <3>1, <3>2
  <2>5. f = [i \in 0 .. N |-> f[i]]
    BY <2>3 DEF Runs
  <2>6. Solves(f)
    BY <2>4, <2>5
  <2> QED BY <2>6
<1>4. Solves(read)
  BY <1>3
<1> HIDE DEF read
<1>5. read[0] = start /\ \A i \in 1 .. N : read[i] = Turn(i, read[i - 1])
  BY <1>1, <1>4
<1>6. \A i \in 0 .. N : read[i] \in U /\ Good(i, read[i])
  <2> DEFINE good == [i \in 0 .. N |-> {x \in U : Good(i, x)}]
  <2>1. read[0] \in good[0]
    BY <1>1, <1>5
  <2>2. ASSUME NEW i \in 1 .. N, read[i - 1] \in good[i - 1] PROVE read[i] \in good[i]
    <3>1. i \in 0 .. N /\ i - 1 \in 0 .. N
      BY <1>1
    <3>2. read[i - 1] \in U /\ Good(i - 1, read[i - 1])
      BY <2>2, <3>1
    <3>3. read[i] \in U /\ Good(i, read[i])
      BY <1>2, <1>5, <3>2
    <3> QED BY <3>1, <3>3
  <2>3. \A i \in 0 .. N : read[i] \in good[i]
    <3> HIDE DEF good
    <3> QED BY <1>1, <2>1, <2>2, LoopKeeps
  <2> QED BY <2>3
<1>7. read[N] = BNodesRead(t, M)
  <2>1. N \in 0 .. N /\ (N <= M => N = M)
    BY <1>0, <1>1
  <2> QED BY <1>6, <2>1 DEF Good, M
<1>8. read[N].node = BRenumbered(t).node
  <2>1. read[N].node = First(BRenumbered(t).node, M)
    BY <1>7 DEF BNodesRead
  <2>2. First(BRenumbered(t).node, M) = BRenumbered(t).node
    BY DEF First, BRenumbered, M
  <2> QED BY <2>1, <2>2
<1>9. Len(BRenumbered(t).node) = M
  <2> DEFINE F(i) == BLoaded(t.node[BOrder(t)[i]], BDue(t)[i - 1])
  <2>1. BRenumbered(t).node = [i \in 1 .. M |-> F(i)]
    BY DEF BRenumbered, M
  <2> HIDE DEF F
  <2> QED BY <1>0, <2>1
<1>10. BTreeRead(BFile(t)) = [node |-> read[N].node, root |-> 1, nodeCount |-> Len(read[N].node),
                               treeDepth |-> 0]
  BY DEF BTreeRead, ReadNodes, read, Turn, BNextRead, N, start
<1> QED BY <1>8, <1>9, <1>10 DEF BRenumbered, M

\* How a node of the loaded tree corresponds to one of the tree that was saved.
BSame(t, i) ==
    LET old == t.node[BOrder(t)[i]]
        new == BRenumbered(t).node[i]
    IN  /\ BNodeOK(old) /\ BOrder(t)[i] \in 1 .. Len(t.node)
        /\ BNodeOK(new) /\ new.isLeaf = old.isLeaf /\ new.key = old.key
        /\ new.isLeaf => new = old
        /\ ~new.isLeaf => \A j \in 1 .. Len(old.key) :
             /\ new.item[j] = BDue(t)[i - 1] + j /\ new.item[j] \in 1 .. Len(t.node)
             /\ BOrder(t)[new.item[j]] = old.item[j]

LEMMA BRenumberedNode ==
    ASSUME NEW t, NEW ht, BTreeOK(t, ht), NEW i \in 1 .. Len(t.node)
    PROVE  BSame(t, i)
<1> DEFINE old == t.node[BOrder(t)[i]]
           new == BRenumbered(t).node[i]
           due == BDue(t)[i - 1]
           kids == BTreeChildren(t)[BOrder(t)[i]]
<1>1. BNodeOK(old) /\ BOrder(t)[i] \in 1 .. Len(t.node)
  BY BOrderIs
<1>2. new = BLoaded(old, due)
  BY DEF BRenumbered
<1>3. due \in Nat
  <2>1. i - 1 \in 0 .. Len(t.node) /\ 1 .. Len(t.node) \subseteq Nat
    BY BDueIs
  <2>2. BDue(t) \in [0 .. Len(t.node) -> 1 .. Len(t.node)]
    BY BDueIs
  <2> QED BY <2>1, <2>2
<1>4. \A k \in 1 .. Len(kids) : due + k \in 1 .. Len(t.node) /\ BOrder(t)[due + k] = kids[k]
  <2> USE DEF kids, due
  <2>1. \A j \in 1 .. Len(t.node) : \A k \in 1 .. Len(BTreeChildren(t)[BOrder(t)[j]]) :
          /\ BDue(t)[j - 1] + k \in 1 .. Len(t.node)
          /\ BOrder(t)[BDue(t)[j - 1] + k] = BTreeChildren(t)[BOrder(t)[j]][k]
    BY BDueIs, Zenon
  <2> QED BY <2>1, Zenon
<1>5. BKidsOf(t, BTreeChildren(t))
  BY BKidsAre
<1>6. ~old.isLeaf => kids = old.item /\ Len(kids) = Len(old.key)
  BY <1>1, <1>5 DEF BKidsOf
<1> HIDE DEF old, due, kids, new
<1>7. /\ BNodeOK(new) /\ new.isLeaf = old.isLeaf /\ new.key = old.key
      /\ new.isLeaf => new = old
      /\ ~new.isLeaf => \A j \in 1 .. Len(old.key) : new.item[j] = due + j
  BY <1>1, <1>2, <1>3, BLoadedOK
<1>8. ASSUME ~new.isLeaf, NEW j \in 1 .. Len(old.key)
      PROVE  /\ new.item[j] = due + j /\ new.item[j] \in 1 .. Len(t.node)
             /\ BOrder(t)[new.item[j]] = old.item[j]
  <2>1. new.item[j] = due + j /\ kids = old.item /\ j \in 1 .. Len(kids)
    BY <1>6, <1>7, <1>8
  <2>2. due + j \in 1 .. Len(t.node) /\ BOrder(t)[due + j] = kids[j]
    BY <1>4, <2>1
  <2> QED BY <2>1, <2>2
<1> QED BY <1>1, <1>7, <1>8 DEF BSame, old, new, due

\* Its children are those of that node, under their numbers.
LEMMA BRenumberedKids ==
    ASSUME NEW t, NEW ht, BTreeOK(t, ht), NEW i \in 1 .. Len(t.node)
    PROVE  /\ \A c \in Kids(BRenumbered(t).node[i]) :
                c \in 1 .. Len(t.node) /\ BOrder(t)[c] \in Kids(t.node[BOrder(t)[i]])
           /\ \A c \in 1 .. Len(t.node) :
                BOrder(t)[c] \in Kids(t.node[BOrder(t)[i]]) => c \in Kids(BRenumbered(t).node[i])
<1> DEFINE old == t.node[BOrder(t)[i]]
           new == BRenumbered(t).node[i]
           n == Len(old.key)
<1>1. /\ new.isLeaf = old.isLeaf /\ new.key = old.key /\ old.isLeaf \in BOOLEAN
      /\ ~new.isLeaf => \A j \in 1 .. n :
           new.item[j] \in 1 .. Len(t.node) /\ BOrder(t)[new.item[j]] = old.item[j]
  <2>1. BSame(t, i)
    BY BRenumberedNode
  <2>2. BNodeOK(old)
    BY <2>1 DEF BSame
  <2>3. old.isLeaf \in BOOLEAN
    BY <2>2, BNodeTypes
  <2> QED BY <2>1, <2>3 DEF BSame
<1>2. \A k, l \in 1 .. Len(t.node) : BOrder(t)[k] = BOrder(t)[l] => k = l
  BY BDueIs
<1> HIDE DEF old, new
<1>3. CASE old.isLeaf
  <2>1. Kids(new) = {} /\ Kids(old) = {}
    BY <1>1, <1>3 DEF Kids
  <2> QED BY <2>1 DEF old, new
<1>4. CASE ~old.isLeaf
  <2>1. Kids(new) = {new.item[j] : j \in 1 .. n} /\ Kids(old) = {old.item[j] : j \in 1 .. n}
    BY <1>1, <1>4 DEF Kids
  <2>2. \A c \in Kids(new) : c \in 1 .. Len(t.node) /\ BOrder(t)[c] \in Kids(old)
    BY <1>1, <1>4, <2>1
  <2>3. ASSUME NEW c \in 1 .. Len(t.node), BOrder(t)[c] \in Kids(old)
        PROVE  c \in Kids(new)
    <3>1. PICK j \in 1 .. n : old.item[j] = BOrder(t)[c]
      BY <2>1, <2>3
    <3>2. new.item[j] \in 1 .. Len(t.node) /\ BOrder(t)[new.item[j]] = BOrder(t)[c]
      BY <1>1, <1>4, <3>1
    <3>3. new.item[j] = c
      BY <1>2, <3>2
    <3> QED BY <2>1, <3>3
  <2> QED BY <2>2, <2>3 DEF old, new
<1> QED BY <1>1, <1>3, <1>4

LEMMA BRenumberedOK ==
    ASSUME NEW t, NEW ht, BTreeOK(t, ht)
    PROVE  /\ BTreeOK(BRenumbered(t), [i \in 1 .. Len(t.node) |-> ht[BOrder(t)[i]]])
           /\ Len(BRenumbered(t).node) = Len(t.node) /\ BRenumbered(t).root = 1
<1> DEFINE N == Len(t.node)
           Nodes == 1 .. N
           order == BOrder(t)
           b == BRenumbered(t)
           r == b.node
           up == [i \in Nodes |-> ht[order[i]]]
<1>1. /\ N \in Nat /\ t.root \in Nodes /\ ht \in [Nodes -> 0 .. N - 1]
      /\ \A n \in Nodes : \A c \in Kids(t.node[n]) : c \in Nodes /\ c # t.root /\ ht[n] = ht[c] + 1
      /\ \A m, n \in Nodes : \A c \in Kids(t.node[m]) : c \in Kids(t.node[n]) => m = n
      /\ \A c \in Nodes \ {t.root} : \E n \in Nodes : c \in Kids(t.node[n])
  <2>1. N \in Nat
    BY BDueIs
  <2>2. t.root \in Nodes /\ Wood(t.node, ht, {t.root})
    BY DEF BTreeOK
  <2> QED BY <2>1, <2>2 DEF Wood
<1>2. /\ \A i \in Nodes : order[i] \in Nodes
      /\ order[1] = t.root
      /\ \A k, l \in Nodes : order[k] = order[l] => k = l
      /\ \A n \in Nodes : \E k \in Nodes : order[k] = n
  BY BOrderIs, BDueIs
<1>3. \A i \in Nodes : BNodeOK(r[i])
  BY BRenumberedNode DEF BSame
<1>4. /\ \A i \in Nodes : \A c \in Kids(r[i]) : c \in Nodes /\ order[c] \in Kids(t.node[order[i]])
      /\ \A i, c \in Nodes : order[c] \in Kids(t.node[order[i]]) => c \in Kids(r[i])
  BY BRenumberedKids
<1>5. r = [i \in Nodes |-> r[i]] /\ b = [node |-> r, root |-> 1, nodeCount |-> N, treeDepth |-> 0]
  BY DEF BRenumbered
<1>6. up \in [Nodes -> 0 .. N - 1] /\ \A i \in Nodes : up[i] = ht[order[i]]
  <2> HIDE DEF Nodes, order
  <2> QED BY <1>1, <1>2
<1> HIDE DEF r, order, b, up
<1>7. 1 \in Nodes
  BY <1>1
<1>8. r \in Seq(BNode) /\ Len(r) = N
  <2> DEFINE F(k) == r[k]
  <2>1. \A k \in Nodes : F(k) \in BNode
    BY <1>3, BNodeTypes
  <2>2. r = [k \in 1 .. N |-> F(k)]
    BY <1>5
  <2> HIDE DEF F, N
  <2> QED BY <1>1, <2>1, <2>2
<1> HIDE DEF Nodes
<1>9. \A n \in Nodes : \A c \in Kids(r[n]) : c \in Nodes /\ c # 1 /\ up[n] = up[c] + 1
  <2> TAKE n \in Nodes
  <2> TAKE c \in Kids(r[n])
  <2>1. c \in Nodes /\ order[c] \in Kids(t.node[order[n]]) /\ order[n] \in Nodes /\ order[c] \in Nodes
    BY <1>2, <1>4
  <2>2. order[c] # t.root /\ ht[order[n]] = ht[order[c]] + 1
    BY <1>1, <2>1
  <2> QED BY <1>2, <1>6, <2>1, <2>2
<1>10. \A m, n \in Nodes : \A c \in Kids(r[m]) : c \in Kids(r[n]) => m = n
  <2> TAKE m, n \in Nodes
  <2> TAKE c \in Kids(r[m])
  <2> HAVE c \in Kids(r[n])
  <2>1. order[c] \in Kids(t.node[order[m]]) /\ order[c] \in Kids(t.node[order[n]])
    BY <1>4
  <2>2. order[m] \in Nodes /\ order[n] \in Nodes
    BY <1>2
  <2>3. order[m] = order[n]
    BY <1>1, <2>1, <2>2
  <2> QED BY <1>2, <2>3
<1>11. \A c \in Nodes \ {1} : \E n \in Nodes : c \in Kids(r[n])
  <2> TAKE c \in Nodes \ {1}
  <2>1. order[c] \in Nodes \ {t.root}
    BY <1>2, <1>7
  <2>2. PICK m \in Nodes : order[c] \in Kids(t.node[m])
    BY <1>1, <2>1
  <2>3. PICK n \in Nodes : order[n] = m
    BY <1>2
  <2>4. c \in Kids(r[n])
    BY <1>4, <2>2, <2>3
  <2> QED BY <2>4
<1>12. Wood(r, up, {1})
  <2> DEFINE I == 1 .. Len(r)
             roots == {1}
  <2>1. I = Nodes /\ up \in [I -> 0 .. Len(r) - 1] /\ roots \subseteq I
    BY <1>6, <1>7, <1>8 DEF Nodes
  <2>2. \A c : c \in roots <=> c = 1
    OBVIOUS
  <2> HIDE DEF I, roots
  <2>3. \A n \in I : BNodeOK(r[n])
    BY <1>3, <2>1
  <2>4. /\ \A n \in I : \A c \in Kids(r[n]) : c \in I /\ c \notin roots /\ up[n] = up[c] + 1
        /\ \A m, n \in I : \A c \in Kids(r[m]) : c \in Kids(r[n]) => m = n
        /\ \A c \in I \ roots : \E n \in I : c \in Kids(r[n])
    BY <1>9, <1>10, <1>11, <2>1, <2>2
  <2>5. Wood(r, up, roots)
    BY <1>8, <2>1, <2>3, <2>4 DEF Wood, I
  <2> QED BY <2>5 DEF roots
<1>13. /\ b \in BTreeType /\ b.node = r /\ b.root = 1 /\ b.nodeCount = Len(r)
  BY <1>1, <1>5, <1>8 DEF BTreeType
<1>14. 1 \in 1 .. Len(r)
  BY <1>7, <1>8 DEF Nodes
<1>15. BTreeOK(b, up)
  BY <1>12, <1>13, <1>14 DEF BTreeOK
<1> QED BY <1>8, <1>13, <1>15 DEF b, up, order, Nodes, N

\* The loaded tree has the entries of the one that was saved.
LEMMA BRenumberedEntries ==
    ASSUME NEW t, NEW ht, BTreeOK(t, ht)
    PROVE  SameEntries(t.node, BRenumbered(t).node)
<1> DEFINE N == Len(t.node)
           order == BOrder(t)
           r == BRenumbered(t).node
<1>1. Len(r) = N
  BY BRenumberedOK
<1>2. /\ \A i \in 1 .. N : order[i] \in 1 .. N
      /\ \A n \in 1 .. N : \E k \in 1 .. N : order[k] = n
  BY BOrderIs, BDueIs
<1>3. \A i \in 1 .. N : \A k, v : HasEntry(r[i], k, v) <=> HasEntry(t.node[order[i]], k, v)
  <2> TAKE i \in 1 .. N
  <2>1. BSame(t, i)
    BY BRenumberedNode
  <2> DEFINE x == r[i]
             y == t.node[order[i]]
  <2>2. x.isLeaf = y.isLeaf /\ (x.isLeaf => x = y)
    BY <2>1 DEF BSame
  <2> HIDE DEF x, y
  <2>3. \A k, v : HasEntry(x, k, v) <=> HasEntry(y, k, v)
    BY <2>2 DEF HasEntry
  <2> QED BY <2>3 DEF x, y
<1> HIDE DEF N, order, r
<1>4. \A k, v : InLeaf(r, k, v) <=> InLeaf(t.node, k, v)
  BY <1>1, <1>2, <1>3 DEF InLeaf, N
<1> QED BY <1>4 DEF SameEntries, r

\* The children of a loaded node are numbered one after the other.
LEMMA BRenumberedChildren ==
    ASSUME NEW t, NEW ht, BTreeOK(t, ht), NEW i \in 1 .. Len(t.node)
    PROVE  /\ Len(BTreeChildren(BRenumbered(t))[i]) = Len(BTreeChildren(t)[BOrder(t)[i]])
           /\ DOMAIN BTreeChildren(BRenumbered(t))[i] = DOMAIN BTreeChildren(t)[BOrder(t)[i]]
           /\ \A k \in 1 .. Len(BTreeChildren(BRenumbered(t))[i]) :
                BTreeChildren(BRenumbered(t))[i][k] = BDue(t)[i - 1] + k
<1> DEFINE N == Len(t.node)
           b == BRenumbered(t)
           old == t.node[BOrder(t)[i]]
           new == b.node[i]
           old_kids == BTreeChildren(t)[BOrder(t)[i]]
           new_kids == BTreeChildren(b)[i]
           due == BDue(t)[i - 1]
<1>1. BSame(t, i)
  BY BRenumberedNode
<1>2. PICK up : BTreeOK(b, up)
  BY BRenumberedOK
<1>3. Len(b.node) = N
  BY BRenumberedOK
<1>4. BKidsOf(t, BTreeChildren(t)) /\ BKidsOf(b, BTreeChildren(b))
  BY <1>2, BKidsAre
<1>5. /\ BNodeOK(old) /\ BOrder(t)[i] \in 1 .. N /\ new.isLeaf = old.isLeaf /\ new.key = old.key
      /\ ~new.isLeaf => \A j \in 1 .. Len(old.key) : new.item[j] = due + j
  BY <1>1 DEF BSame
<1>6. /\ old.isLeaf => Len(old_kids) = 0
      /\ ~old.isLeaf => Len(old_kids) = Len(old.key)
  BY <1>4, <1>5 DEF BKidsOf
<1>7. /\ new.isLeaf => Len(new_kids) = 0
      /\ ~new.isLeaf => new_kids = new.item /\ Len(new_kids) = Len(new.key)
  BY <1>3, <1>4 DEF BKidsOf
<1>8. old_kids \in Seq(1 .. N) /\ new_kids \in Seq(1 .. N)
  <2>1. BTreeChildren(t) \in Seq(Seq(1 .. N)) /\ Len(BTreeChildren(t)) = N
    BY <1>4 DEF BKidsOf
  <2>2. BTreeChildren(b) \in Seq(Seq(1 .. N)) /\ Len(BTreeChildren(b)) = N
    BY <1>3, <1>4 DEF BKidsOf
  <2> QED BY <1>5, <2>1, <2>2, ElementOfSeq
<1>a. old.isLeaf \in BOOLEAN
  <2>1. BNodeOK(old)
    BY <1>5
  <2> HIDE DEF old
  <2> QED BY <2>1, BNodeTypes
<1> HIDE DEF old, new, old_kids, new_kids, due, N, b
<1>9. Len(new_kids) = Len(old_kids)
  BY <1>5, <1>6, <1>7, <1>a
<1>10. DOMAIN new_kids = DOMAIN old_kids
  <2>1. DOMAIN new_kids = 1 .. Len(new_kids) /\ DOMAIN old_kids = 1 .. Len(old_kids)
    BY <1>8
  <2> QED BY <1>9, <2>1
<1>11. ASSUME NEW k \in 1 .. Len(new_kids) PROVE new_kids[k] = due + k
  <2>1. CASE new.isLeaf
    <3>1. Len(new_kids) = 0
      BY <1>7, <2>1
    <3> QED BY <3>1
  <2>2. CASE ~new.isLeaf
    BY <1>5, <1>7, <2>2
  <2> QED BY <2>1, <2>2
<1> QED BY <1>9, <1>10, <1>11 DEF new_kids, old_kids, due, b

\* The loaded B-tree is written in the order in which its nodes are numbered.
LEMMA BRenumberedOrder ==
    ASSUME NEW t, NEW ht, BTreeOK(t, ht)
    PROVE  /\ \A i \in 0 .. Len(t.node) : BDue(BRenumbered(t))[i] = BDue(t)[i]
           /\ \A j \in 1 .. Len(t.node) : BOrder(BRenumbered(t))[j] = j
<1> DEFINE N == Len(t.node)
           r == BRenumbered(t)
           due == BDue(t)
           due2 == BDue(r)
           order2 == BOrder(r)
           new == BTreeChildren(r)
           Same(i) == due2[i] = due[i] /\ \A j \in 1 .. due[i] : order2[j] = j
           good == [i \in 0 .. N |-> {x \in {0} : Same(i)}]
           f == [i \in 0 .. N |-> 0]
<1>1. PICK up : BTreeOK(r, up)
  BY BRenumberedOK
<1>2. Len(r.node) = N /\ N \in Nat
  BY BRenumberedOK, BDueIs
<1>3. /\ due \in [0 .. N -> 1 .. N] /\ due[0] = 1 /\ due[N] = N
      /\ \A i \in 1 .. N : i <= due[i - 1] /\ due[i] = due[i - 1] + Len(BTreeChildren(t)[BOrder(t)[i]])
  BY BDueIs
<1>4. /\ due2[0] = 1 /\ order2[1] = 1
      /\ \A i \in 1 .. N : due2[i] = due2[i - 1] + Len(new[order2[i]])
      /\ \A i \in 1 .. N : \A k \in 1 .. Len(new[order2[i]]) :
           order2[due2[i - 1] + k] = new[order2[i]][k]
  <2>1. /\ BDue(r)[0] = 1 /\ BOrder(r)[1] = r.root
        /\ \A i \in 1 .. Len(r.node) :
             BDue(r)[i] = BDue(r)[i - 1] + Len(BTreeChildren(r)[BOrder(r)[i]])
        /\ \A i \in 1 .. Len(r.node) : \A k \in 1 .. Len(BTreeChildren(r)[BOrder(r)[i]]) :
             BOrder(r)[BDue(r)[i - 1] + k] = BTreeChildren(r)[BOrder(r)[i]][k]
    <3> HIDE DEF r
    <3>1. \A i \in 1 .. Len(r.node) :
            BDue(r)[i] = BDue(r)[i - 1] + Len(BTreeChildren(r)[BOrder(r)[i]])
      BY <1>1, BDueIs
    <3>2. \A i \in 1 .. Len(r.node) : \A k \in 1 .. Len(BTreeChildren(r)[BOrder(r)[i]]) :
            BOrder(r)[BDue(r)[i - 1] + k] = BTreeChildren(r)[BOrder(r)[i]][k]
      <4>1. \A i \in 1 .. Len(r.node) : \A k \in 1 .. Len(BTreeChildren(r)[BOrder(r)[i]]) :
              /\ BDue(r)[i - 1] + k \in 1 .. Len(r.node)
              /\ BOrder(r)[BDue(r)[i - 1] + k] = BTreeChildren(r)[BOrder(r)[i]][k]
        BY <1>1, BDueIs, Zenon
      <4> QED BY <4>1, Zenon
    <3>3. BDue(r)[0] = 1 /\ BOrder(r)[1] = r.root
      BY <1>1, BDueIs
    <3> QED BY <3>1, <3>2, <3>3
  <2>2. r.root = 1
    BY BRenumberedOK
  <2> HIDE DEF r, N
  <2> QED BY <1>2, <2>1, <2>2 DEF due2, order2, new
<1>5. \A i \in 1 .. N : /\ Len(new[i]) = Len(BTreeChildren(t)[BOrder(t)[i]])
                        /\ \A k \in 1 .. Len(new[i]) : new[i][k] = due[i - 1] + k
  BY BRenumberedChildren
<1> HIDE DEF N, r, due, due2, order2, new
<1>6. Same(0)
  BY <1>3, <1>4
<1>7. ASSUME NEW i \in 1 .. N, Same(i - 1) PROVE Same(i)
  <2>0. i - 1 \in 0 .. N /\ i \in 0 .. N
    BY <1>2
  <2>a. i <= due[i - 1] /\ due[i - 1] \in 1 .. N /\ due[i] \in 1 .. N
    BY <1>3, <2>0
  <2>1. due[i - 1] \in Nat /\ due[i] \in Nat /\ i \in 1 .. due[i - 1]
    BY <1>2, <2>a
  <2>2. order2[i] = i
    BY <1>7, <2>1
  <2>3. due2[i] = due[i] /\ due[i] = due[i - 1] + Len(new[i])
    BY <1>3, <1>4, <1>5, <1>7, <2>2
  <2>4. ASSUME NEW j \in 1 .. due[i] PROVE order2[j] = j
    <3>1. CASE j <= due[i - 1]
      BY <1>7, <2>1, <3>1
    <3>2. CASE ~(j <= due[i - 1])
      <4> DEFINE k == j - due[i - 1]
      <4>1. Len(new[i]) = due[i] - due[i - 1] /\ Len(new[i]) \in Int
        <5>1. Len(new[i]) = Len(BTreeChildren(t)[BOrder(t)[i]])
          BY <1>5
        <5>2. Len(BTreeChildren(t)[BOrder(t)[i]]) \in Nat
          <6>1. BTreeChildren(t) \in Seq(Seq(1 .. N)) /\ Len(BTreeChildren(t)) = N
            BY BKidsAre DEF BKidsOf, N
          <6>2. BOrder(t)[i] \in 1 .. N
            BY BOrderIs DEF N
          <6>3. BTreeChildren(t)[BOrder(t)[i]] \in Seq(1 .. N)
            BY <6>1, <6>2, ElementOfSeq
          <6> QED BY <6>3, LenProperties
        <5> QED BY <2>1, <2>3, <5>1, <5>2
      <4>2. k \in 1 .. Len(new[i]) /\ due[i - 1] + k = j
        BY <2>1, <3>2, <4>1
      <4> HIDE DEF k
      <4>3. order2[due2[i - 1] + k] = new[i][k]
        BY <1>4, <2>2, <4>2
      <4>4. new[i][k] = due[i - 1] + k
        BY <1>5, <4>2
      <4> QED BY <1>7, <4>2, <4>3, <4>4
    <3> QED BY <3>1, <3>2
  <2> QED BY <2>3, <2>4
<1> HIDE DEF Same
<1>8. f[0] \in good[0] /\ \A i \in 1 .. N : f[i - 1] \in good[i - 1] => f[i] \in good[i]
  <2>1. 0 \in 0 .. N /\ \A i \in 1 .. N : i - 1 \in 0 .. N /\ i \in 0 .. N
    BY <1>2
  <2> QED BY <1>6, <1>7, <2>1
<1>9. \A i \in 0 .. N : f[i] \in good[i]
  <2> HIDE DEF f, good
  <2> QED BY <1>2, <1>8, LoopKeeps
<1>10. \A i \in 0 .. N : Same(i)
  BY <1>9
<1>11. Same(N)
  BY <1>2, <1>10
<1> QED BY <1>3, <1>10, <1>11 DEF Same, N, r, due, due2, order2

\* Written again, a loaded B-tree gives the file it was loaded from.
LEMMA BRenumberedSame ==
    ASSUME NEW t, NEW ht, BTreeOK(t, ht)
    PROVE  BFile(BRenumbered(t)) = BFile(t)
<1> DEFINE N == Len(t.node)
           r == BRenumbered(t)
           order == BOrder(t)
           Part(i) == BTreeFields(t.node[order[i]], BOffsets(t, i))
           NewPart(i) == BTreeFields(r.node[BOrder(r)[i]], BOffsets(r, i))
<1>1. PICK up : BTreeOK(r, up)
  BY BRenumberedOK
<1>2. Len(r.node) = N /\ N \in Nat
  BY BRenumberedOK, BDueIs
<1>3. /\ \A i \in 1 .. N : BOrder(r)[i] = i
      /\ \A i \in 0 .. N : BDue(r)[i] = BDue(t)[i]
  BY BRenumberedOrder
<1>4. \A i \in 1 .. N :
        /\ r.node[i].isLeaf = t.node[order[i]].isLeaf
        /\ r.node[i].key = t.node[order[i]].key
        /\ r.node[i].isLeaf => r.node[i] = t.node[order[i]]
  BY BRenumberedNode DEF BSame
<1>5. \A i \in 1 .. N : DOMAIN BTreeChildren(r)[i] = DOMAIN BTreeChildren(t)[order[i]]
  BY BRenumberedChildren
<1>6. BSizes(r) = [i \in 1 .. N |-> BTreeNodeSize(r.node[BOrder(r)[i]])]
  BY <1>2 DEF BSizes
<1>7. BSizes(t) = [i \in 1 .. N |-> BTreeNodeSize(t.node[order[i]])]
  BY DEF BSizes
<1> HIDE DEF N, r, order
<1>8. BSizes(r) = BSizes(t)
  <2>1. ASSUME NEW i \in 1 .. N
        PROVE  BTreeNodeSize(r.node[BOrder(r)[i]]) = BTreeNodeSize(t.node[order[i]])
    <3>1. BOrder(r)[i] = i
      BY <1>3
    <3>2. CASE r.node[i].isLeaf
      BY <1>4, <3>1, <3>2
    <3>3. CASE ~r.node[i].isLeaf
      <4>1. InnerSize(r.node[i]) = InnerSize(t.node[order[i]])
        BY <1>4 DEF InnerSize
      <4> QED BY <1>4, <3>1, <3>3, <4>1 DEF BTreeNodeSize
    <3> QED BY <3>2, <3>3
  <2> QED BY <1>6, <1>7, <2>1
<1>9. \A i \in 1 .. N : BOffsets(r, i) = BOffsets(t, i)
  <2> TAKE i \in 1 .. N
  <2> DEFINE D == DOMAIN BTreeChildren(t)[order[i]]
  <2>1. BOrder(r)[i] = i /\ DOMAIN BTreeChildren(r)[i] = D /\ BDue(r)[i - 1] = BDue(t)[i - 1]
    BY <1>2, <1>3, <1>5
  <2>2. BOffsets(t, i) = [j \in D |-> Sums(BSizes(t))[BDue(t)[i - 1] + j - 1]]
    BY DEF BOffsets, order
  <2>3. BOffsets(r, i) = [j \in D |-> Sums(BSizes(r))[BDue(r)[i - 1] + j - 1]]
    BY <2>1 DEF BOffsets
  <2> QED BY <1>8, <2>1, <2>2, <2>3
<1>10. ASSUME NEW i \in 1 .. N PROVE NewPart(i) = Part(i)
  <2> DEFINE o == BOffsets(t, i)
  <2>1. BOrder(r)[i] = i /\ BOffsets(r, i) = o
    BY <1>3, <1>9
  <2> HIDE DEF o
  <2>2. CASE r.node[i].isLeaf
    BY <1>4, <2>1, <2>2 DEF o
  <2>3. CASE ~r.node[i].isLeaf
    <3>1. InnerFields(r.node[i], o) = InnerFields(t.node[order[i]], o)
      BY <1>4 DEF InnerFields, FrontFields
    <3> QED BY <1>4, <2>1, <2>3, <3>1 DEF BTreeFields, o
  <2> QED BY <2>2, <2>3
<1>11. BParts(r) = [i \in 1 .. N |-> NewPart(i)] /\ BParts(t) = [i \in 1 .. N |-> Part(i)]
  BY <1>2 DEF BParts, N, order
<1> HIDE DEF Part, NewPart
<1>12. BParts(r) = BParts(t)
  BY <1>10, <1>11
<1> QED BY <1>12 DEF BFile, r

-----------------------------------------------------------------------------
(* One index and its file, a B-tree *)

\* ~BTree meets the nodes in the order in which they are saved.
LEMMA BVisitedIs ==
    ASSUME kind = "btree", NEW t, NEW ht, BTreeOK(t, ht)
    PROVE  Visited(t) = BOrder(t)
<1>1. ~(kind = "trie") /\ ~(t.root = 0)
  BY DEF BTreeOK
<1> QED BY <1>1 DEF Visited, BOrder, BPushed

\* LeafEntries are what InLeaf says of the nodes: all of them are met.
LEMMA LeafEntriesAre ==
    ASSUME kind = "btree", NEW t, IsBTree(t)
    PROVE  \A e : e \in LeafEntries(t) <=> \E k, v : e = <<k, v>> /\ InLeaf(t.node, k, v)
<1> DEFINE visited == Visited(t)
           leaves == {n \in {visited[m] : m \in DOMAIN visited} : t.node[n].isLeaf}
           FiledIn(leaf, i) == {<<leaf.key[i], leaf.item[i][j]>> : j \in DOMAIN leaf.item[i]}
           Of(n) == UNION {FiledIn(t.node[n], i) : i \in DOMAIN t.node[n].key}
<1>1. LeafEntries(t) = UNION {Of(n) : n \in leaves}
  BY DEF LeafEntries
<1>2. CASE t = EmptyBTree
  <2>1. t.node = <<>> /\ t.root = 0
    BY <1>2 DEF EmptyBTree
  <2>2. visited = <<>>
    BY <2>1 DEF Visited
  <2>3. leaves = {}
    BY <2>2
  <2>4. \A k, v : ~InLeaf(t.node, k, v)
    BY <2>1 DEF InLeaf
  <2> HIDE DEF leaves, Of
  <2> QED BY <1>1, <2>3, <2>4
<1>3. CASE ~(t = EmptyBTree)
  <2>1. PICK ht : BTreeOK(t, ht)
    BY <1>3 DEF IsBTree
  <2> DEFINE N == Len(t.node)
  <2>2. visited = BOrder(t)
    BY <2>1, BVisitedIs
  <2>3. /\ BOrder(t) \in Seq(1 .. N) /\ Len(BOrder(t)) = N
        /\ \A i \in 1 .. N : BOrder(t)[i] \in 1 .. N
        /\ \A n \in 1 .. N : \E k \in 1 .. N : BOrder(t)[k] = n
    BY <2>1, BOrderIs, BDueIs
  <2>4. DOMAIN visited = 1 .. N
    BY <2>2, <2>3
  <2>5. \A n : n \in leaves <=> n \in 1 .. N /\ t.node[n].isLeaf
    <3> HIDE DEF N, visited
    <3> QED BY <2>2, <2>3, <2>4
  <2>6. ASSUME NEW n \in leaves
        PROVE  \A e : e \in Of(n) <=> \E k, v : e = <<k, v>> /\ HasEntry(t.node[n], k, v)
    <3>1. n \in 1 .. N /\ t.node[n].isLeaf
      BY <2>5
    <3> DEFINE node == t.node[n]
    <3>2. BNodeOK(node)
      BY <2>1, <3>1 DEF BTreeOK, Wood
    <3> HIDE DEF node
    <3>3. DOMAIN node.key = 1 .. Len(node.key) /\ node.isLeaf
      BY <3>1, <3>2, BNodeTypes DEF node
    <3>4. \A i \in 1 .. Len(node.key) : node.item[i] \in Seq(Nat)
      BY <3>2, <3>3 DEF BNodeOK, BShape
    <3>5. \A i \in 1 .. Len(node.key) : DOMAIN node.item[i] = 1 .. Len(node.item[i])
      BY <3>4
    <3>6. \A k, v : HasEntry(node, k, v) <=>
            \E i \in 1 .. Len(node.key) : node.key[i] = k /\ \E j \in 1 .. Len(node.item[i]) : node.item[i][j] = v
      BY <3>3 DEF HasEntry
    <3>7. \A e : e \in UNION {FiledIn(node, i) : i \in DOMAIN node.key} <=>
            \E i \in 1 .. Len(node.key) : \E j \in 1 .. Len(node.item[i]) : e = <<node.key[i], node.item[i][j]>>
      <4>1. \A i \in 1 .. Len(node.key) : \A e : e \in FiledIn(node, i) <=>
              \E j \in 1 .. Len(node.item[i]) : e = <<node.key[i], node.item[i][j]>>
        BY <3>5
      <4> HIDE DEF FiledIn
      <4> QED BY <3>3, <4>1
    <3>8. \A e : e \in UNION {FiledIn(node, i) : i \in DOMAIN node.key} <=>
                   \E k, v : e = <<k, v>> /\ HasEntry(node, k, v)
      <4> HIDE DEF FiledIn
      <4> TAKE e
      <4>1. ASSUME NEW i \in 1 .. Len(node.key), NEW j \in 1 .. Len(node.item[i]), e = <<node.key[i], node.item[i][j]>>
            PROVE  \E k, v : e = <<k, v>> /\ HasEntry(node, k, v)
        <5>1. HasEntry(node, node.key[i], node.item[i][j])
          BY <3>6
        <5> QED BY <4>1, <5>1, Zenon
      <4>2. ASSUME NEW k, NEW v, e = <<k, v>>, HasEntry(node, k, v)
            PROVE  \E i \in 1 .. Len(node.key) : \E j \in 1 .. Len(node.item[i]) : e = <<node.key[i], node.item[i][j]>>
        <5>1. PICK i \in 1 .. Len(node.key) : node.key[i] = k /\ \E j \in 1 .. Len(node.item[i]) : node.item[i][j] = v
          BY <4>2, Zenon DEF HasEntry
        <5> QED BY <4>2, <5>1
      <4> QED BY <3>7, <4>1, <4>2, Zenon
    <3> QED BY <3>8 DEF node
  <2>7. \A k, v : InLeaf(t.node, k, v) <=> \E n \in leaves : HasEntry(t.node[n], k, v)
    <3> HIDE DEF leaves
    <3> QED BY <2>5 DEF InLeaf, HasEntry
  <2> HIDE DEF leaves, Of
  <2>8. \A e : e \in LeafEntries(t) <=> \E n \in leaves : e \in Of(n)
    BY <1>1
  <2> QED BY <2>6, <2>7, <2>8, Zenon
<1> QED BY <1>2, <1>3

\* The leaves of a B-tree hold the entries of a map.
HoldsEntries(t, map) ==
    /\ map \in [Keys -> Seq(Nat)]
    /\ \A k, v : InLeaf(t.node, k, v) <=> k \in Keys /\ ListHas(map[k], v)

LEMMA HoldsEntriesIs ==
    ASSUME kind = "btree", NEW t, NEW map, IsBTree(t), HoldsEntries(t, map)
    PROVE  LeafEntries(t) = MapEntries(map)
<1>1. \A e : e \in LeafEntries(t) <=> \E k, v : e = <<k, v>> /\ InLeaf(t.node, k, v)
  BY LeafEntriesAre
<1>2. \A e : e \in MapEntries(map) <=> \E k \in Keys : \E i \in DOMAIN map[k] : e = <<k, map[k][i]>>
  BY DEF MapEntries
<1>3. \A k \in Keys : DOMAIN map[k] = 1 .. Len(map[k])
  <2>1. \A k \in Keys : map[k] \in Seq(Nat)
    BY DEF HoldsEntries
  <2> QED BY <2>1
<1>4. \A k, v : InLeaf(t.node, k, v) <=> k \in Keys /\ \E i \in DOMAIN map[k] : map[k][i] = v
  BY <1>3 DEF HoldsEntries, ListHas
<1>5. \A e : e \in LeafEntries(t) <=> e \in MapEntries(map)
  <2> TAKE e
  <2>1. ASSUME NEW k, NEW v, e = <<k, v>>, InLeaf(t.node, k, v)
        PROVE  \E j \in Keys : \E i \in DOMAIN map[j] : e = <<j, map[j][i]>>
    <3>1. k \in Keys /\ \E i \in DOMAIN map[k] : map[k][i] = v
      BY <1>4, <2>1, Zenon
    <3> QED BY <2>1, <3>1, Zenon
  <2>2. ASSUME NEW k \in Keys, NEW i \in DOMAIN map[k], e = <<k, map[k][i]>>
        PROVE  \E j, v : e = <<j, v>> /\ InLeaf(t.node, j, v)
    <3>1. InLeaf(t.node, k, map[k][i])
      BY <1>4, Zenon
    <3> QED BY <2>2, <3>1, Zenon
  <2> QED BY <1>1, <1>2, <2>1, <2>2, Zenon
<1> QED BY <1>5

\* The inductive invariant of a program built with the B-tree: the index is one, the file
\* what some B-tree wrote, and both have the entries of the map.
SavedBTree == \E t, ht : BTreeOK(t, ht) /\ file = BFile(t) /\ HoldsEntries(t, saved)
BTreeInv ==
    /\ IsBTree(index) /\ HoldsEntries(index, pending)
    /\ \/ file = NoFile /\ ~loaded
       \/ file # NoFile /\ SavedBTree
    /\ loaded => index = BTreeRead(file)

\* Any saved B-tree can be loaded, has the entries it had, and is saved as it was.
LEMMA BSavedAndLoaded ==
    ASSUME NEW t, NEW ht, BTreeOK(t, ht)
    PROVE  /\ BFile(t) \in Seq(Nat) /\ BFile(t) # NoFile
           /\ IsBTree(BTreeRead(BFile(t))) /\ ~(BTreeRead(BFile(t)).root = 0)
           /\ SameEntries(t.node, BTreeRead(BFile(t)).node)
           /\ \A old : BTreeWrite(BTreeRead(BFile(t)), old) = BFile(t)
<1>1. BTreeRead(BFile(t)) = BRenumbered(t)
  BY BReadIs
<1>2. PICK up : BTreeOK(BRenumbered(t), up)
  BY BRenumberedOK
<1>3. IsBTree(BRenumbered(t)) /\ ~(BRenumbered(t).root = 0)
  <2>1. IsBTree(BRenumbered(t))
    BY <1>2, Zenon DEF IsBTree
  <2>2. BRenumbered(t).root = 1
    BY BRenumberedOK
  <2> QED BY <2>1, <2>2
<1>4. SameEntries(t.node, BRenumbered(t).node)
  BY BRenumberedEntries
<1>5. BFile(BRenumbered(t)) = BFile(t)
  BY BRenumberedSame
<1>6. \A old : BTreeWrite(BRenumbered(t), old) = BFile(t)
  BY <1>2, <1>5, BWriteIs
<1>7. PICK n \in Nat : n >= 1 /\ n = Len(t.node)
  BY DEF BTreeOK, BTreeType
<1>8. BFile(t) \in Seq(Nat)
  <2>1. 1 \in 1 .. Len(t.node)
    BY <1>7
  <2> QED BY <2>1, BNextReadIs
<1> QED BY <1>1, <1>3, <1>4, <1>6, <1>8, NoFileAssumption

\* An empty B-tree holds the entries of an empty map and no others.
LEMMA EmptyEntries ==
    /\ IsBTree(EmptyBTree) /\ HoldsEntries(EmptyBTree, [k \in Keys |-> <<>>])
<1> DEFINE none == [k \in Keys |-> <<>>]
<1>1. none \in [Keys -> Seq(Nat)] /\ \A k \in Keys : Len(none[k]) = 0
  OBVIOUS
<1>2. \A k, v : ~InLeaf(EmptyBTree.node, k, v)
  BY DEF InLeaf, EmptyBTree
<1> HIDE DEF none
<1>3. \A k \in Keys : \A v : ~ListHas(none[k], v)
  BY <1>1 DEF ListHas
<1> QED BY <1>1, <1>2, <1>3 DEF HoldsEntries, IsBTree, none

\* addItem adds one entry to the map and to the tree.
LEMMA AddEntry ==
    ASSUME NEW t, NEW map, HoldsEntries(t, map), NEW key \in Keys, NEW val \in Nat,
           NEW new, EntryIn(t.node, key, val, new.node)
    PROVE  HoldsEntries(new, [map EXCEPT ![key] = Append(@, val)])
<1> DEFINE more == [map EXCEPT ![key] = Append(@, val)]
<1>1. map \in [Keys -> Seq(Nat)] /\ map[key] \in Seq(Nat)
  BY DEF HoldsEntries
<1>2. more \in [Keys -> Seq(Nat)] /\ more[key] = Append(map[key], val)
      /\ \A k \in Keys : k # key => more[k] = map[k]
  BY <1>1
<1>3. \A v : ListHas(Append(map[key], val), v) <=> ListHas(map[key], v) \/ v = val
  <2> DEFINE list == map[key]
             longer == Append(list, val)
  <2>1. Len(list) \in Nat /\ Len(longer) = Len(list) + 1 /\ longer[Len(list) + 1] = val
        /\ \A j \in 1 .. Len(list) : longer[j] = list[j]
    BY <1>1
  <2> HIDE DEF list, longer
  <2>2. \A v : ListHas(longer, v) <=> ListHas(list, v) \/ v = val
    BY <2>1 DEF ListHas
  <2> QED BY <2>2 DEF list, longer
<1> HIDE DEF more
<1>4. ASSUME NEW k, NEW v
      PROVE  InLeaf(new.node, k, v) <=> k \in Keys /\ ListHas(more[k], v)
  <2>1. InLeaf(new.node, k, v) <=> InLeaf(t.node, k, v) \/ (k = key /\ v = val)
    BY DEF EntryIn
  <2>2. InLeaf(t.node, k, v) <=> k \in Keys /\ ListHas(map[k], v)
    BY DEF HoldsEntries
  <2>3. CASE k = key
    BY <1>2, <1>3, <2>1, <2>2, <2>3
  <2>4. CASE k # key
    BY <1>2, <2>1, <2>2, <2>4
  <2> QED BY <2>3, <2>4
<1> QED BY <1>2, <1>4 DEF HoldsEntries, more

\* The invariant holds at the start.
LEMMA InitBTreeInv == Init => (kind = "btree" => BTreeInv)
<1> SUFFICES ASSUME Init, kind = "btree" PROVE BTreeInv
  OBVIOUS
<1>1. index = EmptyBTree /\ file = NoFile /\ ~loaded /\ pending = [k \in Keys |-> <<>>]
  BY DEF Init, NewIndex, Map!Init, Map!Nothing
<1> QED BY <1>1, EmptyEntries DEF BTreeInv

\* Every step keeps it.
LEMMA NextBTreeInv == Inv /\ (kind = "btree" => BTreeInv) /\ [Next]_vars => (kind = "btree" => BTreeInv)'
<1> SUFFICES ASSUME Inv, kind = "btree" => BTreeInv, [Next]_vars, kind' = "btree" PROVE BTreeInv'
  OBVIOUS
<1>0. kind = "btree" /\ BTreeInv
  BY DEF Next, AddItem, Write, Read, vars
<1>1. ASSUME NEW k \in Keys, AddItem(k) PROVE BTreeInv'
  <2> DEFINE new == BTreeAdd(index, k, value + 1)
  <2>1. /\ index' = new /\ pending' = [pending EXCEPT ![k] = Append(@, value + 1)]
        /\ ~loaded /\ UNCHANGED <<file, saved, loaded>>
    BY <1>0, <1>1 DEF AddItem, Map!Add
  <2>2. k \in Nat /\ value + 1 \in Nat
    BY KeysAssumption, BoundsAssumption DEF Inv, BaseInv
  <2>3. IsBTree(new) /\ EntryIn(index.node, k, value + 1, new.node)
    BY <1>0, <2>2, BTreeAddOK DEF BTreeInv
  <2> HIDE DEF new
  <2>4. IsBTree(index') /\ HoldsEntries(index', pending')
    BY <1>0, <2>1, <2>2, <2>3, AddEntry DEF BTreeInv
  <2>5. HoldsEntries(index, pending)' <=> HoldsEntries(index', pending')
    BY DEF HoldsEntries
  <2>6. SavedBTree' <=> SavedBTree
    BY <2>1 DEF SavedBTree, HoldsEntries
  <2> QED BY <1>0, <2>1, <2>4, <2>5, <2>6 DEF BTreeInv
<1>2. ASSUME Write PROVE BTreeInv'
  <2>1. /\ file' = BTreeWrite(index, file) /\ index' = EmptyBTree /\ ~loaded'
        /\ saved' = (IF index.root = 0 THEN saved ELSE pending) /\ pending' = [k \in Keys |-> <<>>]
    BY <1>0, <1>2 DEF Write, NewIndex, Map!Write, Map!Nothing
  <2>2. (IsBTree(index) /\ HoldsEntries(index, pending))'
    BY <2>1, EmptyEntries DEF HoldsEntries
  <2>3. CASE index.root = 0
    <3>1. file' = file /\ saved' = saved
      BY <2>1, <2>3 DEF BTreeWrite
    <3>2. SavedBTree' <=> SavedBTree
      BY <3>1 DEF SavedBTree, HoldsEntries
    <3> QED BY <1>0, <2>1, <2>2, <3>1, <3>2 DEF BTreeInv
  <2>4. CASE ~(index.root = 0)
    <3>1. PICK ht : BTreeOK(index, ht)
      BY <1>0, <2>4 DEF BTreeInv, IsBTree, EmptyBTree
    <3>2. file' = BFile(index) /\ file' # NoFile
      BY <2>1, <3>1, BWriteIs, BSavedAndLoaded
    <3>3. saved' = pending /\ HoldsEntries(index, pending)
      BY <1>0, <2>1, <2>4 DEF BTreeInv
    <3>4. SavedBTree'
      BY <3>1, <3>2, <3>3 DEF SavedBTree, HoldsEntries
    <3> QED BY <2>1, <2>2, <3>2, <3>4 DEF BTreeInv
  <2> QED BY <2>3, <2>4
<1>3. ASSUME Read PROVE BTreeInv'
  <2>1. file # NoFile /\ index' = BTreeRead(file) /\ loaded' /\ pending' = saved /\ UNCHANGED <<file, saved>>
    BY <1>0, <1>3 DEF Read, Load, Map!Read
  <2>2. SavedBTree
    BY <1>0, <2>1 DEF BTreeInv
  <2>3. PICK t, ht : BTreeOK(t, ht) /\ file = BFile(t) /\ HoldsEntries(t, saved)
    BY <2>2 DEF SavedBTree
  <2>4. IsBTree(index') /\ SameEntries(t.node, index'.node)
    BY <2>1, <2>3, BSavedAndLoaded
  <2>5. HoldsEntries(index, pending)'
    BY <2>1, <2>3, <2>4 DEF HoldsEntries, SameEntries
  <2>6. SavedBTree'
    BY <2>1, <2>2 DEF SavedBTree, HoldsEntries
  <2> QED BY <2>1, <2>4, <2>5, <2>6 DEF BTreeInv
<1>4. CASE UNCHANGED vars
  BY <1>0, <1>4 DEF BTreeInv, SavedBTree, HoldsEntries, vars
<1> QED BY <1>1, <1>2, <1>3, <1>4 DEF Next

LEMMA AlwaysBTreeInv == Spec => [](kind = "btree" => BTreeInv)
<1>1. Init => (kind = "btree" => BTreeInv)
  BY InitBTreeInv
<1>2. Inv /\ (kind = "btree" => BTreeInv) /\ [Next]_vars => (kind = "btree" => BTreeInv)'
  BY NextBTreeInv
<1> QED BY <1>1, <1>2, AlwaysInv, PTL DEF Spec

\* One of the two indexes.
LEMMA KindIs == ASSUME Inv PROVE kind = "trie" \/ kind = "btree"
  BY KindsAssumption DEF Inv, BaseInv

\* The types of the index, its file and the values, for either index.
THEOREM TypeCorrect == Spec => []TypeOK
<1>1. ASSUME Inv, kind = "btree" => BTreeInv, kind = "btree" PROVE TypeOK
  <2>1. BaseInv /\ BTreeInv
    BY <1>1 DEF Inv
  <2>2. index \in BTreeType /\ index.nodeCount = Len(index.node) /\ IsBTree(index)
    BY <2>1, RootIs DEF BTreeInv
  <2>3. index.root \in 0 .. Len(index.node) /\ index.treeDepth \in Nat /\ index.nodeCount \in Nat
    <3>1. index.treeDepth \in Nat /\ index.nodeCount \in Nat /\ index.root \in Nat
      BY <2>2 DEF BTreeType
    <3>2. index.root = 0 \/ index.root \in 1 .. Len(index.node)
      BY <2>2 DEF IsBTree, BTreeOK, EmptyBTree
    <3>3. 0 \in 0 .. Len(index.node) /\ 1 .. Len(index.node) \subseteq 0 .. Len(index.node)
      BY <2>2, <3>1
    <3> QED BY <3>1, <3>2, <3>3
  <2>4. file = NoFile \/ file \in Seq(Nat)
    BY <2>1, BSavedAndLoaded DEF BTreeInv, SavedBTree
  <2>5. file = NoFile \/ \A i \in DOMAIN file : file[i] \in Nat
    BY <2>4
  <2> QED BY <2>1, <2>3, <2>5 DEF TypeOK, BaseInv
<1>2. Inv /\ (kind = "btree" => BTreeInv) /\ (kind = "trie" => TypeOK) => TypeOK
  BY <1>1, KindIs
<1> QED BY <1>2, AlwaysInv, AlwaysBTreeInv, TrieTypeOK, PTL

\* The destructors count every node down and meet none twice, however the index was
\* built: nodeCount is 0 when they have ended.
THEOREM NodesAreCounted == Spec => []NodesCounted
<1>1. ASSUME Inv, kind = "btree" => BTreeInv, kind = "btree" PROVE NodesCounted
  <2>1. IsBTree(index)
    BY <1>1 DEF BTreeInv
  <2>2. CASE index = EmptyBTree
    <3>1. index.root = 0 /\ index.nodeCount = 0 /\ ~(kind = "trie")
      BY <1>1, <2>2 DEF EmptyBTree
    <3>2. Visited(index) = <<>>
      BY <3>1 DEF Visited
    <3> QED BY <3>1, <3>2 DEF NodesCounted
  <2>3. CASE \E ht : BTreeOK(index, ht)
    <3>1. PICK ht : BTreeOK(index, ht)
      BY <2>3
    <3>2. Visited(index) = BOrder(index) /\ Len(BOrder(index)) = Len(index.node)
      BY <1>1, <3>1, BVisitedIs, BOrderIs
    <3>3. index.nodeCount = Len(index.node)
      BY <3>1 DEF BTreeOK
    <3> QED BY <3>2, <3>3 DEF NodesCounted
  <2> QED BY <2>1, <2>2, <2>3 DEF IsBTree
<1>2. Inv /\ (kind = "btree" => BTreeInv) /\ (kind = "trie" => NodesCounted) => NodesCounted
  BY <1>1, KindIs
<1> QED BY <1>2, AlwaysInv, AlwaysBTreeInv, TrieNodesCounted, PTL

\* An index loaded from a file, written again, gives the same file.
THEOREM ReloadedIsSame == Spec => []ReloadedSame
<1>1. ASSUME Inv, kind = "btree" => BTreeInv, kind = "btree" PROVE ReloadedSame
  <2> SUFFICES ASSUME loaded PROVE file = BTreeWrite(index, file)
    BY <1>1 DEF ReloadedSame
  <2>1. index = BTreeRead(file) /\ SavedBTree
    BY <1>1 DEF BTreeInv
  <2>2. PICK t, ht : BTreeOK(t, ht) /\ file = BFile(t)
    BY <2>1 DEF SavedBTree
  <2> QED BY <2>1, <2>2, BSavedAndLoaded
<1>2. Inv /\ (kind = "btree" => BTreeInv) /\ (kind = "trie" => ReloadedSame) => ReloadedSame
  BY <1>1, KindIs
<1> QED BY <1>2, AlwaysInv, AlwaysBTreeInv, TrieReloadedSame, PTL

\* No split and no save or load of a B-tree loses or invents an entry, or files it under
\* another key, for any keys and any size of its nodes.
THEOREM EntriesAreKept == Spec => []EntriesKept
<1>1. ASSUME kind = "btree", BTreeInv PROVE EntriesKept
  <2>1. LeafEntries(index) = MapEntries(pending)
    BY <1>1, HoldsEntriesIs DEF BTreeInv
  <2>2. ASSUME file # NoFile PROVE LeafEntries(Load(file)) = MapEntries(saved)
    <3>1. PICK t, ht : BTreeOK(t, ht) /\ file = BFile(t) /\ HoldsEntries(t, saved)
      BY <1>1, <2>2 DEF BTreeInv, SavedBTree
    <3> DEFINE read == BTreeRead(file)
    <3>2. IsBTree(read) /\ SameEntries(t.node, read.node)
      BY <3>1, BSavedAndLoaded
    <3>3. Load(file) = read
      BY <1>1 DEF Load
    <3> HIDE DEF read
    <3>4. HoldsEntries(read, saved)
      BY <3>1, <3>2 DEF HoldsEntries, SameEntries
    <3> QED BY <1>1, <3>2, <3>3, <3>4, HoldsEntriesIs
  <2> QED BY <1>1, <2>1, <2>2 DEF EntriesKept
<1>2. (kind = "btree" => BTreeInv) => EntriesKept
  BY <1>1 DEF EntriesKept
<1> QED BY <1>2, AlwaysBTreeInv, PTL
=============================================================================
